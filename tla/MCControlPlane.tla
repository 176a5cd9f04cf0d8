--------------------------- MODULE MCControlPlane ---------------------------
(* Instances of ControlPlane for model checking. *)
EXTENDS ControlPlane, TLC

CONSTANTS a, b, m

\* One device revokes and changes the password, and pushes take turns.
Turns(in, join, ver, n, k, c) ==
  [serial |-> TRUE, joined |-> in, rotators |-> {a}, changers |-> {a}, joiners |-> join,
   verifiers |-> ver,
   commits |-> n, updates |-> k, crashes |-> c]

\* Pushes overlap, two devices change the password, and nobody is revoked.
Overlap ==
  [serial |-> FALSE, joined |-> {a, b}, rotators |-> {}, changers |-> {a, b},
   joiners |-> {}, verifiers |-> {a}, commits |-> 1, updates |-> 2, crashes |-> 0]

\* A revocation beside an admin that does not revoke; one with a crash; one
\* beside a device that is being invited; and pushes that overlap.
Sound ==
  {Turns({a, b, m}, {}, {}, 1, 1, 0),
   Turns({a, m}, {}, {a, m}, 1, 1, 1),
   Turns({a}, {m}, {a}, 1, 1, 0), Overlap}
=============================================================================
