------------------------------ MODULE Keyring ------------------------------
(***************************************************************************)
(* The content of a keyring generation and the ways it is made             *)
(* (e2v-core keyring.rs and facade.rs).  An envelope is what it opens: the *)
(* device envelopes go to the active devices, and the password envelope is *)
(* the password that opens it, 0 where there is none; keys[e] is the key   *)
(* of epoch e, the last one the active epoch's.                             *)
(***************************************************************************)
EXTENDS Naturals, Sequences

CONSTANTS
  Devices,    \* device identifiers
  Keys        \* epoch keys

NoPassword == 0

Epoch(k) == Len(k.keys)

ActiveKey(k) == k.keys[Epoch(k)]

\* What a comparison of two keyrings looks at: neither the generation nor an
\* envelope.
Comparable(k) == <<k.active, k.revoked, Epoch(k)>>

\* A device record that either side revokes is revoked.
MergeRevoked(l, r) == l.revoked \cup r.revoked
MergeActive(l, r) == (l.active \cup r.active) \ MergeRevoked(l, r)

\* Mutant: the password envelope is the local one if no later epoch is known.
MergePassword_local(l, r) == IF Epoch(l) >= Epoch(r) THEN l.pw ELSE r.pw

\* The side whose password envelope a merged keyring takes.
MergePassword(l, r) ==
  CASE Epoch(l) >= Epoch(r) /\ l.pw # NoPassword -> l.pw
    [] Epoch(r) >= Epoch(l) /\ r.pw # NoPassword -> r.pw
    [] OTHER -> IF l.pw # NoPassword THEN l.pw ELSE r.pw

\* The local secrets count if no later epoch is known.
MergeKeys(l, r) == IF Epoch(l) >= Epoch(r) THEN l.keys ELSE r.keys

MergeGen(l, r) == (IF l.gen > r.gen THEN l.gen ELSE r.gen) + 1

Merge(l, r) ==
  [gen |-> MergeGen(l, r), active |-> MergeActive(l, r),
   revoked |-> MergeRevoked(l, r), keys |-> MergeKeys(l, r),
   pw |-> MergePassword(l, r)]

\* The keyring did not change if only the generation or an envelope would.
SameAfterMerge(l, r) == Comparable(Merge(l, r)) = Comparable(l)

WithPassword(k, p) == [k EXCEPT !.gen = @ + 1, !.pw = p]

\* Mutant: the device is revoked, and the epoch key stays.
Revoke_sameKey(k, d, key) ==
  [k EXCEPT !.gen = @ + 1, !.active = @ \ {d}, !.revoked = @ \cup {d},
            !.keys = Append(@, ActiveKey(k))]

Revoke(k, d, key) ==
  [k EXCEPT !.gen = @ + 1, !.active = @ \ {d}, !.revoked = @ \cup {d},
            !.keys = Append(@, key)]

\* What an invited device starts from: itself alone, and no password.
Bootstrap(k, d) ==
  [gen |-> k.gen + 1, active |-> {d}, revoked |-> {}, keys |-> k.keys,
   pw |-> NoPassword]

\* The envelope of the device, or none.
Opens(d, k) == d \in k.active
Holds(k, key) == \E e \in 1..Epoch(k) : k.keys[e] = key
============================================================================
