---------------------------- MODULE RefHistory ----------------------------
(***************************************************************************)
(* What a remote branch ref promises, with no protocol in sight: the ref   *)
(* is absent (version 0, empty chain) or names a snapshot chain, oldest    *)
(* snapshot first, under a version; publishing is atomic, takes the next   *)
(* version, and every published chain properly extends the one before it,  *)
(* so that no published snapshot is ever lost or published twice.          *)
(***************************************************************************)
EXTENDS Naturals, SequencesExt

CONSTANT Snapshots          \* snapshot identifiers

VARIABLE ref                \* [version, chain]

NoRef == [version |-> 0, chain |-> << >>]

Init == ref = NoRef

Publish ==
  /\ ref'.chain \in Seq(Snapshots)
  /\ IsStrictPrefix(ref.chain, ref'.chain)
  /\ ref' = [version |-> ref.version + 1, chain |-> ref'.chain]

Spec == Init /\ [][Publish]_ref

============================================================================
