---------------------------- MODULE MCPublisher ----------------------------
(* Publisher with the symmetry of its writers, for model checking. *)
EXTENDS Publisher

Symmetry == Permutations(Writers)

============================================================================
