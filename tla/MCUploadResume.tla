--------------------------- MODULE MCUploadResume --------------------------
(* Instances of UploadResume for model checking. *)
EXTENDS UploadResume, TLC

CONSTANTS a, b

\* One snapshot, of more objects than a page or a pack.
OneSnapshot == a :> << 1..5 >>

\* Two clients whose files have some content in common.
TwoClients == a :> << {1, 2}, {1, 3} >> @@ b :> << {2, 4, 5} >>

\* Two clients with one snapshot each, and an object in common.
TwoSnapshots == a :> << {1, 2, 3} >> @@ b :> << {3, 4} >>

============================================================================
