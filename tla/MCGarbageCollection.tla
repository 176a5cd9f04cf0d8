------------------------ MODULE MCGarbageCollection ------------------------
(* Instances of GarbageCollection for model checking. *)
EXTENDS GarbageCollection, TLC

CONSTANTS a, b

\* Two devices; the commits of a share an object, and
\* so do the devices.
TwoDevices == a :> << {1, 2}, {2, 3, 4} >> @@ b :> << {2, 5, 6}, {7, 8} >>

\* The command line makes a new identifier for every push; the graphical
\* program uses one for all.
OwnIds  == [c \in {a, b} |-> [k \in 1..MaxOps |-> <<c, k>>]]

\* The code as it is, with every push compacting; and without what loses
\* published objects: caches that are kept, and crashes before the ref.
AsIsAndCareful ==
  {[bound |-> 1, kept |-> TRUE, torn |-> TRUE], [bound |-> 2, kept |-> FALSE, torn |-> FALSE]}
============================================================================
