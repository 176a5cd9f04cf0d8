----------------------------- MODULE MCReadPath ----------------------------
(* Instances of ReadPath for model checking. *)
EXTENDS ReadPath, TLC

CONSTANTS m1, m2, h1, h2

\* Three chunks; a file with two of them inline, one of three in two shards.
Payload == 1 :> <<1, 2>> @@ 2 :> <<3>> @@ 3 :> <<4>>
Files == "f" :> <<1, 2>> @@ "g" :> <<2, 1, 3>>
TwoVersions == << "p" :> "f", "p" :> "g" >>
OnePack == [c \in 1..3 |-> IF c = 3 THEN "y" ELSE "x"]

\* The whole and more, parts, the last byte or the end.
Asked == {<<0, 5>>, <<1, 1>>, <<2, 2>>, <<3, 4>>}
Wanted == {[kind |-> "write", offset |-> 4, bytes |-> <<9>>],
           [kind |-> "append", offset |-> 0, bytes |-> <<8>>],
           [kind |-> "resize", offset |-> 1, bytes |-> << >>]}

Together == (h1 :> m1) @@ (h2 :> m1)
Apart == (h1 :> m1) @@ (h2 :> m2)
\* Edits and two readers of one mount, in memory; missing chunks and packs;
\* two mounts that share the disk cache; one mount that moves to a new version.
Editing == [host |-> Together, budget |-> 4, disk |-> FALSE, writable |-> TRUE,
            missing |-> {}, calls |-> 3, crashes |-> 0, syncs |-> 0, versions |-> 2]
Missing == [host |-> Apart, budget |-> 0, disk |-> FALSE, writable |-> FALSE,
            missing |-> {2, 3}, calls |-> 2, crashes |-> 0, syncs |-> 3, versions |-> 1]
Sharing == [host |-> Apart, budget |-> 3, disk |-> TRUE, writable |-> FALSE,
            missing |-> {}, calls |-> 3, crashes |-> 1, syncs |-> 0, versions |-> 1]
Moving  == [host |-> Together, budget |-> 4, disk |-> TRUE, writable |-> FALSE,
            missing |-> {}, calls |-> 2, crashes |-> 1, syncs |-> 0, versions |-> 2]
Several == {Editing, Missing, Sharing, Moving}
============================================================================
