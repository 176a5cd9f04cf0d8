----------------------------- MODULE MCLayouts -----------------------------
EXTENDS Layouts

MCHistory == <<0, 1, 1>>
MCHeads == [b \in Branches |-> IF b = Main THEN 2 ELSE 3]
MCPacked == {1, 3}

Nothing == [snapshots |-> 3, crashes |-> 0, rewrites |-> 0, layouts |-> 0,
            uploads |-> {"packed", "loose"}, during |-> FALSE, late |-> FALSE]

\* Interrupted rewrites, and pushes between their runs.
Rewrites == [Nothing EXCEPT !.snapshots = 5, !.crashes = 2, !.rewrites = 1]

\* A rewrite, and a push at any point of it.
Overtaken == [Nothing EXCEPT !.snapshots = 4, !.rewrites = 1, !.during = TRUE]

\* Layout changes of what was pushed before.
Changes == [Nothing EXCEPT !.snapshots = 4, !.crashes = 2, !.layouts = 3]

\* Layout changes that nothing interrupts, and a push of loose objects at any point.
LoosePushes == [Nothing EXCEPT !.snapshots = 4, !.layouts = 3, !.uploads = {"loose"},
                               !.during = TRUE, !.late = TRUE]

InTurn == {Rewrites, Overtaken, Changes, LoosePushes}

=============================================================================
