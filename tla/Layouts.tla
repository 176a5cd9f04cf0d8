------------------------------ MODULE Layouts ------------------------------
(***************************************************************************)
(* Rewrites, layout changes and pushes on one remote.                      *)
(***************************************************************************)
EXTENDS ObliviousLayout

LayoutsInit == CopiesInit /\ RewriteInit

\* Pushes come between the commands of the admin device, if not setup.during.
\* Only if setup.late do they come after the first layout change, and commits
\* between an interrupted rewrite and its resume.
Others == /\ setup.during \/ work = NoWork
          /\ setup.late \/ used.layouts = 0
          /\ (\E b \in Branches : OtherFetch(b)) \/ OtherPush
          /\ UNCHANGED <<work, checkpoint>>

Admin == /\ work = NoWork
         /\ setup.late \/ used.layouts = 0
         /\ \/ AdminCommit /\ (setup.late \/ ~Pending)
            \/ AdminPush
         /\ UNCHANGED <<work, checkpoint>>

Step == \/ RewriteStep \/ LayoutStep

LayoutsNext ==
  \/ Others \/ Admin
  \/ Resume \/ StartRewrite
  \/ AlreadyEnabled \/ \E kind \in {"enable", "reshuffle"} : StartLayout(kind)
  \/ Step \/ Interrupt

\* The admin repeats an interrupted rewrite.
Fairness == WF_rewriteVars(Resume) /\ WF_rewriteVars(RewriteStep)

LayoutsSpec == LayoutsInit /\ [][LayoutsNext]_rewriteVars /\ Fairness

(***************************************************************************)
(* Properties                                                              *)
(***************************************************************************)
\* Whenever no rewrite is under way, a holder of the published keyring reads
\* every branch through the published layout: each ref, each index segment and
\* each object it reaches is there, found once, and under a key that was not
\* retired, wherever the layout changes and the rewrites stopped.
HeadsAreReadable == ~Pending => \A b \in Branches : Readable(b, published.keys)

\* Old keys are retired only when nothing that a local ref reaches, and no
\* local ref, is under them, in whatever state a stopped rewrite left the copies.
RetiredKeysAreUnused ==
  /\ \A o \in LocalReach : o \in DOMAIN copies /\ copies[o] \in keyring.keys
  /\ default.epoch \in keyring.keys
  /\ \A b \in Branches : mirror[b] = NoBranch \/ mirror[b].epoch \in keyring.keys

\* A rewrite that reached its checkpoint is published in the end, by a run or a
\* resume that is not interrupted.
RewriteEnds == Pending ~> ~Pending
=============================================================================
