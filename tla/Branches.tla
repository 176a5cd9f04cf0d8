------------------------------ MODULE Branches ------------------------------
(***************************************************************************)
(* The commands that move the refs of a repository, from one desk, with    *)
(* another device that pushes to the same remote.                          *)
(***************************************************************************)
EXTENDS Repository

CONSTANT TreeAt  \* the tree of each snapshot up to MaxSnapshots + 1

BranchesInit == RepositoryInit

Command(i) == \/ Commit(i, TreeAt[NextId])
              \/ BranchCommand(i) \/ RemoteCommand(i)
              \/ WriteRef(i) \/ Finish(i) \/ CrashCommand(i)

OtherDevice == RemoteCommit(TreeAt[NextId])

BranchesNext == OtherDevice \/ \E i \in Procs : Command(i)

BranchesSpec == BranchesInit /\ [][BranchesNext]_repoVars
=============================================================================
