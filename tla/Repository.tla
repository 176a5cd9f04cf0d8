----------------------------- MODULE Repository -----------------------------
(***************************************************************************)
(* The local history of one repository (e2v-core, facade.rs): snapshots,   *)
(* the file of the checked out branch (refs/default.json), the branch      *)
(* files (under refs/branches), and the commands that move them.  A        *)
(* command reads the refs, builds its snapshot and then writes its ref     *)
(* files one after the other; no lock covers the span, and a crash may     *)
(* fall between two writes.                                                *)
(***************************************************************************)
EXTENDS Integers, FiniteSets, SequencesExt, TLC

CONSTANTS Tokens,       \* branches
          Main,         \* the branch init creates
          Paths,        \* paths of files and directories, sequences of names
          Procs,        \* processes that work on the repository
          MaxSnapshots, \* bound on snapshots
          Concurrent,   \* whether commands of two processes overlap
          PullMayCrash  \* whether a crash may fall into the fetch of a pull

ASSUME RepositoryAssumption ==
  /\ Main \in Tokens
  /\ Paths \subseteq Seq(STRING) \ {<< >>}
  /\ MaxSnapshots \in Nat
  /\ Concurrent \in BOOLEAN /\ PullMayCrash \in BOOLEAN

VARIABLES snaps,    \* the snapshots, in the order they were written
          default,  \* refs/default.json: the current branch and its head
          branch,   \* the branch files
          remote,   \* head of Main on the remote
          op,       \* what each process still has to write
          acked     \* branches and heads whose command reported success

repoVars == <<snaps, default, branch, remote, op, acked>>

Dir  == 0    \* a directory in a tree; files are positive object ids
None == -1   \* a branch file that is not there

Tree(h) == IF h = 0 THEN << >> ELSE snaps[h].tree

Ancestry ==
  LET anc[h \in 0..Len(snaps)] ==
        {h} \cup (IF h = 0 THEN {} ELSE anc[snaps[h].parent])
  IN anc

(***************************************************************************)
(* Trees.  A path is missing, a file with its object, or a directory with  *)
(* all that is beneath: the restriction of the tree to the path.           *)
(***************************************************************************)
PathState(t, p) == Restrict(t, {q \in DOMAIN t : IsPrefix(p, q)})

IsDir(t, p) == p = << >> \/ (p \in DOMAIN t /\ t[p] = Dir)

\* Above every entry there is a directory.
TreeOk(t) ==
  /\ t \in [DOMAIN t -> Nat] /\ DOMAIN t \subseteq Seq(STRING)
  /\ \A p \in DOMAIN t : IsDir(t, Front(p))

FilesOf(t) == Restrict(t, {p \in DOMAIN t : t[p] # Dir})

Kind(t, p) == IF p \notin DOMAIN t THEN "missing"
              ELSE IF t[p] = Dir THEN "directory" ELSE "file"

\* One change of an overlay.  path and to coincide but for a rename.
Change(kind, p, to, id) == [kind |-> kind, path |-> p, to |-> to, id |-> id]

Moved(t, p, to) ==
  LET under == {q \in DOMAIN t : IsPrefix(p, q)}
      New(q) == to \o SubSeq(q, Len(p) + 1, Len(q))
      back == [x \in {New(q) : q \in under} |-> CHOOSE q \in under : New(q) = x]
  IN [x \in (DOMAIN t \ under) \cup DOMAIN back |->
        IF x \in DOMAIN back THEN t[back[x]] ELSE t[x]]

Without(t, p) == Restrict(t, {q \in DOMAIN t : ~IsPrefix(p, q)})

\* Mutant: a rename does not look at the directory it moves into.
Applies_orphan(t, ch) ==
  CASE ch.kind = "mkdir"  -> IsDir(t, Front(ch.path)) /\ Kind(t, ch.path) # "file"
    [] ch.kind = "upsert" -> IsDir(t, Front(ch.path)) /\ Kind(t, ch.path) # "directory"
    [] ch.kind = "rm"     -> Kind(t, ch.path) = "file"
    [] ch.kind = "rmdir"  -> IsDir(t, ch.path) /\ DOMAIN PathState(t, ch.path) = {ch.path}
    [] ch.kind = "rename" -> ch.path \in DOMAIN t /\ ch.to \notin DOMAIN t

Applies(t, ch) ==
  CASE ch.kind = "mkdir"  -> IsDir(t, Front(ch.path)) /\ Kind(t, ch.path) # "file"
    [] ch.kind = "upsert" -> IsDir(t, Front(ch.path)) /\ Kind(t, ch.path) # "directory"
    [] ch.kind = "rm"     -> Kind(t, ch.path) = "file"
    [] ch.kind = "rmdir"  -> IsDir(t, ch.path) /\ DOMAIN PathState(t, ch.path) = {ch.path}
    [] ch.kind = "rename" -> /\ ch.path \in DOMAIN t
                             /\ ch.to \notin DOMAIN Without(t, ch.path)
                             /\ IsDir(Without(t, ch.path), Front(ch.to))

Put(t, p, x) == [q \in DOMAIN t \cup {p} |-> IF q = p THEN x ELSE t[q]]

Applied(t, ch) ==
  CASE ch.kind = "mkdir"            -> Put(t, ch.path, Dir)
    [] ch.kind = "upsert"           -> Put(t, ch.path, ch.id)
    [] ch.kind \in {"rm", "rmdir"}  -> Without(t, ch.path)
    [] ch.kind = "rename"           -> Moved(t, ch.path, ch.to)

\* The tree after all changes, none when one of them does not apply.
Overlaid(t, changes) ==
  LET trees[n \in 0..Len(changes)] ==
        IF n = 0 THEN {t}
        ELSE {Applied(x, changes[n]) : x \in {y \in trees[n - 1] : Applies(y, changes[n])}}
  IN trees[Len(changes)]

(***************************************************************************)
(* Conflicts of an overlay made on base with the branch's current tree.    *)
(***************************************************************************)
Exact(ch) == {ch.path, ch.to}

Above(ch) == UNION {{SubSeq(p, 1, n) : n \in 1..Len(p) - 1} : p \in Exact(ch)}

AncestorConflicts(base, current) ==
  base # current /\ <<base, current>> # <<"missing", "directory">>

Conflicts(base, current, changes) ==
  \E ch \in Range(changes) :
    \/ \E p \in Exact(ch) : PathState(base, p) # PathState(current, p)
    \/ \E p \in Above(ch) : AncestorConflicts(Kind(base, p), Kind(current, p))

(***************************************************************************)
(* Commands.  op[i] is the queue of ref files a command still writes.      *)
(***************************************************************************)
Idle == [step |-> "idle", todo |-> << >>, ack |-> {}, saved |-> << >>]

DefaultFile(token, head) == [file |-> "default", token |-> token, head |-> head]
BranchFile(token, head)  == [file |-> "branch", token |-> token, head |-> head]

RepositoryInit ==
  /\ snaps = << >> /\ remote = 0 /\ acked = {}
  /\ default = [token |-> Main, head |-> 0]
  /\ branch = [t \in Tokens |-> IF t = Main THEN 0 ELSE None]
  /\ op = [i \in Procs |-> Idle]

Free(i) == op[i] = Idle /\ (Concurrent \/ \A j \in Procs : op[j] = Idle)

Begin(i, todo, ack) ==
  op' = [op EXCEPT ![i] = [Idle EXCEPT !.step = "write", !.todo = todo, !.ack = ack]]

NewSnapshot(parent, tree) ==
  /\ Len(snaps) < MaxSnapshots
  /\ snaps' = Append(snaps, [parent |-> parent, tree |-> tree])

NextId == Len(snaps) + 1

\* ReadService::resolve_branch: the branch file first, then the default ref.
ResolvedHead(t) == IF branch[t] # None THEN branch[t]
                   ELSE IF default.token = t THEN default.head ELSE None

\* The head a write to the branch starts from: the default ref first.
WritableHead(t) == IF default.token = t THEN default.head ELSE branch[t]

Commit(i, tree) ==
  /\ Free(i)
  /\ NewSnapshot(default.head, tree)
  /\ Begin(i, <<DefaultFile(default.token, NextId), BranchFile(default.token, NextId)>>,
           {<<default.token, NextId>>})
  /\ UNCHANGED <<default, branch, remote, acked>>

RefFiles(t, head) ==
  <<BranchFile(t, head)>> \o
  IF default.token = t THEN <<DefaultFile(t, head)>> ELSE << >>

\* Mutant: the overlay goes on top of the snapshot it was made on.
Rebase_not(t, expected, changes) ==
  IF WritableHead(t) = None THEN {} ELSE Overlaid(Tree(expected), changes)

\* The tree a writeback commits; none when it conflicts or does not apply.
Rebase(t, expected, changes) ==
  LET head == WritableHead(t)
  IN IF head = None \/ (head # expected /\ Conflicts(Tree(expected), Tree(head), changes))
     THEN {} ELSE Overlaid(Tree(head), changes)

WriteOverlay(i, t, expected, changes) ==
  \E tree \in Rebase(t, expected, changes) :
    /\ NewSnapshot(WritableHead(t), tree)
    /\ Begin(i, RefFiles(t, NextId), {<<t, NextId>>})
    /\ UNCHANGED <<default, branch, remote, acked>>

CreateBranch(i, t) ==
  /\ Free(i)
  /\ default.token # t /\ branch[t] = None
  /\ Begin(i, <<BranchFile(t, default.head)>>, {<<t, default.head>>})
  /\ UNCHANGED <<snaps, default, branch, remote, acked>>

DeleteBranch(i, t) ==
  /\ Free(i)
  /\ default.token # t /\ branch[t] # None
  /\ branch' = [branch EXCEPT ![t] = None]
  /\ acked' = {a \in acked : a[1] # t}
  /\ UNCHANGED <<snaps, default, remote, op>>

CheckoutBranch(i, t) ==
  /\ Free(i)
  /\ default.token # t /\ branch[t] # None
  /\ Begin(i, <<DefaultFile(t, branch[t])>>, {})
  /\ UNCHANGED <<snaps, default, branch, remote, acked>>

(***************************************************************************)
(* The next ref file of a command (one atomic rename).                     *)
(***************************************************************************)
WriteRef(i) ==
  /\ op[i].todo # << >>
  /\ LET w == Head(op[i].todo)
     IN IF w.file = "default"
        THEN default' = [token |-> w.token, head |-> w.head] /\ UNCHANGED branch
        ELSE branch' = [branch EXCEPT ![w.token] = w.head] /\ UNCHANGED default
  /\ op' = [op EXCEPT ![i].todo = Tail(@)]
  /\ UNCHANGED <<snaps, remote, acked>>

Written(i) == op[i].step = "write" /\ op[i].todo = << >>

Finish(i) ==
  /\ Written(i)
  /\ op' = [op EXCEPT ![i] = Idle]
  /\ acked' = acked \cup op[i].ack
  /\ UNCHANGED <<snaps, default, branch, remote>>

(***************************************************************************)
(* pull_default_remote: the fetch overwrites both files with the remote's  *)
(* head, the pull puts the originals back, and then fast-forwards.         *)
(***************************************************************************)
\* A fetch that finds its control plane unchanged returns without the branch's
\* file (fetch.rs 405-416), which the restore then writes all the same.
PullFetch(i) ==
  /\ Free(i)
  /\ default.token = Main /\ remote # 0
  /\ op' = [op EXCEPT ![i] = [Idle EXCEPT
               !.step = "fetch",
               !.todo = <<DefaultFile(Main, remote), BranchFile(Main, remote)>>,
               !.saved = <<default.head, branch[Main], remote>>]]
  /\ UNCHANGED <<snaps, default, branch, remote, acked>>

Originals(saved) == <<DefaultFile(Main, saved[1]), BranchFile(Main, saved[2])>>

PullRestore(i) ==
  /\ op[i].step = "fetch" /\ op[i].todo = << >>
  /\ op' = [op EXCEPT ![i].step = "restore", ![i].todo = Originals(op[i].saved)]
  /\ UNCHANGED <<snaps, default, branch, remote, acked>>

\* Mutant: the pull takes any head of the remote.
FastForwards_any(h, next) == TRUE

FastForwards(h, next) == h \in Ancestry[next]

PullForward(i) ==
  /\ op[i].step = "restore" /\ op[i].todo = << >>
  /\ LET next == op[i].saved[3]
         head == ResolvedHead(Main)
     IN IF head = next THEN op' = [op EXCEPT ![i] = Idle]
        ELSE IF FastForwards(head, next) THEN Begin(i, RefFiles(Main, next), {<<Main, next>>})
        ELSE Begin(i, Append(Originals(op[i].saved), DefaultFile(Main, head)), {})
  /\ UNCHANGED <<snaps, default, branch, remote, acked>>

(***************************************************************************)
(* The remote, seen from here: another device pushes on top of its head,   *)
(* and a push of this device publishes a head that descends from it.       *)
(***************************************************************************)
RemoteCommit(tree) ==
  /\ NewSnapshot(remote, tree)
  /\ remote' = NextId
  /\ UNCHANGED <<default, branch, op, acked>>

Push(i) ==
  /\ Free(i)
  /\ default.token = Main
  /\ remote # default.head /\ FastForwards(remote, default.head)
  /\ remote' = default.head
  /\ UNCHANGED <<snaps, default, branch, op, acked>>

\* A process dies with its command half written.
CrashCommand(i) ==
  /\ op[i] # Idle
  /\ PullMayCrash \/ op[i].step = "write"
  /\ op' = [op EXCEPT ![i] = Idle]
  /\ UNCHANGED <<snaps, default, branch, remote, acked>>

BranchCommand(i) ==
  \E t \in Tokens : CreateBranch(i, t) \/ DeleteBranch(i, t) \/ CheckoutBranch(i, t)

RemoteCommand(i) == PullFetch(i) \/ PullRestore(i) \/ PullForward(i) \/ Push(i)

(***************************************************************************)
(* Properties                                                              *)
(***************************************************************************)
\* What a command reported and no crash may take back: where the fetch of a
\* pull may be cut off, it leaves the branch it pulls at the remote's head.
Sure == {a \in acked : PullMayCrash => a[1] # Main}

\* What a command reported stays in the history of its branch, in both ref
\* files, whatever commands follow and wherever one of them is cut off; but
\* for the branch that a pull fetches, when the pull is cut off before it has
\* put the originals back (lib.rs 789).  While a pull runs the files hold the
\* remote's head for a moment.
AcknowledgedStays ==
  (\A i \in Procs : op[i].step \in {"idle", "write"}) =>
    \A a \in Sure :
      /\ branch[a[1]] # None /\ a[2] \in Ancestry[branch[a[1]]]
      /\ default.token = a[1] => a[2] \in Ancestry[default.head]

\* Every head has a well-formed tree: what a rename or a rebase produces has a
\* directory above every entry, and a snapshot of a writeback nothing beneath
\* a file.
TreesAreWellFormed ==
  \A h \in DOMAIN snaps : \A p \in DOMAIN snaps[h].tree : IsDir(snaps[h].tree, Front(p))
=============================================================================
