---------------------------- MODULE DeskProofs ----------------------------
(***************************************************************************)
(* For any working directory, any names of temporary files, any number of  *)
(* commits, checkouts, crashes and damages of the search database:         *)
(*                                                                         *)
(* A search answers with the files of the head it read.  A database that   *)
(* is not damaged holds the files of the head it names, and heads that     *)
(* exist keep their trees, since snapshots are only added.  Nothing is     *)
(* damaged while a search runs, so that the database a search brought to   *)
(* its head is still at that head when it is queried.                      *)
(*                                                                         *)
(* A checkout that has published and cleaned up leaves its snapshot.  Each *)
(* file that is not published yet waits under its temporary name with the  *)
(* snapshot's content, or the checkout cannot get to its end: a temporary  *)
(* file is gone, or is a file of the snapshot, or two files share it.      *)
(*                                                                         *)
(* A commit never takes the pieces of two saves, where times of            *)
(* modification are at most two seconds coarse.  Read once: a quiet file   *)
(* was modified before this second and the last, so that a write since the *)
(* look before changes the time.  Read twice: no content comes back once   *)
(* it was overwritten, so that a first piece that both readings found was  *)
(* there when the first reading took the second.                           *)
(*                                                                         *)
(* A keyring directory opens for its members and for a password the user   *)
(* knows.  Every envelope of a keyring holds the same secrets, and one     *)
(* that an update left half way keeps the key in force, so that it may     *)
(* become current at any later unlock.  Updates of who may open take       *)
(* turns; password changes and commits may overlap.                        *)
(***************************************************************************)
EXTENDS WorkingTree, StableRead, Unlocking, FiniteSetTheorems, SequenceTheorems, TLAPS

RefFile == [file : {"default", "branch"}, token : Tokens, head : Nat]

IsCommand(x) == x = [step |-> x.step, todo |-> x.todo, ack |-> x.ack, saved |-> x.saved]

\* Every head that is, or will be, in a ref file is a snapshot that exists.
HeadExists(h) == h \in 0..Len(snaps)

RefsInv ==
  /\ \E S : snaps \in Seq(S)
  /\ default.token \in Tokens /\ HeadExists(default.head)
  /\ op = [i \in Procs |-> op[i]]
  /\ \A i \in Procs :
       /\ IsCommand(op[i]) /\ op[i].todo \in Seq(RefFile)
       /\ \A n \in 1..Len(op[i].todo) : HeadExists(op[i].todo[n].head)

IsIndex(x) == x = [key |-> x.key, rows |-> x.rows, damaged |-> x.damaged]
IsSearch(x) == x = [step |-> x.step, key |-> x.key, found |-> x.found]

Key(key) == key = <<key[1], key[2]>> /\ HeadExists(key[2])

FilesAt(key) == FilesOf(Tree(key[2]))

SearchInv ==
  /\ IsIndex(index) /\ IsSearch(search)
  /\ index.damaged \in BOOLEAN
  /\ index.key # << >> => Key(index.key) /\ (~index.damaged => index.rows = FilesAt(index.key))
  /\ search.step # "none" => Key(search.key)
  /\ search.step = "built" => index.key = search.key /\ ~index.damaged
  /\ search.step = "answered" => search.found = FilesAt(search.key)

Inv == RefsInv /\ SearchInv

----------------------------------------------------------------------------
(* Records a step sets several fields of.                                  *)
Asked(token, head) == [NoSearch EXCEPT !.step = "asked", !.key = <<token, head>>]
Answered(x, rows) == [x EXCEPT !.step = "answered", !.found = rows]
Writing(todo, ack) == [Idle EXCEPT !.step = "write", !.todo = todo, !.ack = ack]

LEMMA SearchUpdated ==
  ASSUME NEW r, IsSearch(r), NEW x
  PROVE  /\ IsSearch([r EXCEPT !.step = x]) /\ IsSearch([r EXCEPT !.key = x])
         /\ IsSearch([r EXCEPT !.found = x])
  <1>1. IsSearch([r EXCEPT !.step = x]) BY SMT DEF IsSearch
  <1>2. IsSearch([r EXCEPT !.key = x]) BY SMT DEF IsSearch
  <1>3. IsSearch([r EXCEPT !.found = x]) BY SMT DEF IsSearch
  <1> QED BY <1>1, <1>2, <1>3

LEMMA DamageUpdated ==
  ASSUME NEW r, IsIndex(r), NEW x
  PROVE  LET q == [r EXCEPT !.damaged = x]
         IN IsIndex(q) /\ q.damaged = x /\ q.key = r.key
  <1>1. IsIndex([r EXCEPT !.damaged = x]) BY SMT DEF IsIndex
  <1>2. [r EXCEPT !.damaged = x].damaged = x BY SMT DEF IsIndex
  <1>3. [r EXCEPT !.damaged = x].key = r.key BY SMT DEF IsIndex
  <1> QED BY <1>1, <1>2, <1>3

LEMMA AskedFields ==
  ASSUME NEW token, NEW head
  PROVE  LET q == Asked(token, head)
         IN IsSearch(q) /\ q.step = "asked" /\ q.key = <<token, head>>
  <1> DEFINE a == [NoSearch EXCEPT !.step = "asked"]
             key == <<token, head>>
  <1>1. IsSearch(NoSearch) BY SMT DEF NoSearch, IsSearch
  <1>2. IsSearch(a) /\ a.step = "asked" BY <1>1, SearchUpdated, SMT DEF IsSearch
  <1>3. Asked(token, head) = [a EXCEPT !.key = key] BY DEF Asked
  <1> HIDE DEF a, key
  <1>4. IsSearch([a EXCEPT !.key = key]) BY <1>2, SearchUpdated
  <1>5. [a EXCEPT !.key = key].step = "asked" /\ [a EXCEPT !.key = key].key = key
    BY <1>2, SMT DEF IsSearch
  <1> QED BY <1>3, <1>4, <1>5 DEF key

LEMMA AnsweredFields ==
  ASSUME NEW r, IsSearch(r), NEW rows
  PROVE  LET q == Answered(r, rows)
         IN IsSearch(q) /\ q.step = "answered" /\ q.key = r.key /\ q.found = rows
  <1> DEFINE a == [r EXCEPT !.step = "answered"]
  <1>1. IsSearch(a) /\ a.step = "answered" /\ a.key = r.key BY SearchUpdated, SMT DEF IsSearch
  <1>2. Answered(r, rows) = [a EXCEPT !.found = rows] BY DEF Answered
  <1> HIDE DEF a
  <1>3. IsSearch([a EXCEPT !.found = rows]) BY <1>1, SearchUpdated
  <1>4. /\ [a EXCEPT !.found = rows].step = "answered" /\ [a EXCEPT !.found = rows].key = r.key
        /\ [a EXCEPT !.found = rows].found = rows
    BY <1>1, SMT DEF IsSearch
  <1> QED BY <1>2, <1>3, <1>4

LEMMA WritingFields ==
  ASSUME NEW todo, NEW ack
  PROVE  IsCommand(Writing(todo, ack)) /\ Writing(todo, ack).todo = todo
  <1> DEFINE a == [Idle EXCEPT !.step = "write"]
             b == [a EXCEPT !.todo = todo]
             x == [b EXCEPT !.ack = ack]
  <1>1. Writing(todo, ack) = x BY DEF Writing
  <1>2. IsCommand(a) BY SMT DEF Idle, IsCommand
  <1> HIDE DEF a
  <1>3. IsCommand(b) /\ b.todo = todo BY <1>2, SMT DEF IsCommand
  <1> HIDE DEF b
  <1>4. IsCommand(x) /\ x.todo = todo BY <1>3, SMT DEF IsCommand
  <1> QED BY <1>1, <1>4

LEMMA TodoUpdated ==
  ASSUME NEW r, IsCommand(r), NEW x
  PROVE  IsCommand([r EXCEPT !.todo = x]) /\ [r EXCEPT !.todo = x].todo = x
  BY SMT DEF IsCommand

----------------------------------------------------------------------------
(* Snapshots are only added.                                               *)
LEMMA SnapshotAdded ==
  ASSUME NEW S, snaps \in Seq(S), NEW new, snaps' = Append(snaps, new)
  PROVE  /\ \E T : snaps' \in Seq(T)
         /\ Len(snaps') = Len(snaps) + 1
         /\ \A h \in 1..Len(snaps) : snaps'[h] = snaps[h]
  <1> DEFINE T == S \cup {new}
  <1>1. snaps \in Seq(T) BY SMT
  <1>2. new \in T OBVIOUS
  <1> HIDE DEF T
  <1>3. snaps' \in Seq(T) BY <1>1, <1>2, SMT
  <1>4. Len(snaps') = Len(snaps) + 1 /\ \A h \in 1..Len(snaps) : snaps'[h] = snaps[h]
    BY <1>1, <1>2, SMT
  <1> QED BY <1>3, <1>4

\* What snapshots that are only added mean for heads and their files.
LEMMA TreesStay ==
  ASSUME Len(snaps) \in Nat, Len(snaps') \in Nat, Len(snaps) <= Len(snaps'),
         \A h \in 1..Len(snaps) : snaps'[h] = snaps[h],
         NEW key, Key(key)
  PROVE  Key(key)' /\ FilesAt(key)' = FilesAt(key)
  <1>1. HeadExists(key[2])' BY SMT DEF Key, HeadExists
  <1>2. Tree(key[2])' = Tree(key[2])
    <2>1. CASE key[2] = 0 BY <2>1 DEF Tree
    <2>2. CASE key[2] # 0
      <3>1. key[2] \in 1..Len(snaps) BY <2>2, SMT DEF Key, HeadExists
      <3> QED BY <2>2, <3>1 DEF Tree
    <2> QED BY <2>1, <2>2
  <1> QED BY <1>1, <1>2 DEF Key, FilesAt, FilesOf

----------------------------------------------------------------------------
LEMMA InitInv == RepositoryAssumption /\ Init => Inv
  <1> SUFFICES ASSUME RepositoryAssumption, Init PROVE Inv OBVIOUS
  <1>1. RefsInv
    <2>1. snaps = << >> /\ default = [token |-> Main, head |-> 0] /\ op = [i \in Procs |-> Idle]
      BY DEF Init, RepositoryInit
    <2>2. snaps \in Seq({}) /\ Len(snaps) = 0 BY <2>1, SMT
    <2>3. default.token \in Tokens /\ HeadExists(default.head)
      BY <2>1, <2>2, SMT DEF RepositoryAssumption, HeadExists
    <2>4. IsCommand(Idle) /\ Idle.todo = << >> BY SMT DEF Idle, IsCommand
    <2>5. << >> \in Seq(RefFile) /\ Len(<< >>) = 0 BY SMT
    <2>6. ASSUME NEW i \in Procs
          PROVE  /\ IsCommand(op[i]) /\ op[i].todo \in Seq(RefFile)
                 /\ \A n \in 1..Len(op[i].todo) : HeadExists(op[i].todo[n].head)
      <3>1. op[i] = Idle BY <2>1
      <3>2. 1..Len(<< >>) = {} BY SMT
      <3> QED BY <2>4, <2>5, <3>1, <3>2
    <2>7. op = [i \in Procs |-> op[i]] BY <2>1
    <2> QED BY <2>2, <2>3, <2>6, <2>7 DEF RefsInv
  <1>2. SearchInv
    BY SMT DEF Init, IndexInit, EmptyIndex, NoSearch, SearchInv, IsIndex, IsSearch
  <1> QED BY <1>1, <1>2 DEF Inv

----------------------------------------------------------------------------
(* Commands: the refs.                                                     *)
LEMMA Lengths ==
  ASSUME RefsInv
  PROVE  Len(snaps) \in Nat /\ \A i \in Procs : Len(op[i].todo) \in Nat
  BY SMT DEF RefsInv

LEMMA CommitRefs ==
  ASSUME RefsInv, NEW i \in Procs, NEW tree, Commit(i, tree)
  PROVE  /\ RefsInv' /\ Len(snaps') \in Nat /\ Len(snaps) <= Len(snaps')
         /\ \A h \in 1..Len(snaps) : snaps'[h] = snaps[h]
  <1> DEFINE d == DefaultFile(default.token, NextId)
             b == BranchFile(default.token, NextId)
             ack == {<<default.token, NextId>>}
  <1>1. /\ snaps' = Append(snaps, [parent |-> default.head, tree |-> tree])
        /\ op' = [op EXCEPT ![i] = Writing(<<d, b>>, ack)] /\ default' = default
    BY DEF Commit, NewSnapshot, Begin, Writing
  <1>2. PICK S : snaps \in Seq(S) BY DEF RefsInv
  <1>3. /\ \E T : snaps' \in Seq(T)
        /\ Len(snaps') = Len(snaps) + 1
        /\ \A h \in 1..Len(snaps) : snaps'[h] = snaps[h]
    BY <1>1, <1>2, SnapshotAdded
  <1>4. Len(snaps) \in Nat /\ NextId = Len(snaps') BY <1>3, Lengths DEF NextId
  <1>5. d \in RefFile /\ b \in RefFile /\ d.head = NextId /\ b.head = NextId
    BY <1>3, <1>4, SMT DEF RefsInv, DefaultFile, BranchFile, RefFile
  <1> HIDE DEF d, b, ack
  <1>6. /\ <<d, b>> \in Seq(RefFile)
        /\ \A n \in 1..Len(<<d, b>>) : <<d, b>>[n].head = NextId
    BY <1>5, SMT
  <1>7. ASSUME NEW h, HeadExists(h) PROVE h \in 0..Len(snaps')
    BY <1>3, <1>4, <1>7, SMT DEF HeadExists
  <1>8. op' = [j \in Procs |-> op'[j]] /\ op'[i] = Writing(<<d, b>>, ack)
        /\ \A j \in Procs \ {i} : op'[j] = op[j]
    BY <1>1 DEF RefsInv
  <1>9. ASSUME NEW j \in Procs
        PROVE  /\ IsCommand(op'[j]) /\ op'[j].todo \in Seq(RefFile)
               /\ \A n \in 1..Len(op'[j].todo) : op'[j].todo[n].head \in 0..Len(snaps')
    <2>1. CASE j = i
      <3>1. NextId \in 0..Len(snaps') BY <1>3, <1>4, SMT
      <3>2. IsCommand(op'[j]) /\ op'[j].todo = <<d, b>> BY <2>1, <1>8, WritingFields
      <3> QED BY <1>6, <3>1, <3>2
    <2>2. CASE j # i BY <2>2, <1>7, <1>8 DEF RefsInv
    <2> QED BY <2>1, <2>2
  <1>10. default'.token \in Tokens /\ default'.head \in 0..Len(snaps')
    BY <1>1, <1>7 DEF RefsInv
  <1>11. RefsInv' BY <1>3, <1>8, <1>9, <1>10 DEF RefsInv, HeadExists
  <1> QED BY <1>3, <1>4, <1>11, SMT

LEMMA IdleCommand == IsCommand(Idle) /\ Idle.todo = << >> /\ << >> \in Seq(RefFile) /\ 1..Len(<< >>) = {}
  BY SMT DEF Idle, IsCommand

\* A process forgets its command.
LEMMA ForgetRefs ==
  ASSUME RefsInv, NEW i \in Procs, op' = [op EXCEPT ![i] = Idle], UNCHANGED <<snaps, default>>
  PROVE  RefsInv'
  <1>1. op' = [j \in Procs |-> op'[j]] /\ op'[i] = Idle /\ \A j \in Procs \ {i} : op'[j] = op[j]
    BY DEF RefsInv
  <1>2. ASSUME NEW j \in Procs
        PROVE  /\ IsCommand(op'[j]) /\ op'[j].todo \in Seq(RefFile)
               /\ \A n \in 1..Len(op'[j].todo) : HeadExists(op'[j].todo[n].head)
    <2>1. CASE j = i BY <2>1, <1>1, IdleCommand
    <2>2. CASE j # i BY <2>2, <1>1 DEF RefsInv
    <2> QED BY <2>1, <2>2
  <1> QED BY <1>1, <1>2 DEF RefsInv, HeadExists

LEMMA WriteRefs ==
  ASSUME RefsInv, NEW i \in Procs, WriteRef(i)
  PROVE  RefsInv'
  <1> DEFINE todo == op[i].todo
             new == [op[i] EXCEPT !.todo = Tail(todo)]
  <1>1. todo # << >> /\ op' = [op EXCEPT ![i] = new] /\ snaps' = snaps BY DEF WriteRef
  <1>2. todo \in Seq(RefFile) /\ IsCommand(op[i]) /\ \A n \in 1..Len(todo) : HeadExists(todo[n].head)
    BY DEF RefsInv
  <1>3. IsCommand(new) /\ new.todo = Tail(todo)
    BY <1>2, TodoUpdated
  <1> HIDE DEF new, todo
  <1>4. /\ Head(todo) \in RefFile /\ HeadExists(Head(todo).head)
        /\ Tail(todo) \in Seq(RefFile)
        /\ \A n \in 1..Len(Tail(todo)) : HeadExists(Tail(todo)[n].head)
    <2>1. 1 \in 1..Len(todo) /\ Head(todo) = todo[1] /\ Head(todo) \in RefFile
      BY <1>1, <1>2, SMT
    <2>2. Tail(todo) \in Seq(RefFile) /\ Len(Tail(todo)) = Len(todo) - 1 BY <1>1, <1>2, SMT
    <2>3. ASSUME NEW n \in 1..Len(Tail(todo)) PROVE HeadExists(Tail(todo)[n].head)
      <3>1. n + 1 \in 1..Len(todo) /\ Tail(todo)[n] = todo[n + 1] BY <1>1, <1>2, <2>2, SMT
      <3> QED BY <1>2, <3>1
    <2> QED BY <1>2, <2>1, <2>2, <2>3
  <1>5. default'.token \in Tokens /\ HeadExists(default'.head)
    <2>1. CASE Head(todo).file = "default"
      <3>1. default' = [token |-> Head(todo).token, head |-> Head(todo).head]
        BY <2>1 DEF WriteRef, todo
      <3>2. Head(todo).token \in Tokens BY <1>4 DEF RefFile
      <3> QED BY <1>4, <3>1, <3>2
    <2>2. CASE Head(todo).file # "default"
      <3>1. default' = default BY <2>2 DEF WriteRef, todo
      <3> QED BY <3>1 DEF RefsInv
    <2> QED BY <2>1, <2>2
  <1>6. op' = [j \in Procs |-> op'[j]] /\ op'[i] = new /\ \A j \in Procs \ {i} : op'[j] = op[j]
    BY <1>1 DEF RefsInv
  <1>7. ASSUME NEW j \in Procs
        PROVE  /\ IsCommand(op'[j]) /\ op'[j].todo \in Seq(RefFile)
               /\ \A n \in 1..Len(op'[j].todo) : HeadExists(op'[j].todo[n].head)
    <2>1. CASE j = i BY <2>1, <1>3, <1>4, <1>6
    <2>2. CASE j # i BY <2>2, <1>6 DEF RefsInv
    <2> QED BY <2>1, <2>2
  <1> QED BY <1>1, <1>5, <1>6, <1>7 DEF RefsInv, HeadExists

\* Refs and snapshots over a step, as a search sees them.
LEMMA RefsStep ==
  ASSUME WorkingTreeAssumption, RefsInv, [Next]_vars
  PROVE  /\ RefsInv' /\ Len(snaps) \in Nat /\ Len(snaps') \in Nat /\ Len(snaps) <= Len(snaps')
         /\ \A h \in 1..Len(snaps) : snaps'[h] = snaps[h]
  <1>1. Len(snaps) \in Nat BY Lengths
  <1>2. ASSUME RefsInv', snaps' = snaps
        PROVE  /\ Len(snaps') \in Nat /\ Len(snaps) <= Len(snaps')
               /\ \A h \in 1..Len(snaps) : snaps'[h] = snaps[h]
    BY <1>1, <1>2, SMT
  <1>3. ASSUME UNCHANGED repoVars PROVE RefsInv' /\ snaps' = snaps
    BY <1>3 DEF repoVars, RefsInv, HeadExists
  <1>4. ASSUME NEW unread, CommitTree(unread)
        PROVE  /\ RefsInv' /\ Len(snaps') \in Nat /\ Len(snaps) <= Len(snaps')
               /\ \A h \in 1..Len(snaps) : snaps'[h] = snaps[h]
    BY <1>4, CommitRefs DEF CommitTree, WorkingTreeAssumption
  <1>5. ASSUME NEW i \in Procs, WriteRef(i) \/ Finish(i) \/ CrashCommand(i)
        PROVE  RefsInv' /\ snaps' = snaps
    <2>1. CASE WriteRef(i) BY <2>1, WriteRefs DEF WriteRef
    <2>2. CASE Finish(i) BY <2>2, ForgetRefs DEF Finish
    <2>3. CASE CrashCommand(i) BY <2>3, ForgetRefs DEF CrashCommand
    <2> QED BY <1>5, <2>1, <2>2, <2>3
  <1>6. CASE Next
    <2>1. ASSUME NEW p \in Paths, Edit(p) \/ Erase(p) PROVE UNCHANGED repoVars
      BY <2>1 DEF Edit, Erase
    <2>2. ASSUME NEW h \in DOMAIN snaps, StartCheckout(h) PROVE UNCHANGED repoVars
      BY <2>2 DEF StartCheckout
    <2>3. CASE \/ StageFile \/ StageFails \/ StartPublishing \/ PublishFile
               \/ RemoveStale \/ RecordFiles \/ CrashCheckout
      <3>1. UNCHANGED repoVars
        BY <2>3 DEF StageFile, StageFails, StartPublishing, PublishFile, RemoveStale, RecordFiles,
                    CrashCheckout
      <3> QED BY <1>1, <1>2, <1>3, <3>1
    <2>4. CASE Search
      <3>1. UNCHANGED repoVars
        BY <2>4 DEF Search, SearchStep, StartSearch, Rebuild, Query, EndSearch, DamageIndex
      <3> QED BY <1>1, <1>2, <1>3, <3>1
    <2>5. CASE RefStep BY <2>5, <1>1, <1>2, <1>5 DEF RefStep
    <2> QED BY <1>1, <1>2, <1>3, <1>4, <1>6, <2>1, <2>2, <2>3, <2>4, <2>5 DEF Next
  <1>7. CASE UNCHANGED vars BY <1>1, <1>2, <1>3, <1>7 DEF vars
  <1> QED BY <1>1, <1>6, <1>7

----------------------------------------------------------------------------
(* The search.                                                             *)
LEMMA SyncedIsFiles ==
  ASSUME NEW rows, NEW h
  PROVE  Synced(rows, FilesOf(Tree(h))) = FilesOf(Tree(h))
  <1> DEFINE files == FilesOf(Tree(h))
  <1>1. files = [p \in DOMAIN files |-> files[p]] BY DEF FilesOf, Restrict
  <1>2. Synced(rows, files) = [p \in DOMAIN files |-> files[p]]
    <2> HIDE DEF files
    <2> QED BY DEF Synced
  <1> QED BY <1>1, <1>2

\* A step that leaves the search alone: its head and the index's keep their files.
LEMMA BesideSearch ==
  ASSUME Inv, UNCHANGED indexVars, Len(snaps) \in Nat, Len(snaps') \in Nat,
         Len(snaps) <= Len(snaps'), \A h \in 1..Len(snaps) : snaps'[h] = snaps[h]
  PROVE  SearchInv'
  <1>1. index' = index /\ search' = search BY DEF indexVars
  <1>2. Key(index.key) => Key(index.key)' /\ FilesAt(index.key)' = FilesAt(index.key)
    BY <1>1, TreesStay DEF Key, FilesAt
  <1>3. Key(search.key) => Key(search.key)' /\ FilesAt(search.key)' = FilesAt(search.key)
    BY <1>1, TreesStay DEF Key, FilesAt
  <1> QED BY <1>1, <1>2, <1>3 DEF Inv, SearchInv

LEMMA SearchStepInv ==
  ASSUME Inv, SearchStep
  PROVE  SearchInv'
  <1>1. snaps' = snaps /\ default' = default
    BY DEF SearchStep, StartSearch, Rebuild, Query, EndSearch, DamageIndex, repoVars
  <1>2. ASSUME NEW key PROVE (Key(key)' <=> Key(key)) /\ FilesAt(key)' = FilesAt(key)
    BY <1>1 DEF Key, HeadExists, FilesAt, Tree
  <1>3. CASE StartSearch
    <2> DEFINE q == Asked(default.token, default.head)
    <2>1. search' = q /\ index' = index BY <1>3 DEF StartSearch, Asked
    <2> HIDE DEF q
    <2>2. IsSearch(q) /\ q.step = "asked" /\ q.key = <<default.token, default.head>>
      BY AskedFields DEF q
    <2>3. Key(q.key) BY <2>2 DEF Inv, RefsInv, Key
    <2> QED BY <1>1, <2>1, <2>2, <2>3 DEF Inv, SearchInv, Key, HeadExists, FilesAt, Tree
  <1>4. CASE Rebuild
    <2> DEFINE new == [search EXCEPT !.step = "built"]
    <2>1. search.step = "asked" /\ search' = new BY <1>4 DEF Rebuild
    <2>2. IsSearch(search) /\ Key(search.key) BY <2>1 DEF Inv, SearchInv
    <2>3. IsSearch(new) /\ new.step = "built" /\ new.key = search.key
      BY <2>2, SearchUpdated, SMT DEF IsSearch
    <2> HIDE DEF new
    <2>4. /\ IsIndex(index') /\ index'.key = search.key /\ index'.damaged = FALSE
          /\ index'.rows = FilesAt(search.key)
      <3>1. CASE ~index.damaged /\ index.key = search.key
        <4>1. index' = index BY <1>4, <3>1 DEF Rebuild
        <4>2. search.key # << >> BY <2>2, SMT DEF Key
        <4> QED BY <3>1, <4>1, <4>2 DEF Inv, SearchInv
      <3>2. CASE ~(~index.damaged /\ index.key = search.key)
        <4> DEFINE rows == IF index.damaged THEN << >> ELSE index.rows
                   synced == Synced(rows, FilesOf(Tree(search.key[2])))
        <4>1. index' = [key |-> search.key, damaged |-> FALSE, rows |-> synced]
          BY <1>4, <3>2 DEF Rebuild
        <4>2. synced = FilesAt(search.key) BY SyncedIsFiles DEF FilesAt
        <4> HIDE DEF synced
        <4> QED BY <4>1, <4>2, SMT DEF IsIndex
      <3> QED BY <3>1, <3>2
    <2> QED BY <1>1, <2>1, <2>2, <2>3, <2>4 DEF SearchInv, Key, HeadExists, FilesAt, Tree
  <1>5. CASE Query
    <2> DEFINE q == Answered(search, index.rows)
    <2>1. search.step = "built" /\ search' = q /\ index' = index BY <1>5 DEF Query, Answered
    <2> HIDE DEF q
    <2>2. IsSearch(q) /\ q.step = "answered" /\ q.key = search.key /\ q.found = index.rows
      BY AnsweredFields DEF Inv, SearchInv, q
    <2>3. /\ Key(search.key) /\ index.key = search.key /\ index.key # << >>
          /\ index.rows = FilesAt(search.key)
      <3>1. Key(search.key) /\ index.key = search.key /\ ~index.damaged
        BY <2>1 DEF Inv, SearchInv
      <3>2. search.key # << >> BY <3>1, SMT DEF Key
      <3> QED BY <3>1, <3>2 DEF Inv, SearchInv
    <2> QED BY <1>1, <2>1, <2>2, <2>3 DEF Inv, SearchInv, Key, HeadExists, FilesAt, Tree
  <1>6. CASE EndSearch
    <2>1. search' = NoSearch /\ index' = index BY <1>6 DEF EndSearch
    <2>2. IsSearch(NoSearch) /\ NoSearch.step = "none" BY SMT DEF NoSearch, IsSearch
    <2> QED BY <1>1, <2>1, <2>2 DEF Inv, SearchInv, Key, HeadExists, FilesAt, Tree
  <1>7. CASE DamageIndex
    <2> DEFINE new == [index EXCEPT !.damaged = TRUE]
    <2>1. search.step = "none" /\ search' = search /\ index' = new BY <1>7 DEF DamageIndex
    <2>2. IsIndex(new) /\ new.damaged = TRUE /\ new.key = index.key
      BY DamageUpdated DEF Inv, SearchInv
    <2> HIDE DEF new
    <2> QED BY <1>1, <2>1, <2>2 DEF Inv, SearchInv, Key, HeadExists, FilesAt, Tree
  <1> QED BY <1>3, <1>4, <1>5, <1>6, <1>7 DEF SearchStep

LEMMA OthersLeaveSearch ==
  ASSUME [Next]_vars, ~Search
  PROVE  UNCHANGED indexVars
  <1>1. ASSUME NEW p \in Paths, Edit(p) \/ Erase(p) PROVE UNCHANGED indexVars
    BY <1>1 DEF Edit, Erase
  <1>2. ASSUME NEW unread, CommitTree(unread) PROVE UNCHANGED indexVars BY <1>2 DEF CommitTree
  <1>3. ASSUME NEW h \in DOMAIN snaps, StartCheckout(h) PROVE UNCHANGED indexVars
    BY <1>3 DEF StartCheckout
  <1>4. ASSUME \/ StageFile \/ StageFails \/ StartPublishing \/ PublishFile
               \/ RemoveStale \/ RecordFiles \/ CrashCheckout
        PROVE  UNCHANGED indexVars
    BY <1>4 DEF StageFile, StageFails, StartPublishing, PublishFile, RemoveStale, RecordFiles,
                CrashCheckout
  <1>5. CASE RefStep BY <1>5 DEF RefStep
  <1>6. CASE UNCHANGED vars BY <1>6 DEF vars
  <1> QED BY <1>1, <1>2, <1>3, <1>4, <1>5, <1>6 DEF Next

LEMMA InvNext ==
  ASSUME RepositoryAssumption, WorkingTreeAssumption, Inv, [Next]_vars
  PROVE  Inv'
  <1>1. CASE Search BY <1>1, RefsStep, SearchStepInv DEF Inv, Search
  <1>2. CASE ~Search BY <1>2, RefsStep, OthersLeaveSearch, BesideSearch DEF Inv
  <1> QED BY <1>1, <1>2

(* For any directory, any number of commits and any crash or damage: a     *)
(* search answers with the files of the head it read (local_index.rs       *)
(* 35-213).                                                                *)
THEOREM SearchesShowTheirHead == Spec => []SearchShowsItsHead
  <1>1. RepositoryAssumption /\ WorkingTreeAssumption
    BY RepositoryAssumption, WorkingTreeAssumption
  <1>2. Init => Inv BY <1>1, InitInv
  <1>3. Inv /\ [Next]_vars => Inv' BY <1>1, InvNext
  <1>4. Inv => SearchShowsItsHead BY DEF Inv, SearchInv, SearchShowsItsHead, FilesAt
  <1> QED BY <1>2, <1>3, <1>4, PTL DEF Spec

----------------------------------------------------------------------------
(* Paths.                                                                  *)

Path == Seq(STRING) \ {<< >>}

LEMMA PrefixIsPointwise ==
  ASSUME NEW s \in Path, NEW t \in Path
  PROVE  IsPrefix(s, t) <=> Len(s) <= Len(t) /\ \A i \in 1..Len(s) : s[i] = t[i]
  <1>1. s \in Seq(STRING) /\ t \in Seq(STRING) /\ Len(s) \in Nat /\ Len(t) \in Nat
    BY LenProperties DEF Path
  <1>2. SubSeq(s, 1, Len(s)) = s BY <1>1, SubSeqFull
  <1>3. ASSUME Len(s) <= Len(t)
        PROVE  /\ SubSeq(t, 1, Len(s)) \in Seq(STRING) /\ Len(SubSeq(t, 1, Len(s))) = Len(s)
               /\ \A i \in 1..Len(s) : SubSeq(t, 1, Len(s))[i] = t[i]
    BY <1>1, <1>3, SubSeqProperties
  <1>4. ASSUME Len(s) <= Len(t), \A i \in 1..Len(s) : s[i] = t[i]
        PROVE  s = SubSeq(t, 1, Len(s))
    BY <1>1, <1>3, <1>4, SeqEqual
  <1> QED BY <1>1, <1>2, <1>3, <1>4 DEF IsPrefix

LEMMA PrefixIsTransitive ==
  ASSUME NEW s \in Path, NEW t \in Path, NEW u \in Path
  PROVE  /\ IsPrefix(s, t) /\ IsPrefix(t, u) => IsPrefix(s, u)
         /\ IsStrictPrefix(s, t) /\ IsStrictPrefix(t, u) => IsStrictPrefix(s, u)
  <1>1. Len(s) \in Nat /\ Len(t) \in Nat /\ Len(u) \in Nat BY LenProperties DEF Path
  <1>2. ASSUME IsPrefix(s, t), IsPrefix(t, u) PROVE IsPrefix(s, u)
    BY <1>1, <1>2, PrefixIsPointwise
  <1>3. ASSUME IsPrefix(s, t), IsPrefix(t, s) PROVE s = t
    <2>1. Len(s) = Len(t) /\ \A i \in 1..Len(s) : s[i] = t[i] BY <1>1, <1>3, PrefixIsPointwise
    <2> QED BY <2>1, SeqEqual DEF Path
  <1> QED BY <1>2, <1>3 DEF IsStrictPrefix

LEMMA ParentProperties ==
  ASSUME NEW p \in Path
  PROVE  /\ p \notin Parents(p) /\ Parents(p) \subseteq Path /\ IsFiniteSet(Parents(p))
         /\ \A q \in Parents(p) : IsStrictPrefix(q, p) /\ Parents(q) \subseteq Parents(p)
  <1>1. p \in Seq(STRING) /\ Len(p) \in Nat BY LenProperties DEF Path
  <1>2. ASSUME NEW n \in 1..Len(p) - 1
        PROVE  /\ SubSeq(p, 1, n) \in Path /\ Len(SubSeq(p, 1, n)) = n
               /\ \A i \in 1..n : SubSeq(p, 1, n)[i] = p[i]
    <2>1. n \in Nat /\ 1 <= n /\ n <= Len(p) /\ n - 1 + 1 = n BY <1>1
    <2>2. /\ SubSeq(p, 1, n) \in Seq(STRING) /\ Len(SubSeq(p, 1, n)) = n
          /\ \A i \in 1..n : SubSeq(p, 1, n)[i] = p[i]
      BY <1>1, <2>1, SubSeqProperties
    <2>3. SubSeq(p, 1, n) # << >> BY <2>1, <2>2, EmptySeq
    <2> QED BY <2>2, <2>3 DEF Path
  <1>3. IsFiniteSet(Parents(p))
    <2> DEFINE f == [n \in 1..Len(p) - 1 |-> SubSeq(p, 1, n)]
    <2>1. f \in Surjection(1..Len(p) - 1, Parents(p)) BY DEF Surjection, Parents
    <2>2. IsFiniteSet(1..Len(p) - 1) BY <1>1, FS_Interval
    <2> QED BY <2>1, <2>2, FS_Surjection
  <1>4. p \notin Parents(p) BY <1>1, <1>2 DEF Parents
  <1>5. ASSUME NEW q \in Parents(p) PROVE q \in Path /\ IsStrictPrefix(q, p)
    <2>1. PICK n \in 1..Len(p) - 1 : q = SubSeq(p, 1, n) BY DEF Parents
    <2>2. q \in Path /\ Len(q) = n /\ \A i \in 1..n : q[i] = p[i] BY <1>2, <2>1
    <2>3. IsPrefix(q, p) BY <1>1, <2>2, PrefixIsPointwise
    <2> QED BY <1>4, <2>2, <2>3 DEF IsStrictPrefix
  <1>6. ASSUME NEW q \in Parents(p), NEW r \in Parents(q) PROVE r \in Parents(p)
    <2>1. PICK n \in 1..Len(p) - 1 : q = SubSeq(p, 1, n) BY DEF Parents
    <2>2. q \in Path /\ Len(q) = n /\ \A i \in 1..n : q[i] = p[i] BY <1>2, <2>1
    <2>3. PICK m \in 1..n - 1 : r = SubSeq(q, 1, m) BY <2>2 DEF Parents
    <2>4. m \in 1..Len(p) - 1 BY <1>1
    <2>5. /\ SubSeq(p, 1, m) \in Seq(STRING) /\ Len(SubSeq(p, 1, m)) = m
          /\ \A i \in 1..m : SubSeq(p, 1, m)[i] = p[i]
      BY <1>2, <2>4 DEF Path
    <2>6. r \in Seq(STRING) /\ Len(r) = m /\ \A i \in 1..m : r[i] = q[i]
      <3>1. m \in Nat /\ 1 <= m /\ m <= Len(q) /\ q \in Seq(STRING) BY <2>2 DEF Path
      <3> QED BY <2>3, <3>1, SubSeqProperties
    <2>7. \A i \in 1..m : r[i] = SubSeq(p, 1, m)[i] BY <2>2, <2>5, <2>6
    <2>8. r = SubSeq(p, 1, m) BY <2>5, <2>6, <2>7, SeqEqual
    <2> QED BY <2>4, <2>8 DEF Parents
  <1> QED BY <1>3, <1>4, <1>5, <1>6

\* What lies beneath a path lies beneath all that is above the path.
LEMMA BeneathIsBeneath ==
  ASSUME NEW p \in Path, NEW q \in Path, NEW r \in Parents(q), IsPrefix(p, r)
  PROVE  IsPrefix(p, q)
  <1>1. r \in Path /\ IsPrefix(r, q) BY ParentProperties DEF IsStrictPrefix
  <1> QED BY <1>1, PrefixIsTransitive

----------------------------------------------------------------------------
(* Files that are still to be handled, in any order.                       *)

LEMMA InAnyOrder ==
  ASSUME NEW S, IsFiniteSet(S)
  PROVE  SetToSeq(S) \in Seq(S) /\ Range(SetToSeq(S)) = S /\ IsInjective(SetToSeq(S))
  <1> DEFINE n == Cardinality(S)
  <1>1. n \in Nat /\ ExistsBijection(1..n, S) BY FS_CardinalityType
  <1>2. PICK f : f \in Bijection(1..n, S) BY <1>1 DEF ExistsBijection
  <1>3. f \in [1..n -> S] /\ IsInjective(f) BY <1>2 DEF Bijection, Injection, IsInjective
  <1>4. SetToSeq(S) \in [1..n -> S] /\ IsInjective(SetToSeq(S)) BY <1>3 DEF SetToSeq
  <1>5. PICK g \in [1..n -> S] : g = SetToSeq(S) BY <1>4
  <1>6. g \in Injection(1..n, S) BY <1>4, <1>5 DEF Injection, IsInjective
  <1>7. g \in Surjection(1..n, S)
    <2>1. IsFiniteSet(1..n) /\ Cardinality(1..n) = n BY <1>1, FS_Interval
    <2> QED BY <1>6, <2>1, FS_Injection
  <1>8. Range(g) = S BY <1>7 DEF Range, Surjection
  <1>9. g \in Seq(S) BY <1>1, <1>5 DEF Seq
  <1> QED BY <1>4, <1>5, <1>8, <1>9

LEMMA NextIsRemoved ==
  ASSUME NEW S, NEW s \in Seq(S), s # << >>, IsInjective(s)
  PROVE  /\ Head(s) \in Range(s) /\ Head(s) \in S
         /\ Tail(s) \in Seq(S) /\ IsInjective(Tail(s))
         /\ Range(Tail(s)) = Range(s) \ {Head(s)}
  <1>1. Len(s) \in Nat /\ Len(s) # 0 /\ DOMAIN s = 1..Len(s) /\ \A i \in 1..Len(s) : s[i] \in S
    BY LenProperties, EmptySeq, ElementOfSeq
  <1>2. Head(s) = s[1] BY <1>1, HeadTailProperties
  <1>3. /\ Tail(s) \in Seq(S) /\ Len(Tail(s)) = Len(s) - 1
        /\ \A i \in 1..Len(s) - 1 : Tail(s)[i] = s[i + 1]
    BY <1>1, HeadTailProperties
  <1>4. PICK u \in Seq(S) : u = Tail(s) BY <1>3
  <1>5. DOMAIN u = 1..Len(s) - 1 /\ \A i \in 1..Len(s) - 1 : u[i] = s[i + 1]
    BY <1>3, <1>4, LenProperties
  <1>6. IsInjective(u)
    <2> SUFFICES ASSUME NEW a \in 1..Len(s) - 1, NEW b \in 1..Len(s) - 1, u[a] = u[b]
                 PROVE  a = b
      BY <1>5 DEF IsInjective
    <2>1. a + 1 \in DOMAIN s /\ b + 1 \in DOMAIN s /\ s[a + 1] = s[b + 1] BY <1>1, <1>5
    <2>2. a + 1 = b + 1 BY <2>1 DEF IsInjective
    <2> QED BY <1>1, <2>2
  <1>7. ASSUME NEW x \in Range(s), x # s[1] PROVE x \in Range(u)
    <2>1. PICK i \in 1..Len(s) : x = s[i] BY <1>1 DEF Range
    <2>2. i - 1 \in 1..Len(s) - 1 /\ (i - 1) + 1 = i BY <1>1, <1>7, <2>1
    <2>3. i - 1 \in DOMAIN u /\ u[i - 1] = x BY <1>5, <2>1, <2>2
    <2> QED BY <2>3 DEF Range
  <1>8. ASSUME NEW x \in Range(u) PROVE x \in Range(s) /\ x # s[1]
    <2>1. PICK i \in 1..Len(s) - 1 : x = u[i] BY <1>5 DEF Range
    <2>2. i + 1 \in DOMAIN s /\ 1 \in DOMAIN s /\ i + 1 # 1 /\ x = s[i + 1] BY <1>1, <1>5, <2>1
    <2> QED BY <2>2 DEF Range, IsInjective
  <1>9. s[1] \in Range(s) BY <1>1 DEF Range
  <1> QED BY <1>1, <1>2, <1>4, <1>3, <1>6, <1>7, <1>8, <1>9

----------------------------------------------------------------------------
(* Trees on the disk.                                                      *)

\* Above every entry there are directories, and every file has a name for
\* its temporary file.
Shaped(t) ==
  /\ DOMAIN t \subseteq Path /\ IsFiniteSet(DOMAIN t)
  /\ \A p \in DOMAIN t : \A q \in Parents(p) : q \in DOMAIN t /\ t[q] = Dir
  /\ \A p \in DOMAIN t : t[p] # Dir => p \in DOMAIN TempOf

Files(t) == {p \in DOMAIN t : t[p] # Dir}

NoFileAbove(t, p) == \A q \in Parents(p) : Kind(t, q) # "file"

LEMMA FilesAreFiles ==
  ASSUME NEW t
  PROVE  /\ DOMAIN FilesOf(t) = Files(t)
         /\ \A p : Kind(t, p) = "file" <=> p \in Files(t)
         /\ \A p : Kind(t, p) = "directory" <=> p \in DOMAIN t /\ t[p] = Dir
  BY DEF FilesOf, Restrict, Files, Kind

LEMMA NamesOfTemps ==
  ASSUME RepositoryAssumption, WorkingTreeAssumption, NEW p \in DOMAIN TempOf
  PROVE  /\ p \in Path /\ TempOf[p] \in Path /\ TempOf[p] \in DOMAIN TempOf
         /\ TempOf[TempOf[p]] = TempOf[p] /\ Parents(TempOf[p]) = Parents(p)
  <1>1. Paths \subseteq Path BY DEF RepositoryAssumption, Path
  <1>2. Temps \subseteq Path /\ DOMAIN TempOf = Paths \cup Temps BY DEF WorkingTreeAssumption, Path
  <1>3. TempOf[p] \in Temps
    <2>1. CASE p \in Paths BY <2>1 DEF Temps
    <2>2. CASE p \in Temps BY <2>2 DEF WorkingTreeAssumption
    <2> QED BY <1>2, <2>1, <2>2
  <1>4. TempOf[TempOf[p]] = TempOf[p] BY <1>3 DEF WorkingTreeAssumption
  <1>5. Parents(TempOf[p]) = Parents(p)
    <2>1. CASE p \in Paths BY <2>1 DEF WorkingTreeAssumption
    <2>2. CASE p \in Temps BY <2>2 DEF WorkingTreeAssumption
    <2> QED BY <1>2, <2>1, <2>2
  <1> QED BY <1>1, <1>2, <1>3, <1>4, <1>5

LEMMA DirectoriesMade ==
  ASSUME NEW t, Shaped(t), NEW p \in Path, NoFileAbove(t, p)
  PROVE  LET r == WithParents(t, p)
         IN /\ Shaped(r) /\ Files(r) = Files(t)
            /\ DOMAIN r = DOMAIN t \cup Parents(p)
            /\ \A q \in DOMAIN t : r[q] = t[q]
            /\ \A q \in Parents(p) : r[q] = Dir
  <1> DEFINE r == WithParents(t, p)
  <1>1. DOMAIN r = DOMAIN t \cup Parents(p) /\ \A q \in Parents(p) : r[q] = Dir
    BY DEF WithParents
  <1>2. ASSUME NEW q \in DOMAIN t PROVE r[q] = t[q]
    <2>1. CASE q \in Parents(p) BY <1>1, <2>1 DEF NoFileAbove, Kind
    <2>2. CASE q \notin Parents(p) BY <2>2 DEF WithParents
    <2> QED BY <2>1, <2>2
  <1> HIDE DEF r
  <1>3. /\ Parents(p) \subseteq Path /\ IsFiniteSet(Parents(p))
        /\ \A q \in Parents(p) : Parents(q) \subseteq Parents(p)
    BY ParentProperties
  <1>4. DOMAIN r \subseteq Path /\ IsFiniteSet(DOMAIN r)
    <2>1. IsFiniteSet(DOMAIN t \cup Parents(p)) BY <1>3, FS_Union DEF Shaped
    <2> QED BY <1>1, <1>3, <2>1 DEF Shaped
  <1>5. ASSUME NEW a \in DOMAIN r, NEW q \in Parents(a) PROVE q \in DOMAIN r /\ r[q] = Dir
    <2>1. CASE a \in DOMAIN t BY <1>1, <1>2, <2>1 DEF Shaped
    <2>2. CASE a \in Parents(p) BY <1>1, <1>3, <2>2
    <2> QED BY <1>1, <2>1, <2>2
  <1>6. ASSUME NEW a \in DOMAIN r, r[a] # Dir PROVE a \in DOMAIN TempOf
    BY <1>1, <1>2, <1>6 DEF Shaped
  <1>7. Shaped(r) BY <1>4, <1>5, <1>6 DEF Shaped
  <1>8. Files(r) = Files(t) BY <1>1, <1>2 DEF Files
  <1> QED BY <1>1, <1>2, <1>7, <1>8 DEF r

\* r is t with a file at p.
Wrote(t, p, x, r) ==
  /\ Shaped(r)
  /\ DOMAIN r = (DOMAIN t \cup Parents(p)) \cup {p} /\ r[p] = x
  /\ \A q \in DOMAIN t : q # p => r[q] = t[q]
  /\ \A q \in Parents(p) : r[q] = Dir

LEMMA FileWritten ==
  ASSUME NEW t, Shaped(t), NEW p \in Path, p \in DOMAIN TempOf, NoFileAbove(t, p),
         Kind(t, p) # "directory", NEW x
  PROVE  Wrote(t, p, x, WithFile(t, p, x))
  <1> DEFINE above == WithParents(t, p)
             r == WithFile(t, p, x)
  <1>1. /\ Shaped(above) /\ Files(above) = Files(t)
        /\ DOMAIN above = DOMAIN t \cup Parents(p)
        /\ \A q \in DOMAIN t : above[q] = t[q]
        /\ \A q \in Parents(p) : above[q] = Dir
    BY DirectoriesMade
  <1>2. r = [q \in DOMAIN above \cup {p} |-> IF q = p THEN x ELSE above[q]]
    BY DEF WithFile
  <1> HIDE DEF above, r
  <1>3. DOMAIN r = DOMAIN above \cup {p} /\ r[p] = x /\ \A q \in DOMAIN above : q # p => r[q] = above[q]
    BY <1>2
  <1>4. p \notin Parents(p) BY ParentProperties
  <1>5. ASSUME NEW a \in DOMAIN above PROVE p \notin Parents(a)
    <2> SUFFICES ASSUME p \in Parents(a) PROVE FALSE OBVIOUS
    <2>1. p \in DOMAIN above /\ above[p] = Dir BY <1>1 DEF Shaped
    <2>2. p \in DOMAIN t BY <1>1, <1>4, <2>1
    <2>3. t[p] = Dir BY <1>1, <2>1, <2>2
    <2> QED BY <2>2, <2>3 DEF Kind
  <1>6. ASSUME NEW a \in DOMAIN r, NEW q \in Parents(a) PROVE q \in DOMAIN r /\ r[q] = Dir
    <2>1. CASE a \in DOMAIN above
      <3>1. q \in DOMAIN above /\ above[q] = Dir BY <1>1, <2>1 DEF Shaped
      <3>2. q # p BY <1>5, <2>1
      <3> QED BY <1>3, <3>1, <3>2
    <2>2. CASE a = p BY <1>1, <1>3, <1>4, <2>2
    <2> QED BY <1>3, <2>1, <2>2
  <1>7. IsFiniteSet(DOMAIN r) /\ DOMAIN r \subseteq Path
    BY <1>1, <1>3, FS_AddElement DEF Shaped
  <1>8. ASSUME NEW a \in DOMAIN r, r[a] # Dir PROVE a \in DOMAIN TempOf
    BY <1>1, <1>3, <1>8 DEF Shaped
  <1>9. Shaped(r) BY <1>6, <1>7, <1>8 DEF Shaped
  <1>10. Wrote(t, p, x, r) BY <1>1, <1>3, <1>4, <1>9 DEF Wrote
  <1> QED BY <1>10 DEF r

\* r is t without S.
Removed(t, S, r) ==
  Shaped(r) /\ DOMAIN r = DOMAIN t \ S /\ \A q \in DOMAIN r : r[q] = t[q]

LEMMA EntriesRemoved ==
  ASSUME NEW t, Shaped(t), NEW S, \A p \in DOMAIN t \ S : Parents(p) \cap S = {}
  PROVE  Removed(t, S, Restrict(t, DOMAIN t \ S))
  <1> DEFINE r == Restrict(t, DOMAIN t \ S)
  <1>1. DOMAIN r = DOMAIN t \ S /\ \A q \in DOMAIN r : r[q] = t[q] BY DEF Restrict
  <1> HIDE DEF r
  <1>2. IsFiniteSet(DOMAIN r) BY <1>1, FS_Subset DEF Shaped
  <1>3. Shaped(r) BY <1>1, <1>2 DEF Shaped
  <1>4. Removed(t, S, r) BY <1>1, <1>3 DEF Removed
  <1> QED BY <1>4 DEF r

LEMMA FilesRemoved ==
  ASSUME NEW t, Shaped(t), NEW S, \A p \in S : Kind(t, p) # "directory"
  PROVE  Removed(t, S, Restrict(t, DOMAIN t \ S))
  <1>1. ASSUME NEW p \in DOMAIN t \ S, NEW q \in Parents(p) PROVE q \notin S
    BY DEF Shaped, Kind
  <1> QED BY <1>1, EntriesRemoved

----------------------------------------------------------------------------
(* What holds of the working directory and of a checkout under way.        *)

\* Two files share a temporary file.
Twins(S) == \E p, q \in S : p # q /\ TempOf[p] = TempOf[q]

\* One of the files that are left will not find its temporary file.
Doomed(t, left) ==
  \/ \E p \in left : TempOf[p] \notin DOMAIN t \/ TempOf[p] = p
  \/ Twins(left)

Staging(t, snap, left) ==
  \A p \in Files(snap) \ left :
    TempOf[p] \in Files(t) /\ (t[TempOf[p]] = snap[p] \/ Twins(Files(snap)))

Publishing(t, snap, left) ==
  /\ \A p \in left : Kind(t, TempOf[p]) # "directory"
  /\ \/ Doomed(t, left)
     \/ /\ \A p \in Files(snap) \ left : TempOf[p] # p /\ p \in DOMAIN t /\ t[p] = snap[p]
        /\ \A p \in left : t[TempOf[p]] = snap[p]

Shows(t, snap, prev) ==
  /\ \A p \in Files(snap) : p \in DOMAIN t /\ t[p] = snap[p]
  /\ Files(t) \cap prev \subseteq DOMAIN snap

IsCheckout(c) == c = [step |-> c.step, head |-> c.head, todo |-> c.todo, prev |-> c.prev]

CheckoutOk(t, snap, c) ==
  /\ IsCheckout(c) /\ c.step \in {"stage", "publish", "record"}
  /\ c.todo \in Seq(Files(snap)) /\ IsInjective(c.todo)
  /\ \A p \in Files(snap) : Kind(t, p) # "directory"
  /\ c.step = "stage" => Staging(t, snap, Range(c.todo))
  /\ c.step = "publish" => Publishing(t, snap, Range(c.todo))
  /\ c.step = "record" => Shows(t, snap, c.prev)

WorkInv ==
  /\ Shaped(wd)
  /\ \A h \in 1..Len(snaps) : Shaped(snaps[h].tree)
  /\ \/ chk = NoCheckout
     \/ chk.head \in 1..Len(snaps) /\ CheckoutOk(wd, snaps[chk.head].tree, chk)

LEMMA WorkInit == Init => WorkInv
  <1> SUFFICES ASSUME Init PROVE WorkInv OBVIOUS
  <1>1. wd = << >> /\ chk = NoCheckout /\ snaps = << >> BY DEF Init, RepositoryInit
  <1>2. DOMAIN wd = {} /\ Len(snaps) = 0 BY <1>1, SMT
  <1>3. IsFiniteSet(DOMAIN wd) BY <1>2, FS_EmptySet
  <1>4. 1..Len(snaps) = {} BY <1>2, SMT
  <1> QED BY <1>1, <1>2, <1>3, <1>4 DEF WorkInv, Shaped

\* A file that is not a directory has nothing beneath it.
LEMMA NothingBeneath ==
  ASSUME NEW t, Shaped(t), NEW p, Kind(t, p) # "directory", NEW q \in DOMAIN t
  PROVE  p \notin Parents(q)
  BY DEF Shaped, Kind

----------------------------------------------------------------------------
(* Edits and commits.                                                      *)

LEMMA EditKeeps ==
  ASSUME WorkInv, RepositoryAssumption, WorkingTreeAssumption, NEW p \in Paths, Edit(p)
  PROVE  WorkInv'
  <1>1. /\ chk' = chk /\ snaps' = snaps /\ chk = NoCheckout
        /\ wd' = WithFile(wd, p, edits') /\ Kind(wd, p) # "directory" /\ NoFileAbove(wd, p)
    BY DEF Edit, repoVars, WorkerFree, FileAbove, NoFileAbove
  <1>2. p \in Path /\ p \in DOMAIN TempOf BY DEF RepositoryAssumption, WorkingTreeAssumption, Path
  <1>3. PICK x : x = edits' OBVIOUS
  <1>4. Shaped(WithFile(wd, p, x)) BY <1>1, <1>2, FileWritten DEF WorkInv, Wrote
  <1> QED BY <1>1, <1>3, <1>4 DEF WorkInv

LEMMA EraseKeeps ==
  ASSUME WorkInv, NEW p \in Paths, Erase(p)
  PROVE  WorkInv'
  <1>1. chk' = chk /\ snaps' = snaps /\ chk = NoCheckout /\ wd' = Without(wd, p)
    BY DEF Erase, repoVars, WorkerFree
  <1>2. p \in Path BY <1>1 DEF Erase, WorkInv, Shaped
  <1> DEFINE S == {q \in DOMAIN wd : IsPrefix(p, q)}
  <1>3. ASSUME NEW q \in DOMAIN wd \ S, NEW r \in Parents(q) PROVE r \notin S
    <2>1. q \in Path /\ ~IsPrefix(p, q) BY DEF WorkInv, Shaped
    <2>2. ~IsPrefix(p, r) BY <1>2, <2>1, BeneathIsBeneath
    <2> QED BY <2>2
  <1>4. Shaped(Restrict(wd, DOMAIN wd \ S)) BY <1>3, EntriesRemoved DEF WorkInv, Removed
  <1>5. Without(wd, p) = Restrict(wd, DOMAIN wd \ S)
    <2>1. {q \in DOMAIN wd : ~IsPrefix(p, q)} = DOMAIN wd \ S OBVIOUS
    <2> QED BY <2>1 DEF Without
  <1> QED BY <1>1, <1>4, <1>5 DEF WorkInv

LEMMA CommitKeeps ==
  ASSUME WorkInv, RefsInv, Worker \in Procs,
         NEW unread \in {{}} \cup {{p} : p \in DOMAIN FilesOf(wd)}, CommitTree(unread)
  PROVE  WorkInv'
  <1> DEFINE tree == Restrict(wd, DOMAIN wd \ unread)
  <1>1. chk' = chk /\ wd' = wd /\ chk = NoCheckout /\ Commit(Worker, tree)
    BY DEF CommitTree, workVars
  <1>2. Shaped(tree)
    <2>1. \A p \in unread : p \in Files(wd) BY FilesAreFiles
    <2>2. \A p \in unread : Kind(wd, p) # "directory" BY <2>1, FilesAreFiles
    <2> QED BY <2>2, FilesRemoved DEF WorkInv, Removed
  <1> HIDE DEF tree
  <1>3. PICK new : new = [parent |-> default.head, tree |-> tree] OBVIOUS
  <1>4. snaps' = Append(snaps, new) /\ new.tree = tree BY <1>1, <1>3 DEF Commit, NewSnapshot
  <1>5. PICK S : snaps \in Seq(S) BY DEF RefsInv
  <1>6. PICK T : T = S \cup {new} OBVIOUS
  <1>7. PICK s \in Seq(T) : s = snaps BY <1>5, <1>6, SMT
  <1>8. /\ Len(snaps') = Len(snaps) + 1 /\ Len(snaps) \in Nat /\ snaps'[Len(snaps) + 1] = new
        /\ \A h \in 1..Len(snaps) : snaps'[h] = snaps[h]
    BY <1>4, <1>6, <1>7, AppendProperties, LenProperties
  <1>9. ASSUME NEW h \in 1..Len(snaps') PROVE Shaped(snaps'[h].tree)
    <2>1. CASE h = Len(snaps) + 1 BY <1>2, <1>4, <1>8, <2>1
    <2>2. CASE h # Len(snaps) + 1
      <3>1. h \in 1..Len(snaps) BY <1>8, <2>2
      <3> QED BY <1>8, <3>1 DEF WorkInv
    <2> QED BY <2>1, <2>2
  <1> QED BY <1>1, <1>9 DEF WorkInv

----------------------------------------------------------------------------
(* Checkouts.                                                              *)

Going(step, head, todo, prev) == [step |-> step, head |-> head, todo |-> todo, prev |-> prev]

Restarted(c, step, todo) == [c EXCEPT !.step = step, !.todo = todo]

LEMMA TodoReplaced ==
  ASSUME NEW step, NEW head, NEW todo, NEW prev, NEW x
  PROVE  [Going(step, head, todo, prev) EXCEPT !.todo = x] = Going(step, head, x, prev)
  BY SMT DEF Going

LEMMA CheckoutFields ==
  ASSUME NEW c, IsCheckout(c), NEW todo, NEW step
  PROVE  /\ [c EXCEPT !.todo = todo] = Going(c.step, c.head, todo, c.prev)
         /\ [c EXCEPT !.step = step] = Going(step, c.head, c.todo, c.prev)
         /\ Restarted(c, step, todo) = Going(step, c.head, todo, c.prev)
  <1>1. [c EXCEPT !.todo = todo] = Going(c.step, c.head, todo, c.prev)
    BY SMT DEF IsCheckout, Going
  <1>2. [c EXCEPT !.step = step] = Going(step, c.head, c.todo, c.prev)
    BY SMT DEF IsCheckout, Going
  <1>4. PICK d : d = [c EXCEPT !.step = step] OBVIOUS
  <1>5. [d EXCEPT !.todo = todo] = Going(step, c.head, todo, c.prev)
    <2>1. PICK a, b, e : a = c.head /\ b = c.todo /\ e = c.prev OBVIOUS
    <2>2. [Going(step, a, b, e) EXCEPT !.todo = todo] = Going(step, a, todo, e) BY TodoReplaced
    <2>3. d = Going(step, a, b, e) BY <1>2, <1>4, <2>1
    <2> QED BY <2>1, <2>2, <2>3, Zenon
  <1>3. Restarted(c, step, todo) = Going(step, c.head, todo, c.prev)
    BY <1>4, <1>5, Zenon DEF Restarted
  <1> QED BY <1>1, <1>2, <1>3

LEMMA GoingFields ==
  ASSUME NEW step, NEW head, NEW todo, NEW prev
  PROVE  LET c == Going(step, head, todo, prev)
         IN IsCheckout(c) /\ c.step = step /\ c.head = head /\ c.todo = todo /\ c.prev = prev
  BY SMT DEF IsCheckout, Going

LEMMA FilesAreNamed ==
  ASSUME RepositoryAssumption, WorkingTreeAssumption,
         NEW snap, Shaped(snap), NEW p \in Files(snap)
  PROVE  /\ p \in Path /\ p \in DOMAIN TempOf /\ TempOf[p] \in Path /\ TempOf[p] \in DOMAIN TempOf
         /\ TempOf[TempOf[p]] = TempOf[p] /\ Parents(TempOf[p]) = Parents(p)
  <1>1. p \in DOMAIN TempOf BY DEF Shaped, Files
  <1> QED BY <1>1, NamesOfTemps

\* One more file is under its temporary name.
LEMMA OneStaged ==
  ASSUME RepositoryAssumption, WorkingTreeAssumption,
         NEW t, NEW snap, NEW c, Shaped(t), Shaped(snap), CheckoutOk(t, snap, c),
         c.step = "stage", c.todo # << >>,
         NEW n, n = Head(c.todo), NoFileAbove(t, n), Kind(t, TempOf[n]) # "directory",
         NEW t1, t1 = WithFile(t, TempOf[n], snap[n])
  PROVE  Shaped(t1) /\ CheckoutOk(t1, snap, Going("stage", c.head, Tail(c.todo), c.prev))
  <1>1. /\ n \in Files(snap) /\ Tail(c.todo) \in Seq(Files(snap)) /\ IsInjective(Tail(c.todo))
        /\ Range(Tail(c.todo)) = Range(c.todo) \ {n}
    BY NextIsRemoved DEF CheckoutOk
  <1>2. PICK m : m = TempOf[n] OBVIOUS
  <1>3. m \in Path /\ m \in DOMAIN TempOf /\ Parents(m) = Parents(n)
    BY <1>1, <1>2, FilesAreNamed
  <1>4. NoFileAbove(t, m) BY <1>3 DEF NoFileAbove
  <1>5. /\ Shaped(t1) /\ t1[m] = snap[n] /\ m \in DOMAIN t1
        /\ DOMAIN t1 = (DOMAIN t \cup Parents(n)) \cup {m}
        /\ \A q \in DOMAIN t : q # m => t1[q] = t[q]
        /\ \A q \in Parents(n) : t1[q] = Dir
    <2>1. PICK x : x = snap[n] OBVIOUS
    <2>2. t1 = WithFile(t, m, x) BY <1>2, <2>1
    <2>3. Kind(t, m) # "directory" BY <1>2
    <2>4. /\ Shaped(t1) /\ t1[m] = x /\ m \in DOMAIN t1
          /\ DOMAIN t1 = (DOMAIN t \cup Parents(m)) \cup {m}
          /\ \A q \in DOMAIN t : q # m => t1[q] = t[q]
          /\ \A q \in Parents(m) : t1[q] = Dir
      <3>1. Wrote(t, m, x, WithFile(t, m, x)) BY <1>3, <1>4, <2>3, FileWritten
      <3> QED BY <2>2, <3>1 DEF Wrote
    <2> QED BY <1>3, <2>1, <2>4
  <1>6. n \in DOMAIN snap /\ snap[n] # Dir /\ m \in Files(t1) BY <1>1, <1>5 DEF Files
  <1>7. \A p \in Files(snap) : p \notin Parents(n) BY <1>6 DEF Files, Shaped
  <1>8. ASSUME NEW p \in Files(snap) PROVE Kind(t1, p) # "directory"
    <2>1. CASE p = m BY <1>6, <2>1, FilesAreFiles
    <2>2. CASE p # m
      <3>1. p \in DOMAIN t1 => p \in DOMAIN t /\ t1[p] = t[p] BY <1>5, <1>7, <2>2
      <3>2. Kind(t, p) # "directory" BY DEF CheckoutOk
      <3> QED BY <3>1, <3>2 DEF Kind
    <2> QED BY <2>1, <2>2
  <1>9. Staging(t1, snap, Range(c.todo) \ {n})
    <2> SUFFICES ASSUME NEW p \in Files(snap) \ (Range(c.todo) \ {n})
                 PROVE  TempOf[p] \in Files(t1) /\ (t1[TempOf[p]] = snap[p] \/ Twins(Files(snap)))
      BY DEF Staging
    <2>1. CASE p = n BY <1>2, <1>5, <1>6, <2>1
    <2>2. CASE p # n /\ TempOf[p] = m
      <3>1. Twins(Files(snap)) BY <1>1, <1>2, <2>2 DEF Twins
      <3> QED BY <1>6, <2>2, <3>1
    <2>3. CASE p # n /\ TempOf[p] # m
      <3>1. TempOf[p] \in Files(t) /\ (t[TempOf[p]] = snap[p] \/ Twins(Files(snap)))
        BY <2>3 DEF CheckoutOk, Staging
      <3>2. t1[TempOf[p]] = t[TempOf[p]] /\ TempOf[p] \in Files(t1) BY <1>5, <2>3, <3>1 DEF Files
      <3> QED BY <3>1, <3>2
    <2> QED BY <2>1, <2>2, <2>3
  <1>10. PICK d : d = Going("stage", c.head, Tail(c.todo), c.prev) OBVIOUS
  <1>11. IsCheckout(d) /\ d.step = "stage" /\ d.todo = Tail(c.todo) BY <1>10, GoingFields
  <1>12. CheckoutOk(t1, snap, d) BY <1>1, <1>8, <1>9, <1>11 DEF CheckoutOk
  <1> QED BY <1>5, <1>10, <1>12

\* All files are staged.
LEMMA AllStaged ==
  ASSUME NEW t, NEW snap, NEW c, Shaped(t), Shaped(snap), CheckoutOk(t, snap, c),
         c.step = "stage", c.todo = << >>,
         NEW todo, todo = SetToSeq(Files(snap))
  PROVE  CheckoutOk(t, snap, Going("publish", c.head, todo, c.prev))
  <1>1. IsFiniteSet(Files(snap)) BY FS_Subset DEF Shaped, Files
  <1>2. todo \in Seq(Files(snap)) /\ Range(todo) = Files(snap) /\ IsInjective(todo)
    BY <1>1, InAnyOrder
  <1>3. Range(c.todo) = {} BY SMT DEF Range
  <1>4. \A p \in Files(snap) : TempOf[p] \in Files(t) /\ (t[TempOf[p]] = snap[p] \/ Twins(Files(snap)))
    BY <1>3 DEF CheckoutOk, Staging
  <1>5. \A p \in Files(snap) : Kind(t, TempOf[p]) # "directory" BY <1>4, FilesAreFiles
  <1>6. Publishing(t, snap, Files(snap)) BY <1>4, <1>5 DEF Publishing, Doomed
  <1>7. PICK d : d = Going("publish", c.head, todo, c.prev) OBVIOUS
  <1>8. IsCheckout(d) /\ d.step = "publish" /\ d.todo = todo BY <1>7, GoingFields
  <1> QED BY <1>2, <1>6, <1>7, <1>8 DEF CheckoutOk

\* One more file has been put in its place.
LEMMA OnePublished ==
  ASSUME RepositoryAssumption, WorkingTreeAssumption,
         NEW t, NEW snap, NEW c, Shaped(t), Shaped(snap), CheckoutOk(t, snap, c),
         c.step = "publish", c.todo # << >>,
         NEW n, n = Head(c.todo), NEW m, m = TempOf[n], m \in DOMAIN t, m # n,
         NEW t0, t0 = Restrict(t, DOMAIN t \ {n, m}),
         NEW t1, t1 = WithFile(t0, n, t[m])
  PROVE  Shaped(t1) /\ CheckoutOk(t1, snap, Going("publish", c.head, Tail(c.todo), c.prev))
  <1>1. /\ n \in Files(snap) /\ Tail(c.todo) \in Seq(Files(snap)) /\ IsInjective(Tail(c.todo))
        /\ n \in Range(c.todo) /\ Range(Tail(c.todo)) = Range(c.todo) \ {n}
    BY NextIsRemoved DEF CheckoutOk
  <1>2. PICK left : left = Range(c.todo) OBVIOUS
  <1>3. PICK rest : rest = left \ {n} OBVIOUS
  <1>4. left \subseteq Files(snap) /\ n \in left /\ rest = Range(Tail(c.todo))
    <2>1. Range(c.todo) \subseteq Files(snap)
      <3>1. PICK s \in Seq(Files(snap)) : s = c.todo BY DEF CheckoutOk
      <3>2. \A i \in DOMAIN s : s[i] \in Files(snap) BY ElementOfSeq, LenProperties
      <3> QED BY <3>1, <3>2 DEF Range
    <2> QED BY <1>1, <1>2, <1>3, <2>1
  <1>5. /\ n \in Path /\ n \in DOMAIN TempOf /\ m \in Path /\ TempOf[m] = m /\ Parents(m) = Parents(n)
    BY <1>1, FilesAreNamed
  <1>6. Publishing(t, snap, left) BY <1>2 DEF CheckoutOk
  <1>7. Kind(t, n) # "directory" /\ Kind(t, m) # "directory"
    BY <1>1, <1>4, <1>6 DEF CheckoutOk, Publishing
  <1>8. Shaped(t0) /\ DOMAIN t0 = DOMAIN t \ {n, m} /\ \A q \in DOMAIN t0 : t0[q] = t[q]
    <2>1. PICK S : S = {n, m} OBVIOUS
    <2>2. \A p \in S : Kind(t, p) # "directory" BY <1>7, <2>1
    <2>3. Removed(t, S, Restrict(t, DOMAIN t \ S)) BY <2>2, FilesRemoved
    <2> QED BY <2>1, <2>3 DEF Removed
  <1>9. \A q \in Parents(n) : q \in DOMAIN t0 /\ t0[q] = Dir
    <2>1. \A q \in Parents(n) : q \in DOMAIN t /\ t[q] = Dir BY <1>5 DEF Shaped
    <2>2. n \notin Parents(n) /\ m \notin Parents(n) BY <1>5, ParentProperties
    <2> QED BY <1>8, <2>1, <2>2
  <1>10. NoFileAbove(t0, n) /\ Kind(t0, n) # "directory" BY <1>8, <1>9 DEF NoFileAbove, Kind
  <1>11. PICK x : x = t[m] OBVIOUS
  <1>12. Wrote(t0, n, x, t1)
    <2>1. Wrote(t0, n, x, WithFile(t0, n, x)) BY <1>5, <1>8, <1>10, FileWritten
    <2> QED BY <1>11, <2>1
  <1>13. /\ Shaped(t1) /\ DOMAIN t1 = (DOMAIN t \ {m}) \cup {n} /\ t1[n] = x
         /\ \A q \in DOMAIN t : q \notin {n, m} => q \in DOMAIN t1 /\ t1[q] = t[q]
    <2>1. DOMAIN t1 = DOMAIN t0 \cup {n} BY <1>9, <1>12 DEF Wrote
    <2>2. Shaped(t1) /\ t1[n] = x BY <1>12 DEF Wrote
    <2>3. DOMAIN t1 = (DOMAIN t \ {m}) \cup {n} BY <1>8, <2>1
    <2>4. ASSUME NEW q \in DOMAIN t, q \notin {n, m} PROVE q \in DOMAIN t1 /\ t1[q] = t[q]
      <3>1. q \in DOMAIN t0 /\ q # n BY <1>8, <2>4
      <3>2. t1[q] = t0[q] BY <1>12, <3>1 DEF Wrote
      <3> QED BY <1>8, <2>1, <3>1, <3>2
    <2> QED BY <2>2, <2>3, <2>4
  <1>14. x # Dir BY <1>7, <1>11 DEF Kind
  <1>15. ASSUME NEW p, Kind(t, p) # "directory" PROVE Kind(t1, p) # "directory"
    BY <1>13, <1>14, <1>15 DEF Kind
  <1>16. \A p \in left : p \in DOMAIN TempOf /\ TempOf[TempOf[p]] = TempOf[p]
    BY <1>4, FilesAreNamed
  <1>17. ASSUME Doomed(t, left) PROVE Doomed(t1, rest)
    <2>1. CASE \E p \in left : TempOf[p] \notin DOMAIN t \/ TempOf[p] = p
      <3>1. PICK p \in left : TempOf[p] \notin DOMAIN t \/ TempOf[p] = p BY <2>1
      <3>2. p \in rest BY <1>3, <3>1
      <3>3. TempOf[p] # n BY <1>16
      <3> QED BY <1>13, <3>1, <3>2, <3>3 DEF Doomed
    <2>2. CASE Twins(left)
      <3>1. PICK p \in left, q \in left : p # q /\ TempOf[p] = TempOf[q] BY <2>2 DEF Twins
      <3>2. CASE p \in rest /\ q \in rest BY <3>1, <3>2 DEF Doomed, Twins
      <3>3. CASE p = n
        <4>1. q \in rest /\ TempOf[q] \notin DOMAIN t1 BY <1>3, <1>13, <3>1, <3>3
        <4> QED BY <4>1 DEF Doomed
      <3>4. CASE q = n
        <4>1. p \in rest /\ TempOf[p] \notin DOMAIN t1 BY <1>3, <1>13, <3>1, <3>4
        <4> QED BY <4>1 DEF Doomed
      <3> QED BY <1>3, <3>2, <3>3, <3>4
    <2> QED BY <1>17, <2>1, <2>2 DEF Doomed
  <1>18. ASSUME ~Doomed(t, left)
         PROVE  /\ \A p \in Files(snap) \ rest : TempOf[p] # p /\ p \in DOMAIN t1 /\ t1[p] = snap[p]
                /\ \A p \in rest : t1[TempOf[p]] = snap[p]
    <2>1. /\ \A p \in Files(snap) \ left : TempOf[p] # p /\ p \in DOMAIN t /\ t[p] = snap[p]
          /\ \A p \in left : t[TempOf[p]] = snap[p]
      BY <1>6, <1>18 DEF Publishing
    <2>2. ASSUME NEW p \in Files(snap) \ rest
          PROVE  TempOf[p] # p /\ p \in DOMAIN t1 /\ t1[p] = snap[p]
      <3>1. CASE p = n BY <1>4, <1>11, <1>13, <2>1, <3>1
      <3>2. CASE p # n
        <4>1. p \in Files(snap) \ left BY <1>3, <3>2
        <4>2. p # m BY <1>5, <2>1, <4>1
        <4> QED BY <1>13, <2>1, <3>2, <4>1, <4>2
      <3> QED BY <3>1, <3>2
    <2>3. ASSUME NEW p \in rest PROVE t1[TempOf[p]] = snap[p]
      <3>1. p \in left /\ p # n BY <1>3
      <3>2. TempOf[p] \in DOMAIN t /\ TempOf[p] # m BY <1>4, <1>18, <3>1 DEF Doomed, Twins
      <3>3. TempOf[p] # n BY <1>16, <3>1
      <3> QED BY <1>13, <2>1, <3>1, <3>2, <3>3
    <2> QED BY <2>2, <2>3
  <1>19. Publishing(t1, snap, rest)
    <2>1. \A p \in rest : Kind(t1, TempOf[p]) # "directory" BY <1>3, <1>6, <1>15 DEF Publishing
    <2> QED BY <1>17, <1>18, <2>1 DEF Publishing
  <1>20. \A p \in Files(snap) : Kind(t1, p) # "directory" BY <1>15 DEF CheckoutOk
  <1>21. PICK d : d = Going("publish", c.head, Tail(c.todo), c.prev) OBVIOUS
  <1>22. IsCheckout(d) /\ d.step = "publish" /\ d.todo = Tail(c.todo) BY <1>21, GoingFields
  <1>23. CheckoutOk(t1, snap, d) BY <1>1, <1>4, <1>19, <1>20, <1>22 DEF CheckoutOk
  <1> QED BY <1>13, <1>21, <1>23

\* What the last checkout left, and the directories above it, are removed.
LEMMA StaleRemoved ==
  ASSUME NEW t, NEW snap, NEW c, Shaped(t), Shaped(snap), CheckoutOk(t, snap, c),
         c.step = "publish", c.todo = << >>,
         NEW gone, gone = {p \in c.prev : p \in Files(t)} \ Files(snap),
         NEW t0, t0 = Restrict(t, DOMAIN t \ gone),
         NEW t1, t1 = Restrict(t0, DOMAIN t0 \ Emptied(t0, gone))
  PROVE  Shaped(t1) /\ CheckoutOk(t1, snap, Going("record", c.head, c.todo, c.prev))
  <1>1. Range(c.todo) = {} BY SMT DEF Range
  <1>2. \A p \in Files(snap) : p \in DOMAIN t /\ t[p] = snap[p]
    BY <1>1 DEF CheckoutOk, Publishing, Doomed, Twins
  <1>3. \A p \in gone : p \in DOMAIN t /\ t[p] # Dir BY DEF Files
  <1>4. Shaped(t0) /\ DOMAIN t0 = DOMAIN t \ gone /\ \A q \in DOMAIN t0 : t0[q] = t[q]
    <2>1. \A p \in gone : Kind(t, p) # "directory" BY <1>3 DEF Kind
    <2>2. Removed(t, gone, t0) BY <2>1, FilesRemoved
    <2> QED BY <2>2 DEF Removed
  <1>5. PICK above : above = UNION {Parents(p) : p \in gone} OBVIOUS
  <1>6. PICK empty : empty = Emptied(t0, gone) OBVIOUS
  <1>7. empty = {d \in above : \A q \in DOMAIN t0 : IsStrictPrefix(d, q) => q \in above}
    BY <1>5, <1>6 DEF Emptied
  <1>8. \A d \in above : d \in DOMAIN t /\ t[d] = Dir BY <1>3, <1>5 DEF Shaped
  <1>9. ASSUME NEW q \in DOMAIN t0 \ empty, NEW d \in Parents(q) PROVE d \notin empty
    <2> SUFFICES ASSUME d \in empty PROVE FALSE OBVIOUS
    <2>1. q \in Path /\ d \in Path /\ IsStrictPrefix(d, q)
      <3>1. q \in Path BY <1>4 DEF Shaped
      <3> QED BY <3>1, ParentProperties
    <2>2. q \in above BY <1>7, <2>1
    <2>3. ASSUME NEW r \in DOMAIN t0, IsStrictPrefix(q, r) PROVE r \in above
      <3>1. r \in Path BY <1>4 DEF Shaped
      <3>2. IsStrictPrefix(d, r) BY <2>1, <2>3, <3>1, PrefixIsTransitive
      <3> QED BY <1>7, <3>2
    <2> QED BY <1>7, <2>2, <2>3
  <1>10. Shaped(t1) /\ DOMAIN t1 = DOMAIN t0 \ empty /\ \A q \in DOMAIN t1 : t1[q] = t0[q]
    <2>1. \A p \in DOMAIN t0 \ empty : Parents(p) \cap empty = {} BY <1>9
    <2>2. Removed(t0, empty, Restrict(t0, DOMAIN t0 \ empty)) BY <1>4, <2>1, EntriesRemoved
    <2> QED BY <1>6, <2>2 DEF Removed
  <1>11. ASSUME NEW p \in Files(snap) PROVE p \in DOMAIN t1 /\ t1[p] = snap[p]
    <2>1. p \in DOMAIN t0 BY <1>2, <1>4
    <2>2. p \notin empty BY <1>2, <1>7, <1>8 DEF Files
    <2> QED BY <1>2, <1>4, <1>10, <2>1, <2>2
  <1>12. Files(t1) \cap c.prev \subseteq DOMAIN snap
    <2> SUFFICES ASSUME NEW p \in Files(t1), p \in c.prev PROVE p \in DOMAIN snap OBVIOUS
    <2>1. p \in DOMAIN t0 /\ t0[p] # Dir BY <1>10 DEF Files
    <2>2. p \in Files(t) /\ p \notin gone BY <1>4, <2>1 DEF Files
    <2> QED BY <2>2 DEF Files
  <1>13. \A p \in Files(snap) : Kind(t1, p) # "directory" BY <1>11 DEF Kind, Files
  <1>14. PICK d : d = Going("record", c.head, c.todo, c.prev) OBVIOUS
  <1>15. IsCheckout(d) /\ d.step = "record" /\ d.todo = c.todo /\ d.prev = c.prev
    BY <1>14, GoingFields
  <1>16. CheckoutOk(t1, snap, d) BY <1>11, <1>12, <1>13, <1>15 DEF CheckoutOk, Shows
  <1> QED BY <1>10, <1>14, <1>16

\* A file could not be staged, and the temporary files are removed.
LEMMA StagingUndone ==
  ASSUME NEW t, Shaped(t), NEW n \in Path, NEW S,
         NEW made, made = IF NoFileAbove(t, n) THEN WithParents(t, n) ELSE t,
         NEW gone, gone = S \cap Files(made)
  PROVE  Shaped(Restrict(made, DOMAIN made \ gone))
  <1>1. Shaped(made)
    <2>1. CASE NoFileAbove(t, n) BY <2>1, DirectoriesMade
    <2>2. CASE ~NoFileAbove(t, n) BY <2>2
    <2> QED BY <2>1, <2>2
  <1>2. \A p \in gone : Kind(made, p) # "directory" BY DEF Files, Kind
  <1>3. Removed(made, gone, Restrict(made, DOMAIN made \ gone)) BY <1>1, <1>2, FilesRemoved
  <1> QED BY <1>3 DEF Removed

\* The snapshot of the checkout under way.
Snap == snaps[chk.head].tree

LEMMA SnapProperties ==
  ASSUME RefsInv, WorkInv, chk # NoCheckout
  PROVE  /\ chk.head \in 1..Len(snaps) /\ Tree(chk.head) = Snap
         /\ Shaped(Snap) /\ CheckoutOk(wd, Snap, chk) /\ Shaped(wd)
         /\ DOMAIN FilesOf(Tree(chk.head)) = Files(Snap)
  <1>1. chk.head \in 1..Len(snaps) /\ Shaped(Snap) /\ CheckoutOk(wd, Snap, chk) /\ Shaped(wd)
    BY DEF WorkInv, Snap
  <1>2. Len(snaps) \in Nat BY Lengths
  <1>3. Tree(chk.head) = Snap BY <1>1, <1>2 DEF Tree, Snap
  <1>4. DOMAIN FilesOf(Tree(chk.head)) = Files(Snap) BY <1>3, FilesAreFiles
  <1> QED BY <1>1, <1>3, <1>4

\* What a step of a checkout has to show.
LEMMA CheckoutStep ==
  ASSUME WorkInv, snaps' = snaps, NEW t, NEW c, wd' = t, chk' = c, Shaped(t),
         c = NoCheckout \/ (c.head \in 1..Len(snaps) /\ CheckoutOk(t, snaps[c.head].tree, c))
  PROVE  WorkInv'
  BY DEF WorkInv

LEMMA NoneIsUnderWay ==
  NoCheckout.step = "none"
  BY DEF NoCheckout

LEMMA StartKeeps ==
  ASSUME RefsInv, WorkInv, NEW h \in DOMAIN snaps, StartCheckout(h)
  PROVE  WorkInv'
  <1>1. Len(snaps) \in Nat BY Lengths
  <1>2. DOMAIN snaps = 1..Len(snaps)
    <2>1. PICK S : snaps \in Seq(S) BY DEF RefsInv
    <2> QED BY <2>1, LenProperties
  <1>3. Tree(h) = snaps[h].tree BY <1>1, <1>2 DEF Tree
  <1>4. PICK snap : snap = snaps[h].tree OBVIOUS
  <1>5. Shaped(snap) BY <1>2, <1>4 DEF WorkInv
  <1>6. DOMAIN FilesOf(Tree(h)) = Files(snap) BY <1>3, <1>4, FilesAreFiles
  <1>7. PICK todo : todo = SetToSeq(Files(snap)) OBVIOUS
  <1>8. PICK prev : prev = mapping OBVIOUS
  <1>9. PICK c : c = Going("stage", h, todo, prev) OBVIOUS
  <1>10. /\ wd' = wd /\ snaps' = snaps /\ chk' = c
         /\ \A p \in Files(snap) : Kind(wd, p) # "directory"
    BY <1>6, <1>7, <1>8, <1>9 DEF StartCheckout, repoVars, Preflight, Going
  <1>11. IsCheckout(c) /\ c.step = "stage" /\ c.head = h /\ c.todo = todo BY <1>9, GoingFields
  <1>12. IsFiniteSet(Files(snap)) BY <1>5, FS_Subset DEF Shaped, Files
  <1>13. todo \in Seq(Files(snap)) /\ Range(todo) = Files(snap) /\ IsInjective(todo)
    BY <1>7, <1>12, InAnyOrder
  <1>14. CheckoutOk(wd, snap, c) BY <1>10, <1>11, <1>13 DEF CheckoutOk, Staging
  <1> QED BY <1>2, <1>4, <1>10, <1>11, <1>14 DEF WorkInv

LEMMA StageKeeps ==
  ASSUME RepositoryAssumption, WorkingTreeAssumption, RefsInv, WorkInv, StageFile
  PROVE  WorkInv'
  <1>1. chk.step = "stage" /\ chk.todo # << >> /\ chk # NoCheckout /\ snaps' = snaps
    BY NoneIsUnderWay DEF StageFile, repoVars
  <1>2. PICK n : n = Head(chk.todo) OBVIOUS
  <1>3. PICK t1 : t1 = WithFile(wd, TempOf[n], Snap[n]) OBVIOUS
  <1>4. PICK d : d = Going("stage", chk.head, Tail(chk.todo), chk.prev) OBVIOUS
  <1>5. NoFileAbove(wd, n) /\ Kind(wd, TempOf[n]) # "directory"
    BY <1>2 DEF StageFile, FileAbove, NoFileAbove, NextFile
  <1>6. /\ chk.head \in 1..Len(snaps) /\ Tree(chk.head) = Snap
        /\ Shaped(Snap) /\ CheckoutOk(wd, Snap, chk) /\ Shaped(wd)
    BY <1>1, SnapProperties
  <1>7. wd' = t1 BY <1>2, <1>3, <1>6 DEF StageFile, NextFile
  <1>8. chk' = d
    <2>1. chk' = [chk EXCEPT !.todo = Tail(chk.todo)] BY DEF StageFile
    <2>2. IsCheckout(chk) BY <1>6 DEF CheckoutOk
    <2> QED BY <1>1, <1>4, <2>1, <2>2, CheckoutFields
  <1>9. Shaped(t1) /\ CheckoutOk(t1, Snap, d)
    BY <1>1, <1>2, <1>3, <1>4, <1>5, <1>6, OneStaged
  <1>10. d.head = chk.head BY <1>4, GoingFields
  <1> QED BY <1>1, <1>6, <1>7, <1>8, <1>9, <1>10, CheckoutStep DEF Snap

LEMMA StageFailsKeeps ==
  ASSUME RepositoryAssumption, WorkingTreeAssumption, RefsInv, WorkInv, StageFails
  PROVE  WorkInv'
  <1>1. /\ chk.step = "stage" /\ chk.todo # << >> /\ chk # NoCheckout /\ snaps' = snaps
        /\ chk' = NoCheckout
    BY NoneIsUnderWay DEF StageFails, repoVars
  <1>2. /\ chk.head \in 1..Len(snaps) /\ Tree(chk.head) = Snap
        /\ Shaped(Snap) /\ CheckoutOk(wd, Snap, chk) /\ Shaped(wd)
    BY <1>1, SnapProperties
  <1>3. PICK n : n = Head(chk.todo) OBVIOUS
  <1>4. n \in Files(Snap) BY <1>1, <1>2, <1>3, NextIsRemoved DEF CheckoutOk
  <1>5. n \in Path BY <1>2, <1>4, FilesAreNamed
  <1>6. PICK S : S = {TempOf[p] : p \in Staged \cup {n}} OBVIOUS
  <1>7. PICK made : made = IF NoFileAbove(wd, n) THEN WithParents(wd, n) ELSE wd OBVIOUS
  <1>8. PICK gone : gone = S \cap Files(made) OBVIOUS
  <1>9. DOMAIN FilesOf(made) = Files(made) BY FilesAreFiles
  <1>10. FileAbove(n) <=> ~NoFileAbove(wd, n) BY DEF FileAbove, NoFileAbove
  <1>11. made = IF FileAbove(n) THEN wd ELSE WithParents(wd, n) BY <1>7, <1>10
  <1>12. wd' = Restrict(made, DOMAIN made \ gone)
    BY <1>3, <1>6, <1>8, <1>9, <1>11 DEF StageFails, NextFile
  <1>13. PICK t : t = Restrict(made, DOMAIN made \ gone) OBVIOUS
  <1>14. Shaped(t) BY <1>2, <1>5, <1>7, <1>8, <1>13, StagingUndone
  <1> QED BY <1>1, <1>12, <1>13, <1>14, CheckoutStep

LEMMA StartPublishingKeeps ==
  ASSUME RefsInv, WorkInv, StartPublishing
  PROVE  WorkInv'
  <1>1. chk.step = "stage" /\ chk.todo = << >> /\ chk # NoCheckout /\ snaps' = snaps
    BY NoneIsUnderWay DEF StartPublishing, repoVars
  <1>2. /\ chk.head \in 1..Len(snaps) /\ Shaped(Snap) /\ CheckoutOk(wd, Snap, chk) /\ Shaped(wd)
        /\ DOMAIN FilesOf(Tree(chk.head)) = Files(Snap)
    BY <1>1, SnapProperties
  <1>3. PICK todo : todo = SetToSeq(Files(Snap)) OBVIOUS
  <1>4. PICK d : d = Going("publish", chk.head, todo, chk.prev) OBVIOUS
  <1>5. PICK t : t = wd OBVIOUS
  <1>6. chk' = d
    <2>1. chk' = Restarted(chk, "publish", todo)
      BY <1>2, <1>3 DEF StartPublishing, Restarted
    <2>2. IsCheckout(chk) BY <1>2 DEF CheckoutOk
    <2> QED BY <1>4, <2>1, <2>2, CheckoutFields
  <1>7. CheckoutOk(t, Snap, d) BY <1>1, <1>2, <1>3, <1>4, <1>5, AllStaged
  <1>8. wd' = t BY <1>5 DEF StartPublishing
  <1>9. d.head = chk.head BY <1>4, GoingFields
  <1> QED BY <1>1, <1>2, <1>5, <1>6, <1>7, <1>8, <1>9, CheckoutStep DEF Snap

LEMMA PublishKeeps ==
  ASSUME RepositoryAssumption, WorkingTreeAssumption, RefsInv, WorkInv, PublishFile
  PROVE  WorkInv'
  <1>1. chk.step = "publish" /\ chk.todo # << >> /\ chk # NoCheckout /\ snaps' = snaps
    BY NoneIsUnderWay DEF PublishFile, repoVars
  <1>2. chk.head \in 1..Len(snaps) /\ Shaped(Snap) /\ CheckoutOk(wd, Snap, chk) /\ Shaped(wd)
    BY <1>1, SnapProperties
  <1>3. PICK n : n = Head(chk.todo) OBVIOUS
  <1>4. PICK m : m = TempOf[n] OBVIOUS
  <1>5. PICK cleared : cleared = Restrict(wd, DOMAIN wd \ {n}) OBVIOUS
  <1>6. DOMAIN cleared = DOMAIN wd \ {n} /\ \A q \in DOMAIN cleared : cleared[q] = wd[q]
    BY <1>5 DEF Restrict
  <1>7. CASE m \in DOMAIN cleared
    <2>1. PICK t0 : t0 = Restrict(wd, DOMAIN wd \ {n, m}) OBVIOUS
    <2>2. PICK t1 : t1 = WithFile(t0, n, wd[m]) OBVIOUS
    <2>3. PICK d : d = Going("publish", chk.head, Tail(chk.todo), chk.prev) OBVIOUS
    <2>4. Restrict(cleared, DOMAIN cleared \ {m}) = t0
      <3>1. DOMAIN cleared \ {m} = DOMAIN wd \ {n, m} BY <1>6
      <3> QED BY <1>6, <2>1, <3>1 DEF Restrict
    <2>5. /\ wd' = WithFile(Restrict(cleared, DOMAIN cleared \ {m}), n, wd[m])
          /\ chk' = [chk EXCEPT !.todo = Tail(chk.todo)]
      BY <1>3, <1>4, <1>5, <1>7 DEF PublishFile, NextFile
    <2>6. wd' = t1 BY <2>2, <2>4, <2>5
    <2>7. chk' = d
      <3>1. IsCheckout(chk) BY <1>2 DEF CheckoutOk
      <3> QED BY <1>1, <2>3, <2>5, <3>1, CheckoutFields
    <2>8. m \in DOMAIN wd /\ m # n BY <1>6, <1>7
    <2>9. Shaped(t1) /\ CheckoutOk(t1, Snap, d)
      BY <1>1, <1>2, <1>3, <1>4, <2>1, <2>2, <2>3, <2>8, OnePublished
    <2>10. d.head = chk.head BY <2>3, GoingFields
    <2> QED BY <1>1, <1>2, <2>6, <2>7, <2>9, <2>10, CheckoutStep DEF Snap
  <1>8. CASE m \notin DOMAIN cleared
    <2>1. wd' = cleared /\ chk' = NoCheckout
      BY <1>3, <1>4, <1>5, <1>8 DEF PublishFile, NextFile
    <2>2. n \in Files(Snap) BY <1>1, <1>2, <1>3, NextIsRemoved DEF CheckoutOk
    <2>3. \A p \in {n} : Kind(wd, p) # "directory" BY <1>2, <2>2 DEF CheckoutOk
    <2>4. Removed(wd, {n}, cleared) BY <1>2, <1>5, <2>3, FilesRemoved
    <2>5. Shaped(cleared) BY <2>4 DEF Removed
    <2> QED BY <1>1, <2>1, <2>5, CheckoutStep
  <1> QED BY <1>7, <1>8

LEMMA RemoveKeeps ==
  ASSUME RefsInv, WorkInv, RemoveStale
  PROVE  WorkInv'
  <1>1. chk.step = "publish" /\ chk.todo = << >> /\ chk # NoCheckout /\ snaps' = snaps
    BY NoneIsUnderWay DEF RemoveStale, repoVars
  <1>2. /\ chk.head \in 1..Len(snaps) /\ Shaped(Snap) /\ CheckoutOk(wd, Snap, chk) /\ Shaped(wd)
        /\ DOMAIN FilesOf(Tree(chk.head)) = Files(Snap)
    BY <1>1, SnapProperties
  <1>3. PICK gone : gone = {p \in chk.prev : p \in Files(wd)} \ Files(Snap) OBVIOUS
  <1>4. gone = Stale(Tree(chk.head)) BY <1>2, <1>3, FilesAreFiles DEF Stale
  <1>5. PICK t0 : t0 = Restrict(wd, DOMAIN wd \ gone) OBVIOUS
  <1>6. PICK t1 : t1 = Restrict(t0, DOMAIN t0 \ Emptied(t0, gone)) OBVIOUS
  <1>7. wd' = t1 /\ chk' = [chk EXCEPT !.step = "record"]
    BY <1>4, <1>5, <1>6 DEF RemoveStale
  <1>8. PICK d : d = Going("record", chk.head, chk.todo, chk.prev) OBVIOUS
  <1>9. chk' = d
    <2>1. IsCheckout(chk) BY <1>2 DEF CheckoutOk
    <2> QED BY <1>7, <1>8, <2>1, CheckoutFields
  <1>10. Shaped(t1) /\ CheckoutOk(t1, Snap, d)
    BY <1>1, <1>2, <1>3, <1>5, <1>6, <1>8, StaleRemoved
  <1>11. d.head = chk.head BY <1>8, GoingFields
  <1> QED BY <1>1, <1>2, <1>7, <1>9, <1>10, <1>11, CheckoutStep DEF Snap

LEMMA WorkNext ==
  ASSUME RepositoryAssumption, WorkingTreeAssumption, RefsInv, WorkInv, [Next]_vars
  PROVE  WorkInv'
  <1>1. ASSUME NEW p \in Paths, Edit(p) \/ Erase(p) PROVE WorkInv'
    BY <1>1, EditKeeps, EraseKeeps
  <1>2. ASSUME NEW unread \in {{}} \cup {{p} : p \in DOMAIN FilesOf(wd)}, CommitTree(unread)
        PROVE  WorkInv'
    BY <1>2, CommitKeeps DEF WorkingTreeAssumption
  <1>3. ASSUME NEW h \in DOMAIN snaps, StartCheckout(h) PROVE WorkInv'
    BY <1>3, StartKeeps
  <1>4. CASE StageFile \/ StageFails \/ StartPublishing \/ PublishFile \/ RemoveStale
    BY <1>4, StageKeeps, StageFailsKeeps, StartPublishingKeeps, PublishKeeps, RemoveKeeps
  <1>5. CASE RecordFiles \/ CrashCheckout
    <2>1. wd' = wd /\ snaps' = snaps /\ chk' = NoCheckout
      BY <1>5 DEF RecordFiles, CrashCheckout, repoVars
    <2> QED BY <2>1 DEF WorkInv
  <1>6. CASE RefStep
    <2>1. wd' = wd /\ snaps' = snaps /\ chk' = chk
      BY <1>6 DEF RefStep, workVars, WriteRef, Finish, CrashCommand
    <2> QED BY <2>1 DEF WorkInv
  <1>7. CASE Search
    <2>1. wd' = wd /\ snaps' = snaps /\ chk' = chk
      BY <1>7 DEF Search, workVars, repoVars, SearchStep, StartSearch, Rebuild, Query, EndSearch,
                  DamageIndex
    <2> QED BY <2>1 DEF WorkInv
  <1>8. CASE UNCHANGED vars
    BY <1>8 DEF vars, repoVars, workVars, WorkInv
  <1> QED BY <1>1, <1>2, <1>3, <1>4, <1>5, <1>6, <1>7, <1>8 DEF Next

(* For any directory, any names of temporary files (two files may share    *)
(* one, and a snapshot may hold one that an interrupted checkout left) and *)
(* any crash: a checkout that has published and cleaned up leaves every    *)
(* file of its snapshot, and none of the last checkout's files that the    *)
(* snapshot does not have (facade.rs 1676-1764, working_tree.rs 302-316,   *)
(* 434-510).                                                               *)
THEOREM CheckoutsShowTheirSnapshot == Spec => []CheckoutShowsSnapshot
  <1>1. RepositoryAssumption /\ WorkingTreeAssumption
    BY RepositoryAssumption, WorkingTreeAssumption
  <1>2. Init => Inv /\ WorkInv BY <1>1, InitInv, WorkInit
  <1>3. Inv /\ WorkInv /\ [Next]_vars => (Inv /\ WorkInv)'
    <2> SUFFICES ASSUME Inv, WorkInv, [Next]_vars PROVE Inv' /\ WorkInv' OBVIOUS
    <2>1. WorkInv' BY <1>1, WorkNext DEF Inv
    <2>2. Inv' BY <1>1, InvNext
    <2> QED BY <2>1, <2>2
  <1>4. Inv /\ WorkInv => CheckoutShowsSnapshot
    <2> SUFFICES ASSUME Inv, WorkInv, chk.step = "record" PROVE CheckoutShowsSnapshot
      BY DEF CheckoutShowsSnapshot
    <2>1. chk # NoCheckout BY NoneIsUnderWay
    <2>2. /\ Tree(chk.head) = Snap /\ CheckoutOk(wd, Snap, chk)
          /\ DOMAIN FilesOf(Tree(chk.head)) = Files(Snap) /\ DOMAIN FilesOf(wd) = Files(wd)
      BY <2>1, SnapProperties, FilesAreFiles DEF Inv
    <2> QED BY <2>2 DEF CheckoutShowsSnapshot, CheckoutOk, Shows
  <1> QED BY <1>2, <1>3, <1>4, PTL DEF Spec

----------------------------------------------------------------------------
(* A file that is read while it is saved.                                  *)


Meta == [len : Nat, modified : Int]
Between == [bytes : Seq(Nat), between : Meta]

IsReading(r) ==
  r = [pc |-> r.pc, volatile |-> r.volatile, attempt |-> r.attempt, late |-> r.late,
       before |-> r.before, bytes |-> r.bytes, first |-> r.first]

TypeOK ==
  /\ clock \in Nat /\ granularity \in Granularities /\ writes \in Nat
  /\ file \in [data : Seq(Nat), modified : Int]
  /\ IsReading(read)
  /\ read.volatile \in BOOLEAN /\ read.late \in BOOLEAN
  /\ read.bytes \in Seq(Nat)
  /\ read.pc \in {"read", "again"} => read.before \in Meta
  /\ read.pc = "again" => read.first \in Between

\* No content that is read or held is yet to be written.
WrittenBefore(s) == \A i \in DOMAIN s : s[i] <= writes

Contents ==
  /\ Len(file.data) <= 2 /\ WrittenBefore(file.data)
  /\ file.data \in held

\* The file does not begin with x.
Gone(x) == Len(file.data) = 0 \/ file.data[1] # x

PrefixRead ==
  Len(read.bytes) <= Len(file.data) /\ \A i \in DOMAIN read.bytes : read.bytes[i] = file.data[i]

\* A quiet file that is read once: a change shows in its time.
Once ==
  read.pc = "read" /\ ~read.volatile /\ ~read.late =>
    /\ read.before.modified <= clock - 2
    /\ read.before.modified = file.modified => PrefixRead

\* The first of two readings, and the second.
Twice ==
  /\ read.pc = "read" /\ read.volatile =>
       /\ ~read.late
       /\ Len(read.bytes) <= 2 /\ WrittenBefore(read.bytes)
       /\ Len(read.bytes) = 2 => read.bytes \in held \/ Gone(read.bytes[1])
  /\ read.pc = "again" =>
       /\ WrittenBefore(read.first.bytes)
       /\ \/ read.first.bytes \in held
          \/ /\ Len(read.first.bytes) > 0 /\ Gone(read.first.bytes[1])
             /\ Len(read.bytes) > 0 => read.bytes[1] # read.first.bytes[1]

ReadingInv == TypeOK /\ Contents /\ Once /\ Twice /\ ReadIsOneContent

(* Times of modification are behind the clock by one second at most.       *)
LEMMA ModifiedIsRecent ==
  ASSUME NEW c \in Nat, NEW g \in {1, 2}
  PROVE  (c \div g) * g \in Int /\ (c \div g) * g >= c - 1
  <1>1. CASE g = 1 BY <1>1, SMT
  <1>2. CASE g = 2
    <2>1. c \div 2 \in Int /\ 2 * (c \div 2) >= c - 1 BY SMT
    <2> QED BY <1>2, <2>1, SMT
  <1> QED BY <1>1, <1>2

(* Lengths of files of two pieces at most.                                 *)
LEMMA AtMostTwo ==
  ASSUME NEW n \in Nat, n <= 2
  PROVE  n = 0 \/ n = 1 \/ n = 2
  BY SMT

(* The second piece is the last one.                                       *)
LEMMA LastOfTwo ==
  ASSUME NEW m \in Nat, NEW n \in Nat, m + 1 = 2, m < n, n <= 2
  PROVE  m = 1 /\ n = 2
  BY SMT

(* A reading with another field is a reading.                              *)
LEMMA ReadingUpdated ==
  ASSUME NEW r, IsReading(r), NEW x
  PROVE  /\ IsReading([r EXCEPT !.pc = x]) /\ IsReading([r EXCEPT !.volatile = x])
         /\ IsReading([r EXCEPT !.attempt = x]) /\ IsReading([r EXCEPT !.late = x])
         /\ IsReading([r EXCEPT !.before = x]) /\ IsReading([r EXCEPT !.bytes = x])
         /\ IsReading([r EXCEPT !.first = x])
  <1>1. IsReading([r EXCEPT !.pc = x]) BY SMT DEF IsReading
  <1>2. IsReading([r EXCEPT !.volatile = x]) BY SMT DEF IsReading
  <1>3. IsReading([r EXCEPT !.attempt = x]) BY SMT DEF IsReading
  <1>4. IsReading([r EXCEPT !.late = x]) BY SMT DEF IsReading
  <1>5. IsReading([r EXCEPT !.before = x]) BY SMT DEF IsReading
  <1>6. IsReading([r EXCEPT !.bytes = x]) BY SMT DEF IsReading
  <1>7. IsReading([r EXCEPT !.first = x]) BY SMT DEF IsReading
  <1> QED BY <1>1, <1>2, <1>3, <1>4, <1>5, <1>6, <1>7

(* The invariant holds before anything is read.                            *)
LEMMA ReadingInitInv == ReadingInit => ReadingInv
  <1> SUFFICES ASSUME ReadingInit PROVE ReadingInv
      OBVIOUS
  <1> USE DEF ReadingInit, NotReading
  <1>1. TypeOK
    <2>1. file \in [data : Seq(Nat), modified : Int] BY SMT
    <2>2. read.bytes = << >> /\ read.bytes \in Seq(Nat) BY SMT
    <2>3. IsReading(NotReading) BY SMT DEF IsReading
    <2>4. read.volatile = FALSE /\ read.late = FALSE /\ read.pc = "idle" BY SMT
    <2> QED BY <2>1, <2>2, <2>3, <2>4 DEF TypeOK
  <1>2. Contents BY SMT DEF Contents, WrittenBefore
  <1>3. Once /\ Twice /\ ReadIsOneContent BY SMT DEF Once, Twice, ReadIsOneContent
  <1> QED BY <1>1, <1>2, <1>3 DEF ReadingInv

(* A write keeps the shape of the file, is new and is seen in the time.    *)
LEMMA WriteChanges ==
  ASSUME ReadingInv, Write, Granularities \subseteq {1, 2}
  PROVE  /\ file' \in [data : Seq(Nat), modified : Int]
         /\ Contents'
         /\ file'.modified >= clock - 1
         /\ \A x \in Nat : x <= writes /\ Gone(x) => Gone(x)'
         /\ writes' = writes + 1 /\ held \subseteq held'
  <1> USE DEF ReadingInv, TypeOK, Contents
  <1>1. PICK data \in {[file.data EXCEPT ![i] = writes'] : i \in DOMAIN file.data}
                      \cup {<< >>} \cup (IF Len(file.data) < 2 THEN {Append(file.data, writes')} ELSE {}) :
          file' = [data |-> data, modified |-> Modified] /\ held' = held \cup {data}
    BY DEF Write
  <1>2. writes' = writes + 1 /\ writes' \in Nat BY DEF Write
  <1>3. Modified \in Int /\ Modified >= clock - 1
    BY ModifiedIsRecent DEF Modified
  <1>4. /\ data \in Seq(Nat) /\ Len(data) <= 2
        /\ \A i \in DOMAIN data : data[i] <= writes'
        /\ \A x \in Nat : x <= writes /\ Gone(x) => Len(data) = 0 \/ data[1] # x
    <2> USE <1>2 DEF WrittenBefore, Gone
    <2>1. CASE data \in {[file.data EXCEPT ![i] = writes'] : i \in DOMAIN file.data}
      <3>1. PICK i \in DOMAIN file.data : data = [file.data EXCEPT ![i] = writes'] BY <2>1
      <3> QED BY <3>1, SMT
    <2>2. CASE data = << >> BY <2>2, SMT
    <2>3. CASE Len(file.data) < 2 /\ data = Append(file.data, writes') BY <2>3, SMT
    <2> QED BY <1>1, <2>1, <2>2, <2>3
  <1> QED BY <1>1, <1>2, <1>3, <1>4, SMT DEF WrittenBefore, Gone

(* A piece that is read is the next one of the file.                       *)
LEMMA PieceIsNext ==
  ASSUME ReadingInv, ReadPiece
  PROVE  /\ IsReading(read') /\ read'.bytes \in Seq(Nat)
         /\ read'.pc = read.pc /\ read'.volatile = read.volatile /\ read'.late = read.late
         /\ read'.before = read.before /\ read'.first = read.first
         /\ read'.bytes = Append(read.bytes, file.data[Len(read.bytes) + 1])
         /\ file.data[Len(read.bytes) + 1] \in Nat
         /\ Len(read.bytes) < Len(file.data)
         /\ UNCHANGED <<clock, granularity, file, writes, held>>
  <1> USE DEF ReadingInv, TypeOK, ReadPiece
  <1>1. Len(read.bytes) + 1 \in 1..Len(file.data) BY SMT
  <1>2. file.data[Len(read.bytes) + 1] \in Nat BY <1>1, SMT
  <1>3. Append(read.bytes, file.data[Len(read.bytes) + 1]) \in Seq(Nat) BY <1>2, SMT
  <1>4. IsReading(read') BY <1>3, ReadingUpdated
  <1>5. /\ read'.bytes = Append(read.bytes, file.data[Len(read.bytes) + 1])
        /\ read'.pc = read.pc /\ read'.volatile = read.volatile /\ read'.late = read.late
        /\ read'.before = read.before /\ read'.first = read.first
    BY SMT DEF IsReading
  <1> QED BY <1>2, <1>3, <1>4, <1>5

(* A reading begins.                                                       *)
LEMMA OpenFields ==
  ASSUME ReadingInv, Open
  PROVE  /\ IsReading(read') /\ read'.pc = "classified" /\ read'.volatile \in BOOLEAN
         /\ read'.late = FALSE /\ read'.bytes = << >>
         /\ UNCHANGED <<clock, granularity, file, writes>>
  <1>1. IsVolatile(Metadata) \in BOOLEAN BY DEF IsVolatile
  <1>2. NotReading.bytes = << >> /\ NotReading.late = FALSE /\ IsReading(NotReading) BY SMT DEF NotReading, IsReading
  <1>3. read' = [NotReading EXCEPT !.pc = "classified", !.volatile = IsVolatile(Metadata), !.attempt = 1]
    BY DEF Open
  <1>4. IsReading(read')
    <2> DEFINE r1 == [NotReading EXCEPT !.pc = "classified"]
               r2 == [r1 EXCEPT !.volatile = IsVolatile(Metadata)]
    <2>1. IsReading(r1) BY <1>2, ReadingUpdated
    <2>2. IsReading(r2) BY <2>1, ReadingUpdated
    <2>3. IsReading([r2 EXCEPT !.attempt = 1]) BY <2>2, ReadingUpdated
    <2> QED BY <1>3, <2>3
  <1> DEFINE v == IsVolatile(Metadata)
  <1>5. read' = [NotReading EXCEPT !.pc = "classified", !.volatile = v, !.attempt = 1] BY <1>3
  <1> HIDE DEF v
  <1>6. read'.pc = "classified" /\ read'.volatile = v /\ read'.late = FALSE /\ read'.bytes = << >>
    BY <1>2, <1>5, SMT DEF IsReading
  <1> QED BY <1>1, <1>4, <1>6 DEF Open, v

(* The look before.                                                        *)
LEMMA LookBeforeFields ==
  ASSUME ReadingInv, LookBefore
  PROVE  /\ IsReading(read') /\ read'.pc = "read" /\ read'.before = Metadata
         /\ read'.volatile = read.volatile /\ read'.late \in BOOLEAN
         /\ read'.late <=> ~read.volatile /\ IsVolatile(Metadata)
         /\ read'.bytes = << >>
         /\ UNCHANGED <<clock, granularity, file, writes, held>>
  <1> DEFINE late == ~read.volatile /\ IsVolatile(Metadata)
  <1>1. late \in BOOLEAN OBVIOUS
  <1>2. read' = [read EXCEPT !.pc = "read", !.before = Metadata, !.bytes = << >>,
                             !.first = << >>, !.late = late]
    BY DEF LookBefore
  <1> HIDE DEF late
  <1>3. IsReading(read) BY DEF ReadingInv, TypeOK
  <1>4. IsReading(read')
    <2> DEFINE r1 == [read EXCEPT !.pc = "read"]  r2 == [r1 EXCEPT !.before = Metadata]
               r3 == [r2 EXCEPT !.bytes = << >>]  r4 == [r3 EXCEPT !.first = << >>]
    <2>1. IsReading(r1) BY <1>3, ReadingUpdated
    <2>2. IsReading(r2) BY <2>1, ReadingUpdated
    <2>3. IsReading(r3) BY <2>2, ReadingUpdated
    <2>4. IsReading(r4) BY <2>3, ReadingUpdated
    <2>5. IsReading([r4 EXCEPT !.late = late]) BY <2>4, ReadingUpdated
    <2> QED BY <1>2, <2>5
  <1>5. /\ read'.pc = "read" /\ read'.before = Metadata /\ read'.late = late
        /\ read'.volatile = read.volatile /\ read'.bytes = << >>
    BY <1>2, <1>3, SMT DEF IsReading
  <1> QED BY <1>1, <1>4, <1>5 DEF LookBefore, late

(* The looks that end a reading.                                           *)
LEMMA EndFields ==
  ASSUME ReadingInv, LookAfter \/ LookTwice
  PROVE  /\ IsReading(read') /\ read'.pc \in {"classified", "returned", "unstable"}
         /\ read'.volatile = read.volatile /\ read'.late = read.late /\ read'.bytes = read.bytes
         /\ UNCHANGED <<clock, granularity, file, writes, held>>
  <1>1. \/ read' = [read EXCEPT !.pc = "returned"]
        \/ read' = [read EXCEPT !.pc = "classified", !.attempt = @ + 1]
        \/ read' = [read EXCEPT !.pc = "unstable"]
    BY DEF LookAfter, LookTwice, Retry
  <1>2. ASSUME NEW p, NEW n, read' = [read EXCEPT !.pc = p, !.attempt = n]
        PROVE  /\ IsReading(read') /\ read'.pc = p
               /\ read'.volatile = read.volatile /\ read'.late = read.late /\ read'.bytes = read.bytes
    <2>1. IsReading(read) BY DEF ReadingInv, TypeOK
    <2>2. IsReading([read EXCEPT !.pc = p]) BY <2>1, ReadingUpdated
    <2>3. IsReading([[read EXCEPT !.pc = p] EXCEPT !.attempt = n]) BY <2>2, ReadingUpdated
    <2>4. read'.pc = p /\ read'.volatile = read.volatile /\ read'.late = read.late
          /\ read'.bytes = read.bytes
      BY <1>2, <2>1, SMT DEF IsReading
    <2> QED BY <1>2, <2>3, <2>4
  <1>3. ASSUME NEW p, read' = [read EXCEPT !.pc = p]
        PROVE  /\ IsReading(read') /\ read'.pc = p
               /\ read'.volatile = read.volatile /\ read'.late = read.late /\ read'.bytes = read.bytes
    <2>1. IsReading(read) BY DEF ReadingInv, TypeOK
    <2>2. IsReading([read EXCEPT !.pc = p]) BY <2>1, ReadingUpdated
    <2>3. read'.pc = p /\ read'.volatile = read.volatile /\ read'.late = read.late
          /\ read'.bytes = read.bytes
      BY <1>3, <2>1, SMT DEF IsReading
    <2> QED BY <1>3, <2>2, <2>3
  <1>4. CASE read' = [read EXCEPT !.pc = "returned"] BY <1>3, <1>4 DEF LookAfter, LookTwice
  <1>5. CASE read' = [read EXCEPT !.pc = "unstable"] BY <1>3, <1>5 DEF LookAfter, LookTwice
  <1>6. CASE read' = [read EXCEPT !.pc = "classified", !.attempt = @ + 1]
    BY <1>2, <1>6 DEF LookAfter, LookTwice
  <1> QED BY <1>1, <1>4, <1>5, <1>6

(* The look between the two readings.                                      *)
LEMMA LookBetweenFields ==
  ASSUME ReadingInv, LookBetween
  PROVE  /\ IsReading(read') /\ read'.pc = "again"
         /\ read'.volatile = read.volatile /\ read'.late = read.late /\ read'.before = read.before
         /\ read'.first = [bytes |-> read.bytes, between |-> Metadata] /\ read'.bytes = << >>
         /\ UNCHANGED <<clock, granularity, file, writes, held>>
  <1> DEFINE found == [bytes |-> read.bytes, between |-> Metadata]
             r1 == [read EXCEPT !.pc = "again"]  r2 == [r1 EXCEPT !.first = found]
  <1>1. read' = [read EXCEPT !.pc = "again", !.first = found, !.bytes = << >>] BY DEF LookBetween
  <1>2. IsReading(read) BY DEF ReadingInv, TypeOK
  <1>3. IsReading(r1) BY <1>2, ReadingUpdated
  <1>4. IsReading(r2) BY <1>3, ReadingUpdated
  <1>5. IsReading([r2 EXCEPT !.bytes = << >>]) BY <1>4, ReadingUpdated
  <1> HIDE DEF found
  <1>6. /\ read'.pc = "again" /\ read'.volatile = read.volatile /\ read'.late = read.late
        /\ read'.before = read.before /\ read'.first = found /\ read'.bytes = << >>
    BY <1>1, <1>2, SMT DEF IsReading
  <1> QED BY <1>1, <1>5, <1>6 DEF LookBetween, found

(* Types are kept.                                                         *)
LEMMA TypeStep ==
  ASSUME ReadingInv, [ReadingNext]_readVars, Granularities \subseteq {1, 2}
  PROVE  TypeOK'
  <1> USE DEF ReadingInv, TypeOK
  <1>m. Metadata \in Meta BY SMT DEF Metadata, Meta
  <1>e. << >> \in Seq(Nat) BY SMT
  <1>1. CASE Tick BY <1>1, SMT DEF Tick
  <1>2. CASE Write
    <2>1. UNCHANGED <<clock, granularity, read>> BY <1>2 DEF Write
    <2> QED BY <1>2, <2>1, WriteChanges, SMT
  <1>3. CASE Open BY <1>3, <1>e, OpenFields
  <1>4. CASE LookBefore BY <1>4, <1>m, <1>e, LookBeforeFields
  <1>5. CASE ReadPiece BY <1>5, PieceIsNext
  <1>6. CASE LookAfter \/ LookTwice BY <1>6, EndFields
  <1>7. CASE LookBetween
    <2>1. read.before \in Meta /\ read.bytes \in Seq(Nat) BY <1>7 DEF LookBetween
    <2>2. [bytes |-> read.bytes, between |-> Metadata] \in Between BY <1>m, <2>1, SMT DEF Between
    <2> QED BY <1>7, <1>e, <2>1, <2>2, LookBetweenFields
  <1>8. CASE Done BY <1>8, SMT DEF Done, NotReading, IsReading
  <1>9. CASE UNCHANGED readVars BY <1>9 DEF readVars
  <1> QED BY <1>1, <1>2, <1>3, <1>4, <1>5, <1>6, <1>7, <1>8, <1>9 DEF ReadingNext

(* What the file holds was written, and is held.                           *)
LEMMA ContentsStep ==
  ASSUME ReadingInv, [ReadingNext]_readVars, Granularities \subseteq {1, 2}
  PROVE  Contents'
  <1>1. CASE Write BY <1>1, WriteChanges
  <1>2. CASE Open BY <1>2 DEF Open, ReadingInv, Contents, WrittenBefore
  <1>3. CASE UNCHANGED <<file, writes, held>> BY <1>3 DEF ReadingInv, Contents, WrittenBefore
  <1> QED BY <1>1, <1>2, <1>3 DEF ReadingNext, readVars, Tick, LookBefore, ReadPiece, LookAfter,
                                  LookBetween, LookTwice, Done

LEMMA PrefixGrows ==
  ASSUME NEW b \in Seq(Nat), NEW d \in Seq(Nat), Len(b) < Len(d), \A i \in DOMAIN b : b[i] = d[i]
  PROVE  LET a == Append(b, d[Len(b) + 1])
         IN Len(a) <= Len(d) /\ \A i \in DOMAIN a : a[i] = d[i]
  <1> DEFINE a == Append(b, d[Len(b) + 1])
  <1>1. Len(a) = Len(b) + 1 /\ DOMAIN a = 1..Len(b) + 1 /\ DOMAIN b = 1..Len(b) OBVIOUS
  <1>2. a[Len(b) + 1] = d[Len(b) + 1] OBVIOUS
  <1>3. \A i \in 1..Len(b) : a[i] = b[i] OBVIOUS
  <1> QED BY <1>1, <1>2, <1>3

LEMMA PieceKeepsPrefix ==
  ASSUME ReadingInv, ReadPiece, PrefixRead
  PROVE  PrefixRead'
  <1> DEFINE b == read.bytes
             d == file.data
             a == Append(b, d[Len(b) + 1])
  <1>1. read'.bytes = a /\ file' = file BY PieceIsNext
  <1>2. b \in Seq(Nat) /\ d \in Seq(Nat) /\ Len(b) < Len(d)
    BY PieceIsNext, SMT DEF ReadingInv, TypeOK, IsReading
  <1>3. \A i \in DOMAIN b : b[i] = d[i] BY DEF PrefixRead
  <1>4. Len(a) <= Len(d) /\ \A i \in DOMAIN a : a[i] = d[i]
    <2> HIDE DEF b, d
    <2> QED BY <1>2, <1>3, PrefixGrows
  <1> QED BY <1>1, <1>4 DEF PrefixRead

(* A file that is read once.                                               *)
LEMMA OnceStep ==
  ASSUME ReadingInv, [ReadingNext]_readVars, Granularities \subseteq {1, 2}
  PROVE  Once'
  <1> SUFFICES ASSUME read'.pc = "read", ~read'.volatile, ~read'.late
               PROVE  /\ read'.before.modified <= clock' - 2
                      /\ read'.before.modified = file'.modified => PrefixRead'
      BY DEF Once
  <1> USE DEF ReadingInv, TypeOK, Once
  <1>b. read.pc = "read" => read.before.modified \in Int BY SMT DEF Meta
  <1>1. CASE Tick BY <1>1, <1>b, SMT DEF Tick, PrefixRead
  <1>2. CASE Write
    <2>1. UNCHANGED <<clock, granularity, read>> BY <1>2 DEF Write
    <2>2. read.before.modified <= clock - 2 BY <2>1
    <2>3. file'.modified >= clock - 1 /\ file'.modified \in Int BY <1>2, WriteChanges, SMT
    <2> QED BY <2>1, <2>2, <2>3, <1>b, SMT
  <1>3. CASE LookBefore
    <2>1. /\ read'.before = Metadata /\ read'.bytes = << >> /\ ~IsVolatile(Metadata)
          /\ UNCHANGED <<clock, file>>
      BY <1>3, LookBeforeFields
    <2>2. Metadata.modified = file.modified BY SMT DEF Metadata
    <2>3. Metadata.modified <= clock - 2 BY <2>1, <2>2, SMT DEF IsVolatile, VolatileAge
    <2>4. PrefixRead' BY <2>1, SMT DEF PrefixRead
    <2> QED BY <2>1, <2>3, <2>4
  <1>4. CASE ReadPiece
    <2> USE <1>4, PieceIsNext
    <2>1. read.before.modified <= clock - 2 /\ UNCHANGED <<clock, file>> BY SMT
    <2>2. ASSUME read.before.modified = file.modified PROVE PrefixRead'
      <3>1. PrefixRead BY <2>2
      <3> QED BY <3>1, PieceKeepsPrefix
    <2> QED BY <2>1, <2>2
  <1>5. CASE Open \/ LookAfter \/ LookBetween \/ LookTwice \/ Done
    <2>1. Done => read'.pc = "idle" BY SMT DEF Done, NotReading
    <2> QED BY <1>5, <2>1, OpenFields, EndFields, LookBetweenFields
  <1>6. CASE UNCHANGED readVars BY <1>6 DEF readVars, PrefixRead
  <1> QED BY <1>1, <1>2, <1>3, <1>4, <1>5, <1>6 DEF ReadingNext

(* A file that is read twice.                                              *)
LEMMA TwiceStep ==
  ASSUME ReadingInv, [ReadingNext]_readVars, Granularities \subseteq {1, 2}
  PROVE  Twice'
  <1> USE DEF ReadingInv, TypeOK, Contents, Twice
  <1>1. CASE Tick \/ UNCHANGED readVars
    BY <1>1 DEF Tick, readVars, WrittenBefore, Gone
  <1>2. CASE Write
    <2>1. UNCHANGED <<clock, granularity, read>> BY <1>2 DEF Write
    <2>2. /\ writes' = writes + 1 /\ held \subseteq held'
          /\ \A x \in Nat : x <= writes /\ Gone(x) => Gone(x)'
      BY <1>2, WriteChanges
    <2>3. ASSUME read.pc = "read", read.volatile
          PROVE  /\ ~read.late /\ Len(read.bytes) <= 2 /\ WrittenBefore(read.bytes)'
                 /\ Len(read.bytes) = 2 => read.bytes \in held' \/ Gone(read.bytes[1])'
      <3>1. WrittenBefore(read.bytes)' BY <2>1, <2>2, <2>3, SMT DEF WrittenBefore
      <3>2. Len(read.bytes) = 2 => read.bytes[1] \in Nat /\ read.bytes[1] <= writes
        BY <2>3, SMT DEF WrittenBefore
      <3>3. Len(read.bytes) = 2 /\ Gone(read.bytes[1]) => Gone(read.bytes[1])'
        BY <2>1, <2>2, <3>2 DEF Gone
      <3> QED BY <2>2, <2>3, <3>1, <3>3
    <2>4. ASSUME read.pc = "again"
          PROVE  /\ WrittenBefore(read.first.bytes)'
                 /\ \/ read.first.bytes \in held'
                    \/ /\ Len(read.first.bytes) > 0 /\ Gone(read.first.bytes[1])'
                       /\ Len(read.bytes) > 0 => read.bytes[1] # read.first.bytes[1]
      <3>1. read.first.bytes \in Seq(Nat) BY <2>4, SMT DEF Between
      <3>2. WrittenBefore(read.first.bytes)' BY <2>1, <2>2, <2>4, <3>1, SMT DEF WrittenBefore
      <3>3. Len(read.first.bytes) > 0 =>
              read.first.bytes[1] \in Nat /\ read.first.bytes[1] <= writes
        BY <2>4, <3>1, SMT DEF WrittenBefore
      <3>4. Len(read.first.bytes) > 0 /\ Gone(read.first.bytes[1]) => Gone(read.first.bytes[1])'
        BY <2>1, <2>2, <3>3 DEF Gone
      <3> QED BY <2>2, <2>4, <3>2, <3>4
    <2> QED BY <2>1, <2>3, <2>4
  <1>3. CASE LookBefore
    <2>1. read'.pc = "read" /\ read'.bytes = << >> /\ (read'.volatile => ~read'.late)
      BY <1>3, LookBeforeFields
    <2> QED BY <2>1, SMT DEF WrittenBefore
  <1>4. CASE ReadPiece
    <2> DEFINE x == file.data[Len(read.bytes) + 1]
    <2>1. /\ read'.pc = read.pc /\ read'.volatile = read.volatile /\ read'.late = read.late
          /\ read'.first = read.first /\ read'.bytes = Append(read.bytes, x)
          /\ x \in Nat /\ Len(read.bytes) < Len(file.data)
          /\ UNCHANGED <<clock, granularity, file, writes, held>>
      BY <1>4, PieceIsNext
    <2>2. x <= writes BY <2>1, SMT DEF WrittenBefore
    <2>3. ASSUME read.pc = "read", read.volatile
          PROVE  /\ Len(read'.bytes) <= 2 /\ WrittenBefore(read'.bytes)
                 /\ Len(read'.bytes) = 2 => read'.bytes \in held \/ Gone(read'.bytes[1])
      <3>1. Len(read'.bytes) = Len(read.bytes) + 1 /\ Len(read'.bytes) <= 2
        BY <2>1, SMT
      <3>2. WrittenBefore(read'.bytes) BY <2>1, <2>2, <2>3, SMT DEF WrittenBefore
      <3>3. ASSUME Len(read'.bytes) = 2, ~Gone(read'.bytes[1])
            PROVE  read'.bytes \in held
        <4>1. Len(read.bytes) = 1 /\ Len(file.data) = 2
          <5>1. Len(read.bytes) \in Nat /\ Len(file.data) \in Nat BY SMT
          <5>2. Len(read.bytes) + 1 = 2 BY <3>1, <3>3
          <5>3. Len(read.bytes) < Len(file.data) /\ Len(file.data) <= 2 BY <2>1
          <5> QED BY <5>1, <5>2, <5>3, LastOfTwo
        <4>2. read'.bytes = file.data BY <2>1, <3>3, <4>1, SMT DEF Gone
        <4> QED BY <4>2
      <3> QED BY <3>1, <3>2, <3>3
    <2>4. ASSUME read.pc = "again", Len(read.first.bytes) > 0, Gone(read.first.bytes[1]),
                 Len(read.bytes) > 0 => read.bytes[1] # read.first.bytes[1]
          PROVE  read'.bytes[1] # read.first.bytes[1]
      BY <2>1, <2>4, SMT DEF Gone
    <2> QED BY <2>1, <2>3, <2>4 DEF WrittenBefore, Gone
  <1>5. CASE LookBetween
    <2>1. /\ read'.pc = "again" /\ read'.first.bytes = read.bytes /\ read'.bytes = << >>
          /\ read.pc = "read" /\ read.volatile /\ Len(read.bytes) >= Len(file.data)
          /\ UNCHANGED <<file, writes, held>>
      BY <1>5, LookBetweenFields, SMT DEF LookBetween, AtEnd
    <2>2. read.bytes \in held \/ (Len(read.bytes) > 0 /\ Gone(read.bytes[1]))
      <3>1. CASE Len(read.bytes) = 0 BY <2>1, <3>1, SMT
      <3>2. CASE Len(read.bytes) = 1
        <4>1. ~Gone(read.bytes[1]) => read.bytes = file.data BY <2>1, <3>2, SMT DEF Gone
        <4> QED BY <3>2, <4>1, SMT
      <3>3. CASE Len(read.bytes) = 2 BY <2>1, <3>3, SMT
      <3>4. Len(read.bytes) \in Nat /\ Len(read.bytes) <= 2 BY <2>1, SMT
      <3>5. Len(read.bytes) = 0 \/ Len(read.bytes) = 1 \/ Len(read.bytes) = 2
        BY <3>4, AtMostTwo
      <3> QED BY <3>1, <3>2, <3>3, <3>5
    <2> QED BY <2>1, <2>2, SMT DEF WrittenBefore, Gone
  <1>6. CASE Open \/ LookAfter \/ LookTwice \/ Done
    <2>1. Done => read'.pc = "idle" BY SMT DEF Done, NotReading
    <2> QED BY <1>6, <2>1, OpenFields, EndFields
  <1> QED BY <1>1, <1>2, <1>3, <1>4, <1>5, <1>6 DEF ReadingNext

(* What is returned.                                                       *)
LEMMA ResultStep ==
  ASSUME ReadingInv, [ReadingNext]_readVars, Granularities \subseteq {1, 2}
  PROVE  ReadIsOneContent'
  <1> SUFFICES ASSUME read'.pc = "returned", ~read'.late PROVE read'.bytes \in held'
      BY DEF ReadIsOneContent
  <1> USE DEF ReadingInv, TypeOK, Contents
  <1>1. CASE Tick \/ UNCHANGED readVars BY <1>1 DEF Tick, readVars, ReadIsOneContent
  <1>2. CASE Write
    <2>1. read' = read /\ held \subseteq held' BY <1>2, WriteChanges DEF Write
    <2> QED BY <2>1 DEF ReadIsOneContent
  <1>3. CASE LookAfter
    <2>1. /\ read.pc = "read" /\ ~read.volatile /\ ~read.late
          /\ Metadata = read.before /\ Len(read.bytes) >= Len(file.data)
          /\ read'.bytes = read.bytes /\ held' = held
      <3>1. ~(Metadata = read.before) => read'.pc # "returned"
        BY <1>3, SMT DEF LookAfter, Retry, IsReading
      <3> QED BY <1>3, <3>1, EndFields DEF LookAfter, AtEnd
    <2>2. PrefixRead BY <2>1, SMT DEF Once, Metadata
    <2>3. read.bytes = file.data BY <2>1, <2>2, SMT DEF PrefixRead
    <2> QED BY <2>1, <2>3
  <1>4. CASE LookTwice
    <2>1. /\ read.pc = "again" /\ read.first.bytes = read.bytes
          /\ read'.bytes = read.bytes /\ held' = held
      <3>1. ~(read.first.bytes = read.bytes) => read'.pc # "returned"
        BY <1>4, SMT DEF LookTwice, Retry, IsReading
      <3> QED BY <1>4, <3>1, EndFields DEF LookTwice
    <2> QED BY <2>1 DEF Twice
  <1>5. CASE Open \/ LookBefore \/ ReadPiece \/ LookBetween \/ Done
    <2>1. Done => read'.pc = "idle" BY SMT DEF Done, NotReading
    <2>2. ReadPiece => read.pc # "returned" BY DEF ReadPiece
    <2> QED BY <1>5, <2>1, <2>2, OpenFields, LookBeforeFields, PieceIsNext, LookBetweenFields
  <1> QED BY <1>1, <1>2, <1>3, <1>4, <1>5 DEF ReadingNext

(* For every number and order of writes and any time, on a file system     *)
(* whose times are one or two seconds coarse: what a commit takes of a file *)
(* is a content the file had (working_tree.rs 103-144, 683-722).            *)
THEOREM ReadsAreWhole ==
  ASSUME Granularities \subseteq {1, 2}
  PROVE  ReadingSpec => []ReadIsOneContent
  <1>1. ReadingInit => ReadingInv BY ReadingInitInv
  <1>2. ReadingInv /\ [ReadingNext]_readVars => ReadingInv'
    BY TypeStep, ContentsStep, OnceStep, TwiceStep, ResultStep DEF ReadingInv
  <1>3. ReadingInv => ReadIsOneContent BY DEF ReadingInv
  <1> QED BY <1>1, <1>2, <1>3, PTL DEF ReadingSpec

----------------------------------------------------------------------------
(* Unlocking.  Commands that update the keyring take turns, except for     *)
(* password changes and commits; where commands are cut off, nothing is    *)
(* fetched.                                                                *)
TakeTurns == \A s \in Sessions : /\ s.overlap => s.cmds \subseteq {"unlock", "commit", "change"}
                                 /\ s.crashes = 0 \/ s.fetches = 0

SecretsOk(s) == /\ s = [epoch |-> s.epoch, keys |-> s.keys]
                /\ s.epoch \in Nat /\ s.epoch \in DOMAIN s.keys /\ DOMAIN s.keys \subseteq 1..s.epoch

\* Every envelope of a keyring opens, and holds the same secrets.
KeyringOk(k) ==
  /\ k = [gen |-> k.gen, epoch |-> k.epoch, pw |-> k.pw, sealed |-> k.sealed] /\ k # NoKeyring
  /\ SecretsOk(k.pw.secrets) /\ k.epoch = k.pw.secrets.epoch
  /\ \A d \in DOMAIN k.sealed : k.sealed[d] = k.pw.secrets

\* While commands overlap, and until a clone has its device, no key is added.
OneKey == session.overlap \/ dir.device = NoDevice

Good(k) == /\ KeyringOk(k) /\ members \subseteq DOMAIN k.sealed
           /\ OneKey => k.pw.secrets = Generated(0)

\* A keyring that may take the place of the current one.
Successor(k) ==
  /\ Good(k) /\ k.gen = dir.pointer + 1 /\ Reads(k.pw.secrets)
  /\ Cur.epoch \in DOMAIN k.pw.secrets.keys
  /\ k.pw.secrets.keys[Cur.epoch] = Cur.pw.secrets.keys[Cur.epoch]

IsDirectory == dir = [files |-> dir.files, pointer |-> dir.pointer, journal |-> dir.journal, lock |-> dir.lock,
                device |-> dir.device, bootstrap |-> dir.bootstrap, head |-> dir.head]

IsCmd(c) == c = [name |-> c.name, pc |-> c.pc, then |-> c.then, pw |-> c.pw, device |-> c.device,
                 gen |-> c.gen, secrets |-> c.secrets, keyring |-> c.keyring]

CmdsOk == cmd = [p \in Processes |-> cmd[p]] /\ \A p \in Processes : IsCmd(cmd[p])

DeviceOk == /\ dir.device \in members \cup {NoDevice} /\ dir.device \notin Guests
            /\ dir.device = NoDevice => session.clone /\ dir.bootstrap \in {NoSecrets, Generated(0)}

CommonInv ==
  /\ session \in Sessions /\ IsDirectory
  /\ dir.files = [g \in DOMAIN dir.files |-> dir.files[g]]
  /\ count = [updates |-> count.updates, fetches |-> count.fetches, crashes |-> count.crashes, cloned |-> count.cloned]
  /\ count.updates \in Nat /\ count.fetches \in Nat /\ count.crashes \in Nat
  /\ CmdsOk /\ cache = [p \in Processes |-> cache[p]]

\* What was unlocked is what the keyring held that was read then.
CachesOk == \A p \in Processes : cache[p] # NoCache => cache[p].secrets = cache[p].seen[2].pw.secrets

(* Commands in turn: c is the only one.                                    *)
Newest == dir.pointer + 1 \notin DOMAIN dir.files

FilesOk == /\ DeviceOk /\ dir.pointer \in DOMAIN dir.files
           /\ dir.pointer \in Nat \ {0} /\ DOMAIN dir.files \subseteq 1..dir.pointer + 1
           /\ dir.journal \in {0, dir.pointer, dir.pointer + 1}
           /\ Good(Cur) /\ Cur.gen = dir.pointer /\ Cur.pw.by \in known

Opening == {"cache", "bootstrap", "read", "seal", "change", "revoke", "accept", "reseal", "retire", "opened"}
Updating == {"file", "pointer", "unlock", "journal"}
Fetches == {"keyrings", "refs", "current", "clear"}
Ready == {"read", "revoke", "accept", "bootstrap", "reseal", "opened"}

\* Which device a command is about, it knows by its name.
Named(c) ==
  /\ c.pc \in {"accept", "revoke"} => c.name = c.pc
  /\ c.pc = "cache" /\ c.then \in {"accept", "revoke"} => c.name = c.then
  /\ c.name = "accept" => /\ c.pc \notin {"change", "reseal", "retire"}
                          /\ c.pc = "cache" => c.then # "reseal"

\* What the command has in hand.
Holds(c) ==
  /\ c.pc \in Opening \cup Updating \cup Fetches \cup {"idle", "recover", "recovered", "device"}
  /\ c.name = "fetch" <=> c.pc \in Fetches
  /\ c.pc = "idle" => c = NoCommand
  /\ c.pc \in Opening \cup {"unlock", "journal", "device"} => c.secrets = Cur.pw.secrets
  /\ c.pc = "cache" => c.then \in Ready
  /\ c.pc = "revoke" \/ (c.pc = "cache" /\ c.then = "revoke") => dir.device # NoDevice
  /\ c.pc = "retire" => dir.head = Sealing(Cur.pw.secrets)
  /\ Named(c)
  /\ c.name = "revoke" => c.device \in Guests
  /\ c.name = "accept" => c.device \in Invited
  /\ c.name = "accept" /\ c.keyring # NoKeyring => c.device \in DOMAIN c.keyring.sealed
  /\ c.pc = "device" => c.name = "accept"

\* The keyring it made or fetched, and how far that is in place.
Places(c) ==
  /\ c.pc \in {"recover", "recovered"} =>
       /\ c.gen \in DOMAIN dir.files /\ c.secrets = dir.files[c.gen].pw.secrets /\ c.then = "opened"
       /\ c.gen = IF c.pc = "recover" THEN dir.journal ELSE dir.pointer
  /\ c.pc = "file" => /\ Successor(c.keyring) /\ c.keyring.pw.by \in known
                      /\ dir.journal = dir.pointer + 1
  /\ c.pc = "pointer" => /\ c.keyring.gen = dir.pointer + 1 /\ dir.journal = dir.pointer + 1
                         /\ ~Newest /\ c.keyring = dir.files[dir.pointer + 1]
  /\ c.pc \in {"file", "pointer"} => c.secrets = c.keyring.pw.secrets
  /\ c.pc \in {"unlock", "journal", "device"} => c.keyring # NoKeyring
  /\ c.pc = "journal" => ~dir.lock
  /\ c.pc \notin {"file", "pointer", "keyrings", "refs", "current"} /\ c.keyring # NoKeyring =>
       c.keyring = Cur /\ Newest
  /\ c.pc \in Fetches => session.crashes = 0
  /\ c.pc \in {"keyrings", "refs", "current"} => Good(c.keyring) /\ c.keyring.gen = dir.pointer + 1
  /\ c.pc \in {"keyrings", "refs"} => Reads(c.keyring.pw.secrets)
  /\ c.pc = "current" => dir.head = Sealing(c.keyring.pw.secrets)
  /\ c.pc \in {"refs", "current"} => ~Newest /\ c.keyring = dir.files[dir.pointer + 1]

HeadOk(c) == c.pc # "current" => Reads(Cur.pw.secrets)

\* A keyring that was not made current yet, of this command or of one that
\* was cut off.
PendingOk(c) ==
  ~Newest /\ c.pc \notin {"refs", "current"} =>
    Successor(dir.files[dir.pointer + 1]) /\ dir.files[dir.pointer + 1].pw.by \in known

\* Where nothing is cut off, there is a journal or a lock only during an update.
QuietOk(c) == session.crashes = 0 /\ c.pc \notin Updating => dir.journal = 0 /\ ~dir.lock

Turn(c) == FilesOk /\ Holds(c) /\ Places(c) /\ HeadOk(c) /\ PendingOk(c) /\ QuietOk(c)

Alone(p) == \A q \in Processes : q # p => cmd[q] = NoCommand

TurnInv == \E p \in Processes : Alone(p) /\ Turn(cmd[p])

(* Commands that overlap.                                                  *)
Given(k) == Good(k) /\ k.pw.by \in known

Overlapping(c) ==
  /\ c.pc \in {"idle", "cache", "recover", "recovered", "opened", "read", "seal", "change"} \cup Updating
  /\ c.name \in {"none", "unlock", "commit", "change"}
  /\ c.pc = "idle" => c = NoCommand
  /\ c.pc # "idle" => c.secrets = Generated(0)
  /\ c.pc = "cache" => c.then \in {"opened", "read"}
  /\ c.pc = "recover" => c.gen \in DOMAIN dir.files
  /\ c.pc \in {"recover", "recovered"} => c.then = "opened"
  /\ c.pc \in Updating => c.keyring # NoKeyring
  /\ c.keyring # NoKeyring => Given(c.keyring)
  /\ c.pc = "pointer" => c.keyring.gen \in DOMAIN dir.files

OverlapInv ==
  /\ DeviceOk /\ dir.pointer \in DOMAIN dir.files /\ \A g \in DOMAIN dir.files : Given(dir.files[g])
  /\ dir.head = Sealing(Generated(0)) /\ dir.bootstrap \in {NoSecrets, Generated(0)}
  /\ \A p \in Processes : Overlapping(cmd[p])

UnlockInv == CommonInv /\ CachesOk /\ IF session.overlap THEN OverlapInv ELSE TurnInv
----------------------------------------------------------------------------
(* Secrets and keyrings.                                                   *)

LEMMA FirstSecrets ==
  /\ SecretsOk(Generated(0)) /\ Generated(0).epoch = 1 /\ Generated(0) # NoSecrets
  /\ ActiveOnly(Generated(0)) = Generated(0)
  <1>1. Generated(0).epoch = 1 /\ Generated(0).keys = [e \in {1} |-> 0] BY DEF Generated
  <1>2. SecretsOk(Generated(0))
    <2>1. Generated(0) = [epoch |-> Generated(0).epoch, keys |-> Generated(0).keys] BY DEF Generated
    <2>2. DOMAIN Generated(0).keys = {1} BY <1>1
    <2> QED BY <1>1, <2>1, <2>2 DEF SecretsOk
  <1>3. ActiveOnly(Generated(0)) = Generated(0)
    <2>1. Restrict([e \in {1} |-> 0], {1}) = [e \in {1} |-> 0] BY DEF Restrict
    <2> QED BY <2>1 DEF ActiveOnly, Generated
  <1>4. Generated(0) # NoSecrets BY <1>1 DEF NoSecrets
  <1> QED BY <1>1, <1>2, <1>3, <1>4

LEMMA RotatedOk ==
  ASSUME NEW s, SecretsOk(s)
  PROVE  /\ SecretsOk(Rotated(s)) /\ Rotated(s).epoch = s.epoch + 1
         /\ \A e \in DOMAIN s.keys : e \in DOMAIN Rotated(s).keys /\ Rotated(s).keys[e] = s.keys[e]
  <1> DEFINE t == Rotated(s)
  <1>1. t.epoch = s.epoch + 1 /\ t.keys = With(s.keys, s.epoch + 1, Random)
        /\ t = [epoch |-> t.epoch, keys |-> t.keys] BY DEF Rotated
  <1>2. s.epoch \in Nat /\ DOMAIN s.keys \subseteq 1..s.epoch BY DEF SecretsOk
  <1>3. DOMAIN t.keys = DOMAIN s.keys \cup {s.epoch + 1} BY <1>1 DEF With
  <1>4. \A e \in DOMAIN s.keys : t.keys[e] = s.keys[e]
    <2> SUFFICES ASSUME NEW e \in DOMAIN s.keys PROVE t.keys[e] = s.keys[e] OBVIOUS
    <2>1. e # s.epoch + 1 BY <1>2
    <2> QED BY <1>1, <2>1 DEF With
  <1> HIDE DEF t
  <1>5. SecretsOk(t)
    <2>1. 1..s.epoch \subseteq 1..s.epoch + 1 /\ s.epoch + 1 \in 1..s.epoch + 1 BY <1>2
    <2>2. DOMAIN t.keys \subseteq 1..t.epoch BY <1>1, <1>2, <1>3, <2>1
    <2> QED BY <1>1, <1>2, <1>3, <2>2 DEF SecretsOk
  <1> QED BY <1>1, <1>3, <1>4, <1>5 DEF t

LEMMA ActiveOnlyOk ==
  ASSUME NEW s, SecretsOk(s)
  PROVE  /\ SecretsOk(ActiveOnly(s)) /\ ActiveOnly(s).epoch = s.epoch
         /\ ActiveOnly(s).keys[s.epoch] = s.keys[s.epoch]
  <1> DEFINE t == ActiveOnly(s)
  <1>1. s = [epoch |-> s.epoch, keys |-> s.keys] /\ s.epoch \in Nat /\ s.epoch \in DOMAIN s.keys
        /\ DOMAIN s.keys \subseteq 1..s.epoch BY DEF SecretsOk
  <1>2. t = [epoch |-> s.epoch, keys |-> Restrict(s.keys, {s.epoch})] BY <1>1 DEF ActiveOnly
  <1>3. DOMAIN Restrict(s.keys, {s.epoch}) = {s.epoch}
        /\ Restrict(s.keys, {s.epoch})[s.epoch] = s.keys[s.epoch] BY DEF Restrict
  <1> HIDE DEF t
  <1>4. SecretsOk(t) BY <1>1, <1>2, <1>3 DEF SecretsOk
  <1> QED BY <1>2, <1>3, <1>4 DEF t

LEMMA SealedOk ==
  ASSUME NEW k, NEW s, NEW w, KeyringOk(k), SecretsOk(s)
  PROVE  LET j == Sealed(k, s, w)
         IN /\ KeyringOk(j) /\ j.gen = k.gen + 1 /\ j.pw.by = w /\ j.pw.secrets = s
            /\ DOMAIN j.sealed = DOMAIN k.sealed /\ j.epoch = s.epoch
  <1> DEFINE j == Sealed(k, s, w)
  <1>1. j = [gen |-> k.gen + 1, epoch |-> s.epoch, pw |-> [by |-> w, secrets |-> s], sealed |-> Rebuilt(k, s)]
    BY DEF Sealed
  <1>2. DOMAIN Rebuilt(k, s) = DOMAIN k.sealed /\ \A d \in DOMAIN k.sealed : Rebuilt(k, s)[d] = s BY DEF Rebuilt
  <1>3. j # NoKeyring
    <2>1. s.epoch # 0 BY DEF SecretsOk
    <2> QED BY <1>1, <2>1 DEF NoKeyring
  <1> HIDE DEF j
  <1>4. KeyringOk(j) BY <1>1, <1>2, <1>3 DEF KeyringOk
  <1> QED BY <1>1, <1>2, <1>4 DEF j

\* What the device opens is what the password opens.
LEMMA DeviceSecretsOk ==
  ASSUME DeviceOk, Good(Cur)
  PROVE  DeviceSecrets \in {NoSecrets, Cur.pw.secrets}
  <1>1. CASE DeviceOpens(Cur, dir.device) BY <1>1 DEF DeviceSecrets, DeviceOpens, Good, KeyringOk
  <1>2. CASE ~DeviceOpens(Cur, dir.device)
    <2>1. dir.device = NoDevice BY <1>2 DEF DeviceOk, DeviceOpens, Good, KeyringOk
    <2>2. Cur.pw.secrets = Generated(0) BY <2>1 DEF Good, OneKey
    <2> QED BY <1>2, <2>1, <2>2 DEF DeviceSecrets, DeviceOk
  <1> QED BY <1>1, <1>2

----------------------------------------------------------------------------
(* Commands in turn.                                                       *)

LEMMA IdleHolds ==
  Holds(NoCommand) /\ Places(NoCommand)
  <1>1. Holds(NoCommand) BY DEF Holds, Named, NoCommand, Doing, Opening, Updating, Fetches
  <1>2. Places(NoCommand) BY DEF Places, NoCommand, Doing, Fetches
  <1> QED BY <1>1, <1>2

LEMMA SameDir ==
  ASSUME NEW c, NEW d, Turn(c), UNCHANGED <<dir, members, session, known>>, Holds(d), Places(d),
         c.pc \notin {"refs", "current"}, d.pc \notin {"refs", "current"},
         c.pc \notin Updating \/ session.crashes # 0
  PROVE  Turn(d)'
  <1>1. Turn(d) BY DEF Turn, HeadOk, PendingOk, QuietOk
  <1>2. FilesOk' BY <1>1 DEF Turn, FilesOk, DeviceOk, Good, Cur, OneKey
  <1>3. Holds(d)' BY DEF Holds, Named, Cur, Sealing
  <1>4. Cur' = Cur /\ Newest' = Newest BY DEF Cur, Newest
  <1>5. \A k : (Good(k)' <=> Good(k)) /\ (Successor(k)' <=> Successor(k)) BY <1>4 DEF Good, Successor, OneKey, Reads
  <1>6. Places(d)' BY <1>4, <1>5 DEF Places, Reads
  <1>7. HeadOk(d)' /\ PendingOk(d)' /\ QuietOk(d)' BY <1>1, <1>4, <1>5 DEF Turn, HeadOk, PendingOk, QuietOk, Reads
  <1> QED BY <1>2, <1>3, <1>6, <1>7 DEF Turn

Moves(p) == \A q \in Processes \ {p} : cmd'[q] = cmd[q]

LEMMA Ran ==
  ASSUME CmdsOk, NEW p \in Processes, NEW d, Run(p, d)
  PROVE  cmd'[p] = d /\ Moves(p) /\ (IsCmd(d) => CmdsOk')
  <1>1. cmd' = [q \in Processes |-> IF q = p THEN d ELSE cmd[q]] BY DEF Run, CmdsOk
  <1>2. cmd'[p] = d /\ Moves(p) BY <1>1 DEF Moves
  <1>3. ASSUME IsCmd(d) PROVE CmdsOk'
    <2>1. \A q \in Processes : IsCmd(cmd'[q]) BY <1>1, <1>3 DEF CmdsOk
    <2>2. cmd' = [q \in Processes |-> cmd'[q]] BY <1>1
    <2>3. \A q \in Processes : IsCmd(cmd[q])' BY <2>1 DEF IsCmd
    <2> QED BY <2>2, <2>3 DEF CmdsOk
  <1> QED BY <1>2, <1>3

LEMMA RecordIsCmd ==
  ASSUME NEW n, NEW pc, NEW t, NEW w, NEW e, NEW g, NEW x, NEW k
  PROVE  IsCmd([name |-> n, pc |-> pc, then |-> t, pw |-> w, device |-> e, gen |-> g,
                secrets |-> x, keyring |-> k])
  <1> DEFINE y == [name |-> n, pc |-> pc, then |-> t, pw |-> w, device |-> e, gen |-> g,
                   secrets |-> x, keyring |-> k]
  <1>1. y = [name |-> y.name, pc |-> y.pc, then |-> y.then, pw |-> y.pw, device |-> y.device,
             gen |-> y.gen, secrets |-> y.secrets, keyring |-> y.keyring] OBVIOUS
  <1> HIDE DEF y
  <1>2. IsCmd(y) BY <1>1 DEF IsCmd
  <1> QED BY <1>2 DEF y

LEMMA CommandIs ==
  ASSUME NEW n, NEW pc, NEW e, NEW w
  PROVE  /\ IsCmd(Doing(n, pc)) /\ Doing(n, pc).name = n /\ Doing(n, pc).pc = pc
         /\ Doing(n, pc).keyring = NoKeyring
         /\ IsCmd([Doing(n, pc) EXCEPT !.device = e, !.pw = w])
         /\ IsCmd([Doing(n, pc) EXCEPT !.device = e])
  <1>1. Doing(n, pc) = [name |-> n, pc |-> pc, then |-> "idle", pw |-> 0, device |-> NoDevice, gen |-> 0,
                          secrets |-> NoSecrets, keyring |-> NoKeyring] BY DEF Doing
  <1>2. [Doing(n, pc) EXCEPT !.device = e] =
          [name |-> n, pc |-> pc, then |-> "idle", pw |-> 0, device |-> e, gen |-> 0,
           secrets |-> NoSecrets, keyring |-> NoKeyring] BY <1>1
  <1>3. [Doing(n, pc) EXCEPT !.device = e, !.pw = w] =
          [name |-> n, pc |-> pc, then |-> "idle", pw |-> w, device |-> e, gen |-> 0,
           secrets |-> NoSecrets, keyring |-> NoKeyring]
    <2> DEFINE z == [Doing(n, pc) EXCEPT !.device = e]
    <2>1. z = [name |-> n, pc |-> pc, then |-> "idle", pw |-> 0, device |-> e, gen |-> 0,
               secrets |-> NoSecrets, keyring |-> NoKeyring] BY <1>2
    <2> HIDE DEF z
    <2>2. [z EXCEPT !.pw = w] = [name |-> n, pc |-> pc, then |-> "idle", pw |-> w, device |-> e,
                                 gen |-> 0, secrets |-> NoSecrets, keyring |-> NoKeyring] BY <2>1
    <2> QED BY <2>2 DEF z
  <1> DEFINE x == Doing(n, pc)
  <1>4. IsCmd(x) BY <1>1, RecordIsCmd
  <1>5. IsCmd([Doing(n, pc) EXCEPT !.device = e]) BY <1>2, RecordIsCmd
  <1>6. IsCmd([Doing(n, pc) EXCEPT !.device = e, !.pw = w]) BY <1>3, RecordIsCmd
  <1>7. x.name = n /\ x.pc = pc /\ x.keyring = NoKeyring BY <1>1
  <1> QED BY <1>4, <1>5, <1>6, <1>7

\* A command that has opened the secrets and has no keyring in hand.
Opened(d) ==
  /\ d.secrets = Cur.pw.secrets /\ d.keyring = NoKeyring
  /\ d.pc \in {"cache", "read", "revoke", "accept", "change"} /\ (d.pc = "cache" => d.then \in Ready)
  /\ d.name # "fetch" /\ (d.name = "revoke" => d.device \in Guests) /\ (d.name = "accept" => d.device \in Invited)
  /\ d.pc = "revoke" \/ (d.pc = "cache" /\ d.then = "revoke") => dir.device # NoDevice
  /\ Named(d)

LEMMA OpenedHolds ==
  ASSUME NEW d, Opened(d)
  PROVE  Holds(d) /\ Places(d)
  <1>1. Holds(d) BY DEF Opened, Named, Holds, Opening, Updating, Fetches, Ready
  <1>2. Places(d) BY DEF Opened, Named, Places, Fetches
  <1> QED BY <1>1, <1>2

LEMMA StartTurn ==
  ASSUME CmdsOk, NEW p \in Processes, Turn(cmd[p]), cmd[p] = NoCommand,
         UNCHANGED <<dir, members, session, known>>, NEW d, Run(p, d), Holds(d), Places(d),
         d.pc \notin {"refs", "current"}
  PROVE  Turn(cmd[p])'
  <1>1. cmd'[p] = d BY Ran
  <1>2. NoCommand.pc = "idle" BY DEF NoCommand, Doing
  <1>3. Turn(d)' BY <1>2, SameDir DEF Updating
  <1> QED BY <1>1, <1>3

LEMMA UnlockTurn ==
  ASSUME CmdsOk, NEW p \in Processes, Turn(cmd[p]), NEW w, UnlockRepository(p, w)
  PROVE  Turn(cmd[p])'
  <1>1. cmd[p] = NoCommand /\ UNCHANGED <<dir, members, session, known>> BY DEF UnlockRepository, May
  <1>2. CASE PasswordOpens(Cur, w)
    <2> DEFINE d == [Doing("unlock", "cache") EXCEPT !.then = "opened", !.secrets = Cur.pw.secrets]
    <2>1. Run(p, d) BY <1>2 DEF UnlockRepository
    <2>2. Opened(d) BY DEF Opened, Named, Doing, NoCommand, Ready
    <2>3. d.pc = "cache" BY DEF Doing, NoCommand
    <2> HIDE DEF d
    <2> QED BY <1>1, <2>1, <2>2, <2>3, OpenedHolds, StartTurn
  <1>3. CASE ~PasswordOpens(Cur, w)
    <2> DEFINE d == [Doing("unlock", "recover") EXCEPT !.then = "opened", !.gen = dir.journal,
                       !.secrets = dir.files[dir.journal].pw.secrets]
    <2>1. Run(p, d) /\ dir.journal \in DOMAIN dir.files BY <1>3 DEF UnlockRepository
    <2>2. /\ d.pc = "recover" /\ d.name = "unlock" /\ d.then = "opened" /\ d.gen = dir.journal
          /\ d.secrets = dir.files[dir.journal].pw.secrets /\ d.keyring = NoKeyring BY DEF Doing, NoCommand
    <2> HIDE DEF d
    <2>3. Holds(d) BY <2>2 DEF Holds, Named, Opening, Updating, Fetches
    <2>4. Places(d) BY <2>1, <2>2 DEF Places, Fetches
    <2> QED BY <1>1, <2>1, <2>2, <2>3, <2>4, StartTurn
  <1> QED BY <1>2, <1>3

LEMMA OpenTurn ==
  ASSUME CmdsOk, CachesOk, NEW p \in Processes, Turn(cmd[p]), cmd[p] = NoCommand, NEW c, IsCmd(c), Named(c),
         c.keyring = NoKeyring, c.pc \in {"read", "revoke", "accept"}, c.name # "fetch",
         c.name = "revoke" => c.device \in Guests, c.name = "accept" => c.device \in Invited,
         c.pc = "revoke" => dir.device # NoDevice,
         OpenSecrets(p, c), UNCHANGED <<dir, members, session, known>>
  PROVE  Turn(cmd[p])'
  <1>1. CASE Fresh(p)
    <2> DEFINE d == [c EXCEPT !.secrets = cache[p].secrets]
    <2>1. Run(p, d) BY <1>1 DEF OpenSecrets
    <2>2. cache[p].secrets = Cur.pw.secrets BY <1>1 DEF Fresh, CachesOk, Material
    <2>3. /\ d.secrets = Cur.pw.secrets /\ d.keyring = c.keyring /\ d.pc = c.pc /\ d.name = c.name
          /\ d.device = c.device BY <2>2 DEF IsCmd
    <2> HIDE DEF d
    <2>4. Opened(d) BY <2>3 DEF Opened, Named
    <2> QED BY <2>1, <2>3, <2>4, OpenedHolds, StartTurn
  <1>2. CASE ~Fresh(p) /\ DeviceSecrets # NoSecrets
    <2> DEFINE d == [c EXCEPT !.pc = "cache", !.then = c.pc, !.secrets = DeviceSecrets]
    <2>1. Run(p, d) BY <1>2 DEF OpenSecrets
    <2>2. DeviceSecrets = Cur.pw.secrets BY <1>2, DeviceSecretsOk DEF Turn, FilesOk
    <2>3. /\ d.secrets = Cur.pw.secrets /\ d.keyring = c.keyring /\ d.pc = "cache" /\ d.then = c.pc
          /\ d.name = c.name /\ d.device = c.device BY <2>2 DEF IsCmd
    <2> HIDE DEF d
    <2>4. Opened(d) BY <2>3 DEF Opened, Named, Ready
    <2> QED BY <2>1, <2>3, <2>4, OpenedHolds, StartTurn
  <1>3. CASE ~Fresh(p) /\ DeviceSecrets = NoSecrets
    <2>1. cmd'[p] = NoCommand BY <1>3 DEF OpenSecrets
    <2>2. NoCommand.pc = "idle" BY DEF NoCommand, Doing
    <2>3. Turn(NoCommand)' BY <2>2, IdleHolds, SameDir DEF Updating
    <2> QED BY <2>1, <2>3
  <1> QED BY <1>1, <1>2, <1>3

\* Starts that take the secrets of the current keyring, or of the cache.
LEMMA StartsTurn ==
  ASSUME CmdsOk, CachesOk, NEW p \in Processes, Turn(cmd[p]),
         \/ StartBootstrap(p) \/ StartCommit(p) \/ StartChange(p) \/ StartRetire(p)
         \/ \E d \in Guests : StartRevoke(p, d)
         \/ \E d \in Invited : StartAccept(p, d)
  PROVE  Turn(cmd[p])'
  <1>1. cmd[p] = NoCommand /\ UNCHANGED <<dir, members, session, known>>
    BY Zenon DEF StartBootstrap, StartCommit, StartChange, StartRetire, StartRevoke, StartAccept, May
  <1>2. ASSUME NEW d, Run(p, d), Opened(d) PROVE Turn(cmd[p])'
    <2>1. d.pc \notin {"refs", "current"} BY <1>2 DEF Opened, Named
    <2> QED BY <1>1, <1>2, <2>1, OpenedHolds, StartTurn
  <1>3. CASE StartBootstrap(p)
    <2> DEFINE d == [Doing("clone", "cache") EXCEPT !.then = "bootstrap", !.secrets = Cur.pw.secrets]
    <2>1. Run(p, d) BY <1>3 DEF StartBootstrap
    <2>2. Opened(d) BY DEF Opened, Named, Doing, NoCommand, Ready
    <2> HIDE DEF d
    <2> QED BY <1>2, <2>1, <2>2
  <1>4. CASE StartChange(p)
    <2> DEFINE d == [Doing("change", "change") EXCEPT !.pw = NextPassword, !.secrets = Cur.pw.secrets]
    <2>1. Run(p, d) BY <1>4 DEF StartChange
    <2>2. Opened(d) BY DEF Opened, Named, Doing, NoCommand
    <2> HIDE DEF d
    <2> QED BY <1>2, <2>1, <2>2
  <1>5. CASE StartRetire(p)
    <2> DEFINE d == [Doing("retire", "cache") EXCEPT !.then = "reseal", !.pw = Cur.pw.by,
                                                       !.secrets = Cur.pw.secrets]
    <2>1. Run(p, d) BY <1>5 DEF StartRetire
    <2>2. Opened(d) BY DEF Opened, Named, Doing, NoCommand, Ready
    <2> HIDE DEF d
    <2> QED BY <1>2, <2>1, <2>2
  <1>6. CASE StartCommit(p)
    <2> DEFINE c == Doing("commit", "read")
    <2>1. OpenSecrets(p, c) BY <1>6 DEF StartCommit
    <2>2. IsCmd(c) /\ c.keyring = NoKeyring /\ c.pc = "read" /\ c.name = "commit" BY CommandIs
    <2> HIDE DEF c
    <2> QED BY <1>1, <2>1, <2>2, OpenTurn DEF Named
  <1>7. ASSUME NEW e \in Guests, StartRevoke(p, e) PROVE Turn(cmd[p])'
    <2>1. PICK w : OpenSecrets(p, [Doing("revoke", "revoke") EXCEPT !.device = e, !.pw = w])
      BY <1>7 DEF StartRevoke
    <2> DEFINE c == [Doing("revoke", "revoke") EXCEPT !.device = e, !.pw = w]
    <2>2. dir.device # NoDevice BY <1>7, UnlockAssumption DEF StartRevoke, IsAdmin
    <2>3. c.keyring = NoKeyring /\ c.pc = "revoke" /\ c.name = "revoke" /\ c.device = e
      BY DEF Doing, NoCommand
    <2>5. IsCmd(c) BY CommandIs
    <2>4. OpenSecrets(p, c) BY <2>1
    <2> HIDE DEF c
    <2> QED BY <1>1, <2>2, <2>3, <2>4, <2>5, OpenTurn DEF Named
  <1>8. ASSUME NEW e \in Invited, StartAccept(p, e) PROVE Turn(cmd[p])'
    <2> DEFINE c == [Doing("accept", "accept") EXCEPT !.device = e]
    <2>1. OpenSecrets(p, c) BY <1>8 DEF StartAccept
    <2>2. c.keyring = NoKeyring /\ c.pc = "accept" /\ c.name = "accept" /\ c.device = e
      BY DEF Doing, NoCommand
    <2>3. IsCmd(c) BY CommandIs
    <2> HIDE DEF c
    <2> QED BY <1>1, <2>1, <2>2, <2>3, OpenTurn DEF Named
  <1> QED BY <1>3, <1>4, <1>5, <1>6, <1>7, <1>8

\* What another device published grew out of the keyring that is here.
LEMMA FetchedIsGood ==
  ASSUME ~session.overlap, FilesOk, Reads(Cur.pw.secrets), NEW k \in RemoteKeyrings,
         session.clone => k.epoch = Cur.epoch
  PROVE  Good(k) /\ k.gen = dir.pointer + 1 /\ Reads(k.pw.secrets)
  <1> DEFINE s == Cur.pw.secrets
  <1>1. SecretsOk(s) /\ KeyringOk(Cur) /\ Cur.epoch = s.epoch /\ Cur.gen = dir.pointer
        /\ members \subseteq DOMAIN Cur.sealed BY DEF FilesOk, Good, KeyringOk
  <1>2. s.epoch \in Nat BY <1>1 DEF SecretsOk
  <1>3. OneKey => s = Generated(0) /\ session.clone BY DEF FilesOk, Good, OneKey, DeviceOk
  <1>4. ASSUME NEW t, NEW w, k = Sealed(Cur, t, w), SecretsOk(t), OneKey => t = Generated(0),
               \A e \in DOMAIN s.keys : e \in DOMAIN t.keys /\ t.keys[e] = s.keys[e]
        PROVE  Good(k) /\ k.gen = dir.pointer + 1 /\ Reads(k.pw.secrets)
    <2>1. KeyringOk(k) /\ k.gen = Cur.gen + 1 /\ k.pw.secrets = t /\ DOMAIN k.sealed = DOMAIN Cur.sealed
      BY <1>1, <1>4, SealedOk
    <2>2. Reads(t) BY <1>4 DEF Reads
    <2> QED BY <1>1, <1>4, <2>1, <2>2 DEF Good
  <1>5. CASE \E w : k = Sealed(Cur, s, w) BY <1>1, <1>3, <1>4, <1>5
  <1>6. CASE k = Sealed(Cur, Rotated(s), Cur.pw.by)
    <2>1. SecretsOk(Rotated(s)) /\ Rotated(s).epoch = s.epoch + 1
          /\ \A e \in DOMAIN s.keys : e \in DOMAIN Rotated(s).keys /\ Rotated(s).keys[e] = s.keys[e]
      BY <1>1, RotatedOk
    <2>2. k.epoch = s.epoch + 1 BY <1>1, <1>6, <2>1, SealedOk
    <2>3. ~OneKey BY <1>1, <1>2, <1>3, <2>2
    <2> QED BY <1>4, <1>6, <2>1, <2>3
  <1>7. (\E w : k = Sealed(Cur, s, w)) \/ k = Sealed(Cur, Rotated(s), Cur.pw.by) BY DEF RemoteKeyrings
  <1> QED BY <1>5, <1>6, <1>7

LEMMA StartFetchTurn ==
  ASSUME TakeTurns, CommonInv, ~session.overlap, NEW p \in Processes, Turn(cmd[p]), StartFetch(p)
  PROVE  Turn(cmd[p])'
  <1>1. cmd[p] = NoCommand /\ UNCHANGED <<dir, members, session, known>> BY DEF StartFetch, May
  <1>2. PICK k \in RemoteKeyrings : /\ session.clone => k.epoch = Cur.epoch
                                    /\ Run(p, [Doing("fetch", "keyrings") EXCEPT !.keyring = k])
    BY DEF StartFetch
  <1>3. session.crashes = 0
    <2>1. count.fetches < session.fetches /\ count.fetches \in Nat /\ session.fetches \in Nat
      BY UnlockAssumption DEF StartFetch, CommonInv
    <2> QED BY <2>1 DEF TakeTurns, CommonInv
  <1>4. Reads(Cur.pw.secrets) /\ FilesOk BY <1>1 DEF Turn, HeadOk, NoCommand, Doing
  <1>5. Good(k) /\ k.gen = dir.pointer + 1 /\ Reads(k.pw.secrets) BY <1>2, <1>4, FetchedIsGood
  <1> DEFINE d == [Doing("fetch", "keyrings") EXCEPT !.keyring = k]
  <1>6. d.pc = "keyrings" /\ d.name = "fetch" /\ d.keyring = k BY DEF Doing, NoCommand
  <1>7. Run(p, d) BY <1>2
  <1> HIDE DEF d
  <1>8. Holds(d) BY <1>6 DEF Holds, Named, Opening, Updating, Fetches
  <1>9. Places(d) BY <1>3, <1>5, <1>6 DEF Places, Fetches
  <1> QED BY <1>1, <1>6, <1>7, <1>8, <1>9, StartTurn DEF CommonInv

LEMMA CacheTurn ==
  ASSUME CmdsOk, NEW p \in Processes, Turn(cmd[p]), CacheSecrets(p)
  PROVE  Turn(cmd[p])'
  <1> DEFINE c == cmd[p]  d == [c EXCEPT !.pc = c.then]
  <1>1. Run(p, d) /\ c.pc = "cache" /\ UNCHANGED <<dir, members, session, known>>
    BY DEF CacheSecrets, To, At
  <1>2. cmd'[p] = d BY <1>1, Ran
  <1>3. /\ d.pc = c.then /\ d.name = c.name /\ d.then = c.then /\ d.device = c.device
        /\ d.secrets = c.secrets /\ d.keyring = c.keyring /\ d.gen = c.gen BY DEF CmdsOk, IsCmd
  <1>4. Holds(c) /\ Places(c) /\ Turn(c) BY DEF Turn
  <1> HIDE DEF c, d
  <1>5. Holds(d) BY <1>1, <1>3, <1>4 DEF Holds, Named, Opening, Updating, Fetches, Ready
  <1>6. c.then \in Ready BY <1>1, <1>4 DEF Holds, Named
  <1>7. Places(d) BY <1>1, <1>3, <1>4, <1>6 DEF Places, Fetches, Ready
  <1> QED BY <1>1, <1>2, <1>3, <1>4, <1>5, <1>6, <1>7, SameDir DEF Updating, Ready, c

\* A command that ends without having written anything.
LEMMA EndTurn ==
  ASSUME NEW p \in Processes, Turn(cmd[p]), CmdsOk, Run(p, NoCommand),
         UNCHANGED <<dir, members, session, known>>,
         cmd[p].pc \notin {"refs", "current"}, cmd[p].pc \notin Updating \/ session.crashes # 0
  PROVE  Turn(cmd[p])'
  <1>1. cmd'[p] = NoCommand BY Ran
  <1>2. NoCommand.pc = "idle" BY DEF NoCommand, Doing
  <1>3. Turn(NoCommand)' BY <1>2, IdleHolds, SameDir
  <1> QED BY <1>1, <1>3

LEMMA EndsTurn ==
  ASSUME CommonInv, NEW p \in Processes, Turn(cmd[p]), Crash(p) \/ FetchDone(p)
  PROVE  Turn(cmd[p])'
  <1>1. Run(p, NoCommand) /\ UNCHANGED <<dir, members, session, known>> /\ CmdsOk
    BY DEF Crash, FetchDone, CommonInv
  <1>2. CASE Crash(p)
    <2>1. count.crashes < session.crashes /\ count.crashes \in Nat BY <1>2 DEF Crash, CommonInv
    <2>2. cmd[p].pc \notin Fetches BY <1>2 DEF Crash, Turn, Holds, Named
    <2> QED BY <1>1, <2>1, <2>2, EndTurn DEF Fetches
  <1>3. CASE FetchDone(p)
    <2>1. cmd[p].pc = "clear" BY <1>3 DEF FetchDone, At
    <2> QED BY <1>1, <2>1, EndTurn DEF Updating
  <1> QED BY <1>2, <1>3

LEMMA ReadRefTurn ==
  ASSUME CommonInv, NEW p \in Processes, Turn(cmd[p]), ReadRef(p)
  PROVE  Turn(cmd[p])'
  <1> DEFINE c == cmd[p]  d == [c EXCEPT !.pc = "seal"]
  <1>1. c.pc = "read" /\ UNCHANGED <<dir, members, session, known>> /\ CmdsOk BY DEF ReadRef, At, CommonInv
  <1>2. CASE Run(p, NoCommand) BY <1>1, <1>2, EndTurn DEF Updating
  <1>3. CASE Run(p, d)
    <2>1. cmd'[p] = d BY <1>1, <1>3, Ran
    <2>2. /\ d.pc = "seal" /\ d.name = c.name /\ d.then = c.then /\ d.device = c.device
          /\ d.secrets = c.secrets /\ d.keyring = c.keyring /\ d.gen = c.gen BY <1>1 DEF CmdsOk, IsCmd
    <2>3. Holds(c) /\ Places(c) /\ Turn(c) BY DEF Turn
    <2> HIDE DEF c, d
    <2>4. Holds(d) BY <1>1, <2>2, <2>3 DEF Holds, Named, Opening, Updating, Fetches
    <2>5. Places(d) BY <1>1, <2>2, <2>3 DEF Places, Fetches
    <2> QED BY <1>1, <2>1, <2>2, <2>3, <2>4, <2>5, SameDir DEF Updating
  <1> QED BY <1>2, <1>3 DEF ReadRef, To

\* The password of the command is now the only one that counts.
LEMMA ReturnTurn ==
  ASSUME CmdsOk, NEW p \in Processes, Turn(cmd[p]), Return(p)
  PROVE  Turn(cmd[p])'
  <1> DEFINE c == cmd[p]
  <1>1. Run(p, NoCommand) /\ c.pc = "opened" /\ UNCHANGED <<dir, members, session>> BY DEF Return, At
  <1>2. CASE UNCHANGED known BY <1>1, <1>2, EndTurn DEF Updating
  <1>3. CASE c.keyring # NoKeyring /\ known' = {c.keyring.pw.by}
    <2>1. c.keyring = Cur /\ Newest BY <1>1, <1>3 DEF Turn, Places
    <2>2. cmd'[p] = NoCommand BY <1>1, Ran
    <2>3. Cur' = Cur /\ Newest' BY <1>1, <2>1 DEF Cur, Newest
    <2>4. NoCommand.pc = "idle" BY DEF NoCommand, Doing
    <2>5. FilesOk' BY <1>1, <1>3, <2>1, <2>3 DEF Turn, FilesOk, DeviceOk, Good, OneKey
    <2>6. Holds(NoCommand)' /\ Places(NoCommand)'
      <3>1. Holds(NoCommand)' BY <1>1, <2>3, IdleHolds DEF Holds, Named, NoCommand, Doing, Opening, Updating, Fetches
      <3>2. Places(NoCommand)' BY DEF Places, NoCommand, Doing, Fetches
      <3> QED BY <3>1, <3>2
    <2>7. HeadOk(NoCommand)' /\ PendingOk(NoCommand)' /\ QuietOk(NoCommand)'
      BY <1>1, <2>3, <2>4 DEF Turn, HeadOk, Reads, PendingOk, QuietOk, Updating
    <2> QED BY <2>2, <2>5, <2>6, <2>7 DEF Turn
  <1> QED BY <1>2, <1>3 DEF Return

\* The next stage of a command, with what it has in hand.
Same(d, c) == /\ d.name = c.name /\ d.pw = c.pw /\ d.device = c.device /\ d.gen = c.gen
              /\ d.secrets = c.secrets /\ d.keyring = c.keyring

LEMMA Goes ==
  ASSUME CmdsOk, NEW p \in Processes, NEW pc, To(p, pc)
  PROVE  /\ cmd'[p].pc = pc /\ cmd'[p].then = cmd[p].then /\ Same(cmd'[p], cmd[p])
         /\ Moves(p) /\ CmdsOk'
  <1> DEFINE c == cmd[p]  d == [c EXCEPT !.pc = pc]
  <1>1. Run(p, d) BY DEF To
  <1>2. IsCmd(c) BY DEF CmdsOk
  <1> HIDE DEF c
  <1>3. d = [name |-> c.name, pc |-> pc, then |-> c.then, pw |-> c.pw, device |-> c.device,
             gen |-> c.gen, secrets |-> c.secrets, keyring |-> c.keyring] BY <1>2 DEF IsCmd
  <1>4. d.pc = pc /\ d.then = c.then /\ Same(d, c) BY <1>3 DEF Same
  <1>5. IsCmd(d) BY <1>3, RecordIsCmd
  <1> HIDE DEF d
  <1>6. cmd'[p] = d /\ Moves(p) /\ CmdsOk' BY <1>1, <1>5, Ran
  <1> QED BY <1>4, <1>6 DEF c

LEMMA GoesOn ==
  ASSUME CmdsOk, NEW p \in Processes, Run(p, [cmd[p] EXCEPT !.pc = "cache", !.then = "opened"])
  PROVE  /\ cmd'[p].pc = "cache" /\ cmd'[p].then = "opened" /\ Same(cmd'[p], cmd[p])
         /\ Moves(p) /\ CmdsOk'
  <1> DEFINE c == cmd[p]  d == [c EXCEPT !.pc = "cache", !.then = "opened"]
  <1>1. Run(p, d) OBVIOUS
  <1>2. IsCmd(c) BY DEF CmdsOk
  <1> HIDE DEF c
  <1>3. d = [name |-> c.name, pc |-> "cache", then |-> "opened", pw |-> c.pw, device |-> c.device,
             gen |-> c.gen, secrets |-> c.secrets, keyring |-> c.keyring]
    <2> DEFINE z == [c EXCEPT !.pc = "cache"]
    <2>1. z = [name |-> c.name, pc |-> "cache", then |-> c.then, pw |-> c.pw, device |-> c.device,
               gen |-> c.gen, secrets |-> c.secrets, keyring |-> c.keyring] BY <1>2 DEF IsCmd
    <2> HIDE DEF z
    <2>2. [z EXCEPT !.then = "opened"] =
            [name |-> c.name, pc |-> "cache", then |-> "opened", pw |-> c.pw, device |-> c.device,
             gen |-> c.gen, secrets |-> c.secrets, keyring |-> c.keyring] BY <2>1
    <2> QED BY <2>2 DEF z
  <1>4. d.pc = "cache" /\ d.then = "opened" /\ Same(d, c) BY <1>3 DEF Same
  <1>5. IsCmd(d) BY <1>3, RecordIsCmd
  <1> HIDE DEF d
  <1>6. cmd'[p] = d /\ Moves(p) /\ CmdsOk' BY <1>1, <1>5, Ran
  <1> QED BY <1>4, <1>6 DEF c

Directory(f, p, j, l, d, b, h) ==
  [files |-> f, pointer |-> p, journal |-> j, lock |-> l, device |-> d, bootstrap |-> b, head |-> h]

LEMMA DirWith ==
  ASSUME IsDirectory, NEW v, NEW u
  PROVE  /\ [dir EXCEPT !.files = v] =
              Directory(v, dir.pointer, dir.journal, dir.lock, dir.device, dir.bootstrap, dir.head)
         /\ [dir EXCEPT !.pointer = v] =
              Directory(dir.files, v, dir.journal, dir.lock, dir.device, dir.bootstrap, dir.head)
         /\ [dir EXCEPT !.journal = v] =
              Directory(dir.files, dir.pointer, v, dir.lock, dir.device, dir.bootstrap, dir.head)
         /\ [dir EXCEPT !.lock = v] =
              Directory(dir.files, dir.pointer, dir.journal, v, dir.device, dir.bootstrap, dir.head)
         /\ [dir EXCEPT !.device = v] =
              Directory(dir.files, dir.pointer, dir.journal, dir.lock, v, dir.bootstrap, dir.head)
         /\ [dir EXCEPT !.bootstrap = v] =
              Directory(dir.files, dir.pointer, dir.journal, dir.lock, dir.device, v, dir.head)
         /\ [dir EXCEPT !.head = v] =
              Directory(dir.files, dir.pointer, dir.journal, dir.lock, dir.device, dir.bootstrap, v)
         /\ [dir EXCEPT !.lock = u, !.files = v] =
              Directory(v, dir.pointer, dir.journal, u, dir.device, dir.bootstrap, dir.head)
  <1>1. [dir EXCEPT !.files = v] = Directory(v, dir.pointer, dir.journal, dir.lock, dir.device, dir.bootstrap, dir.head)
    BY DEF IsDirectory, Directory
  <1>2. [dir EXCEPT !.pointer = v] = Directory(dir.files, v, dir.journal, dir.lock, dir.device, dir.bootstrap, dir.head)
    BY DEF IsDirectory, Directory
  <1>3. [dir EXCEPT !.journal = v] = Directory(dir.files, dir.pointer, v, dir.lock, dir.device, dir.bootstrap, dir.head)
    BY DEF IsDirectory, Directory
  <1>4. [dir EXCEPT !.lock = v] = Directory(dir.files, dir.pointer, dir.journal, v, dir.device, dir.bootstrap, dir.head)
    BY DEF IsDirectory, Directory
  <1>5. [dir EXCEPT !.device = v] = Directory(dir.files, dir.pointer, dir.journal, dir.lock, v, dir.bootstrap, dir.head)
    BY DEF IsDirectory, Directory
  <1>6. [dir EXCEPT !.bootstrap = v] = Directory(dir.files, dir.pointer, dir.journal, dir.lock, dir.device, v, dir.head)
    BY DEF IsDirectory, Directory
  <1>7. [dir EXCEPT !.head = v] = Directory(dir.files, dir.pointer, dir.journal, dir.lock, dir.device, dir.bootstrap, v)
    BY DEF IsDirectory, Directory
  <1>8. [dir EXCEPT !.lock = u, !.files = v] = Directory(v, dir.pointer, dir.journal, u, dir.device, dir.bootstrap, dir.head)
    <2> DEFINE z == [dir EXCEPT !.lock = u]
    <2>1. z = Directory(dir.files, dir.pointer, dir.journal, u, dir.device, dir.bootstrap, dir.head) BY DEF IsDirectory, Directory
    <2> HIDE DEF z
    <2>2. [z EXCEPT !.files = v] = Directory(v, dir.pointer, dir.journal, u, dir.device, dir.bootstrap, dir.head) BY <2>1 DEF Directory
    <2> QED BY <2>2 DEF z
  <1> QED BY <1>1, <1>2, <1>3, <1>4, <1>5, <1>6, <1>7, <1>8

\* A step that writes a ref, or the bootstrap keyring, with the secrets of the
\* current keyring.
LEMMA WrittenWith ==
  ASSUME IsDirectory, NEW c, NEW d, Turn(c), Same(d, c), UNCHANGED <<members, session, known>>,
         c.pc \in Opening, d.pc \in {"cache", "opened", "retire"}, d.pc = "cache" => d.then = "opened",
         d.pc = "retire" => c.pc = "reseal",
         \/ dir' = [dir EXCEPT !.head = Sealing(Cur.pw.secrets)]
         \/ dir' = [dir EXCEPT !.bootstrap = Cur.pw.secrets] /\ d.pc # "retire"
  PROVE  Turn(d)'
  <1>1. /\ dir'.files = dir.files /\ dir'.pointer = dir.pointer /\ dir'.journal = dir.journal
        /\ dir'.lock = dir.lock /\ dir'.device = dir.device
        /\ dir'.head \in {dir.head, Sealing(Cur.pw.secrets)}
        /\ dir'.bootstrap \in {dir.bootstrap, Cur.pw.secrets}
        /\ d.pc = "retire" => dir'.head = Sealing(Cur.pw.secrets)
    <2>1. CASE dir' = [dir EXCEPT !.head = Sealing(Cur.pw.secrets)] BY <2>1, DirWith DEF Directory
    <2>2. CASE dir' = [dir EXCEPT !.bootstrap = Cur.pw.secrets] /\ d.pc # "retire" BY <2>2, DirWith DEF Directory
    <2> QED BY <2>1, <2>2
  <1>2. Cur' = Cur /\ Newest' = Newest BY <1>1 DEF Cur, Newest
  <1>3. /\ c.pc \notin {"refs", "current"} /\ d.pc \notin {"refs", "current"}
        /\ c.pc \notin Updating /\ c.pc # "idle" BY DEF Opening, Updating
  <1>4. KeyringOk(Cur) /\ SecretsOk(Cur.pw.secrets) /\ Cur.epoch = Cur.pw.secrets.epoch
    BY DEF Turn, FilesOk, Good, KeyringOk
  <1>5. \A k : Good(k)' <=> Good(k) BY <1>1 DEF Good, OneKey
  <1>6. FilesOk'
    <2>1. DeviceOk' BY <1>1 DEF Turn, FilesOk, DeviceOk, Good, OneKey
    <2>2. Good(Cur)' BY <1>2, <1>5 DEF Turn, FilesOk
    <2> QED BY <1>1, <1>2, <2>1, <2>2 DEF Turn, FilesOk
  <1>7. Reads(Cur.pw.secrets)' BY <1>1, <1>2, <1>3, <1>4 DEF Turn, HeadOk, Reads, Sealing, SecretsOk
  <1>8. ASSUME NEW k, Successor(k) PROVE Successor(k)'
    <2>1. Reads(k.pw.secrets)' BY <1>1, <1>4, <1>8 DEF Successor, Reads, Sealing
    <2> QED BY <1>1, <1>2, <1>5, <1>8, <2>1 DEF Successor
  <1>9. PendingOk(d)' BY <1>1, <1>2, <1>3, <1>8 DEF Turn, PendingOk
  <1>10. HeadOk(d)' /\ QuietOk(d)' BY <1>1, <1>3, <1>7 DEF Turn, HeadOk, QuietOk, Updating
  <1>11. Holds(d)'
    <2>1. Sealing(Cur.pw.secrets)' = Sealing(Cur.pw.secrets) BY <1>2 DEF Sealing
    <2> QED BY <1>1, <1>2, <2>1 DEF Turn, Holds, Named, Same, Opening, Updating, Fetches, Ready
  <1>12. Places(d)' BY <1>2, <1>3 DEF Turn, Places, Same, Opening, Fetches
  <1> QED BY <1>6, <1>9, <1>10, <1>11, <1>12 DEF Turn

LEMMA SealTurn ==
  ASSUME CommonInv, NEW p \in Processes, Turn(cmd[p]), SealRef(p) \/ Bootstrap(p) \/ ResealRefs(p)
  PROVE  Turn(cmd[p])'
  <1>0. CmdsOk /\ IsDirectory /\ UNCHANGED <<members, session, known>>
    BY DEF CommonInv, SealRef, Bootstrap, ResealRefs
  <1>1. CASE SealRef(p)
    <2>1. cmd[p].pc = "seal" /\ To(p, "opened") /\ dir' = [dir EXCEPT !.head = Sealing(cmd[p].secrets)]
      BY <1>1 DEF SealRef, At
    <2>2. cmd[p].secrets = Cur.pw.secrets BY <2>1 DEF Turn, Holds, Named, Opening
    <2>3. cmd'[p].pc = "opened" /\ Same(cmd'[p], cmd[p]) BY <1>0, <2>1, Goes
    <2> QED BY <1>0, <2>1, <2>2, <2>3, WrittenWith DEF Opening
  <1>2. CASE Bootstrap(p)
    <2>1. cmd[p].pc = "bootstrap" /\ dir' = [dir EXCEPT !.bootstrap = cmd[p].secrets]
          /\ Run(p, [cmd[p] EXCEPT !.pc = "cache", !.then = "opened"]) BY <1>2 DEF Bootstrap, At
    <2>2. cmd[p].secrets = Cur.pw.secrets BY <2>1 DEF Turn, Holds, Named, Opening
    <2>3. cmd'[p].pc = "cache" /\ cmd'[p].then = "opened" /\ Same(cmd'[p], cmd[p]) BY <1>0, <2>1, GoesOn
    <2> QED BY <1>0, <2>1, <2>2, <2>3, WrittenWith DEF Opening
  <1>3. CASE ResealRefs(p)
    <2>1. cmd[p].pc = "reseal" BY <1>3 DEF ResealRefs, At
    <2>2. CASE UNCHANGED dir /\ Run(p, NoCommand) BY <1>0, <2>1, <2>2, EndTurn DEF Updating
    <2>3. CASE dir' = [dir EXCEPT !.head = Sealing(cmd[p].secrets)] /\ To(p, "retire")
      <3>1. cmd[p].secrets = Cur.pw.secrets BY <2>1 DEF Turn, Holds, Named, Opening
      <3>2. cmd'[p].pc = "retire" /\ Same(cmd'[p], cmd[p]) BY <1>0, <2>3, Goes
      <3> QED BY <1>0, <2>1, <2>3, <3>1, <3>2, WrittenWith DEF Opening
    <2> QED BY <1>3, <2>2, <2>3 DEF ResealRefs
  <1> QED BY <1>1, <1>2, <1>3

----------------------------------------------------------------------------
(* Updates.                                                                *)

Making(c, s, k) == [c EXCEPT !.pc = "file", !.secrets = s, !.keyring = k]

Made(p, s, k) ==
  /\ cmd'[p].pc = "file" /\ cmd'[p].secrets = s /\ cmd'[p].keyring = k
  /\ cmd'[p].name = cmd[p].name /\ cmd'[p].device = cmd[p].device
  /\ Moves(p) /\ CmdsOk'

LEMMA Makes ==
  ASSUME CmdsOk, NEW p \in Processes, NEW s, NEW k, Run(p, Making(cmd[p], s, k))
  PROVE  Made(p, s, k)
  <1> DEFINE c == cmd[p]  d == Making(c, s, k)
             y == [c EXCEPT !.pc = "file"]  z == [y EXCEPT !.secrets = s]
  <1>1. Run(p, d) OBVIOUS
  <1>2. IsCmd(c) BY DEF CmdsOk
  <1> HIDE DEF c
  <1>3. y = [name |-> c.name, pc |-> "file", then |-> c.then, pw |-> c.pw, device |-> c.device,
             gen |-> c.gen, secrets |-> c.secrets, keyring |-> c.keyring] BY <1>2 DEF IsCmd
  <1>4. d = [z EXCEPT !.keyring = k] BY DEF Making
  <1> HIDE DEF d, y
  <1>5. z = [name |-> c.name, pc |-> "file", then |-> c.then, pw |-> c.pw, device |-> c.device,
             gen |-> c.gen, secrets |-> s, keyring |-> c.keyring] BY <1>3
  <1> HIDE DEF z
  <1>6. d = [name |-> c.name, pc |-> "file", then |-> c.then, pw |-> c.pw, device |-> c.device,
             gen |-> c.gen, secrets |-> s, keyring |-> k] BY <1>4, <1>5
  <1>7. d.pc = "file" /\ d.secrets = s /\ d.keyring = k /\ d.name = c.name /\ d.device = c.device BY <1>6
  <1>8. IsCmd(d) BY <1>6, RecordIsCmd
  <1>9. cmd'[p] = d /\ Moves(p) /\ CmdsOk' BY <1>1, <1>8, Ran
  <1> QED BY <1>7, <1>9 DEF c, Made

\* A keyring was made that may follow the current one.
LEMMA UpdateTurn ==
  ASSUME IsDirectory, CmdsOk, NEW p \in Processes, Turn(cmd[p]),
         cmd[p].pc \in {"change", "revoke", "accept", "retire"},
         NEW k, NEW s, s = k.pw.secrets, Update(p, k, s), UNCHANGED session,
         members' \subseteq members, DeviceOk => dir.device \in members' \cup {NoDevice},
         KeyringOk(k), k.gen = dir.pointer + 1, Reads(s), Cur.epoch \in DOMAIN s.keys,
         s.keys[Cur.epoch] = Cur.pw.secrets.keys[Cur.epoch], members' \subseteq DOMAIN k.sealed,
         OneKey => s = Generated(0), cmd[p].name = "accept" => cmd[p].device \in DOMAIN k.sealed
  PROVE  Turn(cmd[p])'
  <1> DEFINE c == cmd[p]
  <1>1. dir' = [dir EXCEPT !.journal = dir.pointer + 1] BY DEF Update
  <1>2. /\ dir'.files = dir.files /\ dir'.pointer = dir.pointer /\ dir'.journal = dir.pointer + 1
        /\ dir'.lock = dir.lock /\ dir'.device = dir.device /\ dir'.head = dir.head
        /\ dir'.bootstrap = dir.bootstrap BY <1>1, DirWith DEF Directory
  <1>3. Cur' = Cur /\ Newest' = Newest BY <1>2 DEF Cur, Newest
  <1>4. OneKey' <=> OneKey BY <1>2 DEF OneKey
  <1>5. \A x : Good(x) => Good(x)' BY <1>4 DEF Good
  <1>6. Good(k)' BY <1>4 DEF Good
  <1>7. \A x : Reads(x)' <=> Reads(x) BY <1>2 DEF Reads
  <1>8. \A x : Successor(x) => Successor(x)' BY <1>2, <1>3, <1>5, <1>7 DEF Successor
  <1>9. Successor(k)' BY <1>2, <1>3, <1>6, <1>7 DEF Successor
  <1>10. known \subseteq known' BY DEF Update
  <1>11. FilesOk'
    <2>1. DeviceOk' BY <1>2 DEF Turn, FilesOk, DeviceOk
    <2>2. Good(Cur)' BY <1>3, <1>5 DEF Turn, FilesOk
    <2> QED BY <1>2, <1>3, <1>10, <2>1, <2>2 DEF Turn, FilesOk
  <1>12. c.pc \notin {"refs", "current"} /\ c.pc \notin Updating BY DEF Updating
  <1>13. Reads(Cur.pw.secrets)' BY <1>3, <1>7, <1>12 DEF Turn, HeadOk
  <1>14. ASSUME NEW d, d.pc \in {"idle", "file"} PROVE HeadOk(d)' /\ PendingOk(d)'
    BY <1>2, <1>3, <1>8, <1>10, <1>12, <1>13 DEF Turn, HeadOk, PendingOk
  <1>15. CASE dir.lock
    <2>1. Run(p, NoCommand) BY <1>15 DEF Update
    <2>2. cmd'[p] = NoCommand BY <2>1, Ran
    <2>3. NoCommand.pc = "idle" BY DEF NoCommand, Doing
    <2>4. Holds(NoCommand)' BY DEF Holds, Named, NoCommand, Doing, Opening, Updating, Fetches
    <2>5. Places(NoCommand)' BY DEF Places, NoCommand, Doing, Fetches
    <2>6. session.crashes # 0 BY <1>12, <1>15 DEF Turn, QuietOk
    <2>7. QuietOk(NoCommand)' BY <2>6 DEF QuietOk
    <2> QED BY <1>11, <1>14, <2>2, <2>3, <2>4, <2>5, <2>7 DEF Turn
  <1>16. CASE ~dir.lock
    <2>1. k.pw.by \in known' BY <1>16 DEF Update
    <2>3a. Made(p, s, k)
      <3>1. Run(p, Making(cmd[p], s, k)) BY <1>16 DEF Update, Making
      <3> QED BY <3>1, Makes
    <2>0. PICK d : d = cmd'[p] OBVIOUS
    <2>2a. /\ cmd'[p].pc = "file" /\ cmd'[p].secrets = s /\ cmd'[p].keyring = k
           /\ cmd'[p].name = cmd[p].name /\ cmd'[p].device = cmd[p].device
      BY <2>3a DEF Made
    <2>2. /\ d.pc = "file" /\ d.secrets = s /\ d.keyring = k /\ d.name = c.name /\ d.device = c.device
      BY <2>0, <2>2a
    <2>3. c.name # "fetch" /\ (c.name = "revoke" => c.device \in Guests) /\ (c.name = "accept" => c.device \in Invited)
      BY DEF Turn, Holds, Named, Fetches
    <2>4. Holds(d)' BY <2>2, <2>3 DEF Holds, Named, Opening, Updating, Fetches
    <2>5. Places(d)' BY <1>2, <1>9, <2>1, <2>2 DEF Places, Fetches
    <2>6. QuietOk(d)' BY <2>2 DEF QuietOk, Updating
    <2>7. Turn(d)' BY <1>11, <1>14, <2>2, <2>4, <2>5, <2>6 DEF Turn
    <2> QED BY <2>0, <2>7
  <1> QED BY <1>15, <1>16
\* A keyring sealed again: for whom, and which secrets, is for the caller to say.
LEMMA SealedTurn ==
  ASSUME IsDirectory, CmdsOk, NEW p \in Processes, Turn(cmd[p]),
         cmd[p].pc \in {"change", "revoke", "retire"},
         NEW k, NEW s, s = k.pw.secrets, Update(p, k, s), UNCHANGED session,
         NEW gone, KeyringOk(k), k.gen = Cur.gen + 1,
         members' = members \ gone, DOMAIN k.sealed = DOMAIN Cur.sealed \ gone, dir.device \notin gone,
         Reads(s), Cur.epoch \in DOMAIN s.keys,
         s.keys[Cur.epoch] = Cur.pw.secrets.keys[Cur.epoch], OneKey => s = Generated(0)
  PROVE  Turn(cmd[p])'
  <1>1. Good(Cur) /\ Cur.gen = dir.pointer BY DEF Turn, FilesOk
  <1>2. k.gen = dir.pointer + 1 BY <1>1
  <1>3. members' \subseteq members /\ members' \subseteq DOMAIN k.sealed BY <1>1 DEF Good
  <1>4. DeviceOk => dir.device \in members' \cup {NoDevice} BY DEF DeviceOk
  <1>5. cmd[p].name # "accept" BY DEF Turn, Holds, Named
  <1>6. cmd[p].pc \in {"change", "revoke", "accept", "retire"} OBVIOUS
  <1> QED BY <1>2, <1>3, <1>4, <1>5, <1>6, UpdateTurn

LEMMA MakersTurn ==
  ASSUME CommonInv, ~session.overlap, NEW p \in Processes, Turn(cmd[p]),
         ChangePassword(p) \/ RevokeDevice(p) \/ RetireKeys(p)
  PROVE  Turn(cmd[p])'
  <1> DEFINE c == cmd[p]  s == Cur.pw.secrets
  <1>1. CmdsOk /\ IsDirectory /\ UNCHANGED session BY DEF CommonInv, ChangePassword, RevokeDevice, RetireKeys
  <1>2. c.pc \in {"change", "revoke", "retire"} /\ c.pc \in Opening /\ c.pc # "current"
    BY DEF ChangePassword, RevokeDevice, RetireKeys, At, Opening
  <1>3. c.secrets = s BY <1>2 DEF Turn, Holds
  <1>4. /\ KeyringOk(Cur) /\ SecretsOk(s) /\ Cur.epoch = s.epoch /\ (OneKey => s = Generated(0))
        /\ dir.device \notin Guests BY DEF Turn, FilesOk, Good, KeyringOk, DeviceOk
  <1>5. Reads(s) BY <1>2 DEF Turn, HeadOk
  <1>6. s.epoch \in DOMAIN s.keys BY <1>4 DEF SecretsOk
  <1>7. CASE ChangePassword(p)
    <2> DEFINE j == Sealed(Cur, s, c.pw)  k == [j EXCEPT !.epoch = Cur.epoch]
    <2>1. c.pc = "change" /\ Update(p, k, s) /\ members' = members BY <1>3, <1>7 DEF ChangePassword, At
    <2>2. /\ KeyringOk(j) /\ j.epoch = s.epoch /\ j.pw.secrets = s /\ DOMAIN j.sealed = DOMAIN Cur.sealed
          /\ j.gen = Cur.gen + 1
      BY <1>4, SealedOk
    <2> HIDE DEF j
    <2>3. k = j BY <1>4, <2>2 DEF KeyringOk
    <2> HIDE DEF k, s
    <2>4. s = k.pw.secrets /\ KeyringOk(k) /\ k.gen = Cur.gen + 1 /\ DOMAIN k.sealed = DOMAIN Cur.sealed \ {}
      BY <2>2, <2>3
    <2>5. members' = members \ {} /\ dir.device \notin {} BY <2>1
    <2>6. Cur.epoch \in DOMAIN s.keys /\ s.keys[Cur.epoch] = Cur.pw.secrets.keys[Cur.epoch] BY <1>4, <1>6 DEF s
    <2> QED BY <1>1, <1>2, <1>4, <1>5, <2>1, <2>4, <2>5, <2>6, SealedTurn
  <1>8. CASE RetireKeys(p)
    <2> DEFINE t == ActiveOnly(s)  k == Sealed(Cur, t, c.pw)
    <2>1. c.pc = "retire" /\ Update(p, k, t) /\ members' = members BY <1>3, <1>8 DEF RetireKeys, At
    <2>2. SecretsOk(t) /\ t.epoch = s.epoch /\ t.keys[s.epoch] = s.keys[s.epoch] BY <1>4, ActiveOnlyOk
    <2>3. OneKey => t = Generated(0) BY <1>4, FirstSecrets
    <2> HIDE DEF t
    <2>4. /\ KeyringOk(k) /\ k.pw.secrets = t /\ DOMAIN k.sealed = DOMAIN Cur.sealed /\ k.gen = Cur.gen + 1
      BY <1>4, <2>2, SealedOk
    <2> HIDE DEF k
    <2>5. DOMAIN k.sealed = DOMAIN Cur.sealed \ {} /\ members' = members \ {} /\ dir.device \notin {} BY <2>1, <2>4
    <2>6. t.epoch \in DOMAIN t.keys BY <2>2 DEF SecretsOk
    <2>7. Cur.epoch \in DOMAIN t.keys /\ t.keys[Cur.epoch] = Cur.pw.secrets.keys[Cur.epoch] BY <1>4, <2>2, <2>6
    <2>8. dir.head = Sealing(s) BY <2>1 DEF Turn, Holds
    <2>9. Reads(t) BY <1>4, <2>2, <2>6, <2>8 DEF Reads, Sealing
    <2> QED BY <1>1, <1>2, <2>1, <2>3, <2>4, <2>5, <2>7, <2>9, SealedTurn
  <1>9. CASE RevokeDevice(p)
    <2> DEFINE t == Rotated(s)  j == Sealed(Cur, t, c.pw)
               k == [j EXCEPT !.sealed = Restrict(@, DOMAIN @ \ {c.device})]
    <2>1. c.pc = "revoke" /\ Update(p, k, t) /\ members' = members \ {c.device} BY <1>3, <1>9 DEF RevokeDevice, At
    <2>2. SecretsOk(t) /\ \A e \in DOMAIN s.keys : e \in DOMAIN t.keys /\ t.keys[e] = s.keys[e] BY <1>4, RotatedOk
    <2> HIDE DEF t
    <2>3. /\ KeyringOk(j) /\ j.pw.secrets = t /\ DOMAIN j.sealed = DOMAIN Cur.sealed /\ j.gen = Cur.gen + 1
      BY <1>4, <2>2, SealedOk
    <2> HIDE DEF j
    <2> DEFINE x == Restrict(j.sealed, DOMAIN j.sealed \ {c.device})
    <2>4. DOMAIN x = DOMAIN j.sealed \ {c.device} /\ \A d \in DOMAIN x : x[d] = j.sealed[d] BY DEF Restrict
    <2>5. k = [gen |-> j.gen, epoch |-> j.epoch, pw |-> j.pw, sealed |-> x] BY <2>3 DEF KeyringOk
    <2> HIDE DEF x, k
    <2>6. k # NoKeyring
      <3>1. t.epoch # 0 BY <2>2 DEF SecretsOk
      <3> QED BY <2>3, <2>5, <3>1 DEF KeyringOk, NoKeyring
    <2>7. KeyringOk(k) BY <2>3, <2>4, <2>5, <2>6 DEF KeyringOk
    <2>8. t = k.pw.secrets /\ k.gen = Cur.gen + 1 /\ DOMAIN k.sealed = DOMAIN Cur.sealed \ {c.device} BY <2>3, <2>4, <2>5
    <2>9. c.device \in Guests /\ dir.device # NoDevice BY <2>1 DEF Turn, Holds, Named
    <2>10. dir.device \notin {c.device} /\ ~OneKey BY <1>4, <2>9 DEF OneKey
    <2>11. Reads(t) BY <1>5, <2>2 DEF Reads
    <2>12. Cur.epoch \in DOMAIN t.keys /\ t.keys[Cur.epoch] = Cur.pw.secrets.keys[Cur.epoch] BY <1>4, <1>6, <2>2
    <2> QED BY <1>1, <1>2, <2>1, <2>7, <2>8, <2>10, <2>11, <2>12, SealedTurn
  <1> QED BY <1>7, <1>8, <1>9

LEMMA AcceptTurn ==
  ASSUME CommonInv, NEW p \in Processes, Turn(cmd[p]), AcceptDevice(p)
  PROVE  Turn(cmd[p])'
  <1> DEFINE c == cmd[p]  s == Cur.pw.secrets  x == With(Cur.sealed, c.device, s)
             k == [Cur EXCEPT !.gen = @ + 1, !.sealed = With(@, c.device, s)]
  <1>1. CmdsOk /\ IsDirectory /\ UNCHANGED <<session, members>> /\ c.pc = "accept" BY DEF CommonInv, AcceptDevice, At
  <1>2. c.secrets = s BY <1>1 DEF Turn, Holds, Opening
  <1>3. Update(p, k, s) BY <1>2 DEF AcceptDevice
  <1>4. /\ KeyringOk(Cur) /\ SecretsOk(s) /\ Cur.epoch = s.epoch /\ (OneKey => s = Generated(0))
        /\ members \subseteq DOMAIN Cur.sealed /\ Cur.gen = dir.pointer
        /\ (DeviceOk => dir.device \in members \cup {NoDevice}) BY DEF Turn, FilesOk, Good, KeyringOk, DeviceOk
  <1>5. Reads(s) BY <1>1 DEF Turn, HeadOk
  <1>6. s.epoch \in DOMAIN s.keys BY <1>4 DEF SecretsOk
  <1>7. DOMAIN x = DOMAIN Cur.sealed \cup {c.device} /\ \A d \in DOMAIN x : x[d] = s BY <1>4 DEF With, KeyringOk
  <1>8. k = [gen |-> Cur.gen + 1, epoch |-> Cur.epoch, pw |-> Cur.pw, sealed |-> x]
    <2> DEFINE z == [Cur EXCEPT !.gen = @ + 1]
    <2>1. z = [gen |-> Cur.gen + 1, epoch |-> Cur.epoch, pw |-> Cur.pw, sealed |-> Cur.sealed] BY <1>4 DEF KeyringOk
    <2>2. k = [z EXCEPT !.sealed = x] BY <2>1
    <2> HIDE DEF z, x, k
    <2> QED BY <2>1, <2>2
  <1> HIDE DEF x, k
  <1>9. k # NoKeyring
    <2>1. s.epoch # 0 BY <1>4 DEF SecretsOk
    <2> QED BY <1>4, <1>8, <2>1 DEF NoKeyring
  <1>10. KeyringOk(k) BY <1>4, <1>7, <1>8, <1>9 DEF KeyringOk
  <1>11. /\ s = k.pw.secrets /\ k.gen = dir.pointer + 1 /\ members' \subseteq members
         /\ members' \subseteq DOMAIN k.sealed /\ c.device \in DOMAIN k.sealed
         /\ (DeviceOk => dir.device \in members' \cup {NoDevice})
    BY <1>1, <1>4, <1>7, <1>8
  <1>12. Cur.epoch \in DOMAIN s.keys /\ s.keys[Cur.epoch] = Cur.pw.secrets.keys[Cur.epoch] BY <1>4, <1>6
  <1>13. c.pc \in {"change", "revoke", "accept", "retire"} BY <1>1
  <1> HIDE DEF s
  <1> QED BY <1>1, <1>3, <1>4, <1>5, <1>10, <1>11, <1>12, <1>13, UpdateTurn
----------------------------------------------------------------------------
(* What is written of a keyring.                                           *)

LEMMA NewFile ==
  ASSUME FilesOk, NEW k, dir'.files = With(dir.files, dir.pointer + 1, k), dir'.pointer = dir.pointer,
         dir'.journal = dir.journal, dir'.device = dir.device, dir'.head = dir.head,
         dir'.bootstrap = dir.bootstrap, UNCHANGED <<members, session, known>>
  PROVE  /\ FilesOk' /\ Cur' = Cur /\ ~Newest' /\ dir'.files[dir.pointer + 1] = k
         /\ \A x : (Good(x) <=> Good(x)') /\ (Reads(x) <=> Reads(x)') /\ (Successor(x) <=> Successor(x)')
  <1>1. dir.pointer # dir.pointer + 1 /\ dir.pointer \in DOMAIN dir.files /\ DOMAIN dir.files \subseteq 1..dir.pointer + 1
        /\ dir.pointer + 1 \in 1..dir.pointer + 1
    BY DEF FilesOk
  <1>2. DOMAIN dir'.files = DOMAIN dir.files \cup {dir.pointer + 1} /\ dir'.files[dir.pointer + 1] = k
    BY DEF With
  <1>3. dir'.files[dir.pointer] = dir.files[dir.pointer]
    <2>1. dir.pointer \in DOMAIN dir.files \cup {dir.pointer + 1} BY <1>1
    <2> QED BY <1>1, <2>1 DEF With
  <1>4. Cur' = Cur BY <1>3 DEF Cur
  <1>5. ~Newest' BY <1>2 DEF Newest
  <1>6. \A x : (Good(x) <=> Good(x)') /\ (Reads(x) <=> Reads(x)') BY DEF Good, OneKey, Reads
  <1>7. \A x : Successor(x) <=> Successor(x)' BY <1>4, <1>6 DEF Successor
  <1>8. FilesOk'
    <2>1. DeviceOk' BY DEF FilesOk, DeviceOk
    <2>2. DOMAIN dir'.files \subseteq 1..dir'.pointer + 1 /\ dir'.pointer \in DOMAIN dir'.files BY <1>1, <1>2
    <2>3. Good(Cur)' BY <1>4, <1>6 DEF FilesOk
    <2> QED BY <1>4, <2>1, <2>2, <2>3 DEF FilesOk
  <1> QED BY <1>2, <1>4, <1>5, <1>6, <1>7, <1>8

LEMMA NewPointer ==
  ASSUME FilesOk, ~Newest, dir'.files = dir.files, dir'.pointer = dir.pointer + 1,
         dir'.journal = dir.journal, dir.journal \in {0, dir.pointer + 1},
         dir'.device = dir.device, dir'.head = dir.head, dir'.bootstrap = dir.bootstrap,
         UNCHANGED <<members, session>>, Good(dir.files[dir.pointer + 1]),
         dir.files[dir.pointer + 1].gen = dir.pointer + 1, dir.files[dir.pointer + 1].pw.by \in known'
  PROVE  FilesOk' /\ Cur' = dir.files[dir.pointer + 1] /\ Newest' /\ \A x : Reads(x) <=> Reads(x)'
  <1>1. Cur' = dir.files[dir.pointer + 1] BY DEF Cur
  <1>2. dir.pointer \in Nat /\ DOMAIN dir.files \subseteq 1..dir.pointer + 1 BY DEF FilesOk
  <1>3. dir'.pointer \in Nat \ {0} /\ DOMAIN dir'.files \subseteq 1..dir'.pointer + 1 BY <1>2
  <1>4. Newest'
    <2>1. dir'.pointer + 1 \notin 1..dir.pointer + 1 BY <1>2
    <2> QED BY <1>2, <2>1 DEF Newest
  <1>5. DeviceOk' BY DEF FilesOk, DeviceOk
  <1>6. Good(Cur)' BY <1>1 DEF Good, OneKey
  <1>7. \A x : Reads(x) <=> Reads(x)' BY DEF Reads
  <1>8. FilesOk' BY <1>1, <1>3, <1>5, <1>6 DEF FilesOk, Newest
  <1> QED BY <1>1, <1>4, <1>7, <1>8

LEMMA GenerationTurn ==
  ASSUME CommonInv, NEW p \in Processes, Turn(cmd[p]), WriteGeneration(p)
  PROVE  Turn(cmd[p])'
  <1> DEFINE c == cmd[p]
  <1>1. c.pc = "file" /\ To(p, "pointer") /\ UNCHANGED <<members, session, known>> /\ CmdsOk /\ IsDirectory
        /\ dir' = [dir EXCEPT !.lock = TRUE, !.files = With(@, c.keyring.gen, c.keyring)]
    BY DEF WriteGeneration, At, CommonInv
  <1>2. /\ Successor(c.keyring) /\ c.keyring.pw.by \in known /\ dir.journal = dir.pointer + 1
        /\ c.keyring.gen = dir.pointer + 1 /\ c.secrets = c.keyring.pw.secrets
    BY <1>1 DEF Turn, Places, Successor
  <1> DEFINE v == With(dir.files, c.keyring.gen, c.keyring)
  <1>3. dir' = [dir EXCEPT !.lock = TRUE, !.files = v]
    <2>1. [dir EXCEPT !.lock = TRUE].files = dir.files BY <1>1 DEF IsDirectory
    <2> QED BY <1>1, <2>1
  <1> HIDE DEF v
  <1>4. dir' = Directory(v, dir.pointer, dir.journal, TRUE, dir.device, dir.bootstrap, dir.head)
    BY <1>1, <1>3, DirWith
  <1>5. /\ dir'.files = With(dir.files, dir.pointer + 1, c.keyring) /\ dir'.pointer = dir.pointer
        /\ dir'.journal = dir.journal /\ dir'.device = dir.device /\ dir'.head = dir.head
        /\ dir'.bootstrap = dir.bootstrap /\ dir'.lock = TRUE BY <1>2, <1>4 DEF Directory, v
  <1>6. /\ FilesOk' /\ Cur' = Cur /\ ~Newest' /\ dir'.files[dir.pointer + 1] = c.keyring
        /\ \A x : (Reads(x) <=> Reads(x)') /\ (Successor(x) <=> Successor(x)')
    BY <1>1, <1>5, NewFile DEF Turn
  <1>7. PICK d : d = cmd'[p] OBVIOUS
  <1>8. d.pc = "pointer" /\ Same(d, c) BY <1>1, <1>7, Goes
  <1>9. Holds(d)' BY <1>1, <1>8 DEF Turn, Holds, Named, Same, Opening, Updating, Fetches
  <1>10. Places(d)' BY <1>2, <1>5, <1>6, <1>8 DEF Places, Same, Fetches
  <1>11. HeadOk(d)' BY <1>1, <1>6 DEF Turn, HeadOk
  <1>12. PendingOk(d)' BY <1>1, <1>2, <1>5, <1>6 DEF PendingOk
  <1>13. QuietOk(d)' BY <1>8 DEF QuietOk, Updating
  <1>14. Turn(d)' BY <1>6, <1>9, <1>10, <1>11, <1>12, <1>13 DEF Turn
  <1> QED BY <1>7, <1>14

\* The pointer, moved by the update or by the recovery of one that was cut off.
LEMMA PointerTurn ==
  ASSUME CommonInv, NEW p \in Processes, Turn(cmd[p]), WritePointer(p) \/ RecoverPointer(p)
  PROVE  Turn(cmd[p])'
  <1> DEFINE c == cmd[p]
  <1>1. UNCHANGED <<members, session, known>> /\ CmdsOk /\ IsDirectory
    BY DEF WritePointer, RecoverPointer, CommonInv
  <1>2. ASSUME NEW d, d = cmd'[p], ~Newest, dir' = [dir EXCEPT !.pointer = dir.pointer + 1],
               dir.journal = dir.pointer + 1, c.pc \in {"pointer", "recover"}
        PROVE  /\ FilesOk' /\ Cur' = dir.files[dir.pointer + 1] /\ Newest' /\ HeadOk(d)' /\ PendingOk(d)'
               /\ dir'.files = dir.files /\ dir'.pointer = dir.pointer + 1 /\ dir'.journal = dir.journal
               /\ dir'.lock = dir.lock /\ dir'.device = dir.device /\ Cur'.gen = dir.pointer + 1
    <2>1. Successor(dir.files[dir.pointer + 1]) /\ dir.files[dir.pointer + 1].pw.by \in known
      BY <1>2 DEF Turn, PendingOk
    <2>2. dir' = Directory(dir.files, dir.pointer + 1, dir.journal, dir.lock, dir.device, dir.bootstrap, dir.head)
      BY <1>1, <1>2, DirWith
    <2>3. /\ dir'.files = dir.files /\ dir'.pointer = dir.pointer + 1 /\ dir'.journal = dir.journal
          /\ dir'.device = dir.device /\ dir'.head = dir.head /\ dir'.lock = dir.lock
          /\ dir'.bootstrap = dir.bootstrap BY <2>2 DEF Directory
    <2>4. Good(dir.files[dir.pointer + 1]) /\ dir.files[dir.pointer + 1].gen = dir.pointer + 1
          /\ Reads(dir.files[dir.pointer + 1].pw.secrets) BY <2>1 DEF Successor
    <2>5. FilesOk' /\ Cur' = dir.files[dir.pointer + 1] /\ Newest' /\ \A x : Reads(x) <=> Reads(x)'
      BY <1>1, <1>2, <2>1, <2>3, <2>4, NewPointer DEF Turn
    <2> QED BY <2>3, <2>4, <2>5 DEF HeadOk, PendingOk
  <1>3. PICK d : d = cmd'[p] OBVIOUS
  <1>4. CASE WritePointer(p)
    <2>1. c.pc = "pointer" /\ To(p, "unlock") /\ dir' = [dir EXCEPT !.pointer = c.keyring.gen]
      BY <1>4 DEF WritePointer, At
    <2>2. /\ c.keyring.gen = dir.pointer + 1 /\ dir.journal = dir.pointer + 1 /\ ~Newest
          /\ c.keyring = dir.files[dir.pointer + 1] /\ c.secrets = c.keyring.pw.secrets BY <2>1 DEF Turn, Places
    <2>3. /\ FilesOk' /\ Cur' = dir.files[dir.pointer + 1] /\ Newest' /\ HeadOk(d)' /\ PendingOk(d)'
          /\ dir'.device = dir.device BY <1>2, <1>3, <2>1, <2>2
    <2>4. d.pc = "unlock" /\ Same(d, c) BY <1>1, <1>3, <2>1, Goes
    <2>5. Holds(d)' BY <2>1, <2>2, <2>3, <2>4 DEF Turn, Holds, Named, Same, Opening, Updating, Fetches
    <2>6. c.keyring # NoKeyring BY <2>2, <2>3 DEF FilesOk, Good, KeyringOk
    <2>7. Places(d)' BY <2>2, <2>3, <2>4, <2>6 DEF Places, Same, Fetches
    <2>8. QuietOk(d)' BY <2>4 DEF QuietOk, Updating
    <2>9. Turn(d)' BY <2>3, <2>5, <2>7, <2>8 DEF Turn
    <2> QED BY <1>3, <2>9
  <1>5. CASE RecoverPointer(p)
    <2>1. c.pc = "recover" /\ To(p, "recovered") /\ dir' = [dir EXCEPT !.pointer = c.gen]
      BY <1>5 DEF RecoverPointer, At
    <2>2. /\ c.gen \in DOMAIN dir.files /\ c.secrets = dir.files[c.gen].pw.secrets /\ c.then = "opened"
          /\ c.gen = dir.journal BY <2>1 DEF Turn, Places
    <2>3. d.pc = "recovered" /\ Same(d, c) /\ d.then = "opened" BY <1>1, <1>3, <2>1, <2>2, Goes
    <2>4. c.gen \in {dir.pointer, dir.pointer + 1}
      <3>1. c.gen # 0 BY <2>2 DEF Turn, FilesOk
      <3> QED BY <2>2, <3>1 DEF Turn, FilesOk
    <2>5. CASE c.gen = dir.pointer + 1
      <3>1. ~Newest BY <2>2, <2>5 DEF Newest
      <3>2. /\ FilesOk' /\ Cur' = dir.files[dir.pointer + 1] /\ Newest' /\ HeadOk(d)' /\ PendingOk(d)'
            /\ dir'.files = dir.files /\ dir'.pointer = dir.pointer + 1 /\ dir'.journal = dir.journal
            /\ dir'.lock = dir.lock /\ dir'.device = dir.device
        BY <1>2, <1>3, <2>1, <2>2, <2>5, <3>1
      <3>3. c.keyring = NoKeyring BY <2>1, <3>1 DEF Turn, Places
      <3>4. Holds(d)' BY <2>1, <2>3, <3>2, <3>3 DEF Turn, Holds, Named, Same, Opening, Updating, Fetches
      <3>5. Places(d)' BY <2>2, <2>3, <2>5, <3>2, <3>3 DEF Places, Same, Fetches
      <3>6. QuietOk(d)' BY <1>1, <2>1, <2>3, <3>2 DEF Turn, QuietOk, Updating
      <3>7. Turn(d)' BY <3>2, <3>4, <3>5, <3>6 DEF Turn
      <3> QED BY <1>3, <3>7
    <2>6. CASE c.gen = dir.pointer
      <3>1. dir' = dir
        <4>1. dir' = Directory(dir.files, dir.pointer, dir.journal, dir.lock, dir.device, dir.bootstrap, dir.head)
          BY <1>1, <2>1, <2>6, DirWith
        <4> QED BY <1>1, <4>1 DEF IsDirectory, Directory
      <3>2. Holds(d) BY <2>1, <2>3 DEF Turn, Holds, Named, Same, Opening, Updating, Fetches
      <3>3. Places(d) BY <2>1, <2>2, <2>3, <2>6 DEF Turn, Places, Same, Fetches
      <3>4. Turn(d)' BY <1>1, <2>1, <2>3, <3>1, <3>2, <3>3, SameDir DEF Updating
      <3> QED BY <1>3, <3>4
    <2> QED BY <2>4, <2>5, <2>6
  <1> QED BY <1>4, <1>5
\* The lock or the journal goes; the keyrings stay.
LEMMA Cleared ==
  ASSUME NEW c, NEW d, Turn(c), UNCHANGED <<members, session, known>>,
         dir'.files = dir.files, dir'.pointer = dir.pointer, dir'.device = dir.device,
         dir'.head = dir.head, dir'.bootstrap = dir.bootstrap, dir'.journal \in {dir.journal, 0},
         c.pc \notin Fetches, d.pc \notin Fetches, Holds(d), Places(d)', QuietOk(d)'
  PROVE  Turn(d)'
  <1>1. Cur' = Cur /\ Newest' = Newest BY DEF Cur, Newest
  <1>2. \A x : (Good(x) <=> Good(x)') /\ (Reads(x) <=> Reads(x)') BY DEF Good, OneKey, Reads
  <1>3. \A x : Successor(x) <=> Successor(x)' BY <1>1, <1>2 DEF Successor
  <1>4. FilesOk'
    <2>1. DeviceOk' BY DEF Turn, FilesOk, DeviceOk
    <2>2. Good(Cur)' BY <1>1, <1>2 DEF Turn, FilesOk
    <2> QED BY <1>1, <2>1, <2>2 DEF Turn, FilesOk
  <1>5. Holds(d)' BY <1>1 DEF Holds, Named, Sealing
  <1>6. HeadOk(d)' /\ PendingOk(d)' BY <1>1, <1>2, <1>3 DEF Turn, HeadOk, PendingOk, Fetches
  <1> QED BY <1>4, <1>5, <1>6 DEF Turn

LEMMA ReleaseTurn ==
  ASSUME CommonInv, NEW p \in Processes, Turn(cmd[p]), ReleaseLock(p) \/ DropJournal(p) \/ RemoveJournal(p)
  PROVE  Turn(cmd[p])'
  <1> DEFINE c == cmd[p]
  <1>1. UNCHANGED <<members, session, known>> /\ CmdsOk /\ IsDirectory
    BY DEF ReleaseLock, DropJournal, RemoveJournal, CommonInv
  <1>2. PICK d : d = cmd'[p] OBVIOUS
  <1>3. CASE ReleaseLock(p)
    <2>1. c.pc = "unlock" /\ To(p, "journal") /\ dir' = [dir EXCEPT !.lock = FALSE]
      BY <1>3 DEF ReleaseLock, At
    <2>2. d.pc = "journal" /\ Same(d, c) BY <1>1, <1>2, <2>1, Goes
    <2>3. dir' = Directory(dir.files, dir.pointer, dir.journal, FALSE, dir.device, dir.bootstrap, dir.head)
      BY <1>1, <2>1, DirWith
    <2>4. /\ dir'.files = dir.files /\ dir'.pointer = dir.pointer /\ dir'.device = dir.device
          /\ dir'.head = dir.head /\ dir'.bootstrap = dir.bootstrap /\ dir'.journal = dir.journal
          /\ ~dir'.lock BY <2>3 DEF Directory
    <2>5. Holds(d) BY <2>1, <2>2 DEF Turn, Holds, Named, Same, Opening, Updating, Fetches
    <2>6. Cur' = Cur /\ Newest' = Newest BY <2>4 DEF Cur, Newest
    <2>7. Places(d)' BY <2>1, <2>2, <2>4, <2>6 DEF Turn, Places, Same, Fetches
    <2>8. QuietOk(d)' BY <2>2 DEF QuietOk, Updating
    <2>9. Turn(d)' BY <1>1, <2>1, <2>2, <2>4, <2>5, <2>7, <2>8, Cleared DEF Fetches
    <2> QED BY <1>2, <2>9
  <1>4. ASSUME dir' = [dir EXCEPT !.journal = 0]
        PROVE  /\ dir'.files = dir.files /\ dir'.pointer = dir.pointer /\ dir'.device = dir.device
               /\ dir'.head = dir.head /\ dir'.bootstrap = dir.bootstrap /\ dir'.journal = 0
               /\ dir'.lock = dir.lock /\ Cur' = Cur /\ Newest' = Newest
    <2>1. dir' = Directory(dir.files, dir.pointer, 0, dir.lock, dir.device, dir.bootstrap, dir.head)
      BY <1>1, <1>4, DirWith
    <2> QED BY <2>1 DEF Directory, Cur, Newest
  <1>5. CASE DropJournal(p)
    <2>1. c.pc = "journal" /\ dir' = [dir EXCEPT !.journal = 0] BY <1>5 DEF DropJournal, At
    <2>2. \/ c.name = "accept" /\ To(p, "device")
          \/ c.name # "accept" /\ Run(p, [cmd[p] EXCEPT !.pc = "cache", !.then = "opened"])
      BY <1>5 DEF DropJournal
    <2>3. Same(d, c) /\ ((c.name = "accept" /\ d.pc = "device") \/ (d.pc = "cache" /\ d.then = "opened"))
      <3>1. CASE c.name = "accept" /\ To(p, "device")
        <4>1. d.pc = "device" /\ Same(d, c) BY <1>1, <1>2, <3>1, Goes
        <4> QED BY <3>1, <4>1
      <3>2. CASE Run(p, [cmd[p] EXCEPT !.pc = "cache", !.then = "opened"])
        <4>1. d.pc = "cache" /\ d.then = "opened" /\ Same(d, c) BY <1>1, <1>2, <3>2, GoesOn
        <4> QED BY <4>1
      <3> QED BY <2>2, <3>1, <3>2
    <2>4. Holds(d)
      BY <2>1, <2>3 DEF Turn, Holds, Named, Same, Opening, Updating, Fetches, Ready
    <2>5. Places(d)' BY <1>4, <2>1, <2>3 DEF Turn, Places, Same, Fetches
    <2>6. ~dir.lock BY <2>1 DEF Turn, Places
    <2>7. QuietOk(d)' BY <1>4, <2>1, <2>6 DEF QuietOk
    <2>8. Turn(d)' BY <1>1, <1>4, <2>1, <2>3, <2>4, <2>5, <2>7, Cleared DEF Fetches
    <2> QED BY <1>2, <2>8
  <1>6. CASE RemoveJournal(p)
    <2>1. c.pc = "recovered" /\ To(p, "cache") /\ dir' = [dir EXCEPT !.journal = 0]
      BY <1>6 DEF RemoveJournal, At
    <2>2. /\ c.gen = dir.pointer /\ c.secrets = dir.files[c.gen].pw.secrets /\ c.then = "opened"
      BY <2>1 DEF Turn, Places
    <2>3. Same(d, c) /\ d.pc = "cache" /\ d.then = "opened" BY <1>1, <1>2, <2>1, <2>2, Goes
    <2>4. Holds(d)
      BY <2>1, <2>2, <2>3 DEF Turn, Holds, Named, Same, Opening, Updating, Fetches, Ready, Cur
    <2>5. Places(d)' BY <1>4, <2>1, <2>3 DEF Turn, Places, Same, Fetches
    <2>6. QuietOk(d)' BY <1>1, <1>4, <2>1, <2>3 DEF Turn, QuietOk, Updating
    <2>8. Turn(d)' BY <1>1, <1>4, <2>1, <2>3, <2>4, <2>5, <2>6, Cleared DEF Fetches
    <2> QED BY <1>2, <2>8
  <1> QED BY <1>3, <1>5, <1>6

\* The credential of a device the keyring opens for.
LEMMA DeviceTurn ==
  ASSUME CommonInv, NEW p \in Processes, Turn(cmd[p]), WriteDevice(p)
  PROVE  Turn(cmd[p])'
  <1> DEFINE c == cmd[p]
  <1>1. c.pc = "device" /\ dir' = [dir EXCEPT !.device = c.device] /\ members' = members \cup {c.device}
        /\ Run(p, [c EXCEPT !.pc = "cache", !.then = "opened"]) /\ UNCHANGED <<session, known>>
        /\ CmdsOk /\ IsDirectory
    BY DEF WriteDevice, At, CommonInv
  <1>2. /\ c.name = "accept" /\ c.device \in Invited /\ c.secrets = Cur.pw.secrets /\ c.keyring # NoKeyring
        /\ c.keyring = Cur /\ Newest /\ c.device \in DOMAIN Cur.sealed
    BY <1>1 DEF Turn, Holds, Places, Opening
  <1>3. dir' = Directory(dir.files, dir.pointer, dir.journal, dir.lock, c.device, dir.bootstrap, dir.head)
    BY <1>1, DirWith
  <1>4. /\ dir'.files = dir.files /\ dir'.pointer = dir.pointer /\ dir'.device = c.device
        /\ dir'.head = dir.head /\ dir'.bootstrap = dir.bootstrap /\ dir'.journal = dir.journal
        /\ dir'.lock = dir.lock BY <1>3 DEF Directory
  <1>5. Cur' = Cur /\ Newest' BY <1>2, <1>4 DEF Cur, Newest
  <1>6. PICK d : d = cmd'[p] OBVIOUS
  <1>7. Same(d, c) /\ d.pc = "cache" /\ d.then = "opened" BY <1>1, <1>6, GoesOn
  <1>8. c.device # NoDevice /\ c.device \notin Guests BY <1>2, UnlockAssumption
  <1>9. DeviceOk' BY <1>1, <1>4, <1>8 DEF DeviceOk
  <1>10. Good(Cur)' BY <1>1, <1>2, <1>4, <1>5, <1>8 DEF Turn, FilesOk, Good, OneKey
  <1>11. FilesOk' BY <1>1, <1>4, <1>5, <1>9, <1>10 DEF Turn, FilesOk
  <1>12. Holds(d)' BY <1>1, <1>2, <1>5, <1>7 DEF Turn, Holds, Named, Same, Opening, Updating, Fetches, Ready
  <1>13. Places(d)' BY <1>1, <1>5, <1>7 DEF Turn, Places, Same, Fetches
  <1>14. HeadOk(d)' BY <1>1, <1>4, <1>5 DEF Turn, HeadOk, Reads
  <1>15. PendingOk(d)' BY <1>5 DEF PendingOk
  <1>16. QuietOk(d)' BY <1>1, <1>4, <1>7 DEF Turn, QuietOk, Updating
  <1>17. Turn(d)' BY <1>11, <1>12, <1>13, <1>14, <1>15, <1>16 DEF Turn
  <1> QED BY <1>6, <1>17

----------------------------------------------------------------------------
(* A fetch.                                                                *)

LEMMA FetchFilesTurn ==
  ASSUME CommonInv, NEW p \in Processes, Turn(cmd[p]), FetchKeyrings(p)
  PROVE  Turn(cmd[p])'
  <1> DEFINE c == cmd[p]  v == With(dir.files, c.keyring.gen, c.keyring)
  <1>1. c.pc = "keyrings" /\ To(p, "refs") /\ UNCHANGED <<members, session, known>> /\ CmdsOk /\ IsDirectory
        /\ dir' = [dir EXCEPT !.files = v]
    BY DEF FetchKeyrings, At, CommonInv
  <1> HIDE DEF v
  <1>2. /\ Good(c.keyring) /\ c.keyring.gen = dir.pointer + 1 /\ Reads(c.keyring.pw.secrets)
        /\ session.crashes = 0 /\ c.name = "fetch"
    BY <1>1 DEF Turn, Holds, Places, Fetches
  <1>3. dir' = Directory(v, dir.pointer, dir.journal, dir.lock, dir.device, dir.bootstrap, dir.head)
    BY <1>1, DirWith
  <1>4. /\ dir'.files = With(dir.files, dir.pointer + 1, c.keyring) /\ dir'.pointer = dir.pointer
        /\ dir'.journal = dir.journal /\ dir'.device = dir.device /\ dir'.head = dir.head
        /\ dir'.bootstrap = dir.bootstrap /\ dir'.lock = dir.lock BY <1>2, <1>3 DEF Directory, v
  <1>5. /\ FilesOk' /\ Cur' = Cur /\ ~Newest' /\ dir'.files[dir.pointer + 1] = c.keyring
        /\ \A x : (Good(x) <=> Good(x)') /\ (Reads(x) <=> Reads(x)')
    BY <1>1, <1>4, NewFile DEF Turn
  <1>6. PICK d : d = cmd'[p] OBVIOUS
  <1>7. d.pc = "refs" /\ Same(d, c) BY <1>1, <1>6, Goes
  <1>8. Holds(d)' BY <1>1, <1>2, <1>7 DEF Turn, Holds, Named, Same, Opening, Updating, Fetches
  <1>9. Places(d)' BY <1>1, <1>2, <1>4, <1>5, <1>7 DEF Places, Same, Fetches
  <1>10. HeadOk(d)' BY <1>1, <1>5 DEF Turn, HeadOk
  <1>11. PendingOk(d)' BY <1>7 DEF PendingOk
  <1>12. QuietOk(d)' BY <1>1, <1>4 DEF Turn, QuietOk, Updating
  <1>13. Turn(d)' BY <1>5, <1>8, <1>9, <1>10, <1>11, <1>12 DEF Turn
  <1> QED BY <1>6, <1>13

LEMMA FetchRefsTurn ==
  ASSUME CommonInv, NEW p \in Processes, Turn(cmd[p]), FetchRefs(p)
  PROVE  Turn(cmd[p])'
  <1> DEFINE c == cmd[p]
  <1>1. c.pc = "refs" /\ To(p, "current") /\ UNCHANGED <<members, session, known>> /\ CmdsOk /\ IsDirectory
        /\ dir' = [dir EXCEPT !.head = Sealing(c.keyring.pw.secrets)]
    BY DEF FetchRefs, At, CommonInv
  <1>2. /\ Good(c.keyring) /\ c.keyring.gen = dir.pointer + 1 /\ ~Newest
        /\ c.keyring = dir.files[dir.pointer + 1] /\ session.crashes = 0 /\ c.name = "fetch"
    BY <1>1 DEF Turn, Holds, Places, Fetches
  <1>3. dir' = Directory(dir.files, dir.pointer, dir.journal, dir.lock, dir.device, dir.bootstrap,
                         Sealing(c.keyring.pw.secrets))
    BY <1>1, DirWith
  <1>4. /\ dir'.files = dir.files /\ dir'.pointer = dir.pointer
        /\ dir'.journal = dir.journal /\ dir'.device = dir.device
        /\ dir'.head = Sealing(c.keyring.pw.secrets)
        /\ dir'.bootstrap = dir.bootstrap /\ dir'.lock = dir.lock BY <1>3 DEF Directory
  <1>5. Cur' = Cur /\ Newest' = Newest BY <1>4 DEF Cur, Newest
  <1>6. \A x : Good(x) <=> Good(x)' BY <1>1, <1>4 DEF Good, OneKey
  <1>7. FilesOk'
    <2>1. DeviceOk' BY <1>1, <1>4 DEF Turn, FilesOk, DeviceOk
    <2>2. Good(Cur)' BY <1>5, <1>6 DEF Turn, FilesOk
    <2> QED BY <1>1, <1>4, <1>5, <2>1, <2>2 DEF Turn, FilesOk
  <1>8. PICK d : d = cmd'[p] OBVIOUS
  <1>9. d.pc = "current" /\ Same(d, c) BY <1>1, <1>8, Goes
  <1>10. Holds(d)' BY <1>1, <1>2, <1>9 DEF Turn, Holds, Named, Same, Opening, Updating, Fetches
  <1>12. Places(d)'
    <2>1. dir'.head = Sealing(d.keyring.pw.secrets) BY <1>4, <1>9 DEF Same
    <2> QED BY <1>1, <1>2, <1>4, <1>5, <1>6, <1>9, <2>1 DEF Places, Same, Fetches, Sealing
  <1>13. HeadOk(d)' BY <1>9 DEF HeadOk
  <1>14. PendingOk(d)' BY <1>9 DEF PendingOk
  <1>15. QuietOk(d)' BY <1>1, <1>4 DEF Turn, QuietOk, Updating
  <1>16. Turn(d)' BY <1>7, <1>10, <1>12, <1>13, <1>14, <1>15 DEF Turn
  <1> QED BY <1>8, <1>16

LEMMA FetchPointerTurn ==
  ASSUME CommonInv, NEW p \in Processes, Turn(cmd[p]), FetchPointer(p)
  PROVE  Turn(cmd[p])'
  <1> DEFINE c == cmd[p]  k == c.keyring
  <1>1. c.pc = "current" /\ To(p, "clear") /\ UNCHANGED <<members, session>> /\ CmdsOk /\ IsDirectory
        /\ dir' = [dir EXCEPT !.pointer = k.gen] /\ known' = {k.pw.by}
    BY DEF FetchPointer, At, CommonInv
  <1>2. /\ Good(k) /\ k.gen = dir.pointer + 1 /\ ~Newest /\ k = dir.files[dir.pointer + 1]
        /\ session.crashes = 0 /\ c.name = "fetch" /\ dir.head = Sealing(k.pw.secrets)
    BY <1>1 DEF Turn, Holds, Places, Fetches
  <1>3. dir.journal = 0 /\ ~dir.lock BY <1>1, <1>2 DEF Turn, QuietOk, Updating
  <1>4. dir' = Directory(dir.files, dir.pointer + 1, dir.journal, dir.lock, dir.device, dir.bootstrap, dir.head)
    BY <1>1, <1>2, DirWith, Zenon
  <1>5. /\ dir'.files = dir.files /\ dir'.pointer = dir.pointer + 1
        /\ dir'.journal = dir.journal /\ dir'.device = dir.device /\ dir'.head = dir.head
        /\ dir'.bootstrap = dir.bootstrap /\ dir'.lock = dir.lock BY <1>4 DEF Directory
  <1>6. FilesOk' /\ Cur' = k /\ Newest' /\ \A x : Reads(x) <=> Reads(x)'
    BY <1>1, <1>2, <1>3, <1>5, NewPointer DEF Turn
  <1>7. PICK d : d = cmd'[p] OBVIOUS
  <1>8. d.pc = "clear" /\ Same(d, c) BY <1>1, <1>7, Goes
  <1>9. Holds(d)' BY <1>1, <1>2, <1>8 DEF Turn, Holds, Named, Same, Opening, Updating, Fetches
  <1>10. Places(d)' BY <1>1, <1>2, <1>6, <1>8 DEF Places, Same, Fetches
  <1>11. HeadOk(d)'
    <2> PICK s : s = k.pw.secrets OBVIOUS
    <2>1. SecretsOk(s) BY <1>2 DEF Good, KeyringOk
    <2>2. dir.head = [epoch |-> s.epoch, key |-> s.keys[s.epoch]] BY <1>2 DEF Sealing
    <2>3. Reads(s) BY <2>1, <2>2 DEF SecretsOk, Reads
    <2> QED BY <1>5, <1>6, <2>3 DEF HeadOk, Reads
  <1>12. PendingOk(d)' BY <1>6 DEF PendingOk
  <1>13. QuietOk(d)' BY <1>3, <1>5 DEF QuietOk
  <1>14. Turn(d)' BY <1>6, <1>9, <1>10, <1>11, <1>12, <1>13 DEF Turn
  <1> QED BY <1>7, <1>14
----------------------------------------------------------------------------
(* What every step keeps.                                                  *)

Steps(p) == \/ Starts(p) \/ UpdateStep(p) \/ FetchStep(p)
            \/ RecoverPointer(p) \/ RemoveJournal(p) \/ CacheSecrets(p) \/ Return(p)
            \/ Bootstrap(p) \/ ReadRef(p) \/ SealRef(p)
            \/ Crash(p)

LEMMA IsCmdWith ==
  ASSUME NEW c, IsCmd(c), NEW x
  PROVE  /\ IsCmd([c EXCEPT !.pc = x]) /\ IsCmd([c EXCEPT !.then = x]) /\ IsCmd([c EXCEPT !.pw = x])
         /\ IsCmd([c EXCEPT !.device = x]) /\ IsCmd([c EXCEPT !.gen = x]) /\ IsCmd([c EXCEPT !.secrets = x])
         /\ IsCmd([c EXCEPT !.keyring = x])
  <1>1. IsCmd([c EXCEPT !.pc = x])
    <2>1. [c EXCEPT !.pc = x] = [name |-> c.name, pc |-> x, then |-> c.then, pw |-> c.pw, device |-> c.device,
             gen |-> c.gen, secrets |-> c.secrets, keyring |-> c.keyring] BY DEF IsCmd
    <2> QED BY <2>1, RecordIsCmd
  <1>2. IsCmd([c EXCEPT !.then = x])
    <2>1. [c EXCEPT !.then = x] = [name |-> c.name, pc |-> c.pc, then |-> x, pw |-> c.pw, device |-> c.device,
             gen |-> c.gen, secrets |-> c.secrets, keyring |-> c.keyring] BY DEF IsCmd
    <2> QED BY <2>1, RecordIsCmd
  <1>3. IsCmd([c EXCEPT !.pw = x])
    <2>1. [c EXCEPT !.pw = x] = [name |-> c.name, pc |-> c.pc, then |-> c.then, pw |-> x, device |-> c.device,
             gen |-> c.gen, secrets |-> c.secrets, keyring |-> c.keyring] BY DEF IsCmd
    <2> QED BY <2>1, RecordIsCmd
  <1>4. IsCmd([c EXCEPT !.device = x])
    <2>1. [c EXCEPT !.device = x] = [name |-> c.name, pc |-> c.pc, then |-> c.then, pw |-> c.pw, device |-> x,
             gen |-> c.gen, secrets |-> c.secrets, keyring |-> c.keyring] BY DEF IsCmd
    <2> QED BY <2>1, RecordIsCmd
  <1>5. IsCmd([c EXCEPT !.gen = x])
    <2>1. [c EXCEPT !.gen = x] = [name |-> c.name, pc |-> c.pc, then |-> c.then, pw |-> c.pw, device |-> c.device,
             gen |-> x, secrets |-> c.secrets, keyring |-> c.keyring] BY DEF IsCmd
    <2> QED BY <2>1, RecordIsCmd
  <1>6. IsCmd([c EXCEPT !.secrets = x])
    <2>1. [c EXCEPT !.secrets = x] = [name |-> c.name, pc |-> c.pc, then |-> c.then, pw |-> c.pw,
             device |-> c.device, gen |-> c.gen, secrets |-> x, keyring |-> c.keyring] BY DEF IsCmd
    <2> QED BY <2>1, RecordIsCmd
  <1>7. IsCmd([c EXCEPT !.keyring = x])
    <2>1. [c EXCEPT !.keyring = x] = [name |-> c.name, pc |-> c.pc, then |-> c.then, pw |-> c.pw,
             device |-> c.device, gen |-> c.gen, secrets |-> c.secrets, keyring |-> x] BY DEF IsCmd
    <2> QED BY <2>1, RecordIsCmd
  <1> QED BY <1>1, <1>2, <1>3, <1>4, <1>5, <1>6, <1>7

LEMMA IsCmdWithTwo ==
  ASSUME NEW c, IsCmd(c), NEW x, NEW y, NEW z
  PROVE  /\ IsCmd([c EXCEPT !.then = x, !.secrets = y]) /\ IsCmd([c EXCEPT !.pw = x, !.secrets = y])
         /\ IsCmd([c EXCEPT !.then = x, !.gen = y, !.secrets = z])
         /\ IsCmd([c EXCEPT !.then = x, !.pw = y, !.secrets = z])
         /\ IsCmd([c EXCEPT !.pc = x, !.then = y, !.secrets = z])
  <1>1. IsCmd([c EXCEPT !.then = x, !.secrets = y])
    <2> DEFINE a == [c EXCEPT !.then = x]  b == [a EXCEPT !.secrets = y]
    <2>1. IsCmd(a) BY IsCmdWith
    <2> HIDE DEF a
    <2>2. IsCmd(b) BY <2>1, IsCmdWith
    <2> QED BY <2>2 DEF a
  <1>2. IsCmd([c EXCEPT !.pw = x, !.secrets = y])
    <2> DEFINE a == [c EXCEPT !.pw = x]  b == [a EXCEPT !.secrets = y]
    <2>1. IsCmd(a) BY IsCmdWith
    <2> HIDE DEF a
    <2>2. IsCmd(b) BY <2>1, IsCmdWith
    <2> QED BY <2>2 DEF a
  <1>3. IsCmd([c EXCEPT !.then = x, !.gen = y, !.secrets = z])
    <2> DEFINE a == [c EXCEPT !.then = x]  b == [a EXCEPT !.gen = y]  e == [b EXCEPT !.secrets = z]
    <2>1. IsCmd(a) BY IsCmdWith
    <2> HIDE DEF a
    <2>2. IsCmd(b) BY <2>1, IsCmdWith
    <2> HIDE DEF b
    <2>3. IsCmd(e) BY <2>2, IsCmdWith
    <2> QED BY <2>3 DEF a, b
  <1>4. IsCmd([c EXCEPT !.then = x, !.pw = y, !.secrets = z])
    <2> DEFINE a == [c EXCEPT !.then = x]  b == [a EXCEPT !.pw = y]  e == [b EXCEPT !.secrets = z]
    <2>1. IsCmd(a) BY IsCmdWith
    <2> HIDE DEF a
    <2>2. IsCmd(b) BY <2>1, IsCmdWith
    <2> HIDE DEF b
    <2>3. IsCmd(e) BY <2>2, IsCmdWith
    <2> QED BY <2>3 DEF a, b
  <1>5. IsCmd([c EXCEPT !.pc = x, !.then = y, !.secrets = z])
    <2> DEFINE a == [c EXCEPT !.pc = x]  b == [a EXCEPT !.then = y]  e == [b EXCEPT !.secrets = z]
    <2>1. IsCmd(a) BY IsCmdWith
    <2> HIDE DEF a
    <2>2. IsCmd(b) BY <2>1, IsCmdWith
    <2> HIDE DEF b
    <2>3. IsCmd(e) BY <2>2, IsCmdWith
    <2> QED BY <2>3 DEF a, b
  <1> QED BY <1>1, <1>2, <1>3, <1>4, <1>5
LEMMA StepsCmds ==
  ASSUME CmdsOk, NEW p \in Processes, Steps(p)
  PROVE  CmdsOk' /\ Moves(p)
  <1>1. ASSUME NEW d, IsCmd(d), Run(p, d) PROVE CmdsOk' /\ Moves(p) BY <1>1, Ran
  <1>2. ASSUME NEW x, To(p, x) PROVE CmdsOk' /\ Moves(p) BY <1>2, Goes
  <1>3. CASE UNCHANGED cmd BY <1>3 DEF CmdsOk, IsCmd, Moves
  <1>4. CASE Run(p, [cmd[p] EXCEPT !.pc = "cache", !.then = "opened"]) BY <1>4, GoesOn
  <1>5. IsCmd(NoCommand) BY CommandIs DEF NoCommand
  <1>6. CASE Run(p, NoCommand) BY <1>1, <1>5, <1>6
  <1>7. \A n, x : IsCmd(Doing(n, x)) BY CommandIs
  <1>8. ASSUME NEW c, IsCmd(c), OpenSecrets(p, c) PROVE CmdsOk' /\ Moves(p)
    <2>1. IsCmd([c EXCEPT !.secrets = cache[p].secrets])
          /\ IsCmd([c EXCEPT !.pc = "cache", !.then = c.pc, !.secrets = DeviceSecrets])
      BY <1>8, IsCmdWith, IsCmdWithTwo, Zenon
    <2>2. \/ UNCHANGED cmd
          \/ Run(p, [c EXCEPT !.secrets = cache[p].secrets])
          \/ Run(p, [c EXCEPT !.pc = "cache", !.then = c.pc, !.secrets = DeviceSecrets])
      BY <1>8 DEF OpenSecrets
    <2> QED BY <1>1, <1>3, <2>1, <2>2
  <1>9. ASSUME NEW k, NEW s, Update(p, k, s) PROVE CmdsOk' /\ Moves(p)
    <2>1. Run(p, NoCommand) \/ Run(p, Making(cmd[p], s, k)) BY <1>9 DEF Update, Making
    <2>2. CASE Run(p, Making(cmd[p], s, k)) BY <2>2, Makes DEF Made
    <2> QED BY <1>6, <2>1, <2>2
  <1>10. CASE Starts(p)
    <2>1. ASSUME NEW w, UnlockRepository(p, w) PROVE CmdsOk' /\ Moves(p)
      <3> DEFINE d == [Doing("unlock", "cache") EXCEPT !.then = "opened", !.secrets = Cur.pw.secrets]
                 e == [Doing("unlock", "recover") EXCEPT !.then = "opened", !.gen = dir.journal,
                         !.secrets = dir.files[dir.journal].pw.secrets]
      <3>1. Run(p, d) \/ Run(p, e) BY <2>1 DEF UnlockRepository
      <3>2. IsCmd(d) BY <1>7, IsCmdWithTwo, Zenon
      <3>3. IsCmd(e) BY <1>7, IsCmdWithTwo, Zenon
      <3> HIDE DEF d, e
      <3> QED BY <1>1, <3>1, <3>2, <3>3
    <2>2. CASE StartBootstrap(p) BY <1>1, <1>7, <2>2, IsCmdWithTwo, Zenon DEF StartBootstrap
    <2>3. CASE StartCommit(p) BY <1>7, <1>8, <2>3 DEF StartCommit
    <2>4. CASE StartChange(p) BY <1>1, <1>7, <2>4, IsCmdWithTwo, Zenon DEF StartChange
    <2>5. CASE StartRetire(p)
      <3> DEFINE d == [Doing("retire", "cache") EXCEPT !.then = "reseal", !.pw = Cur.pw.by,
                                                         !.secrets = Cur.pw.secrets]
      <3>1. Run(p, d) BY <2>5 DEF StartRetire
      <3>2. IsCmd(d) BY <1>7, IsCmdWithTwo, Zenon
      <3> HIDE DEF d
      <3> QED BY <1>1, <3>1, <3>2
    <2>6. CASE StartFetch(p) BY <1>1, <1>7, <2>6, IsCmdWith DEF StartFetch
    <2>7. ASSUME NEW e, StartRevoke(p, e) PROVE CmdsOk' /\ Moves(p)
      <3>1. PICK w : OpenSecrets(p, [Doing("revoke", "revoke") EXCEPT !.device = e, !.pw = w])
        BY <2>7 DEF StartRevoke
      <3> DEFINE c == [Doing("revoke", "revoke") EXCEPT !.device = e, !.pw = w]
      <3>2. OpenSecrets(p, c) /\ IsCmd(c) BY <3>1, CommandIs
      <3> HIDE DEF c
      <3> QED BY <1>8, <3>2
    <2>8. ASSUME NEW e, StartAccept(p, e) PROVE CmdsOk' /\ Moves(p)
      <3>1. OpenSecrets(p, [Doing("accept", "accept") EXCEPT !.device = e]) BY <2>8 DEF StartAccept
      <3> QED BY <1>8, <3>1, CommandIs
    <2> QED BY <1>10, <2>1, <2>2, <2>3, <2>4, <2>5, <2>6, <2>7, <2>8 DEF Starts
  <1>11. CASE UpdateStep(p)
    <2>1. CASE ChangePassword(p) BY <1>9, <2>1 DEF ChangePassword
    <2>2. CASE RevokeDevice(p)
      <3>1. \E k, s : Update(p, k, s) BY <2>2 DEF RevokeDevice
      <3> QED BY <1>9, <3>1
    <2>3. CASE AcceptDevice(p) BY <1>9, <2>3 DEF AcceptDevice
    <2>4. CASE RetireKeys(p)
      <3>1. \E k, s : Update(p, k, s) BY <2>4 DEF RetireKeys
      <3> QED BY <1>9, <3>1
    <2>5. CASE ResealRefs(p) BY <1>2, <1>6, <2>5 DEF ResealRefs
    <2>6. CASE WriteGeneration(p) \/ WritePointer(p) \/ ReleaseLock(p)
      BY <1>2, <2>6 DEF WriteGeneration, WritePointer, ReleaseLock
    <2>7. CASE DropJournal(p) \/ WriteDevice(p) BY <1>2, <1>4, <2>7 DEF DropJournal, WriteDevice
    <2> QED BY <1>11, <2>1, <2>2, <2>3, <2>4, <2>5, <2>6, <2>7 DEF UpdateStep
  <1>12. CASE FetchStep(p)
    BY <1>2, <1>6, <1>12 DEF FetchStep, FetchKeyrings, FetchRefs, FetchPointer, FetchDone
  <1>13. CASE RecoverPointer(p) \/ RemoveJournal(p) \/ CacheSecrets(p) \/ SealRef(p)
    BY <1>2, <1>13 DEF RecoverPointer, RemoveJournal, CacheSecrets, SealRef
  <1>14. CASE Return(p) \/ Crash(p) \/ Bootstrap(p) BY <1>4, <1>6, <1>14 DEF Return, Crash, Bootstrap
  <1>15. CASE ReadRef(p) BY <1>2, <1>6, <1>15 DEF ReadRef
  <1> QED BY <1>10, <1>11, <1>12, <1>13, <1>14, <1>15 DEF Steps

\* The files: one of them is written, or none.
DirOk == IsDirectory /\ dir.files = [g \in DOMAIN dir.files |-> dir.files[g]]

LEMMA DirIs ==
  ASSUME NEW f, NEW v, NEW j, NEW l, NEW d, NEW b, NEW h, dir' = Directory(f, v, j, l, d, b, h),
         f = [g \in DOMAIN f |-> f[g]]
  PROVE  DirOk'
  <1>1. /\ dir'.files = f /\ dir'.pointer = v /\ dir'.journal = j /\ dir'.lock = l /\ dir'.device = d
        /\ dir'.bootstrap = b /\ dir'.head = h BY DEF Directory
  <1>2. IsDirectory' BY <1>1 DEF IsDirectory, Directory
  <1>3. dir'.files = [g \in DOMAIN dir'.files |-> dir'.files[g]] BY <1>1
  <1> QED BY <1>2, <1>3 DEF DirOk

LEMMA DirWritten ==
  ASSUME DirOk, NEW v, \/ dir' = [dir EXCEPT !.pointer = v] \/ dir' = [dir EXCEPT !.journal = v]
                       \/ dir' = [dir EXCEPT !.lock = v] \/ dir' = [dir EXCEPT !.device = v]
                       \/ dir' = [dir EXCEPT !.bootstrap = v] \/ dir' = [dir EXCEPT !.head = v]
  PROVE  DirOk'
  <1>0. IsDirectory /\ dir.files = [g \in DOMAIN dir.files |-> dir.files[g]] BY DEF DirOk
  <1>1. CASE dir' = [dir EXCEPT !.pointer = v]
    <2>1. dir' = Directory(dir.files, v, dir.journal, dir.lock, dir.device, dir.bootstrap, dir.head) BY <1>0, <1>1, DirWith
    <2> QED BY <1>0, <2>1, DirIs
  <1>2. CASE dir' = [dir EXCEPT !.journal = v]
    <2>1. dir' = Directory(dir.files, dir.pointer, v, dir.lock, dir.device, dir.bootstrap, dir.head) BY <1>0, <1>2, DirWith
    <2> QED BY <1>0, <2>1, DirIs
  <1>3. CASE dir' = [dir EXCEPT !.lock = v]
    <2>1. dir' = Directory(dir.files, dir.pointer, dir.journal, v, dir.device, dir.bootstrap, dir.head) BY <1>0, <1>3, DirWith
    <2> QED BY <1>0, <2>1, DirIs
  <1>4. CASE dir' = [dir EXCEPT !.device = v]
    <2>1. dir' = Directory(dir.files, dir.pointer, dir.journal, dir.lock, v, dir.bootstrap, dir.head) BY <1>0, <1>4, DirWith
    <2> QED BY <1>0, <2>1, DirIs
  <1>5. CASE dir' = [dir EXCEPT !.bootstrap = v]
    <2>1. dir' = Directory(dir.files, dir.pointer, dir.journal, dir.lock, dir.device, v, dir.head) BY <1>0, <1>5, DirWith
    <2> QED BY <1>0, <2>1, DirIs
  <1>6. CASE dir' = [dir EXCEPT !.head = v]
    <2>1. dir' = Directory(dir.files, dir.pointer, dir.journal, dir.lock, dir.device, dir.bootstrap, v) BY <1>0, <1>6, DirWith
    <2> QED BY <1>0, <2>1, DirIs
  <1> QED BY <1>1, <1>2, <1>3, <1>4, <1>5, <1>6

LEMMA KeyringWritten ==
  ASSUME DirOk, NEW g, NEW k, \/ dir' = [dir EXCEPT !.files = With(dir.files, g, k)]
                              \/ dir' = [dir EXCEPT !.lock = TRUE, !.files = With(dir.files, g, k)]
  PROVE  DirOk'
  <1> DEFINE v == With(dir.files, g, k)
  <1>1. v = [x \in DOMAIN v |-> v[x]] BY DEF With
  <1>2. IsDirectory BY DEF DirOk
  <1>3. dir' = [dir EXCEPT !.files = v] \/ dir' = [dir EXCEPT !.lock = TRUE, !.files = v] OBVIOUS
  <1> HIDE DEF v
  <1>4. CASE dir' = [dir EXCEPT !.files = v]
    <2>1. dir' = Directory(v, dir.pointer, dir.journal, dir.lock, dir.device, dir.bootstrap, dir.head) BY <1>2, <1>4, DirWith
    <2> QED BY <1>1, <2>1, DirIs
  <1>5. CASE dir' = [dir EXCEPT !.lock = TRUE, !.files = v]
    <2>1. dir' = Directory(v, dir.pointer, dir.journal, TRUE, dir.device, dir.bootstrap, dir.head) BY <1>2, <1>5, DirWith
    <2> QED BY <1>1, <2>1, DirIs
  <1> QED BY <1>3, <1>4, <1>5

LEMMA StepsDir ==
  ASSUME DirOk, NEW p \in Processes, Steps(p)
  PROVE  DirOk'
  <1>1. CASE UNCHANGED dir BY <1>1 DEF DirOk, IsDirectory
  <1>2. CASE Starts(p)
    BY <1>1, <1>2 DEF Starts, UnlockRepository, StartBootstrap, StartCommit, StartChange, StartRetire, StartFetch,
                      StartRevoke, StartAccept
  <1>3. CASE UpdateStep(p)
    <2>1. CASE ChangePassword(p) \/ RevokeDevice(p) \/ AcceptDevice(p) \/ RetireKeys(p)
      <3>1. \E j : dir' = [dir EXCEPT !.journal = j]
        BY <2>1 DEF ChangePassword, RevokeDevice, AcceptDevice, RetireKeys, Update
      <3> QED BY <3>1, DirWritten
    <2>2. CASE ResealRefs(p)
      <3>1. UNCHANGED dir \/ \E h : dir' = [dir EXCEPT !.head = h] BY <2>2 DEF ResealRefs
      <3> QED BY <1>1, <3>1, DirWritten
    <2>3. CASE WriteGeneration(p)
      <3>1. [dir EXCEPT !.lock = TRUE].files = dir.files BY DEF DirOk, IsDirectory
      <3> DEFINE g == cmd[p].keyring.gen  k == cmd[p].keyring
      <3>2. dir' = [dir EXCEPT !.lock = TRUE, !.files = With(dir.files, g, k)]
        BY <2>3, <3>1 DEF WriteGeneration
      <3> HIDE DEF g, k
      <3> QED BY <3>2, KeyringWritten
    <2>4. CASE WritePointer(p)
      <3>1. \E x : dir' = [dir EXCEPT !.pointer = x] BY <2>4 DEF WritePointer
      <3> QED BY <3>1, DirWritten
    <2>5. CASE ReleaseLock(p)
      <3>1. \E x : dir' = [dir EXCEPT !.lock = x] BY <2>5 DEF ReleaseLock
      <3> QED BY <3>1, DirWritten
    <2>6. CASE DropJournal(p)
      <3>1. \E x : dir' = [dir EXCEPT !.journal = x] BY <2>6 DEF DropJournal
      <3> QED BY <3>1, DirWritten
    <2>7. CASE WriteDevice(p)
      <3>1. \E x : dir' = [dir EXCEPT !.device = x] BY <2>7 DEF WriteDevice
      <3> QED BY <3>1, DirWritten
    <2> QED BY <1>3, <2>1, <2>2, <2>3, <2>4, <2>5, <2>6, <2>7 DEF UpdateStep
  <1>4. CASE FetchStep(p)
    <2>1. CASE FetchKeyrings(p)
      <3> DEFINE g == cmd[p].keyring.gen  k == cmd[p].keyring
      <3>1. dir' = [dir EXCEPT !.files = With(dir.files, g, k)] BY <2>1 DEF FetchKeyrings
      <3> HIDE DEF g, k
      <3> QED BY <3>1, KeyringWritten
    <2>2. CASE FetchRefs(p)
      <3>1. \E x : dir' = [dir EXCEPT !.head = x] BY <2>2 DEF FetchRefs
      <3> QED BY <3>1, DirWritten
    <2>3. CASE FetchPointer(p)
      <3>1. \E x : dir' = [dir EXCEPT !.pointer = x] BY <2>3 DEF FetchPointer
      <3> QED BY <3>1, DirWritten
    <2>4. CASE FetchDone(p) BY <1>1, <2>4 DEF FetchDone
    <2> QED BY <1>4, <2>1, <2>2, <2>3, <2>4 DEF FetchStep
  <1>5. CASE RecoverPointer(p)
    <2>1. \E x : dir' = [dir EXCEPT !.pointer = x] BY <1>5 DEF RecoverPointer
    <2> QED BY <2>1, DirWritten
  <1>6. CASE RemoveJournal(p)
    <2>1. \E x : dir' = [dir EXCEPT !.journal = x] BY <1>6 DEF RemoveJournal
    <2> QED BY <2>1, DirWritten
  <1>7. CASE Bootstrap(p)
    <2>1. \E x : dir' = [dir EXCEPT !.bootstrap = x] BY <1>7 DEF Bootstrap
    <2> QED BY <2>1, DirWritten
  <1>8. CASE SealRef(p)
    <2>1. \E x : dir' = [dir EXCEPT !.head = x] BY <1>8 DEF SealRef
    <2> QED BY <2>1, DirWritten
  <1>9. CASE CacheSecrets(p) \/ Return(p) \/ ReadRef(p) \/ Crash(p)
    BY <1>1, <1>9 DEF CacheSecrets, Return, ReadRef, Crash
  <1> QED BY <1>2, <1>3, <1>4, <1>5, <1>6, <1>7, <1>8, <1>9 DEF Steps
CountOk ==
  /\ count = [updates |-> count.updates, fetches |-> count.fetches, crashes |-> count.crashes, cloned |-> count.cloned]
  /\ count.updates \in Nat /\ count.fetches \in Nat /\ count.crashes \in Nat

LEMMA StepsCount ==
  ASSUME CountOk, NEW p \in Processes, Steps(p)
  PROVE  CountOk' /\ UNCHANGED session
  <1>1. \/ UNCHANGED count \/ count' = [count EXCEPT !.updates = @ + 1] \/ count' = [count EXCEPT !.fetches = @ + 1]
        \/ count' = [count EXCEPT !.crashes = @ + 1] \/ count' = [count EXCEPT !.cloned = TRUE]
    <2>1. CASE Starts(p)
      BY <2>1 DEF Starts, UnlockRepository, StartBootstrap, StartCommit, StartChange, StartRetire, StartFetch,
                  StartRevoke, StartAccept
    <2>2. CASE UpdateStep(p)
      BY <2>2 DEF UpdateStep, ChangePassword, RevokeDevice, AcceptDevice, ResealRefs, RetireKeys,
                  WriteGeneration, WritePointer, ReleaseLock, DropJournal, WriteDevice
    <2>3. CASE FetchStep(p) BY <2>3 DEF FetchStep, FetchKeyrings, FetchRefs, FetchPointer, FetchDone
    <2>4. CASE ~(Starts(p) \/ UpdateStep(p) \/ FetchStep(p))
      BY <2>4 DEF Steps, RecoverPointer, RemoveJournal, CacheSecrets, Return, Bootstrap, ReadRef, SealRef, Crash
    <2> QED BY <2>1, <2>2, <2>3, <2>4
  <1>2. UNCHANGED session
    <2>1. CASE Starts(p)
      BY <2>1 DEF Starts, UnlockRepository, StartBootstrap, StartCommit, StartChange, StartRetire, StartFetch,
                  StartRevoke, StartAccept
    <2>2. CASE UpdateStep(p)
      BY <2>2 DEF UpdateStep, ChangePassword, RevokeDevice, AcceptDevice, ResealRefs, RetireKeys,
                  WriteGeneration, WritePointer, ReleaseLock, DropJournal, WriteDevice
    <2>3. CASE FetchStep(p) BY <2>3 DEF FetchStep, FetchKeyrings, FetchRefs, FetchPointer, FetchDone
    <2>4. CASE ~(Starts(p) \/ UpdateStep(p) \/ FetchStep(p))
      BY <2>4 DEF Steps, RecoverPointer, RemoveJournal, CacheSecrets, Return, Bootstrap, ReadRef, SealRef, Crash
    <2> QED BY <2>1, <2>2, <2>3, <2>4
  <1>3. CountOk'
    <2>1. CASE UNCHANGED count BY <2>1 DEF CountOk
    <2>2. CASE count' = [count EXCEPT !.updates = @ + 1] BY <2>2 DEF CountOk
    <2>3. CASE count' = [count EXCEPT !.fetches = @ + 1] BY <2>3 DEF CountOk
    <2>4. CASE count' = [count EXCEPT !.crashes = @ + 1] BY <2>4 DEF CountOk
    <2>5. CASE count' = [count EXCEPT !.cloned = TRUE] BY <2>5 DEF CountOk
    <2> QED BY <1>1, <2>1, <2>2, <2>3, <2>4, <2>5
  <1> QED BY <1>2, <1>3

\* A process keeps what the current keyring holds, or nothing.
Kept(p, x) == cache' = [cache EXCEPT ![p] = x]

LEMMA StepsCache ==
  ASSUME cache = [p \in Processes |-> cache[p]], CachesOk, NEW p \in Processes, Steps(p),
         CacheSecrets(p) => cmd[p].secrets = Cur.pw.secrets
  PROVE  cache' = [q \in Processes |-> cache'[q]] /\ CachesOk'
  <1>1. \/ UNCHANGED cache \/ Kept(p, NoCache) \/ Kept(p, cache[p])
        \/ Kept(p, [secrets |-> Cur.pw.secrets, seen |-> Material])
    <2>1. CASE Starts(p)
      <3>1. ASSUME NEW c, OpenSecrets(p, c) PROVE UNCHANGED cache \/ Kept(p, NoCache)
        BY <3>1 DEF OpenSecrets, Kept
      <3>2. UNCHANGED cache \/ \E c : OpenSecrets(p, c)
        BY <2>1, Zenon DEF Starts, UnlockRepository, StartBootstrap, StartCommit, StartChange, StartRetire, StartFetch,
                    StartRevoke, StartAccept
      <3> QED BY <3>1, <3>2
    <2>2. CASE UpdateStep(p)
      BY <2>2 DEF UpdateStep, ChangePassword, RevokeDevice, AcceptDevice, ResealRefs, RetireKeys,
                  WriteGeneration, WritePointer, ReleaseLock, DropJournal, WriteDevice
    <2>3. CASE FetchStep(p) BY <2>3 DEF FetchStep, FetchKeyrings, FetchRefs, FetchPointer, FetchDone, Kept
    <2>4. CASE CacheSecrets(p)
      <3>1. cache' = [cache EXCEPT ![p] = [secrets |-> Cur.pw.secrets, seen |-> Material]] BY <2>4 DEF CacheSecrets
      <3> QED BY <3>1 DEF Kept
    <2>5. CASE ReadRef(p)
      <3>1. cache' = [cache EXCEPT ![p] = IF Fresh(p) THEN cache[p] ELSE NoCache] BY <2>5 DEF ReadRef
      <3>2. CASE Fresh(p) BY <3>1, <3>2 DEF Kept
      <3>3. CASE ~Fresh(p) BY <3>1, <3>3 DEF Kept
      <3> QED BY <3>2, <3>3
    <2>6. CASE RecoverPointer(p) \/ RemoveJournal(p) \/ Return(p) \/ Bootstrap(p) \/ SealRef(p) \/ Crash(p)
      BY <2>6 DEF RecoverPointer, RemoveJournal, Return, Bootstrap, SealRef, Crash, Kept
    <2> QED BY <2>1, <2>2, <2>3, <2>4, <2>5, <2>6 DEF Steps
  <1>2. CASE UNCHANGED cache BY <1>2 DEF CachesOk
  <1>3. ASSUME NEW x, Kept(p, x), x # NoCache => x.secrets = x.seen[2].pw.secrets
        PROVE  cache' = [q \in Processes |-> cache'[q]] /\ CachesOk'
    <2>1. cache' = [q \in Processes |-> IF q = p THEN x ELSE cache[q]] BY <1>3 DEF Kept
    <2>2. cache' = [q \in Processes |-> cache'[q]] BY <2>1
    <2>3. \A q \in Processes : cache'[q] # NoCache => cache'[q].secrets = cache'[q].seen[2].pw.secrets
      BY <1>3, <2>1 DEF CachesOk
    <2>4. CachesOk' BY <2>3 DEF CachesOk, NoCache, NoSecrets
    <2> QED BY <2>2, <2>4
  <1>4. CASE Kept(p, [secrets |-> Cur.pw.secrets, seen |-> Material])
    <2>1. Material[2] = Cur BY DEF Material
    <2> DEFINE x == [secrets |-> Cur.pw.secrets, seen |-> Material]
    <2>2. x.secrets = x.seen[2].pw.secrets BY <2>1
    <2>3. Kept(p, x) BY <1>4
    <2> HIDE DEF x
    <2> QED BY <1>3, <2>2, <2>3
  <1>5. CASE Kept(p, NoCache) BY <1>3, <1>5
  <1>6. CASE Kept(p, cache[p])
    <2>1. cache[p] # NoCache => cache[p].secrets = cache[p].seen[2].pw.secrets BY DEF CachesOk
    <2> QED BY <1>3, <1>6, <2>1
  <1> QED BY <1>1, <1>2, <1>4, <1>5, <1>6

LEMMA StepsCommon ==
  ASSUME CommonInv, CachesOk, NEW p \in Processes, Steps(p),
         CacheSecrets(p) => cmd[p].secrets = Cur.pw.secrets
  PROVE  CommonInv' /\ CachesOk' /\ UNCHANGED session /\ Moves(p)
  <1>1. CmdsOk' /\ Moves(p) BY StepsCmds DEF CommonInv
  <1>2. DirOk' BY StepsDir DEF CommonInv, DirOk
  <1>3. CountOk' /\ UNCHANGED session BY StepsCount DEF CommonInv, CountOk
  <1>4. cache' = [q \in Processes |-> cache'[q]] /\ CachesOk' BY StepsCache DEF CommonInv
  <1>5. CommonInv' BY <1>1, <1>2, <1>3, <1>4 DEF CommonInv, DirOk, CountOk
  <1> QED BY <1>1, <1>3, <1>4, <1>5
----------------------------------------------------------------------------
(* Commands in turn: every step.                                           *)

LEMMA OnlyStarts ==
  ASSUME NEW p \in Processes, Steps(p), cmd[p] = NoCommand
  PROVE  Starts(p)
  <1>1. cmd[p].pc = "idle" BY DEF NoCommand, Doing
  <1>2. ~UpdateStep(p)
    BY <1>1 DEF UpdateStep, ChangePassword, RevokeDevice, AcceptDevice, ResealRefs, RetireKeys,
                WriteGeneration, WritePointer, ReleaseLock, DropJournal, WriteDevice, At
  <1>3. ~FetchStep(p) BY <1>1 DEF FetchStep, FetchKeyrings, FetchRefs, FetchPointer, FetchDone, At
  <1>4. ~(RecoverPointer(p) \/ RemoveJournal(p) \/ CacheSecrets(p) \/ Return(p) \/ Bootstrap(p) \/ ReadRef(p)
          \/ SealRef(p) \/ Crash(p))
    BY <1>1 DEF RecoverPointer, RemoveJournal, CacheSecrets, Return, Bootstrap, ReadRef, SealRef, Crash, At
  <1> QED BY <1>2, <1>3, <1>4 DEF Steps

LEMMA StartsWhenIdle ==
  ASSUME ~session.overlap, NEW p \in Processes, Starts(p)
  PROVE  \A q \in Processes : cmd[q] = NoCommand
  BY Zenon DEF Starts, UnlockRepository, StartBootstrap, StartCommit, StartChange, StartRetire, StartFetch,
         StartRevoke, StartAccept, May

LEMMA ActorTurn ==
  ASSUME TakeTurns, CommonInv, CachesOk, ~session.overlap, NEW p \in Processes, Turn(cmd[p]), Steps(p)
  PROVE  Turn(cmd[p])'
  <1>0. CmdsOk BY DEF CommonInv
  <1>1. CASE Starts(p)
    <2>1. CASE \E w \in Passwords : UnlockRepository(p, w) BY <1>0, <2>1, UnlockTurn
    <2>2. CASE StartFetch(p) BY <2>2, StartFetchTurn
    <2>3. CASE \/ StartBootstrap(p) \/ StartCommit(p) \/ StartChange(p) \/ StartRetire(p)
               \/ \E d \in Guests : StartRevoke(p, d)
               \/ \E d \in Invited : StartAccept(p, d)
      BY <1>0, <2>3, StartsTurn
    <2> QED BY <1>1, <2>1, <2>2, <2>3 DEF Starts
  <1>2. CASE UpdateStep(p)
    <2>1. CASE ChangePassword(p) \/ RevokeDevice(p) \/ RetireKeys(p) BY <2>1, MakersTurn
    <2>2. CASE AcceptDevice(p) BY <2>2, AcceptTurn
    <2>3. CASE ResealRefs(p) BY <2>3, SealTurn
    <2>4. CASE WriteGeneration(p) BY <2>4, GenerationTurn
    <2>5. CASE WritePointer(p) BY <2>5, PointerTurn
    <2>6. CASE ReleaseLock(p) \/ DropJournal(p) BY <2>6, ReleaseTurn
    <2>7. CASE WriteDevice(p) BY <2>7, DeviceTurn
    <2> QED BY <1>2, <2>1, <2>2, <2>3, <2>4, <2>5, <2>6, <2>7 DEF UpdateStep
  <1>3. CASE FetchStep(p)
    BY <1>3, FetchFilesTurn, FetchRefsTurn, FetchPointerTurn, EndsTurn DEF FetchStep
  <1>4. CASE RecoverPointer(p) BY <1>4, PointerTurn
  <1>5. CASE RemoveJournal(p) BY <1>5, ReleaseTurn
  <1>6. CASE CacheSecrets(p) BY <1>0, <1>6, CacheTurn
  <1>7. CASE Return(p) BY <1>0, <1>7, ReturnTurn
  <1>8. CASE Bootstrap(p) \/ SealRef(p) BY <1>8, SealTurn
  <1>9. CASE ReadRef(p) BY <1>9, ReadRefTurn
  <1>10. CASE Crash(p) BY <1>10, EndsTurn
  <1> QED BY <1>1, <1>2, <1>3, <1>4, <1>5, <1>6, <1>7, <1>8, <1>9, <1>10 DEF Steps

LEMMA TurnStep ==
  ASSUME TakeTurns, CommonInv, CachesOk, ~session.overlap, TurnInv, NEW p \in Processes, Steps(p)
  PROVE  TurnInv' /\ CommonInv' /\ CachesOk' /\ UNCHANGED session
  <1>1. PICK q \in Processes : Alone(q) /\ Turn(cmd[q]) BY DEF TurnInv
  <1>2. Alone(p) /\ Turn(cmd[p])
    <2>1. CASE p # q
      <3>1. cmd[p] = NoCommand BY <1>1, <2>1 DEF Alone
      <3>2. \A r \in Processes : cmd[r] = NoCommand BY <3>1, OnlyStarts, StartsWhenIdle
      <3> QED BY <1>1, <3>2 DEF Alone
    <2> QED BY <1>1, <2>1
  <1>3. CacheSecrets(p) => cmd[p].secrets = Cur.pw.secrets
    BY <1>2 DEF CacheSecrets, At, Turn, Holds, Opening
  <1>4. CommonInv' /\ CachesOk' /\ UNCHANGED session /\ Moves(p) BY <1>3, StepsCommon
  <1>5. Turn(cmd[p])' BY <1>2, ActorTurn
  <1>6. Alone(p)' BY <1>2, <1>4 DEF Alone, Moves, NoCommand, Doing, NoSecrets, NoKeyring
  <1> QED BY <1>4, <1>5, <1>6 DEF TurnInv
----------------------------------------------------------------------------
(* Commands that overlap: no step of one takes anything from another.      *)

LEMMA OverlapFacts ==
  ASSUME OverlapInv, session.overlap
  PROVE  /\ Given(Cur) /\ Good(Cur) /\ KeyringOk(Cur) /\ Cur.pw.secrets = Generated(0) /\ OneKey
         /\ Cur.epoch = Generated(0).epoch
  BY DEF OverlapInv, Cur, Given, Good, KeyringOk, OneKey

\* A step that changes none of what commands rely on.
Grows ==
  /\ UNCHANGED <<members, session>> /\ known \subseteq known' /\ dir'.device = dir.device
  /\ dir'.bootstrap = dir.bootstrap /\ dir'.head = Sealing(Generated(0))
  /\ DOMAIN dir.files \subseteq DOMAIN dir'.files /\ dir'.pointer \in DOMAIN dir'.files

LEMMA GrowsGiven ==
  ASSUME session.overlap, Grows, NEW k, Given(k)
  PROVE  Given(k)'
  BY DEF Grows, Given, Good, OneKey

LEMMA GrowsOverlapping ==
  ASSUME session.overlap, Grows, NEW c, Overlapping(c)
  PROVE  Overlapping(c)'
  <1>1. c.keyring # NoKeyring => Given(c.keyring)' BY GrowsGiven DEF Overlapping
  <1> QED BY <1>1 DEF Grows, Overlapping

LEMMA GrowsInv ==
  ASSUME OverlapInv, session.overlap, Grows, NEW p \in Processes, Moves(p), Overlapping(cmd[p])',
         \A g \in DOMAIN dir'.files :
           (g \in DOMAIN dir.files /\ dir'.files[g] = dir.files[g]) \/ Given(dir.files[g])'
  PROVE  OverlapInv'
  <1>1. DeviceOk' BY DEF OverlapInv, Grows, DeviceOk
  <1>2. \A g \in DOMAIN dir'.files : Given(dir.files[g])'
    <2> SUFFICES ASSUME NEW g \in DOMAIN dir'.files PROVE Given(dir.files[g])' OBVIOUS
    <2>1. CASE g \in DOMAIN dir.files /\ dir'.files[g] = dir.files[g]
      <3>1. Given(dir.files[g]) BY <2>1 DEF OverlapInv
      <3> PICK k : k = dir.files[g] OBVIOUS
      <3>2. Given(k)' BY <3>1, GrowsGiven
      <3> QED BY <2>1, <3>2
    <2> QED BY <2>1
  <1>3. \A q \in Processes : Overlapping(cmd[q])'
    <2> SUFFICES ASSUME NEW q \in Processes PROVE Overlapping(cmd[q])' OBVIOUS
    <2>1. CASE q # p
      <3> PICK c : c = cmd[q] OBVIOUS
      <3>1. Overlapping(c)' BY GrowsOverlapping DEF OverlapInv
      <3>2. c = cmd'[q] BY <2>1 DEF Moves
      <3> QED BY <3>1, <3>2
    <2> QED BY <2>1
  <1> QED BY <1>1, <1>2, <1>3 DEF OverlapInv, Grows

\* The directory as it was: the command goes on.
LEMMA OverlapSame ==
  ASSUME OverlapInv, session.overlap, NEW p \in Processes, Moves(p), UNCHANGED <<members, session>>,
         known \subseteq known', dir'.files = dir.files, dir'.pointer \in DOMAIN dir.files,
         dir'.device = dir.device, dir'.bootstrap = dir.bootstrap,
         dir'.head = Sealing(Generated(0)), NEW d, d = cmd'[p], Overlapping(d)
  PROVE  OverlapInv'
  <1>1. Grows BY DEF Grows
  <1>2. Overlapping(d)' BY <1>1, GrowsOverlapping
  <1> QED BY <1>1, <1>2, GrowsInv

LEMMA OverlapIdle ==
  Overlapping(NoCommand)
  BY DEF Overlapping, NoCommand, Doing, Updating

LEMMA OverlapStarts ==
  ASSUME TakeTurns, CommonInv, CachesOk, OverlapInv, session.overlap, NEW p \in Processes, Starts(p)
  PROVE  OverlapInv'
  <1>0. CmdsOk /\ session.cmds \subseteq {"unlock", "commit", "change"} BY DEF CommonInv, TakeTurns
  <1>1. ASSUME UNCHANGED <<dir, members, session, known>>, NEW d, Run(p, d), Overlapping(d)
        PROVE  OverlapInv'
    <2>1. cmd'[p] = d /\ Moves(p) BY <1>0, <1>1, Ran
    <2> QED BY <1>1, <2>1, OverlapSame DEF OverlapInv
  <1>2. ASSUME NEW w, UnlockRepository(p, w) PROVE OverlapInv'
    <2> DEFINE d == [Doing("unlock", "cache") EXCEPT !.then = "opened", !.secrets = Cur.pw.secrets]
               e == [Doing("unlock", "recover") EXCEPT !.then = "opened", !.gen = dir.journal,
                       !.secrets = dir.files[dir.journal].pw.secrets]
    <2>1. UNCHANGED <<dir, members, session, known>> /\ (Run(p, d) \/ (Run(p, e) /\ dir.journal \in DOMAIN dir.files))
      BY <1>2 DEF UnlockRepository
    <2>2. /\ d.pc = "cache" /\ d.name = "unlock" /\ d.then = "opened" /\ d.secrets = Cur.pw.secrets
          /\ d.keyring = NoKeyring BY DEF Doing, NoCommand
    <2>3. /\ e.pc = "recover" /\ e.name = "unlock" /\ e.then = "opened" /\ e.gen = dir.journal
          /\ e.secrets = dir.files[dir.journal].pw.secrets /\ e.keyring = NoKeyring BY DEF Doing, NoCommand
    <2> HIDE DEF d, e
    <2>4. Overlapping(d) BY <2>2, OverlapFacts DEF Overlapping, Updating
    <2>5. CASE Run(p, e) /\ dir.journal \in DOMAIN dir.files
      <3>1. dir.files[dir.journal].pw.secrets = Generated(0) BY <2>5 DEF OverlapInv, Given, Good, OneKey
      <3>2. Overlapping(e) BY <2>3, <2>5, <3>1 DEF Overlapping, Updating
      <3> QED BY <1>1, <2>1, <2>5, <3>2
    <2> QED BY <1>1, <2>1, <2>4, <2>5
  <1>3. CASE StartCommit(p)
    <2> DEFINE c == Doing("commit", "read")
    <2>1. OpenSecrets(p, c) /\ UNCHANGED <<dir, members, session, known>> BY <1>3 DEF StartCommit
    <2>2. IsCmd(c) /\ c.keyring = NoKeyring /\ c.pc = "read" /\ c.name = "commit" BY CommandIs
    <2> HIDE DEF c
    <2>3. CASE Fresh(p)
      <3> DEFINE d == [c EXCEPT !.secrets = cache[p].secrets]
      <3>1. Run(p, d) BY <2>1, <2>3 DEF OpenSecrets
      <3>2. cache[p].secrets = Cur.pw.secrets BY <2>3 DEF Fresh, CachesOk, Material
      <3>3. d.secrets = Generated(0) /\ d.keyring = NoKeyring /\ d.pc = "read" /\ d.name = "commit"
        BY <2>2, <3>2, OverlapFacts DEF IsCmd
      <3> HIDE DEF d
      <3>4. Overlapping(d) BY <3>3 DEF Overlapping, Updating
      <3> QED BY <1>1, <2>1, <3>1, <3>4
    <2>4. CASE ~Fresh(p) /\ DeviceSecrets # NoSecrets
      <3> DEFINE d == [c EXCEPT !.pc = "cache", !.then = c.pc, !.secrets = DeviceSecrets]
      <3>1. Run(p, d) BY <2>1, <2>4 DEF OpenSecrets
      <3>2. DeviceSecrets = Generated(0) BY <2>4, OverlapFacts, DeviceSecretsOk DEF OverlapInv
      <3>3. d.secrets = Generated(0) /\ d.keyring = NoKeyring /\ d.pc = "cache" /\ d.name = "commit" /\ d.then = "read"
        BY <2>2, <3>2 DEF IsCmd
      <3> HIDE DEF d
      <3>4. Overlapping(d) BY <3>3 DEF Overlapping, Updating
      <3> QED BY <1>1, <2>1, <3>1, <3>4
    <2>5. CASE ~Fresh(p) /\ DeviceSecrets = NoSecrets
      <3>1. UNCHANGED cmd BY <2>1, <2>5 DEF OpenSecrets
      <3>2. Overlapping(cmd[p]) /\ Moves(p) /\ cmd'[p] = cmd[p] BY <3>1 DEF OverlapInv, Moves
      <3> QED BY <2>1, <3>2, OverlapSame DEF OverlapInv
    <2> QED BY <2>3, <2>4, <2>5
  <1>4. CASE StartChange(p)
    <2> DEFINE d == [Doing("change", "change") EXCEPT !.pw = NextPassword, !.secrets = Cur.pw.secrets]
    <2>1. Run(p, d) /\ UNCHANGED <<dir, members, session, known>> BY <1>4 DEF StartChange
    <2>2. d.pc = "change" /\ d.name = "change" /\ d.secrets = Cur.pw.secrets /\ d.keyring = NoKeyring
      BY DEF Doing, NoCommand
    <2> HIDE DEF d
    <2>3. Overlapping(d) BY <2>2, OverlapFacts DEF Overlapping, Updating
    <2> QED BY <1>1, <2>1, <2>3
  <1>5. ~StartBootstrap(p) /\ ~StartRetire(p) /\ ~StartFetch(p) /\ (\A d \in Guests : ~StartRevoke(p, d))
        /\ (\A d \in Invited : ~StartAccept(p, d))
    BY <1>0 DEF StartBootstrap, StartRetire, StartFetch, StartRevoke, StartAccept, May
  <1> QED BY <1>2, <1>3, <1>4, <1>5 DEF Starts

\* A command that goes to its next stage.
LEMMA OverlapGoes ==
  ASSUME OverlapInv, NEW p \in Processes, NEW d, Same(d, cmd[p]),
         cmd[p].pc # "idle", d.pc \in {"cache", "opened", "read", "seal", "recovered"} \cup Updating,
         d.pc = "cache" => d.then \in {"opened", "read"}, d.pc = "recovered" => d.then = "opened",
         d.pc \in Updating => cmd[p].keyring # NoKeyring,
         d.pc # "pointer"
  PROVE  Overlapping(d)
  <1>1. Overlapping(cmd[p]) BY DEF OverlapInv
  <1> QED BY <1>1 DEF Overlapping, Same, Updating
LEMMA OverlapUpdates ==
  ASSUME CommonInv, OverlapInv, session.overlap, NEW p \in Processes, Moves(p), UpdateStep(p)
  PROVE  OverlapInv'
  <1> DEFINE c == cmd[p]
  <1>0. CmdsOk /\ IsDirectory /\ Overlapping(c) /\ dir.head = Sealing(Generated(0)) /\ dir.pointer \in DOMAIN dir.files
    BY DEF CommonInv, OverlapInv
  <1>1. PICK d : d = cmd'[p] OBVIOUS
  <1>2. CASE ChangePassword(p)
    <2> DEFINE s == Cur.pw.secrets  j == Sealed(Cur, s, c.pw)  k == [j EXCEPT !.epoch = Cur.epoch]
    <2>1. c.pc = "change" /\ UNCHANGED <<members, session>> BY <1>2 DEF ChangePassword, At
    <2>2. c.secrets = Generated(0) /\ c.name \in {"none", "unlock", "commit", "change"}
      BY <1>0, <2>1 DEF Overlapping
    <2>3. /\ KeyringOk(Cur) /\ s = Generated(0) /\ Cur.epoch = s.epoch /\ SecretsOk(s)
          /\ members \subseteq DOMAIN Cur.sealed
      BY OverlapFacts DEF KeyringOk, Good
    <2>4. Update(p, k, s) BY <1>2, <2>2, <2>3 DEF ChangePassword
    <2>5. KeyringOk(j) /\ j.epoch = s.epoch /\ j.pw.secrets = s /\ DOMAIN j.sealed = DOMAIN Cur.sealed
      BY <2>3, SealedOk
    <2> HIDE DEF j
    <2>6. k = j BY <2>3, <2>5 DEF KeyringOk
    <2> HIDE DEF k, s
    <2>7. Good(k) /\ k # NoKeyring BY <2>3, <2>5, <2>6 DEF Good, KeyringOk
    <2>8. dir' = [dir EXCEPT !.journal = k.gen] BY <2>4 DEF Update
    <2>9. dir' = Directory(dir.files, dir.pointer, k.gen, dir.lock, dir.device, dir.bootstrap, dir.head)
      BY <1>0, <2>8, DirWith
    <2>10. /\ dir'.files = dir.files /\ dir'.pointer = dir.pointer /\ dir'.device = dir.device
           /\ dir'.bootstrap = dir.bootstrap /\ dir'.head = dir.head BY <2>9 DEF Directory
    <2>11. known \subseteq known' BY <2>4 DEF Update
    <2>12. Grows BY <1>0, <2>1, <2>10, <2>11 DEF Grows
    <2>13. Overlapping(d)'
      <3>1. CASE dir.lock
        <4>1. Run(p, NoCommand) BY <2>4, <3>1 DEF Update
        <4>2. d = NoCommand BY <1>0, <1>1, <4>1, Ran
        <4>3. Overlapping(d) BY <4>2, OverlapIdle
        <4> QED BY <2>12, <4>3, GrowsOverlapping
      <3>2. CASE ~dir.lock
        <4>1. Run(p, Making(cmd[p], s, k)) /\ k.pw.by \in known' BY <2>4, <3>2 DEF Update, Making
        <4>2. Made(p, s, k) BY <1>0, <4>1, Makes
        <4> PICK x : x = k OBVIOUS
        <4>3. d.pc = "file" /\ d.secrets = Generated(0) /\ d.keyring = x /\ d.name = c.name
          BY <1>1, <2>3, <4>2 DEF Made
        <4>4. Good(x) /\ x # NoKeyring /\ x.pw.by \in known' BY <2>7, <4>1
        <4>5. Given(x)' BY <2>1, <2>10, <4>4 DEF Given, Good, OneKey
        <4>6. d.name \in {"none", "unlock", "commit", "change"} BY <2>2, <4>3
        <4> QED BY <4>3, <4>4, <4>5, <4>6 DEF Overlapping, Updating
      <3> QED BY <3>1, <3>2
    <2> QED BY <1>1, <2>10, <2>12, <2>13, GrowsInv
  <1>3. CASE WriteGeneration(p)
    <2> DEFINE k == c.keyring  v == With(dir.files, k.gen, k)
    <2>1. c.pc = "file" /\ UNCHANGED <<members, session, known>> /\ To(p, "pointer")
          /\ dir' = [dir EXCEPT !.lock = TRUE, !.files = With(@, k.gen, k)] BY <1>3 DEF WriteGeneration, At
    <2>2. dir' = [dir EXCEPT !.lock = TRUE, !.files = v]
      <3>1. [dir EXCEPT !.lock = TRUE].files = dir.files BY <1>0 DEF IsDirectory
      <3> QED BY <2>1, <3>1
    <2>3. DOMAIN v = DOMAIN dir.files \cup {k.gen} /\ v[k.gen] = k
          /\ \A g \in DOMAIN v \ {k.gen} : g \in DOMAIN dir.files /\ v[g] = dir.files[g] BY DEF With
    <2> HIDE DEF v
    <2>4. dir' = Directory(v, dir.pointer, dir.journal, TRUE, dir.device, dir.bootstrap, dir.head)
      BY <1>0, <2>2, DirWith
    <2>5. /\ dir'.files = v /\ dir'.pointer = dir.pointer /\ dir'.device = dir.device
          /\ dir'.bootstrap = dir.bootstrap /\ dir'.head = dir.head BY <2>4 DEF Directory
    <2>6. Grows BY <1>0, <2>1, <2>3, <2>5 DEF Grows
    <2>7. d.pc = "pointer" /\ Same(d, c) BY <1>0, <1>1, <2>1, Goes
    <2> PICK x : x = k OBVIOUS
    <2>8. x # NoKeyring /\ Given(x) BY <1>0, <2>1 DEF Overlapping, Updating
    <2>9. Given(x)' BY <2>6, <2>8, GrowsGiven
    <2>10. x.gen \in DOMAIN dir'.files BY <2>3, <2>5
    <2>11. /\ c.name \in {"none", "unlock", "commit", "change"} /\ c.secrets = Generated(0)
      BY <1>0, <2>1 DEF Overlapping
    <2>12. Overlapping(d)' BY <2>7, <2>8, <2>9, <2>10, <2>11 DEF Overlapping, Same, Updating
    <2>13. ASSUME NEW g \in DOMAIN dir'.files, g = x.gen PROVE Given(dir.files[g])'
      <3>1. dir'.files[g] = x BY <2>3, <2>5, <2>13
      <3> QED BY <2>9, <3>1 DEF Given, Good, KeyringOk
    <2>14. \A g \in DOMAIN dir'.files :
             (g \in DOMAIN dir.files /\ dir'.files[g] = dir.files[g]) \/ Given(dir.files[g])'
      BY <2>3, <2>5, <2>13
    <2> QED BY <1>1, <2>6, <2>12, <2>14, GrowsInv
  <1>4. CASE WritePointer(p)
    <2>1. c.pc = "pointer" /\ UNCHANGED <<members, session, known>> /\ To(p, "unlock")
          /\ dir' = [dir EXCEPT !.pointer = c.keyring.gen] BY <1>4 DEF WritePointer, At
    <2>2. c.keyring.gen \in DOMAIN dir.files /\ c.keyring # NoKeyring BY <1>0, <2>1 DEF Overlapping, Updating
    <2>3. dir' = Directory(dir.files, c.keyring.gen, dir.journal, dir.lock, dir.device, dir.bootstrap, dir.head)
      BY <1>0, <2>1, DirWith
    <2>4. /\ dir'.files = dir.files /\ dir'.pointer = c.keyring.gen /\ dir'.device = dir.device
          /\ dir'.bootstrap = dir.bootstrap /\ dir'.head = dir.head BY <2>3 DEF Directory
    <2>5. d.pc = "unlock" /\ Same(d, c) BY <1>0, <1>1, <2>1, Goes
    <2>6. Overlapping(d) BY <2>1, <2>2, <2>5, OverlapGoes DEF Updating
    <2> QED BY <1>0, <1>1, <2>1, <2>2, <2>4, <2>6, OverlapSame
  <1>5. CASE ReleaseLock(p)
    <2>1. c.pc = "unlock" /\ UNCHANGED <<members, session, known>> /\ To(p, "journal")
          /\ dir' = [dir EXCEPT !.lock = FALSE] BY <1>5 DEF ReleaseLock, At
    <2>2. c.keyring # NoKeyring BY <1>0, <2>1 DEF Overlapping, Updating
    <2>3. dir' = Directory(dir.files, dir.pointer, dir.journal, FALSE, dir.device, dir.bootstrap, dir.head)
      BY <1>0, <2>1, DirWith
    <2>4. /\ dir'.files = dir.files /\ dir'.pointer = dir.pointer /\ dir'.device = dir.device
          /\ dir'.bootstrap = dir.bootstrap /\ dir'.head = dir.head BY <2>3 DEF Directory
    <2>5. d.pc = "journal" /\ Same(d, c) BY <1>0, <1>1, <2>1, Goes
    <2>6. Overlapping(d) BY <2>1, <2>2, <2>5, OverlapGoes DEF Updating
    <2> QED BY <1>0, <1>1, <2>1, <2>4, <2>6, OverlapSame
  <1>6. CASE DropJournal(p)
    <2>1. c.pc = "journal" /\ UNCHANGED <<members, session, known>> /\ dir' = [dir EXCEPT !.journal = 0]
      BY <1>6 DEF DropJournal, At
    <2>2. c.name # "accept" BY <1>0 DEF Overlapping
    <2>3. Run(p, [cmd[p] EXCEPT !.pc = "cache", !.then = "opened"]) BY <1>6, <2>2 DEF DropJournal
    <2>4. dir' = Directory(dir.files, dir.pointer, 0, dir.lock, dir.device, dir.bootstrap, dir.head)
      BY <1>0, <2>1, DirWith
    <2>5. /\ dir'.files = dir.files /\ dir'.pointer = dir.pointer /\ dir'.device = dir.device
          /\ dir'.bootstrap = dir.bootstrap /\ dir'.head = dir.head BY <2>4 DEF Directory
    <2>6. d.pc = "cache" /\ d.then = "opened" /\ Same(d, c) BY <1>0, <1>1, <2>3, GoesOn
    <2>7. Overlapping(d) BY <2>1, <2>6, OverlapGoes DEF Updating
    <2> QED BY <1>0, <1>1, <2>1, <2>5, <2>7, OverlapSame
  <1>7. c.pc \notin {"revoke", "accept", "reseal", "retire", "device"} BY <1>0 DEF Overlapping, Updating
  <1>8. ~RevokeDevice(p) /\ ~AcceptDevice(p) /\ ~ResealRefs(p) /\ ~RetireKeys(p) /\ ~WriteDevice(p)
    BY <1>7 DEF RevokeDevice, AcceptDevice, ResealRefs, RetireKeys, WriteDevice, At
  <1> QED BY <1>2, <1>3, <1>4, <1>5, <1>6, <1>8 DEF UpdateStep

LEMMA OverlapOthers ==
  ASSUME CommonInv, OverlapInv, session.overlap, NEW p \in Processes, Moves(p),
         ~Starts(p), ~UpdateStep(p), Steps(p)
  PROVE  OverlapInv'
  <1> DEFINE c == cmd[p]
  <1>0. CmdsOk /\ IsDirectory /\ Overlapping(c) /\ dir.head = Sealing(Generated(0)) /\ dir.pointer \in DOMAIN dir.files
    BY DEF CommonInv, OverlapInv
  <1>1. PICK d : d = cmd'[p] OBVIOUS
  <1>2. CASE Run(p, NoCommand) /\ UNCHANGED <<dir, members, session, known>>
    <2>1. d = NoCommand BY <1>0, <1>1, <1>2, Ran
    <2> QED BY <1>0, <1>1, <1>2, <2>1, OverlapIdle, OverlapSame
  <1>3. CASE RecoverPointer(p)
    <2>1. c.pc = "recover" /\ UNCHANGED <<members, session, known>> /\ To(p, "recovered")
          /\ dir' = [dir EXCEPT !.pointer = c.gen] BY <1>3 DEF RecoverPointer, At
    <2>2. c.gen \in DOMAIN dir.files /\ c.then = "opened" BY <1>0, <2>1 DEF Overlapping
    <2>3. dir' = Directory(dir.files, c.gen, dir.journal, dir.lock, dir.device, dir.bootstrap, dir.head)
      BY <1>0, <2>1, DirWith
    <2>4. /\ dir'.files = dir.files /\ dir'.pointer = c.gen /\ dir'.device = dir.device
          /\ dir'.bootstrap = dir.bootstrap /\ dir'.head = dir.head BY <2>3 DEF Directory
    <2>5. d.pc = "recovered" /\ d.then = "opened" /\ Same(d, c) BY <1>0, <1>1, <2>1, <2>2, Goes
    <2>6. Overlapping(d) BY <2>1, <2>5, OverlapGoes DEF Updating
    <2> QED BY <1>0, <1>1, <2>1, <2>2, <2>4, <2>6, OverlapSame
  <1>4. CASE RemoveJournal(p)
    <2>1. c.pc = "recovered" /\ UNCHANGED <<members, session, known>> /\ To(p, "cache")
          /\ dir' = [dir EXCEPT !.journal = 0] BY <1>4 DEF RemoveJournal, At
    <2>2. c.then = "opened" BY <1>0, <2>1 DEF Overlapping
    <2>3. dir' = Directory(dir.files, dir.pointer, 0, dir.lock, dir.device, dir.bootstrap, dir.head)
      BY <1>0, <2>1, DirWith
    <2>4. /\ dir'.files = dir.files /\ dir'.pointer = dir.pointer /\ dir'.device = dir.device
          /\ dir'.bootstrap = dir.bootstrap /\ dir'.head = dir.head BY <2>3 DEF Directory
    <2>5. d.pc = "cache" /\ d.then = "opened" /\ Same(d, c) BY <1>0, <1>1, <2>1, <2>2, Goes
    <2>6. Overlapping(d) BY <2>1, <2>5, OverlapGoes DEF Updating
    <2> QED BY <1>0, <1>1, <2>1, <2>4, <2>6, OverlapSame
  <1>5. CASE CacheSecrets(p)
    <2>1. c.pc = "cache" /\ UNCHANGED <<dir, members, session, known>> /\ To(p, c.then)
      BY <1>5 DEF CacheSecrets, At
    <2>2. c.then \in {"opened", "read"} BY <1>0, <2>1 DEF Overlapping
    <2>3. d.pc = c.then /\ Same(d, c) BY <1>0, <1>1, <2>1, Goes
    <2>4. Overlapping(d) BY <2>1, <2>2, <2>3, OverlapGoes DEF Updating
    <2> QED BY <1>0, <1>1, <2>1, <2>4, OverlapSame
  <1>6. CASE SealRef(p)
    <2>1. c.pc = "seal" /\ UNCHANGED <<members, session, known>> /\ To(p, "opened")
          /\ dir' = [dir EXCEPT !.head = Sealing(c.secrets)] BY <1>6 DEF SealRef, At
    <2>2. c.secrets = Generated(0) BY <1>0, <2>1 DEF Overlapping
    <2>3. dir' = Directory(dir.files, dir.pointer, dir.journal, dir.lock, dir.device, dir.bootstrap,
                           Sealing(Generated(0)))
      BY <1>0, <2>1, <2>2, DirWith
    <2>4. /\ dir'.files = dir.files /\ dir'.pointer = dir.pointer /\ dir'.device = dir.device
          /\ dir'.bootstrap = dir.bootstrap /\ dir'.head = Sealing(Generated(0)) BY <2>3 DEF Directory
    <2>5. d.pc = "opened" /\ Same(d, c) BY <1>0, <1>1, <2>1, Goes
    <2>6. Overlapping(d) BY <2>1, <2>5, OverlapGoes DEF Updating
    <2> QED BY <1>0, <1>1, <2>1, <2>4, <2>6, OverlapSame
  <1>7. CASE ReadRef(p)
    <2>1. c.pc = "read" /\ UNCHANGED <<dir, members, session, known>> /\ (To(p, "seal") \/ Run(p, NoCommand))
      BY <1>7 DEF ReadRef, At
    <2>2. CASE To(p, "seal")
      <3>1. d.pc = "seal" /\ Same(d, c) BY <1>0, <1>1, <2>2, Goes
      <3>2. Overlapping(d) BY <2>1, <3>1, OverlapGoes DEF Updating
      <3> QED BY <1>0, <1>1, <2>1, <3>2, OverlapSame
    <2> QED BY <1>2, <2>1, <2>2
  <1>8. CASE Return(p) BY <1>2, <1>8 DEF Return
  <1>9. CASE Crash(p) BY <1>2, <1>9 DEF Crash
  <1>10. c.pc \notin {"keyrings", "refs", "current", "clear", "bootstrap"} BY <1>0 DEF Overlapping, Updating
  <1>11. ~FetchStep(p) /\ ~Bootstrap(p)
    BY <1>10 DEF FetchStep, FetchKeyrings, FetchRefs, FetchPointer, FetchDone, Bootstrap, At
  <1> QED BY <1>3, <1>4, <1>5, <1>6, <1>7, <1>8, <1>9, <1>11 DEF Steps
LEMMA OverlapStep ==
  ASSUME TakeTurns, CommonInv, CachesOk, session.overlap, OverlapInv, NEW p \in Processes, Steps(p)
  PROVE  OverlapInv' /\ CommonInv' /\ CachesOk' /\ UNCHANGED session
  <1>1. CacheSecrets(p) => cmd[p].secrets = Cur.pw.secrets
    <2>1. Overlapping(cmd[p]) BY DEF OverlapInv
    <2> QED BY <2>1, OverlapFacts DEF CacheSecrets, At, Overlapping
  <1>2. CommonInv' /\ CachesOk' /\ UNCHANGED session /\ Moves(p) BY <1>1, StepsCommon
  <1>3. OverlapInv'
    <2>1. CASE Starts(p) BY <2>1, OverlapStarts
    <2>2. CASE UpdateStep(p) BY <1>2, <2>2, OverlapUpdates
    <2>3. CASE ~Starts(p) /\ ~UpdateStep(p) BY <1>2, <2>3, OverlapOthers
    <2> QED BY <2>1, <2>2, <2>3
  <1> QED BY <1>2, <1>3

LEMMA FirstOk ==
  /\ KeyringOk(First) /\ First.gen = 1 /\ First.pw.by = 1 /\ First.pw.secrets = Generated(0)
  /\ DOMAIN First.sealed = Guests \cup {Owner}
  <1> DEFINE k == First
  <1>1. k = [gen |-> 1, epoch |-> 1, pw |-> [by |-> 1, secrets |-> Generated(0)],
             sealed |-> [d \in Guests \cup {Owner} |-> Generated(0)]] BY DEF First
  <1> HIDE DEF k
  <1>2. k # NoKeyring BY <1>1 DEF NoKeyring
  <1>3. KeyringOk(k) BY <1>1, <1>2, FirstSecrets DEF KeyringOk
  <1> QED BY <1>1, <1>3 DEF k

LEMMA UnlockInitOk ==
  ASSUME TakeTurns, UnlockInit
  PROVE  UnlockInv
  <1> DEFINE dev == IF session.clone THEN NoDevice ELSE Owner  fs == [g \in {1} |-> First]
  <1>1. dir = Directory(fs, 1, 0, FALSE, dev, NoSecrets, Sealing(Generated(0)))
    BY DEF UnlockInit, Directory
  <1>2. /\ dir.files = fs /\ dir.pointer = 1 /\ dir.journal = 0 /\ ~dir.lock /\ dir.device = dev
        /\ dir.bootstrap = NoSecrets /\ dir.head = Sealing(Generated(0)) BY <1>1 DEF Directory
  <1>3. IsDirectory BY <1>1, <1>2 DEF IsDirectory, Directory
  <1>4. session \in Sessions /\ members = Guests \cup {Owner} /\ known = {1}
        /\ cache = [p \in Processes |-> NoCache] /\ cmd = [p \in Processes |-> NoCommand]
        /\ count = [updates |-> 0, fetches |-> 0, crashes |-> 0, cloned |-> FALSE]
    BY DEF UnlockInit
  <1>5. IsCmd(NoCommand) BY CommandIs DEF NoCommand
  <1>6. CmdsOk BY <1>4, <1>5 DEF CmdsOk
  <1>7. CommonInv BY <1>2, <1>3, <1>4, <1>6 DEF CommonInv
  <1>8. CachesOk BY <1>4 DEF CachesOk
  <1>9. Cur = First /\ DOMAIN dir.files = {1} BY <1>2 DEF Cur
  <1>10. Good(First) BY <1>4, FirstOk DEF Good
  <1>11. DeviceOk BY <1>2, <1>4, UnlockAssumption DEF DeviceOk
  <1>12. dir.head = Sealing(First.pw.secrets) /\ Reads(First.pw.secrets)
    BY <1>2, FirstOk, FirstSecrets DEF Reads, Sealing, SecretsOk
  <1>13. CASE session.overlap
    <2>1. Given(First) BY <1>4, <1>10, FirstOk DEF Given
    <2>2. OverlapInv BY <1>2, <1>4, <1>9, <1>11, <2>1, OverlapIdle DEF OverlapInv, Cur
    <2> QED BY <1>7, <1>8, <1>13, <2>2 DEF UnlockInv
  <1>14. CASE ~session.overlap
    <2>1. Newest BY <1>2, <1>9 DEF Newest
    <2>2. FilesOk BY <1>2, <1>4, <1>9, <1>10, <1>11, FirstOk DEF FilesOk
    <2>3. HeadOk(NoCommand) /\ PendingOk(NoCommand) /\ QuietOk(NoCommand)
      BY <1>2, <1>9, <1>12, <2>1 DEF HeadOk, PendingOk, QuietOk
    <2>4. Turn(NoCommand) BY <2>2, <2>3, IdleHolds DEF Turn
    <2>5. TurnInv BY <1>4, <2>4, UnlockAssumption DEF TurnInv, Alone
    <2> QED BY <1>7, <1>8, <1>14, <2>5 DEF UnlockInv
  <1> QED BY <1>13, <1>14

LEMMA UnlockStutters ==
  ASSUME UnlockInv, UNCHANGED unlockVars
  PROVE  UnlockInv'
  <1>0. UNCHANGED <<dir, cache, cmd, members, known, count, session>> BY DEF unlockVars
  <1>1. CommonInv' BY <1>0 DEF UnlockInv, CommonInv, IsDirectory, CmdsOk, IsCmd
  <1>2. CachesOk' BY <1>0 DEF UnlockInv, CachesOk, NoCache, NoSecrets
  <1>3. CASE session.overlap
    <2>1. OverlapInv BY <1>3 DEF UnlockInv
    <2>2. OverlapInv'
      BY <1>0, <2>1 DEF OverlapInv, DeviceOk, Given, Good, OneKey, Overlapping
    <2> QED BY <1>0, <1>1, <1>2, <1>3, <2>2 DEF UnlockInv
  <1>4. CASE ~session.overlap
    <2>1. PICK p \in Processes : Alone(p) /\ Turn(cmd[p]) BY <1>4 DEF UnlockInv, TurnInv
    <2>2. Alone(p)' BY <1>0, <2>1 DEF Alone
    <2>3. Turn(cmd[p])'
      <3>1. Cur' = Cur /\ Newest' = Newest BY <1>0 DEF Cur, Newest
      <3>2. \A k : (Good(k)' <=> Good(k)) /\ (Reads(k)' <=> Reads(k)) BY <1>0 DEF Good, OneKey, Reads
      <3>3. \A k : Successor(k)' <=> Successor(k) BY <1>0, <3>1, <3>2 DEF Successor
      <3>4. FilesOk' BY <1>0, <2>1, <3>1, <3>2 DEF Turn, FilesOk, DeviceOk
      <3>5. Holds(cmd[p])' BY <1>0, <2>1, <3>1 DEF Turn, Holds, Named, Sealing
      <3>6. Places(cmd[p])' BY <1>0, <2>1, <3>1, <3>2, <3>3 DEF Turn, Places, Sealing
      <3>7. HeadOk(cmd[p])' /\ PendingOk(cmd[p])' /\ QuietOk(cmd[p])'
        BY <1>0, <2>1, <3>1, <3>2, <3>3 DEF Turn, HeadOk, PendingOk, QuietOk
      <3> QED BY <3>4, <3>5, <3>6, <3>7 DEF Turn
    <2>4. TurnInv' BY <2>2, <2>3 DEF TurnInv
    <2> QED BY <1>0, <1>1, <1>2, <1>4, <2>4 DEF UnlockInv
  <1> QED BY <1>3, <1>4

LEMMA UnlockSteps ==
  ASSUME TakeTurns, UnlockInv, UnlockNext
  PROVE  UnlockInv'
  <1>1. PICK p \in Processes : Steps(p) BY DEF UnlockNext, Steps
  <1>2. CommonInv /\ CachesOk BY DEF UnlockInv
  <1>3. CASE session.overlap
    <2>1. OverlapInv BY <1>3 DEF UnlockInv
    <2>2. OverlapInv' /\ CommonInv' /\ CachesOk' /\ UNCHANGED session BY <1>1, <1>2, <1>3, <2>1, OverlapStep
    <2> QED BY <1>3, <2>2 DEF UnlockInv
  <1>4. CASE ~session.overlap
    <2>1. TurnInv BY <1>4 DEF UnlockInv
    <2>2. TurnInv' /\ CommonInv' /\ CachesOk' /\ UNCHANGED session BY <1>1, <1>2, <1>4, <2>1, TurnStep
    <2> QED BY <1>4, <2>2 DEF UnlockInv
  <1> QED BY <1>3, <1>4

LEMMA UnlockInvHolds == TakeTurns => (UnlockSpec => []UnlockInv)
  <1> SUFFICES ASSUME TakeTurns PROVE UnlockSpec => []UnlockInv OBVIOUS
  <1>1. UnlockInit => UnlockInv BY UnlockInitOk
  <1>2. UnlockInv /\ [UnlockNext]_unlockVars => UnlockInv' BY UnlockSteps, UnlockStutters
  <1> QED BY <1>1, <1>2, PTL DEF UnlockSpec

----------------------------------------------------------------------------
(* What follows for those who unlock.                                      *)

LEMMA CurrentOpens ==
  ASSUME UnlockInv
  PROVE  /\ \A p \in Processes : Fresh(p) => cache[p].secrets = Cur.pw.secrets
         /\ Good(Cur) /\ Cur.pw.by \in known
         /\ ~Fetching => Reads(Cur.pw.secrets)
  <1>1. \A p \in Processes : Fresh(p) => cache[p].secrets = Cur.pw.secrets
    BY DEF UnlockInv, CachesOk, Fresh, Material
  <1>2. CASE session.overlap
    <2>1. OverlapInv BY <1>2 DEF UnlockInv
    <2>2. Given(Cur) /\ Cur.pw.secrets = Generated(0) BY <1>2, <2>1, OverlapFacts
    <2>3. Reads(Generated(0)) BY <2>1, FirstSecrets DEF OverlapInv, Reads, Sealing, SecretsOk
    <2> QED BY <1>1, <2>2, <2>3 DEF Given
  <1>3. CASE ~session.overlap
    <2>1. PICK p \in Processes : Alone(p) /\ Turn(cmd[p]) BY <1>3 DEF UnlockInv, TurnInv
    <2>2. Good(Cur) /\ Cur.pw.by \in known BY <2>1 DEF Turn, FilesOk
    <2>3. ~Fetching => Reads(Cur.pw.secrets) BY <2>1 DEF Fetching, Turn, Holds, HeadOk, Fetches
    <2> QED BY <1>1, <2>2, <2>3
  <1> QED BY <1>2, <1>3

(* What a process takes from its cache are the secrets of the keyring that  *)
(* is current, whoever replaced it meanwhile (keyring.rs 343-367).          *)
THEOREM CachesFollowTheKeyring == TakeTurns => (UnlockSpec => []SecretsAreCurrent)
  <1> SUFFICES ASSUME TakeTurns PROVE UnlockSpec => []SecretsAreCurrent OBVIOUS
  <1>1. UnlockInv => SecretsAreCurrent BY CurrentOpens DEF SecretsAreCurrent
  <1> QED BY <1>1, UnlockInvHolds, PTL

(* Every device that is entitled to the secrets has an envelope that opens, *)
(* and what opens reads the ref, however often updates are cut off          *)
(* (facade.rs 793-827, 1355-1643, 485-578, 2419-2446).                      *)
THEOREM MembersStayIn == TakeTurns => (UnlockSpec => []MembersReadTheHead)
  <1> SUFFICES ASSUME TakeTurns PROVE UnlockSpec => []MembersReadTheHead OBVIOUS
  <1>1. ASSUME UnlockInv PROVE MembersReadTheHead
    <2>1. \A d \in members : d \in DOMAIN Cur.sealed /\ Cur.sealed[d] = Cur.pw.secrets
                             /\ Cur.epoch = Cur.pw.secrets.epoch
      BY <1>1, CurrentOpens DEF Good, KeyringOk
    <2>2. \A d \in members : DeviceOpens(Cur, d) BY <2>1 DEF DeviceOpens
    <2>3. ASSUME ~Fetching, NEW d \in members PROVE Reads(Cur.sealed[d])
      <3>1. Reads(Cur.pw.secrets) BY <1>1, <2>3, CurrentOpens
      <3> QED BY <2>1, <2>3, <3>1
    <2> QED BY <2>2, <2>3 DEF MembersReadTheHead
  <1> QED BY <1>1, UnlockInvHolds, PTL

(* A password that was reported, or is about to be, opens the directory     *)
(* (facade.rs 747-791, 4151-4197).                                          *)
THEOREM PasswordOpensAlways == TakeTurns => (UnlockSpec => []SomePasswordOpens)
  <1> SUFFICES ASSUME TakeTurns PROVE UnlockSpec => []SomePasswordOpens OBVIOUS
  <1>1. ASSUME UnlockInv PROVE SomePasswordOpens
    <2>1. Cur.pw.by \in known /\ Cur.epoch = Cur.pw.secrets.epoch BY <1>1, CurrentOpens DEF Good, KeyringOk
    <2> QED BY <2>1 DEF SomePasswordOpens, PasswordOpens
  <1> QED BY <1>1, UnlockInvHolds, PTL
=============================================================================
