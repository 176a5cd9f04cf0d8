---------------------------- MODULE WorkingTree ----------------------------
(***************************************************************************)
(* The working directory of a repository (working_tree.rs, facade.rs).  A  *)
(* commit scans the directory; a checkout stages every file of a snapshot  *)
(* beside its place, publishes the staged files, removes what the last     *)
(* checkout left and records its own files.                                *)
(***************************************************************************)
EXTENDS LocalIndex

CONSTANTS Worker,     \* the process that commits, checks out and edits
          TempOf,     \* path |-> path of its temporary file, a temporary file's its own
          MaxEdits    \* bound on edits of files

Temps == {TempOf[p] : p \in Paths}

Parents(p) == {SubSeq(p, 1, n) : n \in 1..Len(p) - 1}

ASSUME WorkingTreeAssumption ==
  /\ Worker \in Procs
  /\ Temps \subseteq Seq(STRING) \ {<< >>}
  /\ DOMAIN TempOf = Paths \cup Temps /\ \A p \in Temps : TempOf[p] = p
  /\ \A p \in Paths : Parents(TempOf[p]) = Parents(p)
  /\ MaxEdits \in Nat

VARIABLES wd,       \* the working directory: a tree
          mapping,  \* files the last checkout recorded; Torn when unreadable
          chk,      \* the checkout under way
          edits     \* contents written so far

workVars == <<wd, mapping, chk, edits>>
vars == <<repoVars, indexVars, workVars>>

Torn == {<< >>}

NoCheckout == [step |-> "none", head |-> 0, todo |-> << >>, prev |-> {}]

Init ==
  /\ RepositoryInit /\ IndexInit
  /\ wd = << >> /\ mapping = {} /\ chk = NoCheckout
  /\ edits = 0

\* A search does not look at the working directory: edits and checkouts wait
\* for it, commits do not.
WorkerFree == Free(Worker) /\ chk = NoCheckout /\ search.step = "none"

(***************************************************************************)
(* The user, between commands.                                             *)
(***************************************************************************)
WithParents(t, p) ==
  [q \in DOMAIN t \cup Parents(p) |-> IF q \in Parents(p) THEN Dir ELSE t[q]]

WithFile(t, p, x) ==
  LET above == WithParents(t, p)
  IN [q \in DOMAIN above \cup {p} |-> IF q = p THEN x ELSE above[q]]

FileAbove(p) == \E q \in Parents(p) : Kind(wd, q) = "file"

Edit(p) ==
  /\ WorkerFree /\ edits < MaxEdits
  /\ Kind(wd, p) # "directory" /\ ~FileAbove(p)
  /\ edits' = edits + 1
  /\ wd' = WithFile(wd, p, edits')
  /\ UNCHANGED <<repoVars, indexVars, mapping, chk>>

Erase(p) ==
  /\ WorkerFree
  /\ p \in DOMAIN wd
  /\ wd' = Without(wd, p)
  /\ UNCHANGED <<repoVars, indexVars, mapping, chk, edits>>

(***************************************************************************)
(* commit: every entry but the control directory and the mapping file; a   *)
(* file that cannot be read in a stable state is left out with a warning.  *)
(***************************************************************************)
CommitTree(unread) ==
  /\ chk = NoCheckout
  /\ Commit(Worker, Restrict(wd, DOMAIN wd \ unread))
  /\ UNCHANGED <<indexVars, workVars>>

(***************************************************************************)
(* checkout                                                                *)
(***************************************************************************)
\* preflight_checkout_paths: a file may replace a file, nothing else.
Preflight(t) ==
  \A p \in DOMAIN FilesOf(t) :
    Kind(wd, p) # "directory" /\ ~FileAbove(p)

StartCheckout(h) ==
  /\ WorkerFree
  /\ mapping # Torn /\ Preflight(Tree(h))
  /\ chk' = [step |-> "stage", head |-> h, todo |-> SetToSeq(DOMAIN FilesOf(Tree(h))),
             prev |-> mapping]
  /\ UNCHANGED <<repoVars, indexVars, wd, mapping, edits>>

NextFile == Head(chk.todo)

\* checkout_file_to_temp.
StageFile ==
  /\ chk.step = "stage" /\ chk.todo # << >>
  /\ ~FileAbove(NextFile) /\ Kind(wd, TempOf[NextFile]) # "directory"
  /\ wd' = WithFile(wd, TempOf[NextFile], Tree(chk.head)[NextFile])
  /\ chk' = [chk EXCEPT !.todo = Tail(@)]
  /\ UNCHANGED <<repoVars, indexVars, mapping, edits>>

Staged == DOMAIN FilesOf(Tree(chk.head)) \ Range(chk.todo)

\* A file cannot be staged: the temporary files are removed again.
StageFails ==
  /\ chk.step = "stage" /\ chk.todo # << >>
  /\ LET made == IF FileAbove(NextFile) THEN wd ELSE WithParents(wd, NextFile)
         gone == {TempOf[p] : p \in Staged \cup {NextFile}} \cap DOMAIN FilesOf(made)
     IN wd' = Restrict(made, DOMAIN made \ gone)
  /\ chk' = NoCheckout
  /\ UNCHANGED <<repoVars, indexVars, mapping, edits>>

StartPublishing ==
  /\ chk.step = "stage" /\ chk.todo = << >>
  /\ chk' = [chk EXCEPT !.step = "publish",
                        !.todo = SetToSeq(DOMAIN FilesOf(Tree(chk.head)))]
  /\ UNCHANGED <<repoVars, indexVars, wd, mapping, edits>>

\* publish_checkout_temp: what is at the place is removed, the temporary file
\* renamed.  When it is gone (two files share it, or it was the file itself, a
\* committed leftover of an interrupted checkout) the checkout ends here.
PublishFile ==
  /\ chk.step = "publish" /\ chk.todo # << >>
  /\ LET temp    == TempOf[NextFile]
         cleared == Restrict(wd, DOMAIN wd \ {NextFile})
     IN IF temp \in DOMAIN cleared
        THEN /\ wd' = WithFile(Restrict(cleared, DOMAIN cleared \ {temp}), NextFile, wd[temp])
             /\ chk' = [chk EXCEPT !.todo = Tail(@)]
        ELSE wd' = cleared /\ chk' = NoCheckout
  /\ UNCHANGED <<repoVars, indexVars, mapping, edits>>

\* Directories above removed files that hold nothing else.
Emptied(t, removed) ==
  LET above == UNION {Parents(p) : p \in removed}
  IN {d \in above : \A q \in DOMAIN t : IsStrictPrefix(d, q) => q \in above}

\* Mutant: the last checkout's files are not looked up.
Stale_none(t) == {}

\* remove_stale_platform_name_mappings.
Stale(t) == {p \in chk.prev : p \in DOMAIN FilesOf(wd)} \ DOMAIN FilesOf(t)

RemoveStale ==
  /\ chk.step = "publish" /\ chk.todo = << >>
  /\ LET gone == Stale(Tree(chk.head))
         left == Restrict(wd, DOMAIN wd \ gone)
     IN wd' = Restrict(left, DOMAIN left \ Emptied(left, gone))
  /\ chk' = [chk EXCEPT !.step = "record"]
  /\ UNCHANGED <<repoVars, indexVars, mapping, edits>>

\* write_platform_name_mappings.
RecordFiles ==
  /\ chk.step = "record"
  /\ mapping' = DOMAIN FilesOf(Tree(chk.head))
  /\ chk' = NoCheckout
  /\ UNCHANGED <<repoVars, indexVars, wd, edits>>

\* The mapping file is written in place.
CrashCheckout ==
  /\ chk # NoCheckout
  /\ chk' = NoCheckout
  /\ \/ UNCHANGED mapping
     \/ chk.step = "record" /\ chk.head # 0 /\ mapping' = Torn
  /\ UNCHANGED <<repoVars, indexVars, wd, edits>>

RefStep == /\ \E i \in Procs : WriteRef(i) \/ Finish(i) \/ CrashCommand(i)
           /\ UNCHANGED <<indexVars, workVars>>

Search == /\ chk = NoCheckout /\ SearchStep
          /\ UNCHANGED workVars

Next ==
  \/ \E p \in Paths : Edit(p) \/ Erase(p)
  \/ \E unread \in {{}} \cup {{p} : p \in DOMAIN FilesOf(wd)} : CommitTree(unread)
  \/ \E h \in DOMAIN snaps : StartCheckout(h)
  \/ StageFile \/ StageFails \/ StartPublishing \/ PublishFile
  \/ RemoveStale \/ RecordFiles \/ CrashCheckout
  \/ RefStep \/ Search

Spec == Init /\ [][Next]_vars

(***************************************************************************)
(* Properties                                                              *)
(***************************************************************************)
\* A checkout that has published and cleaned up leaves every file of its
\* snapshot with the snapshot's content and none of the files of the checkout
\* before it that the snapshot does not have, whatever an interrupted checkout
\* left behind.
CheckoutShowsSnapshot ==
  chk.step = "record" =>
    /\ \A p \in DOMAIN FilesOf(Tree(chk.head)) :
         p \in DOMAIN wd /\ wd[p] = Tree(chk.head)[p]
    /\ DOMAIN FilesOf(wd) \cap chk.prev \subseteq DOMAIN Tree(chk.head)
=============================================================================
