--------------------------- MODULE WritableMount ---------------------------
(***************************************************************************)
(* Branches mounted as a file system (e2v-vfs): WritableVfs keeps the      *)
(* snapshot its view is based on and an overlay of staged changes; the     *)
(* WinFSP host keeps open handles with the bytes written and not yet       *)
(* flushed.  A flush stages the bytes and commits the overlay to the       *)
(* branch while other processes commit to it, too.                         *)
(***************************************************************************)
EXTENDS Repository

CONSTANTS Mounts,     \* mount processes
          Shells,     \* processes that commit
          Mounted,    \* the branch of each mount
          Handles,    \* handles of a mount
          Renames,    \* renames users ask for, as <<from, to>>
          WorkTrees,  \* trees that commit finds in the working directory
          OneHandle,  \* whether a mount is used through one handle at a time
          MaxWrites   \* bound on writes

ASSUME MountAssumption ==
  /\ Procs = Mounts \cup Shells /\ Mounts \cap Shells = {}
  /\ Mounted \in [Mounts -> Tokens]
  /\ Renames \subseteq Paths \X Paths
  /\ \A tree \in WorkTrees : TreeOk(tree)
  /\ OneHandle \in BOOLEAN /\ MaxWrites \in Nat

VARIABLES mount,   \* the view of each mount
          handle,  \* its handles
          writes   \* object ids of written files so far

mountVars == <<mount, handle, writes>>
vars == <<repoVars, mountVars>>

NoCallback == [kind |-> "none", h |-> 0]
Unmounted  == [up |-> FALSE, base |-> 0, dirs |-> << >>, files |-> << >>, call |-> NoCallback]
\* opened: the content the handle reads; pending: the content written through
\* it since; 0: none.
Closed == [open |-> FALSE, path |-> << >>, dir |-> FALSE, writable |-> FALSE,
           opened |-> 0, pending |-> 0]

Init ==
  /\ RepositoryInit
  /\ mount = [m \in Mounts |-> Unmounted]
  /\ handle = [m \in Mounts |-> [h \in Handles |-> Closed]]
  /\ writes = 0

Base(m) == Tree(mount[m].base)

OverlayDir(m, p) ==
  \/ \E d \in Range(mount[m].dirs) : IsPrefix(p, d)
  \/ \E f \in DOMAIN mount[m].files : Front(f) = p

\* WritableVfs::stat_path: staged files, staged directories, the snapshot.
ViewKind(m, p) == IF p = << >> THEN "directory"
                  ELSE IF p \in DOMAIN mount[m].files THEN "file"
                  ELSE IF OverlayDir(m, p) THEN "directory" ELSE Kind(Base(m), p)

ViewFile(m, p) == IF p \in DOMAIN mount[m].files THEN mount[m].files[p] ELSE Base(m)[p]

Mkdirs(dirs) == [i \in DOMAIN dirs |-> Change("mkdir", dirs[i], dirs[i], 0)]

Upserts(files) ==
  [i \in 1..Cardinality(DOMAIN files) |->
     LET p == SetToSeq(DOMAIN files)[i] IN Change("upsert", p, p, files[p])]

Changes(m, files, extra) == Mkdirs(mount[m].dirs) \o Upserts(files) \o extra

Ready(m) == mount[m].up /\ mount[m].call = NoCallback /\ Free(m)

\* What a user of one handle at a time does: other handles are closed.
Alone(m, h) == OneHandle => \A k \in Handles \ {h} : ~handle[m][k].open

(***************************************************************************)
(* The commit of the overlay.  A callback that fails leaves the branch.    *)
(***************************************************************************)
Writable(m, changes) == Rebase(Mounted[m], mount[m].base, changes) # {}

Writeback(m, view, changes) ==
  /\ WriteOverlay(m, Mounted[m], mount[m].base, changes)
  /\ mount' = [mount EXCEPT ![m] = view]

Mount(m) ==
  /\ ~mount[m].up /\ Free(m)
  /\ ResolvedHead(Mounted[m]) \notin {0, None}
  /\ mount' = [mount EXCEPT ![m] = [Unmounted EXCEPT !.up = TRUE,
                                     !.base = ResolvedHead(Mounted[m])]]
  /\ UNCHANGED <<repoVars, handle, writes>>

OpenFile(m, h, p, w) ==
  /\ Ready(m) /\ ~handle[m][h].open /\ Alone(m, h)
  /\ ViewKind(m, p) = "file"
  /\ handle' = [handle EXCEPT ![m][h] = [Closed EXCEPT !.open = TRUE, !.path = p,
                                          !.writable = w, !.opened = ViewFile(m, p)]]
  /\ UNCHANGED <<repoVars, mount, writes>>

OpenDirectory(m, h, p) ==
  /\ Ready(m) /\ ~handle[m][h].open /\ Alone(m, h)
  /\ ViewKind(m, p) = "directory"
  /\ handle' = [handle EXCEPT ![m][h] = [Closed EXCEPT !.open = TRUE, !.path = p,
                                          !.dir = TRUE]]
  /\ UNCHANGED <<repoVars, mount, writes>>

\* A new file is a handle with empty pending bytes; the parent is not looked at.
CreateFile(m, h, p, w) ==
  /\ Ready(m) /\ ~handle[m][h].open /\ Alone(m, h)
  /\ ViewKind(m, p) = "missing"
  /\ writes < MaxWrites
  /\ writes' = writes + 1
  /\ handle' = [handle EXCEPT ![m][h] = [Closed EXCEPT !.open = TRUE, !.path = p,
                                          !.writable = w, !.pending = writes']]
  /\ UNCHANGED <<repoVars, mount>>

\* host_write, host_set_file_size and host_overwrite_ex.
Write(m, h) ==
  /\ Ready(m) /\ handle[m][h].open /\ handle[m][h].writable
  /\ writes < MaxWrites
  /\ writes' = writes + 1
  /\ handle' = [handle EXCEPT ![m][h].pending = writes']
  /\ UNCHANGED <<repoVars, mount>>

\* WritableVfs::write_file accepts the path.
Stageable(m, p) ==
  /\ ViewKind(m, Front(p)) = "directory" \/ IsDir(Base(m), Front(p))
  /\ Kind(Base(m), p) # "directory" /\ ~OverlayDir(m, p)

\* host_flush and host_close with pending bytes: staged, then committed.
Stage(m, h, kind) ==
  LET p == handle[m][h].path
      files == Put(mount[m].files, p, handle[m][h].pending)
  IN /\ Stageable(m, p)
     /\ Writeback(m, [mount[m] EXCEPT !.files = files, !.call = [kind |-> kind, h |-> h]],
                  Changes(m, files, << >>))

StageFails(m, h) ==
  LET p == handle[m][h].path
      files == Put(mount[m].files, p, handle[m][h].pending)
  IN ~Stageable(m, p) \/ ~Writable(m, Changes(m, files, << >>))

Dirty(m, h) == handle[m][h].open /\ handle[m][h].writable /\ handle[m][h].pending # 0

Flush(m, h) ==
  /\ Ready(m) /\ Dirty(m, h)
  /\ Stage(m, h, "flush")
  /\ UNCHANGED <<handle, writes>>

\* The staged bytes are taken back into the handle, unless staging itself
\* failed: then they are gone.
FlushFails(m, h) ==
  /\ Ready(m) /\ Dirty(m, h) /\ StageFails(m, h)
  /\ handle' = [handle EXCEPT ![m][h].pending =
                  IF Stageable(m, handle[m][h].path) THEN @ ELSE 0]
  /\ UNCHANGED <<repoVars, mount, writes>>

CloseDirty(m, h) ==
  /\ Ready(m) /\ Dirty(m, h)
  /\ Stage(m, h, "close")
  /\ UNCHANGED <<handle, writes>>

\* Nothing to flush, or a flush that failed and is only logged.
Close(m, h) ==
  /\ Ready(m) /\ handle[m][h].open
  /\ Dirty(m, h) => StageFails(m, h)
  /\ handle' = [handle EXCEPT ![m][h] = Closed]
  /\ UNCHANGED <<repoVars, mount, writes>>

\* create_directory_and_writeback; on a conflict the directory stays staged.
StagedDirectory(m, p) == [mount[m] EXCEPT !.dirs = Append(@, p)]

MakesDirectory(m, p) ==
  /\ Ready(m)
  /\ OneHandle => \A h \in Handles : ~handle[m][h].open
  /\ ViewKind(m, p) = "missing" /\ ViewKind(m, Front(p)) = "directory"

MkdirChanges(m, p) == Mkdirs(StagedDirectory(m, p).dirs)

Mkdir(m, p) ==
  /\ MakesDirectory(m, p)
  /\ Writeback(m, [StagedDirectory(m, p) EXCEPT !.call = [kind |-> "mkdir", h |-> 0]],
               MkdirChanges(m, p))
  /\ UNCHANGED <<handle, writes>>

MkdirFails(m, p) ==
  /\ MakesDirectory(m, p)
  /\ ~Writable(m, MkdirChanges(m, p))
  /\ mount' = [mount EXCEPT ![m] = StagedDirectory(m, p)]
  /\ UNCHANGED <<repoVars, handle, writes>>

\* host_set_delete commits at once; a failure changes nothing.
Delete(m, h) ==
  /\ Ready(m) /\ handle[m][h].open
  /\ LET p == handle[m][h].path
         ch == Change(IF handle[m][h].dir THEN "rmdir" ELSE "rm", p, p, 0)
     IN /\ p # << >>
        /\ Writeback(m, [mount[m] EXCEPT !.call = [kind |-> "delete", h |-> h]],
                     Changes(m, mount[m].files, <<ch>>))
  /\ UNCHANGED <<handle, writes>>

Rename(m, h, to) ==
  /\ Ready(m) /\ handle[m][h].open
  /\ <<handle[m][h].path, to>> \in Renames
  /\ LET p == handle[m][h].path
     IN Writeback(m, [mount[m] EXCEPT !.call = [kind |-> "rename", h |-> h, to |-> to]],
                  Changes(m, mount[m].files, <<Change("rename", p, to, 0)>>))
  /\ UNCHANGED <<handle, writes>>

\* Mutant: the view stays at the snapshot the overlay was made on.
NextBase_stale(m) == mount[m].base

NextBase(m) == ResolvedHead(Mounted[m])

\* The handle after its callback: a flush reopens the file from the new view.
After(m, h, call, view) ==
  LET old == handle[m][h]
  IN CASE call.kind = "flush"  ->
            [old EXCEPT !.pending = 0, !.opened = IF old.path \in DOMAIN view
                                                  THEN view[old.path] ELSE 0]
       [] call.kind = "close"  -> Closed
       [] call.kind = "delete" -> [old EXCEPT !.opened = 0, !.pending = 0]
       [] call.kind = "rename" -> [old EXCEPT !.path = call.to, !.pending = 0]

\* The commit is done: the view moves to the branch's head, the overlay is
\* empty, and the callback reports success.
CallbackDone(m) ==
  /\ mount[m].call # NoCallback
  /\ Finish(m)
  /\ mount' = [mount EXCEPT ![m] = [Unmounted EXCEPT !.up = TRUE, !.base = NextBase(m)]]
  /\ LET call == mount[m].call
     IN handle' = IF call.kind = "mkdir" THEN handle
                  ELSE [handle EXCEPT ![m][call.h] =
                          After(m, call.h, call, Tree(NextBase(m)))]
  /\ UNCHANGED writes

\* The mount process ends: unmounted, or killed between two of its writes.
Unmount(m) ==
  /\ mount[m].up
  /\ mount' = [mount EXCEPT ![m] = Unmounted]
  /\ handle' = [handle EXCEPT ![m] = [h \in Handles |-> Closed]]
  /\ op' = [op EXCEPT ![m] = Idle]
  /\ UNCHANGED <<snaps, default, branch, remote, acked, writes>>

(***************************************************************************)
(* The shells commit the working directory.                                *)
(***************************************************************************)
Shell(i) ==
  /\ \/ \E tree \in WorkTrees : Commit(i, tree)
     \/ Finish(i)
     \/ CrashCommand(i)
  /\ UNCHANGED mountVars

WriteRefFile == /\ \E i \in Procs : WriteRef(i)
                /\ UNCHANGED mountVars

HandleCall(m, h) ==
  \/ \E p \in Paths, w \in BOOLEAN : OpenFile(m, h, p, w) \/ CreateFile(m, h, p, w)
  \/ \E p \in Paths \cup {<< >>} : OpenDirectory(m, h, p)
  \/ Write(m, h) \/ Flush(m, h) \/ FlushFails(m, h)
  \/ CloseDirty(m, h) \/ Close(m, h) \/ Delete(m, h)
  \/ \E r \in Renames : Rename(m, h, r[2])

Next ==
  \/ \E i \in Shells : Shell(i)
  \/ WriteRefFile
  \/ \E m \in Mounts : \/ Mount(m) \/ CallbackDone(m) \/ Unmount(m)
                       \/ \E h \in Handles : HandleCall(m, h)
                       \/ \E p \in Paths : Mkdir(m, p) \/ MkdirFails(m, p)

Spec == Init /\ [][Next]_vars

(***************************************************************************)
(* Properties                                                              *)
(***************************************************************************)
\* The object of a file, 0 where there is none.
Content(t, p) == IF p \in DOMAIN t THEN t[p] ELSE 0

\* A flush never writes over a change that its mount has not shown: the
\* branch's head holds at the path what the handle was opened with.  With more
\* handles open, another one may have moved the view since, which the code does
\* not notice (lib.rs 927); then it is what the view shows at that moment.
NoLostUpdate ==
  [][\A m \in Mounts, h \in Handles :
       mount'[m].call # mount[m].call /\ mount'[m].call.h = h
         /\ mount'[m].call.kind \in {"flush", "close"} =>
       LET p == handle[m][h].path
       IN Content(Tree(WritableHead(Mounted[m])), p) =
            IF OneHandle THEN handle[m][h].opened ELSE Content(Base(m), p)]_vars

\* Once a flush reports success, its handle and every later open of the path
\* read the bytes that were written.
FlushIsVisible ==
  [][\A m \in Mounts :
       mount[m].call.kind = "flush" /\ mount'[m].call = NoCallback /\ mount'[m].up =>
       LET h == mount[m].call.h
       IN /\ handle'[m][h].opened = handle[m][h].pending
          /\ Tree(mount'[m].base)[handle[m][h].path] = handle[m][h].pending]_vars
=============================================================================
