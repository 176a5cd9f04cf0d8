------------------------- MODULE HistoricalRewrite -------------------------
(***************************************************************************)
(* The historical rewrite (remote_maintenance.rs, facade.rs): bring every  *)
(* branch of the remote here, put every object and every ref again under   *)
(* the active epoch, retire the old keys, leave a checkpoint, and publish  *)
(* objects, index, keyring and refs.  A run that stops anywhere is taken   *)
(* up by the next one, from the checkpoint when there is one.  The leases, *)
(* intents and journal of the transaction are those of Publisher.          *)
(***************************************************************************)
EXTENDS ObjectCopies

VARIABLES work,       \* the rewrite or the layout change the admin device runs
          checkpoint  \* the checkpoint file and its backup: rewritten objects, or none

rewriteVars == <<copyVars, work, checkpoint>>

NoWork == [pc |-> "idle", kind |-> "none", todo |-> << >>, ids |-> << >>, next |-> 0,
         paths |-> {}, version |-> 0, listed |-> << >>, layout |-> << >>, generation |-> 0]

RewriteInit == work = NoWork /\ checkpoint = [primary |-> {}, backup |-> {}]

Proceed(pc) == work' = [work EXCEPT !.pc = pc]
At(pc) == work.kind = "rewrite" /\ work.pc = pc

\* Between the checkpoint and its removal the rewrite is under way.
Pending == checkpoint.primary # {} \/ checkpoint.backup # {}

(***************************************************************************)
(* Start                                                                   *)
(***************************************************************************)
Begun(pc, ids) == [NoWork EXCEPT !.kind = "rewrite", !.pc = pc, !.ids = ids,
                               !.todo = SetToSeq(Branches)]

\* load_historical_rewrite_checkpoint: what only the backup has is stored again.
Resume ==
  /\ work = NoWork /\ Pending
  /\ keyring' = Reconciled
  /\ LET ids == IF checkpoint.primary # {} THEN checkpoint.primary ELSE checkpoint.backup
     IN checkpoint' = [primary |-> ids, backup |-> ids] /\ work' = Begun("observe", SetToSeq(ids))
  /\ UNCHANGED <<setup, parent, remoteVars, copies, default, mirror, local, other, used>>

\* Epochs the keyrings of either side still list.
OldEpochs == (published.listed \cup Reconciled.listed) \ {Active}

NothingToDo ==
  /\ layout = local
  /\ ref[Main].head = default.head /\ ref[Main].epoch = default.epoch
  /\ OldEpochs = {}

StartRewrite ==
  /\ work = NoWork /\ ~Pending
  /\ used.rewrites < setup.rewrites
  /\ ~NothingToDo
  /\ keyring' = Reconciled
  /\ work' = Begun("hydrate", << >>)
  /\ UNCHANGED <<setup, parent, remoteVars, copies, default, mirror, local, other, used, checkpoint>>

(***************************************************************************)
(* hydrate_remote_branch_history_for_rewrite, branch by branch: objects    *)
(* that are not there are copied, the branch file is overwritten.          *)
(***************************************************************************)
Missing(h) == Reach(h) \ DOMAIN copies

Hydrated(h) == Also(copies, [o \in Missing(h) |-> EpochOf(o)])

Hydrate ==
  /\ At("hydrate") /\ work.todo # << >>
  /\ LET b == Head(work.todo)
     IN /\ Readable(b, keyring.keys)
        /\ copies' = Hydrated(ref[b].head)
        /\ mirror' = [mirror EXCEPT ![b] = [head |-> ref[b].head, epoch |-> Active]]
  /\ work' = [work EXCEPT !.todo = Tail(@)]
  /\ UNCHANGED <<setup, parent, remoteVars, keyring, default, local, other, used, checkpoint>>

(***************************************************************************)
(* rewrite_history_to_active_epoch                                         *)
(***************************************************************************)
LocalHeads == {default.head} \cup {mirror[b].head : b \in Branches}

LocalReach == UNION {Reach(h) : h \in LocalHeads}

\* Mutant: the other branches are not rewritten.
Rewritten_default == Reach(default.head)

Rewritten == LocalReach

StartObjects ==
  /\ At("hydrate") /\ work.todo = << >>
  /\ work' = [work EXCEPT !.pc = "objects", !.todo = SetToSeq(Rewritten),
                          !.ids = SetToSeq(Rewritten)]
  /\ UNCHANGED <<copyVars, checkpoint>>

RewriteObject ==
  /\ At("objects") /\ work.todo # << >>
  /\ copies' = [copies EXCEPT ![Head(work.todo)] = Active]
  /\ work' = [work EXCEPT !.todo = Tail(@)]
  /\ UNCHANGED <<setup, parent, remoteVars, keyring, default, mirror, local, other, used, checkpoint>>

RewriteRecords ==
  /\ At("objects") /\ work.todo = << >>
  /\ default' = [default EXCEPT !.epoch = Active]
  /\ mirror' = [b \in Branches |-> IF mirror[b] = NoBranch THEN NoBranch
                                   ELSE [mirror[b] EXCEPT !.epoch = Active]]
  /\ local' = [local EXCEPT !.generation = @ + 1]
  /\ Proceed("retire")
  /\ UNCHANGED <<setup, parent, remoteVars, copies, keyring, other, used, checkpoint>>

RetireKeys ==
  /\ At("retire")
  /\ keyring' = [keys |-> {Active}, listed |-> {Active}]
  /\ Proceed("store")
  /\ UNCHANGED <<setup, parent, remoteVars, copies, default, mirror, local, other, used, checkpoint>>

\* store_historical_rewrite_checkpoint: the file, then its backup.
StoreCheckpoint ==
  /\ At("store")
  /\ checkpoint' = [checkpoint EXCEPT !.primary = Range(work.ids)]
  /\ used' = [used EXCEPT !.rewrites = @ + 1]
  /\ Proceed("backup")
  /\ UNCHANGED <<setup, parent, remoteVars, device, other>>

StoreBackup ==
  /\ At("backup")
  /\ checkpoint' = [checkpoint EXCEPT !.backup = Range(work.ids)]
  /\ Proceed("observe")
  /\ UNCHANGED copyVars

(***************************************************************************)
(* Publishing.  The version the default ref must have is the one it has    *)
(* now, whatever happened since the branches were brought here.            *)
(***************************************************************************)
Observe ==
  /\ At("observe")
  /\ work' = [work EXCEPT !.pc = "upload", !.next = 0, !.paths = {},
                          !.version = ref[Main].version, !.listed = ref]
  /\ UNCHANGED <<copyVars, checkpoint>>

Batches(ids) == IF ids = << >> THEN 0 ELSE (Len(ids) - 1) \div Batch + 1

BatchOf(ids, i) ==
  Range(SubSeq(ids, i * Batch + 1, IF (i + 1) * Batch < Len(ids) THEN (i + 1) * Batch ELSE Len(ids)))

\* The segment of a batch, unless one of its name is there already
\* (upload_rewrite_segments_with_resume, publish_oblivious_segments).
UploadBatch(name) ==
  /\ work.next < Batches(work.ids)
  /\ segments' = IF name \in DOMAIN segments THEN segments
                 ELSE Also(segments, [p \in {name} |->
                              [epoch |-> Active, holds |-> Restrict(copies, BatchOf(work.ids, work.next))]])
  /\ work' = [work EXCEPT !.next = @ + 1, !.paths = @ \cup {name}]
  /\ UNCHANGED <<setup, parent, ref, loose, index, oblivious, layout, published,
                 device, other, used, checkpoint>>

UploadRewritten ==
  At("upload") /\ UploadBatch(<<"rewrite", 0, work.next>>)

\* publish_layout_if_needed with nothing observed: the generation is read here.
PublishRewrittenLayout ==
  /\ At("upload") /\ work.next = Batches(work.ids)
  /\ layout' = local
  /\ Proceed("retain")
  /\ UNCHANGED <<setup, parent, ref, loose, segments, index, oblivious, published,
                 device, other, used, checkpoint>>

\* retained_active_segment_paths_for_unrewritten_objects.
Retained == {p \in Root.paths : DOMAIN segments[p].holds \ Range(work.ids) # {}}

Retain ==
  /\ At("retain")
  /\ RootOpens(keyring.keys \cup published.keys)
  /\ work' = [work EXCEPT !.pc = "root", !.paths = @ \cup Retained]
  /\ UNCHANGED <<copyVars, checkpoint>>

\* publish_pack_index_root puts it, whatever the root is by now.
PutRoot(next) ==
  /\ index' = [epoch |-> Active, paths |-> work.paths]
  /\ Proceed(next)
  /\ UNCHANGED <<setup, parent, ref, loose, segments, oblivious, layout, published,
                 device, other, used, checkpoint>>

PutRewrittenRoot == At("root") /\ PutRoot("verify")

\* pre_commit_verify and the keyring pointer.
VersionHolds == ref[Main].version = work.version

PublishKeyring ==
  /\ work.pc = "verify" /\ VersionHolds
  /\ published' = keyring
  /\ Proceed("ref")
  /\ UNCHANGED <<setup, parent, ref, loose, segments, index, oblivious, layout,
                 device, other, used, checkpoint>>

WriteRef(b, head, epoch) ==
  ref' = [ref EXCEPT ![b] = [head |-> head, epoch |-> epoch, version |-> @.version + 1]]

SameRef(r, record) == r.head = record.head /\ r.epoch = record.epoch

PublishDefault ==
  /\ At("ref")
  /\ \/ SameRef(work.listed[Main], default) /\ UNCHANGED ref
     \/ /\ ~SameRef(work.listed[Main], default) /\ VersionHolds
        /\ WriteRef(Main, default.head, default.epoch)
  /\ work' = [work EXCEPT !.pc = "branches", !.todo = SetToSeq(Branches \ {Main})]
  /\ UNCHANGED <<setup, parent, loose, segments, index, oblivious, layout, published,
                 device, other, used, checkpoint>>

\* publish_remote_branch_refs: a branch that is not here, or is the same, is left alone.
Skipped(b) == mirror[b] = NoBranch \/ SameRef(work.listed[b], mirror[b])

PublishBranch ==
  /\ At("branches") /\ work.todo # << >>
  /\ LET b == Head(work.todo)
     IN IF Skipped(b) THEN UNCHANGED ref
        ELSE /\ ref[b].version = work.listed[b].version
             /\ WriteRef(b, mirror[b].head, mirror[b].epoch)
  /\ work' = [work EXCEPT !.todo = Tail(@)]
  /\ UNCHANGED <<setup, parent, loose, segments, index, oblivious, layout, published,
                 device, other, used, checkpoint>>

\* clear_historical_rewrite_checkpoint: the file, then its backup.
ClearCheckpoint ==
  /\ At("branches") /\ work.todo = << >>
  /\ checkpoint' = [checkpoint EXCEPT !.primary = {}]
  /\ Proceed("clear")
  /\ UNCHANGED copyVars

\* Mutant: the backup stays.
FinishRewrite_keep ==
  /\ At("clear")
  /\ work' = NoWork
  /\ UNCHANGED <<copyVars, checkpoint>>

FinishRewrite ==
  /\ At("clear")
  /\ checkpoint' = [checkpoint EXCEPT !.backup = {}]
  /\ work' = NoWork
  /\ UNCHANGED copyVars

\* A comparison fails, something cannot be opened.
Stop ==
  /\ \/ work.kind = "rewrite" /\ work.pc = "hydrate" /\ work.todo # << >>
          /\ ~Readable(Head(work.todo), keyring.keys)
     \/ At("retain") /\ ~RootOpens(keyring.keys \cup published.keys)
     \/ work.pc = "verify" /\ ~VersionHolds
     \/ At("ref") /\ ~SameRef(work.listed[Main], default) /\ ~VersionHolds
     \/ At("branches") /\ work.todo # << >> /\ ~Skipped(Head(work.todo))
          /\ ref[Head(work.todo)].version # work.listed[Head(work.todo)].version
  /\ work' = NoWork
  /\ UNCHANGED <<copyVars, checkpoint>>

Interrupt ==
  /\ work # NoWork
  /\ used.crashes < setup.crashes
  /\ used' = [used EXCEPT !.crashes = @ + 1]
  /\ work' = NoWork
  /\ UNCHANGED <<setup, parent, remoteVars, device, other, checkpoint>>

RewriteStep ==
  \/ Hydrate \/ StartObjects \/ RewriteObject \/ RewriteRecords \/ RetireKeys
  \/ StoreCheckpoint \/ StoreBackup \/ Observe \/ UploadRewritten
  \/ PublishRewrittenLayout \/ Retain \/ PutRewrittenRoot \/ PublishKeyring
  \/ PublishDefault \/ PublishBranch \/ ClearCheckpoint \/ FinishRewrite \/ Stop
=============================================================================
