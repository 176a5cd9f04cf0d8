# A TLA+ model of e2v

e2v (`src/crates`) is an end-to-end encrypted, versioned repository. A device
keeps a local repository, commits snapshots of a working tree and pushes them to
a remote that is nothing but a blob store: a folder, WebDAV, S3. Everything
that must be consistent between devices (branch refs, layout root, pack
index, keyring) is a blob that devices read and put, so the hard part of the
system is not cryptography but the order of those calls. On the desk it is the
same with files: commands of several processes, a mounted file system and a
search index read and write one directory, with hardly a lock between them.

This directory models that order. It is written from the source; the documents
(`src/plan.md` and those under `src/docs`) are quoted only where the code and a
document differ.

- [Inventory](#inventory): the parts, their state and what makes them correct
- [Modules](#modules): what is modelled, and how it corresponds to the code
- [Runs](#runs): what TLC checks, with which bounds, and why they are enough
- [Disagreements](#disagreements): where the code and its documents differ
- [Proofs](#proofs): what TLAPS proves and how
- [Limits](#limits): what is only model-checked, and what is not modelled
- [What could follow](#what-could-follow)

## Inventory

| part | source (`src/crates/...`) | state | operations | correct when | modules |
|---|---|---|---|---|---|
| transaction publisher | `e2v-sync/src/publisher.rs`, `transaction.rs`, `remote_markers.rs` | `leases/<branch>.lock`, `transactions/active/<op>.intent`; a session | begin, heartbeat, pre-commit verify, publish layout, publish ref, complete | one publisher at a time per branch; an upload in progress has its intent on the remote | `Publisher`, `ObliviousLayout` |
| push, resume | `push.rs` | none of its own | `push_head`, `resume_push` | the published ref extends the one before; all it reaches is on the remote and found there | `Publisher`, `UploadResume`, `PackIndex`, `ControlPlane`, `ObjectCopies` |
| operation journal | `journal.rs` | SQLite: metadata and object states per operation | begin, plan, record, page | states only advance; a lost journal costs work, never data | `UploadResume`, `Publisher` |
| ref store, backends | `e2v-store/src/*_backend.rs`, `ref_store.rs` | blobs with a version or a time | get, put, put if absent, list, delete, compare-and-swap | a version is used once; a crash leaves old or new content | `Publisher`, `RefHistory`, `RemoteFiles` |
| layout root store | `layout*.rs` | `layout_root.json`, retained roots | compare-and-swap of the generation | generations grow; every head resolves | `ObjectCopies`, `ObliviousLayout` |
| packs and pack index | `pack.rs`, `pack_index.rs`, `pack_cache.rs` | data packs, index segments, an encrypted root; local caches | publish root, append, compact, load | every published object is found, once; caches never serve the wrong segment | `UploadResume`, `PackIndex`, `ReadPath` |
| fetch, pull, clone | `fetch.rs`, `clone.rs`, `e2v-api/src/lib.rs` | the local objects and control files | fetch, pull, clone | a crash leaves a repository that opens; local work is not lost | `RemoteFetch`, `ControlPlane`, `Branches`, `ObjectGraph` |
| trusted state | `trusted_state.rs`, `fetch.rs` | least keyring generation and ref version seen | check, raise, force-accept | a rolled back remote is refused | `ControlPlane` |
| remote maintenance | `remote_maintenance.rs` | delete journal, rewrite checkpoint and its backup | dry run, collection, verify, repair, accept, historical rewrite | nothing reachable, or being uploaded, is deleted; a rewrite ends with every branch readable | `GarbageCollection`, `HistoricalRewrite`, `RemoteCheck` |
| oblivious layout | `oram.rs`, `e2v-store/src/oblivious_layout.rs` | layout root in oblivious mode, segments | enable, reshuffle | what heads reach is found through the layout | `ObliviousLayout` |
| repository facade | `e2v-core/src/facade.rs` | refs, manifests, keyring | commit, branches, checkout, overlay writeback, search, reads, sharing | a head moves forward, no writer is lost | `Repository`, `Branches`, `WorkingTree`, `WritableMount`, `ReadPath`, `Unlocking` |
| keyring | `keyring.rs` | generations and a pointer, unlocked secrets of a process | unlock, change password, revoke, accept, retire, merge, reconcile | the pointer names a complete generation; revocation sticks; members get in | `Keyring`, `ControlPlane`, `Unlocking` |
| manifests, working tree, index | `manifest_store.rs`, `working_tree.rs`, `local_index.rs`, `chunker.rs` | objects, directory with its mapping, search database | build, walk, stable read, scan, stage, publish, search | a snapshot has all its objects and never mixes two saves of a file | `ObjectGraph`, `StableRead`, `WorkingTree`, `LocalIndex` |
| virtual file system | `e2v-vfs/src/*.rs` | namespace, overlay, handles, caches | mount, open, read, write, flush, rename, delete, refresh | a reader sees one snapshot; conflicts are reported | `WritableMount`, `ReadPath`, `FileRanges` |
| API, C ABI, CLI, web, GUI | `e2v-api`, `e2v-cli`, `e2v-sync/src/web.rs`, `e2v-gui` | handles, jobs, sessions | forward to the above | no state of the repository is kept here | pull in `Branches` |
| diagnostics, benchmark | `remote_probe.rs` and others, `bin/p1_c_pack_bench.rs` | none that others read | probe, parse, measure | | not modelled |

**How they interact.** `push_head` exports the head from the facade, loads the
remote inventory (pack index and loose objects), begins a journal record, opens
a publish session (lease, intent), uploads, publishes keyring generations,
layout root and pack index, verifies its markers, publishes the keyring pointer,
swaps the ref and completes. `fetch` reads the same blobs in the other
direction, writes objects and control files and raises the trusted floor. The
collection reads refs, intents and index and deletes. All of these meet in the
remote only: there is no server. In the local directory, commands, a mount and
searches meet in the refs and the keyring files.

**What is hard.** Calls of different devices interleave at every remote call. A
process may die between any two. The "compare and swap" of a ref and of the
layout root is a read and a put in every backend. Leases expire by the remote's
clock. The local repository has no lock, so a commit may run while a push does.
Results are remembered (journal, checkpoints, caches, trusted floor, unlocked
secrets, the base of a mount) and used when the world has moved.

The hazards these make are listed in `PROJECT.json`, each at its line, with the
properties that cover it, or a note saying why none does.

## Modules

Five groups, each with a chain of modules of which every one extends the one
before:

| group | modules, each extending the one to its left |
|---|---|
| publishing | `RefHistory` (abstract) ← implemented by `Publisher`; `UploadResume` |
| remote store | `PackIndex` ← `GarbageCollection`; `ObjectCopies` ← `HistoricalRewrite` ← `ObliviousLayout` ← `Layouts` ← `LayoutInvariants` |
| transfer | `RemoteFiles` ← `RemoteFetch` ← `RemoteCheck` ← `Transfer` |
| keys | `Keyring` ← `ControlPlane`; `Unlocking` |
| desk | `Repository` ← `Branches`, `Repository` ← `LocalIndex` ← `WorkingTree`, `Repository` ← `WritableMount`; `FileRanges` ← `ReadPath`; `ObjectGraph`; `StableRead` |

`MC*` modules give the constants their values for TLC; `MCDesk` also puts the
parts of one desk into one specification. `LayoutInvariants` has the inductive invariants of
`Layouts`, without proofs. The theorems are in `PublisherProofs`,
`UploadProofs`, `GarbageCollectionProofs`, `KeyProofs` (of `ControlPlane` and `Layouts`), `TransferProofs`,
`RepositoryProofs`, `DeskProofs` (of `WorkingTree`, `StableRead` and `Unlocking`) and
`ReadProofs` (of `FileRanges` and `ReadPath`).

The groups look at the same operations through different glasses. A push is a
sequence of remote calls on one branch in `Publisher`, of objects in
`UploadResume`, of paths and segments in `PackIndex`, of keyring and ref writes in
`ControlPlane`, of key epochs and locations in `ObjectCopies`, of files as a
backend keeps them in `RemoteFiles`. What one module leaves out (an error of the
lease, say) is in the others a step that may fail at any time.

### Publisher

State: the remote (`now`, `ref`, `stored`, `lease`, `intents`), each device's
repository (`local`, `made`, `journal`, `planned`, `expected`) and its
operation (`pc`, `n`, `mode`, `snap`, `next`, `observed`). A snapshot stands for
its whole graph; a chain of snapshots, oldest first, stands for a head with its
ancestors. `stored` holds the snapshots whose graph is entirely on the remote:
a partial upload leaves it unchanged.

Each action is one remote call of `push_head_inner`, `resume_push` or
`SimpleTransactionPublisher`, with the local code around it:

| steps | code |
|---|---|
| `StartPush`, `ReadRefToPush`, `CheckAncestors` | `push.rs` 1018-1127: export the head, read the ref bytes, compare with the remote ref, check that every ancestor is in the inventory, begin the journal record |
| `StartResume`, `ReadRefToResume`, `ResumeUpload` | `push.rs` 1263-1483: today's head with the recorded expected version; upload what the journal has pending, or else what the head reaches |
| `Acquire` ... `Stamp` | `publisher.rs` 113-165: put-if-absent; if refused probe the remote clock, stat the lease, read it, delete it, create it again; then rewrite it with its time |
| `OpenIntent` | 169-198: the intent is put over whatever is there |
| `PlanObjects`, `Upload`, `Beat`, `BeatPut` | `push.rs` 1145-1203, `publisher.rs` 437-468 |
| `VerifyIntent` ... `VerifyObjects` | `publisher.rs` 492-528 and, for a resume, `push.rs` 419-436 |
| `CasRead`, `CasWrite` | `compare_and_swap_ref`, the same in every backend |
| `Close`, `Release` | `complete`: delete the intent, then the lease, unread |
| `CleanIntent`, `CleanLease`, `CleanDelete` | `cleanup_completed_operation_markers` |
| `Fail` | a crash, or the error any step returns: nothing is undone, only memory is lost |
| `Commit`, `Fetch`, `LoseJournal` | the local repository meanwhile |

Where the code decides by the device's own clock (a heartbeat is due) the model
lets either happen. A step whose guard is false is an operation that returns an
error there: `Fail` is what it then does.

Constants choose the environment: `UseLease` (a single-writer backend with an
atomic create, such as a folder or S3; otherwise a multi-writer one, or WebDAV
with the risk accepted), `Overlap` (operations of two devices run at a time),
`ResumeEnabled`, `SharedOp` (the GUI's constant operation identifier),
`RepoLock` (no commit while an operation of the same device runs: what the
documented `.e2v/lock` would give; the source has no lock).

Properties: `LeaseHeld`, from acquiring the lease to releasing it an operation's
lease is there and is its own, although deleting, taking over and overwriting are all
unguarded in the code; `RefIsHistory`, `Publisher` implements `RefHistory`: no lost
update although the swap is two calls; `AncestorClosure`, the ref never names a chain
with a snapshot that is not on the remote; `LeaseLostToTakeover`, only the deletion of a
takeover ends the time in which one operation has the lease, and it deletes what was stale
when the taker read the remote's clock, or was put since. That last case is the race the code
has: the lease is looked at several calls before it is deleted.

### UploadResume

`Publisher` asks who may publish; `UploadResume` asks whether what is published can
be read. It opens the step `Upload` of `Publisher`: a snapshot is the set of
objects it reaches, and each client pushes a branch of its own, so that the lease
and the swap play no part. Clients share the object store and the index root.

State: the remote (`loose`, `segment`: the objects that each index segment lists,
`root`: the segments the index root names, `ref`), each repository (`head`,
`ops`, `journal`: the state of each object in each operation, `expected`) and
the running operation `s[c]`, a record of the local variables of `push_head_inner`
and `resume_push`. A segment is named by its client, operation and number.

| steps | code |
|---|---|
| `StartPush`, `PushInventory`, `PlanObject`, `EndPlan` | `push.rs` 1018-1164: load the index and list loose objects, check the ancestors, enter the operation and all its objects into the journal |
| `TakeBatch`, `PutLoose`, `PutPack`, `Record`, `EndUpload` | `upload_objects_with_policy`, `upload_object_batch`: large objects first, then one pack and its index segment; the journal is written after each |
| `StartResume`, `ReadPage`, `ScanRecord`, `EndScan` | `resume_push` 1263-1394: the packs of the operation by their names, then page by page what is pending |
| `FullInventory` | 1397-1470: nothing was pending, so the head's objects are compared with the remote |
| `Match`, `ReadRoot`, `PutRoot`, `VerifyObjects`, `PublishRef` | 1473-1596 and, for a push, 1210-1255 |
| `Refuse` | every check that ends the operation with an error |
| `Stop` | a crash or an error of the transport, at most `MaxStops` times |

What a resume believes is modelled field by field, because that is where it can
go wrong: it knows the objects of its own packs (`known`), not those of the root;
the locations of uploads made after a full inventory are dropped when the block
ends (`Locating`); the root it extends is read after the upload for a paged resume
and before it for the others (`Index`). Identifiers of objects are numbers, in the
order in which the journal's pages are sorted.

Properties: `PublishedIsStored`, what a ref reaches was uploaded; `PublishedIsLocatable`,
it can also be found from the index root and the loose objects, which is all another
device has; `IndexUnambiguous`, the root's segments list no object twice (the loader
fails on the first duplicate, on every device); `VerifiedIsStored`, a journal's
`verified` can be trusted; `FirstPushEnds`, a first push that is begun is published in
the end.

### PackIndex, GarbageCollection

`PackIndex` has the store as paths: `file` maps the paths of packs, segments and loose
objects to their content and the day of their last write; `root` and `rootAt` are the
index root; `cache` is what each device keeps of segments it read. A push (`s[c]`)
loads the index through its cache (`load_remote_pack_index_segments`), numbers its
packs by the segments that carry the operation's name, uploads, reads the root again,
extends it, and, past `bound` segments, rewrites all of them into one compacted
segment before it puts the root; then it publishes the ref and closes its intent.
`Settings` choose the bound of the compaction, whether caches outlive an operation, and whether
a push may stop between the index root and the ref (`torn`). The code keeps its caches and
may stop there.

`GarbageCollection` adds `gc_dry_run` and `gc_execute`: `GcFence` captures refs, fresh
intents and root; `GcMark` computes what is reachable (`Reachable`: published graphs,
the device's own recent unpublished snapshot, segments of the root and the packs they
describe) and writes the delete journal; `GcCheck` captures the fence again and
compares; `GcDelete` takes one file at a time, if it is older than the grace period by
the latest write the code looks at; `GcReplay` takes up the journal of an interrupted
collection; `GcAbort`, `GcError`, `GcDone`, `GcCrash` end one. No push begins inside a collection
(`Window`): `gc_execute` has the user confirm such a window on backends of a single writer
(`remote_maintenance.rs` 1364-1368), which are the ones modelled. It does not ask for it on the
others (Disagreements, *Index and collection*).

`RootsLoad`: an index root that a push puts loads on a device with an empty cache, that is, its
segments and packs are there and no object is listed twice, as the loader demands
(`LoadsFresh`). `IndexKeepsListing`: what the segments of the root list stays listed, over
compactions that write over the compacted segment the root names, kept and stale caches,
crashes at every write, and collections; unless a push puts a segment under the name of one
that is listed. `PublishedIsReadable`: where caches are dropped and no push stops between root and
ref, the root loads, and every published object is in the pack that it names, or loose and in
none. One state is excepted by name (`Overtaken`): a crash between a compaction and its root
leaves a root beside a compacted segment that holds one of its segments whole, and no device
loads it (Disagreements, *Index and collection*).
`DeletesSpareIntents`: no file goes while a fresh intent announces an operation.

### Keyring, ControlPlane

`Keyring` is the content of a generation and the ways it is made: `Merge` of a local
and a remote keyring (`keyring.rs`), `Revoke`, `WithPassword`, `Bootstrap`. An envelope is what it opens:
device envelopes open for the active devices, the password envelope for a password.

`ControlPlane` has every device's control directory (`loc`: keyring files, pointer,
ref, update journal and lock), its operation (`op`: where it is, the keyring it is
writing and what follows, what a push or a fetch has read), its trusted floor, the remote
(keyring files, pointer, branch ref with versions) and invitations under way. A keyring
update is `Update`, `WriteGeneration`, `WritePointer`, `ReleaseLock`, `DropJournal`
(`facade.rs` 4151-4197), and `UnlockFromJournal` replays the journal. A push
reconciles its keyring with the remote's (`StartPush`), checks that both refs open
(`Prepare`), uploads generations, reads and
swaps the pointer, on a conflict merges and tries once more, then publishes the ref.
A fetch checks the floor, reads the control plane, writes keyring files, ref and
pointer in turn and raises the floor; `StartVerify`, `EndVerify` and `ForceAccept` are
the other users of the floor. `Crash` stops any of them.

`PointerResolves`, `PublishedHasPassword`, `PublishedRefReadable`: whatever the order of
publications, another device can fetch. `RevokedStaysRevoked`: no later publication
takes a revocation back. `RevokedLackActiveKey`: no keyring that opens for a revoked
device, anywhere, holds the key that new data is written with. `LocalHeadReadable`: a
device reads its own head unless a fetch was interrupted.

### Unlocking

Several processes in one control directory (`dir`), each with what it unlocked
(`cache`, with the bytes it was read from) and a command under way (`cmd`): unlock by
password (journal recovery included), commit, change the password, revoke a device,
accept a device, retire old keys, clone by password, fetch. Every envelope seals the
secrets (epoch keys) it was made from; an update rebuilds the envelopes from what the
process opened (`Rebuilt`, `Sealed`) and is written in the four steps of
`ControlPlane`. `members` are the devices entitled to the secrets, `known` the
passwords of which one is in force as far as the user was told.

`SecretsAreCurrent`: a cache that passes the comparison of bytes holds the secrets of the
current keyring. `MembersReadTheHead`, `SomePasswordOpens`: an update cut off anywhere
leaves each member an envelope that reads the ref, and a password the user knows.

### Repository, Branches, LocalIndex, WorkingTree

`Repository` holds snapshots with their trees (`snaps`), `refs/default.json`
(`default`), the branch files (`branch`), the remote head, and a command under way
(`op`) that has read the refs, built its snapshot and still has to write one or two ref
files. `Overlaid` applies the changes of an overlay to a tree, `Conflicts` and `Rebase`
are what a writeback does when the branch has moved (`facade.rs` 912-1009, 3482-3940). Commands:
commit, writeback, create, delete and check out a branch, push, pull (the fetch that
overwrites the refs, and their restoration); `CrashCommand` cuts one off between two ref
files. `AcknowledgedStays`: what a command reported stays in the history of its branch, in both
ref files. `TreesAreWellFormed`: a rename or rebase leaves a directory above every
entry.

`LocalIndex`: a search reads the head, brings the database to it in one transaction
(`sync_index_rows`), or builds it anew if damaged, and queries it, while commits move
the head. `SearchShowsItsHead`: the rows are those of the head the search read.

`WorkingTree`: the user edits and erases; a commit scans; a checkout stages each file
beside its place (`StageFile`), publishes it by removing and renaming, removes what the
last checkout left and this one lacks, and records its files (`mapping`). It may fail
or be cut off anywhere. `CheckoutShowsSnapshot`: once cleaned up, the directory shows
the snapshot, whatever an interrupted checkout left behind.

### WritableMount

`WritableVfs` and the WinFSP host: a mount keeps the snapshot it is based on and an
overlay (`mount[m]`), handles keep the content read and the content written
(`handle[m][h]`). `Write`, `Stage`, `Flush`, `CloseDirty`, `Mkdir`, `Delete`, `Rename`
go through the host's callback: stage the bytes, compute the changes, look for
conflicts between base and head (`Writeback`), commit, and `CallbackDone` rebases the
view. `Shell` commits move the branch meanwhile; a mount is killed at any point.
`NoLostUpdate`: a flush never writes over a change its writer has not seen.
`FlushIsVisible`: a flush that reports success is what its handle and later opens read.

### FileRanges, ReadPath

`FileRanges` has the byte arithmetic of the code, bounds included: ranges over chunks
and shards of chunks (`append_requested_bytes_from_chunks`), covering ranges of a
cache, merging of cached ranges, writes, appends and resizes of pending bytes.

`ReadPath` follows one read through four levels: the range kept by the open handle, the
plaintext cache of the mount (least recently used, under a budget), the encrypted range
cache on disk that mounts share (blobs and their lists, written one after the other),
and the object store, whose missing chunks are looked for in cached packs. A commit
rewrites chunk objects in place, live mounts move to the new version, mounts, committer
and pack cache stop anywhere and leave torn files. `ReadsAreExact`: an answer is exactly
the bytes the handle's snapshot and edits have there. `CachesAreExact`: what caches hold
is what the snapshot holds at that place, and the plaintext cache counts right.

### ObjectCopies, HistoricalRewrite, ObliviousLayout, Layouts

`ObjectCopies`: where each object is on the remote (loose or in a segment) and under
which key epoch, how a reader finds it through layout root, index root or oblivious root
(`Readable`), and the pushes of an admin device and another one. `HistoricalRewrite`:
bring every branch here, put each object and ref again under the active epoch, write the
checkpoint and its backup, retire the old keys, upload segments, publish index, keyring and
refs, remove the checkpoint; a run that stopped is resumed from the checkpoint.
`ObliviousLayout`: enable and reshuffle collect what every branch reaches, write
segments, put `oblivious/root.json` and swap the layout root. `Layouts` puts them
together.

`HeadsAreReadable`: whenever no rewrite is under way, a holder of the published keyring
reads every branch. `RetiredKeysAreUnused`: keys go only when nothing local is under
them. `RewriteEnds`: a rewrite that reached its checkpoint is published in the end.

### RemoteFiles, RemoteFetch, RemoteCheck, Transfer

`RemoteFiles` is the remote as a backend keeps it: a local folder truncates and writes
(a crash leaves a torn file), others replace; some list recursively, some one level. A
device pushes to it file by file, objects, keyring, layout root, ref. `RemoteFetch`:
`clone_remote` and `fetch_remote` read the control files, check the graph of the head,
copy what is lacking or unhealthy and replace the device's own control files one by
one. `RemoteCheck`: `verify_remote`, `repair_remote` and
`force_accept_remote_rollback`. Objects on either side may fail or be damaged.

`DoneIsWhole`: success means the head opens with its whole graph. `FetchKeepsObjects`,
`HeadStaysWhole`: no step of a clone or fetch, nor a crash, takes a readable object or a
whole head away. `VerifyOnlyHeals`: a verification leaves what it found readable so.

### ObjectGraph

The objects a snapshot is made of, by content, with directories of many entries and
files of many chunks cut into shards, and the four walks over them: what a push
collects, what a fetch downloads and a collection keeps, what verification follows, what
reading opens. They are separate functions in the code and separate operators here.
`PublishedIsFetchable`: push and collection leave what a fetch reaches.
`FetchedReadsBack`: what was fetched verifies and reads back as committed.

### StableRead

`open_stable_file`: a file is read between two looks at its length and time of
modification; one that was modified a moment ago (two seconds) is read twice. The user
writes piece by piece at any time; the file system's times may be coarse.
`ReadIsOneContent`: the bytes taken are contents the file had at one moment, unless it
was classified as old and written before the attempt that succeeds looked at it (`late`: between
opening and the first look, or while an earlier attempt failed; see Disagreements).

## Runs

Twelve runs, one for each question. All pass. Deadlock is not checked in any of
them: the bounds on operations, crashes, writes or time are used up and nothing is
left to do, which is no deadlock of the code. Every disjunct of each next-state
relation is taken by some run.

| run | module | question |
|---|---|---|
| `publisher_fresh` | `MCPublisher` | do leases keep one publisher, and is the ref's history atomic (`LeaseHeld`, `RefIsHistory`)? |
| `publisher_closure` | `MCPublisher` | is every published chain complete, whoever takes over, and does only a takeover end a lease (`AncestorClosure`, `LeaseLostToTakeover`)? |
| `upload_both` | `MCUploadResume` | is what is published stored, and the journal truthful (`PublishedIsStored`, `VerifiedIsStored`)? |
| `upload_serial` | `MCUploadResume` | is what is published found (`PublishedIsLocatable`, `IndexUnambiguous`)? |
| `upload_ends` | `MCUploadResume` | does a first push end (`FirstPushEnds`)? |
| `pack_gc` | `MCGarbageCollection` | does the index survive compaction, caches and collection (`PublishedIsReadable`, `RootsLoad`, `IndexKeepsListing`, `DeletesSpareIntents`)? |
| `control` | `MCControlPlane` | do keyring, ref and floor agree between devices (`PointerResolves`, `PublishedHasPassword`, `PublishedRefReadable`, `RevokedStaysRevoked`, `RevokedLackActiveKey`, `LocalHeadReadable`)? |
| `layouts` | `MCLayouts` | do heads stay readable through rewrites and layouts (`HeadsAreReadable`, `RetiredKeysAreUnused`, `RewriteEnds`)? |
| `transfer` | `MCTransfer` | does a transfer that reports success succeed, and harm nothing (`DoneIsWhole`, `FetchKeepsObjects`, `HeadStaysWhole`, `VerifyOnlyHeals`)? |
| `mount` | `MCWritableMount` | is a write through a mount neither lost nor losing (`NoLostUpdate`, `FlushIsVisible`, `TreesAreWellFormed`)? |
| `readpath` | `MCReadPath` | does every cache level return the right bytes (`ReadsAreExact`, `CachesAreExact`)? |
| `desk` | `MCDesk` | do the commands of one directory keep history, directory, search, secrets, objects and files (`AcknowledgedStays`, `CheckoutShowsSnapshot`, `SearchShowsItsHead`, `SecretsAreCurrent`, `MembersReadTheHead`, `SomePasswordOpens`, `PublishedIsFetchable`, `FetchedReadsBack`, `ReadIsOneContent`)? |

### Bounds, and why they are enough

**Publisher.** Two devices are what a race needs; every race is about one lease, one
intent or one ref. `publisher_fresh`: time 1 with expiry 1, so that no lease is ever
stale, one commit, two pushes and any number of resumes of each device: an operation
fails, leaves its markers, and is followed by another. `publisher_closure`: time 2, so
that a lease is taken over, two commits (a middle ancestor), two pushes, no resume, one
operation identifier for all, no commit during an operation.

**UploadResume.** Packs take two objects, pages two; two missing small objects make a
push use packs, as in the code. A snapshot of four or five objects makes two or three packs,
or three pages, so a page may be skipped and a pack may be left over; `Large` mixes loose
and packed objects in one batch; histories share objects between snapshots and
between clients, so an object may be in a pack of another operation. `upload_both`: two
clients at once, two operations each, one stop, with resume. `upload_serial`: in turn,
three operations, two stops, no resume; failed pushes are followed by complete ones.
`upload_ends`: one client, loose objects, three stops, so that a resume is interrupted too.

**Packs and collection.** Eight objects in four commits of two devices that share one;
two pushes each, two crashes, two days of the clock, two collections by one device; grace
and intent expiry of one day. Two settings: the code as it is, with caches that are kept,
compaction past one segment (so that nearly every push compacts; the bound of four of the code
is reached with fewer objects) and crashes anywhere, in which `IndexKeepsListing` and
`DeletesSpareIntents` are checked; and compaction past two segments, with caches that are
dropped and no crash between index root and ref, in which `RootsLoad` and
`PublishedIsReadable` are checked too. They say nothing of kept caches and torn pushes, with which
they do not hold in general: three pushes of each device that share objects are enough for a
stale cached segment to break both (see Disagreements). Devices take turns, and no push begins inside a collection (`Window`).

**Control plane.** Two or three devices, one commit, two keyring updates at most. Four
settings: a revocation beside an admin that does not revoke; a revocation or password
change with a crash anywhere; a revocation beside an invitation; overlapping pushes of
two devices that change the password. In the first three pushes take turns, because
overlapping pushes lose a revocation (see Disagreements).

**Layouts.** Two branches with a common ancestor, up to five snapshots, one of which
was pushed as a pack and one loose. `Rewrites`: one rewrite with two crashes, so that a
resume is interrupted too, and pushes between its runs. `Overtaken`: one rewrite with a
push at any point. It stops at one push because a second one would lose its segment: of
two pushes of different branches, one between the rewrite's `Retain` and its
`PutRewrittenRoot` is dropped from the index, which is put without a comparison, and its
branch is skipped as unchanged by the rewrite (see Disagreements). `Changes`: three layout changes of what was pushed before, two
crashes. `LoosePushes`: a push of loose objects at any point of three layout changes, none
of which is interrupted: one that is takes the segments of its first attempt for its own,
whatever has been pushed since (see Disagreements). One
rewrite is completed at most: a second reuses names (see Disagreements). What
was packed at first is reached by a branch: a rewrite does not survive the segment of a push
that stopped before its ref (see Disagreements).

**Transfer.** A snapshot is a manifest and a chunk, two branches. Five kinds of backend
(`folder`, `webdav`, `opendal`, `memory`, `s3`) as they differ in writing and listing. One push
with one layout change or one keyring update, one crash of either device, two operations of the device,
one damaged object on each side, damaged between operations. Torn files come from the crash
of a push to a folder.

**Mount.** A directory, a file in it and one beside it; three snapshots, two writes, renames
of each file over the other, commits of two working trees; commands in turn, one handle at a time,
the mount killed anywhere. Two handles of one mount lose an update (see Disagreements).

**Read path.** Three chunks of which one is shared by two files, one with its chunks
inline and one in two shards; requests for all, for parts, for the last byte and past
the end. Four settings: edits through two handles of one mount; chunks missing here
and found in packs; two mounts that share the disk cache, with a crash; a mount that moves
to a new version, with a crash. Budgets of 3 or 4 bytes hold one file and not two.

**Desk.** The parts share no state that the properties tell apart (search and checkout share
the refs, and are one part), so a behaviour of the desk is one of one part; putting
them in one specification costs the sum of their states and not the product.
*Files*: two snapshots, two edits, a file in a directory and one beside it: a checkout
replaces, removes and empties. *Refs*: two branches, four snapshots, one tree each.
*Secrets*: two processes, commands in turn with one crash and three updates; a fetch; a
clone by password; and unlock, commit and password change that overlap. *Objects*: seven
directories at and over the limits of two entries and two chunks, with equal parts and
three levels, in any three commits. *Reading*: times in steps of one or two seconds, a
clock of four, three writes; both attempts of a reading see a write.

**Fairness.** `FirstPushEnds` assumes that a running operation takes its next step
(the code has no step that waits) and that the caller resumes an unfinished push
again and again: `resume_push` is called by nobody in the source on its own, it is
the caller's retry. `RewriteEnds` assumes that a rewrite that runs goes on, and that the
admin repeats one that was interrupted (`WF(Resume)`, `WF(RewriteStep)`): the checkpoint
waits for the next call, which is again the caller's retry. Stops are bounded; nothing else
is assumed.

## Disagreements

`PROJECT.json` lists, under `findings`, where the code does not do what a document, a
comment or a test says of it, each with its line and the line it differs from. They were
met while modelling; the models state how the code behaves, and a constant, a setting or
a guard keeps the runs to the environment in which the property holds. In short:

- *Publishing.* A lease can be deleted after it was taken over (the second
  taker of a stale lease, or a holder that wakes up: the last case of `LeaseLostToTakeover`). The swap of a ref is a read and a put; with no lease two pushes
  lose one of them (`UseLease = FALSE`). A push exports its head and reads the ref file
  in two steps: with a commit in between it publishes what it did not upload
  (`RepoLock = FALSE`; `plan.md` 2480 describes a lock `.e2v/lock` that the source does not
  have). A device that committed twice is refused for good. All GUI pushes
  have one operation identifier and delete each other's intents. A resume is refused by its own
  lease until that is 72 hours old.
- *Resume.* It publishes a head whose middle ancestor was never uploaded, leaves the
  segments of the interrupted push out of the index root, packs objects twice, and skips
  pages of its journal (`ResumeEnabled = TRUE` in `upload_serial`).
- *Index and collection.* The index root is put without a comparison. A compacted
  segment is put in place at a path that caches and the current root may know. A push
  that stopped between index root and ref leaves packs that a collection deletes while the root
  lists them (`torn = TRUE`). A compaction that
  was cut off before its root makes the index unreadable (`Overtaken`). Only on
  backends of a single writer does a collection ask for a maintenance window. A collection whose fence changed can never be replayed.
- *Keys and floor.* Pointers are compared with what was just read, never by generation; a
  push that merged after a conflict points at a generation it did not upload;
  overlapping pushes lose a revocation; an accepted rollback does not lower the floor; a
  crash leaves the keyring lock for good; a process caches old secrets under new
  bytes, and a device cloned by password falls back to its first keyring; two
  revocations at once give one epoch two keys.
- *Local.* Pull overwrites the local refs for a moment (`PullMayCrash = TRUE`, where
  `AcknowledgedStays` has to leave out the branch that is pulled); writebacks and commits
  do not exclude each other (`Concurrent = TRUE`); a live refresh moves the base under staged changes
  (`OneHandle = FALSE`, where `NoLostUpdate` demands what the view shows and no longer what the
  handle read); a failed flush drops the bytes; a checkout removes a file before it renames
  the new one into place; whether a file is read twice is settled before it is read.
- *Layouts and transfer.* A rewrite and a push overwrite each other's refs; a resumed rewrite
  publishes today's head with yesterday's objects; a second rewrite reuses the names of the
  first; keys may retire before the checkpoint; a rewrite keeps the segment of a push that
  stopped before its ref in the index and retires its key, after which nothing can be read
  (`layouts` with a fourth first snapshot, a child of 1 and no head, and `PackedAtFirst = {4}`);
  a layout change that is run again after a push mixes the batches of two
  lists under the same names; a push under an oblivious layout is not found
  by others, and puts an old layout root over a newer one. The folder backend tears refs and objects. Repair and acceptance
  overwrite healthy objects with unauthenticated ones. A fetch interrupted before its
  branch mirror is not completed by the next.

## Proofs

`PublisherProofs` proves, for any number of devices and any bounds:

- `TypeCorrect`: `Spec => []TypeOK`.
- `LeaseIsHeld`: in `Environment`, `Spec => []LeaseHeld`. `Environment` says that
  operations do not overlap, or that leases outlast the run (`MaxTime <= Expiry`)
  and operations are told apart. Without it the property is false. The invariant is
  `LeaseInv`: `OneAtATime`, `NoTakeover` (no device is on the takeover path while no
  lease can be stale) and `Exclusive`, which adds to `LeaseHeld` the cleanup that is
  about to delete its lease. The key lemma is `Alone`: a device in a step that deletes
  or overwrites the lease is the only owner.
- `TakeoversAreOfStale`: `Spec => LeaseLostToTakeover`, in every environment. While one operation
  has the lease (`OneHolder`), every other device is in no step that writes the lease file, finds
  another's name in it, or is a taker (`OneHolderStep`). What a taker has found stale was so by
  the clock it read, and what is there when it deletes is that, or was put later (`FoundStale`).
- `RefHistoryImplemented`: in `Environment`, `Spec => RefIsHistory`. The invariant
  (`IInv`) adds `ParentLinks` (chains with a snapshot in common agree up to it),
  `ExpectedVersion` (an expected version that is current belongs to a history the
  local head extends; this is what carries a resume across commits and fetches)
  and `ExtendsRef` (the ref bytes an operation holds properly extend the published
  chain while its expected version is current, and at the put it is current).
- `PushedClosure`: `Spec => ClosureLostByUnchecked`, in every environment: a ref that had its
  whole chain in the remote loses it only to a resume, or to a push whose head a commit moved
  after it was exported (`PublishesUnchecked`; Disagreements, *Resume* and *Publishing*). The
  invariant is `PushedParts`: after its checks a push knows that the ancestors are stored, and
  after its upload all of the snapshot.

`UploadProofs` proves, for any clients, histories, pack and page sizes, with or
without overlap and resume:

- `UploadTypeCorrect`: `Spec => []TypeOK`. With it goes `Numbered`: the packs of an
  operation are numbered without gaps. The count that names the next pack is
  therefore a name that is free (`PackNumber`), which `Grows` needs.
- `SnapshotsAreStored`, `JournalIsTruthful`, `RootNamesSegments`:
  `Spec => []PublishedIsStored`, `[]VerifiedIsStored`, `[]RootAfterSegments`. The
  invariant `StoreInv` adds what a running operation believes (`Sound`): its known
  and fresh objects are stored, the segments it saw or added exist, and one that is
  about to publish has a stored graph. The store only grows (`GrowsStored`), so what
  one client knows, no step of another makes false (`StoreStep`).
- `SnapshotsAreLocatable`: `Spec => LocatableLost`. A published snapshot stops being locatable only
  where a root is put over one that another operation extended since it was read
  (`OverwritesIndex`), or a ref is published by a resume, or by a push whose segments another
  root dropped (`PublishesUnindexed`). No crash, retry or journal does it.
- `IndexStaysUnambiguous`: `Spec => AmbiguousByResume`. The root that a push puts lists no object
  twice, whatever others put meanwhile; only that of a resume can.

  Both rest on `PushInv`, which says of each step of a push what the root it observed lists,
  what its new segments will add, and that no object is in both. Nothing is assumed of overlap
  or resumes: the exceptions are what the code does (Disagreements, *Resume* and *Index and
  collection*), and `upload_serial` checks that without them nothing is lost.

`GarbageCollectionProofs` proves, for any devices, histories, expiries and grace periods:

- `ListingIsKept`: `Spec => IndexKeepsListing`, in every setting, with shared identifiers of
  operations, kept caches and compactions at any bound. The invariant `KeepInv` says of a push
  from its inventory to its root that the root is still the one it found, and of the root it is
  about to put that its segments list all that those of the present one do, though the compacted
  segment may be written over meanwhile; and the journal of a collection names no segment of
  the root (`Knows`, `Apart`). Left out, as in the run, are pushes that begin inside a
  collection (`Window`).

That published objects can be read (`PublishedIsReadable`, `RootsLoad`) and that intents are spared
(`DeletesSpareIntents`) is only model-checked.

`KeyProofs` proves, for any devices, keys and bounds, when no push starts beside
another (`InTurn`; updates, invitations, fetches, verifications, acceptances and crashes
come in at any step):

- `PointerAlwaysResolves`, `PublishedAlwaysHasPassword`, `RevocationsStay`:
  `Spec /\ InTurn` implies `[]PointerResolves`, `[]PublishedHasPassword` and
  `RevokedStaysRevoked`. The invariant `KeyringInv`: a push that has reconciled has a
  keyring, in its update journal or in place, that knows all that the published one says of
  a device, active or revoked (`Knows`), and it leaves alone the file that the remote
  pointer names, which is still the one it found (`PushOk`). So what is swapped in knows
  what it replaces, which is the step of `RevocationsStay`. Only a keyring made for an
  invitation has no password, and in it none of the devices that were in at first is
  active (`Sound`), whereas the published keyring has the owner's first devices
  (`RemoteOk`), which are never revoked: hence it is none of those. `UpdateOk` and
  `FetchOk` say that the pointer of a device is written after its file. When pushes
  overlap two keyrings of one generation have one name, and none of this is proved.

Who reads what (`RevokedLackActiveKey`, `PublishedRefReadable`, `LocalHeadReadable`) is only
model-checked: with enough updates it does not hold. Two devices that each update from generation
n write a generation n + 1 under one name, and two rotations so give one epoch two keys; the bundle
of a new device has no revocations; an unlock after a cut-off update points back to an
older keyring.

And of rewrites, for any branches, first snapshots, batches and bounds, with pushes, layout
changes and crashes at any point:

- `NothingIsUnderARetiredKey`: `LayoutsSpec => []RetiredKeysAreUnused`. That what local refs
  reach is under the active key when keys retire (`KeysInv`) is not inductive: a later
  hydration could meet a copy under the old key that no local ref reached. `FirstInv`
  excludes it. Only snapshots that a branch reached at first are under the old key, on the
  remote or here (`Aged`); every head descends from the first one of its branch (`From`); and
  a rewrite starts on the objects when all branches are here (`ToBring`), so that its list
  has every copy under the old key (`ToRewrite`), and afterwards none is left. What a head
  reaches is a recursive function of the parents, as in `TransferProofs`.
- `HeadsOpenInTurn`: `NoGarbage` implies `LayoutsSpec => [](Orderly => HeadsAreReadable)`.
  `Orderly` says of a setting that no push begins inside a run, that there is one rewrite or
  none, and that layout changes are not mixed with a rewrite and come after the pushes; it
  bounds neither crashes and resumes, nor the number of layout changes. `NoGarbage` says that
  every snapshot packed at first is reached by a branch.
  The invariant `ReadableInv` bounds what is stored (`StoredOk`): objects and segments are
  under one of two epochs, and the name of the next push is not taken. A head is read where each object it reaches is in just one listed segment, or else
  loose, under a key in hand (`ReadIn`), so that a push, which adds the objects that are not
  found yet, keeps every branch readable (`Added`). For layout changes, what is listed in the
  new root is all of what the branches reach, in batches that do not overlap (`ChangesInv`,
  `Changing`). A rewrite has three parts: before its checkpoint the old keys are still
  published (`Earlier`); from there on the index may be ahead of the keyring, and nothing is
  said of reading, but of what is in place for the end (`Underway`: which pieces are
  uploaded, which old segments are kept, which refs are written again); at the end all of it
  is under the active key (`Afterwards`).
  Both hypotheses are needed. Without `NoGarbage` a rewrite keeps a segment under a retired key
  (Disagreements, *Layouts and transfer*): the attempt to prove that what `Retain` keeps can be read is what
  brought this to light. Outside of `Orderly` two pushes during a rewrite lose a segment, a
  second rewrite reuses names, and a push under an oblivious layout is not found.

`TransferProofs` proves, for every backend, any branches, snapshots, bounds, pushes,
crashes and failing or damaged objects:

- `SuccessIsWhole`, `ObjectsAreKept`, `HeadIsKept`, `VerifyTakesNothing`:
  `Spec => []DoneIsWhole`, `FetchKeepsObjects`, `HeadStaysWhole` and `VerifyOnlyHeals`.
  The invariant `TransferInv` says of the remote that what another device has still to
  push replaces no object, and of this device that each object of the graph which the
  operation validated is good, still to be written, or being written. An object opened
  for writing was not good, or (verify) is about to be written good. The default ref
  comes after all of the graph. The graph of a head is a recursive function of the
  parents; `ReachedDef` and `ParentsGrow` show that it exists and that a new snapshot
  changes the graph of no other.

`RepositoryProofs` proves, for any branches, processes, paths and trees:

- `ReportedStays`: when commands of two processes do not overlap (`~Concurrent`),
  `BranchesSpec => []AcknowledgedStays`, with crashes anywhere; where the fetch of a pull may be
  cut off (`PullMayCrash`), the property is about every branch but the one that is pulled, whose
  files the code then leaves at the remote's head (`Sure`; Disagreements, *Local*). The invariant
  `BranchInv`: of what was reported, every ref file holds it or waits to be written with a
  head that does, and every ref file in the queue goes to a head that descends from all that its branch
  reported (`Writes`, `Survives`); a pull saved heads that hold what was reported, and
  while it restores, each file is back or in the queue (`Restores`).
- `MountedTreesAreWellFormed`: for any number of mounts and shells, however their commands
  overlap, `Spec => []TreesAreWellFormed` (`Spec` of `WritableMount`). The lemmas say what each
  change keeps: a write or a new directory needs a directory above it, a deleted directory
  is empty, and a rename moves whole trees to where nothing was, outside of themselves. What
  the changes of a callback amount to is a recursive function over them (`Overlaid`), which
  `StepsExist` and `StepsDef` unfold. The invariant `ViewsOk`: every snapshot is a tree with
  directories above its entries, and views, handles and queued ref files name snapshots.
- `FlushesAreVisible`: with `~Concurrent`, `Spec => FlushIsVisible`. `CallsOk`: while a
  callback runs no other command does; the branch file is at its snapshot or waits to be
  written, and the snapshot, though rebased, has the bytes of the flushed handle, since
  the last change of a callback is the write.
- `NoUpdateIsLost`: with `~Concurrent`, `Spec => NoLostUpdate`, for any number of handles. What the
  base of a view and the head disagree on at the path is a conflict, and then nothing is written:
  so the head has what the view shows. With one handle at a time that is what the handle read
  (`HandlesOk`): between callbacks its content as read is what its mount's base has at its path;
  each callback, a rename or a flush with staged directories included, leads to this again. With
  more handles another one may move the view, and the code loses that update (Disagreements,
  *Local*). With overlapping commands neither of the two is proved.

`DeskProofs` proves, for any directory, any names of temporary files and any number
of commits, checkouts, crashes and damages of the database:

- `SearchesShowTheirHead`: `Spec => []SearchShowsItsHead`. Heads in ref files, in pending
  writes and in the database exist (`RefsInv`), and snapshots are only added, so that a
  head keeps its files. A database that is not damaged holds the files of the head it
  names (`SearchInv`): a rebuild from any rows ends in the files of the new head. The
  database is not damaged while a search runs, and one search runs at a time; what the
  search does not exclude is a commit that moves the head meanwhile.
- `CheckoutsShowTheirSnapshot`: `Spec => []CheckoutShowsSnapshot`. `WorkInv`: above every
  entry of the directory, and of every snapshot, there are directories (`Shaped`). While a
  checkout publishes, each file of its snapshot is in its place, or waits under its
  temporary name with the right content, unless the checkout is `Doomed`: a temporary file
  is gone, is itself a file of the snapshot, or is shared by two files (`a.txt` and `a.md`
  both stage to `a.e2v-tmp`). A doomed checkout stays so and ends before it removes
  anything of the last one. The directories that a cleanup removes held no file of the
  snapshot, since they were directories when it began.

And of reading a working file, for any number and order of writes and any time, on a file
system with times one or two seconds coarse (`Granularities \subseteq {1, 2}`):

- `ReadsAreWhole`: `ReadingSpec => []ReadIsOneContent`. A file that is read once was quiet:
  it was modified two seconds before the look before, so that any write since gives it
  a later time, coarse as the times are; an unchanged time means an unchanged file
  (`Once`). A file that is read twice may have unchanged metadata and another content.
  But an overwritten content never comes back (`Gone`), so that a first piece that
  both readings found was there when the first reading took the second one (`Twice`).
  `WrittenBefore` (no content is yet to be written) is what the second argument rests on.

And of unlocking, for any processes and devices, any number of updates, fetches and crashes,
under `TakeTurns`: commands that decide who may open do not overlap (password changes,
commits and unlocks may), and where commands are cut off nothing is fetched.

- `CachesFollowTheKeyring`, `MembersStayIn`, `PasswordOpensAlways`: `TakeTurns => (UnlockSpec
  => []P)` for `SecretsAreCurrent`, `MembersReadTheHead` and `SomePasswordOpens`. The three
  share one invariant, `UnlockInv`. In it every envelope of a keyring opens and holds the same
  secrets (`KeyringOk`), the current keyring has one for each member (`Good`), and what a
  process unlocked is what the keyring held whose bytes it keeps (`CachesOk`).
  A keyring that is written and not yet current, by the command under way or by one that was
  cut off, may take the place of the current one whenever a later unlock carries it on
  (`Successor`, `PendingOk`): it is the next generation, keeps the key of the epoch in force,
  reads the ref, and has a password the user knows. `Holds` says what a command has in hand at
  each of its steps, `Places` which files are there by then. Where commands overlap, all
  envelopes hold the secrets the directory was made with, so that it does not matter which of
  two updates stands (`OverlapInv`).
- `TakeTurns` is needed. TLC violates all three properties when a revocation overlaps another
  command, or a fetch does; `MembersReadTheHead` when the acceptance of a device does; and
  `SomePasswordOpens` when a fetch follows an update that was cut off, whose journal then
  moves the pointer back below what was fetched (Disagreements, *Keys and floor*).

`ReadProofs` proves, for any files, however they are cut into chunks and shards, any
requests, edits and budgets, any number of mounts and handles that share a disk cache, and
any crashes:

- `ReadRangeIsExact`: reading a range of an object gives that part of the content and stops at
  its end. Recursion over chunks is a recursive function here; `Recursion` shows that such a
  function exists, `UpTo` is the induction over its arguments. The lemma behind it says of
  each chunk and each shard where it lies in the content (`LieAt`), so that what was appended
  so far is the requested part up to where the next chunk starts, and a skipped shard lies
  before the request.
- `ReadsExact`, `CachesExact`: `Spec => []ReadsAreExact` and `[]CachesAreExact`. The invariant
  `IInv` says of an open file that without pending bytes it is its snapshot (`FileOk`), of a
  read under way that once it has bytes they are the requested ones, though it passes through
  two rewrites of the range list first (`TaskOk`, `HasBytes`), of a blob that it is torn or
  exact for the key in its name (`BlobOk`), and of a plaintext cache that its total is the sum
  of its entries and within the budget (`CacheOk`, which insertion and eviction keep:
  `InsertedOk`, `EvictedOk`). Range lists may say anything: nothing is answered from them
  unless the blob agrees.

Assumptions: the named assumptions of each module, and what is stated above; none on the
number of devices. `DeviceAssumption` (a branch's ref is none of the files `default`,
layout and pointer, and the branches a device starts with exist) and `History \in
Seq(Nat)` are what the proofs about transfers ask of the constants; `ControlAssumption`
asks that one of the devices that are in at first is the owner's, as `init` makes it;
`CopiesAssumption` that a first snapshot comes after its parent and that every branch has
one as its head;
`MountAssumption` that what a walk of a working directory finds is a tree;
`RangesAssumption` that no chunk is empty, as the chunker cuts them; `ReadAssumption` that
edits and settings have the types of the code's arguments and that there is a first version;
`UnlockAssumption` that there is a process and that owner, guests and invited devices differ.
Each theorem has one lemma per group of actions; a step that only moves the program counter is
covered by a "move" lemma.

## Limits

Only model-checked: `HeadsAreReadable` of `Layouts` outside of `Orderly` (the settings
`Overtaken` and `LoosePushes`); `PublishedIsReadable`, `RootsLoad` and `DeletesSpareIntents` of
the index; who reads which keyring (`RevokedLackActiveKey`, `PublishedRefReadable`,
`LocalHeadReadable`); `PublishedIsFetchable` and `FetchedReadsBack` of `ObjectGraph`. Of
`AncestorClosure`, `PublishedIsLocatable` and `IndexUnambiguous` the theorems say which steps
alone can break them, and the runs check that they hold without those. Out of the prover's reach,
and left to TLC: liveness under fairness (`FirstPushEnds`, `RewriteEnds`), ENABLED, and what
the recursive walks of `ObjectGraph` compute. The properties of `ControlPlane` that are not
proved are checked in the settings of the run, and do not hold in every one: with more updates, generations of two devices get one name, and a bundle for a
new device carries no revocations. The code lists objects by identifier, which is a hash; TLC
lists them in the order they were made, and the settings of `layouts` hold in the reverse
order as well. The theorems hold for any order that depends on the set alone.

Abstractions:

- Cryptography is what it opens: an envelope its content for whoever holds the
  key, an identifier its content. Byte formats, compression, encodings and their errors
  are a value that decodes or is torn.
- Put-if-absent is atomic (it is `O_EXCL` for a folder and a conditional request for S3),
  and so is the reading of the remote clock by a probe file, although two devices share
  the probe's name: the second one may then get an error, which `Fail` covers.
- Markers are always decodable. The code lets an owner rewrite an undecodable
  stale marker; no writer of the system produces one but by a torn write to a folder.
- In `Publisher` a snapshot's graph is on the remote or not, and a journal's records
  advance together; packs, layout root and keyring have modules of their own.
- `UploadResume` leaves out: a resume whose ref already matches but whose
  layout or keyring does not (it republishes them, and its segments); a lost journal
  (it is in `Publisher`); a push that reuses an operation identifier (in
  `PackIndex`). Loading the index and listing the loose objects are one step: both only
  grow. Above 100,000 objects a push packs even a single missing object, which
  `Packs` does not distinguish.
- In `Layouts` a push is one step and a snapshot one object; old segments hold nothing
  that no branch reaches (without this a rewrite breaks reading, see Disagreements).
- In `Transfer` a pack is whole or absent, and damage falls between operations.
- `ControlPlane` and `Unlocking` share the four steps of a keyring update and look at
  it from the remote and from the processes of one directory.

Not modelled:

- *Remote diagnostics and specification, benchmark*: probing, parsing, reporting and measuring
  leave no state that another part reads.
- *GUI, web and CLI pages, C ABI*: they forward calls and present results.
- *Platform hosts*: attributes, security descriptors, volume information and the
  native bindings; what a host does with a handle's content is in `WritableMount`.
- *Mounts* of a branch that is not checked out, and `refresh_namespace`, which only
  tests call.
- *Chunker*: where chunks are cut (any cut is a chunk list here); *working tree*: portability
  rules of names, free space, readers of file system snapshots.
- *Oblivious layout*: which bucket a segment goes to, and cover traffic, which is a matter
  of probabilities.
- *Maintenance*: the spill of the reachable set to SQLite, which is a set; health reports
  of a device whose keys are locked; the advice texts.
- *Layout store*: the record of retained roots, which nothing reads back. *Journal*: the
  columns of the rewrite state, which nothing reads.
- *Trusted state*: the floor of the layout generation; *fetch*: the details of the password
  option; *backends*: wire formats and the retries of opendal.

## What could follow

- A theorem for `HeadsAreReadable` with one push during a rewrite, or with loose pushes
  during layout changes; for `Unlocking`, what still holds when revocations overlap.
- `Publisher` together with `GarbageCollection`: the fence against a push that begins while
  files are deleted, outside of the maintenance window.
- A finer `Layouts`, with the steps of a push of the second device.
