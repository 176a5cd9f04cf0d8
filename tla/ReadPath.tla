------------------------------ MODULE ReadPath -----------------------------
(***************************************************************************)
(* Reading a mounted file (e2v-vfs): through the range kept by the open    *)
(* handle, the plaintext cache of the mount, the encrypted range cache on  *)
(* disk, which mounts share, and the object store, whose missing chunks    *)
(* are looked for in cached packs.  A commit writes chunk objects in place *)
(* while mounts read; mounts, the committer and the caching of packs stop  *)
(* anywhere and leave torn files.                                          *)
(***************************************************************************)
EXTENDS FileRanges, SequencesExt, FiniteSetsExt

CONSTANTS Mounts, Handles,
          Versions,   \* what the branch shows: the file object of each path, in turn
          PackOf,     \* the pack that holds each chunk remotely
          Requests,   \* ranges asked for, as <<offset, length>>
          Edits,      \* writes and resizes asked for
          Settings    \* how an instance is set up, with its bounds: calls,
                      \* crashes, syncs, and the versions committed

ASSUME ReadAssumption ==
  /\ \A v \in DOMAIN Versions : \A p \in DOMAIN Versions[v] :
       Versions[v][p] \in DOMAIN ChunksOf
  /\ DOMAIN PackOf = DOMAIN Data
  /\ Requests \subseteq Nat \X Nat
  /\ Edits \subseteq [kind : {"write", "append", "resize"}, offset : Nat, bytes : Seq(Nat)]
  /\ \A s \in Settings : /\ s.host \in [Handles -> Mounts] /\ s.budget \in Nat
                        /\ s.versions \in Nat /\ 1..s.versions \subseteq DOMAIN Versions
  /\ 1 \in DOMAIN Versions

VARIABLES setup,   \* the mount of each handle; the budget; whether ranges go to disk
          head,    \* the version the branch shows
          view,    \* the version each mount shows
          handle,  \* open files
          task,    \* the read under way on each handle
          plain,   \* the plaintext cache of each mount, least recently used first
          blobs,   \* range files of the shared disk cache, by <<key, offset, length>>
          index,   \* its range lists, by key
          local,   \* chunk objects of the repository
          put,     \* the commit under way
          packs,   \* cached packs
          packIndex, \* the cached pack index
          spent    \* counters of the bounds

vars == <<setup, head, view, handle, task, plain, blobs, index, local, put, packs,
          packIndex, spent>>

FileOf(key) == key[2]
Exact(key, offset, length) == Requested(Content(FileOf(key)), offset, length)

Entry(offset, length) == <<offset, length>>
TornBlob == [torn |-> TRUE, range |-> [offset |-> 0, bytes |-> << >>]]
TornList == [torn |-> TRUE, entries |-> << >>]

Reading == [kind |-> "read", offset |-> 0, bytes |-> << >>]
Idle == [pc |-> "idle", offset |-> 0, length |-> 0, edit |-> Reading,
         bytes |-> << >>, entries |-> << >>, next |-> "idle"]
\* cache, pending: sets of at most one; ideal: what the file should hold, byte
\* by byte; answer: of the last read.
Closed == [open |-> FALSE, key |-> <<0, 0>>, cache |-> {}, pending |-> {},
           ideal |-> << >>, answer |-> {}]
NoPut == [version |-> 0, todo |-> << >>, torn |-> FALSE]

Init ==
  /\ setup \in Settings
  /\ head = 1
  /\ view = [m \in Mounts |-> 1]
  /\ handle = [h \in Handles |-> Closed]
  /\ task = [h \in Handles |-> Idle]
  /\ plain = [m \in Mounts |-> [entries |-> << >>, total |-> 0]]
  /\ blobs = << >> /\ index = << >>
  /\ local = [c \in DOMAIN Data |-> IF c \in setup.missing THEN "missing" ELSE "whole"]
  /\ put = NoPut
  /\ packs = [p \in Range(PackOf) |-> "none"]
  /\ packIndex = "none"
  /\ spent = [calls |-> 0, crashes |-> 0, syncs |-> 0]

mountFiles == <<blobs, index>>
objects == <<local, put, packs, packIndex>>

MountOf(h) == setup.host[h]
Key(h) == handle[h].key
Size(h) == FileSize(FileOf(Key(h)))
Ready(h) == handle[h].open /\ task[h].pc = "idle" /\ spent.calls < setup.calls
Spend(what) == spent' = [spent EXCEPT ![what] = @ + 1]

(***************************************************************************)
(* Views and handles                                                       *)
(***************************************************************************)
\* ReadOnlyVfs::open_file: the handle keeps its snapshot.
OpenFile(h, p) ==
  LET v == view[MountOf(h)]
  IN /\ ~handle[h].open /\ spent.calls < setup.calls
     /\ p \in DOMAIN Versions[v]
     /\ handle' = [handle EXCEPT ![h] = [Closed EXCEPT !.open = TRUE, !.key = <<v, Versions[v][p]>>,
                                          !.ideal = Content(Versions[v][p])]]
     /\ UNCHANGED <<setup, head, view, task, plain, mountFiles, objects, spent>>

\* Closing a handle with pending bytes flushes them (WritableMount).
CloseFile(h) ==
  /\ handle[h].open /\ task[h].pc = "idle" /\ handle[h].pending = {}
  /\ handle' = [handle EXCEPT ![h] = Closed]
  /\ UNCHANGED <<setup, head, view, task, plain, mountFiles, objects, spent>>

RefreshLiveBranch(m) ==
  /\ view[m] # head
  /\ view' = [view EXCEPT ![m] = head]
  /\ UNCHANGED <<setup, head, handle, task, plain, mountFiles, objects, spent>>

(***************************************************************************)
(* The caches of a mount                                                   *)
(***************************************************************************)
\* A list without what is struck from it.
Strike(list, gone) ==
  LET kept[n \in 0..Len(list)] ==
        IF n = 0 THEN << >>
        ELSE IF list[n] \in gone THEN kept[n - 1] ELSE Append(kept[n - 1], list[n])
  IN kept[Len(list)]

OfKey(entries, key) == {e \in Range(entries) : e.key = key}
Others(entries, key) == Range(entries) \ OfKey(entries, key)
Sizes(entries) == [i \in 1..Len(entries) |-> Len(entries[i].bytes)]

\* PlaintextCache::get_range: a hit is the most recently used.
Touched(cache, key) ==
  [cache EXCEPT !.entries = Strike(@, OfKey(@, key)) \o Strike(@, Others(@, key))]

\* Mutant: the bytes of a replaced entry stay in the total.
Inserted_leaks(cache, key, bytes) ==
  [entries |-> Append(Strike(cache.entries, OfKey(cache.entries, key)), [key |-> key, bytes |-> bytes]),
   total |-> cache.total + Len(bytes)]

Inserted(cache, key, bytes) ==
  LET old == Total(Sizes(Strike(cache.entries, Others(cache.entries, key))))
  IN [entries |-> Append(Strike(cache.entries, OfKey(cache.entries, key)), [key |-> key, bytes |-> bytes]),
      total |-> Monus(cache.total, old) + Len(bytes)]

\* evict_if_needed: from the least recently used on, until the rest fits.
Evicted(cache) ==
  LET last == Len(cache.entries)
      Left(n) == Monus(cache.total, Total(SubSeq(Sizes(cache.entries), 1, n)))
      n == Min({k \in 0..last : k = last \/ Left(k) <= setup.budget})
  IN [entries |-> SubSeq(cache.entries, n + 1, last), total |-> Left(n)]

PlainInsert(cache, key, bytes) ==
  IF setup.budget = 0 \/ Len(bytes) > setup.budget THEN cache
  ELSE Evicted(Inserted(cache, key, bytes))

\* cacheable_plaintext_range
Cacheable(offset, bytes) ==
  IF Len(bytes) <= setup.budget THEN {[offset |-> offset, bytes |-> bytes]} ELSE {}

(***************************************************************************)
(* The disk cache                                                          *)
(***************************************************************************)
IndexEntries(key) == IF key \in DOMAIN index /\ ~index[key].torn THEN index[key].entries ELSE << >>

WholeBlob(key, e) ==
  /\ <<key, e[1], e[2]>> \in DOMAIN blobs
  /\ LET b == blobs[<<key, e[1], e[2]>>]
     IN ~b.torn /\ b.range.offset = e[1] /\ Len(b.range.bytes) = e[2]

BlobAt(key, e) == blobs[<<key, e[1], e[2]>>].range

Without(f, keys) == Restrict(f, DOMAIN f \ keys)
Put(f, key, x) == [k \in DOMAIN f \cup {key} |-> IF k = key THEN x ELSE f[k]]

(***************************************************************************)
(* A read.  It ends with an answer, with the bytes that an edit starts     *)
(* from, or with an error.                                                 *)
(***************************************************************************)
\* What a file is to hold after an edit, by its definition.
Edited(bytes, edit) ==
  LET from == IF edit.kind = "append" THEN Len(bytes) ELSE edit.offset
      size == IF edit.kind = "resize" THEN edit.offset
              ELSE Len(bytes) + Monus(from + Len(edit.bytes), Len(bytes))
  IN [i \in 1..size |-> IF edit.kind # "resize" /\ i > from /\ i <= from + Len(edit.bytes)
                        THEN edit.bytes[i - from]
                        ELSE IF i <= Len(bytes) THEN bytes[i] ELSE 0]

WithEdit(f, bytes, edit) ==
  [f EXCEPT !.pending = {ApplyEdit(bytes, edit)}, !.ideal = Edited(@, edit), !.answer = {}]

Answer(offset, length, bytes) == {[offset |-> offset, length |-> length, bytes |-> bytes]}

Finish(h, offset, length, edit, bytes, cache) ==
  LET f == [handle[h] EXCEPT !.cache = cache]
  IN /\ task' = [task EXCEPT ![h] = Idle]
     /\ handle' = [handle EXCEPT ![h] =
          IF edit.kind = "read" THEN [f EXCEPT !.answer = Answer(offset, length, bytes)]
          ELSE WithEdit(f, bytes, edit)]

FinishTask(h, bytes, cache) ==
  Finish(h, task[h].offset, task[h].length, task[h].edit, bytes, cache)

\* read_handle and write_handle_bytes of a handle with pending bytes.
ReadPending(h, offset, length) ==
  /\ Ready(h) /\ Spend("calls")
  /\ \E bytes \in handle[h].pending :
       /\ offset <= Len(bytes)
       /\ handle' = [handle EXCEPT ![h].answer =
                       Answer(offset, length, Requested(bytes, offset, length))]
  /\ UNCHANGED <<setup, head, view, task, plain, mountFiles, objects>>

EditPending(h, edit) ==
  /\ Ready(h) /\ Spend("calls") /\ setup.writable
  /\ \E bytes \in handle[h].pending : handle' = [handle EXCEPT ![h] = WithEdit(@, bytes, edit)]
  /\ UNCHANGED <<setup, head, view, task, plain, mountFiles, objects>>

\* ReadOnlyVfs::read, in memory: the handle's range, then the mount's cache.
StartRead(h, offset, length, edit) ==
  LET m == MountOf(h)
      mine == CachedRangeBytes(handle[h].cache, Size(h), offset, length)
      shared == {Requested(e.bytes, offset, length) : e \in OfKey(plain[m].entries, Key(h))}
  IN /\ Ready(h) /\ Spend("calls") /\ handle[h].pending = {} /\ offset <= Size(h)
     /\ \/ /\ \E bytes \in mine : Finish(h, offset, length, edit, bytes, handle[h].cache)
           /\ UNCHANGED plain
        \/ /\ mine = {}
           /\ \E bytes \in shared : Finish(h, offset, length, edit, bytes, Cacheable(offset, bytes))
           /\ plain' = [plain EXCEPT ![m] = Touched(@, Key(h))]
        \/ /\ mine = {} /\ shared = {}
           /\ task' = [task EXCEPT ![h] = [Idle EXCEPT !.pc = IF setup.disk THEN "exact" ELSE "origin",
                                            !.offset = offset, !.length = length, !.edit = edit]]
           /\ UNCHANGED <<handle, plain>>
     /\ UNCHANGED <<setup, head, view, mountFiles, objects>>

Read(h) == \E r \in Requests : StartRead(h, r[1], r[2], Reading)

\* ensure_pending_bytes reads the whole file.
Edit(h) == setup.writable /\ \E e \in Edits : StartRead(h, 0, Size(h), e)

At(h, pc) == handle[h].open /\ task[h].pc = pc
Goto(h, pc) == task' = [task EXCEPT ![h].pc = pc]
Rewrite(h, entries, next) ==
  task' = [task EXCEPT ![h].pc = "rewrite", ![h].entries = entries, ![h].next = next]

\* EncryptedRangeCache::read_range: the file of this very range, or else the
\* range is struck from the list.
ReadExact(h) ==
  LET e == Entry(task[h].offset, task[h].length)
  IN /\ At(h, "exact")
     /\ \/ /\ WholeBlob(Key(h), e)
           /\ FinishTask(h, BlobAt(Key(h), e).bytes, {BlobAt(Key(h), e)})
           /\ UNCHANGED blobs
        \/ /\ ~WholeBlob(Key(h), e)
           /\ blobs' = Without(blobs, {<<Key(h), e[1], e[2]>>})
           /\ Rewrite(h, Strike(IndexEntries(Key(h)), {e}), "cover")
           /\ UNCHANGED handle
     /\ UNCHANGED <<setup, head, view, plain, index, objects, spent>>

\* write_range_index_entries: in place; an empty list has no file.
RewriteIndex(h) ==
  /\ At(h, "rewrite")
  /\ IF task[h].entries = << >>
     THEN index' = Without(index, {Key(h)}) /\ Goto(h, task[h].next)
     ELSE index' = Put(index, Key(h), TornList) /\ Goto(h, "list")
  /\ UNCHANGED <<setup, head, view, handle, plain, blobs, objects, spent>>

FillIndex(h) ==
  /\ At(h, "list")
  /\ index' = Put(index, Key(h), [torn |-> FALSE, entries |-> task[h].entries])
  /\ Goto(h, task[h].next)
  /\ UNCHANGED <<setup, head, view, handle, plain, blobs, objects, spent>>

\* read_covering_range: the first listed range that holds the request; what
\* cannot be read before it is struck from the list.
ReadCovering(h) ==
  LET key == Key(h)  o == task[h].offset  n == task[h].length
      entries == IndexEntries(key)
      hits == {i \in DOMAIN entries : WholeBlob(key, entries[i]) /\ Covers(BlobAt(key, entries[i]), o, n)}
      seen == IF hits = {} THEN DOMAIN entries ELSE 1..Min(hits)
      stale == {entries[i] : i \in {j \in seen : ~WholeBlob(key, entries[j])}}
      found == {Slice(BlobAt(key, entries[i]).bytes, o - entries[i][1], o - entries[i][1] + n) :
                  i \in IF hits = {} THEN {} ELSE {Min(hits)}}
  IN /\ At(h, "cover")
     /\ blobs' = Without(blobs, {<<key, e[1], e[2]>> : e \in stale})
     /\ task' = [task EXCEPT ![h] =
          [@ EXCEPT !.bytes = IF found = {} THEN << >> ELSE CHOOSE b \in found : TRUE,
                    !.entries = Strike(entries, stale),
                    !.next = IF found = {} THEN "origin" ELSE "hit",
                    !.pc = IF stale # {} THEN "rewrite" ELSE IF found = {} THEN "origin" ELSE "hit"]]
     /\ UNCHANGED <<setup, head, view, handle, plain, index, objects, spent>>

CoveringHit(h) ==
  /\ At(h, "hit")
  /\ FinishTask(h, task[h].bytes, {[offset |-> task[h].offset, bytes |-> task[h].bytes]})
  /\ UNCHANGED <<setup, head, view, plain, mountFiles, objects, spent>>

(***************************************************************************)
(* The object store                                                        *)
(***************************************************************************)
\* An object that exists is read, and no pack is tried in its place; its
\* envelope is authentic, or it does not decode.
Exists(c)  == local[c] # "missing"
Decodes(c) == local[c] = "whole"

\* A cached pack counts if its hash is there, and holds the chunk if what lies
\* at the place the cached index names is that chunk.
Located(c)   == packIndex = "whole"
Intact(c)    == packs[PackOf[c]] \in {"whole", "other"}
PackHolds(c) == packs[PackOf[c]] = "whole"
InPack(c)    == Located(c) /\ Intact(c) /\ PackHolds(c)

Readable(c) == IF Exists(c) THEN Decodes(c) ELSE InPack(c)

\* write_range follows; its file is truncated first.
ReadOrigin(h) ==
  LET key == Key(h)
      got == ReadRange(FileOf(key), task[h].offset, task[h].length)
  IN /\ At(h, "origin")
     /\ \A c \in Range(got.read) : Readable(c)
     /\ task' = [task EXCEPT ![h].bytes = got.output, ![h].pc = IF setup.disk THEN "store" ELSE "keep"]
     /\ blobs' = IF setup.disk THEN Put(blobs, <<key, task[h].offset, Len(got.output)>>, TornBlob)
                 ELSE blobs
     /\ UNCHANGED <<setup, head, view, handle, plain, index, objects, spent>>

\* A chunk cannot be read: the call fails.  A cached pack that does not hold
\* it is deleted, and so is an index that cannot be decrypted.
ReadFails(h) ==
  LET read == ReadRange(FileOf(Key(h)), task[h].offset, task[h].length).read
      first == read[Min({i \in DOMAIN read : ~Readable(read[i])})]
  IN /\ At(h, "origin")
     /\ \E c \in Range(read) : ~Readable(c)
     /\ task' = [task EXCEPT ![h] = Idle]
     /\ handle' = [handle EXCEPT ![h].answer = {}]
     /\ packIndex' = IF ~Exists(first) /\ packIndex = "torn" THEN "none" ELSE packIndex
     /\ packs' = IF ~Exists(first) /\ Located(first)
                 THEN [packs EXCEPT ![PackOf[first]] = "none"] ELSE packs
     /\ UNCHANGED <<setup, head, view, plain, mountFiles, local, put, spent>>

\* write_range, then record_range_index_entry.
StoreRange(h) ==
  LET e == Entry(task[h].offset, Len(task[h].bytes))
      entries == IndexEntries(Key(h))
  IN /\ At(h, "store")
     /\ blobs' = Put(blobs, <<Key(h), e[1], e[2]>>,
                    [torn |-> FALSE, range |-> [offset |-> e[1], bytes |-> task[h].bytes]])
     /\ Rewrite(h, IF e \in Range(entries) THEN entries ELSE Append(entries, e), "keep")
     /\ UNCHANGED <<setup, head, view, handle, plain, index, objects, spent>>

\* The whole file goes to the mount's cache, too.
KeepRange(h) ==
  LET bytes == task[h].bytes
      whole == task[h].offset = 0 /\ Len(bytes) >= Size(h)
  IN /\ At(h, "keep")
     /\ FinishTask(h, bytes, Cacheable(task[h].offset, bytes))
     /\ plain' = IF whole /\ Len(bytes) <= setup.budget
                 THEN [plain EXCEPT ![MountOf(h)] = PlainInsert(@, Key(h), bytes)] ELSE plain
     /\ UNCHANGED <<setup, head, view, mountFiles, objects, spent>>

(***************************************************************************)
(* Other processes: a commit, the caching of packs, crashes                *)
(***************************************************************************)
\* build_file_tree_entry_with writes every chunk, also those that exist.
BeginCommit ==
  /\ put = NoPut /\ head < setup.versions
  /\ put' = [NoPut EXCEPT !.version = head + 1,
                          !.todo = FlattenSeq([i \in 1..Cardinality(DOMAIN Versions[head + 1]) |->
                                     ChunksOf[Versions[head + 1][SetToSeq(DOMAIN Versions[head + 1])[i]]]])]
  /\ UNCHANGED <<setup, head, view, handle, task, plain, mountFiles, local, packs, packIndex, spent>>

\* In place: the file is truncated, then written.
PutChunk ==
  /\ put.todo # << >> /\ ~put.torn
  /\ local' = [local EXCEPT ![Head(put.todo)] = "torn"]
  /\ put' = [put EXCEPT !.torn = TRUE]
  /\ UNCHANGED <<setup, head, view, handle, task, plain, mountFiles, packs, packIndex, spent>>

ChunkIsPut ==
  /\ put.torn
  /\ local' = [local EXCEPT ![Head(put.todo)] = "whole"]
  /\ put' = [put EXCEPT !.todo = Tail(@), !.torn = FALSE]
  /\ UNCHANGED <<setup, head, view, handle, task, plain, mountFiles, packs, packIndex, spent>>

Publish ==
  /\ put # NoPut /\ put.todo = << >>
  /\ head' = put.version /\ put' = NoPut
  /\ UNCHANGED <<setup, view, handle, task, plain, mountFiles, local, packs, packIndex, spent>>

CommitterCrashes ==
  /\ put # NoPut /\ spent.crashes < setup.crashes /\ Spend("crashes")
  /\ put' = NoPut
  /\ UNCHANGED <<setup, head, view, handle, task, plain, mountFiles, local, packs, packIndex>>

\* write_cached_pack_data_bytes removes both files, then writes the data and
\* the hash, each under a temporary name; the name may have been used for
\* another pack.
CachePack(p) ==
  /\ spent.syncs < setup.syncs /\ Spend("syncs")
  /\ \E state \in {"unhashed", "whole", "other"} : packs' = [packs EXCEPT ![p] = state]
  /\ UNCHANGED <<setup, head, view, handle, task, plain, mountFiles, local, put, packIndex>>

\* persist_root_cache_if_changed and the segments, in place.
CachePackIndex ==
  /\ spent.syncs < setup.syncs /\ Spend("syncs")
  /\ \E state \in {"torn", "whole"} : packIndex' = state
  /\ UNCHANGED <<setup, head, view, handle, task, plain, mountFiles, local, put, packs>>

MountCrashes(m) ==
  /\ spent.crashes < setup.crashes /\ Spend("crashes")
  /\ \E h \in Handles : MountOf(h) = m /\ handle[h].open
  /\ handle' = [h \in Handles |-> IF MountOf(h) = m THEN Closed ELSE handle[h]]
  /\ task' = [h \in Handles |-> IF MountOf(h) = m THEN Idle ELSE task[h]]
  /\ plain' = [plain EXCEPT ![m] = [entries |-> << >>, total |-> 0]]
  /\ view' = [view EXCEPT ![m] = head]
  /\ UNCHANGED <<setup, head, mountFiles, objects>>

Next ==
  \/ \E h \in Handles :
       \/ \E p \in UNION {DOMAIN Versions[v] : v \in DOMAIN Versions} : OpenFile(h, p)
       \/ CloseFile(h) \/ Read(h) \/ Edit(h)
       \/ \E r \in Requests : ReadPending(h, r[1], r[2])
       \/ \E e \in Edits : EditPending(h, e)
       \/ ReadExact(h) \/ RewriteIndex(h) \/ FillIndex(h) \/ ReadCovering(h) \/ CoveringHit(h)
       \/ ReadOrigin(h) \/ ReadFails(h) \/ StoreRange(h) \/ KeepRange(h)
  \/ \E m \in Mounts : RefreshLiveBranch(m) \/ MountCrashes(m)
  \/ \E p \in Range(PackOf) : CachePack(p)
  \/ BeginCommit \/ PutChunk \/ ChunkIsPut \/ Publish \/ CommitterCrashes \/ CachePackIndex

Spec == Init /\ [][Next]_vars

(***************************************************************************)
(* Properties                                                              *)
(***************************************************************************)
\* A read returns exactly the bytes of the file as its handle sees it: those
\* of the snapshot it was opened in, with the edits made through it, and fewer
\* than asked for at the end of the file only.  (ReadOnlyVfs::read,
\* read_handle, ReadService::read_range.)
ReadsAreExact ==
  \A h \in Handles :
    /\ \A a \in handle[h].answer : a.bytes = Requested(handle[h].ideal, a.offset, a.length)
    /\ \A bytes \in handle[h].pending : bytes = handle[h].ideal

\* What caches hold is what the snapshot holds at that place, and the
\* plaintext cache knows its size and keeps to its budget.  (PlaintextCache,
\* OpenedFile, EncryptedRangeCache.)
RangeIsExact(key, r) == r.bytes = Exact(key, r.offset, Len(r.bytes))

CachesAreExact ==
  /\ \A h \in Handles : \A r \in handle[h].cache : RangeIsExact(Key(h), r)
  /\ \A b \in DOMAIN blobs : blobs[b].torn \/ RangeIsExact(b[1], blobs[b].range)
  /\ \A m \in Mounts :
       /\ \A e \in Range(plain[m].entries) : e.bytes = Content(FileOf(e.key))
       /\ plain[m].total = Total(Sizes(plain[m].entries))
       /\ plain[m].total <= setup.budget

============================================================================
