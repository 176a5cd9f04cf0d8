---------------------------- MODULE ObjectGraph ----------------------------
(***************************************************************************)
(* The objects a snapshot is made of, and the four walks over them: the    *)
(* one that collects what a push uploads (manifest_store.rs), the one that *)
(* collects what a fetch downloads and a garbage collection keeps          *)
(* (fetch.rs), verification (facade.rs) and reading (manifest_store.rs).   *)
(* A directory of many entries and a file of many chunks are cut into      *)
(* shards.  An object is stored under its content: here it is its content, *)
(* and equal parts are one object.                                         *)
(***************************************************************************)
EXTENDS Integers, FiniteSets, SequencesExt, FiniteSetsExt, TLC

CONSTANTS
  Directories, \* what may be committed: a directory maps names (numbers, as they
               \* sort) to [kind |-> "file", chunks] or [kind |-> "tree", dir]
  MaxEntries,  \* that a tree object holds
  MaxChunks,   \* that a file object holds
  MaxCommits   \* bound on commits

VARIABLES here,      \* the objects of the device that commits
          head,      \* its snapshot, or None
          remote,    \* the objects of the remote
          published, \* the snapshot of the remote's ref
          there,     \* the objects of a device that clones and fetches
          fetched,   \* the snapshot it has
          committed  \* what was committed as each snapshot

graphVars == <<here, head, remote, published, there, fetched, committed>>

None == [type |-> "none"]

(***************************************************************************)
(* Writing                                                                 *)
(***************************************************************************)
Shards(s, n) == (Len(s) + n - 1) \div n
Cut(s, n) == [i \in 1..Shards(s, n) |-> SubSeq(s, (i - 1) * n + 1, IF i * n < Len(s) THEN i * n ELSE Len(s))]

Chunk(c) == [type |-> "chunk", data |-> c]
FileShard(ids) == [type |-> "file_shard", chunks |-> ids]
File(ids) ==
  LET many == Len(ids) > MaxChunks
  IN [type |-> "file",
      chunks |-> IF many THEN << >> ELSE ids,
      shards |-> IF many THEN [i \in 1..Shards(ids, MaxChunks) |-> FileShard(Cut(ids, MaxChunks)[i])]
                 ELSE << >>]

FileOf(chunks) == File([i \in DOMAIN chunks |-> Chunk(chunks[i])])

Shard(entries) == [type |-> "tree_shard", first |-> entries[1].name,
                   last |-> entries[Len(entries)].name, entries |-> entries]
DirectoryRoot(entries) ==
  [type |-> "directory_root",
   shards |-> [i \in 1..Shards(entries, MaxEntries) |-> Shard(Cut(entries, MaxEntries)[i])]]

TreeObject(entries) ==
  IF Len(entries) <= MaxEntries THEN [type |-> "tree", entries |-> entries]
  ELSE DirectoryRoot(entries)

Sorted(d) == SetToSortSeq(DOMAIN d, <)

RECURSIVE BuildTree(_)
BuildTree(d) ==
  LET entry(n) == [name |-> n, kind |-> d[n].kind,
                   id |-> IF d[n].kind = "file" THEN FileOf(d[n].chunks) ELSE BuildTree(d[n].dir)]
  IN TreeObject([i \in 1..Cardinality(DOMAIN d) |-> entry(Sorted(d)[i])])

\* The objects that are put on the way.
PutFile(f) == {f} \cup Range(f.shards) \cup Range(f.chunks)
                  \cup UNION {Range(s.chunks) : s \in Range(f.shards)}

RECURSIVE PutTree(_)
PutTree(d) ==
  LET root == BuildTree(d)
  IN {root} \cup (IF root.type = "tree" THEN {} ELSE Range(root.shards))
       \cup UNION {IF d[n].kind = "file" THEN PutFile(FileOf(d[n].chunks)) ELSE PutTree(d[n].dir) :
                     n \in DOMAIN d}

(***************************************************************************)
(* What a push uploads: collect_reachable_object_ids.  Its lists of what   *)
(* was seen prune the walk.                                                *)
(***************************************************************************)
Flattened(f) == IF f.shards = << >> THEN f.chunks ELSE FlattenSeq([i \in DOMAIN f.shards |-> f.shards[i].chunks])

RECURSIVE CollectTree(_, _)
\* Mutant: the file is taken as its object has it, without the chunks of its shards.
CollectEntry_inline(seen, e) ==
  IF e.kind = "tree" THEN CollectTree(seen, e.id)
  ELSE seen \cup {e.id} \cup Range(e.id.chunks) \cup Range(e.id.shards)

CollectEntry(seen, e) ==
  CASE e.kind = "tree" -> CollectTree(seen, e.id)
    [] e.kind = "file" /\ e.id \notin seen -> seen \cup {e.id} \cup Range(Flattened(e.id)) \cup Range(e.id.shards)
    [] OTHER -> seen

CollectShard(seen, s) ==
  IF s \in seen THEN seen ELSE FoldLeft(CollectEntry, seen \cup {s}, s.entries)

CollectTree(seen, t) ==
  IF t \in seen THEN seen
  ELSE IF t.type = "tree" THEN FoldLeft(CollectEntry, seen \cup {t}, t.entries)
  ELSE FoldLeft(CollectShard, seen \cup {t}, t.shards)

Collected(s) == CollectTree({s}, s.root)

(***************************************************************************)
(* What a fetch downloads and a garbage collection keeps, all parents too. *)
(***************************************************************************)
Chain(s) == LET RECURSIVE chain(_)
                chain(t) == IF t = None THEN {} ELSE {t} \cup chain(t.parent)
            IN chain(s)

\* Mutant: the chunks that shards name are left out.
RemoteFile_inline(f) == {f} \cup Range(f.chunks) \cup Range(f.shards)

RemoteFile(f) == {f} \cup Range(f.chunks) \cup Range(f.shards)
                     \cup UNION {Range(s.chunks) : s \in Range(f.shards)}

RECURSIVE RemoteTree(_)
RemoteEntries(entries) ==
  UNION {IF e.kind = "tree" THEN RemoteTree(e.id) ELSE RemoteFile(e.id) : e \in Range(entries)}

RemoteTree(t) ==
  {t} \cup IF t.type = "tree" THEN RemoteEntries(t.entries)
           ELSE UNION {{s} \cup RemoteEntries(s.entries) : s \in Range(t.shards)}

RemoteReach(s) == UNION {{t} \cup RemoteTree(t.root) : t \in Chain(s)}

(***************************************************************************)
(* Reading, and verifying.  What is not there cannot be read; a shard whose *)
(* range is not that of its entries, or a root that lost a shard, neither. *)
(***************************************************************************)
Valid(s) == s.first = s.entries[1].name /\ s.last = s.entries[Len(s.entries)].name

DirectoryReads(t, store) ==
  /\ t \in store
  /\ t.type = "directory_root" => \A s \in Range(t.shards) : s \in store /\ Valid(s)

EntriesOf(t) ==
  IF t.type = "tree" THEN t.entries
  ELSE SortSeq(FlattenSeq([i \in DOMAIN t.shards |-> t.shards[i].entries]),
               LAMBDA a, b : a.name < b.name)

FileReads(f, store) ==
  /\ {f} \cup Range(f.shards) \subseteq store
  /\ Range(Flattened(f)) \subseteq store

RECURSIVE VerifiesTree(_, _)
VerifiesTree(t, store) ==
  /\ DirectoryReads(t, store)
  /\ \A e \in Range(EntriesOf(t)) :
       IF e.kind = "tree" THEN VerifiesTree(e.id, store) ELSE FileReads(e.id, store)

Verifies(s, store) == \A t \in Chain(s) : t \in store /\ VerifiesTree(t.root, store)

\* The walk of every directory in turn, and the bytes of every file.
RECURSIVE ReadTree(_)
ReadTree(t) ==
  LET entries == EntriesOf(t)
      at(n) == CHOOSE e \in Range(entries) : e.name = n
  IN [n \in {e.name : e \in Range(entries)} |->
        IF at(n).kind = "tree" THEN [kind |-> "tree", dir |-> ReadTree(at(n).id)]
        ELSE [kind |-> "file",
              chunks |-> [i \in DOMAIN Flattened(at(n).id) |-> Flattened(at(n).id)[i].data]]]

(***************************************************************************)
(* Commands                                                                *)
(***************************************************************************)
Init ==
  /\ here = {} /\ remote = {} /\ there = {}
  /\ head = None /\ published = None /\ fetched = None
  /\ committed = << >>

Commit(d) ==
  /\ Cardinality(DOMAIN committed) < MaxCommits
  /\ LET s == [type |-> "snapshot", root |-> BuildTree(d), parent |-> head]
     IN /\ here' = here \cup PutTree(d) \cup {s}
        /\ head' = s
        /\ committed' = s :> d @@ committed
  /\ UNCHANGED <<remote, published, there, fetched>>

\* The objects of the new snapshot go up; those of its ancestors must
\* authenticate on the remote.
Push ==
  /\ head # published
  /\ \A t \in Chain(head.parent) : Collected(t) \subseteq remote
  /\ remote' = remote \cup Collected(head)
  /\ published' = head
  /\ UNCHANGED <<here, head, there, fetched, committed>>

GarbageCollect ==
  /\ published # None
  /\ remote' = remote \cap RemoteReach(published)
  /\ UNCHANGED <<here, head, published, there, fetched, committed>>

Fetch ==
  /\ fetched # published
  /\ RemoteReach(published) \subseteq remote
  /\ there' = there \cup RemoteReach(published)
  /\ fetched' = published
  /\ UNCHANGED <<here, head, remote, published, committed>>

Next == Push \/ GarbageCollect \/ Fetch \/ \E d \in Directories : Commit(d)

Spec == Init /\ [][Next]_graphVars

----------------------------------------------------------------------------
(* What another device fetched verifies and reads back as it was committed, *)
(* snapshot by snapshot, however large directories and files are and        *)
(* whatever parts they share: none of the walks misses an object that       *)
(* another needs (manifest_store.rs 149-491, fetch.rs 1562-1682, facade.rs  *)
(* 3966-4062).                                                              *)
FetchedReadsBack ==
  /\ Verifies(fetched, there)
  /\ \A t \in Chain(fetched) : ReadTree(t.root) = committed[t]

(* A published snapshot can be fetched by a device that has nothing, also   *)
(* after a garbage collection.                                              *)
PublishedIsFetchable == RemoteReach(published) \subseteq remote
=============================================================================
