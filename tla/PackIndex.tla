----------------------------- MODULE PackIndex -----------------------------
(***************************************************************************)
(* Where packed objects are: packs and their index segments (pack.rs), the *)
(* index root that names the segments, their compaction and the local      *)
(* cache of segments (pack_index.rs), and the numbering of packs           *)
(* (push.rs).  UploadResume has the journal and the resume; here a push is *)
(* its inventory, its uploads, the index root and the ref.                 *)
(*                                                                         *)
(* Every file has its content and the day of its last write.  The layout   *)
(* generation does not change (Layouts is about that), so there is one     *)
(* compacted segment.  Devices take turns (Publisher and UploadResume have *)
(* them overlap), and an operation takes less than a day.                  *)
(***************************************************************************)
EXTENDS Naturals, Sequences, FiniteSetsExt, Functions

CONSTANTS
  Clients,
  Objects,       \* numbers; the largest of a graph is its snapshot
  History,       \* History[c][i]: what the i-th commit of client c reaches
  OpId,          \* OpId[c][k]: the operation identifier of c's k-th push
  PackThreshold, \* missing objects that make a push use packs (2)
  PackBatch,     \* objects to a pack at most (256)
  Expiry,        \* days an intent counts as fresh (3)
  Settings,      \* the settings to start from
  MaxOps, MaxStops, MaxDay   \* bounds on pushes, crashes and the clock

\* bound: segments of a root that is not compacted (4); kept: the cache of a
\* device outlives its operation, as it does, or is lost with it; torn: a push
\* may stop between the index root and the ref, as it may, or does not.
ASSUME PackAssumption ==
  /\ Objects \subseteq Nat /\ IsFiniteSet(Objects)
  /\ History \in [Clients -> Seq(SUBSET Objects)]
  /\ Settings \subseteq [bound : Nat \ {0}, kept : BOOLEAN, torn : BOOLEAN]
  /\ {PackThreshold, PackBatch} \subseteq Nat \ {0}
  /\ {Expiry, MaxOps, MaxStops, MaxDay} \subseteq Nat

VARIABLES
  file,     \* the remote's packs, segments and loose objects, by path
  root,     \* pack-index/root.json: the paths of the segments, in order
  rootAt,   \* the day it was last written
  ref,      \* the commit each client's branch names
  intents,  \* transactions/active: operation and day
  now,      \* the remote's clock, in days
  cache,    \* the segments each device has cached
  ops,      \* pushes each client began
  s,        \* each running push, see Push
  stops,    \* crashes so far
  set       \* the settings, which do not change

packVars == <<file, root, rootAt, ref, intents, now, cache, ops, s, stops, set>>

Loose(o)   == <<"objects", o>>
Data(n)    == <<"data", n>>
Segment(n) == <<"index", n>>
Compact    == <<"compact">>

Push ==
  [pc    : {"idle", "intent", "upload", "index", "extend", "root", "publish", "close"},
   op    : Nat,                \* its number among the client's pushes
   snap  : Nat,                \* the commit being published
   segs  : Seq(DOMAIN file),   \* the segments of the root it extends
   new   : Seq(DOMAIN file),   \* the segments it added
   todo  : SUBSET Objects,     \* not uploaded yet
   packs : BOOLEAN,            \* they are packed
   batch : SUBSET Objects,     \* of the pack being written
   n     : Nat]                \* number of the next pack

Idle == [pc |-> "idle", op |-> 0, snap |-> 0, segs |-> << >>, new |-> << >>,
         todo |-> {}, packs |-> FALSE, batch |-> {}, n |-> 0]

----------------------------------------------------------------------------
(* Files and locations.                                                    *)

Has(p)      == file[p].has
Holds(p, o) == p \in DOMAIN file /\ o \in Has(p)
LooseIds    == {o \in Objects : Loose(o) \in DOMAIN file}

Put(p, content) ==
  file' = [q \in DOMAIN file \cup {p} |->
             IF q = p THEN [has |-> content, at |-> now] ELSE file[q]]

Graph(c, i) == UNION {History[c][j] : j \in {i} \cap DOMAIN History[c]}

\* Segments as one map from objects to packs; a later segment wins.
Merge(maps) == [o \in UNION {DOMAIN maps[i] : i \in DOMAIN maps} |->
                  maps[Max({i \in DOMAIN maps : o \in DOMAIN maps[i]})][o]]

\* What device c takes a segment to be: its cached copy, if it has one.
Seen(c, g) == IF g \in DOMAIN cache[c] THEN cache[c][g] ELSE Has(g)
View(c)    == Merge([i \in DOMAIN root |-> Seen(c, root[i])])

Agree(maps) == \A i, j \in DOMAIN maps : i # j => DOMAIN maps[i] \cap DOMAIN maps[j] = {}

\* The segments load: each is cached or stored, the packs of those that are
\* not compacted are there, and no object is listed twice.
Loads(c) ==
  /\ \A i \in DOMAIN root : root[i] \in DOMAIN file \cup DOMAIN cache[c]
  /\ \A i \in DOMAIN root : root[i] # Compact =>
       \A o \in DOMAIN Seen(c, root[i]) : Seen(c, root[i])[o] \in DOMAIN file
  /\ Agree([i \in DOMAIN root |-> Seen(c, root[i])])

\* Loading caches the segments of the root and forgets the others; a segment
\* that is cached is not read again, also when it was written over since.
CacheAfterLoad(c) ==
  IF set.kept THEN [g \in Range(root) |-> Seen(c, g)] ELSE << >>

\* An object is read from its pack, and only without one as a loose object.
Reads(view, o) == IF o \in DOMAIN view THEN Holds(view[o], o) ELSE o \in LooseIds

----------------------------------------------------------------------------
PackInit ==
  /\ file = << >> /\ root = << >> /\ rootAt = 0
  /\ ref = [c \in Clients |-> 0]
  /\ intents = {} /\ now = 0
  /\ cache = [c \in Clients |-> << >>]
  /\ ops = [c \in Clients |-> 0]
  /\ s = [c \in Clients |-> Idle]
  /\ stops = 0
  /\ set \in Settings

At(c, step) == s[c].pc = step
Step(c, new) == s' = [s EXCEPT ![c] = new]

Quiet == \A c \in Clients : At(c, "idle")

\* Operations take less than a day.
Tick ==
  /\ now < MaxDay /\ Quiet
  /\ now' = now + 1
  /\ UNCHANGED <<file, root, rootAt, ref, intents, cache, ops, s, stops, set>>

----------------------------------------------------------------------------
(* A push: inventory, intent, uploads, index root, ref.                    *)

Missing(c, i) == Graph(c, i) \ (LooseIds \cup DOMAIN View(c))

\* Ancestors are read back; what has a location is not uploaded again.
Inventory(c) ==
  /\ Quiet
  /\ ops[c] < MaxOps /\ ref[c] < Len(History[c])
  /\ Loads(c)
  /\ \A i \in 1..ref[c], o \in Objects : o \in Graph(c, i) => Reads(View(c), o)
  /\ ops' = [ops EXCEPT ![c] = @ + 1]
  /\ cache' = [cache EXCEPT ![c] = CacheAfterLoad(c)]
  /\ Step(c, [Idle EXCEPT !.pc = "intent", !.op = ops[c] + 1, !.snap = ref[c] + 1,
                          !.segs = root, !.todo = Missing(c, ref[c] + 1)])
  /\ UNCHANGED <<file, root, rootAt, ref, intents, now, stops, set>>

\* The first pack gets the number of index segments the operation has.
OpenIntent(c) ==
  /\ At(c, "intent")
  /\ intents' = intents \cup {<<c, s[c].op, now>>}
  /\ Step(c, [s[c] EXCEPT !.pc = "upload",
                !.packs = Cardinality(s[c].todo) >= PackThreshold,
                !.n = Cardinality({m \in 0..Cardinality(DOMAIN file) :
                         Segment(<<OpId[c][s[c].op], m>>) \in DOMAIN file})])
  /\ UNCHANGED <<file, root, rootAt, ref, now, cache, ops, stops, set>>

PackName(c) == <<OpId[c][s[c].op], s[c].n>>

PutData(c) ==
  /\ At(c, "upload") /\ s[c].packs
  /\ \E b \in SUBSET s[c].todo :
       /\ b # {}
       /\ Cardinality(b) = PackBatch \/ (Cardinality(b) < PackBatch /\ b = s[c].todo)
       /\ Put(Data(PackName(c)), b)
       /\ Step(c, [s[c] EXCEPT !.pc = "index", !.batch = b])
  /\ UNCHANGED <<root, rootAt, ref, intents, now, cache, ops, stops, set>>

PutIndex(c) ==
  /\ At(c, "index")
  /\ Put(Segment(PackName(c)), [o \in s[c].batch |-> Data(PackName(c))])
  /\ Step(c, [s[c] EXCEPT !.pc = "upload", !.todo = @ \ s[c].batch, !.batch = {},
                          !.new = Append(@, Segment(PackName(c))), !.n = @ + 1])
  /\ UNCHANGED <<root, rootAt, ref, intents, now, cache, ops, stops, set>>

PutLoose(c) ==
  /\ At(c, "upload") /\ ~s[c].packs
  /\ \E o \in s[c].todo :
       /\ Put(Loose(o), {o})
       /\ Step(c, [s[c] EXCEPT !.todo = @ \ {o}])
  /\ UNCHANGED <<root, rootAt, ref, intents, now, cache, ops, stops, set>>

EndUpload(c) ==
  /\ At(c, "upload") /\ s[c].todo = {}
  /\ Step(c, [s[c] EXCEPT !.pc = IF s[c].new = << >> THEN "publish" ELSE "extend"])
  /\ UNCHANGED <<file, root, rootAt, ref, intents, now, cache, ops, stops, set>>

\* The segments of the observed root, then each new one that is not among
\* the ones before it.
Extend(segs, new) ==
  LET f[i \in 0..Len(new)] ==
        IF i = 0 THEN segs
        ELSE IF new[i] \in Range(f[i - 1]) THEN f[i - 1]
        ELSE Append(f[i - 1], new[i])
  IN f[Len(new)]

Extended(c) == Extend(s[c].segs, s[c].new)

KeepSegments(c) ==
  /\ At(c, "extend")
  /\ Len(Extended(c)) <= set.bound
  /\ Step(c, [s[c] EXCEPT !.pc = "root", !.new = Extended(c)])
  /\ UNCHANGED <<file, root, rootAt, ref, intents, now, cache, ops, stops, set>>

\* Mutant: the segments are merged as the device has cached them.
CompactSegments_cached(c) ==
  /\ At(c, "extend")
  /\ Len(Extended(c)) > set.bound
  /\ LET cut == Len(Extended(c)) - (set.bound - 1)
         old == SubSeq(Extended(c), 1, cut)
     IN /\ Range(old) \subseteq DOMAIN file
        /\ Put(Compact, Merge([i \in DOMAIN old |-> Seen(c, old[i])]))
        /\ Step(c, [s[c] EXCEPT !.pc = "root",
             !.new = <<Compact>> \o SubSeq(Extended(c), cut + 1, Len(Extended(c)))])
  /\ UNCHANGED <<root, rootAt, ref, intents, now, cache, ops, stops, set>>

\* Mutant: the last of the segments merged stays in the root as well.
CompactSegments_again(c) ==
  /\ At(c, "extend")
  /\ Len(Extended(c)) > set.bound
  /\ LET cut == Len(Extended(c)) - (set.bound - 1)
         old == SubSeq(Extended(c), 1, cut)
     IN /\ Range(old) \subseteq DOMAIN file
        /\ Put(Compact, Merge([i \in DOMAIN old |-> Has(old[i])]))
        /\ Step(c, [s[c] EXCEPT !.pc = "root",
             !.new = <<Compact>> \o SubSeq(Extended(c), cut, Len(Extended(c)))])
  /\ UNCHANGED <<root, rootAt, ref, intents, now, cache, ops, stops, set>>

\* With too many segments, all but the newest few are merged, from the remote,
\* into the compacted segment, which is written over the one that is there.
CompactSegments(c) ==
  /\ At(c, "extend")
  /\ Len(Extended(c)) > set.bound
  /\ LET cut == Len(Extended(c)) - (set.bound - 1)
         old == SubSeq(Extended(c), 1, cut)
     IN /\ Range(old) \subseteq DOMAIN file
        /\ Put(Compact, Merge([i \in DOMAIN old |-> Has(old[i])]))
        /\ Step(c, [s[c] EXCEPT !.pc = "root",
             !.new = <<Compact>> \o SubSeq(Extended(c), cut + 1, Len(Extended(c)))])
  /\ UNCHANGED <<root, rootAt, ref, intents, now, cache, ops, stops, set>>

\* The root is put without a comparison.
PutRoot(c) ==
  /\ At(c, "root")
  /\ root' = s[c].new /\ rootAt' = now
  /\ Step(c, [s[c] EXCEPT !.pc = "publish"])
  /\ UNCHANGED <<file, ref, intents, now, cache, ops, stops, set>>

PublishRef(c) ==
  /\ At(c, "publish")
  /\ ref' = [ref EXCEPT ![c] = s[c].snap]
  /\ Step(c, [s[c] EXCEPT !.pc = "close"])
  /\ UNCHANGED <<file, root, rootAt, intents, now, cache, ops, stops, set>>

Close(c) ==
  /\ At(c, "close")
  /\ intents' = {i \in intents : ~(i[1] = c /\ i[2] = s[c].op)}
  /\ Step(c, Idle)
  /\ UNCHANGED <<file, root, rootAt, ref, now, cache, ops, stops, set>>

\* A crash, an error of the transport, or a segment to merge that is missing.
\* Before the intent there is nothing to leave behind.
Stop(c) ==
  /\ ~At(c, "idle") /\ ~At(c, "intent") /\ stops < MaxStops
  /\ set.torn \/ ~At(c, "publish")
  /\ stops' = stops + 1
  /\ Step(c, Idle)
  /\ UNCHANGED <<file, root, rootAt, ref, intents, now, cache, ops, set>>

\* A fetch or a listing loads the index and reads nothing it would change.
Fetch(c) ==
  /\ Quiet /\ set.kept
  /\ Loads(c)
  /\ cache' = [cache EXCEPT ![c] = CacheAfterLoad(c)]
  /\ cache' # cache
  /\ UNCHANGED <<file, root, rootAt, ref, intents, now, ops, s, stops, set>>

PushStep(c) ==
  \/ OpenIntent(c) \/ PutData(c) \/ PutIndex(c) \/ PutLoose(c) \/ EndUpload(c)
  \/ KeepSegments(c) \/ CompactSegments(c) \/ PutRoot(c) \/ PublishRef(c) \/ Close(c)
  \/ Stop(c)

----------------------------------------------------------------------------
(* Properties.                                                             *)

Published == UNION {UNION {Graph(c, i) : i \in 1..ref[c]} : c \in Clients}

Listed == [i \in DOMAIN root |-> Has(root[i])]

\* The index loads on a device with an empty cache: the segments of the root
\* are there, so are the packs of those that are not compacted, and no object
\* is listed twice (append_segment_locations refuses a duplicate).
LoadsFresh ==
  /\ Range(root) \subseteq DOMAIN file
  /\ \A g \in Range(root) \ {Compact} : Range(Has(g)) \subseteq DOMAIN file
  /\ Agree(Listed)

\* A segment that the compacted one beside it in the root holds whole: what a
\* crash between a compaction and its root leaves, and no device can load.
Overtaken(g) ==
  /\ {g, Compact} \subseteq Range(root) /\ g # Compact
  /\ \A o \in DOMAIN Has(g) : o \in DOMAIN Has(Compact) /\ Has(Compact)[o] = Has(g)[o]

\* What any ref names can be read by a device that has cached nothing, where no
\* cache outlives its operation and no push stops between the root and the ref:
\* the index loads, but for a compaction that was cut off before its root, and
\* every published object is in the pack it names, or loose and in none
\* (remote_object_bytes_with_pack_cache takes the pack before the loose copy).
PublishedIsReadable ==
  ~set.kept /\ ~set.torn =>
    /\ LoadsFresh \/ \E g \in Range(root) : Overtaken(g)
    /\ \A o \in Published : Reads(Merge(Listed), o)

\* A root that a push puts loads on a device with an empty cache, whatever
\* segments and packs earlier pushes, compactions and crashes left, where no
\* cache outlives its operation (next_pack_index_segment_paths_from_observed_root).
RootsLoad == [][ ~set.kept /\ root' # root => LoadsFresh' ]_packVars

\* What the root's segments list stays listed, over compactions that write over
\* the segment the root names, kept and stale caches, crashes at every write and
\* collections; unless a push gives a segment the name of one that is listed.
IndexKeepsListing ==
  [][ \/ DOMAIN Merge(Listed) \subseteq DOMAIN Merge(Listed)'
      \/ \E c \in Clients : PutIndex(c) /\ Segment(PackName(c)) \in Range(root) ]_packVars

============================================================================
