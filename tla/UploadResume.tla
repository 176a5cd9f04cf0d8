--------------------------- MODULE UploadResume ---------------------------
(***************************************************************************)
(* Uploading the objects of a snapshot and making them findable: the       *)
(* upload half of push_head and resume_push (push.rs), the records of the  *)
(* operation journal (journal.rs) and the pack index root (pack_index.rs). *)
(*                                                                         *)
(* Each client pushes a branch of its own, so that the ref itself is never *)
(* contended (Publisher is about that); what the clients share is the      *)
(* object store and the pack index root.  Object identifiers are numbers,  *)
(* in the order in which the journal sorts them; the order in which the    *)
(* graph of a snapshot is walked is any other.  An upload is authentic,    *)
(* nothing deletes objects, and index segments are not compacted.          *)
(***************************************************************************)
EXTENDS Naturals, Sequences, FiniteSets

CONSTANTS
  Clients,
  Objects,        \* object identifiers
  Large,          \* objects too big for a pack
  History,        \* History[c][i]: what the i-th commit of client c reaches
  PackThreshold,  \* missing small objects that make a push use packs (2)
  PackBatch,      \* objects to a pack at most (256)
  PageSize,       \* journal records a resume reads at a time (128)
  ResumeEnabled,  \* resume_push is used
  Overlap,        \* clients may push at the same time
  MaxOps,         \* bound on the pushes of a client
  MaxStops        \* bound on crashes and errors

ASSUME ConstantsAssumption ==
  /\ Objects \subseteq Nat /\ IsFiniteSet(Objects) /\ Large \subseteq Objects
  /\ History \in [Clients -> Seq(SUBSET Objects)]
  /\ {PackThreshold, PackBatch, PageSize} \subseteq Nat \ {0}
  /\ {ResumeEnabled, Overlap} \subseteq BOOLEAN
  /\ {MaxOps, MaxStops} \subseteq Nat

VARIABLES
  \* the remote
  loose,     \* objects/<id>.json
  segment,   \* packs/index/<op>-<n>.json: the objects of each pack
  root,      \* pack-index/root.json: the segments it names
  ref,       \* the commit each client's branch names; 0 is "missing"
  \* each local repository
  head,      \* its latest commit
  ops,       \* pushes begun
  journal,   \* the upload state of each object, by operation
  expected,  \* the ref the operation began from
  \* each running operation
  s,         \* see Session
  stops      \* crashes and errors so far

vars == <<loose, segment, root, ref, head, ops, journal, expected, s, stops>>

Ops      == 1..MaxOps
Segments == Clients \X Ops \X Nat
States   == {"absent", "planned", "uploaded", "verified"}  \* none is "failed"

Steps == {"idle", "inventory", "plan", "upload", "page", "scan", "match",
          "readRoot", "putRoot", "verify", "publish"}

Session ==
  [pc      : Steps,
   stage   : {"push", "pages", "full"},  \* of a resume: "pages", then "full"
   op      : Ops \cup {0},
   snap    : Nat,              \* the commit being published
   known   : SUBSET Objects,   \* objects with a known remote location
   observed: SUBSET Segments,  \* the index root this operation extends
   new     : SUBSET Segments,  \* index segments it added
   todo    : SUBSET Objects,   \* to plan, to check or to upload
   missing : SUBSET Objects,   \* of a page: found to be missing
   batch   : SUBSET Objects,   \* being uploaded
   fresh   : SUBSET Objects,   \* uploaded, the journal does not say so yet
   packs   : BOOLEAN,          \* small objects are packed
   cursor  : Nat]              \* of the next page; 0 is None

Idle == [pc |-> "idle", stage |-> "push", op |-> 0, snap |-> 0,
         known |-> {}, observed |-> {}, new |-> {}, todo |-> {}, missing |-> {},
         batch |-> {}, fresh |-> {}, packs |-> FALSE, cursor |-> 0]

----------------------------------------------------------------------------
(* Objects and where they are.                                             *)

Graph(c, i) == UNION {History[c][j] : j \in {i} \cap DOMAIN History[c]}

Least(x, S)    == \A y \in S : x <= y
Rank(x, S)     == Cardinality({y \in S : y < x})
Slice(S, i, n) == {x \in S : i <= Rank(x, S) /\ Rank(x, S) < i + n}

ObjectsOf(names) == UNION {segment[g] : g \in names \cap DOMAIN segment}
SegmentsOf(c, k) == {g \in DOMAIN segment : g[1] = c /\ g[2] = k}

\* Loading segments fails on an object that two of them list.
Readable(names) ==
  \A g, h \in names \cap DOMAIN segment : g # h => segment[g] \cap segment[h] = {}

\* What a device that knows only the remote finds.
Locatable == loose \cup ObjectsOf(root)
Stored    == loose \cup ObjectsOf(DOMAIN segment)

Packs(missing) == Cardinality(missing \ Large) >= PackThreshold

Pending(c, k) == {o \in Objects : journal[c][k][o] \in {"planned", "uploaded"}}

At(c, step) == s[c].pc = step
Set(c, new) == s' = [s EXCEPT ![c] = new]
Mark(c, o, state) == journal' = [journal EXCEPT ![c][s[c].op][o] = state]

remote == <<loose, segment, root, ref>>
repo   == <<head, ops, journal, expected>>

Init ==
  /\ loose = {} /\ segment = << >> /\ root = {}
  /\ ref = [c \in Clients |-> 0]
  /\ head = [c \in Clients |-> 0]
  /\ ops = [c \in Clients |-> 0]
  /\ journal = [c \in Clients |-> [k \in Ops |-> [o \in Objects |-> "absent"]]]
  /\ expected = [c \in Clients |-> [k \in Ops |-> 0]]
  /\ s = [c \in Clients |-> Idle]
  /\ stops = 0

----------------------------------------------------------------------------
(* Beginning.                                                              *)

Commit(c) ==
  /\ At(c, "idle")
  /\ head[c] < Len(History[c])
  /\ head' = [head EXCEPT ![c] = @ + 1]
  /\ UNCHANGED <<remote, ops, journal, expected, s, stops>>

MayStart(c) ==
  /\ At(c, "idle")
  /\ head[c] > 0
  /\ ~Overlap => \A d \in Clients : At(d, "idle")

\* A push of a head that is already published does nothing.
StartPush(c) ==
  /\ MayStart(c)
  /\ ref[c] # head[c]
  /\ ops[c] < MaxOps
  /\ ops' = [ops EXCEPT ![c] = @ + 1]
  /\ Set(c, [Idle EXCEPT !.pc = "inventory", !.op = ops[c] + 1, !.snap = head[c]])
  /\ UNCHANGED <<remote, head, journal, expected, stops>>

\* The operation's own segments are found by their names, in the root or not.
StartResume(c, k) ==
  /\ ResumeEnabled
  /\ MayStart(c)
  /\ k <= ops[c]
  /\ Readable(SegmentsOf(c, k))
  /\ Set(c, [Idle EXCEPT !.pc = "page", !.stage = "pages", !.op = k,
                         !.snap = head[c], !.known = ObjectsOf(SegmentsOf(c, k))])
  /\ UNCHANGED <<remote, repo, stops>>

\* The inventory is the root, the segments it names and the loose objects.
Observe(c) == Readable(root) /\ s[c].pc = "inventory"

\* Mutant: an object counts as missing unless it is loose.
PushInventory_blind(c) ==
  /\ Observe(c) /\ s[c].stage = "push"
  /\ \A i \in 1..(s[c].snap - 1) : Graph(c, i) \subseteq Locatable
  /\ expected' = [expected EXCEPT ![c][s[c].op] = ref[c]]
  /\ Set(c, [s[c] EXCEPT !.pc = "plan", !.known = loose, !.observed = root,
                         !.todo = Graph(c, s[c].snap)])
  /\ UNCHANGED <<remote, head, ops, journal, stops>>

\* Ancestors must be there; then the operation is entered into the journal.
PushInventory(c) ==
  /\ Observe(c) /\ s[c].stage = "push"
  /\ \A i \in 1..(s[c].snap - 1) : Graph(c, i) \subseteq Locatable
  /\ expected' = [expected EXCEPT ![c][s[c].op] = ref[c]]
  /\ Set(c, [s[c] EXCEPT !.pc = "plan", !.known = Locatable, !.observed = root,
                         !.todo = Graph(c, s[c].snap)])
  /\ UNCHANGED <<remote, head, ops, journal, stops>>

\* Every reachable object is planned, the ones that are there as well.
PlanObject(c) ==
  /\ At(c, "plan")
  /\ \E o \in s[c].todo :
       /\ Mark(c, o, "planned")
       /\ Set(c, [s[c] EXCEPT !.todo = @ \ {o}])
  /\ UNCHANGED <<remote, head, ops, expected, stops>>

BeginUpload(c, S) ==
  Set(c, [s[c] EXCEPT !.pc = "upload", !.todo = S, !.missing = {}, !.packs = Packs(S)])

EndPlan(c) ==
  /\ At(c, "plan")
  /\ s[c].todo = {}
  /\ BeginUpload(c, Graph(c, s[c].snap) \ s[c].known)
  /\ UNCHANGED <<remote, repo, stops>>

----------------------------------------------------------------------------
(* Uploading, a batch at a time.                                           *)

Packed(c) == IF s[c].packs THEN s[c].batch \ Large ELSE {}

TakeBatch(c) ==
  /\ At(c, "upload")
  /\ s[c].batch = {} /\ s[c].fresh = {} /\ s[c].todo # {}
  /\ \E b \in SUBSET s[c].todo :
       /\ \/ Cardinality(b) = PackBatch
          \/ Cardinality(b) < PackBatch /\ b = s[c].todo
       /\ Set(c, [s[c] EXCEPT !.batch = b, !.todo = @ \ b])
  /\ UNCHANGED <<remote, repo, stops>>

\* An upload the operation will find again.  A resume that took the full
\* inventory keeps the locations of its uploads apart from the ones it
\* verifies with.
Locating(c, S) ==
  [s[c] EXCEPT !.batch = @ \ S, !.fresh = S,
               !.known = IF s[c].stage = "full" THEN @ ELSE @ \cup S]

\* Objects that are not packed go first, each under its own name.
PutLoose(c) ==
  /\ At(c, "upload") /\ s[c].fresh = {}
  /\ \E o \in s[c].batch \ Packed(c) :
       /\ loose' = loose \cup {o}
       /\ Set(c, Locating(c, {o}))
  /\ UNCHANGED <<segment, root, ref, repo, stops>>

\* The pack, then its index segment: a pack nothing indexes is not there.
PutPack(c) ==
  /\ At(c, "upload") /\ s[c].fresh = {}
  /\ s[c].batch # {} /\ s[c].batch = Packed(c)
  /\ LET k    == s[c].op
         name == <<c, k, Cardinality(SegmentsOf(c, k))>>
     IN /\ segment' = [g \in DOMAIN segment \cup {name} |->
                         IF g = name THEN s[c].batch ELSE segment[g]]
        /\ Set(c, [Locating(c, s[c].batch) EXCEPT !.new = @ \cup {name}])
  /\ UNCHANGED <<loose, root, ref, repo, stops>>

\* A push writes two records for an object, a resume one.
Record(c) ==
  /\ At(c, "upload")
  /\ \E o \in s[c].fresh :
       IF s[c].stage = "push" /\ journal[c][s[c].op][o] # "uploaded"
       THEN Mark(c, o, "uploaded") /\ UNCHANGED s
       ELSE Mark(c, o, "verified") /\ Set(c, [s[c] EXCEPT !.fresh = @ \ {o}])
  /\ UNCHANGED <<remote, head, ops, expected, stops>>

UploadOver(c) ==
  /\ At(c, "upload")
  /\ s[c].todo = {} /\ s[c].batch = {} /\ s[c].fresh = {}

\* The root is extended only by an operation that added segments.
Index(c) == IF s[c].new = {} THEN "verify"
            ELSE IF s[c].stage = "pages" THEN "readRoot" ELSE "putRoot"

EndUpload(c) ==
  /\ UploadOver(c)
  /\ Set(c, [s[c] EXCEPT
       !.pc = IF s[c].stage = "push" THEN Index(c)
              ELSE IF s[c].stage = "pages" /\ s[c].cursor > 0 THEN "page"
              ELSE "match"])
  /\ UNCHANGED <<remote, repo, stops>>

----------------------------------------------------------------------------
(* What a resume does before it uploads.                                   *)

\* Mutant: with nothing pending, everything is taken to be uploaded.
ReadPage_over(c) ==
  /\ At(c, "page")
  /\ LET pending == Pending(c, s[c].op)
         page    == Slice(pending, s[c].cursor, PageSize)
         next    == s[c].cursor + Cardinality(page)
     IN Set(c, [s[c] EXCEPT !.pc = "scan", !.todo = page,
                  !.cursor = IF next < Cardinality(pending) THEN next ELSE 0])
  /\ UNCHANGED <<remote, repo, stops>>

\* The offset of a page counts records that are pending when it is read.
\* With nothing pending to begin with, the resume takes the full inventory.
ReadPage(c) ==
  /\ At(c, "page")
  /\ LET pending == Pending(c, s[c].op)
         page    == Slice(pending, s[c].cursor, PageSize)
         next    == s[c].cursor + Cardinality(page)
     IN Set(c, IF pending = {} /\ s[c].cursor = 0
               THEN [s[c] EXCEPT !.pc = "inventory", !.stage = "full"]
               ELSE [s[c] EXCEPT !.pc = "scan", !.todo = page,
                       !.cursor = IF next < Cardinality(pending) THEN next ELSE 0])
  /\ UNCHANGED <<remote, repo, stops>>

\* Mutant: what the journal knows is not looked for on the remote.
ScanRecord_trust(c) ==
  /\ At(c, "scan")
  /\ \E o \in s[c].todo :
       /\ Least(o, s[c].todo)
       /\ Mark(c, o, "verified")
       /\ Set(c, [s[c] EXCEPT !.todo = @ \ {o}])
  /\ UNCHANGED <<remote, head, ops, expected, stops>>

\* An object is found loose or in a pack of this operation, and nowhere else.
ScanRecord(c) ==
  /\ At(c, "scan")
  /\ \E o \in s[c].todo :
     /\ Least(o, s[c].todo)
     /\ IF o \in s[c].known \cup loose
        THEN /\ Mark(c, o, "verified")
             /\ Set(c, [s[c] EXCEPT !.todo = @ \ {o}])
        ELSE /\ Set(c, [s[c] EXCEPT !.todo = @ \ {o}, !.missing = @ \cup {o}])
             /\ UNCHANGED journal
  /\ UNCHANGED <<remote, head, ops, expected, stops>>

EndScan(c) ==
  /\ At(c, "scan")
  /\ s[c].todo = {}
  /\ BeginUpload(c, s[c].missing)
  /\ UNCHANGED <<remote, repo, stops>>

FullInventory(c) ==
  /\ Observe(c) /\ s[c].stage = "full"
  /\ LET missing == Graph(c, s[c].snap) \ Locatable
     IN Set(c, [s[c] EXCEPT !.pc = "upload", !.observed = root, !.todo = missing,
                            !.packs = Packs(missing)])
  /\ UNCHANGED <<remote, repo, stops>>

\* A ref that names the head ends the resume, whatever it has uploaded.
Match(c) ==
  /\ At(c, "match")
  /\ Set(c, IF ref[c] = s[c].snap THEN Idle ELSE [s[c] EXCEPT !.pc = Index(c)])
  /\ UNCHANGED <<remote, repo, stops>>

----------------------------------------------------------------------------
(* Publishing the index root, then the ref.                                *)

ReadRoot(c) ==
  /\ At(c, "readRoot")
  /\ Set(c, [s[c] EXCEPT !.pc = "putRoot", !.observed = root])
  /\ UNCHANGED <<remote, repo, stops>>

\* Mutant: the root names only what this operation added.
PutRoot_replace(c) ==
  /\ At(c, "putRoot")
  /\ root' = s[c].new
  /\ Set(c, [s[c] EXCEPT !.pc = "verify"])
  /\ UNCHANGED <<loose, segment, ref, repo, stops>>

\* The root is put without a comparison.
PutRoot(c) ==
  /\ At(c, "putRoot")
  /\ root' = s[c].observed \cup s[c].new
  /\ Set(c, [s[c] EXCEPT !.pc = "verify"])
  /\ UNCHANGED <<loose, segment, ref, repo, stops>>

\* Mutant: nothing is verified before the ref is swapped.
VerifyObjects_skip(c) ==
  /\ At(c, "verify")
  /\ Set(c, [s[c] EXCEPT !.pc = "publish"])
  /\ UNCHANGED <<remote, repo, stops>>

\* A push verifies with what it knows; a resume reads loose objects again.
VerifyObjects(c) ==
  /\ At(c, "verify")
  /\ Graph(c, s[c].snap) \subseteq
       s[c].known \cup (IF s[c].stage = "push" THEN {} ELSE loose)
  /\ Set(c, [s[c] EXCEPT !.pc = "publish"])
  /\ UNCHANGED <<remote, repo, stops>>

\* The swap compares with the ref the journal remembers.
PublishRef(c) ==
  /\ At(c, "publish")
  /\ ref[c] = expected[c][s[c].op]
  /\ ref' = [ref EXCEPT ![c] = s[c].snap]
  /\ Set(c, Idle)
  /\ UNCHANGED <<loose, segment, root, repo, stops>>

\* Every way to refuse: an inventory that cannot be read, a missing object,
\* a ref that moved.
Refused(c) ==
  \/ At(c, "inventory") /\ ~Readable(root)
  \/ /\ At(c, "inventory") /\ s[c].stage = "push"
     /\ \E i \in 1..(s[c].snap - 1) : ~(Graph(c, i) \subseteq Locatable)
  \/ /\ At(c, "verify")
     /\ ~(Graph(c, s[c].snap) \subseteq
            s[c].known \cup (IF s[c].stage = "push" THEN {} ELSE loose))
  \/ At(c, "publish") /\ ref[c] # expected[c][s[c].op]

Refuse(c) ==
  /\ Refused(c)
  /\ Set(c, Idle)
  /\ UNCHANGED <<remote, repo, stops>>

\* A crash, or an error of the transport.
Stop(c) ==
  /\ ~At(c, "idle")
  /\ stops < MaxStops
  /\ stops' = stops + 1
  /\ Set(c, Idle)
  /\ UNCHANGED <<remote, repo>>

----------------------------------------------------------------------------
Work(c) ==
  \/ PushInventory(c) \/ PlanObject(c) \/ EndPlan(c)
  \/ TakeBatch(c) \/ PutLoose(c) \/ PutPack(c) \/ Record(c) \/ EndUpload(c)
  \/ ReadPage(c) \/ ScanRecord(c) \/ EndScan(c) \/ FullInventory(c) \/ Match(c)
  \/ ReadRoot(c) \/ PutRoot(c) \/ VerifyObjects(c) \/ PublishRef(c) \/ Refuse(c)

Next == \E c \in Clients :
  \/ Commit(c) \/ StartPush(c) \/ (\E k \in Ops : StartResume(c, k))
  \/ Work(c) \/ Stop(c)

Spec == Init /\ [][Next]_vars

\* A running operation goes on; whoever began a push resumes it until it is
\* published.
FairSpec ==
  /\ Spec
  /\ \A c \in Clients : WF_vars(Work(c)) /\ WF_vars(\E k \in Ops : StartResume(c, k))

----------------------------------------------------------------------------
(* Properties.                                                             *)

TypeOK ==
  /\ loose \subseteq Objects
  /\ DOMAIN segment \subseteq Segments
  /\ \A g \in DOMAIN segment : segment[g] \subseteq Objects
  /\ root \subseteq Segments
  /\ ref \in [Clients -> Nat]
  /\ head \in [Clients -> Nat]
  /\ ops \in [Clients -> Nat]
  /\ journal \in [Clients -> [Ops -> [Objects -> States]]]
  /\ expected \in [Clients -> [Ops -> Nat]]
  /\ s \in [Clients -> Session]
  /\ stops \in Nat

\* What a ref names is in the store, in a pack or loose: no order of crashes,
\* retries and resumes publishes a snapshot with an object that was never
\* uploaded (the pre-commit check of push.rs).
PublishedIsStored == \A c \in Clients : Graph(c, ref[c]) \subseteq Stored

\* What a ref names can be found by a device that starts from the index
\* root, as fetch and clone do.
PublishedIsLocatable == \A c \in Clients : Graph(c, ref[c]) \subseteq Locatable

\* The segments of the index root list no object twice; loading them fails
\* otherwise, for every device (append_pack_index_locations).
IndexUnambiguous == Readable(root)

\* A published snapshot stops being locatable in two ways only: an index root
\* is put over one that another operation extended since it was read, or a
\* ref is published by a resume, or by a push whose index is not in the root
\* any more.  No crash, retry, journal or order of other steps does it
\* (upload_objects_with_policy, write_remote_pack_index_root).
OverwritesIndex(c) == PutRoot(c) /\ ~(root \subseteq s[c].observed \cup s[c].new)

PublishesUnindexed(c) ==
  /\ PublishRef(c)
  /\ s[c].stage # "push" \/ ~(s[c].observed \cup s[c].new \subseteq root)

LocatableLost ==
  [][PublishedIsLocatable =>
       \/ PublishedIsLocatable'
       \/ \E c \in Clients : OverwritesIndex(c) \/ PublishesUnindexed(c)]_vars

\* Only the index root of a resume can list an object twice; the one that a
\* push puts never does, whatever other operations put meanwhile.
AmbiguousByResume ==
  [][/\ IndexUnambiguous =>
          \/ IndexUnambiguous'
          \/ \E c \in Clients : PutRoot(c) /\ s[c].stage # "push"
     /\ \A c \in Clients : PutRoot(c) /\ s[c].stage = "push" => IndexUnambiguous']_vars

\* The journal says "verified" only of objects that are in the store, so a
\* resume that skips them loses nothing.
VerifiedIsStored ==
  \A c \in Clients, k \in Ops, o \in Objects :
    journal[c][k][o] = "verified" => o \in Stored

\* The index root names no segment that was not uploaded before it.
RootAfterSegments == root \subseteq DOMAIN segment

\* What a running operation believes of the remote is true of it, and it
\* publishes only what is there.
Sound(c, x) ==
  /\ x.known \cup x.fresh \subseteq Stored
  /\ x.observed \cup x.new \subseteq DOMAIN segment
  /\ x.pc = "publish" => Graph(c, x.snap) \subseteq Stored
  /\ x.pc # "idle" => x.op \in Ops

\* The packs of an operation are numbered without gaps, so that a new pack
\* never takes the name of one that is there.
Numbered ==
  /\ IsFiniteSet(DOMAIN segment)
  /\ \A c \in Clients, k \in Ops :
       {g[3] : g \in SegmentsOf(c, k)} = 0..(Cardinality(SegmentsOf(c, k)) - 1)

\* Why published snapshots are stored: an inductive invariant.
StoreInv ==
  /\ TypeOK /\ Numbered
  /\ PublishedIsStored /\ VerifiedIsStored /\ RootAfterSegments
  /\ \A c \in Clients : Sound(c, s[c])

\* A first push that is interrupted and resumed is published in the end.
FirstPushEnds == \A c \in Clients : ops[c] = 1 ~> ref[c] > 0

============================================================================
