--------------------------- MODULE UploadProofs ---------------------------
(***************************************************************************)
(* What holds of UploadResume for any clients, histories, sizes and        *)
(* crashes: published snapshots are stored, and, when nobody resumes and   *)
(* pushes do not overlap, they can be found through an unambiguous index.  *)
(***************************************************************************)
EXTENDS UploadResume, FiniteSetTheorems, TLAPS

USE ConstantsAssumption DEF At, Set

-----------------------------------------------------------------------------
(* Helpers.                                                                *)

\* What a snapshot reaches are objects.
LEMMA GraphType == \A c \in Clients, i \in Nat : Graph(c, i) \subseteq Objects
<1>1. SUFFICES ASSUME NEW c \in Clients, NEW i \in Nat,
                      NEW j \in {i} \cap DOMAIN History[c]
               PROVE  History[c][j] \subseteq Objects
  BY DEF Graph
<1>2. History[c] \in Seq(SUBSET Objects)
  OBVIOUS
<1> QED BY <1>2

\* Nothing is reached from "no commit".
LEMMA GraphOfNone == \A c \in Clients : Graph(c, 0) = {}
<1> SUFFICES ASSUME NEW c \in Clients PROVE DOMAIN History[c] \cap {0} = {}
  BY DEF Graph
<1>1. History[c] \in Seq(SUBSET Objects)
  OBVIOUS
<1> QED BY <1>1

\* The index of a page is computed from finite sets.
LEMMA SliceType ==
  ASSUME NEW S \in SUBSET Objects, NEW x \in Nat, NEW n \in Nat
  PROVE  /\ Slice(S, x, n) \subseteq S
         /\ Cardinality(S) \in Nat
         /\ Cardinality(Slice(S, x, n)) \in Nat
<1>1. Slice(S, x, n) \subseteq S
  BY DEF Slice
<1>2. IsFiniteSet(S) /\ IsFiniteSet(Slice(S, x, n))
  BY <1>1, FS_Subset
<1> QED BY <1>1, <1>2, FS_CardinalityType

-----------------------------------------------------------------------------
(* The type invariant, together with the numbering of the packs.           *)

TypeInv ==
  /\ TypeOK /\ Numbered
  /\ \A c \in Clients : ~At(c, "idle") => s[c].op \in Ops

\* A step that gives one operation a new session of the right type, and
\* leaves the numbering alone, keeps the invariant if the rest is typed.
LEMMA SessionStep ==
  ASSUME TypeInv, NEW c \in Clients, NEW x \in Session, Set(c, x),
         x.pc # "idle" => x.op \in Ops
  PROVE  /\ s' \in [Clients -> Session]
         /\ \A d \in Clients : s'[d].pc # "idle" => s'[d].op \in Ops
  BY DEF TypeInv, TypeOK

\* A client that does nothing has a session of the right type.
LEMMA IdleType == Idle \in Session
  BY DEF Idle, Session, Steps

\* The type invariant holds initially.
LEMMA InitType == Init => TypeInv
<1> SUFFICES ASSUME Init PROVE TypeInv
  OBVIOUS
<1>1. TypeOK
  BY IdleType DEF Init, TypeOK, States
<1>2. Numbered
  <2>1. DOMAIN segment = {}
    BY DEF Init
  <2>2. \A c \in Clients, k \in Ops : SegmentsOf(c, k) = {}
    BY <2>1 DEF SegmentsOf
  <2>3. 0..(0 - 1) = {}
    OBVIOUS
  <2> QED BY <2>1, <2>2, <2>3, FS_EmptySet DEF Numbered
<1>3. \A c \in Clients : At(c, "idle")
  BY DEF Init, Idle
<1> QED BY <1>1, <1>2, <1>3 DEF TypeInv

\* A new pack takes the next number of its operation.
LEMMA PackNumber ==
  ASSUME TypeInv, NEW c \in Clients, ~At(c, "idle"), PutPack(c)
  PROVE  LET name == <<c, s[c].op, Cardinality(SegmentsOf(c, s[c].op))>>
         IN /\ name \in Segments \ DOMAIN segment
            /\ DOMAIN segment' = DOMAIN segment \cup {name}
            /\ Numbered'
<1> DEFINE n == Cardinality(SegmentsOf(c, s[c].op))
           name == <<c, s[c].op, n>>
<1>1. s[c].op \in Ops
  BY DEF TypeInv
<1>2. IsFiniteSet(SegmentsOf(c, s[c].op)) /\ n \in Nat
  <2>1. SegmentsOf(c, s[c].op) \in SUBSET DOMAIN segment
    BY DEF SegmentsOf
  <2> QED BY <2>1, FS_Subset, FS_CardinalityType DEF TypeInv, Numbered
<1>3. name \in Segments
  BY <1>1, <1>2 DEF Segments
<1>4. {g[3] : g \in SegmentsOf(c, s[c].op)} = 0..(n - 1)
  BY <1>1 DEF TypeInv, Numbered
<1>5. name \notin DOMAIN segment
  <2>1. name \notin SegmentsOf(c, s[c].op)
    BY <1>2, <1>4
  <2> QED BY <2>1 DEF SegmentsOf
<1>6. DOMAIN segment' = DOMAIN segment \cup {name}
  BY DEF PutPack
<1>7. Numbered'
  <2>1. IsFiniteSet(DOMAIN segment')
    <3>1. IsFiniteSet(DOMAIN segment)
      BY DEF TypeInv, Numbered
    <3>2. IsFiniteSet(DOMAIN segment \cup {name})
      BY ONLY <3>1, FS_AddElement
    <3> QED BY <1>6, <3>2
  <2>2. ASSUME NEW d \in Clients, NEW k \in Ops
        PROVE  {g[3] : g \in SegmentsOf(d, k)'} = 0..(Cardinality(SegmentsOf(d, k)') - 1)
    <3>1. CASE d = c /\ k = s[c].op
      <4>1. SegmentsOf(d, k)' = SegmentsOf(c, s[c].op) \cup {name}
        BY <1>6, <3>1 DEF SegmentsOf
      <4>2. Cardinality(SegmentsOf(d, k)') = n + 1
        <5> DEFINE S == SegmentsOf(c, s[c].op)
        <5>1. name \notin S
          BY <1>5 DEF SegmentsOf
        <5>2. Cardinality(S \cup {name}) = Cardinality(S) + 1
          <6>1. IsFiniteSet(S)
            BY <1>2
          <6> HIDE DEF S, name
          <6> QED BY <5>1, <6>1, FS_AddElement
        <5> QED BY <4>1, <5>2
      <4>3. {g[3] : g \in SegmentsOf(d, k)'} = (0..(n - 1)) \cup {n}
        <5>1. name[3] = n
          OBVIOUS
        <5> HIDE DEF name
        <5> QED BY <4>1, <1>4, <5>1
      <4>4. (0..(n - 1)) \cup {n} = 0..((n + 1) - 1)
        BY <1>2
      <4> QED BY <4>2, <4>3, <4>4
    <3>2. CASE ~(d = c /\ k = s[c].op)
      <4>1. SegmentsOf(d, k)' = SegmentsOf(d, k)
        BY <1>6, <3>2 DEF SegmentsOf
      <4> QED BY <4>1 DEF TypeInv, Numbered
    <3> QED BY <3>1, <3>2
  <2> QED BY <2>1, <2>2 DEF Numbered
<1> QED BY <1>3, <1>5, <1>6, <1>7

\* Numbering depends on the segments only.
LEMMA NumberedStays ==
  ASSUME Numbered, segment' = segment
  PROVE  Numbered'
<1>1. \A c \in Clients, k \in Ops : SegmentsOf(c, k)' = SegmentsOf(c, k)
  BY DEF SegmentsOf
<1> QED BY <1>1 DEF Numbered

\* What is stored or found are objects.
LEMMA StoredType == TypeOK => Stored \subseteq Objects /\ Locatable \subseteq Objects
  BY DEF TypeOK, Stored, Locatable, ObjectsOf

\* A step that only moves one operation on.
LEMMA QuietType ==
  ASSUME TypeInv, NEW c \in Clients, NEW x \in Session, Set(c, x),
         x.pc # "idle" => x.op \in Ops,
         UNCHANGED <<loose, segment, root, ref, head, ops, journal, expected>>,
         stops' \in Nat
  PROVE  TypeInv'
<1>1. Numbered'
  BY NumberedStays DEF TypeInv
<1>2. s' \in [Clients -> Session] /\ \A d \in Clients : ~At(d, "idle")' => s'[d].op \in Ops
  BY SessionStep
<1> QED BY <1>1, <1>2 DEF TypeInv, TypeOK

\* Committing and beginning an operation keep the types.
LEMMA BeginType ==
  ASSUME TypeInv, NEW c \in Clients,
         \/ Commit(c) \/ StartPush(c) \/ (\E k \in Ops : StartResume(c, k))
  PROVE  TypeInv'
<1>1. CASE Commit(c)
  <2>1. Numbered'
    BY <1>1, NumberedStays DEF TypeInv, Commit, remote
  <2> QED BY <1>1, <2>1 DEF TypeInv, TypeOK, Commit, remote
<1>2. CASE StartPush(c)
  <2> DEFINE x == [Idle EXCEPT !.pc = "inventory", !.op = ops[c] + 1, !.snap = head[c]]
  <2>1. ops[c] + 1 \in Ops /\ ops[c] + 1 \in Nat
    BY <1>2 DEF StartPush, TypeInv, TypeOK, Ops
  <2>2. x \in Session
    BY <2>1, IdleType DEF TypeInv, TypeOK, Session, Steps
  <2>3. x.op \in Ops
    BY <2>1 DEF Idle
  <2>4. s' \in [Clients -> Session] /\ \A d \in Clients : ~At(d, "idle")' => s'[d].op \in Ops
    <3> HIDE DEF x
    <3>1. Set(c, x)
      BY <1>2 DEF StartPush, x
    <3> QED BY <3>1, <2>2, <2>3, SessionStep
  <2>5. Numbered'
    BY <1>2, NumberedStays DEF TypeInv, StartPush, remote
  <2> QED BY <1>2, <2>1, <2>4, <2>5 DEF TypeInv, TypeOK, StartPush, remote
<1>3. ASSUME NEW k \in Ops, StartResume(c, k) PROVE TypeInv'
  <2> DEFINE x == [Idle EXCEPT !.pc = "page", !.stage = "pages", !.op = k,
                     !.snap = head[c], !.known = ObjectsOf(SegmentsOf(c, k))]
  <2>1. ObjectsOf(SegmentsOf(c, k)) \subseteq Objects
    BY DEF TypeInv, TypeOK, ObjectsOf
  <2>2. x \in Session
    BY <2>1, IdleType DEF TypeInv, TypeOK, Session, Steps
  <2>3. x.op \in Ops
    BY DEF Idle
  <2>4. Set(c, x)
    BY <1>3 DEF StartResume
  <2>5. UNCHANGED <<loose, segment, root, ref, head, ops, journal, expected>> /\ stops' \in Nat
    BY <1>3 DEF StartResume, remote, repo, TypeInv, TypeOK
  <2> HIDE DEF x
  <2> QED BY <2>2, <2>3, <2>4, <2>5, QuietType
<1> QED BY <1>1, <1>2, <1>3

\* An entry of the journal.
LEMMA MarkType ==
  ASSUME TypeInv, NEW c \in Clients, NEW o \in Objects, NEW state \in States,
         Mark(c, o, state)
  PROVE  journal' \in [Clients -> [Ops -> [Objects -> States]]]
  BY DEF Mark, TypeInv, TypeOK

\* The steps that change nothing but the session.
QuietStep(c) ==
  \/ EndPlan(c) \/ TakeBatch(c) \/ EndUpload(c) \/ ReadPage(c) \/ EndScan(c)
  \/ FullInventory(c) \/ Match(c) \/ ReadRoot(c) \/ VerifyObjects(c)
  \/ Refuse(c) \/ Stop(c)

\* What BeginUpload sets has its type.
LEMMA UploadBegun ==
  ASSUME s \in [Clients -> Session], NEW c \in Clients, NEW S \in SUBSET Objects,
         s[c].pc # "idle", s[c].op \in Ops, BeginUpload(c, S)
  PROVE  s'[c] \in Session /\ s'[c].op \in Ops
<1> DEFINE p == Packs(S)
<1>1. p \in BOOLEAN
  BY DEF Packs
<1>2. Set(c, [s[c] EXCEPT !.pc = "upload", !.todo = S, !.missing = {}, !.packs = p])
  BY DEF BeginUpload
<1>3. s[c] \in Session
  OBVIOUS
<1> HIDE DEF p
<1>4. s'[c] = [s[c] EXCEPT !.pc = "upload", !.todo = S, !.missing = {}, !.packs = p]
  BY <1>2
<1>5. s'[c].op = s[c].op
  BY <1>3, <1>4 DEF Session
<1>6. s'[c] \in Session
  BY <1>1, <1>3, <1>4 DEF Session, Steps
<1> QED BY <1>5, <1>6

\* They keep the types.
LEMMA QuietStepType ==
  ASSUME TypeInv, NEW c \in Clients, QuietStep(c)
  PROVE  TypeInv'
<1>1. SUFFICES s'[c] \in Session /\ (s'[c].pc # "idle" => s'[c].op \in Ops)
  <2>1. /\ UNCHANGED <<loose, segment, root, ref, head, ops, journal, expected>>
        /\ stops' \in {stops, stops + 1}
    BY DEF QuietStep, EndPlan, TakeBatch, EndUpload, ReadPage, EndScan, FullInventory,
           Match, ReadRoot, VerifyObjects, Refuse, Stop, remote, repo
  <2>2. Set(c, s'[c])
    BY DEF QuietStep, EndPlan, BeginUpload, TakeBatch, EndUpload, ReadPage, EndScan,
           FullInventory, Match, ReadRoot, VerifyObjects, Refuse, Stop, TypeInv, TypeOK
  <2>3. stops' \in Nat
    BY <2>1 DEF TypeInv, TypeOK
  <2> QED BY <1>1, <2>1, <2>2, <2>3, QuietType
<1>2. /\ s \in [Clients -> Session]
      /\ s[c] \in Session
      /\ s[c].pc # "idle" => s[c].op \in Ops
  BY DEF TypeInv, TypeOK
<1> USE DEF Session, Steps
<1>3. CASE EndPlan(c)
  <2>1. Graph(c, s[c].snap) \ s[c].known \in SUBSET Objects
    BY <1>2, GraphType
  <2> QED BY <1>2, <1>3, <2>1, UploadBegun DEF EndPlan
<1>4. CASE TakeBatch(c)
  <2>1. PICK b \in SUBSET s[c].todo : Set(c, [s[c] EXCEPT !.batch = b, !.todo = @ \ b])
    BY <1>4 DEF TakeBatch
  <2> QED BY <1>2, <2>1
<1>5. CASE EndUpload(c)
  BY <1>2, <1>5 DEF EndUpload, UploadOver, Index
<1>6. CASE ReadPage(c)
  <2> DEFINE pending == Pending(c, s[c].op)
             page    == Slice(pending, s[c].cursor, PageSize)
  <2>1. pending \in SUBSET Objects
    BY DEF Pending
  <2>2. page \subseteq Objects /\ Cardinality(page) \in Nat /\ Cardinality(pending) \in Nat
    BY <1>2, <2>1, SliceType
  <2> HIDE DEF pending, page
  <2>3. Set(c, IF pending = {} /\ s[c].cursor = 0
               THEN [s[c] EXCEPT !.pc = "inventory", !.stage = "full"]
               ELSE [s[c] EXCEPT !.pc = "scan", !.todo = page,
                       !.cursor = IF s[c].cursor + Cardinality(page) < Cardinality(pending)
                                  THEN s[c].cursor + Cardinality(page) ELSE 0])
    BY <1>6 DEF ReadPage, pending, page
  <2> DEFINE x == s[c].cursor + Cardinality(page)
  <2>4. x \in Nat /\ 0 \in Nat
    BY <1>2, <2>2
  <2>5. s[c].pc # "idle"
    BY <1>6 DEF ReadPage
  <2> HIDE DEF x
  <2> QED BY <1>2, <2>2, <2>3, <2>4, <2>5 DEF x
<1>7. CASE EndScan(c)
  <2>1. s[c].missing \in SUBSET Objects
    BY <1>2
  <2> QED BY <1>2, <1>7, <2>1, UploadBegun DEF EndScan
<1>8. CASE FullInventory(c)
  <2> DEFINE S == Graph(c, s[c].snap) \ Locatable
             p == Packs(S)
  <2>1. S \in SUBSET Objects
    BY <1>2, GraphType
  <2>2. p \in BOOLEAN /\ root \in SUBSET Segments
    BY DEF Packs, TypeInv, TypeOK
  <2>3. Set(c, [s[c] EXCEPT !.pc = "upload", !.observed = root, !.todo = S, !.packs = p])
    BY <1>8 DEF FullInventory
  <2>4. s[c].pc # "idle"
    BY <1>8 DEF FullInventory, Observe
  <2> HIDE DEF S, p
  <2> QED BY <1>2, <2>1, <2>2, <2>3, <2>4
<1>9. CASE Match(c)
  BY <1>2, <1>9, IdleType DEF Match, Index, Idle
<1>10. CASE ReadRoot(c)
  BY <1>2, <1>10 DEF ReadRoot, TypeInv, TypeOK
<1>11. CASE VerifyObjects(c)
  BY <1>2, <1>11 DEF VerifyObjects
<1>12. CASE Refuse(c) \/ Stop(c)
  <2>1. s'[c] = Idle
    BY <1>2, <1>12 DEF Refuse, Stop
  <2>2. Idle.pc = "idle"
    BY DEF Idle
  <2> QED BY <2>1, <2>2, IdleType DEF Idle
<1> HIDE DEF Session, Steps
<1> QED BY <1>3, <1>4, <1>5, <1>6, <1>7, <1>8, <1>9, <1>10, <1>11, <1>12 DEF QuietStep

\* A step of an operation whose session keeps its type, with the store and
\* the journal typed as well.
LEMMA SteppedType ==
  ASSUME TypeInv, NEW c \in Clients, NEW x \in Session, Set(c, x),
         x.pc # "idle" => x.op \in Ops,
         loose' \subseteq Objects,
         DOMAIN segment' \subseteq Segments,
         \A g \in DOMAIN segment' : segment'[g] \subseteq Objects,
         root' \subseteq Segments, Numbered',
         ref' \in [Clients -> Nat],
         journal' \in [Clients -> [Ops -> [Objects -> States]]],
         expected' \in [Clients -> [Ops -> Nat]],
         UNCHANGED <<head, ops, stops>>
  PROVE  TypeInv'
<1>1. s' \in [Clients -> Session] /\ \A d \in Clients : ~At(d, "idle")' => s'[d].op \in Ops
  BY SessionStep
<1> QED BY <1>1 DEF TypeInv, TypeOK

\* Where an upload is noted, the session keeps its type and its operation.
LEMMA LocatingType ==
  ASSUME TypeInv, NEW c \in Clients, NEW S \in SUBSET Objects, At(c, "upload")
  PROVE  Locating(c, S) \in Session /\ Locating(c, S).op = s[c].op
<1>1. s[c] \in Session
  BY DEF TypeInv, TypeOK
<1> DEFINE known == IF s[c].stage = "full" THEN s[c].known ELSE s[c].known \cup S
<1>2. known \in SUBSET Objects
  BY <1>1 DEF Session
<1>3. Locating(c, S) = [s[c] EXCEPT !.batch = s[c].batch \ S, !.fresh = S, !.known = known]
  BY <1>1 DEF Locating, Session
<1> HIDE DEF known
<1> QED BY <1>1, <1>2, <1>3 DEF Session

\* The other steps, of which each writes the store, the journal or the ref.
BusyStep(c) ==
  \/ PushInventory(c) \/ PlanObject(c) \/ PutLoose(c) \/ PutPack(c)
  \/ Record(c) \/ ScanRecord(c) \/ PutRoot(c) \/ PublishRef(c)

\* They keep the types, and a new pack keeps the numbering.
LEMMA BusyStepType ==
  ASSUME TypeInv, NEW c \in Clients, BusyStep(c)
  PROVE  TypeInv'
<1>1. /\ s \in [Clients -> Session]
      /\ s[c] \in Session
      /\ s[c].pc # "idle" => s[c].op \in Ops
      /\ TypeOK
      /\ Numbered
  BY DEF TypeInv, TypeOK
<1>2. CASE PushInventory(c)
  <2> DEFINE x == [s[c] EXCEPT !.pc = "plan", !.known = Locatable, !.observed = root,
                               !.todo = Graph(c, s[c].snap)]
  <2>1. Graph(c, s[c].snap) \in SUBSET Objects /\ Locatable \in SUBSET Objects
    BY <1>1, GraphType, StoredType DEF Session
  <2>2. x \in Session /\ x.op \in Ops
    BY <1>1, <1>2, <2>1 DEF PushInventory, Observe, Session, Steps, TypeOK
  <2>3. Set(c, x)
    BY <1>2 DEF PushInventory
  <2>4. expected' \in [Clients -> [Ops -> Nat]]
    BY <1>1, <1>2 DEF PushInventory, TypeOK
  <2>5. UNCHANGED <<loose, segment, root, ref, journal, head, ops, stops>>
    BY <1>2 DEF PushInventory, remote
  <2>6. Numbered'
    BY <1>1, <2>5, NumberedStays
  <2> HIDE DEF x
  <2> QED BY <1>1, <2>2, <2>3, <2>4, <2>5, <2>6, SteppedType DEF TypeOK
<1>3. CASE PlanObject(c)
  <2>1. PICK o \in s[c].todo : /\ Mark(c, o, "planned")
                               /\ Set(c, [s[c] EXCEPT !.todo = @ \ {o}])
    BY <1>3 DEF PlanObject
  <2> DEFINE x == [s[c] EXCEPT !.todo = @ \ {o}]
  <2>2. x \in Session /\ x.op = s[c].op /\ o \in Objects
    BY <1>1 DEF Session
  <2>3. UNCHANGED <<loose, segment, root, ref, expected, head, ops, stops>> /\ s[c].pc # "idle"
    BY <1>3 DEF PlanObject, remote
  <2>4. journal' \in [Clients -> [Ops -> [Objects -> States]]]
    BY <2>1, <2>2, MarkType DEF States
  <2>5. Numbered'
    BY <1>1, <2>3, NumberedStays
  <2>6. Set(c, x) /\ x \in Session /\ (x.pc # "idle" => x.op \in Ops)
    BY <1>1, <2>1, <2>2, <2>3
  <2> HIDE DEF x
  <2> QED BY <1>1, <2>3, <2>4, <2>5, <2>6, SteppedType DEF TypeOK
<1>4. CASE PutLoose(c)
  <2>1. PICK o \in s[c].batch \ Packed(c) : loose' = loose \cup {o} /\ Set(c, Locating(c, {o}))
    BY <1>4 DEF PutLoose
  <2> DEFINE x == Locating(c, {o})
  <2>2. o \in Objects
    BY <1>1 DEF Session
  <2>3. x \in Session /\ x.op \in Ops
    BY <1>1, <1>4, <2>2, LocatingType DEF PutLoose
  <2>4. UNCHANGED <<segment, root, ref, journal, expected, head, ops, stops>>
    BY <1>4 DEF PutLoose, repo
  <2>5. Numbered'
    BY <1>1, <2>4, NumberedStays
  <2>6. loose' \subseteq Objects
    BY <1>1, <2>1, <2>2 DEF TypeOK
  <2>7. Set(c, x)
    BY <2>1
  <2> HIDE DEF x
  <2> QED BY <1>1, <2>3, <2>4, <2>5, <2>6, <2>7, SteppedType DEF TypeOK
<1>5. CASE PutPack(c)
  <2> DEFINE name == <<c, s[c].op, Cardinality(SegmentsOf(c, s[c].op))>>
             x == [Locating(c, s[c].batch) EXCEPT !.new = @ \cup {name}]
  <2>1. At(c, "upload") /\ s[c].batch \in SUBSET Objects
    BY <1>1, <1>5 DEF PutPack, Session
  <2>2. name \in Segments \ DOMAIN segment /\ DOMAIN segment' = DOMAIN segment \cup {name} /\ Numbered'
    BY <1>5, <2>1, PackNumber
  <2>3. /\ segment' = [g \in DOMAIN segment \cup {name} |->
                         IF g = name THEN s[c].batch ELSE segment[g]]
        /\ Set(c, x)
        /\ UNCHANGED <<loose, root, ref, journal, expected, head, ops, stops>>
    BY <1>5 DEF PutPack, repo
  <2>4. Locating(c, s[c].batch) \in Session /\ Locating(c, s[c].batch).op = s[c].op
    BY <2>1, LocatingType
  <2> HIDE DEF name
  <2>5. x \in Session /\ x.op = s[c].op
    BY <2>2, <2>4 DEF Session
  <2> HIDE DEF x
  <2>6. DOMAIN segment' \subseteq Segments /\ \A g \in DOMAIN segment' : segment'[g] \subseteq Objects
    BY <1>1, <2>1, <2>2, <2>3 DEF TypeOK
  <2> QED BY <1>1, <2>1, <2>2, <2>3, <2>5, <2>6, SteppedType DEF TypeOK
<1>6. CASE Record(c)
  <2>1. PICK o \in s[c].fresh :
          \/ Mark(c, o, "uploaded") /\ UNCHANGED s
          \/ Mark(c, o, "verified") /\ Set(c, [s[c] EXCEPT !.fresh = @ \ {o}])
    BY <1>6 DEF Record
  <2> DEFINE x == s'[c]
  <2>2. o \in Objects
    BY <1>1 DEF Session
  <2>3. Set(c, x) /\ x \in Session /\ x.op = s[c].op
    <3>1. [s[c] EXCEPT !.fresh = @ \ {o}] \in Session
      BY <1>1 DEF Session
    <3>2. [s[c] EXCEPT !.fresh = @ \ {o}].op = s[c].op
      BY <1>1 DEF Session
    <3>3. x \in {s[c], [s[c] EXCEPT !.fresh = @ \ {o}]} /\ Set(c, x)
      BY <1>1, <2>1
    <3> QED BY <1>1, <3>1, <3>2, <3>3
  <2>4. UNCHANGED <<loose, segment, root, ref, expected, head, ops, stops>> /\ s[c].pc # "idle"
    BY <1>6 DEF Record, remote
  <2>5. journal' \in [Clients -> [Ops -> [Objects -> States]]]
    BY <2>1, <2>2, MarkType DEF States
  <2>6. Numbered'
    BY <1>1, <2>4, NumberedStays
  <2>7. x.pc # "idle" => x.op \in Ops
    BY <1>1, <2>3, <2>4
  <2> HIDE DEF x
  <2> QED BY <1>1, <2>3, <2>4, <2>5, <2>6, <2>7, SteppedType DEF TypeOK
<1>7. CASE ScanRecord(c)
  <2>1. PICK o \in s[c].todo :
          \/ Mark(c, o, "verified") /\ Set(c, [s[c] EXCEPT !.todo = @ \ {o}])
          \/ /\ Set(c, [s[c] EXCEPT !.todo = @ \ {o}, !.missing = @ \cup {o}])
             /\ UNCHANGED journal
    BY <1>7 DEF ScanRecord
  <2> DEFINE x == s'[c]
  <2>2. o \in Objects
    BY <1>1 DEF Session
  <2> DEFINE y == [s[c] EXCEPT !.todo = @ \ {o}]
             z == [s[c] EXCEPT !.todo = @ \ {o}, !.missing = @ \cup {o}]
  <2>3. Set(c, x) /\ x \in Session /\ x.op = s[c].op
    <3>1. y \in Session /\ y.op = s[c].op
      BY <1>1 DEF Session
    <3>2. z \in Session /\ z.op = s[c].op
      BY <1>1, <2>2 DEF Session
    <3>3. x \in {y, z} /\ Set(c, x)
      BY <1>1, <2>1
    <3> HIDE DEF x, y, z
    <3> QED BY <3>1, <3>2, <3>3
  <2>4. UNCHANGED <<loose, segment, root, ref, expected, head, ops, stops>> /\ s[c].pc # "idle"
    BY <1>7 DEF ScanRecord, remote
  <2>5. journal' \in [Clients -> [Ops -> [Objects -> States]]]
    BY <1>1, <2>1, <2>2, MarkType DEF States, TypeOK
  <2>6. Numbered'
    BY <1>1, <2>4, NumberedStays
  <2>7. x.pc # "idle" => x.op \in Ops
    BY <1>1, <2>3, <2>4
  <2> HIDE DEF x
  <2> QED BY <1>1, <2>3, <2>4, <2>5, <2>6, <2>7, SteppedType DEF TypeOK
<1>8. CASE PutRoot(c)
  <2> DEFINE x == [s[c] EXCEPT !.pc = "verify"]
  <2>1. x \in Session /\ x.op = s[c].op /\ s[c].pc # "idle" /\ Set(c, x)
    BY <1>1, <1>8 DEF PutRoot, Session, Steps
  <2>2. root' \subseteq Segments
    BY <1>1, <1>8 DEF PutRoot, Session
  <2>3. UNCHANGED <<loose, segment, ref, journal, expected, head, ops, stops>>
    BY <1>8 DEF PutRoot, repo
  <2>4. Numbered'
    BY <1>1, <2>3, NumberedStays
  <2> HIDE DEF x
  <2> QED BY <1>1, <2>1, <2>2, <2>3, <2>4, SteppedType DEF TypeOK
<1>9. CASE PublishRef(c)
  <2>1. Set(c, Idle) /\ Idle.pc = "idle"
    BY <1>9 DEF PublishRef, Idle
  <2>2. ref' \in [Clients -> Nat]
    BY <1>1, <1>9 DEF PublishRef, Session, TypeOK
  <2>3. UNCHANGED <<loose, segment, root, journal, expected, head, ops, stops>>
    BY <1>9 DEF PublishRef, repo
  <2>4. Numbered'
    BY <1>1, <2>3, NumberedStays
  <2> QED BY <1>1, <2>1, <2>2, <2>3, <2>4, IdleType, SteppedType DEF TypeOK
<1> QED BY <1>2, <1>3, <1>4, <1>5, <1>6, <1>7, <1>8, <1>9 DEF BusyStep

\* Every step keeps the types.
LEMMA NextType == TypeInv /\ [Next]_vars => TypeInv'
<1> SUFFICES ASSUME TypeInv, [Next]_vars PROVE TypeInv'
  OBVIOUS
<1>1. CASE UNCHANGED vars
  <2>1. Numbered'
    BY <1>1, NumberedStays DEF TypeInv, vars
  <2> QED BY <1>1, <2>1 DEF TypeInv, TypeOK, vars
<1>2. ASSUME NEW c \in Clients,
             \/ Commit(c) \/ StartPush(c) \/ (\E k \in Ops : StartResume(c, k))
             \/ QuietStep(c) \/ BusyStep(c)
      PROVE  TypeInv'
  BY <1>2, BeginType, QuietStepType, BusyStepType
<1> QED BY <1>1, <1>2 DEF Next, Work, QuietStep, BusyStep

\* The type invariant, of every reachable state.
LEMMA TypeInvHolds == Spec => []TypeInv
<1> QED BY InitType, NextType, PTL DEF Spec

\* Every variable keeps its type: no step of a push or a resume, and no
\* crash, takes a journal, an index root or a session out of its domain.
THEOREM UploadTypeCorrect == Spec => []TypeOK
<1>1. TypeInv => TypeOK
  BY DEF TypeInv
<1> QED BY <1>1, TypeInvHolds, PTL

-----------------------------------------------------------------------------
(* What is published is stored.                                            *)

\* StoreInv is at least as strong as the type invariant.
LEMMA StoreImpliesType == StoreInv => TypeInv
  BY DEF StoreInv, TypeInv, Sound

\* Nothing that is stored goes away.
Grows ==
  /\ loose \subseteq loose'
  /\ DOMAIN segment \subseteq DOMAIN segment'
  /\ \A g \in DOMAIN segment : segment'[g] = segment[g]

\* Then what is stored stays stored.
LEMMA GrowsStored == Grows => Stored \subseteq Stored'
  BY DEF Grows, Stored, ObjectsOf

\* What a step has to show for StoreInv when it only concerns client c.
LEMMA StoreStep ==
  ASSUME StoreInv, TypeInv', Grows, NEW c \in Clients,
         \A d \in Clients \ {c} : s'[d] = s[d],
         Sound(c, s[c])',
         root' \subseteq DOMAIN segment',
         \A d \in Clients : \/ ref'[d] = ref[d]
                            \/ Graph(d, ref'[d]) \subseteq Stored',
         \A d \in Clients, k \in Ops, o \in Objects :
           journal'[d][k][o] = "verified" =>
             journal[d][k][o] = "verified" \/ o \in Stored'
  PROVE  StoreInv'
<1>1. Stored \subseteq Stored'
  BY GrowsStored
<1>2. TypeOK' /\ Numbered'
  BY DEF TypeInv
<1>3. PublishedIsStored'
  <2> SUFFICES ASSUME NEW d \in Clients PROVE Graph(d, ref'[d]) \subseteq Stored'
    BY DEF PublishedIsStored, Graph
  <2> QED BY <1>1 DEF StoreInv, PublishedIsStored
<1>4. VerifiedIsStored'
  BY <1>1 DEF StoreInv, VerifiedIsStored
<1>5. RootAfterSegments'
  BY DEF RootAfterSegments
<1>6. ASSUME NEW d \in Clients PROVE Sound(d, s[d])'
  <2>1. CASE d = c
    BY <2>1
  <2>2. CASE d # c
    <3>1. s'[d] = s[d] /\ Sound(d, s[d])
      BY <2>2 DEF StoreInv
    <3>2. Graph(d, s[d].snap)' = Graph(d, s[d].snap)
      BY <3>1 DEF Graph
    <3> QED BY <1>1, <3>1, <3>2 DEF Sound, Grows
  <2> QED BY <2>1, <2>2
<1> QED BY <1>2, <1>3, <1>4, <1>5, <1>6 DEF StoreInv


\* StoreInv holds initially: nothing is published, nothing recorded.
LEMMA InitStore == Init => StoreInv
<1> SUFFICES ASSUME Init PROVE StoreInv
  OBVIOUS
<1>1. TypeOK /\ Numbered
  BY InitType DEF TypeInv
<1>2. PublishedIsStored
  BY GraphOfNone DEF Init, PublishedIsStored
<1>3. VerifiedIsStored
  BY DEF Init, VerifiedIsStored
<1>4. RootAfterSegments
  BY DEF Init, RootAfterSegments
<1>5. ASSUME NEW c \in Clients PROVE Sound(c, s[c])
  BY DEF Init, Sound, Idle
<1> QED BY <1>1, <1>2, <1>3, <1>4, <1>5 DEF StoreInv

\* What StoreInv says of the session of one client.
LEMMA SoundSession ==
  ASSUME StoreInv, NEW c \in Clients
  PROVE  /\ s \in [Clients -> Session] /\ s[c] \in Session
         /\ s[c].known \subseteq Stored /\ s[c].fresh \subseteq Stored
         /\ s[c].observed \subseteq DOMAIN segment /\ s[c].new \subseteq DOMAIN segment
         /\ root \subseteq DOMAIN segment
         /\ loose \subseteq Stored /\ Locatable \subseteq Stored
BY DEF StoreInv, Sound, TypeOK, RootAfterSegments, Stored, Locatable, ObjectsOf

\* A step that writes neither the store nor the index root nor the ref.
LEMMA LocalStep ==
  ASSUME StoreInv, TypeInv', NEW c \in Clients, NEW x \in Session, Set(c, x),
         UNCHANGED <<loose, segment, root, ref>>,
         x.known \subseteq Stored, x.fresh \subseteq Stored,
         x.observed \subseteq DOMAIN segment, x.new \subseteq DOMAIN segment,
         x.pc = "publish" => Graph(c, x.snap) \subseteq Stored,
         x.pc # "idle" => x.op \in Ops,
         \A d \in Clients, k \in Ops, o \in Objects :
           journal'[d][k][o] = "verified" =>
             journal[d][k][o] = "verified" \/ o \in Stored
  PROVE  StoreInv'
<1>1. Grows
  BY DEF Grows
<1>2. Stored' = Stored
  BY DEF Stored, ObjectsOf
<1>3. s'[c] = x /\ \A d \in Clients \ {c} : s'[d] = s[d]
  BY SoundSession
<1>4. Graph(c, s[c].snap)' = Graph(c, x.snap)
  BY <1>3 DEF Graph
<1>5. Sound(c, s[c])'
  BY <1>2, <1>3, <1>4 DEF Sound
<1>6. root' \subseteq DOMAIN segment'
  BY SoundSession
<1> QED BY <1>1, <1>2, <1>3, <1>5, <1>6, StoreStep

\* Committing and beginning an operation keep StoreInv.
LEMMA BeginStore ==
  ASSUME StoreInv, TypeInv', NEW c \in Clients,
         \/ Commit(c) \/ StartPush(c) \/ (\E k \in Ops : StartResume(c, k))
  PROVE  StoreInv'
<1>1. s' \in [Clients -> Session] /\ s'[c] \in Session
  BY DEF TypeInv, TypeOK
<1>2. s \in [Clients -> Session]
  BY SoundSession
<1>3. UNCHANGED <<loose, segment, root, ref, journal>>
  BY DEF Commit, StartPush, StartResume, remote, repo
<1>4. s'[c].pc # "idle" => s'[c].op \in Ops
  BY DEF TypeInv
<1>5. CASE Commit(c)
  <2>1. s' = s
    BY <1>5 DEF Commit
  <2>2. Grows /\ Stored' = Stored
    BY <1>3 DEF Grows, Stored, ObjectsOf
  <2>3. Sound(c, s[c])'
    BY <1>3, <2>1, <2>2 DEF StoreInv, Sound, Graph
  <2>4. root' \subseteq DOMAIN segment'
    BY <1>3, SoundSession
  <2> QED BY <1>3, <2>1, <2>2, <2>3, <2>4, StoreStep
<1>6. CASE StartPush(c)
  <2>1. Set(c, s'[c])
    BY <1>2, <1>6 DEF StartPush
  <2>2. /\ s'[c].known = {} /\ s'[c].fresh = {}
        /\ s'[c].observed = {} /\ s'[c].new = {} /\ s'[c].pc = "inventory"
    BY <1>2, <1>6 DEF StartPush, Idle
  <2> QED BY <1>1, <1>3, <1>4, <2>1, <2>2, LocalStep
<1>7. ASSUME NEW k \in Ops, StartResume(c, k) PROVE StoreInv'
  <2>1. Set(c, s'[c])
    BY <1>2, <1>7 DEF StartResume
  <2>2. /\ s'[c].known = ObjectsOf(SegmentsOf(c, k)) /\ s'[c].fresh = {}
        /\ s'[c].observed = {} /\ s'[c].new = {} /\ s'[c].pc = "page"
    BY <1>2, <1>7 DEF StartResume, Idle
  <2>3. ObjectsOf(SegmentsOf(c, k)) \subseteq Stored
    BY DEF ObjectsOf, Stored
  <2> QED BY <1>1, <1>3, <1>4, <2>1, <2>2, <2>3, LocalStep
<1> QED BY <1>5, <1>6, <1>7

\* The fields of a session that StoreInv speaks of.
Kept(c) ==
  /\ s'[c].known = s[c].known /\ s'[c].fresh = s[c].fresh /\ s'[c].new = s[c].new
  /\ s'[c].observed \in {s[c].observed, root}
  /\ s'[c].snap = s[c].snap

\* The steps that only move a session on keep StoreInv; the one that
\* reaches the publication of the ref has verified the graph.
LEMMA QuietStore ==
  ASSUME StoreInv, TypeInv', NEW c \in Clients, QuietStep(c)
  PROVE  StoreInv'
<1>1. s' \in [Clients -> Session] /\ s'[c] \in Session /\ (s'[c].pc # "idle" => s'[c].op \in Ops)
  BY DEF TypeInv, TypeOK
<1>2. s \in [Clients -> Session] /\ s[c] \in Session
  BY SoundSession
<1>3. UNCHANGED <<loose, segment, root, ref, journal>>
  BY DEF QuietStep, EndPlan, TakeBatch, EndUpload, ReadPage, EndScan, FullInventory,
         Match, ReadRoot, VerifyObjects, Refuse, Stop, remote, repo
<1>4. Set(c, s'[c])
  BY <1>2 DEF QuietStep, EndPlan, BeginUpload, TakeBatch, EndUpload, ReadPage, EndScan,
         FullInventory, Match, ReadRoot, VerifyObjects, Refuse, Stop
<1>5. \/ s'[c] = Idle
      \/ Kept(c) /\ (s'[c].pc = "publish" => VerifyObjects(c))
  <2> USE DEF Session
  <2>1. CASE EndPlan(c)
    BY <1>2, <2>1 DEF EndPlan, BeginUpload, Kept
  <2>2. CASE TakeBatch(c)
    <3>1. PICK b \in SUBSET s[c].todo : Set(c, [s[c] EXCEPT !.batch = b, !.todo = @ \ b])
      BY <2>2 DEF TakeBatch
    <3>2. s[c].pc = "upload"
      BY <2>2 DEF TakeBatch
    <3> QED BY <1>2, <3>1, <3>2 DEF Kept
  <2>3. CASE EndUpload(c)
    BY <1>2, <2>3 DEF EndUpload, Index, Kept
  <2>4. CASE ReadPage(c)
    <3> DEFINE x == [s[c] EXCEPT !.pc = "inventory", !.stage = "full"]
               p == Slice(Pending(c, s[c].op), s[c].cursor, PageSize)
               n == IF s[c].cursor + Cardinality(p) < Cardinality(Pending(c, s[c].op))
                    THEN s[c].cursor + Cardinality(p) ELSE 0
               y == [s[c] EXCEPT !.pc = "scan", !.todo = p, !.cursor = n]
    <3>1. Set(c, x) \/ Set(c, y)
      BY <2>4 DEF ReadPage
    <3> HIDE DEF p, n
    <3>2. s'[c] = x \/ s'[c] = y
      BY <1>2, <3>1
    <3> QED BY <1>2, <3>2 DEF Kept
  <2>5. CASE EndScan(c)
    BY <1>2, <2>5 DEF EndScan, BeginUpload, Kept
  <2>6. CASE FullInventory(c)
    BY <1>2, <2>6 DEF FullInventory, Kept
  <2>7. CASE Match(c)
    BY <1>2, <2>7 DEF Match, Index, Kept
  <2>8. CASE ReadRoot(c)
    BY <1>2, <2>8 DEF ReadRoot, Kept
  <2>9. CASE VerifyObjects(c)
    BY <1>2, <2>9 DEF VerifyObjects, Kept
  <2>10. CASE Refuse(c) \/ Stop(c)
    BY <1>2, <2>10 DEF Refuse, Stop
  <2> QED BY <2>1, <2>2, <2>3, <2>4, <2>5, <2>6, <2>7, <2>8, <2>9, <2>10 DEF QuietStep
<1>6. CASE s'[c] = Idle
  <2>1. /\ s'[c].known = {} /\ s'[c].fresh = {}
        /\ s'[c].observed = {} /\ s'[c].new = {} /\ s'[c].pc = "idle"
    BY <1>6 DEF Idle
  <2> QED BY <1>1, <1>3, <1>4, <2>1, LocalStep
<1>7. CASE Kept(c) /\ (s'[c].pc = "publish" => VerifyObjects(c))
  <2>1. s'[c].pc = "publish" => Graph(c, s'[c].snap) \subseteq Stored
    BY <1>7, SoundSession DEF Kept, VerifyObjects
  <2>2. /\ s'[c].known \subseteq Stored /\ s'[c].fresh \subseteq Stored
        /\ s'[c].observed \subseteq DOMAIN segment /\ s'[c].new \subseteq DOMAIN segment
    BY <1>7, SoundSession DEF Kept
  <2> QED BY <1>1, <1>3, <1>4, <2>1, <2>2, LocalStep
<1> QED BY <1>5, <1>6, <1>7

\* A record of the journal is about one object.
LEMMA Marked ==
  ASSUME StoreInv, NEW c \in Clients, NEW o \in Objects, NEW state, Mark(c, o, state)
  PROVE  \A d \in Clients, k \in Ops, p \in Objects :
           journal'[d][k][p] = journal[d][k][p] \/ p = o
BY DEF Mark, StoreInv, TypeOK

\* The steps that write the store, the journal or the ref keep StoreInv.
LEMMA BusyStore ==
  ASSUME StoreInv, TypeInv', NEW c \in Clients, BusyStep(c)
  PROVE  StoreInv'
<1>1. s' \in [Clients -> Session] /\ s'[c] \in Session /\ (s'[c].pc # "idle" => s'[c].op \in Ops)
  BY DEF TypeInv, TypeOK
<1>2. s \in [Clients -> Session] /\ s[c] \in Session /\ (s[c].pc # "idle" => s[c].op \in Ops)
  BY SoundSession DEF StoreInv, Sound
<1>3. journal \in [Clients -> [Ops -> [Objects -> States]]]
  BY DEF StoreInv, TypeOK
<1>4. CASE PushInventory(c)
  <2>1. Set(c, s'[c]) /\ UNCHANGED <<loose, segment, root, ref, journal>>
    BY <1>2, <1>4 DEF PushInventory, remote
  <2>2. /\ s'[c].known = Locatable /\ s'[c].observed = root /\ s'[c].pc = "plan"
        /\ s'[c].fresh = s[c].fresh /\ s'[c].new = s[c].new
    BY <1>2, <1>4 DEF PushInventory, Session
  <2> QED BY <1>1, <2>1, <2>2, SoundSession, LocalStep
<1>5. CASE PlanObject(c)
  <2>1. PICK o \in s[c].todo : /\ Mark(c, o, "planned")
                               /\ Set(c, [s[c] EXCEPT !.todo = @ \ {o}])
    BY <1>5 DEF PlanObject
  <2>2. Set(c, s'[c]) /\ UNCHANGED <<loose, segment, root, ref>>
    BY <1>2, <1>5, <2>1 DEF PlanObject, remote
  <2>3. /\ s'[c].known = s[c].known /\ s'[c].observed = s[c].observed /\ s'[c].pc = "plan"
        /\ s'[c].fresh = s[c].fresh /\ s'[c].new = s[c].new
    BY <1>2, <1>5, <2>1 DEF PlanObject, Session
  <2>4. \A d \in Clients, k \in Ops, p \in Objects :
          journal'[d][k][p] = "verified" => journal[d][k][p] = "verified"
    BY <1>3, <2>1 DEF Mark
  <2> QED BY <1>1, <2>2, <2>3, <2>4, SoundSession, LocalStep
<1>6. CASE Record(c)
  <2>1. PICK o \in s[c].fresh :
          \/ Mark(c, o, "uploaded") /\ UNCHANGED s
          \/ Mark(c, o, "verified") /\ Set(c, [s[c] EXCEPT !.fresh = @ \ {o}])
    BY <1>6 DEF Record
  <2>2. Set(c, s'[c]) /\ UNCHANGED <<loose, segment, root, ref>>
    BY <1>2, <1>6, <2>1 DEF Record, remote
  <2>3. /\ s'[c].known = s[c].known /\ s'[c].observed = s[c].observed /\ s'[c].pc = "upload"
        /\ s'[c].fresh \subseteq s[c].fresh /\ s'[c].new = s[c].new
    <3>1. s[c].pc = "upload"
      BY <1>6 DEF Record
    <3> QED BY <1>2, <2>1, <3>1 DEF Session
  <2>4. \A d \in Clients, k \in Ops, p \in Objects :
          journal'[d][k][p] = "verified" => journal[d][k][p] = "verified" \/ p = o
    <3>1. o \in Objects
      BY <1>2 DEF Session
    <3> QED BY <2>1, <3>1, Marked
  <2>5. o \in Stored
    BY SoundSession
  <2> QED BY <1>1, <2>2, <2>3, <2>4, <2>5, SoundSession, LocalStep
<1>7. CASE ScanRecord(c)
  <2>1. PICK o \in s[c].todo :
          \/ /\ o \in s[c].known \cup loose
             /\ Mark(c, o, "verified") /\ Set(c, [s[c] EXCEPT !.todo = @ \ {o}])
          \/ /\ Set(c, [s[c] EXCEPT !.todo = @ \ {o}, !.missing = @ \cup {o}])
             /\ UNCHANGED journal
    BY <1>7 DEF ScanRecord
  <2>2. Set(c, s'[c]) /\ UNCHANGED <<loose, segment, root, ref>>
    BY <1>2, <1>7, <2>1 DEF ScanRecord, remote
  <2>3. /\ s'[c].known = s[c].known /\ s'[c].observed = s[c].observed /\ s'[c].pc = "scan"
        /\ s'[c].fresh = s[c].fresh /\ s'[c].new = s[c].new
    <3> DEFINE y == [s[c] EXCEPT !.todo = @ \ {o}]
               z == [s[c] EXCEPT !.todo = @ \ {o}, !.missing = @ \cup {o}]
    <3>1. s[c].pc = "scan"
      BY <1>7 DEF ScanRecord
    <3>2. s'[c] \in {y, z}
      BY <1>2, <2>1
    <3> QED BY <1>2, <3>1, <3>2 DEF Session
  <2>4. \A d \in Clients, k \in Ops, p \in Objects :
          journal'[d][k][p] = "verified" => journal[d][k][p] = "verified" \/ p \in Stored
    <3>1. o \in Objects
      BY <1>2 DEF Session
    <3>2. s[c].known \cup loose \subseteq Stored
      BY SoundSession
    <3> QED BY <2>1, <3>1, <3>2, Marked
  <2> QED BY <1>1, <2>2, <2>3, <2>4, SoundSession, LocalStep
<1>8. CASE PutLoose(c)
  <2>1. PICK o \in s[c].batch \ Packed(c) : loose' = loose \cup {o} /\ Set(c, Locating(c, {o}))
    BY <1>8 DEF PutLoose
  <2>2. UNCHANGED <<segment, root, ref, journal>> /\ s[c].pc = "upload"
    BY <1>8 DEF PutLoose, repo
  <2>3. Grows /\ Stored' = Stored \cup {o}
    BY <2>1, <2>2 DEF Grows, Stored, ObjectsOf
  <2>4. /\ s'[c].known \subseteq s[c].known \cup {o} /\ s'[c].fresh = {o}
        /\ s'[c].observed = s[c].observed /\ s'[c].new = s[c].new /\ s'[c].pc = "upload"
    BY <1>2, <2>1, <2>2 DEF Locating, Session
  <2>5. Sound(c, s[c])'
    BY <1>1, <2>2, <2>3, <2>4, SoundSession DEF Sound
  <2>6. \A d \in Clients \ {c} : s'[d] = s[d]
    BY <1>2, <2>1
  <2> QED BY <2>2, <2>3, <2>5, <2>6, SoundSession, StoreStep
<1>9. CASE PutPack(c)
  <2> DEFINE name == <<c, s[c].op, Cardinality(SegmentsOf(c, s[c].op))>>
  <2>1. s[c].pc = "upload" /\ UNCHANGED <<loose, root, ref, journal>>
    BY <1>9 DEF PutPack, repo
  <2>2. name \notin DOMAIN segment
    BY <1>9, <2>1, StoreImpliesType, PackNumber
  <2>3. /\ segment' = [g \in DOMAIN segment \cup {name} |->
                         IF g = name THEN s[c].batch ELSE segment[g]]
        /\ Set(c, [Locating(c, s[c].batch) EXCEPT !.new = @ \cup {name}])
    BY <1>9 DEF PutPack
  <2> HIDE DEF name
  <2>4. Grows
    BY <2>1, <2>2, <2>3 DEF Grows
  <2>5. Stored \subseteq Stored' /\ s[c].batch \subseteq Stored'
    <3>1. name \in DOMAIN segment' /\ segment'[name] = s[c].batch
      BY <2>3
    <3> QED BY <2>4, <3>1, GrowsStored DEF Stored, ObjectsOf
  <2>6. /\ s'[c].known \subseteq s[c].known \cup s[c].batch /\ s'[c].fresh = s[c].batch
        /\ s'[c].observed = s[c].observed /\ s'[c].new = s[c].new \cup {name}
        /\ s'[c].pc = "upload"
    BY <1>2, <2>1, <2>3 DEF Locating, Session
  <2>7. s[c].new \cup {name} \cup s[c].observed \cup root \subseteq DOMAIN segment'
    BY <2>3, SoundSession
  <2>8. Sound(c, s[c])'
    BY <1>1, <2>5, <2>6, <2>7, SoundSession DEF Sound
  <2>9. \A d \in Clients \ {c} : s'[d] = s[d]
    BY <1>2, <2>3
  <2> QED BY <2>1, <2>4, <2>7, <2>8, <2>9, StoreStep
<1>10. CASE PutRoot(c)
  <2>1. /\ UNCHANGED <<loose, segment, ref, journal>> /\ root' = s[c].observed \cup s[c].new
        /\ Set(c, [s[c] EXCEPT !.pc = "verify"])
    BY <1>10 DEF PutRoot, repo
  <2>2. Grows /\ Stored' = Stored
    BY <2>1 DEF Grows, Stored, ObjectsOf
  <2>3. /\ s'[c].known = s[c].known /\ s'[c].fresh = s[c].fresh
        /\ s'[c].observed = s[c].observed /\ s'[c].new = s[c].new /\ s'[c].pc = "verify"
    BY <1>2, <2>1 DEF Session
  <2>4. Sound(c, s[c])'
    BY <1>1, <2>1, <2>2, <2>3, SoundSession DEF Sound
  <2>5. \A d \in Clients \ {c} : s'[d] = s[d]
    BY <1>2, <2>1
  <2>6. root' \subseteq DOMAIN segment'
    BY <2>1, SoundSession
  <2> QED BY <2>1, <2>2, <2>4, <2>5, <2>6, StoreStep
<1>11. CASE PublishRef(c)
  <2>1. UNCHANGED <<loose, segment, root, journal>> /\ Set(c, Idle)
    BY <1>11 DEF PublishRef, repo
  <2>2. Grows /\ Stored' = Stored
    BY <2>1 DEF Grows, Stored, ObjectsOf
  <2>3. \A d \in Clients : ref'[d] = ref[d] \/ Graph(d, ref'[d]) \subseteq Stored'
    BY <1>11, <2>2 DEF PublishRef, StoreInv, Sound, TypeOK
  <2>4. s'[c] = Idle /\ \A d \in Clients \ {c} : s'[d] = s[d]
    BY <1>2, <2>1
  <2>5. Sound(c, s[c])'
    BY <2>4 DEF Sound, Idle
  <2>6. root' \subseteq DOMAIN segment'
    BY <2>1, SoundSession
  <2> QED BY <2>1, <2>2, <2>3, <2>4, <2>5, <2>6, StoreStep
<1> QED BY <1>4, <1>5, <1>6, <1>7, <1>8, <1>9, <1>10, <1>11 DEF BusyStep

\* Every step keeps StoreInv.
LEMMA NextStore == StoreInv /\ [Next]_vars => StoreInv'
<1> SUFFICES ASSUME StoreInv, [Next]_vars PROVE StoreInv'
  OBVIOUS
<1>1. TypeInv'
  BY StoreImpliesType, NextType
<1>2. CASE UNCHANGED vars
  <2>1. TypeOK' /\ Numbered'
    BY <1>1 DEF TypeInv
  <2>2. Stored' = Stored
    BY <1>2 DEF vars, Stored, ObjectsOf
  <2>3. PublishedIsStored' /\ VerifiedIsStored' /\ RootAfterSegments'
    BY <1>2, <2>2 DEF StoreInv, vars, PublishedIsStored, VerifiedIsStored, RootAfterSegments, Graph
  <2>4. \A c \in Clients : Sound(c, s[c])'
    BY <1>2, <2>2 DEF StoreInv, vars, Sound, Graph
  <2> QED BY <2>1, <2>3, <2>4 DEF StoreInv
<1>3. ASSUME NEW c \in Clients,
             \/ Commit(c) \/ StartPush(c) \/ (\E k \in Ops : StartResume(c, k))
             \/ QuietStep(c) \/ BusyStep(c)
      PROVE  StoreInv'
  BY <1>1, <1>3, BeginStore, QuietStore, BusyStore
<1> QED BY <1>2, <1>3 DEF Next, Work, QuietStep, BusyStep

\* StoreInv, of every reachable state.
LEMMA StoreInvHolds == Spec => []StoreInv
<1> QED BY InitStore, NextStore, PTL DEF Spec

\* No order of pushes, resumes, crashes and retries, of any number of
\* clients, publishes a ref to a snapshot with an object that was never
\* uploaded: the ref is swapped only after VerifyObjects.
THEOREM SnapshotsAreStored == Spec => []PublishedIsStored
<1>1. StoreInv => PublishedIsStored
  BY DEF StoreInv
<1> QED BY <1>1, StoreInvHolds, PTL

\* A journal says "verified" only of objects that are in the remote store,
\* so a resume may skip them.
THEOREM JournalIsTruthful == Spec => []VerifiedIsStored
<1>1. StoreInv => VerifiedIsStored
  BY DEF StoreInv
<1> QED BY <1>1, StoreInvHolds, PTL

\* The index root never names a segment that has not been uploaded.
THEOREM RootNamesSegments == Spec => []RootAfterSegments
<1>1. StoreInv => RootAfterSegments
  BY DEF StoreInv
<1> QED BY <1>1, StoreInvHolds, PTL

-----------------------------------------------------------------------------
(* What is published can be found.                                         *)

\* What a running push knows, whatever the others do: no object is twice in
\* the index it extends, what it knows is loose or in that index, and what it
\* still has to upload is not.
Pushing(c, x) ==
  x.stage = "push" =>
    /\ x.pc \notin {"page", "scan", "match", "readRoot"}
    /\ x.pc = "inventory" => x.new = {} /\ x.batch = {}
    /\ x.pc \in {"plan", "upload", "putRoot", "verify", "publish"} =>
         /\ Readable(x.observed \cup x.new)
         /\ x.known \subseteq loose \cup ObjectsOf(x.observed \cup x.new)
    /\ x.pc = "plan" =>
         x.new = {} /\ x.batch = {} /\ ObjectsOf(x.observed \cup x.new) \subseteq x.known
    /\ x.pc = "upload" =>
         /\ x.batch \cap x.todo = {}
         /\ (x.batch \cup x.todo) \cap ObjectsOf(x.observed \cup x.new) = {}
    /\ x.pc = "publish" => Graph(c, x.snap) \subseteq x.known

PushInv == \A c \in Clients : Pushing(c, s[c])

\* Uploaded segments keep their objects.
LEMMA IndexKept ==
  ASSUME Grows, NEW N \in SUBSET DOMAIN segment
  PROVE  ObjectsOf(N)' = ObjectsOf(N) /\ Readable(N)' = Readable(N)
<1>1. N \cap DOMAIN segment = N /\ N \cap DOMAIN segment' = N
  BY DEF Grows
<1>2. \A g \in N : segment'[g] = segment[g]
  BY DEF Grows
<1>3. UNION {segment'[g] : g \in N} = UNION {segment[g] : g \in N}
  BY <1>2
<1> QED BY <1>1, <1>2, <1>3 DEF ObjectsOf, Readable

\* So what a push knows stays true of it.
LEMMA PushingKept ==
  ASSUME Grows, NEW c, NEW x, Pushing(c, x),
         x.observed \subseteq DOMAIN segment, x.new \subseteq DOMAIN segment
  PROVE  Pushing(c, x)'
<1>1. PICK N : N = x.observed \cup x.new
  OBVIOUS
<1>2. ObjectsOf(N)' = ObjectsOf(N) /\ Readable(N)' = Readable(N)
  BY <1>1, IndexKept
<1>3. /\ ObjectsOf(x.observed \cup x.new)' = ObjectsOf(x.observed \cup x.new)
      /\ Readable(x.observed \cup x.new)' = Readable(x.observed \cup x.new)
  BY <1>1, <1>2 DEF ObjectsOf, Readable
<1> QED BY <1>3 DEF Pushing, Grows, Graph

\* What a step of client c has to show for PushInv.
LEMMA PushOthers ==
  ASSUME StoreInv, PushInv, Grows, NEW c \in Clients,
         \A d \in Clients \ {c} : s'[d] = s[d], Pushing(c, s[c])'
  PROVE  PushInv'
<1>1. \A d \in Clients \ {c} : s'[d] = s[d]
  OBVIOUS
<1>2. ASSUME NEW d \in Clients \ {c} PROVE Pushing(d, s[d])'
  <2>1. PICK y : y = s[d] /\ s'[d] = y
    BY <1>1
  <2>2. Pushing(d, y)'
    BY <2>1, PushingKept, SoundSession DEF PushInv
  <2> QED BY <2>1, <2>2 DEF Pushing, Graph, Readable, ObjectsOf
<1> QED BY <1>2 DEF PushInv

LEMMA PushStep ==
  ASSUME StoreInv, PushInv, Grows, NEW c \in Clients, NEW x, Set(c, x), Pushing(c, x)'
  PROVE  PushInv'
<1>1. s'[c] = x /\ \A d \in Clients \ {c} : s'[d] = s[d]
  BY SoundSession
<1>2. Pushing(c, s[c])'
  BY <1>1 DEF Pushing, Graph, Readable, ObjectsOf
<1> QED BY <1>1, <1>2, PushOthers

\* A step that leaves the store alone.
LEMMA PushMove ==
  ASSUME StoreInv, PushInv, NEW c \in Clients, NEW x, Set(c, x), Pushing(c, x),
         UNCHANGED <<loose, segment>>
  PROVE  PushInv'
<1>1. Grows
  BY DEF Grows
<1>2. Pushing(c, x)'
  BY DEF Pushing, Readable, ObjectsOf, Graph
<1> QED BY <1>1, <1>2, PushStep

\* Beginning, and the end of an operation.
LEMMA BeginPush ==
  ASSUME StoreInv, PushInv, NEW c \in Clients,
         \/ Commit(c) \/ StartPush(c) \/ (\E k \in Ops : StartResume(c, k))
         \/ Refuse(c) \/ Stop(c) \/ PublishRef(c)
  PROVE  PushInv'
<1>1. CASE Commit(c)
  <2>1. UNCHANGED <<loose, segment, s>>
    BY <1>1 DEF Commit, remote
  <2> QED BY <2>1 DEF PushInv, Pushing, Readable, ObjectsOf, Graph
<1>2. CASE StartPush(c)
  <2> DEFINE x == [Idle EXCEPT !.pc = "inventory", !.op = ops[c] + 1, !.snap = head[c]]
  <2>1. x.pc = "inventory" /\ x.stage = "push" /\ x.new = {} /\ x.batch = {}
    BY DEF Idle
  <2> HIDE DEF x
  <2>2. Set(c, x) /\ UNCHANGED <<loose, segment>>
    BY <1>2 DEF StartPush, remote, x
  <2>3. Pushing(c, x)
    BY <2>1 DEF Pushing
  <2> QED BY <2>2, <2>3, PushMove
<1>3. ASSUME NEW k \in Ops, StartResume(c, k) PROVE PushInv'
  <2> DEFINE K == ObjectsOf(SegmentsOf(c, k))
             x == [Idle EXCEPT !.pc = "page", !.stage = "pages", !.op = k,
                               !.snap = head[c], !.known = K]
  <2>1. x.stage = "pages"
    BY DEF Idle
  <2>2. Set(c, x) /\ UNCHANGED <<loose, segment>>
    BY <1>3 DEF StartResume, remote
  <2>3. Pushing(c, x)
    BY <2>1 DEF Pushing
  <2> QED BY <2>2, <2>3, PushMove
<1>4. CASE Refuse(c) \/ Stop(c) \/ PublishRef(c)
  <2>1. Set(c, Idle) /\ UNCHANGED <<loose, segment>>
    BY <1>4 DEF Refuse, Stop, PublishRef, remote
  <2>2. Pushing(c, Idle)
    BY DEF Pushing, Idle
  <2> QED BY <2>1, <2>2, PushMove
<1> QED BY <1>1, <1>2, <1>3, <1>4

\* The steps of a push that leave the remote alone.
LEMMA QuietPush ==
  ASSUME StoreInv, PushInv, NEW c \in Clients, s[c].stage = "push",
         QuietStep(c), ~Refuse(c), ~Stop(c)
  PROVE  PushInv'
<1>1. UNCHANGED <<loose, segment>>
  BY DEF QuietStep, EndPlan, TakeBatch, EndUpload, ReadPage, EndScan, FullInventory,
         Match, ReadRoot, VerifyObjects, remote, repo
<1>2. Pushing(c, s[c]) /\ s[c] \in Session
  BY SoundSession DEF PushInv
<1>3. ASSUME NEW x, Set(c, x), Pushing(c, x) PROVE PushInv'
  BY <1>1, <1>3, PushMove
<1>4. CASE EndPlan(c)
  <2> DEFINE S == Graph(c, s[c].snap) \ s[c].known
             p == Packs(S)
             x == [s[c] EXCEPT !.pc = "upload", !.todo = S, !.missing = {}, !.packs = p]
  <2>1. Set(c, x) /\ s[c].pc = "plan"
    BY <1>4 DEF EndPlan, BeginUpload
  <2>2. S \cap ObjectsOf(s[c].observed \cup s[c].new) = {}
    BY <1>2, <2>1 DEF Pushing
  <2> HIDE DEF S, p
  <2>3. /\ x.pc = "upload" /\ x.stage = "push" /\ x.observed = s[c].observed
        /\ x.new = s[c].new /\ x.known = s[c].known /\ x.todo = S /\ x.batch = s[c].batch
    BY <1>2 DEF Session
  <2> HIDE DEF x
  <2>4. Pushing(c, x)
    BY <1>2, <2>1, <2>2, <2>3 DEF Pushing
  <2> QED BY <1>3, <2>1, <2>4
<1>5. CASE TakeBatch(c)
  <2>1. PICK b \in SUBSET s[c].todo : Set(c, [s[c] EXCEPT !.batch = b, !.todo = @ \ b])
    BY <1>5 DEF TakeBatch
  <2> DEFINE x == [s[c] EXCEPT !.batch = b, !.todo = @ \ b]
  <2>2. s[c].pc = "upload" /\ s[c].batch = {}
    BY <1>5 DEF TakeBatch
  <2>3. /\ x.pc = "upload" /\ x.stage = "push" /\ x.observed = s[c].observed
        /\ x.new = s[c].new /\ x.known = s[c].known /\ x.todo = s[c].todo \ b /\ x.batch = b
    BY <1>2, <2>2 DEF Session
  <2>4. Pushing(c, x)
    <3> HIDE DEF x
    <3> QED BY <1>2, <2>2, <2>3 DEF Pushing
  <2> QED BY <1>3, <2>1, <2>4
<1>6. CASE EndUpload(c)
  <2> DEFINE pc == Index(c)
             x == [s[c] EXCEPT !.pc = pc]
  <2>1. Set(c, x) /\ s[c].pc = "upload"
    BY <1>2, <1>6 DEF EndUpload, UploadOver
  <2>2. pc \in {"verify", "putRoot"}
    BY <1>2 DEF Index
  <2> HIDE DEF pc
  <2>3. /\ x.pc = pc /\ x.stage = "push" /\ x.observed = s[c].observed
        /\ x.new = s[c].new /\ x.known = s[c].known
    BY <1>2 DEF Session
  <2>4. Pushing(c, x)
    <3> HIDE DEF x
    <3> QED BY <1>2, <2>1, <2>2, <2>3 DEF Pushing
  <2> QED BY <1>3, <2>1, <2>4
<1>7. CASE VerifyObjects(c)
  <2> DEFINE x == [s[c] EXCEPT !.pc = "publish"]
  <2>1. Set(c, x) /\ s[c].pc = "verify" /\ Graph(c, s[c].snap) \subseteq s[c].known
    BY <1>7 DEF VerifyObjects
  <2>2. /\ x.pc = "publish" /\ x.stage = "push" /\ x.snap = s[c].snap
        /\ x.observed = s[c].observed /\ x.new = s[c].new /\ x.known = s[c].known
    BY <1>2 DEF Session
  <2>3. Pushing(c, x)
    <3> HIDE DEF x
    <3> QED BY <1>2, <2>1, <2>2 DEF Pushing
  <2> QED BY <1>3, <2>1, <2>3
<1>8. ~(ReadPage(c) \/ EndScan(c) \/ FullInventory(c) \/ Match(c) \/ ReadRoot(c))
  BY <1>2 DEF ReadPage, EndScan, FullInventory, Match, ReadRoot, Pushing
<1> QED BY <1>4, <1>5, <1>6, <1>7, <1>8 DEF QuietStep

\* A new segment, and the index with it.
LEMMA NewSegment ==
  ASSUME NEW name, NEW b, NEW names \in SUBSET DOMAIN segment, name \notin DOMAIN segment,
         segment' = [g \in DOMAIN segment \cup {name} |->
                       IF g = name THEN b ELSE segment[g]]
  PROVE  /\ Grows \/ ~(loose \subseteq loose')
         /\ ObjectsOf(names \cup {name})' = ObjectsOf(names) \cup b
         /\ Readable(names) /\ b \cap ObjectsOf(names) = {} => Readable(names \cup {name})'
<1>1. /\ DOMAIN segment' = DOMAIN segment \cup {name} /\ segment'[name] = b
      /\ \A g \in DOMAIN segment : segment'[g] = segment[g]
  OBVIOUS
<1>2. names \cap DOMAIN segment = names /\ names \cap DOMAIN segment' = names
  BY <1>1
<1>3. (names \cup {name}) \cap DOMAIN segment' = names \cup {name}
  BY <1>1, <1>2
<1>4. Grows \/ ~(loose \subseteq loose')
  BY <1>1 DEF Grows
<1>5. ObjectsOf(names \cup {name})' = ObjectsOf(names) \cup b
  <2>1. ObjectsOf(names \cup {name})' = UNION {segment'[g] : g \in names \cup {name}}
    BY <1>3 DEF ObjectsOf
  <2>2. ObjectsOf(names) = UNION {segment[g] : g \in names}
    BY <1>2 DEF ObjectsOf
  <2>3. \A o : o \in UNION {segment'[g] : g \in names \cup {name}} <=>
               \E g \in names \cup {name} : o \in segment'[g]
    OBVIOUS
  <2>4. \A o : o \in UNION {segment[g] : g \in names} <=> \E g \in names : o \in segment[g]
    OBVIOUS
  <2>5. \A o : (\E g \in names \cup {name} : o \in segment'[g]) <=>
               (\E g \in names : o \in segment[g]) \/ o \in b
    BY <1>1
  <2> QED BY <2>1, <2>2, <2>3, <2>4, <2>5
<1>6. ASSUME Readable(names), b \cap ObjectsOf(names) = {}
      PROVE  Readable(names \cup {name})'
  <2>1. \A g \in names : segment'[g] \cap b = {}
    BY <1>1, <1>2, <1>6 DEF ObjectsOf
  <2>2. \A g, h \in names : g # h => segment'[g] \cap segment'[h] = {}
    BY <1>1, <1>2, <1>6 DEF Readable
  <2>3. \A g, h \in names \cup {name} : g # h => segment'[g] \cap segment'[h] = {}
    BY <1>1, <2>1, <2>2
  <2> QED BY <1>3, <2>3 DEF Readable
<1> QED BY <1>4, <1>5, <1>6

\* What a push that goes on uploading has to show.
PushedUpload(x, held, here) ==
  /\ x.pc = "upload" /\ x.stage = "push"
  /\ x.known \subseteq here \cup held
  /\ x.batch \cap x.todo = {} /\ (x.batch \cup x.todo) \cap held = {}

LEMMA UploadPush ==
  ASSUME NEW c, NEW x, NEW names, NEW held, PushedUpload(x, held, loose'),
         x.observed \cup x.new = names, Readable(names)', ObjectsOf(names)' = held
  PROVE  Pushing(c, x)'
<1>1. Readable(x.observed \cup x.new)' /\ ObjectsOf(x.observed \cup x.new)' = held
  BY DEF Readable, ObjectsOf
<1> QED BY <1>1 DEF Pushing, PushedUpload

\* The steps of a push that write the remote, or the journal.
LEMMA BusyPush ==
  ASSUME StoreInv, PushInv, NEW c \in Clients, s[c].stage = "push",
         BusyStep(c), ~PublishRef(c)
  PROVE  PushInv'
<1>1. Pushing(c, s[c]) /\ s[c] \in Session
  BY SoundSession DEF PushInv
<1>2. ASSUME NEW x, Set(c, x), Pushing(c, x), UNCHANGED <<loose, segment>>
      PROVE  PushInv'
  BY <1>2, PushMove
<1>3. CASE PushInventory(c)
  <2> DEFINE G == Graph(c, s[c].snap)
             L == Locatable
             x == [s[c] EXCEPT !.pc = "plan", !.known = L, !.observed = root, !.todo = G]
  <2>1. Set(c, x) /\ UNCHANGED <<loose, segment>> /\ s[c].pc = "inventory"
    BY <1>3 DEF PushInventory, Observe, remote
  <2>2. L = loose \cup ObjectsOf(root) /\ Readable(root)
    BY <1>3 DEF PushInventory, Observe, Locatable
  <2> HIDE DEF G, L
  <2>3. /\ x.pc = "plan" /\ x.stage = "push" /\ x.observed = root
        /\ x.new = s[c].new /\ x.known = L /\ x.batch = s[c].batch
    BY <1>1 DEF Session
  <2>4. root \cup {} = root
    OBVIOUS
  <2>5. Pushing(c, x)
    <3> HIDE DEF x
    <3> QED BY <1>1, <2>1, <2>2, <2>3, <2>4 DEF Pushing
  <2> QED BY <1>2, <2>1, <2>5
<1>4. CASE PlanObject(c)
  <2>1. PICK o \in s[c].todo : Set(c, [s[c] EXCEPT !.todo = @ \ {o}])
    BY <1>4 DEF PlanObject
  <2> DEFINE x == [s[c] EXCEPT !.todo = @ \ {o}]
  <2>2. s[c].pc = "plan" /\ UNCHANGED <<loose, segment>>
    BY <1>4 DEF PlanObject, remote
  <2>3. /\ x.pc = "plan" /\ x.stage = "push" /\ x.observed = s[c].observed
        /\ x.new = s[c].new /\ x.known = s[c].known /\ x.batch = s[c].batch
    BY <1>1, <2>2 DEF Session
  <2>4. Pushing(c, x)
    <3> HIDE DEF x
    <3> QED BY <1>1, <2>2, <2>3 DEF Pushing
  <2> QED BY <1>2, <2>1, <2>2, <2>4
<1>5. CASE Record(c)
  <2>1. PICK o \in s[c].fresh : UNCHANGED s \/ Set(c, [s[c] EXCEPT !.fresh = @ \ {o}])
    BY <1>5 DEF Record
  <2> DEFINE x == [s[c] EXCEPT !.fresh = @ \ {o}]
  <2>2. s[c].pc = "upload" /\ UNCHANGED <<loose, segment>>
    BY <1>5 DEF Record, remote
  <2>3. CASE UNCHANGED s
    <3>1. Set(c, s[c])
      BY <2>3, SoundSession
    <3> QED BY <1>1, <1>2, <2>2, <3>1
  <2>4. CASE Set(c, x)
    <3>1. /\ x.pc = "upload" /\ x.stage = "push" /\ x.observed = s[c].observed
          /\ x.new = s[c].new /\ x.known = s[c].known /\ x.batch = s[c].batch
          /\ x.todo = s[c].todo
      BY <1>1, <2>2 DEF Session
    <3>2. Pushing(c, x)
      <4> HIDE DEF x
      <4> QED BY <1>1, <2>2, <3>1 DEF Pushing
    <3> QED BY <1>2, <2>2, <2>4, <3>2
  <2> QED BY <2>1, <2>3, <2>4
<1>6. CASE PutLoose(c)
  <2>1. PICK o \in s[c].batch \ Packed(c) : loose' = loose \cup {o} /\ Set(c, Locating(c, {o}))
    BY <1>6 DEF PutLoose
  <2>10. PICK x : x = Locating(c, {o})
    OBVIOUS
  <2>2. s[c].pc = "upload" /\ UNCHANGED segment
    BY <1>6 DEF PutLoose
  <2>3. /\ x.pc = "upload" /\ x.stage = "push" /\ x.observed = s[c].observed
        /\ x.new = s[c].new /\ x.known = s[c].known \cup {o} /\ x.batch = s[c].batch \ {o}
        /\ x.todo = s[c].todo
    BY <1>1, <2>2, <2>10 DEF Session, Locating
  <2>4. Grows
    BY <2>1, <2>2 DEF Grows
  <2>5. PICK N : N = s[c].observed \cup s[c].new
    OBVIOUS
  <2>6. /\ Readable(N) /\ s[c].known \subseteq loose \cup ObjectsOf(N)
        /\ s[c].batch \cap s[c].todo = {} /\ (s[c].batch \cup s[c].todo) \cap ObjectsOf(N) = {}
    BY <1>1, <2>2, <2>5 DEF Pushing
  <2>7. Pushing(c, x)'
    <3>1. \A n : ObjectsOf(n)' = ObjectsOf(n) /\ Readable(n)' = Readable(n)
      BY <2>2 DEF ObjectsOf, Readable
    <3>2. x.observed \cup x.new = N
      BY <2>3, <2>5
    <3>3. PushedUpload(x, ObjectsOf(N), loose')
      BY <2>1, <2>3, <2>6 DEF PushedUpload
    <3> QED BY <2>6, <3>1, <3>2, <3>3, UploadPush
  <2> QED BY <2>1, <2>4, <2>7, <2>10, PushStep
<1>7. CASE PutPack(c)
  <2> DEFINE name == <<c, s[c].op, Cardinality(SegmentsOf(c, s[c].op))>>
             b == s[c].batch
  <2>11. PICK x : x = [Locating(c, b) EXCEPT !.new = @ \cup {name}]
    OBVIOUS
  <2>1. s[c].pc = "upload" /\ UNCHANGED loose
    BY <1>7 DEF PutPack
  <2>2. name \notin DOMAIN segment
    BY <1>7, <2>1, StoreImpliesType, PackNumber
  <2>3. /\ segment' = [g \in DOMAIN segment \cup {name} |-> IF g = name THEN b ELSE segment[g]]
        /\ Set(c, x)
    BY <1>7, <2>11 DEF PutPack
  <2> HIDE DEF name
  <2>4. /\ x.pc = "upload" /\ x.stage = "push" /\ x.observed = s[c].observed
        /\ x.new = s[c].new \cup {name} /\ x.known = s[c].known \cup b /\ x.batch = {}
        /\ x.todo = s[c].todo
    BY <1>1, <2>1, <2>11 DEF Session, Locating
  <2>5. PICK N, n, d : N = s[c].observed \cup s[c].new /\ n = name /\ d = b
    OBVIOUS
  <2>6. /\ Readable(N) /\ s[c].known \subseteq loose \cup ObjectsOf(N)
        /\ d \cap s[c].todo = {} /\ (d \cup s[c].todo) \cap ObjectsOf(N) = {}
    BY <1>1, <2>1, <2>5 DEF Pushing
  <2> HIDE DEF b
  <2>7. /\ N \in SUBSET DOMAIN segment /\ n \notin DOMAIN segment
        /\ segment' = [g \in DOMAIN segment \cup {n} |-> IF g = n THEN d ELSE segment[g]]
    BY <2>2, <2>3, <2>5, SoundSession
  <2>8. /\ Grows /\ Readable(N \cup {n})'
        /\ ObjectsOf(N \cup {n})' = ObjectsOf(N) \cup d
    <3>1. Grows
      BY <2>1, <2>7 DEF Grows
    <3>2. Readable(N) /\ d \cap ObjectsOf(N) = {}
      BY <2>6
    <3> QED BY <2>7, <3>1, <3>2, NewSegment
  <2>9. Pushing(c, x)'
    <3>1. PICK M, B : M = N \cup {n} /\ B = ObjectsOf(N) \cup d
      OBVIOUS
    <3>2. Readable(M)' /\ ObjectsOf(M)' = B
      BY <2>8, <3>1
    <3>3. x.observed \cup x.new = M
      BY <2>4, <2>5, <3>1
    <3>4. PushedUpload(x, B, loose')
      BY <2>1, <2>4, <2>5, <2>6, <3>1, <3>3 DEF PushedUpload
    <3> QED BY <3>2, <3>3, <3>4, UploadPush
  <2> QED BY <2>3, <2>8, <2>9, PushStep
<1>8. CASE PutRoot(c)
  <2> DEFINE x == [s[c] EXCEPT !.pc = "verify"]
  <2>1. UNCHANGED <<loose, segment>> /\ Set(c, x) /\ s[c].pc = "putRoot"
    BY <1>8 DEF PutRoot
  <2>2. /\ x.pc = "verify" /\ x.stage = "push" /\ x.known = s[c].known
        /\ x.observed = s[c].observed /\ x.new = s[c].new
    BY <1>1 DEF Session
  <2>3. Pushing(c, x)
    <3> HIDE DEF x
    <3> QED BY <1>1, <2>1, <2>2 DEF Pushing
  <2> QED BY <1>2, <2>1, <2>3
<1>9. ~ScanRecord(c)
  BY <1>1 DEF ScanRecord, Pushing
<1> QED BY <1>3, <1>4, <1>5, <1>6, <1>7, <1>8, <1>9 DEF BusyStep

\* A resume stays one until it ends.
LEMMA ResumePush ==
  ASSUME StoreInv, PushInv, NEW c \in Clients, s[c].stage # "push",
         QuietStep(c) \/ BusyStep(c), ~Refuse(c), ~Stop(c), ~PublishRef(c)
  PROVE  PushInv'
<1>1. s[c] \in Session /\ s \in [Clients -> Session]
  BY SoundSession
<1>2. Grows
  <2>1. CASE PutPack(c)
    <3> DEFINE name == <<c, s[c].op, Cardinality(SegmentsOf(c, s[c].op))>>
    <3>1. name \notin DOMAIN segment
      BY <2>1, StoreImpliesType, PackNumber DEF PutPack
    <3> QED BY <2>1, <3>1 DEF PutPack, Grows
  <2>2. CASE ~PutPack(c)
    BY <2>2 DEF QuietStep, BusyStep, EndPlan, TakeBatch, EndUpload, ReadPage, EndScan,
         FullInventory, Match, ReadRoot, VerifyObjects, PushInventory, PlanObject, PutLoose,
         Record, ScanRecord, PutRoot, remote, repo, Grows
  <2> QED BY <2>1, <2>2
<1>3. /\ \A d \in Clients \ {c} : s'[d] = s[d]
      /\ s'[c].stage # "push" \/ s'[c] = Idle
  <2>1. CASE UNCHANGED s
    BY <2>1
  <2>13. ASSUME NEW x, Set(c, x), x.stage # "push"
         PROVE  s'[c].stage # "push" /\ \A d \in Clients \ {c} : s'[d] = s[d]
    BY <1>1, <2>13
  <2>2. CASE Match(c)
    <3> DEFINE p == Index(c)
    <3>1. Set(c, Idle) \/ Set(c, [s[c] EXCEPT !.pc = p])
      BY <2>2 DEF Match
    <3> HIDE DEF p
    <3> QED BY <1>1, <3>1 DEF Session
  <2>3. CASE PutLoose(c) \/ PutPack(c)
    <3>1. ASSUME NEW S, Set(c, Locating(c, S))
          PROVE  s'[c].stage # "push" /\ \A d \in Clients \ {c} : s'[d] = s[d]
      <4> DEFINE K == IF s[c].stage = "full" THEN s[c].known ELSE s[c].known \cup S
      <4>1. Set(c, [s[c] EXCEPT !.batch = @ \ S, !.fresh = S, !.known = K])
        BY <3>1 DEF Locating
      <4> HIDE DEF K
      <4> QED BY <1>1, <4>1 DEF Session
    <3>2. CASE PutLoose(c)
      BY <3>1, <3>2 DEF PutLoose
    <3>3. CASE PutPack(c)
      <4> DEFINE K == IF s[c].stage = "full" THEN s[c].known ELSE s[c].known \cup s[c].batch
                 name == <<c, s[c].op, Cardinality(SegmentsOf(c, s[c].op))>>
      <4>1. Set(c, [[s[c] EXCEPT !.batch = @ \ s[c].batch, !.fresh = s[c].batch, !.known = K]
                      EXCEPT !.new = @ \cup {name}])
        BY <3>3 DEF PutPack, Locating
      <4> HIDE DEF K, name
      <4> QED BY <1>1, <4>1 DEF Session
    <3> QED BY <2>3, <3>1, <3>2, <3>3
  <2>4. CASE ReadPage(c)
    <3> DEFINE t == Slice(Pending(c, s[c].op), s[c].cursor, PageSize)
               m == s[c].cursor + Cardinality(t)
               n == IF m < Cardinality(Pending(c, s[c].op)) THEN m ELSE 0
    <3>1. \/ Set(c, [s[c] EXCEPT !.pc = "inventory", !.stage = "full"])
          \/ Set(c, [s[c] EXCEPT !.pc = "scan", !.todo = t, !.cursor = n])
      BY <2>4 DEF ReadPage
    <3> HIDE DEF t, n
    <3>2. /\ [s[c] EXCEPT !.pc = "inventory", !.stage = "full"].stage # "push"
          /\ [s[c] EXCEPT !.pc = "scan", !.todo = t, !.cursor = n].stage # "push"
      BY <1>1 DEF Session
    <3> QED BY <2>13, <3>1, <3>2
  <2>5. CASE EndPlan(c) \/ EndScan(c)
    <3>1. PICK S : BeginUpload(c, S)
      BY <2>5 DEF EndPlan, EndScan
    <3> DEFINE p == Packs(S)
    <3>2. Set(c, [s[c] EXCEPT !.pc = "upload", !.todo = S, !.missing = {}, !.packs = p])
      BY <3>1 DEF BeginUpload
    <3> HIDE DEF p
    <3> QED BY <1>1, <3>2 DEF Session
  <2>6. CASE FullInventory(c)
    <3> DEFINE S == Graph(c, s[c].snap) \ Locatable
               p == Packs(S)
    <3>1. Set(c, [s[c] EXCEPT !.pc = "upload", !.observed = root, !.todo = S, !.packs = p])
      BY <2>6 DEF FullInventory
    <3> HIDE DEF S, p
    <3> QED BY <1>1, <3>1 DEF Session
  <2>7. CASE TakeBatch(c)
    <3>1. PICK b, t : Set(c, [s[c] EXCEPT !.batch = b, !.todo = t])
      BY <2>7 DEF TakeBatch
    <3> QED BY <1>1, <3>1 DEF Session
  <2>8. CASE EndUpload(c) \/ VerifyObjects(c) \/ PutRoot(c)
    <3>1. PICK p : Set(c, [s[c] EXCEPT !.pc = p])
      BY <2>8 DEF EndUpload, VerifyObjects, PutRoot
    <3> QED BY <1>1, <3>1 DEF Session
  <2>9. CASE ReadRoot(c)
    <3>1. PICK r : Set(c, [s[c] EXCEPT !.pc = "putRoot", !.observed = r])
      BY <2>9 DEF ReadRoot
    <3> QED BY <1>1, <3>1 DEF Session
  <2>10. CASE PlanObject(c) \/ ScanRecord(c)
    <3>1. PICK t, m : \/ Set(c, [s[c] EXCEPT !.todo = t])
                      \/ Set(c, [s[c] EXCEPT !.todo = t, !.missing = m])
      BY <2>10 DEF PlanObject, ScanRecord
    <3>2. /\ [s[c] EXCEPT !.todo = t].stage # "push"
          /\ [s[c] EXCEPT !.todo = t, !.missing = m].stage # "push"
      BY <1>1 DEF Session
    <3> QED BY <2>13, <3>1, <3>2
  <2>11. CASE Record(c)
    <3>1. UNCHANGED s \/ \E t : Set(c, [s[c] EXCEPT !.fresh = t])
      BY <2>11 DEF Record
    <3> QED BY <1>1, <2>1, <3>1 DEF Session
  <2>12. ~PushInventory(c)
    BY DEF PushInventory
  <2> QED BY <2>2, <2>3, <2>4, <2>5, <2>6, <2>7, <2>8, <2>9, <2>10, <2>11, <2>12
          DEF QuietStep, BusyStep
<1>4. Pushing(c, s[c])'
  BY <1>3 DEF Pushing, Idle
<1> QED BY <1>2, <1>3, <1>4, PushOthers

\* Every step keeps PushInv.
LEMMA NextPush == StoreInv /\ PushInv /\ [Next]_vars => PushInv'
<1> SUFFICES ASSUME StoreInv, PushInv, [Next]_vars PROVE PushInv'
  OBVIOUS
<1>1. CASE UNCHANGED vars
  BY <1>1 DEF vars, PushInv, Pushing, Readable, ObjectsOf, Graph
<1>2. ASSUME NEW c \in Clients,
             \/ Commit(c) \/ StartPush(c) \/ (\E k \in Ops : StartResume(c, k))
             \/ QuietStep(c) \/ BusyStep(c)
      PROVE  PushInv'
  BY <1>2, BeginPush, QuietPush, BusyPush, ResumePush
<1> QED BY <1>1, <1>2 DEF Next, Work, QuietStep, BusyStep

LEMMA PushInvHolds == Spec => []PushInv
<1>1. Init => PushInv
  BY DEF Init, PushInv, Pushing, Idle
<1> QED BY <1>1, NextPush, StoreInvHolds, PTL DEF Spec

\* The steps that write the index root, the ref, or the store.
LEMMA RemoteWrites ==
  ASSUME StoreInv, [Next]_vars
  PROVE  /\ Grows
         /\ root' = root \/ \E c \in Clients : PutRoot(c)
         /\ ref' = ref \/ \E c \in Clients : PublishRef(c)
<1>1. CASE UNCHANGED vars
  BY <1>1 DEF vars, Grows
<1>2. ASSUME NEW c \in Clients, PutPack(c) PROVE Grows /\ root' = root /\ ref' = ref
  <2> DEFINE name == <<c, s[c].op, Cardinality(SegmentsOf(c, s[c].op))>>
  <2>1. name \notin DOMAIN segment
    BY <1>2, StoreImpliesType, PackNumber DEF PutPack
  <2> QED BY <1>2, <2>1 DEF PutPack, Grows
<1>3. ASSUME NEW c \in Clients,
             \/ Commit(c) \/ StartPush(c) \/ (\E k \in Ops : StartResume(c, k))
             \/ QuietStep(c) \/ (BusyStep(c) /\ ~PutPack(c))
      PROVE  Grows /\ (root' = root \/ PutRoot(c)) /\ (ref' = ref \/ PublishRef(c))
  BY <1>3 DEF Commit, StartPush, StartResume, QuietStep, BusyStep, EndPlan, TakeBatch,
       EndUpload, ReadPage, EndScan, FullInventory, Match, ReadRoot, VerifyObjects,
       PushInventory, PlanObject, PutLoose, Record, ScanRecord, PutRoot, PublishRef,
       Refuse, Stop, remote, repo, Grows
<1> QED BY <1>1, <1>2, <1>3 DEF Next, Work, QuietStep, BusyStep

\* Whatever overlaps, resumes, crashes and is retried: what is published stays
\* locatable unless a root is put over one that another operation extended
\* meanwhile, or a ref is published by a resume, or by a push whose index was
\* taken from the root (push.rs).
THEOREM SnapshotsAreLocatable == Spec => LocatableLost
<1> DEFINE OnlySo ==
      PublishedIsLocatable =>
        \/ PublishedIsLocatable'
        \/ \E c \in Clients : OverwritesIndex(c) \/ PublishesUnindexed(c)
<1>1. StoreInv /\ PushInv /\ [Next]_vars => [OnlySo]_vars
  <2> SUFFICES ASSUME StoreInv, PushInv, [Next]_vars, PublishedIsLocatable,
                      \A c \in Clients : ~OverwritesIndex(c) /\ ~PublishesUnindexed(c)
               PROVE  PublishedIsLocatable'
    OBVIOUS
  <2>1. Grows /\ root \subseteq DOMAIN segment
    BY RemoteWrites DEF StoreInv, RootAfterSegments
  <2>2. root \subseteq root'
    BY RemoteWrites DEF OverwritesIndex, PutRoot
  <2>3. Locatable \subseteq Locatable'
    BY <2>1, <2>2 DEF Grows, Locatable, ObjectsOf
  <2>4. ASSUME NEW c \in Clients, PublishRef(c)
        PROVE  Graph(c, s[c].snap) \subseteq Locatable'
    <3>1. /\ s[c].pc = "publish" /\ s[c].stage = "push"
          /\ s[c].observed \cup s[c].new \subseteq root
      BY <2>4 DEF PublishRef, PublishesUnindexed
    <3>2. /\ Graph(c, s[c].snap) \subseteq s[c].known
          /\ s[c].known \subseteq loose \cup ObjectsOf(s[c].observed \cup s[c].new)
      BY <3>1 DEF PushInv, Pushing
    <3>3. ObjectsOf(s[c].observed \cup s[c].new) \subseteq ObjectsOf(root)
      BY <3>1 DEF ObjectsOf
    <3> QED BY <2>3, <3>2, <3>3 DEF Locatable
  <2>5. ASSUME NEW d \in Clients PROVE Graph(d, ref'[d]) \subseteq Locatable'
    <3>1. CASE ref'[d] = ref[d]
      BY <2>3, <3>1 DEF PublishedIsLocatable
    <3>2. CASE ref'[d] # ref[d]
      <4>1. PICK c \in Clients : PublishRef(c)
        BY <3>2, RemoteWrites
      <4>2. c = d /\ ref'[d] = s[d].snap
        BY <3>2, <4>1 DEF PublishRef, StoreInv, TypeOK
      <4> QED BY <2>4, <4>1, <4>2
    <3> QED BY <3>1, <3>2
  <2> QED BY <2>5 DEF PublishedIsLocatable, Graph
<1> QED BY <1>1, StoreInvHolds, PushInvHolds, PTL DEF Spec, LocatableLost

\* The index root that a push puts lists no object twice, whatever overlaps,
\* crashes and is resumed; only a resume can make it ambiguous (push.rs).
THEOREM IndexStaysUnambiguous == Spec => AmbiguousByResume
<1> DEFINE OnlySo ==
      /\ IndexUnambiguous =>
           \/ IndexUnambiguous'
           \/ \E c \in Clients : PutRoot(c) /\ s[c].stage # "push"
      /\ \A c \in Clients : PutRoot(c) /\ s[c].stage = "push" => IndexUnambiguous'
<1>1. StoreInv /\ PushInv /\ [Next]_vars => [OnlySo]_vars
  <2> SUFFICES ASSUME StoreInv, PushInv, [Next]_vars PROVE OnlySo
    OBVIOUS
  <2>1. ASSUME NEW c \in Clients, PutRoot(c), s[c].stage = "push" PROVE IndexUnambiguous'
    <3>1. Readable(s[c].observed \cup s[c].new)
      BY <2>1 DEF PutRoot, PushInv, Pushing
    <3>2. root' = s[c].observed \cup s[c].new /\ segment' = segment
      BY <2>1 DEF PutRoot
    <3> QED BY <3>1, <3>2 DEF IndexUnambiguous, Readable
  <2>2. ASSUME IndexUnambiguous, root' = root PROVE IndexUnambiguous'
    <3>1. \A r \in SUBSET DOMAIN segment : Readable(r)' = Readable(r)
      BY RemoteWrites, IndexKept
    <3>2. root \subseteq DOMAIN segment
      BY DEF StoreInv, RootAfterSegments
    <3> QED BY <2>2, <3>1, <3>2 DEF IndexUnambiguous, Readable
  <2> QED BY <2>1, <2>2, RemoteWrites
<1> QED BY <1>1, StoreInvHolds, PushInvHolds, PTL DEF Spec, AmbiguousByResume

=============================================================================
