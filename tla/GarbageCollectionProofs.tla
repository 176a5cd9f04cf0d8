---------------------- MODULE GarbageCollectionProofs ----------------------
(***************************************************************************)
(* For any devices, histories, names, settings, expiries and bounds: what  *)
(* the index root's segments list stays listed, unless a push gives a new  *)
(* segment the name of one that the root names.  Caches may be kept and    *)
(* stale, every push may compact, and a crash may come between any two     *)
(* writes.                                                                 *)
(*                                                                         *)
(* Inv: a collection begins in the maintenance window and pushes do not    *)
(* begin while it runs, so that the fence captured at its start still      *)
(* holds when it has marked.                                               *)
(*                                                                         *)
(* KeepInv: a push extends the root it read, which nobody changes before   *)
(* it puts its own.  The compacted segment comes first in a root, so that  *)
(* a compaction reads it among the segments it merges before it is written *)
(* over: what it lists can only grow, also while the root that names it is *)
(* the old one.  A delete journal lists nothing that the root in its fence *)
(* names, and it is used only while the root is that one.                  *)
(***************************************************************************)
EXTENDS GarbageCollection, FiniteSetTheorems, WellFoundedInduction, SequenceTheorems, TLAPS

IsCollection(g) ==
  g = [pc |-> g.pc, fence |-> g.fence, todo |-> g.todo, latest |-> g.latest]

TypeOK ==
  /\ gc = [c \in Clients |-> gc[c]] /\ \A c \in Clients : IsCollection(gc[c])
  /\ journal = [c \in Clients |-> journal[c]]

\* One collection at a time, and no push beside it.
Alone ==
  \A c \in Clients : gc[c].pc # "idle" =>
    Quiet /\ \A d \in Clients \ {c} : gc[d].pc = "idle"

\* Nothing to delete is a segment of the root in the fence.
Apart(fence, todo) == todo \cap Range(fence[3]) = {}

\* What a collection knows of the segments.
Knows(c) ==
  /\ gc[c].pc = "mark" => gc[c].fence = Fence
  /\ gc[c].pc = "check" => Apart(gc[c].fence, gc[c].todo)
  /\ gc[c].pc = "delete" => Apart(gc[c].fence, gc[c].todo) /\ gc[c].fence[3] = root

Journals == \A c \in Clients : journal[c] # << >> => Apart(journal[c][1], journal[c][2])

Inv == TypeOK /\ Alone /\ (\A c \in Clients : Knows(c)) /\ Journals

----------------------------------------------------------------------------
LEMMA InitInv == Init => Inv
  BY DEF Init, Inv, TypeOK, IsCollection, NoCollection, Alone, Knows, Journals

\* Fields that a step of a collection sets.
LEMMA Updated ==
  ASSUME NEW r, IsCollection(r), NEW x
  PROVE  /\ IsCollection([r EXCEPT !.pc = x]) /\ IsCollection([r EXCEPT !.fence = x])
         /\ IsCollection([r EXCEPT !.todo = x]) /\ IsCollection([r EXCEPT !.latest = x])
  <1>1. IsCollection([r EXCEPT !.pc = x]) BY SMT DEF IsCollection
  <1>2. IsCollection([r EXCEPT !.fence = x]) BY SMT DEF IsCollection
  <1>3. IsCollection([r EXCEPT !.todo = x]) BY SMT DEF IsCollection
  <1>4. IsCollection([r EXCEPT !.latest = x]) BY SMT DEF IsCollection
  <1> QED BY <1>1, <1>2, <1>3, <1>4

WithFence(r, pc, fence) == [r EXCEPT !.pc = pc, !.fence = fence]

LEMMA FenceIsSet ==
  ASSUME NEW r, IsCollection(r), NEW pc, NEW fence
  PROVE  LET new == WithFence(r, pc, fence)
         IN IsCollection(new) /\ new.pc = pc /\ new.fence = fence
  <1> DEFINE a == [r EXCEPT !.pc = pc]
  <1>1. IsCollection(a) /\ a.pc = pc BY Updated, SMT DEF IsCollection
  <1> HIDE DEF a
  <1>2. IsCollection([a EXCEPT !.fence = fence]) BY <1>1, Updated
  <1>3. [a EXCEPT !.fence = fence].pc = pc /\ [a EXCEPT !.fence = fence].fence = fence
    BY <1>1, SMT DEF IsCollection
  <1> QED BY <1>2, <1>3 DEF a, WithFence

WithTodo(r, pc, todo) == [r EXCEPT !.pc = pc, !.todo = todo]

LEMMA TodoIsSet ==
  ASSUME NEW r, IsCollection(r), NEW pc, NEW todo
  PROVE  LET new == WithTodo(r, pc, todo)
         IN IsCollection(new) /\ new.pc = pc /\ new.fence = r.fence /\ new.todo = todo
  <1> DEFINE a == [r EXCEPT !.pc = pc]
  <1>1. IsCollection(a) /\ a.pc = pc /\ a.fence = r.fence BY Updated, SMT DEF IsCollection
  <1> HIDE DEF a
  <1>2. IsCollection([a EXCEPT !.todo = todo]) BY <1>1, Updated
  <1>3. /\ [a EXCEPT !.todo = todo].pc = pc /\ [a EXCEPT !.todo = todo].fence = r.fence
        /\ [a EXCEPT !.todo = todo].todo = todo
    BY <1>1, SMT DEF IsCollection
  <1> QED BY <1>2, <1>3 DEF a, WithTodo

WithLatest(r, pc, latest) == [r EXCEPT !.pc = pc, !.latest = latest]

LEMMA LatestIsSet ==
  ASSUME NEW r, IsCollection(r), NEW pc, NEW latest
  PROVE  LET new == WithLatest(r, pc, latest)
         IN IsCollection(new) /\ new.pc = pc /\ new.fence = r.fence /\ new.todo = r.todo
  <1> DEFINE a == [r EXCEPT !.pc = pc]
  <1>1. IsCollection(a) /\ a.pc = pc /\ a.fence = r.fence /\ a.todo = r.todo
    BY Updated, SMT DEF IsCollection
  <1> HIDE DEF a
  <1>2. IsCollection([a EXCEPT !.latest = latest]) BY <1>1, Updated
  <1>3. /\ [a EXCEPT !.latest = latest].pc = pc /\ [a EXCEPT !.latest = latest].fence = r.fence
        /\ [a EXCEPT !.latest = latest].todo = r.todo
    BY <1>1, SMT DEF IsCollection
  <1> QED BY <1>2, <1>3 DEF a, WithLatest

\* A running push excludes collections.
LEMMA PushIsAlone ==
  ASSUME Inv, NEW c \in Clients, ~At(c, "idle")
  PROVE  \A d \in Clients : gc[d].pc = "idle"
  BY DEF Inv, Alone, Quiet

\* Steps that leave collections and journals alone while no collection runs.
LEMMA BesideCollections ==
  ASSUME Inv, \A d \in Clients : gc[d].pc = "idle", UNCHANGED <<gc, journal>>
  PROVE  Inv'
  BY DEF Inv, TypeOK, Alone, Knows, Journals

LEMMA PushInv ==
  ASSUME Inv, NEW c \in Clients, PushStep(c), UNCHANGED <<gc, journal, gcs>>
  PROVE  Inv'
  <1>1. ~At(c, "idle")
    BY DEF PushStep, At, OpenIntent, PutData, PutIndex, PutLoose, EndUpload, KeepSegments,
           CompactSegments, PutRoot, PublishRef, Close, Stop
  <1> QED BY <1>1, PushIsAlone, BesideCollections

\* The step of collection c: what it becomes, with what is left as it is.
LEMMA CollectInv ==
  ASSUME Inv, NEW c \in Clients, NEW g, IsCollection(g), Collect(c, g),
         \A d \in Clients \ {c} : gc[d].pc = "idle",
         g.pc # "idle" => Quiet', Knows(c)', Journals', journal' = [d \in Clients |-> journal'[d]]
  PROVE  Inv'
  <1>1. gc' = [d \in Clients |-> gc'[d]] /\ gc'[c] = g /\ \A d \in Clients \ {c} : gc'[d] = gc[d]
    BY DEF Inv, TypeOK, Collect
  <1>2. TypeOK' BY <1>1 DEF Inv, TypeOK
  <1>3. Alone' BY <1>1 DEF Alone
  <1>4. ASSUME NEW d \in Clients PROVE Knows(d)' BY <1>1, <1>4 DEF Knows
  <1> QED BY <1>2, <1>3, <1>4 DEF Inv

LEMMA Becomes ==
  ASSUME Inv, NEW c \in Clients, NEW g, Collect(c, g)
  PROVE  gc'[c] = g
  BY DEF Inv, TypeOK, Collect

LEMMA SameFence ==
  ASSUME UNCHANGED <<ref, root, intents, now>>
  PROVE  Fence' = Fence
  BY DEF Fence, FreshIntents

LEMMA FenceInv ==
  ASSUME Inv, NEW c \in Clients, GcFence(c) \/ GcReplay(c)
  PROVE  Inv'
  <1> DEFINE g == gc'[c]
  <1> USE DEF packVars
  <1>1. CASE GcFence(c)
    <2> DEFINE new == [NoCollection EXCEPT !.pc = "mark", !.fence = Fence]
    <2>1. Collect(c, new) /\ Window /\ UNCHANGED <<packVars, journal>> BY <1>1 DEF GcFence
    <2>2. IsCollection(new) /\ new.pc = "mark" /\ new.fence = Fence
      <3>1. IsCollection(NoCollection) BY SMT DEF NoCollection, IsCollection
      <3>2. new = WithFence(NoCollection, "mark", Fence) BY DEF WithFence
      <3> HIDE DEF new
      <3> QED BY <3>1, <3>2, FenceIsSet
    <2>3. gc'[c] = new BY <2>1, Becomes
    <2>4. Fence' = Fence BY <2>1, SameFence
    <2>5. Knows(c)' BY <2>2, <2>3, <2>4 DEF Knows
    <2>6. Quiet' /\ \A d \in Clients \ {c} : gc[d].pc = "idle" BY <2>1 DEF Window, Quiet, At
    <2>7. Journals' /\ journal' = [d \in Clients |-> journal'[d]]
      BY <2>1 DEF Inv, TypeOK, Journals
    <2> HIDE DEF new
    <2> QED BY <2>1, <2>2, <2>5, <2>6, <2>7, CollectInv
  <1>2. CASE GcReplay(c)
    <2> DEFINE new == [NoCollection EXCEPT !.pc = "check", !.fence = journal[c][1],
                                           !.todo = journal[c][2]]
    <2>1. Collect(c, new) /\ Window /\ journal[c] # << >> /\ UNCHANGED <<packVars, journal>>
      BY <1>2 DEF GcReplay
    <2>2. /\ IsCollection(new) /\ new.pc = "check" /\ new.fence = journal[c][1]
          /\ new.todo = journal[c][2]
      <3> DEFINE a == [NoCollection EXCEPT !.pc = "check", !.fence = journal[c][1]]
      <3>1. IsCollection(NoCollection) BY SMT DEF NoCollection, IsCollection
      <3>2. IsCollection(a) /\ a.pc = "check" /\ a.fence = journal[c][1]
        <4>1. a = WithFence(NoCollection, "check", journal[c][1]) BY DEF WithFence
        <4> HIDE DEF a
        <4> QED BY <3>1, <4>1, FenceIsSet
      <3> HIDE DEF a
      <3> DEFINE b == [a EXCEPT !.todo = journal[c][2]]
      <3>3. IsCollection(b) BY <3>2, Updated
      <3>4. b.pc = a.pc /\ b.fence = a.fence /\ b.todo = journal[c][2]
        BY <3>2, SMT DEF IsCollection
      <3>5. new = b BY DEF a
      <3> HIDE DEF b, new
      <3> QED BY <3>2, <3>3, <3>4, <3>5
    <2>3. gc'[c] = new BY <2>1, Becomes
    <2>4. Apart(new.fence, new.todo) BY <2>1, <2>2 DEF Inv, Journals
    <2>5. Knows(c)' BY <2>2, <2>3, <2>4 DEF Knows, Apart
    <2>6. Quiet' /\ \A d \in Clients \ {c} : gc[d].pc = "idle" BY <2>1 DEF Window, Quiet, At
    <2>7. Journals' /\ journal' = [d \in Clients |-> journal'[d]]
      BY <2>1 DEF Inv, TypeOK, Journals
    <2> HIDE DEF new
    <2> QED BY <2>1, <2>2, <2>5, <2>6, <2>7, CollectInv
  <1> QED BY <1>1, <1>2

LEMMA RunningAlone ==
  ASSUME Inv, NEW c \in Clients, gc[c].pc # "idle"
  PROVE  Quiet /\ \A d \in Clients \ {c} : gc[d].pc = "idle"
  BY DEF Inv, Alone

LEMMA MarkInv ==
  ASSUME Inv, NEW c \in Clients, GcMark(c)
  PROVE  Inv'
  <1> DEFINE pending == DOMAIN file \ Reachable(c)
             new == [gc[c] EXCEPT !.pc = "check", !.todo = pending]
  <1>1. /\ gc[c].pc = "mark" /\ pending \cap Range(root) = {}
        /\ journal' = [journal EXCEPT ![c] = <<gc[c].fence, pending>>]
        /\ Collect(c, new) /\ s' = s
    BY DEF GcMark, Reachable
  <1> HIDE DEF pending
  <1>2. IsCollection(new) /\ new.pc = "check" /\ new.fence = gc[c].fence /\ new.todo = pending
    <2>1. new = WithTodo(gc[c], "check", pending) BY DEF WithTodo
    <2> HIDE DEF new
    <2> QED BY <2>1, TodoIsSet DEF Inv, TypeOK
  <1>3. Apart(gc[c].fence, pending) BY <1>1 DEF Inv, Knows, Fence, Apart
  <1>4. gc'[c] = new BY <1>1, Becomes
  <1>5. Knows(c)' BY <1>2, <1>3, <1>4 DEF Knows, Apart
  <1>6. Quiet' /\ \A d \in Clients \ {c} : gc[d].pc = "idle"
    BY <1>1, RunningAlone DEF Quiet, At
  <1>7. Journals' /\ journal' = [d \in Clients |-> journal'[d]]
    BY <1>1, <1>3 DEF Inv, TypeOK, Journals, Apart
  <1> HIDE DEF new
  <1> QED BY <1>1, <1>2, <1>5, <1>6, <1>7, CollectInv

LEMMA CheckInv ==
  ASSUME Inv, NEW c \in Clients, GcCheck(c)
  PROVE  Inv'
  <1> DEFINE new == [gc[c] EXCEPT !.pc = "delete", !.latest = Latest(gc[c].todo)]
  <1>1. /\ gc[c].pc = "check" /\ gc[c].fence = Fence
        /\ Collect(c, new) /\ UNCHANGED <<s, journal, ref, root, intents, now>>
    BY DEF GcCheck, packVars
  <1>2. IsCollection(new) /\ new.pc = "delete" /\ new.fence = gc[c].fence /\ new.todo = gc[c].todo
    <2>1. new = WithLatest(gc[c], "delete", Latest(gc[c].todo)) BY DEF WithLatest
    <2> HIDE DEF new
    <2> QED BY <2>1, LatestIsSet DEF Inv, TypeOK
  <1>3. Apart(gc[c].fence, gc[c].todo) /\ gc[c].fence[3] = root /\ root' = root
    BY <1>1 DEF Inv, Knows, Fence
  <1>4. gc'[c] = new BY <1>1, Becomes
  <1>5. Knows(c)' BY <1>2, <1>3, <1>4 DEF Knows, Apart
  <1>6. Quiet' /\ \A d \in Clients \ {c} : gc[d].pc = "idle"
    BY <1>1, RunningAlone DEF Quiet, At
  <1>7. Journals' /\ journal' = [d \in Clients |-> journal'[d]]
    BY <1>1 DEF Inv, TypeOK, Journals
  <1> HIDE DEF new
  <1> QED BY <1>1, <1>2, <1>5, <1>6, <1>7, CollectInv

LEMMA DeleteInv ==
  ASSUME Inv, NEW c \in Clients, GcDelete(c)
  PROVE  Inv'
  <1>1. PICK p \in gc[c].todo : Collect(c, [gc[c] EXCEPT !.todo = @ \ {p}])
    BY DEF GcDelete
  <1> DEFINE new == [gc[c] EXCEPT !.todo = gc[c].todo \ {p}]
  <1>2. Collect(c, new) /\ gc[c].pc = "delete" /\ UNCHANGED <<s, journal, ref, root, intents, now>>
    BY <1>1 DEF GcDelete
  <1>3. /\ IsCollection(new) /\ new.pc = "delete" /\ new.fence = gc[c].fence
        /\ new.todo \subseteq gc[c].todo
    <2>1. IsCollection(gc[c]) BY DEF Inv, TypeOK
    <2> QED BY <1>2, <2>1, SMT DEF IsCollection
  <1>4. Apart(gc[c].fence, new.todo) /\ gc[c].fence[3] = root /\ root' = root
    BY <1>2, <1>3 DEF Inv, Knows, Apart
  <1>5. gc'[c] = new BY <1>2, Becomes
  <1>6. Knows(c)' BY <1>3, <1>4, <1>5 DEF Knows, Apart
  <1>7. Quiet' /\ \A d \in Clients \ {c} : gc[d].pc = "idle"
    BY <1>2, RunningAlone DEF Quiet, At
  <1>8. Journals' /\ journal' = [d \in Clients |-> journal'[d]]
    BY <1>2 DEF Inv, TypeOK, Journals
  <1> HIDE DEF new
  <1> QED BY <1>2, <1>3, <1>6, <1>7, <1>8, CollectInv

LEMMA EndInv ==
  ASSUME Inv, NEW c \in Clients, GcAbort(c) \/ GcError(c) \/ GcDone(c) \/ GcCrash(c)
  PROVE  Inv'
  <1>1. Collect(c, NoCollection) /\ gc[c].pc # "idle"
    BY DEF GcAbort, GcError, GcDone, GcCrash
  <1>2. IsCollection(NoCollection) /\ NoCollection.pc = "idle" BY DEF NoCollection, IsCollection
  <1>3. Knows(c)' BY <1>1, <1>2, Becomes DEF Knows
  <1>4. Journals' /\ journal' = [d \in Clients |-> journal'[d]]
    <2>1. CASE GcAbort(c) \/ GcCrash(c) BY <2>1 DEF GcAbort, GcCrash, Inv, TypeOK, Journals
    <2>2. CASE GcError(c)
      <3> DEFINE left == gc[c].todo \cap DOMAIN file
      <3>1. journal' = [journal EXCEPT ![c] = <<gc[c].fence, left>>] /\ gc[c].pc = "delete"
        BY <2>2 DEF GcError
      <3>2. Apart(gc[c].fence, left) BY <3>1 DEF Inv, Knows, Apart
      <3> HIDE DEF left
      <3> QED BY <3>1, <3>2 DEF Inv, TypeOK, Journals, Apart
    <2>3. CASE GcDone(c)
      <3>1. journal' = [journal EXCEPT ![c] = << >>] BY <2>3 DEF GcDone
      <3> QED BY <3>1 DEF Inv, TypeOK, Journals, Apart
    <2> QED BY <2>1, <2>2, <2>3
  <1>5. \A d \in Clients \ {c} : gc[d].pc = "idle" BY <1>1, RunningAlone
  <1> QED BY <1>1, <1>2, <1>3, <1>4, <1>5, CollectInv

LEMMA NextInv ==
  ASSUME GcAssumption, Inv, [Next]_vars
  PROVE  Inv'
  <1>1. CASE Window /\ Tick /\ UNCHANGED <<gc, journal, gcs>>
    BY <1>1, BesideCollections DEF Window
  <1>2. ASSUME NEW c \in Clients,
               Window /\ (Inventory(c) \/ Fetch(c)) /\ UNCHANGED <<gc, journal, gcs>>
        PROVE  Inv'
    BY <1>2, BesideCollections DEF Window
  <1>3. ASSUME NEW c \in Clients, PushStep(c) /\ UNCHANGED <<gc, journal, gcs>> PROVE Inv'
    BY <1>3, PushInv
  <1>4. ASSUME NEW c \in Collectors, GcFence(c) \/ GcReplay(c) \/ GcStep(c) PROVE Inv'
    <2>1. c \in Clients BY DEF GcAssumption
    <2> QED BY <1>4, <2>1, FenceInv, MarkInv, CheckInv, DeleteInv, EndInv DEF GcStep
  <1>5. CASE UNCHANGED vars
    BY <1>5 DEF vars, packVars, Inv, TypeOK, Alone, Knows, Journals, Quiet, At, Fence, FreshIntents
  <1> QED BY <1>1, <1>2, <1>3, <1>4, <1>5 DEF Next

----------------------------------------------------------------------------
(* Numbers and sequences.                                                  *)

\* A set of numbers that is not empty has a least one.
LEMMA LeastNat ==
  ASSUME NEW S, S \subseteq Nat, S # {}
  PROVE  \E n \in S : \A m \in S : n <= m
  <1> DEFINE R == {ss \in Nat \X Nat : ss[1] < ss[2]}
  <1>1. OpToRel(<, Nat) = R BY DEF OpToRel
  <1>2. IsWellFoundedOn(R, Nat) BY <1>1, NatLessThanWellFounded
  <1> HIDE DEF R
  <1>3. \E x \in S : \A y \in S : <<y, x>> \notin R BY <1>2, WFMin
  <1>4. PICK n \in S : \A m \in S : ~(m < n) BY <1>3 DEF R
  <1> QED BY <1>4

\* A set of numbers with 0 and every successor has them all.
LEMMA SetInduction ==
  ASSUME NEW S, 0 \in S, \A n \in Nat : n \in S => n + 1 \in S
  PROVE  Nat \subseteq S
  <1> SUFFICES ASSUME Nat \ S # {} PROVE FALSE OBVIOUS
  <1>1. PICK n \in Nat \ S : \A m \in Nat \ S : n <= m BY LeastNat
  <1>2. n - 1 \in Nat /\ n - 1 < n BY <1>1
  <1>3. n - 1 \in S BY <1>1, <1>2
  <1> QED BY <1>2, <1>3

\* What Extend goes through: the first i new segments are there.
Stage(segs, new, f, i) ==
  IF i = 0 THEN segs
  ELSE IF new[i] \in Range(f[i - 1]) THEN f[i - 1]
  ELSE Append(f[i - 1], new[i])

Stages(segs, new, n, f) == f = [i \in 0..n |-> Stage(segs, new, f, i)]

LEMMA StageOf ==
  ASSUME NEW segs, NEW new, NEW n \in Nat, NEW f, Stages(segs, new, n, f), NEW i \in 0..n
  PROVE  f[i] = Stage(segs, new, f, i)
  BY DEF Stages

LEMMA StagesExist ==
  ASSUME NEW segs, NEW new
  PROVE  \A n \in Nat : \E f : Stages(segs, new, n, f)
  <1> DEFINE S == {n \in Nat : \E f : Stages(segs, new, n, f)}
  <1>1. 0 \in S
    <2> DEFINE f == [i \in 0..0 |-> segs]
    <2>1. Stages(segs, new, 0, f) BY DEF Stages, Stage
    <2> HIDE DEF f
    <2> QED BY <2>1
  <1>2. ASSUME NEW n \in Nat, n \in S PROVE n + 1 \in S
    <2>1. PICK f : Stages(segs, new, n, f) BY <1>2
    <2> DEFINE last == IF new[n + 1] \in Range(f[n]) THEN f[n] ELSE Append(f[n], new[n + 1])
               h == [i \in 0..(n + 1) |-> IF i = n + 1 THEN last ELSE f[i]]
    <2>2. \A i \in 0..n : h[i] = f[i] OBVIOUS
    <2>3. h[n + 1] = last OBVIOUS
    <2>4. h = [i \in 0..(n + 1) |-> h[i]] OBVIOUS
    <2> HIDE DEF h
    <2>5. ASSUME NEW i \in 0..(n + 1) PROVE h[i] = Stage(segs, new, h, i)
      <3>1. CASE i = 0
        <4>1. f[0] = Stage(segs, new, f, 0) BY <2>1, StageOf
        <4> QED BY <2>2, <3>1, <4>1 DEF Stage
      <3>2. CASE i \in 1..n
        <4>1. i - 1 \in 0..n /\ i # 0 BY <3>2
        <4>2. f[i] = IF new[i] \in Range(f[i - 1]) THEN f[i - 1] ELSE Append(f[i - 1], new[i])
          <5>1. i \in 0..n BY <3>2
          <5>2. f[i] = Stage(segs, new, f, i) BY <2>1, <5>1, StageOf
          <5> QED BY <4>1, <5>2 DEF Stage
        <4> QED BY <2>2, <3>2, <4>1, <4>2 DEF Stage
      <3>3. CASE i = n + 1
        <4>1. i # 0 /\ i - 1 = n /\ h[i - 1] = f[n] BY <2>2, <3>3
        <4> QED BY <2>3, <3>3, <4>1 DEF Stage
      <3> QED BY <3>1, <3>2, <3>3
    <2>6. h = [i \in 0..(n + 1) |-> Stage(segs, new, h, i)] BY <2>4, <2>5
    <2>7. Stages(segs, new, n + 1, h) BY <2>6 DEF Stages
    <2> QED BY <2>7
  <1> HIDE DEF S
  <1>3. Nat \subseteq S BY <1>1, <1>2, SetInduction
  <1> QED BY <1>3 DEF S

\* The extended root begins with the observed one, and names what either did.
LEMMA ExtendNames ==
  ASSUME NEW T, NEW segs \in Seq(T), NEW new \in Seq(T)
  PROVE  /\ Extend(segs, new) \in Seq(T)
         /\ Len(segs) <= Len(Extend(segs, new))
         /\ \A i \in 1..Len(segs) : Extend(segs, new)[i] = segs[i]
         /\ \A i \in 1..Len(Extend(segs, new)) : i > Len(segs) => Extend(segs, new)[i] \in Range(new)
         /\ Range(Extend(segs, new)) = Range(segs) \cup Range(new)
  <1> DEFINE N == Len(new)
  <1>1. PICK f : Stages(segs, new, N, f) /\ Extend(segs, new) = f[N]
    <2> DEFINE g[i \in 0..Len(new)] ==
          IF i = 0 THEN segs
          ELSE IF new[i] \in Range(g[i - 1]) THEN g[i - 1]
          ELSE Append(g[i - 1], new[i])
    <2>1. Extend(segs, new) = g[N] BY DEF Extend
    <2>5. \A n \in Nat : \E h : Stages(segs, new, n, h) BY StagesExist
    <2>2. \E h : h = [i \in 0..N |-> IF i = 0 THEN segs
                                    ELSE IF new[i] \in Range(h[i - 1]) THEN h[i - 1]
                                    ELSE Append(h[i - 1], new[i])]
      <3>1. N \in Nat OBVIOUS
      <3>2. PICK h : Stages(segs, new, N, h) BY <2>5, <3>1
      <3> QED BY <3>2 DEF Stages, Stage
    <2>3. g = [i \in 0..N |-> IF i = 0 THEN segs
                             ELSE IF new[i] \in Range(g[i - 1]) THEN g[i - 1]
                             ELSE Append(g[i - 1], new[i])]
      BY <2>2
    <2>4. Stages(segs, new, N, g) BY <2>3 DEF Stages, Stage
    <2> HIDE DEF g
    <2> QED BY <2>1, <2>4
  <1> DEFINE Good(i, e) ==
        /\ e \in Seq(T) /\ Len(segs) <= Len(e) /\ \A j \in 1..Len(segs) : e[j] = segs[j]
        /\ \A j \in 1..Len(e) : j > Len(segs) => e[j] \in Range(new)
        /\ Range(e) = Range(segs) \cup {new[j] : j \in 1..i}
      S == {i \in Nat : i <= N => Good(i, f[i])}
  <1>2. 0 \in S
    <2>1. f[0] = segs
      <3>1. N \in Nat /\ 0 \in 0..N OBVIOUS
      <3>2. f[0] = Stage(segs, new, f, 0) BY <1>1, <3>1, StageOf
      <3> QED BY <3>2 DEF Stage
    <2> QED BY <2>1
  <1>3. ASSUME NEW i \in Nat, i \in S PROVE i + 1 \in S
    <2> SUFFICES ASSUME i + 1 <= N PROVE Good(i + 1, f[i + 1]) OBVIOUS
    <2>1. Good(i, f[i]) BY <1>3
    <2>2. i + 1 \in 1..N /\ new[i + 1] \in T OBVIOUS
    <2>3. f[i + 1] = IF new[i + 1] \in Range(f[i]) THEN f[i] ELSE Append(f[i], new[i + 1])
      <3>1. (i + 1) - 1 = i /\ i + 1 # 0 /\ i + 1 \in 0..N OBVIOUS
      <3>2. f[i + 1] = Stage(segs, new, f, i + 1) BY <1>1, <3>1, StageOf
      <3> QED BY <3>1, <3>2 DEF Stage
    <2>4. {new[j] : j \in 1..(i + 1)} = {new[j] : j \in 1..i} \cup {new[i + 1]} OBVIOUS
    <2>5. CASE new[i + 1] \in Range(f[i]) BY <2>1, <2>3, <2>4, <2>5
    <2>6. CASE new[i + 1] \notin Range(f[i])
      <3> DEFINE e == f[i] x == new[i + 1]
      <3> HIDE DEF e, x
      <3>1. e \in Seq(T) /\ x \in T BY <2>1, <2>2 DEF e, x
      <3>2. Append(e, x) \in Seq(T) /\ Len(Append(e, x)) = Len(e) + 1 BY <3>1
      <3>3. \A j \in 1..Len(e) : Append(e, x)[j] = e[j] BY <3>1
      <3>4. Append(e, x)[Len(e) + 1] = x BY <3>1
      <3>5. Range(Append(e, x)) = Range(e) \cup {x}
        <4>1. DOMAIN Append(e, x) = 1..(Len(e) + 1) /\ DOMAIN e = 1..Len(e) /\ Len(e) \in Nat
          BY <3>1, <3>2
        <4> QED BY <3>3, <3>4, <4>1 DEF Range
      <3>6. f[i + 1] = Append(e, x) BY <2>3, <2>6 DEF e, x
      <3>7. Len(segs) <= Len(e) /\ \A j \in 1..Len(segs) : e[j] = segs[j] BY <2>1 DEF e
      <3>8. \A j \in 1..Len(segs) : Append(e, x)[j] = segs[j] BY <3>1, <3>3, <3>7
      <3>9. Range(e) \cup {x} = Range(segs) \cup {new[j] : j \in 1..(i + 1)}
        BY <2>1, <2>4 DEF e, x
      <3>10. Len(segs) <= Len(Append(e, x)) BY <3>1, <3>2, <3>7
      <3>11. \A j \in 1..Len(Append(e, x)) : j > Len(segs) => Append(e, x)[j] \in Range(new)
        <4>1. x \in Range(new) BY <2>2 DEF x, Range
        <4>2. \A j \in 1..Len(e) : j > Len(segs) => e[j] \in Range(new) BY <2>1 DEF e
        <4> QED BY <3>1, <3>2, <3>3, <3>4, <4>1, <4>2
      <3> QED BY <3>2, <3>5, <3>6, <3>8, <3>9, <3>10, <3>11
    <2> QED BY <2>5, <2>6
  <1> HIDE DEF S
  <1>4. N \in Nat /\ N \in S BY <1>2, <1>3, SetInduction
  <1>5. Good(N, f[N]) BY <1>4 DEF S
  <1>6. {new[j] : j \in 1..N} = Range(new) BY DEF Range
  <1> QED BY <1>1, <1>5, <1>6

----------------------------------------------------------------------------
(* What keeps the listing.                                                 *)

IsPush(x) ==
  x = [pc |-> x.pc, op |-> x.op, snap |-> x.snap, segs |-> x.segs, new |-> x.new,
       todo |-> x.todo, packs |-> x.packs, batch |-> x.batch, n |-> x.n]

OnePush == \A c, d \in Clients : ~At(c, "idle") /\ ~At(d, "idle") => c = d

\* What the segments of a set list.
Listing(G) == UNION {DOMAIN Has(g) : g \in G}

\* Segments that are there, under names that only segments have.
Segments(G) == G \subseteq DOMAIN file /\ \A g \in G : g[1] \in {"index", "compact"}

\* A root: the compacted segment comes first.
IsRoot(q) ==
  /\ q \in Seq(Range(q)) /\ Segments(Range(q))
  /\ \A i \in DOMAIN q : q[i] = Compact => i = 1

\* A push that has not its new root yet.
Before == {"intent", "upload", "index", "extend"}

PushState(x) ==
  /\ x.pc = "intent" => x.new = << >>
  /\ x.pc \in Before =>
       /\ x.segs = root /\ x.new \in Seq(Range(x.new))
       /\ Segments(Range(x.new)) /\ Compact \notin Range(x.new)
  /\ x.pc = "root" => IsRoot(x.new) /\ Listing(Range(root)) \subseteq Listing(Range(x.new))

KeepInv ==
  /\ s = [c \in Clients |-> s[c]] /\ \A c \in Clients : IsPush(s[c])
  /\ OnePush /\ set \in Settings /\ IsRoot(root)
  /\ \A c \in Clients : PushState(s[c])

Kept == Listing(Range(root)) \subseteq Listing(Range(root))'

----------------------------------------------------------------------------
LEMMA ListingOfRoot ==
  /\ DOMAIN Merge(Listed) = Listing(Range(root))
  /\ DOMAIN Merge(Listed)' = Listing(Range(root))'
  <1>1. ASSUME NEW maps PROVE DOMAIN Merge(maps) = UNION {DOMAIN maps[i] : i \in DOMAIN maps}
    BY DEF Merge
  <1>2. DOMAIN Merge(Listed) = Listing(Range(root))
    <2>1. DOMAIN Merge(Listed) = UNION {DOMAIN Listed[i] : i \in DOMAIN Listed} BY <1>1
    <2>2. DOMAIN Listed = DOMAIN root /\ \A i \in DOMAIN root : Listed[i] = Has(root[i])
      BY DEF Listed
    <2> QED BY <2>1, <2>2 DEF Listing, Range
  <1>3. DOMAIN Merge(Listed)' = Listing(Range(root))'
    BY <1>1 DEF Listed, Listing, Range, Merge
  <1> QED BY <1>2, <1>3

\* Segments whose content a step leaves alone.
LEMMA Untouched ==
  ASSUME NEW G, Segments(G), \A g \in G : g \in DOMAIN file' /\ file'[g].has = file[g].has
  PROVE  Segments(G)' /\ Listing(G)' = Listing(G)
  <1>1. \A g \in G : Has(g)' = Has(g) BY DEF Has
  <1>2. {DOMAIN Has(g) : g \in G}' = {DOMAIN Has(g) : g \in G} BY <1>1
  <1> QED BY <1>2 DEF Segments, Listing

LEMMA PutElsewhere ==
  ASSUME NEW p, NEW content, Put(p, content), NEW G, Segments(G), p \notin G
  PROVE  Segments(G)' /\ Listing(G)' = Listing(G)
  <1>1. \A g \in G : g \in DOMAIN file' /\ file'[g].has = file[g].has BY DEF Put, Segments
  <1> QED BY <1>1, Untouched

LEMMA PutStays ==
  ASSUME NEW p, NEW content, Put(p, content)
  PROVE  /\ DOMAIN file' = DOMAIN file \cup {p} /\ Has(p)' = content
         /\ \A G : Segments(G) => Segments(G)'
  <1>1. DOMAIN file' = DOMAIN file \cup {p} BY DEF Put
  <1>2. Has(p)' = content BY DEF Put, Has
  <1> QED BY <1>1, <1>2 DEF Segments

LEMMA RootStays ==
  ASSUME NEW q, IsRoot(q), Segments(Range(q))'
  PROVE  IsRoot(q)'
  BY DEF IsRoot, Compact

\* A step of one push, beside which there is none.
LEMMA PushMoves ==
  ASSUME KeepInv, NEW c \in Clients, \A d \in Clients \ {c} : At(d, "idle"),
         NEW x, IsPush(x), Step(c, x), set' = set, IsRoot(root)', PushState(x)'
  PROVE  KeepInv'
  <1>1. s' = [d \in Clients |-> s'[d]] /\ s'[c] = x /\ \A d \in Clients \ {c} : s'[d] = s[d]
    BY DEF Step, KeepInv
  <1>2. \A d \in Clients \ {c} : s[d].pc = "idle" BY DEF At
  <1>3. OnePush' BY <1>1, <1>2 DEF OnePush, At
  <1>4. \A d \in Clients : IsPush(s[d])' BY <1>1 DEF KeepInv, IsPush
  <1>5. ASSUME NEW d \in Clients PROVE PushState(s[d])'
    <2>1. CASE d = c BY <1>1, <2>1 DEF PushState, IsRoot
    <2>2. CASE d # c
      <3>1. s'[d].pc = "idle" BY <1>1, <1>2, <2>2
      <3> QED BY <3>1 DEF PushState, Before
    <2> QED BY <2>1, <2>2
  <1> QED BY <1>1, <1>3, <1>4, <1>5 DEF KeepInv

\* What KeepInv says of the push that runs.
LEMMA Runs ==
  ASSUME KeepInv, NEW c \in Clients, ~At(c, "idle")
  PROVE  /\ \A d \in Clients \ {c} : At(d, "idle")
         /\ IsPush(s[c]) /\ PushState(s[c]) /\ IsRoot(root)
  BY DEF KeepInv, OnePush

\* One field of a push is set.
LEMMA FieldPc ==
  ASSUME NEW r, IsPush(r), NEW v
  PROVE  LET x == [r EXCEPT !.pc = v]
         IN IsPush(x) /\ x.pc = v /\ x.segs = r.segs /\ x.new = r.new
  BY SMT DEF IsPush

LEMMA FieldNew ==
  ASSUME NEW r, IsPush(r), NEW v
  PROVE  LET x == [r EXCEPT !.new = v]
         IN IsPush(x) /\ x.pc = r.pc /\ x.segs = r.segs /\ x.new = v
  BY SMT DEF IsPush

LEMMA FieldSegs ==
  ASSUME NEW r, IsPush(r), NEW v
  PROVE  LET x == [r EXCEPT !.segs = v]
         IN IsPush(x) /\ x.pc = r.pc /\ x.segs = v /\ x.new = r.new
  BY SMT DEF IsPush

LEMMA Field ==
  ASSUME NEW r, IsPush(r), NEW v
  PROVE  \A x \in {[r EXCEPT !.op = v], [r EXCEPT !.snap = v], [r EXCEPT !.todo = v],
                   [r EXCEPT !.packs = v], [r EXCEPT !.batch = v], [r EXCEPT !.n = v]} :
           IsPush(x) /\ x.pc = r.pc /\ x.segs = r.segs /\ x.new = r.new
  <1>1. LET x == [r EXCEPT !.op = v]
        IN IsPush(x) /\ x.pc = r.pc /\ x.segs = r.segs /\ x.new = r.new
    BY SMT DEF IsPush
  <1>2. LET x == [r EXCEPT !.snap = v]
        IN IsPush(x) /\ x.pc = r.pc /\ x.segs = r.segs /\ x.new = r.new
    BY SMT DEF IsPush
  <1>3. LET x == [r EXCEPT !.todo = v]
        IN IsPush(x) /\ x.pc = r.pc /\ x.segs = r.segs /\ x.new = r.new
    BY SMT DEF IsPush
  <1>4. LET x == [r EXCEPT !.packs = v]
        IN IsPush(x) /\ x.pc = r.pc /\ x.segs = r.segs /\ x.new = r.new
    BY SMT DEF IsPush
  <1>5. LET x == [r EXCEPT !.batch = v]
        IN IsPush(x) /\ x.pc = r.pc /\ x.segs = r.segs /\ x.new = r.new
    BY SMT DEF IsPush
  <1>6. LET x == [r EXCEPT !.n = v]
        IN IsPush(x) /\ x.pc = r.pc /\ x.segs = r.segs /\ x.new = r.new
    BY SMT DEF IsPush
  <1> QED BY <1>1, <1>2, <1>3, <1>4, <1>5, <1>6

Began(op, snap, segs, todo) ==
  [Idle EXCEPT !.pc = "intent", !.op = op, !.snap = snap, !.segs = segs, !.todo = todo]
Moved(r, pc) == [r EXCEPT !.pc = pc]
Opened(r, packs, n) == [r EXCEPT !.pc = "upload", !.packs = packs, !.n = n]
Packed(r, batch) == [r EXCEPT !.pc = "index", !.batch = batch]
Indexed(r, todo, new, n) ==
  [r EXCEPT !.pc = "upload", !.todo = todo, !.batch = {}, !.new = new, !.n = n]
Sent(r, todo) == [r EXCEPT !.todo = todo]
Rooted(r, new) == [r EXCEPT !.pc = "root", !.new = new]

\* Fields that the steps of a push set.
LEMMA Fields ==
  ASSUME NEW r, IsPush(r), NEW pc, NEW new, NEW todo, NEW packs, NEW batch, NEW n
  PROVE  /\ LET x == Moved(r, pc)
            IN IsPush(x) /\ x.pc = pc /\ x.segs = r.segs /\ x.new = r.new
         /\ LET x == Opened(r, packs, n)
            IN IsPush(x) /\ x.pc = "upload" /\ x.segs = r.segs /\ x.new = r.new
         /\ LET x == Packed(r, batch)
            IN IsPush(x) /\ x.pc = "index" /\ x.segs = r.segs /\ x.new = r.new
         /\ LET x == Indexed(r, todo, new, n)
            IN IsPush(x) /\ x.pc = "upload" /\ x.segs = r.segs /\ x.new = new
         /\ LET x == Sent(r, todo)
            IN IsPush(x) /\ x.pc = r.pc /\ x.segs = r.segs /\ x.new = r.new
         /\ LET x == Rooted(r, new)
            IN IsPush(x) /\ x.pc = "root" /\ x.segs = r.segs /\ x.new = new
  <1>1. LET x == Moved(r, pc)
        IN IsPush(x) /\ x.pc = pc /\ x.segs = r.segs /\ x.new = r.new
    BY FieldPc DEF Moved
  <1>2. LET x == Opened(r, packs, n)
        IN IsPush(x) /\ x.pc = "upload" /\ x.segs = r.segs /\ x.new = r.new
    <2> DEFINE a == [r EXCEPT !.pc = "upload"]
               b == [a EXCEPT !.packs = packs]
               x == [b EXCEPT !.n = n]
    <2>1. IsPush(a) /\ a.pc = "upload" /\ a.segs = r.segs /\ a.new = r.new BY FieldPc
    <2>2. x = Opened(r, packs, n) BY DEF Opened
    <2> HIDE DEF a
    <2>3. IsPush(b) /\ b.pc = a.pc /\ b.segs = a.segs /\ b.new = a.new BY <2>1, Field
    <2> HIDE DEF b
    <2>4. IsPush(x) /\ x.pc = b.pc /\ x.segs = b.segs /\ x.new = b.new BY <2>3, Field
    <2> HIDE DEF x
    <2> QED BY <2>1, <2>2, <2>3, <2>4
  <1>3. LET x == Packed(r, batch)
        IN IsPush(x) /\ x.pc = "index" /\ x.segs = r.segs /\ x.new = r.new
    <2> DEFINE a == [r EXCEPT !.pc = "index"]
               x == [a EXCEPT !.batch = batch]
    <2>1. IsPush(a) /\ a.pc = "index" /\ a.segs = r.segs /\ a.new = r.new BY FieldPc
    <2>2. x = Packed(r, batch) BY DEF Packed
    <2> HIDE DEF a
    <2>3. IsPush(x) /\ x.pc = a.pc /\ x.segs = a.segs /\ x.new = a.new BY <2>1, Field
    <2> HIDE DEF x
    <2> QED BY <2>1, <2>2, <2>3
  <1>4. LET x == Indexed(r, todo, new, n)
        IN IsPush(x) /\ x.pc = "upload" /\ x.segs = r.segs /\ x.new = new
    <2> DEFINE a == [r EXCEPT !.pc = "upload"]
               b == [a EXCEPT !.todo = todo]
               d == [b EXCEPT !.batch = {}]
               e == [d EXCEPT !.new = new]
               x == [e EXCEPT !.n = n]
    <2>1. IsPush(a) /\ a.pc = "upload" /\ a.segs = r.segs BY FieldPc
    <2>2. x = Indexed(r, todo, new, n) BY DEF Indexed
    <2> HIDE DEF a
    <2>3. IsPush(b) /\ b.pc = a.pc /\ b.segs = a.segs BY <2>1, Field
    <2> HIDE DEF b
    <2>4. IsPush(d) /\ d.pc = b.pc /\ d.segs = b.segs BY <2>3, Field
    <2> HIDE DEF d
    <2>5. IsPush(e) /\ e.pc = d.pc /\ e.segs = d.segs /\ e.new = new BY <2>4, FieldNew
    <2> HIDE DEF e
    <2>6. IsPush(x) /\ x.pc = e.pc /\ x.segs = e.segs /\ x.new = e.new BY <2>5, Field
    <2> HIDE DEF x
    <2> QED BY <2>1, <2>2, <2>3, <2>4, <2>5, <2>6
  <1>5. LET x == Sent(r, todo)
        IN IsPush(x) /\ x.pc = r.pc /\ x.segs = r.segs /\ x.new = r.new
    BY Field DEF Sent
  <1>6. LET x == Rooted(r, new)
        IN IsPush(x) /\ x.pc = "root" /\ x.segs = r.segs /\ x.new = new
    <2> DEFINE a == [r EXCEPT !.pc = "root"]
               x == [a EXCEPT !.new = new]
    <2>1. IsPush(a) /\ a.pc = "root" /\ a.segs = r.segs BY FieldPc
    <2>2. x = Rooted(r, new) BY DEF Rooted
    <2> HIDE DEF a
    <2>3. IsPush(x) /\ x.pc = a.pc /\ x.segs = a.segs /\ x.new = new BY <2>1, FieldNew
    <2> HIDE DEF x
    <2> QED BY <2>1, <2>2, <2>3
  <1> QED BY <1>1, <1>2, <1>3, <1>4, <1>5, <1>6

LEMMA IdleFields ==
  ASSUME NEW op, NEW snap, NEW segs, NEW todo
  PROVE  /\ IsPush(Idle) /\ Idle.pc = "idle" /\ Idle.new = << >>
         /\ LET x == Began(op, snap, segs, todo)
            IN IsPush(x) /\ x.pc = "intent" /\ x.segs = segs /\ x.new = << >>
  <1>1. IsPush(Idle) /\ Idle.pc = "idle" /\ Idle.new = << >> BY SMT DEF IsPush, Idle
  <1> DEFINE a == [Idle EXCEPT !.pc = "intent"]
             b == [a EXCEPT !.op = op]
             d == [b EXCEPT !.snap = snap]
             e == [d EXCEPT !.segs = segs]
             x == [e EXCEPT !.todo = todo]
  <1>2. IsPush(a) /\ a.pc = "intent" /\ a.new = << >> BY <1>1, FieldPc
  <1>3. x = Began(op, snap, segs, todo) BY DEF Began
  <1> HIDE DEF a
  <1>4. IsPush(b) /\ b.pc = a.pc /\ b.new = a.new BY <1>2, Field
  <1> HIDE DEF b
  <1>5. IsPush(d) /\ d.pc = b.pc /\ d.new = b.new BY <1>4, Field
  <1> HIDE DEF d
  <1>6. IsPush(e) /\ e.pc = d.pc /\ e.segs = segs /\ e.new = d.new BY <1>5, FieldSegs
  <1> HIDE DEF e
  <1>7. IsPush(x) /\ x.pc = e.pc /\ x.segs = e.segs /\ x.new = e.new BY <1>6, Field
  <1> HIDE DEF x
  <1> QED BY <1>1, <1>2, <1>3, <1>4, <1>5, <1>6, <1>7

LEMMA NothingListed == IsRoot(<< >>)
  BY DEF IsRoot, Segments, Range

LEMMA InitKeep == Init => KeepInv
  <1> SUFFICES ASSUME Init PROVE KeepInv OBVIOUS
  <1>1. root = << >> /\ s = [c \in Clients |-> Idle] /\ set \in Settings BY DEF Init, PackInit
  <1>2. IsPush(Idle) /\ Idle.pc = "idle" BY IdleFields
  <1>3. PushState(Idle) BY <1>2 DEF PushState, Before
  <1>4. IsRoot(root) BY <1>1, NothingListed
  <1> QED BY <1>1, <1>2, <1>3, <1>4 DEF KeepInv, OnePush, At

\* A push steps and leaves files and root alone.
LEMMA PushTurns ==
  ASSUME KeepInv, NEW c \in Clients, \A d \in Clients \ {c} : At(d, "idle"),
         NEW x, IsPush(x), Step(c, x), UNCHANGED <<file, root, set>>, PushState(x)
  PROVE  KeepInv' /\ Kept
  <1>1. IsRoot(root)' BY DEF KeepInv, IsRoot, Segments
  <1>2. PushState(x)' BY DEF PushState, IsRoot, Segments, Listing, Has
  <1>3. Kept BY DEF Kept, Listing, Has
  <1> QED BY <1>1, <1>2, <1>3, PushMoves

LEMMA InventoryKeep ==
  ASSUME KeepInv, NEW c \in Clients, Inventory(c)
  PROVE  KeepInv' /\ Kept
  <1> DEFINE x == Began(ops[c] + 1, ref[c] + 1, root, Missing(c, ref[c] + 1))
  <1>1. Quiet /\ Step(c, x) /\ UNCHANGED <<file, root, set>> BY DEF Inventory, Began
  <1>2. IsPush(x) /\ x.pc = "intent" /\ x.segs = root /\ x.new = << >> BY IdleFields
  <1> HIDE DEF x
  <1>3. PushState(x) BY <1>2 DEF PushState, Before, Segments, Range
  <1> QED BY <1>1, <1>2, <1>3, PushTurns DEF Quiet

LEMMA OpenIntentKeep ==
  ASSUME KeepInv, NEW c \in Clients, OpenIntent(c)
  PROVE  KeepInv' /\ Kept
  <1>1. At(c, "intent") /\ UNCHANGED <<file, root, set>> BY DEF OpenIntent
  <1>2. PICK r : r = s[c] OBVIOUS
  <1>3. PICK p, k : Step(c, Opened(r, p, k)) BY <1>2 DEF OpenIntent, Opened
  <1>4. ~At(c, "idle") /\ r.pc = "intent" BY <1>1, <1>2 DEF At
  <1>5. IsPush(r) /\ PushState(r) /\ \A d \in Clients \ {c} : At(d, "idle") BY <1>2, <1>4, Runs
  <1> DEFINE x == Opened(r, p, k)
  <1>6. IsPush(x) /\ x.pc = "upload" /\ x.segs = r.segs /\ x.new = r.new BY <1>5, Fields
  <1>7. Step(c, x) BY <1>3
  <1> HIDE DEF x
  <1>8. PushState(x) BY <1>4, <1>5, <1>6 DEF PushState, Before
  <1> QED BY <1>1, <1>5, <1>6, <1>7, <1>8, PushTurns

\* A file that is no segment is put.
LEMMA PutMoves ==
  ASSUME KeepInv, NEW c \in Clients, ~At(c, "idle"),
         NEW p, NEW content, Put(p, content), p[1] \notin {"index", "compact"},
         NEW x, IsPush(x), Step(c, x), UNCHANGED <<root, set>>,
         x.pc \in Before \ {"intent"}, s[c].pc \in Before,
         x.segs = s[c].segs, x.new = s[c].new
  PROVE  KeepInv' /\ Kept
  <1>1. PICK r : r = s[c] OBVIOUS
  <1>2. IsPush(r) /\ PushState(r) /\ IsRoot(root) /\ \A d \in Clients \ {c} : At(d, "idle")
    BY <1>1, Runs
  <1>3. Segments(Range(root)) /\ p \notin Range(root) BY <1>2 DEF IsRoot, Segments
  <1>4. Segments(Range(root))' /\ Kept BY <1>3, PutElsewhere DEF Kept
  <1>5. IsRoot(root)' BY <1>2, <1>4 DEF IsRoot, Compact
  <1>6. PushState(x)'
    <2>1. x.segs = root /\ x.new \in Seq(Range(x.new)) /\ Compact \notin Range(x.new)
          /\ Segments(Range(x.new))
      BY <1>1, <1>2 DEF PushState
    <2>2. Segments(Range(x.new))' BY <2>1, PutStays
    <2> QED BY <2>1, <2>2 DEF PushState, Before, Compact
  <1> QED BY <1>2, <1>4, <1>5, <1>6, PushMoves

LEMMA PutDataKeep ==
  ASSUME KeepInv, NEW c \in Clients, PutData(c)
  PROVE  KeepInv' /\ Kept
  <1>1. PICK r : r = s[c] OBVIOUS
  <1>2. PICK b : Put(Data(PackName(c)), b) /\ Step(c, Packed(r, b))
    BY <1>1 DEF PutData, Packed
  <1>3. At(c, "upload") /\ UNCHANGED <<root, set>> BY DEF PutData
  <1>4. ~At(c, "idle") /\ r.pc = "upload" BY <1>1, <1>3 DEF At
  <1>5. IsPush(r) BY <1>1, <1>4, Runs
  <1> DEFINE x == Packed(r, b)
  <1>6. IsPush(x) /\ x.pc = "index" /\ x.segs = r.segs /\ x.new = r.new BY <1>5, Fields
  <1>7. Step(c, x) BY <1>2
  <1>8. Data(PackName(c))[1] \notin {"index", "compact"} BY DEF Data
  <1> HIDE DEF x
  <1>9. x.pc \in Before \ {"intent"} /\ s[c].pc \in Before BY <1>1, <1>4, <1>6 DEF Before
  <1> QED BY <1>1, <1>2, <1>3, <1>4, <1>6, <1>7, <1>8, <1>9, PutMoves

LEMMA PutLooseKeep ==
  ASSUME KeepInv, NEW c \in Clients, PutLoose(c)
  PROVE  KeepInv' /\ Kept
  <1>1. PICK r : r = s[c] OBVIOUS
  <1>2. PICK o : Put(Loose(o), {o}) /\ Step(c, Sent(r, r.todo \ {o}))
    BY <1>1 DEF PutLoose, Sent
  <1>3. At(c, "upload") /\ UNCHANGED <<root, set>> BY DEF PutLoose
  <1>4. ~At(c, "idle") /\ r.pc = "upload" BY <1>1, <1>3 DEF At
  <1>5. IsPush(r) BY <1>1, <1>4, Runs
  <1> DEFINE x == Sent(r, r.todo \ {o})
  <1>6. IsPush(x) /\ x.pc = r.pc /\ x.segs = r.segs /\ x.new = r.new BY <1>5, Fields
  <1>7. Step(c, x) BY <1>2
  <1>8. Loose(o)[1] \notin {"index", "compact"} BY DEF Loose
  <1> HIDE DEF x
  <1>9. x.pc \in Before \ {"intent"} /\ s[c].pc \in Before BY <1>1, <1>4, <1>6 DEF Before
  <1> QED BY <1>1, <1>2, <1>3, <1>4, <1>6, <1>7, <1>8, <1>9, PutMoves

LEMMA AppendSeq ==
  ASSUME NEW q, q \in Seq(Range(q)), NEW v
  PROVE  Append(q, v) \in Seq(Range(Append(q, v))) /\ Range(Append(q, v)) = Range(q) \cup {v}
  <1> DEFINE T == Range(q) \cup {v}
  <1>1. q \in Seq(T) /\ v \in T OBVIOUS
  <1>2. Append(q, v) \in Seq(T) /\ Len(Append(q, v)) = Len(q) + 1 BY <1>1
  <1>3. \A j \in 1..Len(q) : Append(q, v)[j] = q[j] BY <1>1
  <1>4. Append(q, v)[Len(q) + 1] = v BY <1>1
  <1>5. DOMAIN Append(q, v) = 1..(Len(q) + 1) /\ DOMAIN q = 1..Len(q) /\ Len(q) \in Nat
    BY <1>1, <1>2
  <1>6. Range(Append(q, v)) = T BY <1>3, <1>4, <1>5 DEF Range
  <1> QED BY <1>2, <1>6

LEMMA PutIndexKeep ==
  ASSUME KeepInv, NEW c \in Clients, PutIndex(c)
  PROVE  KeepInv' /\ (Kept \/ Segment(PackName(c)) \in Range(root))
  <1>1. PICK r : r = s[c] OBVIOUS
  <1>2. PICK p : p = Segment(PackName(c)) OBVIOUS
  <1> DEFINE u == Append(r.new, p)
  <1>3. PICK content, t, k, w : /\ Put(p, content) /\ w = Append(r.new, p)
                                /\ Step(c, Indexed(r, t, w, k))
    <2>1. PICK content, t, k : Put(p, content) /\ Step(c, Indexed(r, t, u, k))
      BY <1>1, <1>2 DEF PutIndex, Indexed
    <2> QED BY <2>1
  <1>4. At(c, "index") /\ UNCHANGED <<root, set>> BY DEF PutIndex
  <1>5. ~At(c, "idle") /\ r.pc = "index" BY <1>1, <1>4 DEF At
  <1>6. IsPush(r) /\ PushState(r) /\ IsRoot(root) /\ \A d \in Clients \ {c} : At(d, "idle")
    BY <1>1, <1>5, Runs
  <1> DEFINE x == Indexed(r, t, w, k)
  <1>7. IsPush(x) /\ x.pc = "upload" /\ x.segs = r.segs /\ x.new = w BY <1>6, Fields
  <1>8. Step(c, x) BY <1>3
  <1> HIDE DEF x
  <1>9. p[1] = "index" /\ p # Compact BY <1>2 DEF Segment, Compact
  <1>10. Segments(Range(root))' /\ p \in DOMAIN file'
    <2>1. DOMAIN file' = DOMAIN file \cup {p} BY <1>3, PutStays
    <2> QED BY <1>4, <1>6, <2>1 DEF IsRoot, Segments
  <1>11. IsRoot(root)' BY <1>4, <1>6, <1>10 DEF IsRoot, Compact
  <1>12. r.segs = root /\ r.new \in Seq(Range(r.new)) /\ Segments(Range(r.new))
         /\ Compact \notin Range(r.new)
    BY <1>5, <1>6 DEF PushState, Before
  <1>13. w \in Seq(Range(w)) /\ Range(w) = Range(r.new) \cup {p} BY <1>3, <1>12, AppendSeq
  <1>14. Segments(Range(r.new))' BY <1>3, <1>12, PutStays
  <1>15. Segments(Range(w))' BY <1>9, <1>10, <1>13, <1>14 DEF Segments
  <1>16. PushState(x)' BY <1>4, <1>7, <1>9, <1>12, <1>13, <1>15 DEF PushState, Before, Compact
  <1>17. KeepInv' BY <1>4, <1>6, <1>7, <1>8, <1>11, <1>16, PushMoves
  <1>18. ASSUME p \notin Range(root) PROVE Kept
    <2>1. Segments(Range(root)) BY <1>6 DEF IsRoot
    <2> QED BY <1>3, <1>4, <1>18, <2>1, PutElsewhere DEF Kept
  <1> QED BY <1>2, <1>17, <1>18

\* Steps that set where a push is.
LEMMA MovedKeep ==
  ASSUME KeepInv, NEW c \in Clients, EndUpload(c) \/ PublishRef(c)
  PROVE  KeepInv' /\ Kept
  <1>1. PICK r : r = s[c] OBVIOUS
  <1>2. PICK pc : /\ Step(c, Moved(r, pc))
                  /\ \/ pc = "extend" /\ r.pc = "upload"
                     \/ pc \in {"publish", "close"} /\ r.pc # "idle"
    BY <1>1 DEF EndUpload, PublishRef, Moved, At
  <1>3. UNCHANGED <<file, root, set>> BY DEF EndUpload, PublishRef
  <1>4. ~At(c, "idle") BY <1>1, <1>2 DEF At
  <1>5. IsPush(r) /\ PushState(r) /\ \A d \in Clients \ {c} : At(d, "idle") BY <1>1, <1>4, Runs
  <1> DEFINE x == Moved(r, pc)
  <1>6. IsPush(x) /\ x.pc = pc /\ x.segs = r.segs /\ x.new = r.new BY <1>5, Fields
  <1>7. Step(c, x) BY <1>2
  <1> HIDE DEF x
  <1>8. PushState(x) BY <1>2, <1>5, <1>6 DEF PushState, Before
  <1> QED BY <1>3, <1>5, <1>6, <1>7, <1>8, PushTurns

LEMMA EndKeep ==
  ASSUME KeepInv, NEW c \in Clients, Close(c) \/ Stop(c)
  PROVE  KeepInv' /\ Kept
  <1>1. ~At(c, "idle") /\ Step(c, Idle) /\ UNCHANGED <<file, root, set>> BY DEF Close, Stop, At
  <1>2. IsPush(Idle) /\ Idle.pc = "idle" BY IdleFields
  <1>3. PushState(Idle) BY <1>2 DEF PushState, Before
  <1> QED BY <1>1, <1>2, <1>3, Runs, PushTurns

LEMMA PutRootKeep ==
  ASSUME KeepInv, NEW c \in Clients, PutRoot(c)
  PROVE  KeepInv' /\ Kept
  <1>1. PICK r : r = s[c] OBVIOUS
  <1>2. /\ Step(c, Moved(r, "publish")) /\ r.pc = "root" /\ root' = r.new
        /\ UNCHANGED <<file, set>> /\ ~At(c, "idle")
    BY <1>1 DEF PutRoot, Moved, At
  <1>3. IsPush(r) /\ PushState(r) /\ \A d \in Clients \ {c} : At(d, "idle") BY <1>1, <1>2, Runs
  <1> DEFINE x == Moved(r, "publish")
  <1>4. IsPush(x) /\ x.pc = "publish" BY <1>3, Fields
  <1>5. Step(c, x) BY <1>2
  <1> HIDE DEF x
  <1>6. IsRoot(r.new) /\ Listing(Range(root)) \subseteq Listing(Range(r.new))
    BY <1>2, <1>3 DEF PushState
  <1>7. IsRoot(root)' BY <1>2, <1>6 DEF IsRoot, Segments, Compact
  <1>8. Kept BY <1>2, <1>6 DEF Kept, Listing, Has
  <1>9. PushState(x)' BY <1>4 DEF PushState, Before
  <1> QED BY <1>2, <1>3, <1>4, <1>5, <1>7, <1>8, <1>9, PushMoves

----------------------------------------------------------------------------
(* A new root and a compaction.                                            *)

LEMMA ExtendedRoot ==
  ASSUME NEW segs, NEW new, IsRoot(segs), new \in Seq(Range(new)), Segments(Range(new)),
         Compact \notin Range(new), NEW e, e = Extend(segs, new)
  PROVE  IsRoot(e) /\ Range(e) = Range(segs) \cup Range(new)
  <1> DEFINE T == Range(segs) \cup Range(new)
  <1>1. segs \in Seq(T) /\ new \in Seq(T) BY DEF IsRoot
  <1> HIDE DEF T
  <1>2. /\ e \in Seq(T) /\ Len(segs) <= Len(e) /\ \A i \in 1..Len(segs) : e[i] = segs[i]
        /\ \A i \in 1..Len(e) : i > Len(segs) => e[i] \in Range(new)
        /\ Range(e) = Range(segs) \cup Range(new)
    BY <1>1, ExtendNames
  <1>3. Segments(Range(e)) BY <1>2 DEF IsRoot, Segments
  <1>4. ASSUME NEW i \in DOMAIN e, e[i] = Compact PROVE i = 1
    <2>1. i \in 1..Len(e) /\ i \in Nat /\ Len(segs) \in Nat BY <1>1, <1>2
    <2>2. i <= Len(segs) BY <1>2, <1>4, <2>1
    <2>3. i \in DOMAIN segs /\ segs[i] = Compact BY <1>1, <1>2, <1>4, <2>1, <2>2
    <2> QED BY <2>3 DEF IsRoot
  <1> QED BY <1>2, <1>3, <1>4 DEF IsRoot, T

LEMMA KeepSegmentsKeep ==
  ASSUME KeepInv, NEW c \in Clients, KeepSegments(c)
  PROVE  KeepInv' /\ Kept
  <1>1. PICK r : r = s[c] OBVIOUS
  <1>2. PICK e : e = Extend(r.segs, r.new) OBVIOUS
  <1>3. /\ Step(c, Rooted(r, e)) /\ r.pc = "extend" /\ UNCHANGED <<file, root, set>>
        /\ ~At(c, "idle")
    BY <1>1, <1>2 DEF KeepSegments, Rooted, Extended, At
  <1>4. IsPush(r) /\ PushState(r) /\ IsRoot(root) /\ \A d \in Clients \ {c} : At(d, "idle")
    BY <1>1, <1>3, Runs
  <1>5. r.segs = root /\ IsRoot(e) /\ Range(e) = Range(root) \cup Range(r.new)
    BY <1>2, <1>3, <1>4, ExtendedRoot DEF PushState, Before
  <1> DEFINE x == Rooted(r, e)
  <1>6. IsPush(x) /\ x.pc = "root" /\ x.new = e BY <1>4, Fields
  <1>7. Step(c, x) BY <1>3
  <1> HIDE DEF x
  <1>8. Listing(Range(root)) \subseteq Listing(Range(e)) BY <1>5 DEF Listing
  <1>9. PushState(x) BY <1>5, <1>6, <1>8 DEF PushState, Before
  <1> QED BY <1>3, <1>4, <1>6, <1>7, <1>9, PushTurns

\* The segments before a cut, and those after it behind the compacted one.
LEMMA Cut ==
  ASSUME NEW e, IsRoot(e), NEW cut \in Nat, cut >= 1, cut <= Len(e)
  PROVE  LET old  == SubSeq(e, 1, cut)
             rest == SubSeq(e, cut + 1, Len(e))
             new  == <<Compact>> \o rest
         IN /\ DOMAIN old = 1..cut /\ Range(e) = Range(old) \cup Range(rest)
            /\ Compact \notin Range(rest)
            /\ new \in Seq(Range(new)) /\ Range(new) = {Compact} \cup Range(rest)
            /\ \A i \in DOMAIN new : new[i] = Compact => i = 1
  <1> DEFINE T == Range(e)
             N == Len(e)
             old == SubSeq(e, 1, cut)
             rest == SubSeq(e, cut + 1, N)
             new == <<Compact>> \o rest
  <1>1. e \in Seq(T) /\ N \in Nat /\ DOMAIN e = 1..N BY DEF IsRoot
  <1>2. DOMAIN old = 1..cut /\ \A i \in 1..cut : old[i] = e[i] BY <1>1
  <1>3. rest \in Seq(T) /\ Len(rest) = N - cut /\ \A i \in 1..(N - cut) : rest[i] = e[cut + i]
    <2>1. cut + 1 \in 1..(N + 1) /\ N \in 0..N BY <1>1
    <2> HIDE DEF T, rest
    <2>2. ASSUME NEW S, NEW q \in Seq(S), NEW m \in 1..(Len(q) + 1)
          PROVE  /\ SubSeq(q, m, Len(q)) \in Seq(S)
                 /\ Len(SubSeq(q, m, Len(q))) = Len(q) - m + 1
                 /\ \A i \in 1..(Len(q) - m + 1) : SubSeq(q, m, Len(q))[i] = q[m + i - 1]
      <3>1. CASE m <= Len(q)
        <4>1. \A i \in m..Len(q) : q[i] \in S OBVIOUS
        <4>2. m \in 1..(Len(q) + 1) /\ Len(q) \in (m - 1)..Len(q) BY <3>1
        <4> QED BY <4>1, <4>2, SubSeqProperties
      <3>2. CASE m > Len(q)
        <4>1. m = Len(q) + 1 /\ SubSeq(q, m, Len(q)) = << >> BY <3>2
        <4> QED BY <4>1
      <3> QED BY <3>1, <3>2
    <2>3. rest = SubSeq(e, cut + 1, Len(e)) BY DEF rest
    <2>4. /\ SubSeq(e, cut + 1, Len(e)) \in Seq(T)
          /\ Len(SubSeq(e, cut + 1, Len(e))) = Len(e) - (cut + 1) + 1
          /\ \A i \in 1..(Len(e) - (cut + 1) + 1) :
               SubSeq(e, cut + 1, Len(e))[i] = e[(cut + 1) + i - 1]
      BY <1>1, <2>1, <2>2
    <2>5. N - (cut + 1) + 1 = N - cut /\ \A i \in 1..(N - cut) : (cut + 1) + i - 1 = cut + i
      BY <1>1
    <2> QED BY <2>3, <2>4, <2>5
  <1>4. DOMAIN rest = 1..(N - cut) BY <1>3
  <1>5. Range(e) = Range(old) \cup Range(rest)
    <2>1. ASSUME NEW i \in 1..N PROVE e[i] \in Range(old) \cup Range(rest)
      <3>1. CASE i <= cut
        <4>1. i \in 1..cut BY <1>1, <3>1
        <4> HIDE DEF old, rest
        <4> QED BY <1>2, <4>1 DEF Range
      <3>2. CASE i > cut
        <4>1. i - cut \in 1..(N - cut) /\ cut + (i - cut) = i BY <1>1, <3>2
        <4>2. rest[i - cut] = e[i] BY <1>3, <4>1
        <4> HIDE DEF old, rest
        <4> QED BY <1>4, <4>1, <4>2 DEF Range
      <3> QED BY <3>1, <3>2
    <2>2. \A y \in Range(old) : y \in Range(e)
      <3>1. \A i \in 1..cut : i \in DOMAIN e BY <1>1
      <3> HIDE DEF old
      <3> QED BY <1>2, <3>1 DEF Range
    <2>3. \A y \in Range(rest) : y \in Range(e)
      <3>1. \A i \in 1..(N - cut) : cut + i \in DOMAIN e BY <1>1
      <3> HIDE DEF rest, N
      <3> QED BY <1>3, <1>4, <3>1 DEF Range
    <2> HIDE DEF old, rest
    <2> QED BY <1>1, <2>1, <2>2, <2>3 DEF Range
  <1>6. Compact \notin Range(rest)
    <2> SUFFICES ASSUME NEW i \in 1..(N - cut), rest[i] = Compact PROVE FALSE
      BY <1>4 DEF Range
    <2> HIDE DEF old, rest
    <2>1. e[cut + i] = Compact BY <1>3
    <2>2. cut + i \in DOMAIN e /\ cut + i # 1 BY <1>1
    <2> QED BY <2>1, <2>2 DEF IsRoot
  <1> HIDE DEF old, rest
  <1> DEFINE U == {Compact} \cup Range(rest)
  <1>7. rest \in Seq(U) /\ <<Compact>> \in Seq(U)
    <2>1. \A i \in 1..Len(rest) : rest[i] \in U BY <1>3, <1>4 DEF Range
    <2>2. rest = [i \in 1..Len(rest) |-> rest[i]] /\ Len(rest) \in Nat BY <1>3
    <2> HIDE DEF U
    <2>3. [i \in 1..Len(rest) |-> rest[i]] \in [1..Len(rest) -> U] BY <2>1
    <2>4. rest \in [1..Len(rest) -> U] BY <2>2, <2>3
    <2>5. rest \in Seq(U) BY <2>2, <2>4
    <2>6. Compact \in U BY DEF U
    <2> QED BY <2>5, <2>6
  <1>8. new \in Seq(U) /\ Len(new) = 1 + Len(rest) /\ new[1] = Compact
        /\ \A i \in 1..Len(rest) : new[1 + i] = rest[i]
    BY <1>7
  <1>9. ASSUME NEW i \in DOMAIN new, i # 1 PROVE new[i] \in Range(rest)
    <2>1. i - 1 \in 1..Len(rest) /\ 1 + (i - 1) = i BY <1>7, <1>8, <1>9
    <2> QED BY <1>7, <1>8, <2>1 DEF Range
  <1>10. DOMAIN new = 1..(1 + Len(rest)) /\ DOMAIN rest = 1..Len(rest) /\ Len(rest) \in Nat
    BY <1>7, <1>8
  <1> HIDE DEF new
  <1>11. Range(new) = U
    <2>1. Range(new) \subseteq U BY <1>8, <1>9 DEF Range
    <2>2. Compact \in Range(new) BY <1>8, <1>10 DEF Range
    <2>3. \A i \in 1..Len(rest) : 1 + i \in DOMAIN new BY <1>10
    <2>4. Range(rest) \subseteq Range(new) BY <1>8, <1>10, <2>3 DEF Range
    <2> QED BY <2>1, <2>2, <2>4
  <1>12. new \in Seq(Range(new)) /\ \A i \in DOMAIN new : new[i] = Compact => i = 1
    BY <1>6, <1>8, <1>9, <1>11
  <1> QED BY <1>2, <1>5, <1>6, <1>11, <1>12 DEF old, rest, new

LEMMA CompactSegmentsKeep ==
  ASSUME KeepInv, NEW c \in Clients, CompactSegments(c)
  PROVE  KeepInv' /\ Kept
  <1>1. PICK r : r = s[c] OBVIOUS
  <1>2. PICK e, cut : e = Extend(r.segs, r.new) /\ cut = Len(e) - (set.bound - 1) OBVIOUS
  <1>3. PICK old, rest, new : /\ old = SubSeq(e, 1, cut) /\ rest = SubSeq(e, cut + 1, Len(e))
                              /\ new = <<Compact>> \o rest
    OBVIOUS
  <1>4. /\ Put(Compact, Merge([i \in DOMAIN old |-> Has(old[i])]))
        /\ Step(c, Rooted(r, new)) /\ r.pc = "extend" /\ Len(e) > set.bound
        /\ UNCHANGED <<root, set>> /\ ~At(c, "idle")
    BY <1>1, <1>2, <1>3 DEF CompactSegments, Rooted, Extended, At
  <1>5. IsPush(r) /\ PushState(r) /\ IsRoot(root) /\ \A d \in Clients \ {c} : At(d, "idle")
    BY <1>1, <1>4, Runs
  <1>6. r.segs = root /\ IsRoot(e) /\ Range(e) = Range(root) \cup Range(r.new)
    BY <1>2, <1>4, <1>5, ExtendedRoot DEF PushState, Before
  <1>7. cut \in Nat /\ cut >= 1 /\ cut <= Len(e)
    <2>1. set.bound \in Nat \ {0} BY PackAssumption DEF KeepInv
    <2>2. Len(e) \in Nat BY <1>6 DEF IsRoot
    <2> QED BY <1>2, <1>4, <2>1, <2>2
  <1>8. /\ DOMAIN old = 1..cut /\ Range(e) = Range(old) \cup Range(rest)
        /\ Compact \notin Range(rest)
        /\ new \in Seq(Range(new)) /\ Range(new) = {Compact} \cup Range(rest)
        /\ \A i \in DOMAIN new : new[i] = Compact => i = 1
    BY <1>3, <1>6, <1>7, Cut
  <1>9. PICK M : M = Merge([i \in DOMAIN old |-> Has(old[i])]) OBVIOUS
  <1>10. DOMAIN M = Listing(Range(old)) BY <1>9 DEF Merge, Listing, Range
  <1>11. DOMAIN file' = DOMAIN file \cup {Compact} /\ Has(Compact)' = M BY <1>4, <1>9, PutStays
  <1>12. \A g \in DOMAIN file : g # Compact => Has(g)' = Has(g) BY <1>4 DEF Put, Has
  <1>13. Range(root) \subseteq DOMAIN file /\ Range(rest) \subseteq DOMAIN file
    BY <1>6, <1>8 DEF IsRoot, Segments
  <1>14. Listing(Range(e)) = Listing(Range(old)) \cup Listing(Range(rest)) BY <1>8 DEF Listing
  <1>15. Listing(Range(new))' = Listing(Range(e))
    <2>1. Listing(Range(rest))' = Listing(Range(rest))
      <3>1. \A g \in Range(rest) : Has(g)' = Has(g) BY <1>8, <1>12, <1>13
      <3>2. {DOMAIN Has(g) : g \in Range(rest)}' = {DOMAIN Has(g) : g \in Range(rest)} BY <3>1
      <3> QED BY <3>2 DEF Listing
    <2>2. Listing(Range(new))' = DOMAIN M \cup Listing(Range(rest))' BY <1>8, <1>11 DEF Listing
    <2> QED BY <1>10, <1>14, <2>1, <2>2
  <1>16. \A g \in Range(root) : DOMAIN Has(g) \subseteq Listing(Range(e))
    BY <1>6 DEF Listing
  <1>17. Compact \in Range(root) => DOMAIN Has(Compact) \subseteq DOMAIN M
    <2> SUFFICES ASSUME Compact \in Range(root) PROVE Compact \in Range(old)
      BY <1>10 DEF Listing
    <2> QED BY <1>6, <1>8
  <1>18. Kept
    <2>1. \A g \in Range(root) : DOMAIN Has(g) \subseteq DOMAIN Has(g)'
      BY <1>11, <1>12, <1>13, <1>17
    <2> QED BY <1>4, <2>1 DEF Kept, Listing
  <1>19. Listing(Range(root))' \subseteq Listing(Range(new))'
    <2>1. ASSUME NEW g \in Range(root) PROVE DOMAIN Has(g)' \subseteq Listing(Range(e))
      <3>1. CASE g = Compact BY <1>10, <1>11, <1>14, <3>1
      <3>2. CASE g # Compact BY <1>12, <1>13, <1>16, <3>2
      <3> QED BY <3>1, <3>2
    <2>2. Listing(Range(root))' \subseteq Listing(Range(e)) BY <1>4, <2>1 DEF Listing
    <2> QED BY <1>15, <2>2
  <1>20. IsRoot(root)' BY <1>4, <1>5, <1>11 DEF IsRoot, Segments, Compact
  <1>21. IsRoot(new)'
    <2>1. Segments(Range(new))' BY <1>6, <1>8, <1>11 DEF IsRoot, Segments, Compact
    <2> QED BY <1>8, <2>1 DEF IsRoot, Compact
  <1> DEFINE x == Rooted(r, new)
  <1>22. IsPush(x) /\ x.pc = "root" /\ x.new = new BY <1>5, Fields
  <1>23. Step(c, x) BY <1>4
  <1> HIDE DEF x
  <1>24. PushState(x)' BY <1>19, <1>21, <1>22 DEF PushState, Before, Listing, Has, IsRoot, Segments
  <1> QED BY <1>4, <1>5, <1>18, <1>20, <1>22, <1>23, <1>24, PushMoves

LEMMA PushKeep ==
  ASSUME KeepInv, NEW c \in Clients, PushStep(c)
  PROVE  /\ KeepInv'
         /\ Kept \/ (PutIndex(c) /\ Segment(PackName(c)) \in Range(root))
  BY OpenIntentKeep, PutDataKeep, PutIndexKeep, PutLooseKeep, MovedKeep, KeepSegmentsKeep,
     CompactSegmentsKeep, PutRootKeep, EndKeep DEF PushStep

----------------------------------------------------------------------------
(* Steps beside pushes.                                                    *)

LEMMA StoreSame ==
  ASSUME KeepInv, UNCHANGED <<file, root, s, set>>
  PROVE  KeepInv' /\ Kept
  <1>1. IsRoot(root)' BY DEF KeepInv, IsRoot, Segments
  <1>2. OnePush' BY DEF KeepInv, OnePush, At
  <1>3. \A c \in Clients : PushState(s[c])'
    BY DEF KeepInv, PushState, IsRoot, Segments, Listing, Has
  <1>4. \A c \in Clients : IsPush(s[c])' BY DEF KeepInv, IsPush
  <1>5. Kept BY DEF Kept, Listing, Has
  <1> QED BY <1>1, <1>2, <1>3, <1>4, <1>5 DEF KeepInv

LEMMA DeleteKeep ==
  ASSUME Inv, KeepInv, NEW c \in Clients, GcDelete(c)
  PROVE  KeepInv' /\ Kept
  <1>1. PICK p \in gc[c].todo :
          file' = IF Expired(c, p) THEN [q \in DOMAIN file \ {p} |-> file[q]] ELSE file
    BY DEF GcDelete
  <1>2. gc[c].pc = "delete" /\ UNCHANGED <<root, s, set>> BY DEF GcDelete
  <1>3. Apart(gc[c].fence, gc[c].todo) /\ gc[c].fence[3] = root BY <1>2 DEF Inv, Knows
  <1>4. p \notin Range(root) BY <1>3 DEF Apart
  <1>5. Segments(Range(root)) BY DEF KeepInv, IsRoot
  <1>6. \A g \in Range(root) : g \in DOMAIN file' /\ file'[g].has = file[g].has
    <2>1. CASE Expired(c, p) BY <1>1, <1>4, <1>5, <2>1 DEF Segments
    <2>2. CASE ~Expired(c, p) BY <1>1, <1>5, <2>2 DEF Segments
    <2> QED BY <2>1, <2>2
  <1>7. Segments(Range(root))' /\ Kept BY <1>2, <1>5, <1>6, Untouched DEF Kept
  <1>8. IsRoot(root)' BY <1>2, <1>7 DEF KeepInv, IsRoot, Compact
  <1>9. \A d \in Clients : s[d].pc = "idle" BY <1>2, RunningAlone DEF Quiet, At
  <1>10. \A d \in Clients : PushState(s[d])' BY <1>2, <1>9 DEF PushState, Before
  <1>11. OnePush' BY <1>2 DEF KeepInv, OnePush, At
  <1>12. \A d \in Clients : IsPush(s[d])' BY <1>2 DEF KeepInv, IsPush
  <1> QED BY <1>2, <1>7, <1>8, <1>10, <1>11, <1>12 DEF KeepInv

LEMMA NextKeep ==
  ASSUME GcAssumption, Inv, KeepInv, [Next]_vars
  PROVE  /\ KeepInv'
         /\ Kept \/ \E c \in Clients : PutIndex(c) /\ Segment(PackName(c)) \in Range(root)
  <1>1. CASE UNCHANGED vars BY <1>1, StoreSame DEF vars, packVars
  <1>2. CASE Tick BY <1>2, StoreSame DEF Tick
  <1>3. ASSUME NEW c \in Clients, Inventory(c) \/ Fetch(c) PROVE KeepInv' /\ Kept
    <2>1. CASE Inventory(c) BY <2>1, InventoryKeep
    <2>2. CASE Fetch(c) BY <2>2, StoreSame DEF Fetch
    <2> QED BY <1>3, <2>1, <2>2
  <1>4. ASSUME NEW c \in Clients, PushStep(c)
        PROVE  KeepInv' /\ (Kept \/ (PutIndex(c) /\ Segment(PackName(c)) \in Range(root)))
    BY <1>4, PushKeep
  <1>5. ASSUME NEW c \in Collectors, GcFence(c) \/ GcReplay(c) \/ GcStep(c)
        PROVE  KeepInv' /\ Kept
    <2>1. c \in Clients BY DEF GcAssumption
    <2>2. CASE GcFence(c) \/ GcReplay(c) \/ GcCheck(c) \/ GcAbort(c) \/ GcDone(c)
      BY <2>2, StoreSame DEF GcFence, GcReplay, GcCheck, GcAbort, GcDone, packVars
    <2>3. CASE GcMark(c) \/ GcError(c) \/ GcCrash(c)
      BY <2>3, StoreSame DEF GcMark, GcError, GcCrash
    <2>4. CASE GcDelete(c) BY <2>1, <2>4, DeleteKeep
    <2> QED BY <1>5, <2>2, <2>3, <2>4 DEF GcStep
  <1> QED BY <1>1, <1>2, <1>3, <1>4, <1>5 DEF Next

(* Whatever the devices, the names of their operations, the settings and   *)
(* the bounds: what the segments of the index root list stays listed,      *)
(* unless a push puts a segment under the name of one that the root names  *)
(* (pack_index.rs 74-104, 456-479, 559-613, remote_maintenance.rs          *)
(* 1355-1450).                                                             *)
THEOREM ListingIsKept == Spec => IndexKeepsListing
  <1>1. Init => Inv /\ KeepInv BY InitInv, InitKeep
  <1>2. GcAssumption BY GcAssumption
  <1>3. Inv /\ KeepInv /\ [Next]_vars => Inv' /\ KeepInv' BY <1>2, NextInv, NextKeep
  <1>4. Inv /\ KeepInv /\ [Next]_vars =>
          [ \/ DOMAIN Merge(Listed) \subseteq DOMAIN Merge(Listed)'
            \/ \E c \in Clients : PutIndex(c) /\ Segment(PackName(c)) \in Range(root) ]_packVars
    <2> SUFFICES ASSUME Inv, KeepInv, [Next]_vars
                 PROVE  \/ DOMAIN Merge(Listed) \subseteq DOMAIN Merge(Listed)'
                        \/ \E c \in Clients : PutIndex(c) /\ Segment(PackName(c)) \in Range(root)
      OBVIOUS
    <2>1. Kept \/ \E c \in Clients : PutIndex(c) /\ Segment(PackName(c)) \in Range(root)
      BY <1>2, NextKeep
    <2>2. DOMAIN Merge(Listed) = Listing(Range(root)) BY ListingOfRoot
    <2>3. DOMAIN Merge(Listed)' = Listing(Range(root))' BY ListingOfRoot
    <2> QED BY <2>1, <2>2, <2>3 DEF Kept
  <1> QED BY <1>1, <1>3, <1>4, PTL DEF Spec, IndexKeepsListing

=============================================================================
