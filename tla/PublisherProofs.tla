-------------------------- MODULE PublisherProofs --------------------------
(***************************************************************************)
(* What holds of Publisher for any number of devices, commits, operations  *)
(* and time: the type invariant, the exclusive writer lease, the history   *)
(* of the remote ref and the ancestor closure.                             *)
(***************************************************************************)
EXTENDS Publisher, TLAPS

USE DEF At, GoTo

-----------------------------------------------------------------------------
(* Helpers.                                                                *)

\* The identifier of an operation is one.
LEMMA OpType == \A w \in Writers : n \in [Writers -> Nat] => Op(w) \in Ops
  BY DEF Op, Ops

\* The newest snapshot of a chain and its ancestors are commits.
LEMMA ChainParts ==
  \A c \in Chains : Snapshot(c) \subseteq Commits /\ Ancestors(c) \subseteq Commits
  BY DEF Chains, Snapshot, Ancestors

-----------------------------------------------------------------------------
(* The type invariant.                                                     *)

\* The initial state has the declared types.
LEMMA InitType == Init => TypeOK
  BY DEF Init, TypeOK, NoRef, Chains, Steps

\* The local repository and the start of an operation.
LEMMA RepositoryType ==
  ASSUME TypeOK, NEW w \in Writers, Repository(w)
  PROVE  TypeOK'
<1> USE DEF TypeOK, remote, op, repo
<1>1. CASE Commit(w)
  <2>1. <<w, made[w] + 1>> \in Commits
    BY DEF Commits
  <2>2. Append(local[w], <<w, made[w] + 1>>) \in Chains
    BY <2>1 DEF Chains
  <2> QED BY <1>1, <2>2 DEF Commit
<1>2. CASE Fetch(w)
  BY <1>2 DEF Fetch
<1>3. CASE LoseJournal(w)
  BY <1>3 DEF LoseJournal
<1> QED BY <1>1, <1>2, <1>3 DEF Repository

\* The steps before the lease keep the types.
LEMMA StartingType ==
  ASSUME TypeOK, NEW w \in Writers, Starting(w)
  PROVE  TypeOK'
<1> USE DEF TypeOK, remote, op, repo, Steps
<1>1. CASE StartPush(w)
  BY <1>1 DEF StartPush
<1>2. CASE ReadRefToPush(w)
  BY <1>2 DEF ReadRefToPush
<1>3. CASE CheckAncestors(w)
  BY <1>3 DEF CheckAncestors, Begin
<1>4. CASE StartResume(w)
  BY <1>4 DEF StartResume
<1>5. CASE ReadRefToResume(w)
  BY <1>5 DEF ReadRefToResume
<1>6. CASE ResumeUpload(w)
  <2>1. Snapshot(IF journal[w] = "planned" THEN planned[w] ELSE snap[w]) \subseteq Commits
    BY ChainParts
  <2> QED BY <1>6, <2>1 DEF ResumeUpload, Begin
<1> QED BY <1>1, <1>2, <1>3, <1>4, <1>5, <1>6 DEF Starting

\* A put replaces the lease file.
LEMMA PutLeaseType ==
  ASSUME TypeOK, NEW w \in Writers, NEW from, NEW to \in Steps, PutLease(w, from, to)
  PROVE  TypeOK'
  BY OpType DEF TypeOK, remote, op, repo, PutLease, LeaseFile

\* Reading the remote clock keeps the types.
LEMMA ReadProbeType ==
  ASSUME TypeOK, NEW w \in Writers, NEW from, NEW to \in Steps, ReadProbe(w, from, to)
  PROVE  TypeOK'
  BY DEF TypeOK, remote, op, repo, ReadProbe

\* Acquiring and taking over the lease keeps the types.
LEMMA LeasingType ==
  ASSUME TypeOK, NEW w \in Writers, Leasing(w)
  PROVE  TypeOK'
<1> USE DEF TypeOK, remote, op, repo, Steps
<1>1. CASE Acquire(w)
  BY <1>1, OpType DEF Acquire, LeaseFile
<1>2. CASE Probe(w)
  BY <1>2, ReadProbeType DEF Probe
<1>3. CASE StatLease(w)
  BY <1>3 DEF StatLease
<1>4. CASE InspectLease(w)
  BY <1>4 DEF InspectLease
<1>5. CASE BreakLease(w)
  BY <1>5 DEF BreakLease
<1>6. CASE Recreate(w)
  BY <1>6, PutLeaseType DEF Recreate
<1>7. CASE StatOwnLease(w)
  BY <1>7 DEF StatOwnLease
<1>8. CASE Stamp(w)
  BY <1>8, PutLeaseType DEF Stamp
<1> QED BY <1>1, <1>2, <1>3, <1>4, <1>5, <1>6, <1>7, <1>8 DEF Leasing

\* The two puts and the probe of a session go to steps that exist.
LEMMA AfterVerifyStep == \A w \in Writers : AfterVerify(w) \in Steps
  BY DEF AfterVerify, Steps

\* Rewriting the lease keeps the types.
LEMMA RenewType ==
  ASSUME TypeOK, NEW w \in Writers, Renew(w)
  PROVE  TypeOK'
<1>1. PutLease(w, "renew", "casRead") \/ PutLease(w, "renew", "verifyObjects")
  BY DEF Renew, AfterVerify, PutLease
<1>2. {"casRead", "verifyObjects"} \subseteq Steps
  BY DEF Steps
<1> QED BY <1>1, <1>2, PutLeaseType

\* The steps from the intent to the swap of the ref keep the types.
LEMMA PublishingType ==
  ASSUME TypeOK, NEW w \in Writers, Publishing(w)
  PROVE  TypeOK'
<1> USE DEF TypeOK, remote, op, repo, Steps
<1>1. CASE OpenIntent(w)
  <2>1. Intent(w) \in [op : Ops, expected : Nat, head : SUBSET Commits]
    BY OpType, ChainParts DEF Intent
  <2>2. Intent(w).op = Op(w)
    BY DEF Intent
  <2>3. (CASE mode[w] = "push"    -> "plan"
           [] mode[w] = "resume"  -> "verifyIntent"
           [] mode[w] = "matched" -> "close") \in Steps
    BY DEF Steps
  <2> QED BY <1>1, <2>1, <2>2, <2>3 DEF OpenIntent
<1>2. CASE PlanObjects(w)
  BY <1>2 DEF PlanObjects
<1>3. CASE Upload(w)
  BY <1>3, ChainParts DEF Upload
<1>4. CASE Beat(w)
  BY <1>4 DEF Beat
<1>5. CASE BeatPut(w)
  BY <1>5, PutLeaseType DEF BeatPut
<1>6. CASE VerifyIntent(w)
  BY <1>6 DEF VerifyIntent
<1>7. CASE VerifyRef(w)
  BY <1>7, AfterVerifyStep DEF VerifyRef
<1>8. CASE VerifyLease(w)
  BY <1>8, AfterVerifyStep DEF VerifyLease
<1>9. CASE RenewProbe(w)
  BY <1>9, ReadProbeType DEF RenewProbe
<1>10. CASE RenewStat(w)
  BY <1>10, AfterVerifyStep DEF RenewStat
<1>11. CASE Renew(w)
  BY <1>11, RenewType
<1>12. CASE VerifyObjects(w)
  BY <1>12 DEF VerifyObjects
<1>13. CASE CasRead(w)
  BY <1>13 DEF CasRead
<1>14. CASE CasWrite(w)
  BY <1>14 DEF CasWrite
<1> QED BY <1>1, <1>2, <1>3, <1>4, <1>5, <1>6, <1>7, <1>8, <1>9, <1>10, <1>11, <1>12, <1>13, <1>14 DEF Publishing

\* An operation that ends keeps nothing but its number.
LEMMA DoneType ==
  ASSUME TypeOK, NEW w \in Writers, Done(w), UNCHANGED <<now, ref, stored, local,
         made, journal, planned>>,
         lease' = lease \/ lease' = {},
         intents' \subseteq intents,
         expected' \in [Writers -> Nat]
  PROVE  TypeOK'
<1>1. lease' \subseteq lease /\ intents' \subseteq intents
  OBVIOUS
<1>2. /\ lease' \subseteq [op : Ops, at : Nat]
      /\ \A l, m \in lease' : l = m
      /\ intents' \subseteq [op : Ops, expected : Nat, head : SUBSET Commits]
      /\ \A i, j \in intents' : i.op = j.op => i = j
  <2> HIDE DEF Done
  <2> QED BY <1>1, Zenon DEF TypeOK
<1>3. << >> \in Chains
  BY DEF Chains
<1> QED BY <1>2, <1>3 DEF TypeOK, Done, Steps

\* Completing and cleaning up keeps the types.
LEMMA EndingType ==
  ASSUME TypeOK, NEW w \in Writers, Ending(w)
  PROVE  TypeOK'
<1> USE DEF remote, repo
<1>1. CASE Fail(w)
  <2>1. expected' \in [Writers -> Nat]
    BY <1>1 DEF Fail, TypeOK
  <2> QED BY <1>1, <2>1, DoneType DEF Fail
<1>2. CASE CleanIntent(w)
  BY <1>2 DEF CleanIntent, RemoveIntent, TypeOK, op, Steps
<1>3. CASE CleanLease(w)
  <2>1. CASE HeldBy(Op(w))
    BY <1>3, <2>1 DEF CleanLease, TypeOK, op, Steps
  <2>2. CASE ~HeldBy(Op(w))
    BY <1>3, <2>2, DoneType DEF CleanLease, TypeOK
  <2> QED BY <2>1, <2>2
<1>4. CASE CleanDelete(w)
  BY <1>4, DoneType DEF CleanDelete, TypeOK
<1>5. CASE Close(w)
  <2>1. CASE UseLease
    BY <1>5, <2>1 DEF Close, RemoveIntent, TypeOK, op, Steps
  <2>2. CASE ~UseLease
    BY <1>5, <2>2, DoneType DEF Close, RemoveIntent, TypeOK
  <2> QED BY <2>1, <2>2
<1>6. CASE Release(w)
  BY <1>6, DoneType DEF Release, TypeOK
<1> QED BY <1>1, <1>2, <1>3, <1>4, <1>5, <1>6 DEF Ending

\* Every step keeps the types.
LEMMA StepType == TypeOK /\ [Next]_vars => TypeOK'
<1> SUFFICES ASSUME TypeOK, [Next]_vars PROVE TypeOK'
  OBVIOUS
<1>1. CASE Tick
  BY <1>1 DEF Tick, TypeOK, repo, op
<1>2. CASE UNCHANGED vars
  BY <1>2 DEF vars, remote, repo, op, TypeOK
<1>3. ASSUME NEW w \in Writers,
             Repository(w) \/ Starting(w) \/ Leasing(w) \/ Publishing(w) \/ Ending(w)
      PROVE  TypeOK'
  BY <1>3, RepositoryType, StartingType, LeasingType, PublishingType, EndingType
<1> QED BY <1>1, <1>2, <1>3 DEF Next

\* Every reachable state has the shape TypeOK describes; the lease file and
\* the intent of an operation are single files (publisher.rs).
THEOREM TypeCorrect == Spec => []TypeOK
  BY InitType, StepType, PTL DEF Spec

-----------------------------------------------------------------------------
(* The writer lease.                                                       *)

\* One step of one device.
DeviceStep(w) ==
  Repository(w) \/ Starting(w) \/ Leasing(w) \/ Publishing(w) \/ Ending(w)

\* What a step of a device leaves alone in the others.
OthersKept(w) ==
  \A v \in Writers \ {w} :
    /\ pc'[v] = pc[v] /\ n'[v] = n[v] /\ mode'[v] = mode[v]
    /\ snap'[v] = snap[v] /\ next'[v] = next[v] /\ observed'[v] = observed[v]
    /\ local'[v] = local[v] /\ expected'[v] = expected[v]

\* What a step of one device leaves alone of the others.
LEMMA Frame ==
  ASSUME TypeOK, NEW w \in Writers, DeviceStep(w)
  PROVE  OthersKept(w)
<1> USE DEF TypeOK, OthersKept, remote, op, repo
<1>1. CASE Commit(w)
  BY <1>1 DEF Commit
<1>2. CASE Fetch(w)
  BY <1>2 DEF Fetch
<1>3. CASE LoseJournal(w)
  BY <1>3 DEF LoseJournal
<1>4. CASE StartPush(w)
  BY <1>4 DEF StartPush
<1>5. CASE ReadRefToPush(w)
  BY <1>5 DEF ReadRefToPush
<1>6. CASE CheckAncestors(w)
  BY <1>6 DEF CheckAncestors
<1>7. CASE StartResume(w)
  BY <1>7 DEF StartResume
<1>8. CASE ReadRefToResume(w)
  BY <1>8 DEF ReadRefToResume
<1>9. CASE ResumeUpload(w)
  BY <1>9 DEF ResumeUpload
<1>10. CASE Acquire(w)
  BY <1>10 DEF Acquire
<1>11. CASE Probe(w)
  BY <1>11 DEF Probe, ReadProbe
<1>12. CASE StatLease(w)
  BY <1>12 DEF StatLease
<1>13. CASE InspectLease(w)
  BY <1>13 DEF InspectLease
<1>14. CASE BreakLease(w)
  BY <1>14 DEF BreakLease
<1>15. CASE Recreate(w)
  BY <1>15 DEF Recreate, PutLease
<1>16. CASE StatOwnLease(w)
  BY <1>16 DEF StatOwnLease
<1>17. CASE Stamp(w)
  BY <1>17 DEF Stamp, PutLease
<1>18. CASE OpenIntent(w)
  BY <1>18 DEF OpenIntent
<1>19. CASE PlanObjects(w)
  BY <1>19 DEF PlanObjects
<1>20. CASE Upload(w)
  BY <1>20 DEF Upload
<1>21. CASE Beat(w)
  BY <1>21 DEF Beat
<1>22. CASE BeatPut(w)
  BY <1>22 DEF BeatPut, PutLease
<1>23. CASE VerifyIntent(w)
  BY <1>23 DEF VerifyIntent
<1>24. CASE VerifyRef(w)
  BY <1>24 DEF VerifyRef
<1>25. CASE VerifyLease(w)
  BY <1>25 DEF VerifyLease
<1>26. CASE RenewProbe(w)
  BY <1>26 DEF RenewProbe, ReadProbe
<1>27. CASE RenewStat(w)
  BY <1>27 DEF RenewStat
<1>28. CASE Renew(w)
  BY <1>28 DEF Renew, PutLease
<1>29. CASE VerifyObjects(w)
  BY <1>29 DEF VerifyObjects
<1>30. CASE CasRead(w)
  BY <1>30 DEF CasRead
<1>31. CASE CasWrite(w)
  BY <1>31 DEF CasWrite
<1>32. CASE Fail(w)
  BY <1>32 DEF Fail, Done
<1>33. CASE CleanIntent(w)
  BY <1>33 DEF CleanIntent
<1>34. CASE CleanLease(w)
  BY <1>34 DEF CleanLease, Done
<1>35. CASE CleanDelete(w)
  BY <1>35 DEF CleanDelete, Done
<1>36. CASE Close(w)
  BY <1>36 DEF Close, Done
<1>37. CASE Release(w)
  BY <1>37 DEF Release, Done
<1> QED BY <1>1, <1>2, <1>3, <1>4, <1>5, <1>6, <1>7, <1>8, <1>9, <1>10,
         <1>11, <1>12, <1>13, <1>14, <1>15, <1>16, <1>17, <1>18, <1>19,
         <1>20, <1>21, <1>22, <1>23, <1>24, <1>25, <1>26, <1>27, <1>28,
         <1>29, <1>30, <1>31, <1>32, <1>33, <1>34, <1>35, <1>36, <1>37
  DEF DeviceStep, Repository, Starting, Leasing, Publishing, Ending

\* Only the start of an operation makes an idle device busy.
LEMMA BusyStart ==
  ASSUME TypeOK, NEW w \in Writers, DeviceStep(w), pc[w] = "idle", pc'[w] # "idle"
  PROVE  MayStart(w)
<1>1. CASE Repository(w)
  BY <1>1 DEF Repository, Commit, Fetch, LoseJournal
<1>2. CASE Starting(w)
  BY <1>2 DEF Starting, StartPush, ReadRefToPush, CheckAncestors, StartResume,
              ReadRefToResume, ResumeUpload
<1>3. CASE Leasing(w)
  BY <1>3 DEF Leasing, Acquire, Probe, ReadProbe, StatLease, InspectLease,
              BreakLease, Recreate, StatOwnLease, Stamp, PutLease
<1>4. CASE Publishing(w)
  BY <1>4 DEF Publishing, OpenIntent, PlanObjects, Upload, Beat, BeatPut,
              VerifyIntent, VerifyRef, VerifyLease, RenewProbe, RenewStat,
              Renew, VerifyObjects, CasRead, CasWrite, PutLease, ReadProbe
<1>5. CASE Ending(w)
  BY <1>5 DEF Ending, Fail, CleanIntent, CleanLease, CleanDelete, Close, Release
<1> QED BY <1>1, <1>2, <1>3, <1>4, <1>5 DEF DeviceStep

\* Operations that may not overlap do not begin to.
LEMMA OneAtATimeStep ==
  ASSUME TypeOK, OneAtATime, NEW w \in Writers, DeviceStep(w)
  PROVE  OneAtATime'
<1> SUFFICES ASSUME ~Overlap, NEW u \in Writers, NEW v \in Writers,
                    pc'[u] # "idle", pc'[v] # "idle"
             PROVE  u = v
  BY DEF OneAtATime
<1>1. \A x \in Writers \ {w} : pc'[x] = pc[x]
  BY Frame DEF OthersKept
<1>2. CASE pc[w] # "idle"
  BY <1>1, <1>2 DEF OneAtATime
<1>3. CASE pc[w] = "idle" /\ pc'[w] # "idle"
  BY <1>1, <1>3, BusyStart DEF MayStart
<1>4. CASE pc[w] = "idle" /\ pc'[w] = "idle"
  BY <1>1, <1>4 DEF OneAtATime
<1> QED BY <1>2, <1>3, <1>4

\* Within one expiry period of the remote clock no lease is ever stale.
LEMMA NeverStale ==
  ASSUME TypeOK, NoTakeover, NEW w \in Writers, NEW l \in lease, MaxTime <= Expiry
  PROVE  ~Stale(l.at, observed[w])
  BY ConstantsAssumption DEF TypeOK, NoTakeover, Stale

\* While no lease can be stale nobody reaches the takeover path.
LEMMA NoTakeoverStep ==
  ASSUME TypeOK, NoTakeover, NEW w \in Writers, DeviceStep(w)
  PROVE  NoTakeover'
<1> DEFINE Taking == {"inspect", "break", "recreate", "renew"}
<1>1. now' = now
  BY DEF DeviceStep, Repository, Commit, Fetch, LoseJournal, Starting, StartPush,
     ReadRefToPush, CheckAncestors, StartResume, ReadRefToResume, ResumeUpload,
     Leasing, Acquire, Probe, ReadProbe, StatLease, InspectLease,
     BreakLease, Recreate, StatOwnLease, Stamp, PutLease,
     Publishing, OpenIntent, PlanObjects, Upload, Beat, BeatPut,
     VerifyIntent, VerifyRef, VerifyLease, RenewProbe, RenewStat,
     Renew, VerifyObjects, CasRead, CasWrite,
     Ending, Fail, CleanIntent, CleanLease, CleanDelete, Close, Release, remote
<1>2. observed'[w] \in {observed[w], now, 0}
  <2> USE DEF TypeOK, op
  <2>1. CASE Repository(w)
    BY <2>1 DEF Repository, Commit, Fetch, LoseJournal
  <2>2. CASE Starting(w)
    BY <2>2 DEF Starting, StartPush, ReadRefToPush, CheckAncestors, StartResume,
                ReadRefToResume, ResumeUpload
  <2>3. CASE Leasing(w)
    BY <2>3 DEF Leasing, Acquire, Probe, ReadProbe, StatLease, InspectLease,
                BreakLease, Recreate, StatOwnLease, Stamp, PutLease
  <2>4. CASE Publishing(w)
    BY <2>4 DEF Publishing, OpenIntent, PlanObjects, Upload, Beat, BeatPut,
                VerifyIntent, VerifyRef, VerifyLease, RenewProbe, RenewStat,
                Renew, VerifyObjects, CasRead, CasWrite, PutLease, ReadProbe
  <2>5. CASE Ending(w)
    BY <2>5 DEF Ending, Fail, CleanIntent, CleanLease, CleanDelete, Close, Release, Done
  <2> QED BY <2>1, <2>2, <2>3, <2>4, <2>5 DEF DeviceStep
<1>3. MaxTime <= Expiry => pc'[w] \notin Taking
  <2> SUFFICES ASSUME MaxTime <= Expiry PROVE pc'[w] \notin Taking
    OBVIOUS
  <2>1. pc[w] \notin Taking
    BY DEF NoTakeover
  <2>2. ~StatLease(w) /\ ~InspectLease(w) /\ ~BreakLease(w) /\ ~Renew(w)
    BY <2>1, NeverStale DEF StatLease, InspectLease, BreakLease, Renew, PutLease
  <2>3. RenewStat(w) => pc'[w] = AfterVerify(w)
    BY NeverStale DEF RenewStat, TypeOK
  <2> USE DEF TypeOK, AfterVerify, Begin
  <2>4. CASE Repository(w)
    BY <2>1, <2>4 DEF Repository, Commit, Fetch, LoseJournal
  <2>5. CASE Starting(w)
    BY <2>5 DEF Starting, StartPush, ReadRefToPush, CheckAncestors, StartResume,
                ReadRefToResume, ResumeUpload
  <2>6. CASE Leasing(w)
    BY <2>2, <2>6 DEF Leasing, Acquire, Probe, ReadProbe, Recreate, StatOwnLease,
                      Stamp, PutLease
  <2>7. CASE Publishing(w)
    BY <2>2, <2>3, <2>7 DEF Publishing, OpenIntent, PlanObjects, Upload, Beat,
         BeatPut, VerifyIntent, VerifyRef, VerifyLease, RenewProbe,
         VerifyObjects, CasRead, CasWrite, PutLease, ReadProbe
  <2>8. CASE Ending(w)
    BY <2>8 DEF Ending, Fail, CleanIntent, CleanLease, CleanDelete, Close, Release, Done
  <2> QED BY <2>4, <2>5, <2>6, <2>7, <2>8 DEF DeviceStep
<1>4. \A v \in Writers \ {w} : pc'[v] = pc[v] /\ observed'[v] = observed[v]
  BY Frame DEF OthersKept
<1>5. now <= MaxTime /\ 0 <= MaxTime /\ \A v \in Writers : observed[v] <= MaxTime
  BY ConstantsAssumption DEF NoTakeover
<1> QED BY <1>1, <1>2, <1>3, <1>4, <1>5 DEF NoTakeover

\* A device that owns the lease, or is about to delete or recreate a stale
\* one, is the only one in that position.
LEMMA Alone ==
  ASSUME Environment, UseLease, TypeOK, LeaseInv,
         NEW w \in Writers, pc[w] \in Owning \cup {"break", "recreate"},
         NEW v \in Writers \ {w}
  PROVE  pc[v] \notin Owning
<1>1. CASE ~Overlap
  BY <1>1 DEF LeaseInv, OneAtATime, Owning, Holding
<1>2. CASE ~SharedOp /\ MaxTime <= Expiry
  <2>1. pc[w] \in Owning
    BY <1>2 DEF LeaseInv, NoTakeover
  <2>2. SUFFICES ASSUME pc[v] \in Owning PROVE FALSE
    OBVIOUS
  <2>3. Op(v) = Op(w)
    BY <2>1, <2>2 DEF LeaseInv, Exclusive
  <2> QED BY <1>2, <2>3 DEF Op
<1> QED BY <1>1, <1>2 DEF Environment

\* A step that leaves the lease alone.
LEMMA ExclusiveMove ==
  ASSUME TypeOK, Exclusive, NEW w \in Writers, OthersKept(w),
         lease' = lease,
         UseLease /\ pc'[w] \in Owning => /\ pc[w] \in Owning \/ HeldBy(Op(w))
                              /\ n'[w] = n[w]
  PROVE  Exclusive'
<1> SUFFICES ASSUME UseLease, NEW v \in Writers, pc'[v] \in Owning
             PROVE  lease # {} /\ \A l \in lease : l.op = Op(v)'
  BY DEF Exclusive
<1>1. pc[v] \in Owning \/ HeldBy(Op(v))
  BY DEF OthersKept
<1>2. Op(v)' = Op(v)
  BY DEF OthersKept, Op
<1>3. CASE pc[v] \in Owning
  BY <1>2, <1>3 DEF Exclusive
<1>4. CASE HeldBy(Op(v))
  BY <1>2, <1>4 DEF HeldBy, TypeOK
<1> QED BY <1>1, <1>3, <1>4

\* A step that puts the device's own lease, or removes the lease.
LEMMA ExclusivePut ==
  ASSUME Exclusive, NEW w \in Writers, OthersKept(w),
         UseLease => \A v \in Writers \ {w} : pc[v] \notin Owning,
         \/ lease' = LeaseFile(Op(w)) /\ n'[w] = n[w]
         \/ pc'[w] \notin Owning
  PROVE  Exclusive'
<1> SUFFICES ASSUME UseLease, NEW v \in Writers, pc'[v] \in Owning
             PROVE  lease' # {} /\ \A l \in lease' : l.op = Op(v)'
  BY DEF Exclusive
<1>1. v = w
  BY DEF OthersKept
<1>2. lease' = LeaseFile(Op(w)) /\ Op(w)' = Op(w)
  BY <1>1 DEF Op
<1> QED BY <1>1, <1>2 DEF LeaseFile

\* An owner's lease stays its own through every step of a device that has no
\* other owner beside it when it writes the lease file.
LEMMA ExclusiveStep ==
  ASSUME TypeOK, Exclusive, NEW w \in Writers, DeviceStep(w),
         UseLease /\ (pc[w] \in Owning \/ BreakLease(w)) =>
           \A v \in Writers \ {w} : pc[v] \notin Owning
  PROVE  Exclusive'
<1>1. OthersKept(w)
  BY Frame
<1>2. Exclusive
  OBVIOUS
<1> USE DEF Owning, Holding
<1>3. CASE Repository(w) \/ Starting(w)
  <2>1. lease' = lease
    BY <1>3 DEF Repository, Commit, Fetch, LoseJournal, Starting, StartPush,
         ReadRefToPush, CheckAncestors, StartResume, ReadRefToResume,
         ResumeUpload, remote
  <2>2. UseLease /\ pc'[w] \in Owning => pc[w] \in Owning /\ n'[w] = n[w]
    <3>1. CASE Repository(w)
      BY <3>1 DEF Repository, Commit, Fetch, LoseJournal, op
    <3>2. CASE Starting(w)
      BY <3>2 DEF Starting, StartPush, ReadRefToPush, CheckAncestors, StartResume,
                  ReadRefToResume, ResumeUpload, TypeOK, Begin
    <3> QED BY <1>3, <3>1, <3>2
  <2> QED BY <1>1, <1>2, <2>1, <2>2, ExclusiveMove
<1>4. CASE Acquire(w)
  <2>1. CASE lease = {}
    <3>1. UseLease => \A v \in Writers : pc[v] \notin Owning
      BY <1>2, <2>1 DEF Exclusive
    <3>2. lease' = LeaseFile(Op(w)) /\ n'[w] = n[w]
      BY <1>4, <2>1 DEF Acquire, op
    <3> QED BY <1>1, <1>2, <3>1, <3>2, ExclusivePut
  <2>2. CASE lease # {}
    <3>1. lease' = lease /\ pc'[w] = "probe"
      BY <1>4, <2>2 DEF Acquire, TypeOK
    <3> QED BY <1>1, <1>2, <3>1, ExclusiveMove
  <2> QED BY <2>1, <2>2
<1>5. CASE Recreate(w) \/ Stamp(w) \/ BeatPut(w) \/ Renew(w)
  <2>1. pc[w] \in Owning \/ lease = {}
    BY <1>5 DEF Recreate, Stamp, BeatPut, Renew, PutLease
  <2>2. lease' = LeaseFile(Op(w)) /\ n'[w] = n[w]
    BY <1>5 DEF Recreate, Stamp, BeatPut, Renew, PutLease, op
  <2>3. UseLease => \A v \in Writers \ {w} : pc[v] \notin Owning
    BY <2>1 DEF Exclusive
  <2> QED BY <1>1, <1>2, <2>2, <2>3, ExclusivePut
<1>6. CASE BreakLease(w) \/ CleanDelete(w) \/ Release(w)
  <2>1. (pc[w] \in Owning \/ BreakLease(w)) /\ pc'[w] \notin Owning
    BY <1>6 DEF BreakLease, CleanDelete, Release, Done, TypeOK
  <2>2. UseLease => \A v \in Writers \ {w} : pc[v] \notin Owning
    BY <2>1
  <2> QED BY <1>1, <1>2, <2>1, <2>2, ExclusivePut
<1>7. CASE Probe(w) \/ StatLease(w) \/ InspectLease(w) \/ StatOwnLease(w)
  <2>1. lease' = lease /\ n'[w] = n[w]
    BY <1>7 DEF Probe, ReadProbe, StatLease, InspectLease, StatOwnLease, remote, op
  <2>2. pc'[w] \in Owning => pc[w] \in Owning
    BY <1>7 DEF Probe, ReadProbe, StatLease, InspectLease, StatOwnLease, TypeOK
  <2> QED BY <1>1, <1>2, <2>1, <2>2, ExclusiveMove
<1>8. CASE Fail(w) \/ CleanIntent(w) \/ CleanLease(w) \/ Close(w)
  <2>1. lease' = lease /\ n'[w] = n[w]
    BY <1>8 DEF Fail, CleanIntent, CleanLease, Close, Done, remote, op
  <2>2. UseLease /\ pc'[w] \in Owning => pc[w] \in Owning \/ HeldBy(Op(w))
    BY <1>8 DEF Fail, CleanIntent, CleanLease, Close, Done, TypeOK
  <2> QED BY <1>1, <1>2, <2>1, <2>2, ExclusiveMove
<1>9. CASE Publishing(w) /\ ~BeatPut(w) /\ ~Renew(w)
  <2>1. lease' = lease /\ n'[w] = n[w]
    BY <1>9 DEF Publishing, OpenIntent, PlanObjects, Upload, Beat, VerifyIntent,
         VerifyRef, VerifyLease, RenewProbe, RenewStat, VerifyObjects, CasRead,
         CasWrite, ReadProbe, remote, op
  <2>2. pc[w] \in Owning
    BY <1>9 DEF Publishing, OpenIntent, PlanObjects, Upload, Beat, VerifyIntent,
         VerifyRef, VerifyLease, RenewProbe, RenewStat, VerifyObjects, CasRead,
         CasWrite, ReadProbe
  <2> QED BY <1>1, <1>2, <2>1, <2>2, ExclusiveMove
<1> QED BY <1>3, <1>4, <1>5, <1>6, <1>7, <1>8, <1>9
        DEF DeviceStep, Leasing, Ending, Publishing

\* LeaseInv holds initially: nobody runs and there is no lease.
LEMMA LeaseInit == Init => LeaseInv
  BY ConstantsAssumption DEF Init, LeaseInv, OneAtATime, NoTakeover, Exclusive,
     Owning, Holding

\* Every step keeps LeaseInv.
LEMMA LeaseStep ==
  ASSUME Environment
  PROVE  TypeOK /\ LeaseInv /\ [Next]_vars => LeaseInv'
<1> SUFFICES ASSUME TypeOK, LeaseInv, [Next]_vars PROVE LeaseInv'
  OBVIOUS
<1>1. CASE Tick
  <2>1. now' <= MaxTime /\ UNCHANGED <<pc, n, lease, observed>>
    BY <1>1, ConstantsAssumption DEF Tick, TypeOK, op
  <2> QED BY <2>1 DEF LeaseInv, OneAtATime, NoTakeover, Exclusive, Op
<1>2. CASE UNCHANGED vars
  BY <1>2 DEF vars, remote, op, LeaseInv, OneAtATime, NoTakeover, Exclusive, Op
<1>3. ASSUME NEW w \in Writers, DeviceStep(w)
      PROVE  LeaseInv'
  <2>1. OneAtATime'
    BY <1>3, OneAtATimeStep DEF LeaseInv
  <2>2. NoTakeover'
    BY <1>3, NoTakeoverStep DEF LeaseInv
  <2>3. ASSUME UseLease, pc[w] \in Owning \/ BreakLease(w), NEW v \in Writers \ {w}
        PROVE  pc[v] \notin Owning
    <3>1. pc[w] \in Owning \cup {"break", "recreate"}
      BY <2>3 DEF BreakLease
    <3> QED BY <2>3, <3>1, Alone
  <2>4. Exclusive'
    BY <1>3, <2>3, ExclusiveStep DEF LeaseInv
  <2> QED BY <2>1, <2>2, <2>4 DEF LeaseInv
<1> QED BY <1>1, <1>2, <1>3 DEF Next, DeviceStep

\* In the environment of the theorems an operation that took the lease keeps
\* it until it releases it itself, through uploads, heartbeats and the
\* crashes and resumes of the others (publisher.rs).
THEOREM LeaseIsHeld ==
  ASSUME Environment
  PROVE  Spec => []LeaseHeld
<1>1. Init => LeaseInv
  BY LeaseInit
<1>2. TypeOK /\ LeaseInv /\ [Next]_vars => LeaseInv'
  BY LeaseStep
<1>3. LeaseInv => LeaseHeld
  BY DEF LeaseInv, Exclusive, LeaseHeld, Owning
<1> QED BY <1>1, <1>2, <1>3, TypeCorrect, PTL DEF Spec

\* The steps that write the lease file.
LEMMA LeaseWrites ==
  ASSUME TypeOK, NEW w \in Writers, DeviceStep(w), lease' # lease
  PROVE  \/ pc[w] \in {"acquire", "recreate"} /\ lease = {} /\ lease' = LeaseFile(Op(w))
         \/ pc[w] \in {"stamp", "beatPut", "renew"} /\ lease' = LeaseFile(Op(w))
         \/ pc[w] \in {"break", "release", "cleanDelete"} /\ lease' = {}
<1>1. ~Repository(w) /\ ~Starting(w)
  BY DEF Repository, Commit, Fetch, LoseJournal, Starting, StartPush, ReadRefToPush,
     CheckAncestors, StartResume, ReadRefToResume, ResumeUpload, remote
<1>2. CASE Leasing(w)
  BY <1>2 DEF Leasing, Acquire, Probe, ReadProbe, StatLease, InspectLease, BreakLease,
     Recreate, StatOwnLease, Stamp, PutLease, remote
<1>3. CASE Publishing(w)
  BY <1>3 DEF Publishing, OpenIntent, PlanObjects, Upload, Beat, BeatPut, VerifyIntent,
     VerifyRef, VerifyLease, RenewProbe, RenewStat, Renew, VerifyObjects, CasRead,
     CasWrite, ReadProbe, PutLease, remote
<1>4. CASE Ending(w)
  BY <1>4 DEF Ending, Fail, CleanIntent, CleanLease, CleanDelete, Close, Release, remote
<1> QED BY <1>1, <1>2, <1>3, <1>4 DEF DeviceStep

\* Where the remote's time is read, and where a stale lease is found.
LEMMA Observes ==
  ASSUME TypeOK, NEW w \in Writers, DeviceStep(w)
  PROVE  /\ now' = now /\ observed'[w] \in {observed[w], now, 0}
         /\ pc'[w] \in {"inspect", "break"} =>
              /\ lease' = lease /\ observed'[w] = observed[w]
              /\ \/ pc[w] \in {"inspect", "break"}
                 \/ \E l \in lease : Stale(l.at, observed[w])
<1> USE DEF TypeOK, op, remote
<1>1. CASE Repository(w)
  BY <1>1 DEF Repository, Commit, Fetch, LoseJournal
<1>2. CASE Starting(w)
  BY <1>2 DEF Starting, StartPush, ReadRefToPush, CheckAncestors, StartResume,
              ReadRefToResume, ResumeUpload, Begin
<1>3. CASE Leasing(w)
  BY <1>3 DEF Leasing, Acquire, Probe, ReadProbe, StatLease, InspectLease,
              BreakLease, Recreate, StatOwnLease, Stamp, PutLease
<1>4. CASE Publishing(w)
  BY <1>4 DEF Publishing, OpenIntent, PlanObjects, Upload, Beat, BeatPut,
              VerifyIntent, VerifyRef, VerifyLease, RenewProbe, RenewStat,
              Renew, VerifyObjects, CasRead, CasWrite, PutLease, ReadProbe, AfterVerify
<1>5. CASE Ending(w)
  BY <1>5 DEF Ending, Fail, CleanIntent, CleanLease, CleanDelete, Close, Release, Done
<1> QED BY <1>1, <1>2, <1>3, <1>4, <1>5 DEF DeviceStep

\* What is there when a takeover is under way was found stale, or put since.
LEMMA FoundStaleStep ==
  ASSUME TypeOK, FoundStale, NEW w \in Writers, DeviceStep(w)
  PROVE  FoundStale'
<1>1. now' = now /\ now \in Nat
  BY Observes DEF TypeOK
<1>2. \A v \in Writers \ {w} : pc'[v] = pc[v] /\ observed'[v] = observed[v]
  BY Frame DEF OthersKept
<1>3. ASSUME NEW v \in Writers
      PROVE  observed'[v] <= now
  <2>1. observed'[w] <= now
    BY <1>1, Observes DEF FoundStale
  <2> QED BY <1>2, <2>1 DEF FoundStale
<1>4. ASSUME NEW v \in Writers, pc'[v] \in {"inspect", "break"}, NEW l \in lease'
      PROVE  l.at >= observed'[v] \/ Stale(l.at, observed'[v])
  <2>1. CASE v = w
    <3>1. lease' = lease /\ observed'[w] = observed[w]
      BY <1>4, <2>1, Observes
    <3>2. CASE pc[w] \in {"inspect", "break"}
      BY <1>4, <2>1, <3>1, <3>2 DEF FoundStale
    <3>3. CASE \E m \in lease : Stale(m.at, observed[w])
      BY <1>4, <2>1, <3>1, <3>3 DEF TypeOK
    <3> QED BY <1>4, <2>1, <3>2, <3>3, Observes
  <2>2. CASE v # w /\ lease' = lease
    BY <1>2, <1>4, <2>2 DEF FoundStale
  <2>3. CASE v # w /\ lease' # lease
    <3>1. lease' = LeaseFile(Op(w))
      BY <1>4, <2>3, LeaseWrites
    <3>2. l.at = now
      BY <1>4, <3>1 DEF LeaseFile
    <3>3. observed'[v] <= now /\ observed'[v] \in Nat
      BY <1>2, <2>3 DEF FoundStale, TypeOK
    <3> QED BY <1>1, <3>2, <3>3
  <2> QED BY <2>1, <2>2, <2>3
<1> QED BY <1>1, <1>3, <1>4 DEF FoundStale

LEMMA FoundStaleNext == TypeOK /\ FoundStale /\ [Next]_vars => FoundStale'
<1> SUFFICES ASSUME TypeOK, FoundStale, [Next]_vars PROVE FoundStale'
  OBVIOUS
<1>1. CASE Tick
  <2>1. now' = now + 1 /\ UNCHANGED <<lease, pc, observed>>
    BY <1>1 DEF Tick, op
  <2> QED BY <2>1 DEF FoundStale, TypeOK
<1>2. CASE UNCHANGED vars
  BY <1>2 DEF vars, remote, op, FoundStale
<1>3. ASSUME NEW w \in Writers, DeviceStep(w) PROVE FoundStale'
  BY <1>3, FoundStaleStep
<1> QED BY <1>1, <1>2, <1>3 DEF Next, DeviceStep

\* A device that does not resume never cleans up after an operation.
ResumeSteps == {"resumeUpload", "cleanIntent", "cleanLease", "cleanDelete"}

PushesOnly ==
  ~ResumeEnabled => \A w \in Writers : mode[w] = "push" /\ pc[w] \notin ResumeSteps

LEMMA PushesOnlyStep ==
  ASSUME TypeOK, PushesOnly, NEW w \in Writers, DeviceStep(w)
  PROVE  PushesOnly'
<1> SUFFICES ASSUME ~ResumeEnabled PROVE mode'[w] = "push" /\ pc'[w] \notin ResumeSteps
  BY Frame DEF PushesOnly, OthersKept
<1>1. mode[w] = "push" /\ pc[w] \notin ResumeSteps
  BY DEF PushesOnly
<1> USE DEF TypeOK, ResumeSteps, op
<1>2. CASE Repository(w)
  BY <1>1, <1>2 DEF Repository, Commit, Fetch, LoseJournal
<1>3. CASE Starting(w)
  BY <1>1, <1>3 DEF Starting, StartPush, ReadRefToPush, CheckAncestors, StartResume,
              ReadRefToResume, ResumeUpload, Begin
<1>4. CASE Leasing(w)
  BY <1>1, <1>4 DEF Leasing, Acquire, Probe, ReadProbe, StatLease, InspectLease,
              BreakLease, Recreate, StatOwnLease, Stamp, PutLease
<1>5. CASE Publishing(w)
  BY <1>1, <1>5 DEF Publishing, OpenIntent, PlanObjects, Upload, Beat, BeatPut,
              VerifyIntent, VerifyRef, VerifyLease, RenewProbe, RenewStat,
              Renew, VerifyObjects, CasRead, CasWrite, PutLease, ReadProbe, AfterVerify
<1>6. CASE Ending(w)
  BY <1>1, <1>6 DEF Ending, Fail, CleanIntent, CleanLease, CleanDelete, Close, Release, Done
<1> QED BY <1>2, <1>3, <1>4, <1>5, <1>6 DEF DeviceStep

\* How a device comes to own the lease: where there is none, or to delete
\* the one its operation left.
LEMMA BecomesOwner ==
  ASSUME TypeOK, UseLease, NEW w \in Writers, DeviceStep(w),
         pc[w] \notin Owning, pc'[w] \in Owning
  PROVE  lease = {} \/ (pc[w] = "cleanLease" /\ HeldBy(Op(w)))
<1> USE DEF TypeOK, Owning, Holding
<1>1. CASE Repository(w)
  BY <1>1 DEF Repository, Commit, Fetch, LoseJournal
<1>2. CASE Starting(w)
  BY <1>2 DEF Starting, StartPush, ReadRefToPush, CheckAncestors, StartResume,
              ReadRefToResume, ResumeUpload, Begin
<1>3. CASE Leasing(w)
  BY <1>3 DEF Leasing, Acquire, Probe, ReadProbe, StatLease, InspectLease,
              BreakLease, Recreate, StatOwnLease, Stamp, PutLease
<1>4. ~Publishing(w)
  BY DEF Publishing, OpenIntent, PlanObjects, Upload, Beat, BeatPut,
              VerifyIntent, VerifyRef, VerifyLease, RenewProbe, RenewStat,
              Renew, VerifyObjects, CasRead, CasWrite, PutLease, ReadProbe
<1>5. CASE Ending(w)
  BY <1>5 DEF Ending, Fail, CleanIntent, CleanLease, CleanDelete, Close, Release, Done
<1> QED BY <1>1, <1>2, <1>3, <1>4, <1>5 DEF DeviceStep

\* One holder stays one through every step that is no takeover.
LEMMA OneHolderStep ==
  ASSUME TypeOK, PushesOnly, OneHolder, NEW w \in Writers, DeviceStep(w), ~BreakLease(w)
  PROVE  OneHolder'
<1>1. Exclusive'
  BY ExclusiveStep DEF OneHolder
<1>2. ASSUME UseLease, pc'[w] \in Owning, NEW v \in Writers \ {w}
      PROVE  pc[v] \notin Owning
  <2>1. CASE pc[w] \in Owning
    BY <1>2, <2>1 DEF OneHolder
  <2>2. CASE lease = {}
    BY <1>2, <2>2 DEF OneHolder, Exclusive
  <2>3. CASE pc[w] = "cleanLease" /\ HeldBy(Op(w))
    <3>1. ~SharedOp
      BY <2>3, ConstantsAssumption DEF PushesOnly, ResumeSteps
    <3>2. Op(v) # Op(w)
      BY <3>1 DEF Op
    <3> QED BY <1>2, <2>3, <3>2 DEF OneHolder, Exclusive, HeldBy
  <2> QED BY <1>2, <2>1, <2>2, <2>3, BecomesOwner
<1>3. \A v \in Writers \ {w} : pc'[v] = pc[v]
  BY Frame DEF OthersKept
<1> QED BY <1>1, <1>2, <1>3 DEF OneHolder

\* Whatever operations overlap, resume or share an identifier: as long as one
\* operation has the lease only a takeover ends that, and a takeover deletes
\* what was stale when the clock was read, or was put since (publisher.rs:
\* begin, heartbeat, pre_commit_verify, complete).
THEOREM TakeoversAreOfStale == Spec => LeaseLostToTakeover
<1> DEFINE Kept ==
      /\ OneHolder => OneHolder' \/ \E w \in Writers : BreakLease(w)
      /\ \A w \in Writers : BreakLease(w) =>
           \A l \in lease : l.at >= observed[w] \/ Stale(l.at, observed[w])
<1>1. Init => FoundStale /\ PushesOnly
  BY DEF Init, FoundStale, PushesOnly, ResumeSteps
<1>2. TypeOK /\ FoundStale /\ PushesOnly /\ [Next]_vars => FoundStale' /\ PushesOnly'
  <2> SUFFICES ASSUME TypeOK, PushesOnly, [Next]_vars PROVE PushesOnly'
    BY FoundStaleNext
  <2>1. CASE Tick \/ UNCHANGED vars
    BY <2>1 DEF Tick, vars, op, PushesOnly
  <2> QED BY <2>1, PushesOnlyStep DEF Next, DeviceStep
<1>3. TypeOK /\ FoundStale /\ PushesOnly /\ [Next]_vars => [Kept]_vars
  <2> SUFFICES ASSUME TypeOK, FoundStale, PushesOnly, [Next]_vars PROVE Kept
    OBVIOUS
  <2>1. ASSUME NEW w \in Writers, BreakLease(w)
        PROVE  \A l \in lease : l.at >= observed[w] \/ Stale(l.at, observed[w])
    BY <2>1 DEF FoundStale, BreakLease
  <2>2. ASSUME OneHolder, \A w \in Writers : ~BreakLease(w) PROVE OneHolder'
    <3>1. CASE Tick \/ UNCHANGED vars
      <4>1. UNCHANGED <<pc, n, lease>>
        BY <3>1 DEF Tick, vars, remote, op
      <4> QED BY <2>2, <4>1 DEF OneHolder, Exclusive, Op
    <3> QED BY <2>2, <3>1, OneHolderStep DEF Next, DeviceStep
  <2> QED BY <2>1, <2>2
<1> QED BY <1>1, <1>2, <1>3, TypeCorrect, PTL DEF Spec, LeaseLostToTakeover

-----------------------------------------------------------------------------
(* The ancestor closure.                                                   *)

\* A chain is its newest snapshot and the ancestors of it.
LEMMA ChainWhole ==
  ASSUME NEW c \in Chains, NEW S, Ancestors(c) \subseteq S, Snapshot(c) \subseteq S
  PROVE  \A i \in DOMAIN c : c[i] \in S
<1> SUFFICES ASSUME NEW i \in DOMAIN c PROVE c[i] \in S
  OBVIOUS
<1>1. CASE i = Len(c)
  BY <1>1 DEF Snapshot
<1>2. CASE i # Len(c)
  BY <1>2 DEF Ancestors
<1> QED BY <1>1, <1>2

\* A push gets past the ancestor check with its ancestors on the remote, and
\* past the upload with its snapshot there.
LEMMA PushProgress ==
  ASSUME TypeOK, NEW w \in Writers, DeviceStep(w), mode'[w] = "push"
  PROVE  /\ stored \subseteq stored'
         /\ pc'[w] \in Checked =>
              /\ mode[w] = "push" /\ snap'[w] = snap[w]
              /\ pc[w] \in Checked \/ Ancestors(snap[w]) \subseteq stored
         /\ pc'[w] \in Uploaded =>
              pc[w] \in Uploaded \/ Snapshot(snap[w]) \subseteq stored'
<1> USE DEF TypeOK, Checked, Uploaded, Steps, remote, op
<1>1. CASE Repository(w)
  BY <1>1 DEF Repository, Commit, Fetch, LoseJournal
<1>2. CASE Starting(w)
  BY <1>2 DEF Starting, StartPush, ReadRefToPush, CheckAncestors, StartResume,
              ReadRefToResume, ResumeUpload, Begin
<1>3. CASE Leasing(w)
  BY <1>3 DEF Leasing, Acquire, Probe, ReadProbe, StatLease, InspectLease,
              BreakLease, Recreate, StatOwnLease, Stamp, PutLease
<1>4. CASE Publishing(w)
  BY <1>4 DEF Publishing, OpenIntent, PlanObjects, Upload, Beat, BeatPut,
              VerifyIntent, VerifyRef, VerifyLease, RenewProbe, RenewStat,
              Renew, VerifyObjects, CasRead, CasWrite, PutLease, ReadProbe, AfterVerify
<1>5. CASE Ending(w)
  BY <1>5 DEF Ending, Fail, CleanIntent, CleanLease, CleanDelete, Close, Release, Done
<1> QED BY <1>1, <1>2, <1>3, <1>4, <1>5 DEF DeviceStep

\* Nothing is deleted from the remote.
LEMMA StoredStays ==
  ASSUME TypeOK, NEW w \in Writers, DeviceStep(w)
  PROVE  stored \subseteq stored'
  BY DEF DeviceStep, Repository, Commit, Fetch, LoseJournal, Starting, StartPush,
     ReadRefToPush, CheckAncestors, StartResume, ReadRefToResume, ResumeUpload,
     Leasing, Acquire, Probe, ReadProbe, StatLease, InspectLease,
     BreakLease, Recreate, StatOwnLease, Stamp, PutLease,
     Publishing, OpenIntent, PlanObjects, Upload, Beat, BeatPut,
     VerifyIntent, VerifyRef, VerifyLease, RenewProbe, RenewStat,
     Renew, VerifyObjects, CasRead, CasWrite,
     Ending, Fail, CleanIntent, CleanLease, CleanDelete, Close, Release, remote

\* Only the swap writes the ref.
LEMMA RefWrites ==
  ASSUME TypeOK, NEW w \in Writers, DeviceStep(w)
  PROVE  ref' = ref \/ CasWrite(w)
  BY DEF DeviceStep, Repository, Commit, Fetch, LoseJournal, Starting, StartPush,
     ReadRefToPush, CheckAncestors, StartResume, ReadRefToResume, ResumeUpload,
     Leasing, Acquire, Probe, ReadProbe, StatLease, InspectLease,
     BreakLease, Recreate, StatOwnLease, Stamp, PutLease,
     Publishing, OpenIntent, PlanObjects, Upload, Beat, BeatPut,
     VerifyIntent, VerifyRef, VerifyLease, RenewProbe, RenewStat,
     Renew, VerifyObjects, CasRead,
     Ending, Fail, CleanIntent, CleanLease, CleanDelete, Close, Release, remote

LEMMA PushedPartsStep ==
  ASSUME TypeOK, PushedParts, NEW w \in Writers, DeviceStep(w)
  PROVE  PushedParts'
<1>1. stored \subseteq stored'
  BY StoredStays
<1>2. ASSUME NEW v \in Writers \ {w}, mode'[v] = "push"
      PROVE  /\ pc'[v] \in Checked => Ancestors(snap'[v]) \subseteq stored'
             /\ pc'[v] \in Uploaded => Snapshot(snap'[v]) \subseteq stored'
  <2>1. pc'[v] = pc[v] /\ mode'[v] = mode[v] /\ snap'[v] = snap[v]
    BY Frame DEF OthersKept
  <2> QED BY <1>1, <1>2, <2>1 DEF PushedParts
<1>3. ASSUME mode'[w] = "push"
      PROVE  /\ pc'[w] \in Checked => Ancestors(snap'[w]) \subseteq stored'
             /\ pc'[w] \in Uploaded => Snapshot(snap'[w]) \subseteq stored'
  <2>1. Uploaded \subseteq Checked
    BY DEF Uploaded, Checked, Steps
  <2> QED BY <1>1, <1>3, <2>1, PushProgress DEF PushedParts
<1>4. ASSUME NEW v \in Writers, mode'[v] = "push"
      PROVE  /\ pc'[v] \in Checked => Ancestors(snap'[v]) \subseteq stored'
             /\ pc'[v] \in Uploaded => Snapshot(snap'[v]) \subseteq stored'
  BY <1>2, <1>3, <1>4
<1> QED BY <1>4 DEF PushedParts, Ancestors, Snapshot

\* However operations overlap, lose leases and journals, resume, or share an
\* identifier, and whatever is committed meanwhile: only a resume, or a push
\* whose head moved after it was exported, can publish a chain with a missing
\* snapshot.  All other pushes check the ancestors before they upload the head
\* (push.rs: push_head_inner), and that is enough.
THEOREM PushedClosure == Spec => ClosureLostByUnchecked
<1> DEFINE Kept ==
      AncestorClosure => AncestorClosure' \/ \E w \in Writers : PublishesUnchecked(w)
<1>1. Init => PushedParts
  BY DEF Init, PushedParts, Checked, Uploaded
<1>2. TypeOK /\ PushedParts /\ [Next]_vars => PushedParts'
  <2> SUFFICES ASSUME TypeOK, PushedParts, [Next]_vars PROVE PushedParts'
    OBVIOUS
  <2>1. CASE Tick \/ UNCHANGED vars
    <3>1. UNCHANGED <<stored, pc, mode, snap>>
      BY <2>1 DEF Tick, vars, remote, op
    <3> QED BY <3>1 DEF PushedParts, Ancestors, Snapshot
  <2> QED BY <2>1, PushedPartsStep DEF Next, DeviceStep
<1>3. TypeOK /\ PushedParts /\ [Next]_vars => [Kept]_vars
  <2> SUFFICES ASSUME TypeOK, PushedParts, [Next]_vars, AncestorClosure,
                      \A w \in Writers : ~PublishesUnchecked(w)
               PROVE  AncestorClosure'
    OBVIOUS
  <2>1. CASE Tick \/ UNCHANGED vars
    BY <2>1 DEF Tick, vars, remote, AncestorClosure
  <2>2. ASSUME NEW w \in Writers, DeviceStep(w), ref' = ref PROVE AncestorClosure'
    BY <2>2, StoredStays DEF AncestorClosure
  <2>3. ASSUME NEW w \in Writers, CasWrite(w) PROVE AncestorClosure'
    <3>1. mode[w] = "push" /\ next[w] = snap[w]
      BY <2>3 DEF PublishesUnchecked
    <3>2. pc[w] \in Checked /\ pc[w] \in Uploaded /\ next[w] \in Chains
      BY <2>3 DEF CasWrite, Checked, Uploaded, Steps, TypeOK
    <3>3. \A i \in DOMAIN next[w] : next[w][i] \in stored
      BY <3>1, <3>2, ChainWhole DEF PushedParts
    <3>4. ref'.chain = next[w] /\ stored' = stored
      BY <2>3 DEF CasWrite
    <3> QED BY <3>3, <3>4 DEF AncestorClosure
  <2> QED BY <2>1, <2>2, <2>3, RefWrites DEF Next, DeviceStep
<1> QED BY <1>1, <1>2, <1>3, TypeCorrect, PTL DEF Spec, ClosureLostByUnchecked

-----------------------------------------------------------------------------
(* The history of the ref.                                                 *)

\* Prefixes, by their elements.
LEMMA PrefixElements ==
  ASSUME NEW s \in Chains, NEW t \in Chains
  PROVE  IsPrefix(s, t) <=> Len(s) <= Len(t) /\ \A i \in 1..Len(s) : s[i] = t[i]
<1>1. CASE Len(s) <= Len(t)
  <2>1. /\ SubSeq(s, 1, Len(s)) = [i \in 1..Len(s) |-> s[i]]
        /\ SubSeq(t, 1, Len(s)) = [i \in 1..Len(s) |-> t[i]]
    BY <1>1 DEF Chains
  <2> QED BY <1>1, <2>1 DEF IsPrefix
<1>2. CASE ~(Len(s) <= Len(t))
  BY <1>2 DEF IsPrefix
<1> QED BY <1>1, <1>2

\* The empty chain is a prefix of every chain.
LEMMA PrefixEmpty == \A t \in Chains : << >> \in Chains /\ IsPrefix(<< >>, t)
<1>1. << >> \in Chains /\ Len(<< >>) = 0
  BY DEF Chains
<1>2. \A t \in Chains : 0 <= Len(t)
  BY DEF Chains
<1> QED BY <1>1, <1>2, PrefixElements

\* A chain is a prefix of itself.
LEMMA PrefixReflexive == \A s \in Chains : IsPrefix(s, s)
  BY PrefixElements DEF Chains

\* A prefix of a prefix is a prefix.
LEMMA PrefixTransitive ==
  ASSUME NEW s \in Chains, NEW t \in Chains, NEW u \in Chains,
         IsPrefix(s, t), IsPrefix(t, u)
  PROVE  IsPrefix(s, u)
  BY PrefixElements DEF Chains

\* A proper extension stays one when it is extended.
LEMMA StrictThenPrefix ==
  ASSUME NEW s \in Chains, NEW t \in Chains, NEW u \in Chains,
         IsStrictPrefix(s, t), IsPrefix(t, u)
  PROVE  IsStrictPrefix(s, u)
<1>1. IsPrefix(s, u)
  BY PrefixTransitive DEF IsStrictPrefix
<1>2. s # u
  <2> SUFFICES ASSUME s = u PROVE FALSE
    OBVIOUS
  <2>1. Len(s) = Len(t) /\ \A i \in 1..Len(s) : s[i] = t[i]
    BY PrefixElements DEF IsStrictPrefix, Chains
  <2>2. s = t
    BY <2>1 DEF Chains
  <2> QED BY <2>2 DEF IsStrictPrefix
<1> QED BY <1>1, <1>2 DEF IsStrictPrefix

\* A commit extends the chain it is made on.
LEMMA PrefixAppend ==
  ASSUME NEW s \in Chains, NEW t \in Chains, NEW c \in Commits, IsPrefix(s, t)
  PROVE  Append(t, c) \in Chains /\ IsPrefix(s, Append(t, c))
<1>1. /\ Append(t, c) \in Chains
      /\ Len(t) <= Len(Append(t, c))
      /\ \A i \in 1..Len(t) : t[i] = Append(t, c)[i]
  BY DEF Chains
<1>2. IsPrefix(t, Append(t, c))
  BY <1>1, PrefixElements
<1> QED BY <1>1, <1>2, PrefixTransitive

\* The push's test, that the remote head is among the ancestors of the local
\* one, means that the published chain is a proper prefix of the local chain.
LEMMA FastForwardExtends ==
  ASSUME TypeOK, ParentLinks, NEW w \in Writers, FastForward(w), snap[w] # << >>
  PROVE  IsStrictPrefix(ref.chain, snap[w])
<1>1. ref.chain \in Chains /\ snap[w] \in Chains
  BY DEF TypeOK
<1>2. CASE ref.chain = << >>
  BY <1>1, <1>2, PrefixEmpty DEF IsStrictPrefix
<1>3. CASE ref.chain # << >>
  <2> DEFINE m == Len(ref.chain)
  <2>1. m \in DOMAIN ref.chain
    BY <1>1, <1>3 DEF Chains
  <2>2. ref.chain[m] \in Ancestors(snap[w])
    BY <2>1 DEF FastForward, Snapshot
  <2>3. PICK j \in DOMAIN snap[w] : j # Len(snap[w]) /\ ref.chain[m] = snap[w][j]
    BY <2>2 DEF Ancestors
  <2>4. m = j /\ \A k \in 1..m : ref.chain[k] = snap[w][k]
    BY <2>1, <2>3 DEF ParentLinks, AllChains
  <2>5. m < Len(snap[w])
    BY <1>1, <2>3, <2>4 DEF Chains
  <2>6. IsPrefix(ref.chain, snap[w])
    BY <1>1, <2>4, <2>5, PrefixElements DEF Chains
  <2> QED BY <2>5, <2>6 DEF IsStrictPrefix
<1> QED BY <1>2, <1>3

\* Parent links survive when no chain is new but the empty one.
LEMMA LinksKept ==
  ASSUME ParentLinks, AllChains' \subseteq AllChains \cup {<< >>}, made' = made
  PROVE  ParentLinks'
<1> SUFFICES ASSUME NEW c \in AllChains', NEW d \in AllChains'
             PROVE  /\ \A i \in DOMAIN c : c[i][2] <= made[c[i][1]]
                    /\ \A i \in DOMAIN c : \A j \in DOMAIN d : c[i] = d[j] =>
                         i = j /\ \A k \in 1..i : c[k] = d[k]
  BY DEF ParentLinks
<1>1. DOMAIN << >> = {}
  OBVIOUS
<1>2. CASE c = << >> \/ d = << >>
  <2>1. \A i \in DOMAIN c : c \in AllChains
    BY <1>1
  <2> QED BY <1>1, <1>2, <2>1 DEF ParentLinks
<1>3. CASE c \in AllChains /\ d \in AllChains
  BY <1>3 DEF ParentLinks
<1> QED BY <1>2, <1>3

\* A chain with one more snapshot, element by element.
LEMMA AppendElements ==
  ASSUME NEW t \in Chains, NEW c \in Commits
  PROVE  /\ Append(t, c) \in Chains
         /\ Len(Append(t, c)) = Len(t) + 1 /\ Append(t, c)[Len(Append(t, c))] = c
         /\ \A i \in 1..Len(t) : Append(t, c)[i] = t[i]
         /\ DOMAIN t = 1..Len(t) /\ DOMAIN Append(t, c) = 1..(Len(t) + 1)
         /\ Len(t) \in Nat
  BY DEF Chains

\* A commit links a new snapshot to the local head.
LEMMA LinksCommitted ==
  ASSUME TypeOK, TypeOK', ParentLinks, NEW w \in Writers, Commit(w)
  PROVE  ParentLinks'
<1> DEFINE e == <<w, made[w] + 1>>
           old == local[w]
           new == Append(old, e)
<1>1. /\ e \in Commits /\ old \in Chains /\ new \in Chains
      /\ Len(new) = Len(old) + 1 /\ new[Len(new)] = e
      /\ \A i \in 1..Len(old) : new[i] = old[i]
      /\ DOMAIN old = 1..Len(old) /\ DOMAIN new = 1..(Len(old) + 1)
      /\ Len(old) \in Nat
  <2>1. made[w] \in Nat /\ old \in Chains
    BY DEF TypeOK
  <2>2. e \in Commits
    BY <2>1 DEF Commits
  <2> QED BY <2>1, <2>2, AppendElements
<1>2. local' = [local EXCEPT ![w] = new] /\ made' = [made EXCEPT ![w] = @ + 1]
  BY DEF Commit
<1>3. AllChains' \subseteq AllChains \cup {new}
  <2>1. \A v \in Writers : local'[v] \in {local[v], new}
    BY <1>2 DEF TypeOK
  <2>2. UNCHANGED <<ref, snap, next>>
    BY DEF Commit, remote, op
  <2> QED BY <2>1, <2>2 DEF AllChains
<1>4. AllChains \subseteq Chains /\ old \in AllChains
  BY DEF AllChains, TypeOK
<1>5. \A c \in AllChains : \A i \in DOMAIN c :
        /\ c[i] \in Commits
        /\ c[i][1] \in Writers /\ c[i][2] \in Nat
        /\ c[i][2] <= made[c[i][1]]
        /\ c[i] # e
  <2> SUFFICES ASSUME NEW c \in AllChains, NEW i \in DOMAIN c
               PROVE  /\ c[i] \in Commits
                      /\ c[i][1] \in Writers /\ c[i][2] \in Nat
                      /\ c[i][2] <= made[c[i][1]]
                      /\ c[i] # e
    OBVIOUS
  <2>1. c[i] \in Commits /\ c[i][2] <= made[c[i][1]]
    BY <1>4 DEF ParentLinks, Chains
  <2>2. c[i][1] \in Writers /\ c[i][2] \in Nat
    BY <2>1 DEF Commits
  <2>3. made[w] \in Nat
    BY DEF TypeOK
  <2> QED BY <2>1, <2>2, <2>3
<1>6. \A v \in Writers : made[v] \in Nat /\ made'[v] \in Nat /\ made[v] <= made'[v]
  <2> SUFFICES ASSUME NEW v \in Writers
               PROVE  made[v] \in Nat /\ made'[v] \in Nat /\ made[v] <= made'[v]
    OBVIOUS
  <2>1. made[v] \in Nat /\ made'[v] = IF v = w THEN made[v] + 1 ELSE made[v]
    BY <1>2 DEF TypeOK
  <2> QED BY <2>1
<1> HIDE DEF e, old, new
<1> SUFFICES ASSUME NEW c \in AllChains \cup {new}, NEW d \in AllChains \cup {new}
             PROVE  /\ \A i \in DOMAIN c : c[i][2] <= made'[c[i][1]]
                    /\ \A i \in DOMAIN c : \A j \in DOMAIN d : c[i] = d[j] =>
                         i = j /\ \A k \in 1..i : c[k] = d[k]
  BY <1>3 DEF ParentLinks
<1>7. ASSUME NEW i \in DOMAIN c
      PROVE  c[i][2] <= made'[c[i][1]]
  <2>1. CASE c \in AllChains
    BY <1>5, <1>6, <2>1
  <2>2. CASE c = new /\ i # Len(new)
    <3>1. i \in DOMAIN old /\ c[i] = old[i]
      BY <1>1, <2>2
    <3> QED BY <1>4, <1>5, <1>6, <3>1
  <2>3. CASE c = new /\ i = Len(new)
    <3>1. c[i] = e /\ e[1] = w /\ e[2] = made[w] + 1
      BY <1>1, <2>3 DEF e
    <3>2. made'[w] = made[w] + 1
      BY <1>2 DEF TypeOK
    <3> QED BY <1>6, <3>1, <3>2
  <2> QED BY <2>1, <2>2, <2>3
<1>8. ASSUME NEW i \in DOMAIN c, NEW j \in DOMAIN d, c[i] = d[j]
      PROVE  i = j /\ \A k \in 1..i : c[k] = d[k]
  <2>1. CASE c = new /\ i = Len(new)
    <3>1. d[j] = e
      BY <1>1, <1>8, <2>1
    <3>2. d = new
      BY <1>5, <3>1
    <3>3. j = Len(new)
      BY <1>1, <1>4, <1>5, <3>1, <3>2
    <3> QED BY <2>1, <3>2, <3>3
  <2>2. CASE d = new /\ j = Len(new)
    <3>1. c[i] = e
      BY <1>1, <1>8, <2>2
    <3>2. c = new
      BY <1>5, <3>1
    <3>3. i = Len(new)
      BY <1>1, <1>4, <1>5, <3>1, <3>2
    <3> QED BY <2>2, <3>2, <3>3
  <2>3. CASE ~(c = new /\ i = Len(new)) /\ ~(d = new /\ j = Len(new))
    <3> DEFINE chainOf(x) == IF x = new THEN old ELSE x
    <3>0. /\ \A x \in AllChains : DOMAIN x = 1..Len(x) /\ Len(x) \in Nat
          /\ Len(new) \in Nat /\ DOMAIN new = 1..Len(new)
      BY <1>1, <1>4 DEF Chains
    <3>1. /\ chainOf(c) \in AllChains /\ i \in DOMAIN chainOf(c)
          /\ \A k \in 1..i : chainOf(c)[k] = c[k]
          /\ i \in Nat /\ i >= 1
      <4>1. CASE c = new
        BY <1>1, <1>4, <2>3, <4>1
      <4>2. CASE c # new
        BY <3>0, <4>2
      <4> QED BY <4>1, <4>2
    <3>2. /\ chainOf(d) \in AllChains /\ j \in DOMAIN chainOf(d)
          /\ \A k \in 1..j : chainOf(d)[k] = d[k]
          /\ j \in Nat /\ j >= 1
      <4>1. CASE d = new
        BY <1>1, <1>4, <2>3, <4>1
      <4>2. CASE d # new
        BY <3>0, <4>2
      <4> QED BY <4>1, <4>2
    <3>3. chainOf(c)[i] = chainOf(d)[j]
      BY <1>8, <3>1, <3>2
    <3>4. i = j /\ \A k \in 1..i : chainOf(c)[k] = chainOf(d)[k]
      <4> HIDE DEF chainOf
      <4> QED BY <3>1, <3>2, <3>3 DEF ParentLinks
    <3> QED BY <3>1, <3>2, <3>4
  <2> QED BY <2>1, <2>2, <2>3
<1> QED BY <1>7, <1>8

\* Apart from a commit, chains are only copied, published or forgotten.
LEMMA ChainsCopied ==
  ASSUME TypeOK, NEW w \in Writers, DeviceStep(w), ~Commit(w)
  PROVE  AllChains' \subseteq AllChains \cup {<< >>} /\ made' = made
<1>1. /\ made' = made
      /\ ref'.chain \in {ref.chain, next[w]}
      /\ local'[w] \in {local[w], ref.chain}
      /\ snap'[w] \in {snap[w], local[w], << >>}
      /\ next'[w] \in {next[w], local[w], << >>}
  <2> USE DEF TypeOK, remote, repo, op
  <2>1. CASE Repository(w)
    BY <2>1 DEF Repository, Fetch, LoseJournal
  <2>2. CASE Starting(w)
    BY <2>2 DEF Starting, StartPush, ReadRefToPush, CheckAncestors, StartResume,
                ReadRefToResume, ResumeUpload
  <2>3. CASE Leasing(w)
    BY <2>3 DEF Leasing, Acquire, Probe, ReadProbe, StatLease, InspectLease,
                BreakLease, Recreate, StatOwnLease, Stamp, PutLease
  <2>4. CASE Publishing(w)
    BY <2>4 DEF Publishing, OpenIntent, PlanObjects, Upload, Beat, BeatPut,
                VerifyIntent, VerifyRef, VerifyLease, RenewProbe, RenewStat,
                Renew, VerifyObjects, CasRead, CasWrite, PutLease, ReadProbe
  <2>5. CASE Ending(w)
    BY <2>5 DEF Ending, Fail, CleanIntent, CleanLease, CleanDelete, Close, Release, Done
  <2> QED BY <2>1, <2>2, <2>3, <2>4, <2>5 DEF DeviceStep
<1>2. \A v \in Writers \ {w} :
        local'[v] = local[v] /\ snap'[v] = snap[v] /\ next'[v] = next[v]
  BY Frame DEF OthersKept
<1> QED BY <1>1, <1>2 DEF AllChains

\* Every step keeps the parent links of the chains.
LEMMA LinksStep ==
  ASSUME TypeOK, TypeOK', ParentLinks, NEW w \in Writers, DeviceStep(w)
  PROVE  ParentLinks'
  BY ChainsCopied, LinksKept, LinksCommitted

\* No other device can be about to write the ref.
LEMMA OneCasWrite ==
  ASSUME Environment, TypeOK, LeaseInv, NEW w \in Writers, pc[w] = "casWrite",
         NEW v \in Writers \ {w}
  PROVE  pc[v] # "casWrite"
<1>1. CASE UseLease
  BY <1>1, Alone DEF Owning, Holding
<1>2. CASE ~Overlap
  BY <1>2 DEF LeaseInv, OneAtATime
<1> QED BY <1>1, <1>2 DEF Environment

\* The ref is written: the new version is nobody's expected one.
LEMMA HistoryWritten ==
  ASSUME Environment, TypeOK, LeaseInv, ExpectedVersion, ExtendsRef,
         NEW w \in Writers, CasWrite(w)
  PROVE  ExpectedVersion' /\ ExtendsRef' /\ IsStrictPrefix(ref.chain, next[w])
<1>1. /\ pc[w] = "casWrite" /\ pc' = [pc EXCEPT ![w] = "close"]
      /\ ref' = [version |-> expected[w] + 1, chain |-> next[w]]
      /\ UNCHANGED <<local, expected, mode, snap, next>>
  BY DEF CasWrite, repo, op
<1>2. ref.version = expected[w] /\ ref.version \in Nat
  BY <1>1 DEF ExtendsRef, TypeOK
<1>3. /\ ref'.version \in Nat \ {0}
      /\ \A v \in Writers : expected'[v] \in Nat /\ expected'[v] < ref'.version
  BY <1>1, <1>2 DEF ExpectedVersion, TypeOK
<1>4. ExpectedVersion'
  BY <1>3 DEF ExpectedVersion
<1>5. mode[w] # "matched"
  BY <1>1 DEF ExtendsRef, Announced
<1>6. IsStrictPrefix(ref.chain, next[w])
  BY <1>1, <1>2, <1>5 DEF ExtendsRef, Published
<1>7. ExtendsRef'
  <2> SUFFICES ASSUME NEW v \in Writers
      PROVE  /\ pc'[v] = "readRef" => snap'[v] # << >> /\ IsPrefix(snap'[v], local'[v])
             /\ mode'[v] = "matched" =>
                  pc'[v] \in (Steps \ {"readRef", "ancestors"}) \ (Announced \ {"close"})
             /\ expected'[v] # ref'.version
             /\ pc'[v] # "casWrite"
    BY DEF ExtendsRef
  <2>1. pc'[v] = IF v = w THEN "close" ELSE pc[v]
    BY <1>1 DEF TypeOK
  <2>2. pc'[v] # "casWrite"
    BY <1>1, <2>1, OneCasWrite
  <2>3. expected'[v] # ref'.version
    BY <1>3
  <2>4. CASE v = w
    BY <1>1, <1>5, <2>1, <2>2, <2>3, <2>4
  <2>5. CASE v # w
    BY <1>1, <2>1, <2>2, <2>3, <2>5 DEF ExtendsRef
  <2> QED BY <2>4, <2>5
<1> QED BY <1>4, <1>6, <1>7

\* Any other step: the ref stays, and the device keeps the invariant for
\* itself, as the six facts about it say.
LEMMA HistoryKept ==
  ASSUME TypeOK, ExpectedVersion, ExtendsRef, NEW w \in Writers, OthersKept(w),
         ref' = ref,
         expected'[w] <= ref.version,
         expected'[w] = ref.version => IsPrefix(ref.chain, local'[w]),
         pc'[w] = "readRef" => snap'[w] # << >> /\ IsPrefix(snap'[w], local'[w]),
         mode'[w] = "matched" =>
           pc'[w] \in (Steps \ {"readRef", "ancestors"}) \ (Announced \ {"close"}),
         pc'[w] \notin {"idle", "readRef", "close", "release"} /\ mode'[w] # "matched"
           /\ expected'[w] = ref.version => IsStrictPrefix(ref.chain, next'[w]),
         pc'[w] = "casWrite" => ref.version = expected'[w]
  PROVE  ExpectedVersion' /\ ExtendsRef'
<1>1. ExpectedVersion'
  <2> SUFFICES ASSUME NEW v \in Writers
               PROVE  /\ expected'[v] <= ref.version
                      /\ expected'[v] = ref.version => IsPrefix(ref.chain, local'[v])
    BY DEF ExpectedVersion
  <2>1. CASE v = w
    BY <2>1
  <2>2. CASE v # w
    BY <2>2 DEF ExpectedVersion, OthersKept
  <2> QED BY <2>1, <2>2
<1>2. ExtendsRef'
  <2> SUFFICES ASSUME NEW v \in Writers
      PROVE  /\ pc'[v] = "readRef" => snap'[v] # << >> /\ IsPrefix(snap'[v], local'[v])
             /\ mode'[v] = "matched" =>
                  pc'[v] \in (Steps \ {"readRef", "ancestors"}) \ (Announced \ {"close"})
             /\ pc'[v] \notin {"idle", "readRef", "close", "release"} /\ mode'[v] # "matched"
                  /\ expected'[v] = ref.version => IsStrictPrefix(ref.chain, next'[v])
             /\ pc'[v] = "casWrite" => ref.version = expected'[v]
    BY DEF ExtendsRef, Published
  <2>1. CASE v = w
    BY <2>1
  <2>2. CASE v # w
    BY <2>2 DEF ExtendsRef, OthersKept, Published
  <2> QED BY <2>1, <2>2
<1> QED BY <1>1, <1>2

\* The steps of an operation between reading the ref and the end.
LEMMA HistoryMove ==
  ASSUME TypeOK, ExpectedVersion, ExtendsRef, NEW w \in Writers, OthersKept(w),
         ref' = ref,
         UNCHANGED <<local, expected, mode, snap, next>>,
         pc[w] \notin {"idle", "readRef"}, pc'[w] \notin {"readRef"},
         pc'[w] \in {"idle", "close", "release"} \/ pc[w] \notin {"close", "release"},
         mode[w] = "matched" =>
           pc'[w] \in (Steps \ {"readRef", "ancestors"}) \ (Announced \ {"close"}),
         pc'[w] = "casWrite" => ref.version = expected[w]
  PROVE  ExpectedVersion' /\ ExtendsRef'
<1>1. /\ expected[w] <= ref.version
      /\ expected[w] = ref.version => IsPrefix(ref.chain, local[w])
  BY DEF ExpectedVersion
<1>2. pc'[w] \notin {"idle", "readRef", "close", "release"} /\ mode[w] # "matched"
        /\ expected[w] = ref.version => IsStrictPrefix(ref.chain, next[w])
  BY DEF ExtendsRef, Published
<1> QED BY <1>1, <1>2, HistoryKept

\* An operation that ends holds no ref bytes any more.
LEMMA HistoryDone ==
  ASSUME TypeOK, ExpectedVersion, ExtendsRef, NEW w \in Writers, OthersKept(w),
         Done(w), ref' = ref, local' = local, expected'[w] \in {expected[w], 0}
  PROVE  ExpectedVersion' /\ ExtendsRef'
<1>1. pc'[w] = "idle" /\ mode'[w] = "push"
  BY DEF Done, TypeOK
<1>2. /\ expected'[w] <= ref.version
      /\ expected'[w] = ref.version => IsPrefix(ref.chain, local'[w])
  BY PrefixEmpty DEF ExpectedVersion, TypeOK
<1> QED BY <1>1, <1>2, HistoryKept

\* Commits and fetches keep the expected versions meaningful.
LEMMA HistoryRepository ==
  ASSUME TypeOK, ParentLinks, ExpectedVersion, ExtendsRef,
         NEW w \in Writers, OthersKept(w), Repository(w)
  PROVE  ExpectedVersion' /\ ExtendsRef'
<1> USE DEF remote, op
<1>1. CASE Commit(w)
  <2>1. made[w] + 1 \in Nat /\ <<w, made[w] + 1>> \in Commits
    BY DEF TypeOK, Commits
  <2>2. local'[w] = Append(local[w], <<w, made[w] + 1>>)
    BY <1>1 DEF Commit, TypeOK
  <2>3. /\ IsPrefix(ref.chain, local[w]) => IsPrefix(ref.chain, local'[w])
        /\ IsPrefix(snap[w], local[w]) => IsPrefix(snap[w], local'[w])
    BY <2>1, <2>2, PrefixAppend DEF TypeOK
  <2>4. UNCHANGED <<ref, expected, pc, mode, snap, next>>
    BY <1>1 DEF Commit
  <2> QED BY <2>3, <2>4, HistoryKept DEF ExpectedVersion, ExtendsRef, Published
<1>2. CASE Fetch(w)
  <2>1. IsPrefix(ref.chain, ref.chain)
    BY PrefixReflexive DEF TypeOK
  <2>2. UNCHANGED <<ref, expected, pc, mode, snap, next>>
    BY <1>2 DEF Fetch
  <2>3. local'[w] = ref.chain /\ pc[w] = "idle"
    BY <1>2 DEF Fetch, TypeOK
  <2> QED BY <2>1, <2>2, <2>3, HistoryKept DEF ExpectedVersion, ExtendsRef, Published
<1>3. CASE LoseJournal(w)
  <2>1. expected'[w] = 0 /\ pc[w] = "idle"
    BY <1>3 DEF LoseJournal, TypeOK
  <2>2. UNCHANGED <<ref, local, pc, mode, snap, next>>
    BY <1>3 DEF LoseJournal
  <2>3. 0 <= ref.version /\ (0 = ref.version => IsPrefix(ref.chain, local[w]))
    BY PrefixEmpty DEF ExpectedVersion, TypeOK
  <2> QED BY <2>1, <2>2, <2>3, HistoryKept DEF ExtendsRef, Published
<1> QED BY <1>1, <1>2, <1>3 DEF Repository

\* The fast-forward check establishes ExtendsRef for a push.
LEMMA HistoryStarting ==
  ASSUME TypeOK, ParentLinks, ExpectedVersion, ExtendsRef,
         NEW w \in Writers, OthersKept(w), Starting(w)
  PROVE  ExpectedVersion' /\ ExtendsRef'
<1> USE DEF remote, op, repo
<1>0. /\ expected[w] <= ref.version
      /\ expected[w] = ref.version => IsPrefix(ref.chain, local[w])
      /\ local[w] \in Chains /\ ref.chain \in Chains /\ snap[w] \in Chains
  BY DEF ExpectedVersion, TypeOK
<1>1. CASE StartPush(w) \/ StartResume(w)
  <2>1. /\ pc'[w] = "readRef" /\ snap'[w] = local[w] /\ local[w] # << >>
        /\ mode'[w] # "matched"
        /\ UNCHANGED <<ref, local, expected, next>>
    BY <1>1 DEF StartPush, StartResume, MayStart, TypeOK
  <2>2. IsPrefix(local[w], local[w])
    BY <1>0, PrefixReflexive
  <2> QED BY <1>0, <2>1, <2>2, HistoryKept
<1>2. CASE ReadRefToPush(w)
  <2>1. /\ pc[w] = "readRef" /\ pc'[w] = "ancestors"
        /\ next'[w] = local[w] /\ expected'[w] = ref.version
        /\ mode'[w] # "matched" /\ FastForward(w)
        /\ UNCHANGED <<ref, local, snap>>
    BY <1>2 DEF ReadRefToPush, TypeOK
  <2>2. snap[w] # << >> /\ IsPrefix(snap[w], local[w])
    BY <2>1 DEF ExtendsRef
  <2>3. IsStrictPrefix(ref.chain, snap[w])
    BY <2>1, <2>2, FastForwardExtends
  <2>4. IsStrictPrefix(ref.chain, local[w])
    BY <1>0, <2>2, <2>3, StrictThenPrefix
  <2>5. IsPrefix(ref.chain, local[w]) /\ ref.version <= ref.version
    BY <2>4 DEF IsStrictPrefix, TypeOK
  <2> QED BY <2>1, <2>4, <2>5, HistoryKept
<1>3. CASE CheckAncestors(w)
  <2>1. /\ pc[w] = "ancestors" /\ pc'[w] \in {"acquire", "open"}
        /\ UNCHANGED <<ref, local, expected, mode, snap, next>>
    BY <1>3 DEF CheckAncestors, Begin, TypeOK
  <2>2. mode[w] # "matched"
    BY <2>1 DEF ExtendsRef
  <2> QED BY <2>1, <2>2, HistoryMove
<1>4. CASE ReadRefToResume(w)
  <2>1. /\ pc'[w] = "resumeUpload" /\ next'[w] = local[w]
        /\ mode'[w] = "matched" \/ ref.chain # local[w]
        /\ UNCHANGED <<ref, local, expected, snap>>
    BY <1>4 DEF ReadRefToResume, TypeOK
  <2>2. expected[w] = ref.version /\ ref.chain # local[w] => IsStrictPrefix(ref.chain, local[w])
    BY <1>0 DEF IsStrictPrefix
  <2>3. "resumeUpload" \in (Steps \ {"readRef", "ancestors"}) \ (Announced \ {"close"})
    BY DEF Steps, Announced
  <2> QED BY <1>0, <2>1, <2>2, <2>3, HistoryKept
<1>5. CASE ResumeUpload(w)
  <2>1. /\ pc[w] = "resumeUpload" /\ pc'[w] \in {"acquire", "open", "cleanIntent"}
        /\ UNCHANGED <<ref, local, expected, mode, snap, next>>
    BY <1>5 DEF ResumeUpload, Begin, TypeOK
  <2>2. {"acquire", "open", "cleanIntent"}
          \subseteq (Steps \ {"readRef", "ancestors"}) \ (Announced \ {"close"})
    BY DEF Steps, Announced
  <2> QED BY <2>1, <2>2, HistoryMove
<1> QED BY <1>1, <1>2, <1>3, <1>4, <1>5 DEF Starting

\* Leasing touches neither the ref nor what will be published.
LEMMA HistoryLeasing ==
  ASSUME TypeOK, ExpectedVersion, ExtendsRef,
         NEW w \in Writers, OthersKept(w), Leasing(w)
  PROVE  ExpectedVersion' /\ ExtendsRef'
<1> DEFINE Lease1 == {"acquire", "probe", "stat", "inspect", "break", "recreate",
                      "statOwn", "stamp", "open"}
<1>1. pc[w] \in Lease1 \ {"open"} /\ pc'[w] \in Lease1
  BY DEF Leasing, Acquire, Probe, ReadProbe, StatLease, InspectLease,
         BreakLease, Recreate, StatOwnLease, Stamp, PutLease, TypeOK
<1>2. UNCHANGED <<ref, local, expected, mode, snap, next>>
  BY DEF Leasing, Acquire, Probe, ReadProbe, StatLease, InspectLease,
         BreakLease, Recreate, StatOwnLease, Stamp, PutLease, remote, repo, op
<1>3. Lease1 \subseteq (Steps \ {"readRef", "ancestors"}) \ (Announced \ {"close"})
  BY DEF Steps, Announced
<1> QED BY <1>1, <1>2, <1>3, HistoryMove

\* ExtendsRef through upload, verification and the swap of the ref.
LEMMA HistoryPublishing ==
  ASSUME TypeOK, ExpectedVersion, ExtendsRef,
         NEW w \in Writers, OthersKept(w), Publishing(w), ~CasWrite(w)
  PROVE  ExpectedVersion' /\ ExtendsRef'
<1>1. UNCHANGED <<ref, local, expected, mode, snap, next>>
  BY DEF Publishing, OpenIntent, PlanObjects, Upload, Beat, BeatPut,
     VerifyIntent, VerifyRef, VerifyLease, RenewProbe, RenewStat,
     Renew, VerifyObjects, CasRead, PutLease, ReadProbe, remote, repo, op
<1>2. CASE OpenIntent(w)
  <2>1. pc[w] = "open" /\ pc'[w] \in {"plan", "verifyIntent", "close"}
    BY <1>2 DEF OpenIntent, TypeOK
  <2>2. mode[w] = "matched" => pc'[w] = "close"
    BY <1>2 DEF OpenIntent, TypeOK
  <2>3. "close" \in (Steps \ {"readRef", "ancestors"}) \ (Announced \ {"close"})
    BY DEF Steps
  <2> QED BY <1>1, <2>1, <2>2, <2>3, HistoryMove
<1>3. CASE ~OpenIntent(w)
  <2>1. pc[w] \in Announced \ {"close"} /\ pc'[w] \in Announced \ {"close"}
    <3> USE DEF Announced, TypeOK, AfterVerify
    <3>1. CASE PlanObjects(w) \/ Upload(w) \/ Beat(w) \/ BeatPut(w)
      BY <3>1 DEF PlanObjects, Upload, Beat, BeatPut, PutLease
    <3>2. CASE VerifyIntent(w) \/ VerifyRef(w) \/ VerifyLease(w)
      BY <3>2 DEF VerifyIntent, VerifyRef, VerifyLease
    <3>3. CASE RenewProbe(w) \/ RenewStat(w) \/ Renew(w)
      BY <3>3 DEF RenewProbe, RenewStat, Renew, ReadProbe, PutLease
    <3>4. CASE VerifyObjects(w) \/ CasRead(w)
      BY <3>4 DEF VerifyObjects, CasRead
    <3> QED BY <1>3, <3>1, <3>2, <3>3, <3>4 DEF Publishing
  <2>2. mode[w] # "matched"
    BY <2>1 DEF ExtendsRef
  <2>3. pc'[w] = "casWrite" => ref.version = expected[w]
    BY DEF Publishing, OpenIntent, PlanObjects, Upload, Beat, BeatPut,
       VerifyIntent, VerifyRef, VerifyLease, RenewProbe, RenewStat, AfterVerify,
       Renew, VerifyObjects, CasRead, PutLease, ReadProbe, TypeOK
  <2>4. Announced \cap {"idle", "readRef", "release"} = {}
    BY DEF Announced
  <2> QED BY <1>1, <2>1, <2>2, <2>3, <2>4, HistoryMove
<1> QED BY <1>2, <1>3

\* Completing and cleaning up keeps the history.
LEMMA HistoryEnding ==
  ASSUME TypeOK, ExpectedVersion, ExtendsRef,
         NEW w \in Writers, OthersKept(w), Ending(w)
  PROVE  ExpectedVersion' /\ ExtendsRef'
<1>1. ref' = ref /\ local' = local /\ expected'[w] \in {expected[w], 0}
  BY DEF Ending, Fail, CleanIntent, CleanLease, CleanDelete, Close, Release,
         remote, repo, TypeOK
<1>2. CASE Done(w)
  BY <1>1, <1>2, HistoryDone
<1>3. CASE ~Done(w)
  <2>1. CleanIntent(w) \/ CleanLease(w) \/ Close(w)
    BY <1>3 DEF Ending, Fail, CleanDelete, Release
  <2>2. UNCHANGED <<expected, mode, snap, next>>
    BY <1>3, <2>1 DEF CleanIntent, CleanLease, Close, op, repo
  <2>3. \/ pc[w] \in {"cleanIntent", "cleanLease"} /\ pc'[w] \in {"cleanLease", "cleanDelete"}
        \/ pc[w] = "close" /\ pc'[w] = "release"
    BY <1>3, <2>1 DEF CleanIntent, CleanLease, Close, TypeOK
  <2>4. {"cleanLease", "cleanDelete", "release"}
          \subseteq (Steps \ {"readRef", "ancestors"}) \ (Announced \ {"close"})
    BY DEF Steps, Announced
  <2> QED BY <1>1, <2>2, <2>3, <2>4, HistoryMove
<1> QED BY <1>2, <1>3


\* Only the last step of the swap writes the ref.
LEMMA RefKept ==
  ASSUME NEW w \in Writers, DeviceStep(w), ~CasWrite(w)
  PROVE  ref' = ref
  BY DEF DeviceStep, Repository, Commit, Fetch, LoseJournal, Starting, StartPush,
     ReadRefToPush, CheckAncestors, StartResume, ReadRefToResume, ResumeUpload,
     Leasing, Acquire, Probe, ReadProbe, StatLease, InspectLease,
     BreakLease, Recreate, StatOwnLease, Stamp, PutLease,
     Publishing, OpenIntent, PlanObjects, Upload, Beat, BeatPut,
     VerifyIntent, VerifyRef, VerifyLease, RenewProbe, RenewStat,
     Renew, VerifyObjects, CasRead,
     Ending, Fail, CleanIntent, CleanLease, CleanDelete, Close, Release, remote

HistoryInv == ParentLinks /\ ExpectedVersion /\ ExtendsRef

\* Initially nothing is published and nothing expected.
LEMMA HistoryInit == Init => HistoryInv /\ History!Init
<1> SUFFICES ASSUME Init PROVE HistoryInv /\ History!Init
  OBVIOUS
<1>1. ref = NoRef
  BY DEF Init
<1>2. \A c \in AllChains : c = << >>
  BY DEF Init, AllChains, NoRef
<1>3. ParentLinks
  <2>1. DOMAIN << >> = {}
    OBVIOUS
  <2>2. \A c \in AllChains : DOMAIN c = {}
    BY <1>2, <2>1
  <2> QED BY <2>2, Zenon DEF ParentLinks
<1>4. IsPrefix(<< >>, << >>)
  <2>1. << >> \in Chains
    BY DEF Chains
  <2> QED BY <2>1, PrefixReflexive
<1>5. ExpectedVersion
  BY <1>4 DEF ExpectedVersion, Init, NoRef
<1>6. ExtendsRef
  BY DEF ExtendsRef, Init, Published
<1> QED BY <1>1, <1>3, <1>5, <1>6 DEF HistoryInv, History!Init, History!NoRef, NoRef

\* Each step keeps the invariant and maps to a step of the history or to a
\* stutter.
LEMMA HistoryStep ==
  ASSUME Environment, TypeOK, TypeOK', LeaseInv, HistoryInv, [Next]_vars
  PROVE  HistoryInv' /\ [History!Publish]_ref
<1> USE DEF HistoryInv
<1>1. CASE Tick \/ UNCHANGED vars
  <2>1. UNCHANGED <<ref, local, made, expected, pc, mode, snap, next>>
    BY <1>1 DEF Tick, vars, remote, repo, op
  <2>2. ParentLinks'
    BY <2>1 DEF ParentLinks, AllChains
  <2>3. ExpectedVersion'
    BY <2>1 DEF ExpectedVersion
  <2>4. ExtendsRef'
    BY <2>1 DEF ExtendsRef, Published
  <2> QED BY <2>1, <2>2, <2>3, <2>4
<1>2. ASSUME NEW w \in Writers, CasWrite(w)
      PROVE  HistoryInv' /\ History!Publish
  <2>1. DeviceStep(w)
    BY <1>2 DEF DeviceStep, Publishing
  <2>2. ParentLinks'
    BY <2>1, LinksStep
  <2>3. ExpectedVersion' /\ ExtendsRef' /\ IsStrictPrefix(ref.chain, next[w])
    BY <1>2, HistoryWritten
  <2>4. ref' = [version |-> ref.version + 1, chain |-> next[w]]
    BY <1>2 DEF CasWrite, ExtendsRef
  <2>5. next[w] \in Seq(Commits) /\ ref'.chain = next[w]
    BY <2>4 DEF TypeOK, Chains
  <2>6. History!Publish
    BY <2>3, <2>4, <2>5 DEF History!Publish, History!IsStrictPrefix,
       History!IsPrefix, IsStrictPrefix, IsPrefix
  <2> QED BY <2>2, <2>3, <2>6
<1>3. ASSUME NEW w \in Writers, DeviceStep(w), ~CasWrite(w)
      PROVE  HistoryInv' /\ ref' = ref
  <2>1. OthersKept(w)
    BY <1>3, Frame
  <2>2. ParentLinks'
    BY <1>3, LinksStep
  <2>3. ExpectedVersion' /\ ExtendsRef'
    BY <1>3, <2>1, HistoryRepository, HistoryStarting, HistoryLeasing,
       HistoryPublishing, HistoryEnding DEF DeviceStep
  <2> QED BY <1>3, <2>2, <2>3, RefKept
<1> QED BY <1>1, <1>2, <1>3 DEF Next, DeviceStep

\* In the environment of the theorems, whatever the devices do, crashes and
\* resumes included, the ref moves as an atomic branch history would: the
\* read-then-write swap of the backends loses no published snapshot.
THEOREM RefHistoryImplemented ==
  ASSUME Environment
  PROVE  Spec => RefIsHistory
<1>1. Init => LeaseInv /\ HistoryInv /\ History!Init
  BY LeaseInit, HistoryInit
<1>2. TypeOK /\ LeaseInv /\ [Next]_vars => LeaseInv'
  BY LeaseStep
<1>3. TypeOK /\ TypeOK' /\ LeaseInv /\ HistoryInv /\ [Next]_vars
        => HistoryInv' /\ [History!Publish]_ref
  BY HistoryStep
<1> QED BY <1>1, <1>2, <1>3, TypeCorrect, PTL DEF Spec, RefIsHistory, History!Spec

============================================================================
