----------------------------- MODULE Publisher -----------------------------
(***************************************************************************)
(* Publishing a branch head to a shared remote: push_head and resume_push  *)
(* (push.rs) driving SimpleTransactionPublisher (publisher.rs).  A writer  *)
(* is a device with its own local repository; a step of its operation is   *)
(* one call to the remote, so the steps of different devices interleave    *)
(* as their calls do.                                                      *)
(*                                                                         *)
(* The remote offers put, put-if-absent, get, stat, delete and a "compare  *)
(* and swap" of the ref that every backend implements as a read followed   *)
(* by a put.  A snapshot stands for itself and everything its tree         *)
(* reaches.  Layout roots, pack indexes and keyring files are not here.    *)
(***************************************************************************)
EXTENDS Naturals, Sequences, SequencesExt

CONSTANTS
  Writers,        \* devices
  Expiry,         \* age beyond which a lease is stale (72 hours)
  UseLease,       \* the publisher takes a writer lease
  Overlap,        \* two devices may have an operation running at a time
  ResumeEnabled,  \* resume_push is used
  SharedOp,       \* every device names its pushes alike ("gui-push")
  RepoLock,       \* no commit while an operation of the device runs
  MaxTime,        \* bound on the remote clock
  MaxCommits,     \* bound on the commits of a writer
  MaxOps          \* bound on the pushes of a writer

ASSUME ConstantsAssumption ==
  /\ Expiry \in Nat
  /\ {UseLease, Overlap, ResumeEnabled, SharedOp, RepoLock} \subseteq BOOLEAN
  /\ {MaxTime, MaxCommits, MaxOps} \subseteq Nat
  /\ ~(SharedOp /\ ResumeEnabled)    \* the GUI has no resume

VARIABLES
  \* the remote
  now,        \* its clock
  ref,        \* the branch ref: [version, chain]; version 0 is "missing"
  stored,     \* snapshots whose whole graph is on the remote
  lease,      \* leases/<branch>.lock: at most one [op, at] record
  intents,    \* transactions/active/*.intent: [op, expected, head] records
  \* each local repository
  local,      \* chain of the checked out head, oldest snapshot first
  made,       \* snapshots committed so far
  journal,    \* object records of the latest operation
  planned,    \* the snapshot chain whose objects it planned
  expected,   \* its expected_ref_version, in the metadata; 0 is None
  \* each device's operation
  pc,         \* next step
  n,          \* number of the latest operation
  mode,       \* "push", "resume", or "matched": a resume that found the
              \*   remote ref equal to the local one
  snap,       \* exported head snapshot, with its ancestors
  next,       \* chain named by the ref bytes it will publish
  observed    \* remote time read with the probe

remote == <<now, ref, stored, lease, intents>>
repo   == <<local, made, journal, planned, expected>>
op     == <<n, mode, snap, next, observed>>
vars   == <<remote, repo, pc, op>>

Commits == Writers \X Nat
Chains  == Seq(Commits)
Ops     == Writers \X Nat
Op(w)   == IF SharedOp THEN <<CHOOSE v \in Writers : TRUE, 0>> ELSE <<w, n[w]>>

NoRef == [version |-> 0, chain |-> << >>]

\* Mutant: a lease that is exactly Expiry old counts as stale.
Stale_early(at, time) == time - at >= Expiry

Stale(at, time) == time - at > Expiry

\* The newest snapshot of a chain, as a set, and the others.
Snapshot(chain)  == {chain[i] : i \in {Len(chain)} \cap DOMAIN chain}
Ancestors(chain) == {chain[i] : i \in DOMAIN chain \ {Len(chain)}}

HeldBy(o)     == \E l \in lease : l.op = o
LeaseFile(o)  == {[op |-> o, at |-> now]}
Intent(w)     == [op |-> Op(w), expected |-> expected[w], head |-> Snapshot(snap[w])]

At(w, step)   == pc[w] = step
GoTo(w, step) == pc' = [pc EXCEPT ![w] = step]

\* The lease is skipped unless the backend is a single-writer one with an
\* atomic create.
Begin == IF UseLease THEN "acquire" ELSE "open"

Init ==
  /\ now = 0 /\ ref = NoRef /\ stored = {} /\ lease = {} /\ intents = {}
  /\ local = [w \in Writers |-> << >>]
  /\ made = [w \in Writers |-> 0]
  /\ journal = [w \in Writers |-> "none"]
  /\ planned = [w \in Writers |-> << >>]
  /\ expected = [w \in Writers |-> 0]
  /\ pc = [w \in Writers |-> "idle"]
  /\ n = [w \in Writers |-> 0]
  /\ mode = [w \in Writers |-> "push"]
  /\ snap = [w \in Writers |-> << >>]
  /\ next = [w \in Writers |-> << >>]
  /\ observed = [w \in Writers |-> 0]

----------------------------------------------------------------------------
(* The local repository and the clock.                                     *)

Tick ==
  /\ now < MaxTime
  /\ now' = now + 1
  /\ UNCHANGED <<ref, stored, lease, intents, repo, pc, op>>

Commit(w) ==
  /\ RepoLock => At(w, "idle")
  /\ made[w] < MaxCommits
  /\ made' = [made EXCEPT ![w] = @ + 1]
  /\ local' = [local EXCEPT ![w] = Append(@, <<w, made[w] + 1>>)]
  /\ UNCHANGED <<remote, journal, planned, expected, pc, op>>

\* fetch_remote makes the remote ref the local one, whatever was there.
Fetch(w) ==
  /\ At(w, "idle")
  /\ ref.version > 0
  /\ local' = [local EXCEPT ![w] = ref.chain]
  /\ UNCHANGED <<remote, made, journal, planned, expected, pc, op>>

\* A journal database that cannot be opened is deleted and created anew.
LoseJournal(w) ==
  /\ At(w, "idle")
  /\ journal' = [journal EXCEPT ![w] = "none"]
  /\ expected' = [expected EXCEPT ![w] = 0]
  /\ UNCHANGED <<remote, local, made, planned, pc, op>>

----------------------------------------------------------------------------
(* The beginning of an operation, before any marker of it is on the remote. *)

MayStart(w) ==
  /\ At(w, "idle")
  /\ local[w] # << >>
  /\ ~Overlap => \A v \in Writers : At(v, "idle")

StartPush(w) ==
  /\ MayStart(w)
  /\ n[w] < MaxOps
  /\ n' = [n EXCEPT ![w] = @ + 1]
  /\ journal' = [journal EXCEPT ![w] = "none"]
  /\ mode' = [mode EXCEPT ![w] = "push"]
  /\ snap' = [snap EXCEPT ![w] = local[w]]
  /\ GoTo(w, "readRef")
  /\ UNCHANGED <<remote, local, made, planned, expected, next, observed>>

\* Resume names an operation that was pushed before; nothing is asked about
\* how that push ended.
StartResume(w) ==
  /\ ResumeEnabled
  /\ MayStart(w)
  /\ n[w] > 0
  /\ mode' = [mode EXCEPT ![w] = "resume"]
  /\ snap' = [snap EXCEPT ![w] = local[w]]
  /\ GoTo(w, "readRef")
  /\ UNCHANGED <<remote, repo, n, next, observed>>

\* Mutant: the push does not look at the history of the published head.
FastForward_any(w) == w \in Writers

\* The head may be published if the ref is missing or names an ancestor.
FastForward(w) == Snapshot(ref.chain) \subseteq Ancestors(snap[w])

\* The ref file is read again after the snapshot was exported.  A ref that
\* already names the local head ends the push.
ReadRefToPush(w) ==
  /\ At(w, "readRef") /\ mode[w] = "push"
  /\ FastForward(w)
  /\ next' = [next EXCEPT ![w] = local[w]]
  /\ expected' = [expected EXCEPT ![w] = ref.version]
  /\ GoTo(w, "ancestors")
  /\ UNCHANGED <<remote, local, made, journal, planned, n, mode, snap, observed>>

\* Mutant: the ancestors are taken to be there.
CheckAncestors_skip(w) ==
  /\ At(w, "ancestors")
  /\ journal' = [journal EXCEPT ![w] = "begun"]
  /\ GoTo(w, Begin)
  /\ UNCHANGED <<remote, local, made, planned, expected, op>>

\* Only the head's own graph is uploaded: every ancestor must be there.
CheckAncestors(w) ==
  /\ At(w, "ancestors")
  /\ Ancestors(snap[w]) \subseteq stored
  /\ journal' = [journal EXCEPT ![w] = "begun"]
  /\ GoTo(w, Begin)
  /\ UNCHANGED <<remote, local, made, planned, expected, op>>

ReadRefToResume(w) ==
  /\ At(w, "readRef") /\ mode[w] = "resume"
  /\ next' = [next EXCEPT ![w] = local[w]]
  /\ mode' = [mode EXCEPT ![w] = IF ref.chain = local[w] THEN "matched" ELSE @]
  /\ GoTo(w, "resumeUpload")
  /\ UNCHANGED <<remote, repo, n, snap, observed>>

\* Unverified journal records are uploaded if there are any; otherwise what
\* the head reaches is.  A resume whose ref and control plane are already on
\* the remote goes on to remove its markers.
ResumeUpload(w) ==
  /\ At(w, "resumeUpload")
  /\ stored' = stored \cup
       Snapshot(IF journal[w] = "planned" THEN planned[w] ELSE snap[w])
  /\ journal' = [journal EXCEPT ![w] = "verified"]
  /\ \/ GoTo(w, Begin)
     \/ mode[w] = "matched" /\ GoTo(w, "cleanIntent")
  /\ UNCHANGED <<now, ref, lease, intents, local, made, planned, expected, op>>

----------------------------------------------------------------------------
(* The end of an operation: completed, failed, or found to be complete.    *)

Done(w) ==
  /\ GoTo(w, "idle")
  /\ mode' = [mode EXCEPT ![w] = "push"]
  /\ snap' = [snap EXCEPT ![w] = << >>]
  /\ next' = [next EXCEPT ![w] = << >>]
  /\ observed' = [observed EXCEPT ![w] = 0]
  /\ UNCHANGED n

\* A crash, or any of the errors the steps return: nothing is undone, and
\* the expected version survives only if the journal was begun.
Fail(w) ==
  /\ ~At(w, "idle")
  /\ Done(w)
  /\ expected' = [expected EXCEPT ![w] = IF journal[w] = "none" THEN 0 ELSE @]
  /\ UNCHANGED <<remote, local, made, journal, planned>>

RemoveIntent(w) == intents' = {i \in intents : i.op # Op(w)}

CleanIntent(w) ==
  /\ At(w, "cleanIntent")
  /\ RemoveIntent(w)
  /\ GoTo(w, "cleanLease")
  /\ UNCHANGED <<now, ref, stored, lease, repo, op>>

CleanLease(w) ==
  /\ At(w, "cleanLease")
  /\ IF HeldBy(Op(w)) THEN GoTo(w, "cleanDelete") /\ UNCHANGED op
                      ELSE Done(w)
  /\ UNCHANGED <<remote, repo>>

CleanDelete(w) ==
  /\ At(w, "cleanDelete")
  /\ lease' = {}
  /\ Done(w)
  /\ UNCHANGED <<now, ref, stored, intents, repo>>

Close(w) ==
  /\ At(w, "close")
  /\ RemoveIntent(w)
  /\ IF UseLease THEN GoTo(w, "release") /\ UNCHANGED op ELSE Done(w)
  /\ UNCHANGED <<now, ref, stored, lease, repo>>

\* complete deletes the lease without looking at it.
Release(w) ==
  /\ At(w, "release")
  /\ lease' = {}
  /\ Done(w)
  /\ UNCHANGED <<now, ref, stored, intents, repo>>

----------------------------------------------------------------------------
(* Taking the writer lease.                                                *)

\* put_physical_if_absent, taken to be atomic.
Acquire(w) ==
  /\ At(w, "acquire")
  /\ IF lease = {} THEN lease' = LeaseFile(Op(w)) /\ GoTo(w, "statOwn")
                   ELSE UNCHANGED lease /\ GoTo(w, "probe")
  /\ UNCHANGED <<now, ref, stored, intents, repo, op>>

ReadProbe(w, from, to) ==
  /\ At(w, from)
  /\ observed' = [observed EXCEPT ![w] = now]
  /\ GoTo(w, to)
  /\ UNCHANGED <<remote, repo, n, mode, snap, next>>

Probe(w) == ReadProbe(w, "probe", "stat")

\* Mutant: any lease that is there is taken over.
StatLease_any(w) ==
  /\ At(w, "stat")
  /\ lease # {}
  /\ GoTo(w, "inspect")
  /\ UNCHANGED <<remote, repo, op>>

\* A fresh lease, or none, ends the operation; a stale one is taken over.
StatLease(w) ==
  /\ At(w, "stat")
  /\ \E l \in lease : Stale(l.at, observed[w])
  /\ GoTo(w, "inspect")
  /\ UNCHANGED <<remote, repo, op>>

InspectLease(w) ==
  /\ At(w, "inspect")
  /\ lease # {}
  /\ GoTo(w, "break")
  /\ UNCHANGED <<remote, repo, op>>

BreakLease(w) ==
  /\ At(w, "break")
  /\ lease' = {}
  /\ GoTo(w, "recreate")
  /\ UNCHANGED <<now, ref, stored, intents, repo, op>>

StatOwnLease(w) ==
  /\ At(w, "statOwn")
  /\ lease # {}
  /\ GoTo(w, "stamp")
  /\ UNCHANGED <<remote, repo, op>>

\* The marker is written again with its time, over whatever is there.
PutLease(w, from, to) ==
  /\ At(w, from)
  /\ lease' = LeaseFile(Op(w))
  /\ GoTo(w, to)
  /\ UNCHANGED <<now, ref, stored, intents, repo, op>>

Stamp(w) == PutLease(w, "stamp", "open")

\* Put if absent again: a lease that appeared meanwhile ends the operation.
Recreate(w) == lease = {} /\ PutLease(w, "recreate", "statOwn")

----------------------------------------------------------------------------
(* The publish session.                                                    *)

OpenIntent(w) ==
  /\ At(w, "open")
  /\ intents' = {i \in intents : i.op # Op(w)} \cup {Intent(w)}
  /\ GoTo(w, CASE mode[w] = "push"    -> "plan"
               [] mode[w] = "resume"  -> "verifyIntent"
               [] mode[w] = "matched" -> "close")
  /\ UNCHANGED <<now, ref, stored, lease, repo, op>>

PlanObjects(w) ==
  /\ At(w, "plan")
  /\ journal' = [journal EXCEPT ![w] = "planned"]
  /\ planned' = [planned EXCEPT ![w] = snap[w]]
  /\ GoTo(w, "upload")
  /\ UNCHANGED <<remote, local, made, expected, op>>

\* Objects that were on the remote before stay unverified in the journal.
Upload(w) ==
  /\ At(w, "upload")
  /\ stored' = stored \cup Snapshot(snap[w])
  /\ \E state \in {"planned", "verified"} : journal' = [journal EXCEPT ![w] = state]
  /\ GoTo(w, "verifyIntent")
  /\ UNCHANGED <<now, ref, lease, intents, local, made, planned, expected, op>>

IntentValid(w) == Intent(w) \in intents
LeaseValid(w)  == UseLease => HeldBy(Op(w))

\* A heartbeat during the upload: both markers are read, then both put.  The
\* intent is put as it was, which changes nothing here (its age counts for
\* collections, see GarbageCollection), so the lease's put is the only step,
\* and operations without a lease have none.
Beat(w) ==
  /\ At(w, "upload")
  /\ UseLease
  /\ IntentValid(w) /\ LeaseValid(w)
  /\ GoTo(w, "beatPut")
  /\ UNCHANGED <<remote, repo, op>>

BeatPut(w) == PutLease(w, "beatPut", "upload")

\* The renewal of an old intent puts it as it was.
VerifyIntent(w) ==
  /\ At(w, "verifyIntent")
  /\ IntentValid(w)
  /\ GoTo(w, "verifyRef")
  /\ UNCHANGED <<remote, repo, op>>

AfterVerify(w) == IF mode[w] = "push" THEN "casRead" ELSE "verifyObjects"

\* An expected version of None is not compared.
VerifyRef(w) ==
  /\ At(w, "verifyRef")
  /\ expected[w] = 0 \/ ref.version = expected[w]
  /\ GoTo(w, IF UseLease THEN "verifyLease" ELSE AfterVerify(w))
  /\ UNCHANGED <<remote, repo, op>>

\* The lease is renewed when the device's own clock says so and the remote
\* says that it is stale.
VerifyLease(w) ==
  /\ At(w, "verifyLease")
  /\ LeaseValid(w)
  /\ \E step \in {AfterVerify(w), "renewProbe"} : GoTo(w, step)
  /\ UNCHANGED <<remote, repo, op>>

RenewProbe(w) == ReadProbe(w, "renewProbe", "renewStat")

RenewStat(w) ==
  /\ At(w, "renewStat")
  /\ \E l \in lease :
       GoTo(w, IF Stale(l.at, observed[w]) THEN "renew" ELSE AfterVerify(w))
  /\ UNCHANGED <<remote, repo, op>>

Renew(w) == PutLease(w, "renew", AfterVerify(w))

\* A resume asks the remote for what its head reaches; a push relies on the
\* inventory it took before uploading.
VerifyObjects(w) ==
  /\ At(w, "verifyObjects")
  /\ Snapshot(snap[w]) \subseteq stored
  /\ GoTo(w, "casRead")
  /\ UNCHANGED <<remote, repo, op>>

CasRead(w) ==
  /\ At(w, "casRead")
  /\ ref.version = expected[w]
  /\ GoTo(w, "casWrite")
  /\ UNCHANGED <<remote, repo, op>>

CasWrite(w) ==
  /\ At(w, "casWrite")
  /\ ref' = [version |-> expected[w] + 1, chain |-> next[w]]
  /\ GoTo(w, "close")
  /\ UNCHANGED <<now, stored, lease, intents, repo, op>>

----------------------------------------------------------------------------

Repository(w) == Commit(w) \/ Fetch(w) \/ LoseJournal(w)

Starting(w) ==
  \/ StartPush(w) \/ ReadRefToPush(w) \/ CheckAncestors(w)
  \/ StartResume(w) \/ ReadRefToResume(w) \/ ResumeUpload(w)

Leasing(w) ==
  \/ Acquire(w) \/ Probe(w) \/ StatLease(w) \/ InspectLease(w)
  \/ BreakLease(w) \/ Recreate(w) \/ StatOwnLease(w) \/ Stamp(w)

Publishing(w) ==
  \/ OpenIntent(w) \/ PlanObjects(w) \/ Upload(w) \/ Beat(w) \/ BeatPut(w)
  \/ VerifyIntent(w) \/ VerifyRef(w) \/ VerifyLease(w)
  \/ RenewProbe(w) \/ RenewStat(w) \/ Renew(w)
  \/ VerifyObjects(w) \/ CasRead(w) \/ CasWrite(w)

Ending(w) ==
  \/ Fail(w) \/ CleanIntent(w) \/ CleanLease(w) \/ CleanDelete(w)
  \/ Close(w) \/ Release(w)

Next ==
  \/ Tick
  \/ \E w \in Writers :
       Repository(w) \/ Starting(w) \/ Leasing(w) \/ Publishing(w) \/ Ending(w)

Spec == Init /\ [][Next]_vars

----------------------------------------------------------------------------
Steps ==
  {"idle", "readRef", "ancestors", "resumeUpload",
   "cleanIntent", "cleanLease", "cleanDelete",
   "acquire", "probe", "stat", "inspect", "break", "recreate",
   "statOwn", "stamp", "open", "plan", "upload", "beatPut",
   "verifyIntent", "verifyRef", "verifyLease", "renewProbe", "renewStat",
   "renew", "verifyObjects", "casRead", "casWrite", "close", "release"}

\* Steps at which an operation that takes leases relies on holding one.
Holding ==
  {"statOwn", "stamp", "open", "plan", "upload", "beatPut",
   "verifyIntent", "verifyRef", "verifyLease", "renewProbe", "renewStat",
   "renew", "verifyObjects", "casRead", "casWrite", "close", "release"}

\* Steps between opening the intent and removing it.
Announced ==
  {"plan", "upload", "beatPut", "verifyIntent", "verifyRef", "verifyLease",
   "renewProbe", "renewStat", "renew", "verifyObjects", "casRead",
   "casWrite", "close"}

\* The shape of the state; a marker file is one file.
TypeOK ==
  /\ now \in Nat
  /\ ref \in [version : Nat, chain : Chains]
  /\ stored \subseteq Commits
  /\ lease \subseteq [op : Ops, at : Nat]
  /\ \A l, m \in lease : l = m
  /\ intents \subseteq [op : Ops, expected : Nat, head : SUBSET Commits]
  /\ \A i, j \in intents : i.op = j.op => i = j
  /\ local \in [Writers -> Chains]
  /\ made \in [Writers -> Nat]
  /\ journal \in [Writers -> {"none", "begun", "planned", "verified"}]
  /\ planned \in [Writers -> Chains]
  /\ expected \in [Writers -> Nat]
  /\ pc \in [Writers -> Steps]
  /\ n \in [Writers -> Nat]
  /\ mode \in [Writers -> {"push", "resume", "matched"}]
  /\ snap \in [Writers -> Chains]
  /\ next \in [Writers -> Chains]
  /\ observed \in [Writers -> Nat]

\* From the moment an operation has its lease until it releases it, the
\* lease file is there and is its own: nobody deletes it, takes it over or
\* writes over it (publisher.rs: begin, heartbeat, complete).
LeaseHeld ==
  UseLease =>
    \A w \in Writers : pc[w] \in Holding =>
      lease # {} /\ \A l \in lease : l.op = Op(w)

\* The ref never names a chain with a snapshot that is not on the remote.
AncestorClosure == \A i \in DOMAIN ref.chain : ref.chain[i] \in stored

\* The ref moves as RefHistory says: no published snapshot is dropped, none
\* is published twice, and every version is used once.
History == INSTANCE RefHistory WITH Snapshots <- Commits, ref <- ref
RefIsHistory == History!Spec

\* One operation at most has the lease, from acquiring it to the delete that
\* ends it, and then the lease file is there and is its own.
Owning == Holding \cup {"cleanDelete"}

Exclusive ==
  UseLease =>
    \A w \in Writers : pc[w] \in Owning =>
      lease # {} /\ \A l \in lease : l.op = Op(w)

OneHolder ==
  /\ Exclusive
  /\ UseLease => \A v, w \in Writers : {pc[v], pc[w]} \subseteq Owning => v = w

\* However operations overlap, crash, are resumed or share an identifier,
\* only a takeover ends the time in which one operation has the lease: no
\* acquire, stamp, heartbeat, renewal, release or cleanup does.  And a lease
\* that a takeover deletes was stale when the taker read the clock, unless it
\* was put since: the race of two takers, or of a taker and a holder that
\* wakes up, is the only way to delete a fresh one (publisher.rs: begin).
LeaseLostToTakeover ==
  [][/\ OneHolder => OneHolder' \/ \E w \in Writers : BreakLease(w)
     /\ \A w \in Writers : BreakLease(w) =>
          \A l \in lease : l.at >= observed[w] \/ Stale(l.at, observed[w])
    ]_vars

----------------------------------------------------------------------------
(* The environment the theorems are about: no two operations at a time, or *)
(* leases that last longer than the run and operations that are told apart. *)
(* The parts below strengthen LeaseHeld until it is inductive and carries   *)
(* the history of the ref.                                                 *)

Environment ==
  ~Overlap \/ (UseLease /\ ~SharedOp /\ MaxTime <= Expiry)

OneAtATime ==
  ~Overlap => \A v, w \in Writers : ~At(v, "idle") /\ ~At(w, "idle") => v = w

NoTakeover ==
  /\ now <= MaxTime
  /\ \A w \in Writers :
       /\ observed[w] <= MaxTime
       /\ MaxTime <= Expiry => pc[w] \notin {"inspect", "break", "recreate", "renew"}

\* What the second part of LeaseLostToTakeover needs: the clock was read
\* before, and what was there when the lease was found stale was stale.
FoundStale ==
  \A w \in Writers :
    /\ observed[w] <= now
    /\ pc[w] \in {"inspect", "break"} =>
         \A l \in lease : l.at >= observed[w] \/ Stale(l.at, observed[w])

\* A snapshot names its parent: two chains with a snapshot in common agree
\* up to it.  Commit numbers a writer's snapshots.
AllChains ==
  {ref.chain} \cup {local[w] : w \in Writers}
    \cup {snap[w] : w \in Writers} \cup {next[w] : w \in Writers}

ParentLinks ==
  \A c, d \in AllChains :
    /\ \A i \in DOMAIN c : c[i][2] <= made[c[i][1]]
    /\ \A i \in DOMAIN c : \A j \in DOMAIN d : c[i] = d[j] =>
         i = j /\ \A k \in 1..i : c[k] = d[k]

\* An expected version that is current belongs to a history that the local
\* head extends.
ExpectedVersion ==
  /\ ref.version = 0 => ref.chain = << >>
  /\ \A w \in Writers :
       /\ expected[w] <= ref.version
       /\ expected[w] = ref.version => IsPrefix(ref.chain, local[w])

Published(w) == pc[w] \in {"idle", "readRef", "close", "release"}

\* As long as the version an operation expects is current, the ref bytes it
\* holds properly extend the published chain.
ExtendsRef ==
  \A w \in Writers :
    /\ pc[w] = "readRef" => snap[w] # << >> /\ IsPrefix(snap[w], local[w])
    /\ mode[w] = "matched" =>
         pc[w] \in (Steps \ {"readRef", "ancestors"}) \ (Announced \ {"close"})
    /\ ~Published(w) /\ mode[w] # "matched" /\ expected[w] = ref.version
         => IsStrictPrefix(ref.chain, next[w])
    /\ pc[w] = "casWrite" => ref.version = expected[w]

LeaseInv == OneAtATime /\ NoTakeover /\ Exclusive

IInv ==
  /\ TypeOK
  /\ LeaseInv
  /\ ParentLinks
  /\ ExpectedVersion
  /\ ExtendsRef

----------------------------------------------------------------------------
(* AncestorClosure, made inductive: what a running push has checked and     *)
(* uploaded stays on the remote, whatever the other devices do.            *)

Checked == Steps \ {"idle", "readRef", "ancestors"}

Uploaded ==
  {"verifyIntent", "verifyRef", "verifyLease", "renewProbe", "renewStat",
   "renew", "verifyObjects", "casRead", "casWrite"}

PushedParts ==
  \A w \in Writers : mode[w] = "push" =>
    /\ pc[w] \in Checked => Ancestors(snap[w]) \subseteq stored
    /\ pc[w] \in Uploaded => Snapshot(snap[w]) \subseteq stored

\* A publication of something else than what a push checked and uploaded: by
\* a resume, or of a head that a commit moved after it was exported.
PublishesUnchecked(w) == CasWrite(w) /\ (mode[w] # "push" \/ next[w] # snap[w])

\* Nothing else publishes a chain with a snapshot that is missing: no lost
\* lease, journal, takeover or shared identifier (push.rs: push_head_inner).
ClosureLostByUnchecked ==
  [][AncestorClosure => AncestorClosure' \/ \E w \in Writers : PublishesUnchecked(w)]_vars

============================================================================
