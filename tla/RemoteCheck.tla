---------------------------- MODULE RemoteCheck ----------------------------
(***************************************************************************)
(* verify_remote, repair_remote and force_accept_remote_rollback           *)
(* (remote_maintenance.rs) on a device that has the repository: what each  *)
(* writes over the objects and control files of the device.                *)
(***************************************************************************)
EXTENDS RemoteFetch

\* The branch of the default ref must be on the remote.
OnBranch == records[Default].state = "whole" /\ ControlReads(records[Default].value.branch)
Branch == records[Default].value.branch

\* The pointer is read by name, but the branches are listed.
Begin(op, todo) ==
  /\ MayRun(op) /\ Run
  /\ records[Pointer].state = "whole" /\ OnBranch
  /\ work' = [Idle EXCEPT !.op = op, !.pc = "copy", !.todo = todo,
                          !.ref = At(Branch, Control(Branch).head), !.control = Control(Branch),
                          !.before = GoodObjects]
  /\ UNCHANGED <<setup, parent, files, pusher, objects, records>>

\* collect_remote_reachable_object_ids reads the manifests of a head.
ManifestsRead(h) == \A o \in ManifestsOf(h) : OnRemote(o) /\ RemoteBytes(o) = Good

\* collect_all_remote_reachable_object_ids: of all branches.
AllHeads == {files[RefPath(b)].value : b \in Branches}
AllReached == UNION {Graph(h) : h \in AllHeads}
AllManifestsRead == RefsDecode /\ \A h \in AllHeads : ManifestsRead(h)

\* sample_object_ids takes at least one, and all of them at 100 percent.
Samples == {AllReached} \cup {{o} : o \in AllReached}

StartVerify == AllManifestsRead /\ \E sample \in Samples : Begin("verify", sample)

StartRepair == AllManifestsRead /\ Begin("repair", AllReached)

\* The graph of the checked out branch only.
StartAccept ==
  /\ OnBranch
  /\ ManifestsRead(Control(Branch).head)
  /\ Begin("accept", Graph(Control(Branch).head))

\* A sampled object must authenticate (infer_remote_object_type); then it is
\* written over the local one, whatever that was.
\* Mutant: it is authenticated neither before nor after it is written.
VerifyObject_any(o) ==
  /\ Running("verify", "copy") /\ o \in work.todo /\ OnRemote(o)
  /\ StartWrite(o, RemoteBytes(o))
  /\ UNCHANGED <<fileVars, records, done>>

VerifyObject(o) ==
  /\ Running("verify", "copy") /\ o \in work.todo
  /\ OnRemote(o) /\ RemoteBytes(o) = Good
  /\ StartWrite(o, Good)
  /\ UNCHANGED <<fileVars, records, done>>

VerifyFails ==
  /\ Running("verify", "copy")
  /\ \E o \in work.todo : ~(OnRemote(o) /\ RemoteBytes(o) = Good)
  /\ FetchReturns("none")
  /\ UNCHANGED <<fileVars, objects, records>>

CheckDone ==
  /\ Running("verify", "copy") \/ Running("repair", "copy")
  /\ work.todo = {}
  /\ FetchReturns(work.op)
  /\ UNCHANGED <<fileVars, objects, records>>

\* repair and accept write what differs from the bytes of the remote,
\* without a look at either.
Same(o) == Have(o) /\ objects[o] = Good /\ RemoteBytes(o) = Good

RepairObject(o) ==
  /\ Running("repair", "copy") \/ Running("accept", "copy")
  /\ o \in work.todo /\ OnRemote(o)
  /\ IF Same(o) THEN work' = [work EXCEPT !.todo = @ \ {o}] /\ UNCHANGED objects
     ELSE StartWrite(o, RemoteBytes(o))
  /\ UNCHANGED <<fileVars, records, done>>

\* What is written stays.
CheckFails ==
  /\ \/ /\ Running("repair", "copy") \/ Running("accept", "copy")
        /\ \E o \in work.todo : ~OnRemote(o)
     \/ Running("accept", "control") /\ work.next = << >> /\ ~RefsDecode
  /\ FetchReturns("none")
  /\ UNCHANGED <<fileVars, objects, records>>

(***************************************************************************)
(* force_accept_remote_rollback goes on with the control files, which it   *)
(* writes in place, and the files of all branches.                         *)
(***************************************************************************)
AcceptControl ==
  /\ Running("accept", "copy") /\ work.todo = {}
  /\ work' = [work EXCEPT !.pc = "control", !.next = <<Default, work.ref.branch, Layout, Pointer>>]
  /\ UNCHANGED <<fileVars, objects, records, done>>

OpenControlFile ==
  /\ Running("accept", "control") /\ work.next # << >>
  /\ records' = [records EXCEPT ![Head(work.next)] = Without(Head(work.next), "torn")]
  /\ work' = [work EXCEPT !.open = <<Head(work.next)>>]
  /\ UNCHANGED <<fileVars, objects, done>>

WriteControlFile ==
  /\ work.op = "accept" /\ work.pc = "control" /\ work.open # << >>
  /\ records' = [records EXCEPT ![Head(work.next)] = Is(ValueOf(Head(work.next)))]
  /\ work' = [work EXCEPT !.open = << >>, !.next = Tail(@)]
  /\ UNCHANGED <<fileVars, objects, done>>

\* restore_local_branch_mirrors_from_remote.
RestoreMirrors ==
  /\ Running("accept", "control") /\ work.next = << >> /\ RefsDecode
  /\ records' = [r \in DOMAIN records |-> IF r \in Branches THEN Is(files[RefPath(r)].value)
                                          ELSE records[r]]
  /\ work' = [work EXCEPT !.pc = "verify"]
  /\ UNCHANGED <<fileVars, objects, done>>

\* unlock and verify_ref decide what is reported; nothing is taken back.
AcceptDone ==
  /\ Running("accept", "verify")
  /\ FetchReturns(IF DefaultIsWhole THEN "accept" ELSE "none")
  /\ UNCHANGED <<fileVars, objects, records>>

CheckStep ==
  \/ StartVerify \/ StartRepair \/ StartAccept
  \/ \E o \in work.todo : VerifyObject(o) \/ RepairObject(o)
  \/ VerifyFails \/ CheckFails \/ CheckDone
  \/ AcceptControl \/ OpenControlFile \/ WriteControlFile \/ RestoreMirrors \/ AcceptDone
=============================================================================
