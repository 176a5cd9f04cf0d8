---------------------------- MODULE RemoteFetch ----------------------------
(***************************************************************************)
(* clone_remote and fetch_remote (clone.rs, fetch.rs): a device reads the  *)
(* control files of the remote, checks the whole graph of the head, copies *)
(* the objects it lacks and then replaces its own control files one by     *)
(* one.  Its objects are written in place, its control files by renames.   *)
(* Which keyring it keeps, and the floors, are those of ControlPlane.      *)
(***************************************************************************)
EXTENDS RemoteFiles

VARIABLES objects, \* its objects: none, good, or bad (torn, damaged)
          records, \* its control files: default ref, layout root, pointer, branch files
          work,    \* the operation it runs
          done     \* the operation that succeeded last, while nothing happened since

deviceVars == <<objects, records, work, done>>

Default == "default"
Layout == "layout"
Pointer == "pointer"

\* Branch files are in a directory of their own.
ASSUME DeviceAssumption ==
  /\ Branches \cap {Default, Layout, Pointer} = {}
  /\ \A s \in Settings : s.cloned \subseteq Branches

\* branch and head of a default ref.
At(b, h) == [branch |-> b, head |-> h]
NoRef == At("none", 0)

Is(v) == [state |-> "whole", value |-> v]
Without(r, state) == [state |-> state, value |-> IF r = Default THEN NoRef ELSE 0]

Idle == [op |-> "none", pc |-> "idle", ref |-> NoRef, control |-> << >>, mode |-> "none",
         plan |-> FALSE, loose |-> {}, todo |-> {}, open |-> << >>, next |-> << >>,
         before |-> {}]

Have(o) == o \in DOMAIN objects
IsGood(o) == Have(o) /\ objects[o] = Good
GoodObjects == {o \in DOMAIN objects : objects[o] = Good}

\* verify_ref: the default ref opens and its whole graph is there and authenticates.
Whole(h) == \A o \in Graph(h) : IsGood(o)
DefaultIsWhole == records[Default].state = "whole" /\ Whole(records[Default].value.head)

NoRecords == [r \in {Default, Layout, Pointer} \cup Branches |-> Without(r, "absent")]

\* The device has cloned a branch, or its directory is empty.
DeviceInit ==
  /\ done = "none" /\ work = Idle
  /\ \/ setup.cloned = {} /\ objects = << >> /\ records = NoRecords
     \/ \E b \in setup.cloned :
          /\ objects = [o \in Graph(Heads[b]) |-> Good]
          /\ records = [NoRecords EXCEPT ![Default] = Is(At(b, Heads[b])), ![Layout] = Is(1),
                                         ![Pointer] = Is(1), ![b] = Is(Heads[b])]

Running(op, pc) == work.op = op /\ work.pc = pc /\ work.open = << >>
Fetching(pc) == work.op \in {"clone", "fetch"} /\ work.pc = pc /\ work.open = << >>

MayRun(op) == work = Idle /\ used.runs < setup.runs /\ op \in setup.ops
Run == used' = [used EXCEPT !.runs = @ + 1] /\ done' = "none"

\* A file of the remote fails, between operations of the device.
RemoteDamage ==
  /\ work = Idle /\ used.rot < setup.rot
  /\ \E o \in LooseIds : files' = [files EXCEPT ![ObjectPath(o)] = TornFile]
  /\ used' = [used EXCEPT !.rot = @ + 1]
  /\ UNCHANGED <<setup, parent, pusher, deviceVars>>

\* An object of the device fails, or vanishes.
Damage ==
  /\ work = Idle /\ used.damage < setup.damage
  /\ \E o \in GoodObjects :
       objects' \in {[objects EXCEPT ![o] = Bad], [x \in DOMAIN objects \ {o} |-> objects[x]]}
  /\ used' = [used EXCEPT !.damage = @ + 1]
  /\ done' = "none"
  /\ UNCHANGED <<setup, parent, files, pusher, records, work>>

(***************************************************************************)
(* Reading the control files                                               *)
(***************************************************************************)
\* classify_repository_sync_mode: without a pointer there must be no objects;
\* without objects the pointer of the remote is looked for among all refs.
Mode ==
  CASE records[Pointer].state = "absent" /\ objects = << >> -> "replace"
    [] records[Pointer].state = "torn" /\ objects = << >> -> "replace"
    [] records[Pointer].state = "whole" /\ (objects = << >> => RefsDecode) /\ Decodes(PointerPath) ->
         IF records[Pointer].value = files[PointerPath].value THEN "unchanged" ELSE "changed"
    [] OTHER -> "mismatch"

PointerIsFound == Decodes(PointerPath) /\ RefsDecode /\ PointerPath \in ListedRefs

Control(b) == [head |-> files[RefPath(b)].value, pointer |-> files[PointerPath].value,
               layout |-> files[LayoutPath].value]

\* read_remote_control_plane; the pointer is looked for by listing all refs.
\* The code reads ref, pointer and layout one after another (fetch.rs 273-277);
\* here nothing comes between them.
ControlReads(b) == Decodes(RefPath(b)) /\ PointerIsFound /\ Decodes(LayoutPath)

\* clone_remote: the directory is empty, and a password is given.
StartClone(b) ==
  /\ MayRun("clone") /\ Run
  /\ objects = << >> /\ records = NoRecords
  /\ ControlReads(b)
  /\ work' = [Idle EXCEPT !.op = "clone", !.pc = "list", !.mode = "replace", !.plan = TRUE,
                          !.ref = At(b, Control(b).head), !.control = Control(b)]
  /\ UNCHANGED <<setup, parent, files, pusher, objects, records>>

\* fetch_remote, with a password or without.
StartFetch(b) ==
  /\ MayRun("fetch") /\ Run
  /\ ControlReads(b) /\ Mode # "mismatch"
  /\ \E password \in BOOLEAN :
       /\ Mode = "replace" => password
       /\ work' = [Idle EXCEPT !.op = "fetch", !.pc = "list", !.mode = Mode,
                               !.plan = password /\ Mode # "changed",
                               !.ref = At(b, Control(b).head), !.control = Control(b),
                               !.before = GoodObjects]
  /\ UNCHANGED <<setup, parent, files, pusher, objects, records>>

\* list_physical("objects/"), after the ref was read.
ListObjects ==
  /\ Fetching("list")
  /\ work' = [work EXCEPT !.pc = "validate", !.loose = LooseIds]
  /\ UNCHANGED <<fileVars, objects, records, done>>

(***************************************************************************)
(* Validation: prepare_remote_fetch_plan, or, without a plan,              *)
(* validate_remote_ref_consistency_if_locally_unlocked.                    *)
(***************************************************************************)
Authentic(o, loose) == o \in Packed \cup loose /\ RemoteBytes(o) = Good

\* Mutant: only the manifests are read, not the chunks they name.
RemoteIsWhole_manifests(h, loose) == \A o \in ManifestsOf(h) : Authentic(o, loose)

RemoteIsWhole(h, loose) == \A o \in Graph(h) : Authentic(o, loose)

\* local_control_plane_matches_remote, and verify_ref.
UpToDate ==
  /\ work.mode = "unchanged"
  /\ records[Default] = Is(work.ref)
  /\ records[Layout] = Is(work.control.layout)
  /\ DefaultIsWhole

FetchReturns(result) == work' = Idle /\ done' = result

Validate ==
  /\ Fetching("validate") /\ RemoteIsWhole(work.ref.head, work.loose)
  /\ IF UpToDate THEN (FetchReturns("fetch") /\ UNCHANGED <<objects, records>>)
     ELSE /\ work' = [work EXCEPT !.pc = "copy",
                                  !.todo = IF work.plan THEN Graph(work.ref.head) ELSE work.loose]
          /\ UNCHANGED <<objects, records, done>>
  /\ UNCHANGED fileVars

(***************************************************************************)
(* Copying.  The bytes of a plan are the validated ones; without a plan    *)
(* the loose objects are read again, then the packed ones.                 *)
(***************************************************************************)
BytesFor(o) == IF work.plan \/ work.pc = "packed" THEN Good
               ELSE IF Decodes(ObjectPath(o)) THEN Good ELSE Bad

Copying == Fetching("copy") \/ Fetching("packed")

\* classify_local_object_health, on a device that can open its objects.
\* Mutant: what is there is written again.
Needed_all(o) == TRUE

Needed(o) == ~IsGood(o)

StartWrite(o, bytes) ==
  /\ objects' = With(objects, o, Bad)
  /\ work' = [work EXCEPT !.open = <<o, bytes>>, !.todo = @ \ {o}]

\* std::fs::write truncates the file first.
CopyObject(o) ==
  /\ Copying /\ o \in work.todo
  /\ IF Needed(o) THEN StartWrite(o, BytesFor(o))
     ELSE (work' = [work EXCEPT !.todo = @ \ {o}] /\ UNCHANGED objects)
  /\ UNCHANGED <<fileVars, records, done>>

FinishWrite ==
  /\ work.open # << >> /\ work.pc # "control"
  /\ objects' = With(objects, work.open[1], work.open[2])
  /\ work' = [work EXCEPT !.open = << >>]
  /\ UNCHANGED <<fileVars, records, done>>

CopyPacked ==
  /\ Fetching("copy") /\ work.todo = {} /\ ~work.plan
  /\ work' = [work EXCEPT !.pc = "packed", !.todo = Packed]
  /\ UNCHANGED <<fileVars, objects, records, done>>

(***************************************************************************)
(* The control files                                                       *)
(***************************************************************************)
\* The order in which the control files are replaced.
ControlFiles == <<Default, Layout, Pointer, work.ref.branch>>

ValueOf(r) == CASE r = Default -> work.ref
                [] r = Layout -> work.control.layout
                [] r = Pointer -> work.control.pointer
                [] OTHER -> work.ref.head

\* Mutant: the control files are replaced while objects are still missing.
CopyDone_early ==
  /\ Copying /\ work.mode # "replace"
  /\ work' = [work EXCEPT !.pc = "control", !.next = ControlFiles]
  /\ UNCHANGED <<fileVars, objects, records, done>>

\* verify_replace_local_state: what was copied must be the whole graph.
CopyDone ==
  /\ work.todo = {}
  /\ Fetching("packed") \/ (Fetching("copy") /\ work.plan)
  /\ work.mode = "replace" => Whole(work.ref.head)
  /\ work' = [work EXCEPT !.pc = "control", !.next = ControlFiles]
  /\ UNCHANGED <<fileVars, objects, records, done>>

\* atomic_write_bytes: a temporary file and a rename.
ReplaceControlFile ==
  /\ Fetching("control") /\ work.next # << >>
  /\ records' = [records EXCEPT ![Head(work.next)] = Is(ValueOf(Head(work.next)))]
  /\ work' = [work EXCEPT !.next = Tail(@)]
  /\ UNCHANGED <<fileVars, objects, done>>

FetchDone ==
  /\ Running("fetch", "control") /\ work.next = << >>
  /\ FetchReturns("fetch")
  /\ UNCHANGED <<fileVars, objects, records>>

\* It opens what it got.
CloneDone ==
  /\ Running("clone", "control") /\ work.next = << >> /\ DefaultIsWhole
  /\ FetchReturns("clone")
  /\ UNCHANGED <<fileVars, objects, records>>

\* The graph does not authenticate.  A clone removes what it made.
FetchFails ==
  /\ Fetching("validate") /\ ~RemoteIsWhole(work.ref.head, work.loose)
  /\ IF work.op = "clone" THEN (objects' = << >> /\ records' = NoRecords)
     ELSE UNCHANGED <<objects, records>>
  /\ FetchReturns("none")
  /\ UNCHANGED fileVars

Crash ==
  /\ work # Idle /\ used.crashes < setup.crashes
  /\ used' = [used EXCEPT !.crashes = @ + 1]
  /\ work' = Idle /\ done' = "none"
  /\ UNCHANGED <<setup, parent, files, pusher, objects, records>>

FetchStep ==
  \/ \E b \in Branches : StartClone(b) \/ StartFetch(b)
  \/ \E o \in work.todo : CopyObject(o)
  \/ ListObjects \/ Validate \/ FinishWrite \/ CopyPacked \/ CopyDone
  \/ ReplaceControlFile \/ FetchDone \/ CloneDone \/ FetchFails
  \/ Damage \/ RemoteDamage \/ Crash
=============================================================================
