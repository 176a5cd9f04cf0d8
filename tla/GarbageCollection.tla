------------------------- MODULE GarbageCollection -------------------------
(***************************************************************************)
(* gc_dry_run and gc_execute (remote_maintenance.rs) over the store of     *)
(* PackIndex: a device captures a fence, marks what is reachable, writes a *)
(* delete journal, captures the fence again and deletes, one file at a     *)
(* time, what is older than the grace period.  An interrupted collection   *)
(* leaves its journal, and the next one goes on from it.                   *)
(***************************************************************************)
EXTENDS PackIndex

CONSTANTS
  Collectors,   \* the devices that collect
  Grace,        \* days a file must have been there to be deleted (at least 1)
  Unpublished,  \* days a device's own unpublished snapshot is kept (30)
  MaxGcs        \* bound on the collections

ASSUME GcAssumption ==
  Collectors \subseteq Clients /\ Grace \in Nat \ {0} /\ {Unpublished, MaxGcs} \subseteq Nat

VARIABLES
  gc,       \* each device's running collection
  journal,  \* its delete journal: fence and pending paths; << >> is none
  gcs       \* collections so far

vars == <<packVars, gc, journal, gcs>>

NoCollection == [pc |-> "idle", fence |-> << >>, todo |-> {}, latest |-> 0]

Init ==
  /\ PackInit
  /\ gc = [c \in Clients |-> NoCollection]
  /\ journal = [c \in Clients |-> << >>]
  /\ gcs = 0

----------------------------------------------------------------------------
FreshIntents == {i \in intents : now - i[3] <= Expiry}

\* What must not change while files are deleted (GcFenceState).  The leases and
\* the layout root, fenced as well, are left out: the layout does not change
\* here, and a lease left behind only keeps the code from collecting.
Fence == <<ref, FreshIntents, root>>

\* The maintenance window: nothing else runs.  gc_execute has the user confirm it
\* on backends of a single writer, which are the ones modelled; on the others a
\* push that begins after the second fence is not waited for.
Window == Quiet /\ \A c \in Clients : gc[c].pc = "idle"

Collect(c, new) == gc' = [gc EXCEPT ![c] = new]

----------------------------------------------------------------------------
(* Marking.                                                                *)

\* The snapshot of an interrupted push of this device, if it is on the remote
\* and was put there recently, as its location tells.
Snapshot(c) == Max(Graph(c, ref[c] + 1))
PathOf(c, o) == IF o \in LooseIds THEN {Loose(o)}
                ELSE {View(c)[x] : x \in {o} \cap DOMAIN View(c)}

\* The clock is the latest write among a few files.
Latest(paths) == Max({rootAt} \cup {i[3] : i \in intents}
                     \cup {file[p].at : p \in paths \cap DOMAIN file})
Recent(c) ==
  /\ ref[c] < Len(History[c])
  /\ \E p \in PathOf(c, Snapshot(c)) :
       p \in DOMAIN file => file[p].at + Unpublished > Latest({p})
Wanted(c) == Published \cup (IF Recent(c) THEN Graph(c, ref[c] + 1) ELSE {})

\* Mutant: only this device's own branch counts.
Reachable_own(c) ==
  LET wanted == UNION {Graph(c, i) : i \in 1..ref[c]}
  IN {Loose(o) : o \in wanted \ DOMAIN View(c)}
     \cup {View(c)[o] : o \in wanted \cap DOMAIN View(c)} \cup Range(root)

\* A loose copy of a packed object counts as garbage, and a segment counts as
\* reachable only if the root names it.
Reachable(c) ==
  {Loose(o) : o \in Wanted(c) \ DOMAIN View(c)}
  \cup {View(c)[o] : o \in Wanted(c) \cap DOMAIN View(c)}
  \cup Range(root)

GcFence(c) ==
  /\ Window /\ gcs < MaxGcs
  /\ journal[c] = << >>
  /\ gcs' = gcs + 1
  /\ Collect(c, [NoCollection EXCEPT !.pc = "mark", !.fence = Fence])
  /\ UNCHANGED <<packVars, journal>>

\* The device has published its branch, and every wanted object can be read.
Marks(c) ==
  /\ ref[c] > 0
  /\ Loads(c)
  /\ \A o \in Wanted(c) : Reads(View(c), o)
  /\ FreshIntents = {}

GcMark(c) ==
  /\ gc[c].pc = "mark"
  /\ Marks(c)
  /\ LET pending == DOMAIN file \ Reachable(c)
     IN /\ journal' = [journal EXCEPT ![c] = <<gc[c].fence, pending>>]
        /\ Collect(c, [gc[c] EXCEPT !.pc = "check", !.todo = pending])
  /\ cache' = [cache EXCEPT ![c] = CacheAfterLoad(c)]
  /\ UNCHANGED <<file, root, rootAt, ref, intents, now, ops, s, stops, set, gcs>>

\* A journal of an earlier collection is taken as it is.
GcReplay(c) ==
  /\ Window /\ gcs < MaxGcs
  /\ journal[c] # << >>
  /\ gcs' = gcs + 1
  /\ Collect(c, [NoCollection EXCEPT !.pc = "check", !.fence = journal[c][1],
                                     !.todo = journal[c][2]])
  /\ UNCHANGED <<packVars, journal>>

\* Mutant: the fence is not compared.
GcCheck_noFence(c) ==
  /\ gc[c].pc = "check"
  /\ Collect(c, [gc[c] EXCEPT !.pc = "delete", !.latest = Latest(gc[c].todo)])
  /\ UNCHANGED <<packVars, journal, gcs>>

\* Files are deleted whose last write is the grace period before the clock.
GcCheck(c) ==
  /\ gc[c].pc = "check"
  /\ gc[c].fence = Fence
  /\ Collect(c, [gc[c] EXCEPT !.pc = "delete", !.latest = Latest(gc[c].todo)])
  /\ UNCHANGED <<packVars, journal, gcs>>

GcAbort(c) ==
  /\ \/ gc[c].pc = "mark" /\ ~Marks(c)
     \/ gc[c].pc = "check" /\ gc[c].fence # Fence
  /\ Collect(c, NoCollection)
  /\ UNCHANGED <<packVars, journal, gcs>>

----------------------------------------------------------------------------
(* Deleting.                                                               *)

Expired(c, p) == p \in DOMAIN file /\ file[p].at + Grace <= gc[c].latest

GcDelete(c) ==
  /\ gc[c].pc = "delete"
  /\ \E p \in gc[c].todo :
       /\ file' = IF Expired(c, p) THEN [q \in DOMAIN file \ {p} |-> file[q]] ELSE file
       /\ Collect(c, [gc[c] EXCEPT !.todo = @ \ {p}])
  /\ UNCHANGED <<root, rootAt, ref, intents, now, cache, ops, s, stops, set, journal, gcs>>

\* An error of the backend leaves what is still there in the journal.
GcError(c) ==
  /\ gc[c].pc = "delete" /\ stops < MaxStops
  /\ \E p \in gc[c].todo : Expired(c, p)
  /\ journal' = [journal EXCEPT ![c] = <<gc[c].fence, gc[c].todo \cap DOMAIN file>>]
  /\ stops' = stops + 1
  /\ Collect(c, NoCollection)
  /\ UNCHANGED <<file, root, rootAt, ref, intents, now, cache, ops, s, set, gcs>>

GcDone(c) ==
  /\ gc[c].pc = "delete" /\ gc[c].todo = {}
  /\ journal' = [journal EXCEPT ![c] = << >>]
  /\ Collect(c, NoCollection)
  /\ UNCHANGED <<packVars, gcs>>

\* Before the journal is written a crash is the same as an abort.
GcCrash(c) ==
  /\ gc[c].pc \in {"check", "delete"} /\ stops < MaxStops
  /\ stops' = stops + 1
  /\ Collect(c, NoCollection)
  /\ UNCHANGED <<file, root, rootAt, ref, intents, now, cache, ops, s, set, journal, gcs>>

GcStep(c) ==
  \/ GcMark(c) \/ GcCheck(c) \/ GcAbort(c) \/ GcDelete(c) \/ GcError(c)
  \/ GcDone(c) \/ GcCrash(c)

----------------------------------------------------------------------------
Next ==
  \/ Window /\ Tick /\ UNCHANGED <<gc, journal, gcs>>
  \/ \E c \in Clients :
       \/ Window /\ (Inventory(c) \/ Fetch(c)) /\ UNCHANGED <<gc, journal, gcs>>
       \/ PushStep(c) /\ UNCHANGED <<gc, journal, gcs>>
  \/ \E c \in Collectors : GcFence(c) \/ GcReplay(c) \/ GcStep(c)

Spec == Init /\ [][Next]_vars

----------------------------------------------------------------------------
(* Properties.                                                             *)

\* Nothing is deleted while an operation that may count on it is announced by
\* a fresh intent, whether the journal is new or replayed.
DeletesSpareIntents ==
  [][ (DOMAIN file \ DOMAIN file' # {}) => FreshIntents = {} ]_vars

============================================================================
