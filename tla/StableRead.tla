----------------------------- MODULE StableRead -----------------------------
(***************************************************************************)
(* How a commit reads a file that its user may be saving (working_tree.rs, *)
(* open_stable_file).  The file is read between two looks at its length    *)
(* and time of modification; one that was modified a moment ago is read    *)
(* twice.  The time of modification is that of the file system, which may  *)
(* count in steps of two seconds.                                          *)
(***************************************************************************)
EXTENDS Integers, Sequences

CONSTANTS
  Granularities, \* of the times of modification, in seconds, of the file systems checked
  MaxTime,       \* bound on the clock
  MaxWrites      \* bound on writes

VARIABLES clock, granularity,
          file,   \* its contents, two pieces at most, and when it was modified
          writes, \* the writes so far
          read,   \* the reading under way
          held    \* the contents the file had since it began

readVars == <<clock, granularity, file, writes, read, held>>

VolatileAge == 2
Attempts == 2

Metadata == [len |-> Len(file.data), modified |-> file.modified]

\* Mutant: only what was modified this very second is read twice.
IsVolatile_less(m) == clock - m.modified < 1

\* is_volatile_source.
IsVolatile(m) == clock - m.modified < VolatileAge

NotReading == [pc |-> "idle", volatile |-> FALSE, attempt |-> 0, late |-> FALSE,
         before |-> << >>, bytes |-> << >>, first |-> << >>]

ReadingInit ==
  /\ clock = 0 /\ granularity \in Granularities
  /\ file = [data |-> <<0, 0>>, modified |-> 0]
  /\ writes = 0 /\ read = NotReading /\ held = {file.data}

Tick == clock < MaxTime /\ clock' = clock + 1 /\ UNCHANGED <<granularity, file, writes, read, held>>

(***************************************************************************)
(* The user saves: piece by piece, from the start or at the end, and never *)
(* what was there before, so that each content tells its moment.           *)
(***************************************************************************)
Modified == (clock \div granularity) * granularity

Write ==
  /\ writes < MaxWrites
  /\ writes' = writes + 1
  /\ \E data \in {[file.data EXCEPT ![i] = writes'] : i \in DOMAIN file.data}
                  \cup {<< >>} \cup (IF Len(file.data) < 2 THEN {Append(file.data, writes')} ELSE {}) :
       /\ file' = [data |-> data, modified |-> Modified]
       /\ held' = held \cup {data}
  /\ UNCHANGED <<clock, granularity, read>>

(***************************************************************************)
(* The reading                                                             *)
(***************************************************************************)
Open ==
  /\ read.pc = "idle"
  /\ read' = [NotReading EXCEPT !.pc = "classified", !.volatile = IsVolatile(Metadata), !.attempt = 1]
  /\ held' = {file.data}
  /\ UNCHANGED <<clock, granularity, file, writes>>

\* Whether the file is read once is settled when it is opened, for every
\* attempt.  "late" keeps that it was written since, before this attempt, so that
\* it is read once although it should not be: be it before the first attempt, or
\* during one that failed for it.
LookBefore ==
  /\ read.pc = "classified"
  /\ read' = [read EXCEPT !.pc = "read", !.before = Metadata, !.bytes = << >>, !.first = << >>,
                          !.late = ~read.volatile /\ IsVolatile(Metadata)]
  /\ UNCHANGED <<clock, granularity, file, writes, held>>

\* fs::read: one piece at a time, to the end of the file.
ReadPiece ==
  /\ read.pc \in {"read", "again"} /\ Len(read.bytes) < Len(file.data)
  /\ read' = [read EXCEPT !.bytes = Append(@, file.data[Len(@) + 1])]
  /\ UNCHANGED <<clock, granularity, file, writes, held>>

AtEnd == Len(read.bytes) >= Len(file.data)

Retry == IF read.attempt < Attempts
         THEN [read EXCEPT !.pc = "classified", !.attempt = @ + 1]
         ELSE [read EXCEPT !.pc = "unstable"]

\* read_with_metadata_retry.
LookAfter ==
  /\ read.pc = "read" /\ AtEnd /\ ~read.volatile
  /\ read' = IF Metadata = read.before THEN [read EXCEPT !.pc = "returned"] ELSE Retry
  /\ UNCHANGED <<clock, granularity, file, writes, held>>

\* read_volatile_with_retry: what the metadata were between and after is
\* compared once both have been read.
LookBetween ==
  /\ read.pc = "read" /\ AtEnd /\ read.volatile
  /\ read' = [read EXCEPT !.pc = "again", !.first = [bytes |-> read.bytes, between |-> Metadata],
                          !.bytes = << >>]
  /\ UNCHANGED <<clock, granularity, file, writes, held>>

LookTwice ==
  /\ read.pc = "again" /\ AtEnd
  /\ read' = IF /\ read.before = read.first.between /\ read.first.between = Metadata
                /\ read.first.bytes = read.bytes
             THEN [read EXCEPT !.pc = "returned"] ELSE Retry
  /\ UNCHANGED <<clock, granularity, file, writes, held>>

\* The commit takes the bytes, or leaves the file out with a warning.
Done ==
  /\ read.pc \in {"returned", "unstable"}
  /\ read' = NotReading
  /\ UNCHANGED <<clock, granularity, file, writes, held>>

ReadingNext == Tick \/ Write \/ Open \/ LookBefore \/ ReadPiece \/ LookAfter \/ LookBetween \/ LookTwice \/ Done

ReadingSpec == ReadingInit /\ [][ReadingNext]_readVars

----------------------------------------------------------------------------
(* The bytes a commit takes are contents the file had at one moment since  *)
(* the reading began, never the pieces of two saves, unless the file was   *)
(* classified as old and then written before the attempt that succeeds     *)
(* looked at it: between open and the first look, or while an attempt      *)
(* before it failed (working_tree.rs 103-144, 683-722).                    *)
ReadIsOneContent == read.pc = "returned" /\ ~read.late => read.bytes \in held
=============================================================================
