---------------------------- MODULE ControlPlane ----------------------------
(***************************************************************************)
(* The keyring, the branch ref and the trusted floor of every device, and  *)
(* what push, fetch, verify and the sharing commands do to them and to the *)
(* remote ones (facade.rs, push.rs, fetch.rs, remote_maintenance.rs).  A   *)
(* local keyring update writes a journal, a lock, the generation file and  *)
(* the pointer one after the other, and any operation may stop between two *)
(* writes.                                                                 *)
(***************************************************************************)
EXTENDS Keyring, FiniteSets, Functions

CONSTANTS
  Admins,      \* the devices of the owner
  Settings,    \* [serial, joined, rotators, changers, joiners, verifiers,
               \*   commits, updates, crashes]: pushes in turn or not, who is in at
               \*   first, who may do what, and bounds
  MaxCommits, MaxUpdates   \* the largest bounds of a setting

None == << >>
Key(n) == n

ASSUME ControlAssumption ==
  /\ Admins \subseteq Devices
  /\ \A x \in Settings : x.joined \cup x.rotators \cup x.changers \subseteq Devices
  /\ \A x \in Settings : x.joined \cap Admins # {}
  /\ \A x \in Settings : x.commits \in 0..MaxCommits /\ x.updates \in 0..MaxUpdates
  /\ {MaxCommits, MaxUpdates} \subseteq Nat
  /\ \A n \in 0..MaxUpdates : Key(n) \in Keys

VARIABLES
  loc,      \* the control directory of each device
  op,       \* what each device is doing
  floor,    \* its trusted remote state: least keyring generation and ref version
  remote,   \* keyring files, pointer ref and branch ref, with their versions
  invites,  \* bundles handed to a new device
  commits, updates, crashes,   \* so far
  set       \* the setting

vars == <<loc, op, floor, remote, invites, commits, updates, crashes, set>>

\* keyring.<n>, and keyring.<n>.bootstrap-<device>.
Name(k) == <<k.gen, "keyring">>
BootName(k, d) == <<k.gen, d>>

Cur(d) == loc[d].files[loc[d].ptr]
Joined(d) == loc[d].ptr # None
Resolves == remote.ptr \in DOMAIN remote.files
RemoteCur == remote.files[remote.ptr]
AllIn(files) == {files[n] : n \in DOMAIN files}

\* The files of f written over those of g.
Over(f, g) == [n \in DOMAIN f \cup DOMAIN g |-> IF n \in DOMAIN f THEN f[n] ELSE g[n]]

Do(d, x) == op' = [op EXCEPT ![d] = x]
Go(d, pc) == Do(d, [op[d] EXCEPT !.pc = pc])
Local(d, x) == loc' = [loc EXCEPT ![d] = x]

\* What a device is doing: where it is, what follows the keyring update to new,
\* what it has read of the remote.
NoPush  == [try |-> 0, seen |-> None, fast |-> FALSE, rver |-> 0, same |-> FALSE]
NoFetch == [ref |-> [head |-> {}, key |-> Key(0)], rver |-> 0, files |-> << >>, ptr |-> None,
            keep |-> FALSE]
Idle == [pc |-> "idle", then |-> "idle", new |-> None, push |-> NoPush, fetch |-> NoFetch]
IsIdle(d) == op[d].pc = "idle"

First(s) == [gen |-> 1, active |-> s.joined, revoked |-> {}, keys |-> <<Key(0)>>, pw |-> 1]
NoDirectory ==
  [ptr |-> None, files |-> << >>, ref |-> [head |-> {}, key |-> Key(0)],
   lock |-> FALSE, journal |-> None, loaded |-> FALSE, torn |-> FALSE]

\* The devices of the setting are in, and the first push is done.
Init ==
  /\ set \in Settings
  /\ loc = [d \in Devices |->
       IF d \in set.joined
       THEN [NoDirectory EXCEPT !.ptr = Name(First(set)), !.loaded = TRUE,
               !.files = [n \in {Name(First(set))} |-> First(set)]]
       ELSE NoDirectory]
  /\ op = [d \in Devices |-> Idle]
  /\ floor = [d \in Devices |-> [gen |-> 0, ref |-> 0]]
  /\ remote = [files |-> [n \in {Name(First(set))} |-> First(set)],
               ptr |-> Name(First(set)),
               ref |-> NoDirectory.ref, rver |-> 1]
  /\ invites = {}
  /\ commits = 0 /\ updates = 0 /\ crashes = 0

----------------------------------------------------------------------------
(* Updating the local keyring.                                             *)

\* The update of d to k, and what comes after it.  An existing lock refuses
\* it, after the journal was written.
Update(d, k, after) ==
  /\ Local(d, [loc[d] EXCEPT !.journal = Name(k)])
  /\ Do(d, IF loc[d].lock THEN Idle ELSE [after EXCEPT !.pc = "file", !.then = after.pc, !.new = k])

WriteGeneration(d) ==
  /\ op[d].pc = "file"
  /\ Local(d, [loc[d] EXCEPT !.lock = TRUE,
                 !.files = Over([n \in {Name(op[d].new)} |-> op[d].new], @)])
  /\ Go(d, "pointer")
  /\ UNCHANGED <<floor, remote, invites, commits, updates, crashes, set>>

WritePointer(d) ==
  /\ op[d].pc = "pointer"
  /\ Local(d, [loc[d] EXCEPT !.ptr = Name(op[d].new)])
  /\ Go(d, "unlock")
  /\ UNCHANGED <<floor, remote, invites, commits, updates, crashes, set>>

ReleaseLock(d) ==
  /\ op[d].pc = "unlock"
  /\ Local(d, [loc[d] EXCEPT !.lock = FALSE])
  /\ Go(d, "journal")
  /\ UNCHANGED <<floor, remote, invites, commits, updates, crashes, set>>

DropJournal(d) ==
  /\ op[d].pc = "journal"
  /\ Local(d, [loc[d] EXCEPT !.journal = None])
  /\ Do(d, [op[d] EXCEPT !.pc = op[d].then, !.then = "idle", !.new = None])
  /\ UNCHANGED <<floor, remote, invites, commits, updates, crashes, set>>

\* With the old password.
ChangePassword(d) ==
  /\ IsIdle(d) /\ Joined(d) /\ d \in set.changers /\ updates < set.updates
  /\ Cur(d).pw # NoPassword
  /\ Update(d, WithPassword(Cur(d), updates + 2), Idle)
  /\ updates' = updates + 1
  /\ UNCHANGED <<floor, remote, invites, commits, crashes, set>>

\* share_revoke_device, share_revoke_member: a new epoch with a new key.
RevokeDevice(d, m) ==
  /\ IsIdle(d) /\ Joined(d) /\ d \in set.rotators \cap Admins /\ updates < set.updates
  /\ Opens(d, Cur(d))
  /\ m \in (Cur(d).active \cup Cur(d).revoked) \ Admins
  /\ Update(d, Revoke(Cur(d), m, Key(updates + 1)), Idle)
  /\ updates' = updates + 1
  /\ UNCHANGED <<floor, remote, invites, commits, crashes, set>>

\* A password that does not open the current keyring is tried on the one the
\* journal names.
UnlockFromJournal(d) ==
  /\ IsIdle(d) /\ Joined(d)
  /\ loc[d].journal \in DOMAIN loc[d].files
  /\ loc[d].files[loc[d].journal].pw \notin {Cur(d).pw, NoPassword}
  /\ Local(d, [loc[d] EXCEPT !.ptr = loc[d].journal, !.journal = None])
  /\ UNCHANGED <<op, floor, remote, invites, commits, updates, crashes, set>>

----------------------------------------------------------------------------
(* Inviting a device, and a commit.                                        *)

Invite(d, m) ==
  /\ IsIdle(d) /\ Joined(d) /\ d \in Admins /\ m \in set.joiners
  /\ Opens(d, Cur(d))
  /\ ~Joined(m) /\ \A i \in invites : i.to # m
  /\ invites' = invites \cup {[to |-> m, kr |-> Bootstrap(Cur(d), m), ref |-> loc[d].ref]}
  /\ UNCHANGED <<loc, op, floor, remote, commits, updates, crashes, set>>

\* Into an empty directory: the bundle is the whole control directory.
Accept(i) ==
  /\ ~Joined(i.to)
  /\ Local(i.to, [NoDirectory EXCEPT
       !.ptr = BootName(i.kr, i.to), !.ref = i.ref,
       !.files = [n \in {BootName(i.kr, i.to)} |-> i.kr]])
  /\ UNCHANGED <<op, floor, remote, invites, commits, updates, crashes, set>>

Commit(d) ==
  /\ IsIdle(d) /\ Joined(d) /\ commits < set.commits
  /\ Opens(d, Cur(d)) /\ Holds(Cur(d), loc[d].ref.key)
  /\ Local(d, [loc[d] EXCEPT !.ref = [head |-> @.head \cup {commits + 1},
                                      key |-> ActiveKey(Cur(d))]])
  /\ commits' = commits + 1
  /\ UNCHANGED <<op, floor, remote, invites, updates, crashes, set>>

----------------------------------------------------------------------------
(* Push.                                                                   *)

\* The secrets for the latest epoch are the device's own or in the remote
\* keyring's envelope for it.
CanMerge(d) ==
  /\ Opens(d, Cur(d))
  /\ Epoch(RemoteCur) > Epoch(Cur(d)) => Opens(d, RemoteCur)

\* Mutant: the remote keyring is not looked at.
Reconcile_not(d, after) == Do(d, after) /\ UNCHANGED loc

\* reconcile_local_keyring_with_remote_if_needed, and what comes after it.
Reconcile(d, after) ==
  IF Resolves /\ ~SameAfterMerge(Cur(d), RemoteCur)
  THEN Update(d, Merge(Cur(d), RemoteCur), after)
  ELSE Do(d, after) /\ UNCHANGED loc

PushSteps == {"prepare", "upload", "read", "swap", "ref"}
Pushing(d) == {op[d].pc, op[d].then} \cap PushSteps # {}

StartPush(d) ==
  /\ IsIdle(d) /\ Joined(d) /\ loc[d].loaded
  /\ set.serial => \A x \in Devices : ~Pushing(x)
  /\ Resolves => CanMerge(d)
  /\ Reconcile(d, [Idle EXCEPT !.pc = "prepare",
                     !.push = [NoPush EXCEPT !.seen = IF Resolves THEN remote.ptr ELSE None]])
  /\ UNCHANGED <<floor, remote, invites, commits, updates, crashes, set>>

AllUploaded(d) ==
  /\ remote.ptr = loc[d].ptr
  /\ \A n \in DOMAIN loc[d].files :
       n \in DOMAIN remote.files /\ remote.files[n] = loc[d].files[n]

\* The local ref is opened, the remote one decoded; a push of what is there
\* is done.
Prepare(d) ==
  /\ op[d].pc = "prepare"
  /\ LET ready == /\ Opens(d, Cur(d))
                  /\ Holds(Cur(d), loc[d].ref.key)
                  /\ Holds(Cur(d), remote.ref.key)
                  /\ \/ remote.ref = loc[d].ref /\ ~AllUploaded(d)
                     \/ remote.ref.head \subseteq loc[d].ref.head /\ remote.ref.head # loc[d].ref.head
     IN Do(d, IF ready THEN [Idle EXCEPT !.pc = "upload",
                                !.push = [op[d].push EXCEPT !.fast = remote.ref = loc[d].ref,
                                                            !.rver = remote.rver]]
              ELSE Idle)
  /\ UNCHANGED <<loc, floor, remote, invites, commits, updates, crashes, set>>

\* Mutant: the current generation is taken to be there.
UploadGenerations_old(d) ==
  /\ op[d].pc = "upload"
  /\ remote' = [remote EXCEPT !.files =
       Over(Restrict(loc[d].files, DOMAIN loc[d].files \ {loc[d].ptr}), @)]
  /\ Go(d, "read")
  /\ UNCHANGED <<loc, floor, invites, commits, updates, crashes, set>>

\* Every local generation, but the file the remote pointer named.
UploadGenerations(d) ==
  /\ op[d].pc = "upload"
  /\ remote' = [remote EXCEPT !.files =
       Over(Restrict(loc[d].files, DOMAIN loc[d].files \ {op[d].push.seen}), @)]
  /\ Go(d, "read")
  /\ UNCHANGED <<loc, floor, invites, commits, updates, crashes, set>>

AfterPointer(d) ==
  IF op[d].push.fast THEN Idle
  ELSE [Idle EXCEPT !.pc = "ref", !.push = [NoPush EXCEPT !.rver = op[d].push.rver]]

\* The version is read just before the swap; "same" holds while it is the
\* remote's.
ReadPointer(d) ==
  /\ op[d].pc = "read"
  /\ Do(d, IF remote.ptr = loc[d].ptr THEN AfterPointer(d)
           ELSE [op[d] EXCEPT !.pc = "swap", !.push.same = TRUE])
  /\ UNCHANGED <<loc, floor, remote, invites, commits, updates, crashes, set>>

\* compare_and_swap reads, compares and puts (local_backend.rs 487).  Its own
\* reading falls with the put into one step here: what comes between that of
\* the version and the put is kept by "same".
SwapPointer(d) ==
  /\ op[d].pc = "swap" /\ op[d].push.same
  /\ remote' = [remote EXCEPT !.ptr = loc[d].ptr]
  /\ op' = [x \in Devices |-> IF x = d THEN AfterPointer(d)
                              ELSE IF op[x].pc = "swap" THEN [op[x] EXCEPT !.push.same = FALSE]
                              ELSE op[x]]
  /\ UNCHANGED <<loc, floor, invites, commits, updates, crashes, set>>

\* The first conflict reconciles again and goes back to the pointer.
PointerConflict(d) ==
  /\ op[d].pc = "swap" /\ ~op[d].push.same
  /\ IF op[d].push.try = 0 /\ (Resolves => CanMerge(d))
     THEN Reconcile(d, [op[d] EXCEPT !.pc = "read", !.push.try = 1])
     ELSE Do(d, Idle) /\ UNCHANGED loc
  /\ UNCHANGED <<floor, remote, invites, commits, updates, crashes, set>>

\* Mutant: the ref is published before the keyring.
PublishRef_first(d) ==
  /\ op[d].pc \in {"upload", "ref"} /\ ~op[d].push.fast
  /\ remote' = IF op[d].push.rver = remote.rver
               THEN [remote EXCEPT !.ref = loc[d].ref, !.rver = @ + 1] ELSE remote
  /\ Do(d, IF op[d].pc = "ref" THEN Idle ELSE [op[d] EXCEPT !.push.fast = TRUE])
  /\ UNCHANGED <<loc, floor, invites, commits, updates, crashes, set>>

\* The same for the ref: the code reads its version again, compares and puts;
\* here the comparison and the put are one step.
PublishRef(d) ==
  /\ op[d].pc = "ref"
  /\ remote' = IF op[d].push.rver = remote.rver
               THEN [remote EXCEPT !.ref = loc[d].ref, !.rver = @ + 1] ELSE remote
  /\ Do(d, Idle)
  /\ UNCHANGED <<loc, floor, invites, commits, updates, crashes, set>>

----------------------------------------------------------------------------
(* Fetch, verify and accepting a rollback.                                 *)

Larger(x, y) == IF x > y THEN x ELSE y
MeetsFloor(d, k, rver) == k.gen >= floor[d].gen /\ rver >= floor[d].ref
RaiseFloor(d, k, rver) ==
  floor' = [floor EXCEPT ![d] = [gen |-> Larger(@.gen, k.gen), ref |-> Larger(@.ref, rver)]]

StartFetch(d) ==
  /\ IsIdle(d) /\ Joined(d)
  /\ Do(d, [Idle EXCEPT !.pc = "control",
                       !.fetch = [NoFetch EXCEPT !.ref = remote.ref, !.rver = remote.rver]])
  /\ UNCHANGED <<loc, floor, remote, invites, commits, updates, crashes, set>>

\* Mutant: a local keyring that opens is kept, whichever is newer.
Keeps_any(d) == Opens(d, Cur(d))

\* local_keyring_is_newer_than_remote
Keeps(d) == Cur(d).gen > RemoteCur.gen /\ Opens(d, Cur(d))

\* The remote keyring opens with the device's envelope, or the local one is
\* kept; the ref must then be readable.
Fetches(d) ==
  /\ Resolves
  /\ RemoteCur.pw # NoPassword
  /\ MeetsFloor(d, RemoteCur, op[d].fetch.rver)
  /\ \/ Opens(d, RemoteCur) /\ Holds(RemoteCur, op[d].fetch.ref.key)
     \/ ~Opens(d, RemoteCur) /\ Keeps(d) /\ Holds(Cur(d), op[d].fetch.ref.key)

UpToDate(d) ==
  /\ remote.ptr = loc[d].ptr /\ op[d].fetch.ref = loc[d].ref /\ loc[d].loaded
  /\ Holds(Cur(d), loc[d].ref.key)

ReadControlPlane(d) ==
  /\ op[d].pc = "control"
  /\ IF Fetches(d) /\ ~UpToDate(d)
     THEN /\ Do(d, [op[d] EXCEPT !.pc = IF Keeps(d) THEN "putref" ELSE "putfiles",
                       !.fetch = [@ EXCEPT !.files = remote.files, !.ptr = remote.ptr,
                                           !.keep = Keeps(d)]])
          /\ Local(d, [loc[d] EXCEPT !.loaded = TRUE])
     ELSE Do(d, Idle) /\ UNCHANGED loc
  /\ UNCHANGED <<floor, remote, invites, commits, updates, crashes, set>>

PutFiles(d) ==
  /\ op[d].pc = "putfiles"
  /\ Local(d, [loc[d] EXCEPT !.files = Over(op[d].fetch.files, @)])
  /\ Go(d, "putref")
  /\ UNCHANGED <<floor, remote, invites, commits, updates, crashes, set>>

PutRef(d) ==
  /\ op[d].pc = "putref"
  /\ Local(d, [loc[d] EXCEPT !.ref = op[d].fetch.ref])
  /\ Go(d, IF op[d].fetch.keep THEN "floor" ELSE "putpointer")
  /\ UNCHANGED <<floor, remote, invites, commits, updates, crashes, set>>

PutPointer(d) ==
  /\ op[d].pc = "putpointer"
  /\ Local(d, [loc[d] EXCEPT !.ptr = op[d].fetch.ptr])
  /\ Go(d, "floor")
  /\ UNCHANGED <<floor, remote, invites, commits, updates, crashes, set>>

\* The floor is raised when all is written.
EndFetch(d) ==
  /\ op[d].pc = "floor"
  /\ RaiseFloor(d, op[d].fetch.files[op[d].fetch.ptr], op[d].fetch.rver)
  /\ Local(d, [loc[d] EXCEPT !.torn = FALSE])
  /\ Do(d, Idle)
  /\ UNCHANGED <<remote, invites, commits, updates, crashes, set>>

\* verify_remote and repair_remote: reconcile, then check and raise the floor.
StartVerify(d) ==
  /\ IsIdle(d) /\ Joined(d) /\ d \in set.verifiers
  /\ Resolves /\ CanMerge(d)
  /\ Reconcile(d, [Idle EXCEPT !.pc = "verify"])
  /\ UNCHANGED <<floor, remote, invites, commits, updates, crashes, set>>

EndVerify(d) ==
  /\ op[d].pc = "verify"
  /\ IF Resolves /\ MeetsFloor(d, RemoteCur, remote.rver) /\ Holds(RemoteCur, remote.ref.key)
     THEN RaiseFloor(d, RemoteCur, remote.rver) ELSE UNCHANGED floor
  /\ Do(d, Idle)
  /\ UNCHANGED <<loc, remote, invites, commits, updates, crashes, set>>

\* force_accept_remote_rollback, with the repository's password: the floor is
\* raised here too, and never lowered.
ForceAccept(d) ==
  /\ IsIdle(d) /\ Joined(d)
  /\ Resolves /\ Holds(RemoteCur, remote.ref.key) /\ Holds(Cur(d), loc[d].ref.key)
  /\ ~MeetsFloor(d, RemoteCur, remote.rver)
  /\ Local(d, [loc[d] EXCEPT !.files = Over(remote.files, @), !.ref = remote.ref,
                             !.ptr = remote.ptr, !.loaded = TRUE, !.torn = FALSE])
  /\ RaiseFloor(d, RemoteCur, remote.rver)
  /\ UNCHANGED <<op, remote, invites, commits, updates, crashes, set>>

----------------------------------------------------------------------------
FetchWrites == {"putfiles", "putref", "putpointer", "floor"}

\* The program stops; the files stay as they are.
Crash(d) ==
  /\ ~IsIdle(d) /\ crashes < set.crashes
  /\ Local(d, [loc[d] EXCEPT !.torn = @ \/ op[d].pc \in FetchWrites])
  /\ Do(d, Idle)
  /\ crashes' = crashes + 1
  /\ UNCHANGED <<floor, remote, invites, commits, updates, set>>

UpdateStep(d) ==
  WriteGeneration(d) \/ WritePointer(d) \/ ReleaseLock(d) \/ DropJournal(d)
PushStep(d) ==
  \/ StartPush(d) \/ Prepare(d) \/ UploadGenerations(d) \/ ReadPointer(d)
  \/ SwapPointer(d) \/ PointerConflict(d) \/ PublishRef(d)
FetchStep(d) ==
  \/ StartFetch(d) \/ ReadControlPlane(d) \/ PutFiles(d) \/ PutRef(d)
  \/ PutPointer(d) \/ EndFetch(d)

Next ==
  \/ \E d \in Devices :
       \/ ChangePassword(d) \/ UnlockFromJournal(d) \/ Commit(d)
       \/ \E m \in Devices : RevokeDevice(d, m) \/ Invite(d, m)
       \/ UpdateStep(d) \/ PushStep(d) \/ FetchStep(d)
       \/ StartVerify(d) \/ EndVerify(d) \/ ForceAccept(d)
       \/ Crash(d)
  \/ \E i \in invites : Accept(i)

Spec == Init /\ [][Next]_vars

----------------------------------------------------------------------------
(* Properties.                                                             *)

\* The file the remote pointer names is there and has the generation the
\* pointer says: else every fetch and clone fails.
PointerResolves == Resolves /\ remote.ptr[1] = RemoteCur.gen

\* A keyring without a password envelope is refused by every fetch; devices
\* that were invited start from one.
PublishedHasPassword == Resolves => RemoteCur.pw # NoPassword

\* The published ref can be decoded with the published keyring.
PublishedRefReadable == Resolves => Holds(RemoteCur, remote.ref.key)

\* What the remote keyring revokes stays revoked, whoever publishes next.
RevokedStaysRevoked ==
  [][Resolves /\ Resolves' => RemoteCur.revoked \subseteq RemoteCur'.revoked]_vars

\* The keyrings that are anywhere.
Everywhere ==
  AllIn(remote.files) \cup UNION {AllIn(loc[d].files) : d \in Devices}
  \cup {i.kr : i \in invites}

\* The key new data is written with, where a device is revoked, is in no
\* keyring that opens for the device.
RevokedLackActiveKey ==
  \A k \in Everywhere : \A m \in k.revoked : \A x \in Everywhere :
    Opens(m, x) => ~Holds(x, ActiveKey(k))

\* A device can read its own head, unless a fetch was interrupted.
LocalHeadReadable ==
  \A d \in Devices :
    Joined(d) /\ ~loc[d].torn /\ op[d].pc \notin FetchWrites => Holds(Cur(d), loc[d].ref.key)

=============================================================================
