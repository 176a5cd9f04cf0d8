----------------------------- MODULE Unlocking -----------------------------
(***************************************************************************)
(* How the processes that work in one control directory come by the        *)
(* repository secrets (keyring.rs, facade.rs).  Every envelope of a        *)
(* keyring seals the secrets; a password or the device's private key opens *)
(* one.  A process keeps what it opened, with the bytes of the pointer and *)
(* of the keyring it read then, and asks the files whether these are still *)
(* the same.  A keyring update rewrites the envelopes and is written in    *)
(* steps: journal, lock, generation file, pointer.                         *)
(***************************************************************************)
EXTENDS Integers, FiniteSets, Functions

CONSTANTS
  Processes,  \* that share the directory
  Owner,      \* the device of init; its actor is the owner
  Guests,     \* devices of other actors that are in at first, not the owner
  Invited,    \* devices of the owner that may be accepted
  Sessions    \* what an instance does, with its bounds

NoDevice == "none"
Commands == {"unlock", "clone", "commit", "change", "revoke", "accept", "retire", "fetch"}

\* A device is in at first, or may be accepted, or is the owner's.
ASSUME UnlockAssumption ==
  /\ Processes # {}
  /\ NoDevice \notin Guests \cup Invited \cup {Owner}
  /\ Guests \cap (Invited \cup {Owner}) = {} /\ Owner \notin Invited
  /\ Sessions \subseteq [overlap : BOOLEAN, clone : BOOLEAN, cmds : SUBSET Commands,
                         updates : Nat, fetches : Nat, crashes : Nat]

VARIABLES
  dir,      \* the files: keyrings, pointer, journal, lock, device, bootstrap, head
  cache,    \* what each process has unlocked
  cmd,      \* the command each process runs
  members,  \* the devices that are entitled to the secrets
  known,    \* the passwords of which one is in force, as far as was reported
  count,    \* counters of the bounds
  session

unlockVars == <<dir, cache, cmd, members, known, count, session>>

\* The keys of all epochs that are kept, and the active epoch.
NoSecrets == [epoch |-> 0, keys |-> << >>]
NoCache == [secrets |-> NoSecrets, seen |-> << >>]
NoKeyring == [gen |-> 0, epoch |-> 0, pw |-> [by |-> 0, secrets |-> NoSecrets], sealed |-> << >>]

\* A command: what it is at and at next, the password, device or generation
\* it is about, the secrets it opened, the keyring it made or fetched.
Doing(name, pc) ==
  [name |-> name, pc |-> pc, then |-> "idle", pw |-> 0, device |-> NoDevice, gen |-> 0,
   secrets |-> NoSecrets, keyring |-> NoKeyring]
NoCommand == Doing("none", "idle")

With(f, key, x) == [k \in DOMAIN f \cup {key} |-> IF k = key THEN x ELSE f[k]]

\* A new repository: a password and a device envelope, each of the same secrets.
Generated(n) == [epoch |-> 1, keys |-> [e \in {1} |-> n]]
First == [gen |-> 1, epoch |-> 1, pw |-> [by |-> 1, secrets |-> Generated(0)],
          sealed |-> [d \in Guests \cup {Owner} |-> Generated(0)]]

Cur == dir.files[dir.pointer]
Material == <<dir.pointer, Cur>>

\* An envelope is bound to the active epoch of its keyring.
PasswordOpens(k, w) == k.pw.by = w /\ k.pw.secrets.epoch = k.epoch
DeviceOpens(k, d) == d \in DOMAIN k.sealed /\ k.sealed[d].epoch = k.epoch

\* A device that was cloned by password has only the keyring it made then.
DeviceSecrets == IF DeviceOpens(Cur, dir.device) THEN Cur.sealed[dir.device] ELSE dir.bootstrap

\* Mutant: what was unlocked once stays.
Fresh_any(p) == cache[p] # NoCache

Fresh(p) == cache[p] # NoCache /\ cache[p].seen = Material

\* The ref is sealed with the key of an epoch, and names the epoch.
Sealing(s) == [epoch |-> s.epoch, key |-> s.keys[s.epoch]]
Reads(s) == dir.head.epoch \in DOMAIN s.keys /\ s.keys[dir.head.epoch] = dir.head.key

Run(p, c) == cmd' = [cmd EXCEPT ![p] = c]
To(p, pc) == Run(p, [cmd[p] EXCEPT !.pc = pc])
At(p, pc) == cmd[p].pc = pc

UnlockInit ==
  /\ session \in Sessions
  /\ dir = [files |-> [g \in {1} |-> First], pointer |-> 1, journal |-> 0, lock |-> FALSE,
            device |-> IF session.clone THEN NoDevice ELSE Owner, bootstrap |-> NoSecrets,
            head |-> Sealing(Generated(0))]
  /\ cache = [p \in Processes |-> NoCache]
  /\ cmd = [p \in Processes |-> NoCommand]
  /\ members = Guests \cup {Owner}
  /\ known = {1}
  /\ count = [updates |-> 0, fetches |-> 0, crashes |-> 0, cloned |-> FALSE]

May(p, name) ==
  /\ cmd[p] = NoCommand /\ name \in session.cmds
  /\ session.overlap \/ \A q \in Processes : cmd[q] = NoCommand

MayUpdate == count.updates < session.updates
Passwords == 1..1 + count.updates + count.fetches
NextPassword == 2 + count.updates + count.fetches

----------------------------------------------------------------------------
(* Unlocking.                                                              *)

\* The current keyring, else the one the journal names.
UnlockRepository(p, w) ==
  /\ May(p, "unlock")
  /\ \/ /\ PasswordOpens(Cur, w)
        /\ Run(p, [Doing("unlock", "cache") EXCEPT !.then = "opened", !.secrets = Cur.pw.secrets])
     \/ /\ ~PasswordOpens(Cur, w)
        /\ dir.journal \in DOMAIN dir.files /\ PasswordOpens(dir.files[dir.journal], w)
        /\ Run(p, [Doing("unlock", "recover") EXCEPT !.then = "opened", !.gen = dir.journal,
                     !.secrets = dir.files[dir.journal].pw.secrets])
  /\ UNCHANGED <<dir, cache, members, known, count, session>>

RecoverPointer(p) ==
  /\ At(p, "recover")
  /\ dir' = [dir EXCEPT !.pointer = cmd[p].gen]
  /\ To(p, "recovered")
  /\ UNCHANGED <<cache, members, known, count, session>>

RemoveJournal(p) ==
  /\ At(p, "recovered")
  /\ dir' = [dir EXCEPT !.journal = 0]
  /\ To(p, "cache")
  /\ UNCHANGED <<cache, members, known, count, session>>

\* cache_unlocked_secrets reads the material itself.
CacheSecrets(p) ==
  /\ At(p, "cache")
  /\ cache' = [cache EXCEPT ![p] = [secrets |-> cmd[p].secrets, seen |-> Material]]
  /\ To(p, cmd[p].then)
  /\ UNCHANGED <<dir, members, known, count, session>>

\* The command returns: the password it set counts, alone if commands take turns.
Return(p) ==
  /\ At(p, "opened")
  /\ Run(p, NoCommand)
  /\ known' = IF cmd[p].keyring # NoKeyring /\ ~session.overlap THEN {cmd[p].keyring.pw.by} ELSE known
  /\ UNCHANGED <<dir, cache, members, count, session>>

\* open_or_unlock_repo_secrets_with_local_device: what is cached, else what
\* the device opens, else nothing.
OpenSecrets(p, c) ==
  IF Fresh(p)
  THEN Run(p, [c EXCEPT !.secrets = cache[p].secrets]) /\ UNCHANGED cache
  ELSE /\ cache' = [cache EXCEPT ![p] = NoCache]
       /\ IF DeviceSecrets = NoSecrets THEN UNCHANGED cmd
          ELSE Run(p, [c EXCEPT !.pc = "cache", !.then = c.pc, !.secrets = DeviceSecrets])

\* A clone ends with a keyring that opens for the device alone.
StartBootstrap(p) ==
  /\ May(p, "clone") /\ session.clone /\ ~count.cloned
  /\ count' = [count EXCEPT !.cloned = TRUE]
  /\ Run(p, [Doing("clone", "cache") EXCEPT !.then = "bootstrap", !.secrets = Cur.pw.secrets])
  /\ UNCHANGED <<dir, cache, members, known, session>>

Bootstrap(p) ==
  /\ At(p, "bootstrap")
  /\ dir' = [dir EXCEPT !.bootstrap = cmd[p].secrets]
  /\ Run(p, [cmd[p] EXCEPT !.pc = "cache", !.then = "opened"])
  /\ UNCHANGED <<cache, members, known, count, session>>

----------------------------------------------------------------------------
(* A commit: it opens the secrets, looks at the ref and seals a new one.   *)

StartCommit(p) ==
  /\ May(p, "commit")
  /\ OpenSecrets(p, Doing("commit", "read"))
  /\ UNCHANGED <<dir, members, known, count, session>>

\* read_current_ref asks the cache again.
ReadRef(p) ==
  /\ At(p, "read")
  /\ IF Fresh(p) /\ Reads(cache[p].secrets) THEN To(p, "seal") ELSE Run(p, NoCommand)
  /\ cache' = [cache EXCEPT ![p] = IF Fresh(p) THEN @ ELSE NoCache]
  /\ UNCHANGED <<dir, members, known, count, session>>

SealRef(p) ==
  /\ At(p, "seal")
  /\ dir' = [dir EXCEPT !.head = Sealing(cmd[p].secrets)]
  /\ To(p, "opened")
  /\ UNCHANGED <<cache, members, known, count, session>>

----------------------------------------------------------------------------
(* Keyring updates.  Each reads the secrets first, the current keyring     *)
(* then.                                                                   *)

\* Mutant: only the envelope of the device that updates is made again.
Rebuilt_local(k, s) == [d \in {dir.device} \cap DOMAIN k.sealed |-> s]

\* The device envelopes of the keyring, sealed again.
Rebuilt(k, s) == [d \in DOMAIN k.sealed |-> s]

Random == count.updates + count.fetches + 1
Rotated(s) == [epoch |-> s.epoch + 1, keys |-> With(s.keys, s.epoch + 1, Random)]
ActiveOnly(s) == [s EXCEPT !.keys = Restrict(@, {s.epoch})]

\* Mutant: the password envelope stays as it is.
Sealed_keeps(k, s, w) == [k EXCEPT !.gen = @ + 1, !.epoch = s.epoch, !.sealed = Rebuilt(k, s)]

Sealed(k, s, w) ==
  [gen |-> k.gen + 1, epoch |-> s.epoch, pw |-> [by |-> w, secrets |-> s],
   sealed |-> Rebuilt(k, s)]

\* The keyring goes the way of write_keyring_generation_and_pointer; the
\* journal is written before the lock is asked.
Update(p, k, s) ==
  /\ dir' = [dir EXCEPT !.journal = k.gen]
  /\ Run(p, IF dir.lock THEN NoCommand ELSE [cmd[p] EXCEPT !.pc = "file", !.secrets = s, !.keyring = k])
  /\ known' = IF dir.lock THEN known ELSE known \cup {k.pw.by}

\* With the old password, past the cache.
StartChange(p) ==
  /\ May(p, "change") /\ MayUpdate
  /\ count' = [count EXCEPT !.updates = @ + 1]
  /\ Run(p, [Doing("change", "change") EXCEPT !.pw = NextPassword, !.secrets = Cur.pw.secrets])
  /\ UNCHANGED <<dir, cache, members, known, session>>

ChangePassword(p) ==
  /\ At(p, "change")
  /\ Update(p, [Sealed(Cur, cmd[p].secrets, cmd[p].pw) EXCEPT !.epoch = Cur.epoch], cmd[p].secrets)
  /\ UNCHANGED <<cache, members, count, session>>

\* Nobody checks the password: the new envelope is sealed with it.
IsAdmin == dir.device \in Invited \cup {Owner}

StartRevoke(p, d) ==
  /\ May(p, "revoke") /\ MayUpdate /\ IsAdmin /\ d \in Guests
  /\ count' = [count EXCEPT !.updates = @ + 1]
  /\ \E w \in {Cur.pw.by, NextPassword} :
       OpenSecrets(p, [Doing("revoke", "revoke") EXCEPT !.device = d, !.pw = w])
  /\ UNCHANGED <<dir, members, known, session>>

RevokeDevice(p) ==
  /\ At(p, "revoke")
  /\ LET s == Rotated(cmd[p].secrets)
         k == Sealed(Cur, s, cmd[p].pw)
     IN Update(p, [k EXCEPT !.sealed = Restrict(@, DOMAIN @ \ {cmd[p].device})], s)
  /\ members' = members \ {cmd[p].device}
  /\ UNCHANGED <<cache, count, session>>

\* Another device of the owner takes the place of this one.
StartAccept(p, d) ==
  /\ May(p, "accept") /\ MayUpdate /\ d \in Invited \ DOMAIN Cur.sealed
  /\ count' = [count EXCEPT !.updates = @ + 1]
  /\ OpenSecrets(p, [Doing("accept", "accept") EXCEPT !.device = d])
  /\ UNCHANGED <<dir, members, known, session>>

AcceptDevice(p) ==
  /\ At(p, "accept")
  /\ Update(p, [Cur EXCEPT !.gen = @ + 1, !.sealed = With(@, cmd[p].device, cmd[p].secrets)],
            cmd[p].secrets)
  /\ UNCHANGED <<cache, members, count, session>>

\* rewrite_history_to_active_epoch: the refs are sealed again, then the
\* retired keys go.
StartRetire(p) ==
  /\ May(p, "retire") /\ MayUpdate
  /\ count' = [count EXCEPT !.updates = @ + 1]
  /\ Run(p, [Doing("retire", "cache") EXCEPT !.then = "reseal", !.pw = Cur.pw.by,
                                                !.secrets = Cur.pw.secrets])
  /\ UNCHANGED <<dir, cache, members, known, session>>

ResealRefs(p) ==
  /\ At(p, "reseal")
  /\ IF Reads(cmd[p].secrets)
     THEN dir' = [dir EXCEPT !.head = Sealing(cmd[p].secrets)] /\ To(p, "retire")
     ELSE UNCHANGED dir /\ Run(p, NoCommand)
  /\ UNCHANGED <<cache, members, known, count, session>>

RetireKeys(p) ==
  /\ At(p, "retire")
  /\ LET s == ActiveOnly(cmd[p].secrets)
     IN Update(p, Sealed(Cur, s, cmd[p].pw), s)
  /\ UNCHANGED <<cache, members, count, session>>

WriteGeneration(p) ==
  /\ At(p, "file")
  /\ dir' = [dir EXCEPT !.lock = TRUE, !.files = With(@, cmd[p].keyring.gen, cmd[p].keyring)]
  /\ To(p, "pointer")
  /\ UNCHANGED <<cache, members, known, count, session>>

WritePointer(p) ==
  /\ At(p, "pointer")
  /\ dir' = [dir EXCEPT !.pointer = cmd[p].keyring.gen]
  /\ To(p, "unlock")
  /\ UNCHANGED <<cache, members, known, count, session>>

ReleaseLock(p) ==
  /\ At(p, "unlock")
  /\ dir' = [dir EXCEPT !.lock = FALSE]
  /\ To(p, "journal")
  /\ UNCHANGED <<cache, members, known, count, session>>

DropJournal(p) ==
  /\ At(p, "journal")
  /\ dir' = [dir EXCEPT !.journal = 0]
  /\ IF cmd[p].name = "accept" THEN To(p, "device")
     ELSE Run(p, [cmd[p] EXCEPT !.pc = "cache", !.then = "opened"])
  /\ UNCHANGED <<cache, members, known, count, session>>

\* The keyring that opens for the new device is there before its credential.
WriteDevice(p) ==
  /\ At(p, "device")
  /\ dir' = [dir EXCEPT !.device = cmd[p].device]
  /\ members' = members \cup {cmd[p].device}
  /\ Run(p, [cmd[p] EXCEPT !.pc = "cache", !.then = "opened"])
  /\ UNCHANGED <<cache, known, count, session>>

----------------------------------------------------------------------------
(* A fetch brings a keyring another device published, and the ref it       *)
(* sealed; it asks no lock.                                                *)

RemoteKeyrings ==
  LET s == Cur.pw.secrets
  IN {Sealed(Cur, s, NextPassword), Sealed(Cur, Rotated(s), Cur.pw.by)}

StartFetch(p) ==
  /\ May(p, "fetch") /\ count.fetches < session.fetches
  /\ count' = [count EXCEPT !.fetches = @ + 1]
  /\ \E k \in RemoteKeyrings :
       /\ session.clone => k.epoch = Cur.epoch
       /\ Run(p, [Doing("fetch", "keyrings") EXCEPT !.keyring = k])
  /\ UNCHANGED <<dir, cache, members, known, session>>

FetchKeyrings(p) ==
  /\ At(p, "keyrings")
  /\ dir' = [dir EXCEPT !.files = With(@, cmd[p].keyring.gen, cmd[p].keyring)]
  /\ To(p, "refs")
  /\ UNCHANGED <<cache, members, known, count, session>>

FetchRefs(p) ==
  /\ At(p, "refs")
  /\ dir' = [dir EXCEPT !.head = Sealing(cmd[p].keyring.pw.secrets)]
  /\ To(p, "current")
  /\ UNCHANGED <<cache, members, known, count, session>>

FetchPointer(p) ==
  /\ At(p, "current")
  /\ dir' = [dir EXCEPT !.pointer = cmd[p].keyring.gen]
  /\ known' = {cmd[p].keyring.pw.by}
  /\ To(p, "clear")
  /\ UNCHANGED <<cache, members, count, session>>

FetchDone(p) ==
  /\ At(p, "clear")
  /\ cache' = [cache EXCEPT ![p] = NoCache]
  /\ Run(p, NoCommand)
  /\ UNCHANGED <<dir, members, known, count, session>>

\* A process dies, and with it what it had unlocked.
Crash(p) ==
  /\ cmd[p] # NoCommand /\ cmd[p].name # "fetch" /\ count.crashes < session.crashes
  /\ count' = [count EXCEPT !.crashes = @ + 1]
  /\ cache' = [cache EXCEPT ![p] = NoCache]
  /\ Run(p, NoCommand)
  /\ UNCHANGED <<dir, members, known, session>>

Starts(p) ==
  \/ \E w \in Passwords : UnlockRepository(p, w)
  \/ StartBootstrap(p) \/ StartCommit(p) \/ StartChange(p) \/ StartRetire(p) \/ StartFetch(p)
  \/ \E d \in Guests : StartRevoke(p, d)
  \/ \E d \in Invited : StartAccept(p, d)

UpdateStep(p) ==
  \/ ChangePassword(p) \/ RevokeDevice(p) \/ AcceptDevice(p) \/ ResealRefs(p) \/ RetireKeys(p)
  \/ WriteGeneration(p) \/ WritePointer(p) \/ ReleaseLock(p) \/ DropJournal(p) \/ WriteDevice(p)

FetchStep(p) == FetchKeyrings(p) \/ FetchRefs(p) \/ FetchPointer(p) \/ FetchDone(p)

UnlockNext ==
  \E p \in Processes :
    \/ Starts(p) \/ UpdateStep(p) \/ FetchStep(p)
    \/ RecoverPointer(p) \/ RemoveJournal(p) \/ CacheSecrets(p) \/ Return(p)
    \/ Bootstrap(p) \/ ReadRef(p) \/ SealRef(p)
    \/ Crash(p)

UnlockSpec == UnlockInit /\ [][UnlockNext]_unlockVars

----------------------------------------------------------------------------
Fetching == \E p \in Processes : cmd[p].name = "fetch"

(* What a process takes from its cache are the secrets of the keyring that  *)
(* is current, whichever process, clone or fetch changed it meanwhile       *)
(* (keyring.rs 343-367 compares the bytes of pointer and keyring).          *)
SecretsAreCurrent == \A p \in Processes : Fresh(p) => cache[p].secrets = Cur.pw.secrets

(* A password change, revocation, accepted device or history rewrite, cut   *)
(* off anywhere, leaves every device that is entitled to the secrets an     *)
(* envelope that opens, and what opens reads the ref (facade.rs 793-827,    *)
(* 1355-1643, 485-578, 2419-2446).                                          *)
MembersReadTheHead ==
  /\ \A d \in members : DeviceOpens(Cur, d)
  /\ ~Fetching => \A d \in members : Reads(Cur.sealed[d])

(* The password that was reported last opens the directory, or that of an   *)
(* update which was cut off (facade.rs 747-791, 4151-4197).                 *)
SomePasswordOpens ==
  \E w \in known :
    \/ PasswordOpens(Cur, w)
    \/ dir.journal \in DOMAIN dir.files /\ PasswordOpens(dir.files[dir.journal], w)
=============================================================================
