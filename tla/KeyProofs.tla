----------------------------- MODULE KeyProofs -----------------------------
(***************************************************************************)
(* For any devices, branches, histories and bounds:                        *)
(*                                                                         *)
(* The published keyring is there, has a password envelope, and takes no   *)
(* revocation back, whatever devices change, revoke, invite, fetch, accept *)
(* and verify and wherever they stop, when pushes take turns.  KeyringInv  *)
(* says what a push relies on: from its reconciliation on, the keyring of  *)
(* the device knows what the published one says of every device, and the   *)
(* file the remote pointer names is not written over, until the pointer is *)
(* swapped.                                                                *)
(*                                                                         *)
(* A rewrite retires the old keys only when nothing is under them, with    *)
(* pushes, layout changes and crashes anywhere.  A branch is brought here  *)
(* before its objects are rewritten, and the heads of every branch descend *)
(* from its first one: only first snapshots are under the old key, and the *)
(* local heads reach all of those that have a copy.                        *)
(*                                                                         *)
(* Between rewrites every branch is readable, where pushes and runs take   *)
(* turns and what was packed at first is reached by a branch.  ReadableInv *)
(* says how a branch is read before the checkpoint of a rewrite and after  *)
(* its end, and in between what is in place already for the end.           *)
(***************************************************************************)
EXTENDS ControlPlane, LayoutInvariants, FiniteSetTheorems, SequenceTheorems, WellFoundedInduction, TLAPS

(***************************************************************************)
(* Types                                                                   *)
(***************************************************************************)
Keyrings == [gen : Nat, active : SUBSET Devices, revoked : SUBSET Devices,
             keys : Seq(Keys) \ {<< >>}, pw : Nat]
Names    == Nat \X (Devices \cup {"keyring"})
Files    == UNION {[N -> Keyrings] : N \in SUBSET Names}
Pointers == Names \cup {None}
Refs     == [head : SUBSET Nat, key : Keys]

LocalType  == [ptr : Pointers, files : Files, ref : Refs, lock : BOOLEAN,
               journal : Pointers, loaded : BOOLEAN, torn : BOOLEAN]
RemoteType == [files : Files, ptr : Names, ref : Refs, rver : Nat]
PushType   == [try : {0, 1}, seen : Pointers, fast : BOOLEAN, rver : Nat, same : BOOLEAN]
FetchType  == [ref : Refs, rver : Nat, files : Files, ptr : Pointers, keep : BOOLEAN]
Places     == {"idle", "file", "pointer", "unlock", "journal", "prepare", "upload", "read",
               "swap", "ref", "control", "putfiles", "putref", "putpointer", "floor", "verify"}
OpType     == [pc : Places, then : Places, new : Keyrings \cup {None},
               push : PushType, fetch : FetchType]
InviteType == [to : Devices, kr : Keyrings, ref : Refs]

TypeOK ==
  /\ set \in Settings
  /\ commits \in 0..set.commits /\ updates \in 0..set.updates
  /\ loc \in [Devices -> LocalType]
  /\ op \in [Devices -> OpType]
  /\ remote \in RemoteType
  /\ invites \in SUBSET InviteType

(***************************************************************************)
(* The inductive invariant.  Its parts speak of a setting s, a remote r, a *)
(* local directory x and an operation o.                                   *)
(***************************************************************************)
\* Owners are never revoked, and a keyring without a password is that of a
\* device that was invited.
Sound(s, k) ==
  /\ k.revoked \cap Admins = {}
  /\ k.pw = NoPassword => k.active \cap s.joined = {}

\* Keyring files are sound, and have the generation their name says.
Filed(s, f) == \A n \in DOMAIN f : Sound(s, f[n]) /\ f[n].gen = n[1]

\* What r says of a device, k says as well, or revokes the device.
Knows(k, r) == r.revoked \subseteq k.revoked /\ r.active \subseteq k.active \cup k.revoked

Published(r) == r.files[r.ptr]

\* The published keyring is there, and the owner's first devices are in it.
RemoteOk(s, r) ==
  /\ Filed(s, r.files)
  /\ r.ptr \in DOMAIN r.files
  /\ s.joined \cap Admins \subseteq Published(r).active

LocalOk(s, d, x) ==
  /\ Filed(s, x.files)
  /\ x.ptr # None \/ d \in s.joined => x.ptr \in DOMAIN x.files

InviteOk(s, i) == i.to \notin s.joined /\ Sound(s, i.kr)

UpdateSteps == {"file", "pointer", "unlock", "journal"}
BeforeSwap  == {"prepare", "upload", "read", "swap"}

\* A keyring update: its file, then its pointer, then what comes after it.
UpdateOk(s, x, o) ==
  /\ IF o.pc \in UpdateSteps
     THEN o.new \in Keyrings /\ Sound(s, o.new) /\ o.then \in {"idle", "prepare", "verify"}
     ELSE o.then = "idle"
  /\ o.pc \in {"pointer", "unlock", "journal"} =>
       Name(o.new) \in DOMAIN x.files /\ x.files[Name(o.new)] = o.new
  /\ o.pc \in {"unlock", "journal"} => x.ptr = Name(o.new)

\* The local files, but the one that was found published, are on the remote.
Uploaded(r, x) ==
  \A n \in DOMAIN x.files \ {r.ptr} : n \in DOMAIN r.files /\ r.files[n] = x.files[n]

PushOk(r, x, o) ==
  /\ o.then = "prepare" => o.push.seen = r.ptr /\ Knows(o.new, Published(r))
  /\ o.pc \in BeforeSwap => o.push.seen = r.ptr /\ Knows(x.files[x.ptr], Published(r))
  /\ o.pc \in {"read", "swap"} => Uploaded(r, x)
  /\ o.pc = "swap" => o.push.same /\ x.ptr # r.ptr

\* A fetch puts the files before the pointer, which names one of them.
FetchOk(s, x, o) ==
  /\ o.pc \in FetchWrites =>
       Filed(s, o.fetch.files) /\ o.fetch.ptr \in DOMAIN o.fetch.files
  /\ o.pc = "putpointer" \/ (o.pc = "putref" /\ ~o.fetch.keep) =>
       o.fetch.ptr \in DOMAIN x.files

OpOk(s, r, x, o) ==
  /\ o.pc # "idle" => x.ptr \in DOMAIN x.files
  /\ UpdateOk(s, x, o) /\ PushOk(r, x, o) /\ FetchOk(s, x, o)

Pushes(o) == {o.pc, o.then} \cap PushSteps # {}

KeyringInv ==
  /\ TypeOK
  /\ RemoteOk(set, remote)
  /\ \A d \in Devices : LocalOk(set, d, loc[d]) /\ OpOk(set, remote, loc[d], op[d])
  /\ \A i \in invites : InviteOk(set, i)
  /\ \A d, e \in Devices : Pushes(op[d]) /\ Pushes(op[e]) => d = e

(***************************************************************************)
(* Keyrings                                                                *)
(***************************************************************************)
(* A keyring that a merge would not change knows the remote one             *)
(* (comparable_keyring_state).                                              *)
LEMMA SameKnows ==
  ASSUME NEW l \in Keyrings, NEW r \in Keyrings, SameAfterMerge(l, r)
  PROVE  Knows(l, r)
<1>1. Merge(l, r).active = l.active /\ Merge(l, r).revoked = l.revoked
  BY Zenon DEF SameAfterMerge, Comparable
<1>2. MergeActive(l, r) = l.active /\ MergeRevoked(l, r) = l.revoked
  BY <1>1 DEF Merge
<1>3. QED  BY <1>2 DEF MergeActive, MergeRevoked, Knows

(* A merged keyring knows the remote one, and has its password or another  *)
(* (merge_device_records, select_password_envelope_for_active_epoch).       *)
LEMMA MergeIsSound ==
  ASSUME NEW s, NEW l \in Keyrings, NEW r \in Keyrings, Sound(s, l), Sound(s, r),
         r.pw # NoPassword
  PROVE  Merge(l, r) \in Keyrings /\ Sound(s, Merge(l, r)) /\ Knows(Merge(l, r), r)
<1> DEFINE k == Merge(l, r)
<1>1. /\ l.gen \in Nat /\ l.active \subseteq Devices /\ l.revoked \subseteq Devices
      /\ l.keys \in Seq(Keys) \ {<< >>} /\ l.pw \in Nat
      /\ r.gen \in Nat /\ r.active \subseteq Devices /\ r.revoked \subseteq Devices
      /\ r.keys \in Seq(Keys) \ {<< >>} /\ r.pw \in Nat
  BY DEF Keyrings
<1>2. /\ k.gen = MergeGen(l, r) /\ k.active = MergeActive(l, r)
      /\ k.revoked = MergeRevoked(l, r) /\ k.keys = MergeKeys(l, r)
      /\ k.pw = MergePassword(l, r)
  BY DEF Merge
<1>3. Epoch(l) \in Nat /\ Epoch(r) \in Nat
  BY <1>1 DEF Epoch
<1>4. MergePassword(l, r) \in Nat /\ MergePassword(l, r) # NoPassword
  BY <1>1, <1>3 DEF MergePassword, NoPassword
<1>5. MergeGen(l, r) \in Nat /\ MergeKeys(l, r) \in Seq(Keys) \ {<< >>}
  BY <1>1 DEF MergeGen, MergeKeys
<1>6. MergeActive(l, r) \subseteq Devices /\ MergeRevoked(l, r) \subseteq Devices
  BY <1>1 DEF MergeActive, MergeRevoked
<1>7. k \in Keyrings
  BY <1>4, <1>5, <1>6 DEF Merge, Keyrings
<1>8. Sound(s, k)
  BY <1>2, <1>4 DEF Sound, MergeRevoked
<1>9. Knows(k, r)
  BY <1>2 DEF Knows, MergeActive, MergeRevoked
<1>10. QED  BY <1>7, <1>8, <1>9

(* A keyring that knows one with the owner's first devices has them too,    *)
(* and a password: no bundle of an invitation is published as it is         *)
(* (bootstrap_recipient_repository).                                        *)
LEMMA KnowsFounders ==
  ASSUME NEW s \in Settings, NEW k, NEW r, Sound(s, k), Knows(k, r),
         s.joined \cap Admins \subseteq r.active
  PROVE  s.joined \cap Admins \subseteq k.active /\ k.pw # NoPassword
<1>1. PICK a : a \in s.joined \cap Admins
  BY ControlAssumption
<1>2. s.joined \cap Admins \subseteq k.active
  BY DEF Sound, Knows
<1>3. QED  BY <1>1, <1>2 DEF Sound

LEMMA KeyringFields ==
  ASSUME NEW k \in Keyrings
  PROVE  \E g \in Nat, a \in SUBSET Devices, r \in SUBSET Devices,
            q \in Seq(Keys) \ {<< >>}, p \in Nat :
           k = [gen |-> g, active |-> a, revoked |-> r, keys |-> q, pw |-> p]
<1>1. k = [gen |-> k.gen, active |-> k.active, revoked |-> k.revoked, keys |-> k.keys, pw |-> k.pw]
  BY Zenon DEF Keyrings
<1>2. /\ k.gen \in Nat /\ k.active \in SUBSET Devices /\ k.revoked \in SUBSET Devices
      /\ k.keys \in Seq(Keys) \ {<< >>} /\ k.pw \in Nat
  BY Zenon DEF Keyrings
<1>3. QED  BY <1>1, <1>2, Zenon

(* A new password, a revocation of a device that is not the owner's, and a  *)
(* bundle for a new device (rebuild_local_device_and_password_envelopes,    *)
(* share_revoke_device, share_invite_device).                               *)
LEMMA PasswordIsSound ==
  ASSUME NEW s, NEW k \in Keyrings, NEW p \in Nat \ {0}, Sound(s, k)
  PROVE  WithPassword(k, p) \in Keyrings /\ Sound(s, WithPassword(k, p))
<1>1. PICK g \in Nat, a \in SUBSET Devices, r \in SUBSET Devices,
           q \in Seq(Keys) \ {<< >>}, w \in Nat :
        k = [gen |-> g, active |-> a, revoked |-> r, keys |-> q, pw |-> w]
  BY KeyringFields
<1>2. PICK x : x = k.gen + 1
  OBVIOUS
<1>7. PICK y : y = WithPassword(k, p)
  OBVIOUS
<1>8. y = [k EXCEPT !.gen = x, !.pw = p]
  BY <1>2, <1>7 DEF WithPassword
<1>9. y = [gen |-> x, active |-> a, revoked |-> r, keys |-> q, pw |-> p]
  BY <1>1, <1>8, Zenon
<1>3. x \in Nat
  BY <1>1, <1>2
<1>4. y \in Keyrings
  BY <1>3, <1>9 DEF Keyrings
<1>5. y.pw = p /\ y.revoked = k.revoked
  BY <1>1, <1>9
<1>6. QED  BY <1>4, <1>5, <1>7 DEF Sound, NoPassword

LEMMA RevokeIsSound ==
  ASSUME NEW s, NEW k \in Keyrings, NEW d \in Devices \ Admins, NEW key \in Keys, Sound(s, k)
  PROVE  Revoke(k, d, key) \in Keyrings /\ Sound(s, Revoke(k, d, key))
<1>1. PICK g \in Nat, a \in SUBSET Devices, r \in SUBSET Devices,
           q \in Seq(Keys) \ {<< >>}, w \in Nat :
        k = [gen |-> g, active |-> a, revoked |-> r, keys |-> q, pw |-> w]
  BY KeyringFields
<1>2. k.gen = g /\ k.active = a /\ k.revoked = r /\ k.keys = q /\ k.pw = w
  BY <1>1
<1>3. PICK x \in Nat, b \in SUBSET Devices, t \in SUBSET Devices, u \in Seq(Keys) \ {<< >>} :
        x = k.gen + 1 /\ b = k.active \ {d} /\ t = k.revoked \cup {d} /\ u = Append(k.keys, key)
  <2>1. k.gen + 1 \in Nat /\ k.active \ {d} \in SUBSET Devices
    BY <1>2
  <2>2. k.revoked \cup {d} \in SUBSET Devices /\ Append(k.keys, key) \in Seq(Keys) \ {<< >>}
    BY <1>2
  <2>3. QED  BY <2>1, <2>2
<1>4. PICK y : y = Revoke(k, d, key)
  OBVIOUS
<1>5. y = [k EXCEPT !.gen = x, !.active = b, !.revoked = t, !.keys = u]
  BY <1>3, <1>4 DEF Revoke
<1>6. y = [gen |-> x, active |-> b, revoked |-> t, keys |-> u, pw |-> w]
  BY <1>1, <1>5, Zenon
<1>7. y \in Keyrings
  BY <1>6 DEF Keyrings
<1>8. y.pw = k.pw /\ y.active = k.active \ {d} /\ y.revoked = k.revoked \cup {d}
  BY <1>2, <1>3, <1>6
<1>9. QED  BY <1>4, <1>7, <1>8 DEF Sound

LEMMA BootstrapIsSound ==
  ASSUME NEW s, NEW k \in Keyrings, NEW d \in Devices, d \notin s.joined
  PROVE  Bootstrap(k, d) \in Keyrings /\ Sound(s, Bootstrap(k, d))
<1>1. k.gen \in Nat /\ k.keys \in Seq(Keys) \ {<< >>}
  BY DEF Keyrings
<1>2. Bootstrap(k, d) \in Keyrings
  BY <1>1 DEF Bootstrap, Keyrings, NoPassword
<1>3. Bootstrap(k, d).active = {d} /\ Bootstrap(k, d).revoked = {}
  BY DEF Bootstrap
<1>4. QED  BY <1>2, <1>3 DEF Sound

(***************************************************************************)
(* Keyring files                                                           *)
(***************************************************************************)
LEMMA FilesHold ==
  ASSUME NEW f \in Files
  PROVE  /\ DOMAIN f \subseteq Names /\ f = [n \in DOMAIN f |-> f[n]]
         /\ \A n \in DOMAIN f : f[n] \in Keyrings
BY DEF Files

LEMMA FilesAre ==
  ASSUME NEW N \in SUBSET Names, NEW f, f = [n \in N |-> f[n]], \A n \in N : f[n] \in Keyrings
  PROVE  f \in Files
<1>1. f \in [N -> Keyrings]
  OBVIOUS
<1>2. QED  BY <1>1 DEF Files

\* None is not the name of a file.
LEMMA NoneIsNoName == None \notin Names
<1>1. SUFFICES ASSUME NEW n \in Names PROVE n # << >>
  BY DEF None
<1>2. PICK g \in Nat, x \in Devices \cup {"keyring"} : n = <<g, x>>
  BY DEF Names
<1>3. Len(n) = 2
  BY <1>2
<1>4. QED  BY <1>3

(* The files of f over those of g, and one of f's names in it (the local    *)
(* files a fetch writes, the generations a push uploads).                   *)
Overlaid(s, f, g, h) ==
  /\ h \in Files /\ Filed(s, h) /\ DOMAIN h = DOMAIN f \cup DOMAIN g
  /\ \A n \in DOMAIN f : h[n] = f[n]
  /\ \A n \in DOMAIN g \ DOMAIN f : h[n] = g[n]

LEMMA OverFiles ==
  ASSUME NEW s, NEW f \in Files, NEW g \in Files, NEW h, h = Over(f, g), Filed(s, f), Filed(s, g)
  PROVE  Overlaid(s, f, g, h)
<1>1. DOMAIN h = DOMAIN f \cup DOMAIN g
  BY DEF Over
<1>2. \A n \in DOMAIN f : h[n] = f[n]
  BY DEF Over
<1>3. \A n \in DOMAIN g \ DOMAIN f : h[n] = g[n]
  BY DEF Over
<1>4. h = [n \in DOMAIN f \cup DOMAIN g |-> h[n]]
  BY DEF Over
<1>5. \A n \in DOMAIN h : h[n] \in Keyrings
  BY <1>1, <1>2, <1>3, FilesHold
<1>6. DOMAIN f \cup DOMAIN g \in SUBSET Names
  BY FilesHold
<1>7. h \in Files
  BY <1>1, <1>4, <1>5, <1>6, FilesAre
<1>8. Filed(s, h)
  BY <1>1, <1>2, <1>3 DEF Filed
<1>9. QED  BY <1>1, <1>2, <1>3, <1>7, <1>8 DEF Overlaid

LEMMA NameIsName ==
  ASSUME NEW k \in Keyrings
  PROVE  Name(k) \in Names /\ Name(k)[1] = k.gen
BY DEF Name, Names, Keyrings

LEMMA BootNameIsName ==
  ASSUME NEW k \in Keyrings, NEW d \in Devices
  PROVE  BootName(k, d) \in Names /\ BootName(k, d)[1] = k.gen
BY DEF BootName, Names, Keyrings

LEMMA OneFile ==
  ASSUME NEW s, NEW k \in Keyrings, Sound(s, k), NEW n \in Names, n[1] = k.gen
  PROVE  /\ [m \in {n} |-> k] \in Files
         /\ Filed(s, [m \in {n} |-> k])
         /\ DOMAIN [m \in {n} |-> k] = {n} /\ [m \in {n} |-> k][n] = k
<1>1. [m \in {n} |-> k] \in Files
  BY FilesAre
<1>2. QED  BY <1>1 DEF Filed

LEMMA RestrictFiles ==
  ASSUME NEW s, NEW f \in Files, Filed(s, f), NEW S \in SUBSET DOMAIN f
  PROVE  /\ Restrict(f, S) \in Files /\ Filed(s, Restrict(f, S))
         /\ DOMAIN Restrict(f, S) = S /\ \A n \in S : Restrict(f, S)[n] = f[n]
<1>1. DOMAIN Restrict(f, S) = S /\ \A n \in S : Restrict(f, S)[n] = f[n]
  BY DEF Restrict
<1>2. Restrict(f, S) = [n \in S |-> Restrict(f, S)[n]]
  BY DEF Restrict
<1>3. S \in SUBSET Names /\ \A n \in S : f[n] \in Keyrings
  BY FilesHold
<1>4. Restrict(f, S) \in Files
  BY <1>1, <1>2, <1>3, FilesAre
<1>5. QED  BY <1>1, <1>4 DEF Filed

(***************************************************************************)
(* Steps                                                                   *)
(***************************************************************************)
\* What the invariant says of one device.
LEMMA OfDevice ==
  ASSUME KeyringInv, NEW d \in Devices
  PROVE  /\ set \in Settings /\ loc[d] \in LocalType /\ op[d] \in OpType
         /\ LocalOk(set, d, loc[d]) /\ OpOk(set, remote, loc[d], op[d])
         /\ loc[d].files \in Files /\ Filed(set, loc[d].files)
<1>1. /\ set \in Settings /\ loc[d] \in LocalType /\ op[d] \in OpType
      /\ LocalOk(set, d, loc[d]) /\ OpOk(set, remote, loc[d], op[d])
  BY DEF KeyringInv, TypeOK
<1>2. QED  BY <1>1 DEF LocalType, LocalOk

\* The keyring a device has.
LEMMA CurIsSound ==
  ASSUME KeyringInv, NEW d \in Devices, loc[d].ptr \in DOMAIN loc[d].files
  PROVE  Cur(d) \in Keyrings /\ Sound(set, Cur(d))
BY OfDevice, FilesHold DEF Cur, Filed

LEMMA JoinedHasPointer ==
  ASSUME KeyringInv, NEW d \in Devices, Joined(d)
  PROVE  loc[d].ptr \in DOMAIN loc[d].files
BY OfDevice DEF LocalOk, Joined

LEMMA HasPointerJoined ==
  ASSUME KeyringInv, NEW d \in Devices, loc[d].ptr \in DOMAIN loc[d].files
  PROVE  Joined(d)
BY OfDevice, FilesHold, NoneIsNoName DEF Joined

LEMMA PublishedIsSound ==
  ASSUME KeyringInv
  PROVE  /\ Published(remote) = RemoteCur /\ Resolves
         /\ RemoteCur \in Keyrings /\ Sound(set, RemoteCur)
         /\ set.joined \cap Admins \subseteq RemoteCur.active
         /\ RemoteCur.pw # NoPassword /\ RemoteCur.gen = remote.ptr[1]
         /\ remote.files \in Files /\ Filed(set, remote.files)
<1>1. /\ remote \in RemoteType /\ RemoteOk(set, remote) /\ set \in Settings
  BY DEF KeyringInv, TypeOK
<1>2. remote.files \in Files
  BY <1>1 DEF RemoteType
<1>3. /\ Published(remote) = RemoteCur /\ Resolves /\ Filed(set, remote.files)
      /\ set.joined \cap Admins \subseteq RemoteCur.active
  BY <1>1 DEF RemoteOk, Published, RemoteCur, Resolves
<1>4. RemoteCur \in Keyrings /\ Sound(set, RemoteCur) /\ RemoteCur.gen = remote.ptr[1]
  BY <1>2, <1>3, FilesHold DEF Filed, Resolves, RemoteCur
<1>5. Knows(RemoteCur, RemoteCur)
  BY DEF Knows
<1>6. QED  BY <1>1, <1>2, <1>3, <1>4, <1>5, KnowsFounders

\* A device that does not push does not care what the remote has.
LEMMA OtherRemote ==
  ASSUME NEW s, NEW r, NEW q, NEW x, NEW o, OpOk(s, r, x, o), ~Pushes(o)
  PROVE  OpOk(s, q, x, o)
BY DEF OpOk, PushOk, Pushes, PushSteps, BeforeSwap

\* Nor does a step of one device disturb the others, if only a push writes
\* to the remote, and no push starts beside another.
LEMMA DeviceStep ==
  ASSUME KeyringInv, NEW d \in Devices, NEW x \in LocalType, NEW o \in OpType,
         loc' = [loc EXCEPT ![d] = x], op' = [op EXCEPT ![d] = o],
         set' = set, commits' \in 0..set.commits, updates' \in 0..set.updates,
         remote' \in RemoteType, RemoteOk(set, remote'),
         remote' = remote \/ Pushes(op[d]),
         LocalOk(set, d, x), OpOk(set, remote', x, o),
         Pushes(o) => \A e \in Devices \ {d} : ~Pushes(op[e]),
         invites' \subseteq InviteType, \A i \in invites' : InviteOk(set, i)
  PROVE  KeyringInv'
<1>1. TypeOK
  BY DEF KeyringInv
<1>2. TypeOK'
  BY <1>1 DEF TypeOK
<1>3. loc'[d] = x /\ op'[d] = o /\ \A e \in Devices \ {d} : loc'[e] = loc[e] /\ op'[e] = op[e]
  BY <1>1 DEF TypeOK
<1>5. ASSUME NEW e \in Devices
      PROVE  LocalOk(set, e, loc'[e]) /\ OpOk(set, remote', loc'[e], op'[e])
  <2>1. CASE e = d
    BY <1>3, <2>1
  <2>2. CASE e # d /\ remote' = remote
    BY <1>3, <2>2, OfDevice
  <2>3. CASE e # d /\ Pushes(op[d])
    <3>1. ~Pushes(op[e])
      BY <2>3 DEF KeyringInv
    <3>2. LocalOk(set, e, loc[e]) /\ OpOk(set, remote, loc[e], op[e])
      BY OfDevice
    <3>3. OpOk(set, remote', loc[e], op[e])
      BY <3>1, <3>2, OtherRemote
    <3>4. QED  BY <1>3, <2>3, <3>2, <3>3
  <2>4. QED  BY <2>1, <2>2, <2>3
<1>6. \A e \in Devices : LocalOk(set', e, loc'[e]) /\ OpOk(set', remote', loc'[e], op'[e])
  BY <1>5
<1>7. \A i \in invites' : InviteOk(set', i)
  OBVIOUS
<1>8. \A e, f \in Devices : Pushes(op'[e]) /\ Pushes(op'[f]) => e = f
  BY <1>3 DEF KeyringInv
<1>9. RemoteOk(set', remote')
  OBVIOUS
<1>10. QED  BY <1>2, <1>6, <1>7, <1>8, <1>9 DEF KeyringInv

\* The steps that write to one device at most.
LEMMA LocalStep ==
  ASSUME KeyringInv, NEW d \in Devices, NEW x \in LocalType, NEW o \in OpType,
         loc' = [loc EXCEPT ![d] = x], op' = [op EXCEPT ![d] = o],
         set' = set, remote' = remote, invites' = invites,
         commits' \in 0..set.commits, updates' \in 0..set.updates,
         LocalOk(set, d, x), OpOk(set, remote, x, o),
         Pushes(o) => \A e \in Devices \ {d} : ~Pushes(op[e])
  PROVE  KeyringInv'
<1>1. remote' \in RemoteType /\ RemoteOk(set, remote')
  BY DEF KeyringInv, TypeOK
<1>2. invites' \subseteq InviteType /\ \A i \in invites' : InviteOk(set, i)
  BY DEF KeyringInv, TypeOK
<1>3. QED  BY <1>1, <1>2, DeviceStep

LEMMA Counters ==
  ASSUME KeyringInv
  PROVE  commits \in 0..set.commits /\ updates \in 0..set.updates
BY DEF KeyringInv, TypeOK

LEMMA LocSame ==
  ASSUME KeyringInv, NEW d \in Devices
  PROVE  loc = [loc EXCEPT ![d] = loc[d]] /\ op = [op EXCEPT ![d] = op[d]]
BY DEF KeyringInv, TypeOK

\* At most one device pushes.
LEMMA StillPushing ==
  ASSUME KeyringInv, NEW d \in Devices, NEW o, Pushes(o) => Pushes(op[d])
  PROVE  Pushes(o) => \A e \in Devices \ {d} : ~Pushes(op[e])
BY DEF KeyringInv

LEMMA NoPushType == NoPush \in PushType
BY DEF NoPush, PushType, Pointers

LEMMA KeyZero == Key(0) \in Keys /\ NoDirectory.ref \in Refs
<1>1. 0 \in 0..MaxUpdates
  BY ControlAssumption
<1>2. Key(0) \in Keys
  BY <1>1, ControlAssumption
<1>3. QED  BY <1>2 DEF NoDirectory, Refs

LEMMA NoFiles == << >> \in Files /\ DOMAIN << >> = {}
<1>1. << >> = [n \in {} |-> << >>[n]]
  OBVIOUS
<1>2. QED  BY <1>1, FilesAre

LEMMA NoFetchType == NoFetch \in FetchType
BY KeyZero, NoFiles DEF NoFetch, FetchType, Pointers, Refs

LEMMA IdleType == Idle \in OpType
<1>1. "idle" \in Places
  BY DEF Places
<1>2. QED  BY <1>1, NoPushType, NoFetchType DEF Idle, OpType

\* Operations and directories with some fields changed.
LEMMA OpAt ==
  ASSUME NEW q \in OpType, NEW pc \in Places, NEW o, o = [q EXCEPT !.pc = pc]
  PROVE  /\ o \in OpType /\ o.pc = pc /\ o.then = q.then /\ o.new = q.new
         /\ o.push = q.push /\ o.fetch = q.fetch
BY DEF OpType

OpIs(o, pc, then, new, push, fetch) ==
  /\ o \in OpType /\ o.pc = pc /\ o.then = then /\ o.new = new
  /\ o.push = push /\ o.fetch = fetch

Moved(q, pc, then, new) == [q EXCEPT !.pc = pc, !.then = then, !.new = new]
Pushed(q, pc, push) == [q EXCEPT !.pc = pc, !.push = push]
Fetched(q, pc, fetch) == [q EXCEPT !.pc = pc, !.fetch = fetch]

LEMMA OpMoves ==
  ASSUME NEW q \in OpType, NEW pc \in Places, NEW t \in Places, NEW k \in Keyrings \cup {None}
  PROVE  OpIs(Moved(q, pc, t, k), pc, t, k, q.push, q.fetch)
<1>1. PICK o : o = [q EXCEPT !.pc = pc, !.then = t, !.new = k]
  OBVIOUS
<1>2. /\ o \in OpType /\ o.pc = pc /\ o.then = t /\ o.new = k
      /\ o.push = q.push /\ o.fetch = q.fetch
  BY <1>1 DEF OpType
<1>3. QED  BY <1>1, <1>2, Zenon DEF OpIs, Moved

LEMMA OpPushes ==
  ASSUME NEW q \in OpType, NEW pc \in Places, NEW p \in PushType
  PROVE  OpIs(Pushed(q, pc, p), pc, q.then, q.new, p, q.fetch)
<1>1. PICK o : o = [q EXCEPT !.pc = pc, !.push = p]
  OBVIOUS
<1>2. /\ o \in OpType /\ o.pc = pc /\ o.then = q.then /\ o.new = q.new
      /\ o.push = p /\ o.fetch = q.fetch
  BY <1>1 DEF OpType
<1>3. QED  BY <1>1, <1>2, Zenon DEF OpIs, Pushed

LEMMA OpFetches ==
  ASSUME NEW q \in OpType, NEW pc \in Places, NEW f \in FetchType
  PROVE  OpIs(Fetched(q, pc, f), pc, q.then, q.new, q.push, f)
<1>1. PICK o : o = [q EXCEPT !.pc = pc, !.fetch = f]
  OBVIOUS
<1>2. /\ o \in OpType /\ o.pc = pc /\ o.then = q.then /\ o.new = q.new
      /\ o.push = q.push /\ o.fetch = f
  BY <1>1 DEF OpType
<1>3. QED  BY <1>1, <1>2, Zenon DEF OpIs, Fetched

LEMMA PlacesAre ==
  /\ {"idle", "file", "pointer", "unlock", "journal", "prepare", "upload"} \subseteq Places
  /\ {"read", "swap", "ref", "control", "putfiles", "putref", "putpointer"} \subseteq Places
  /\ {"floor", "verify"} \subseteq Places
BY DEF Places

\* An operation that neither updates the keyring nor relies on anything.
LEMMA Carefree ==
  ASSUME NEW s, NEW r, NEW x, NEW o, o.then = "idle",
         o.pc = "idle" \/ (o.pc \in {"verify", "control", "ref"} /\ x.ptr \in DOMAIN x.files)
  PROVE  OpOk(s, r, x, o)
BY DEF OpOk, UpdateOk, PushOk, FetchOk, UpdateSteps, BeforeSwap, FetchWrites

LEMMA IdleOk ==
  ASSUME NEW s, NEW r, NEW x
  PROVE  OpOk(s, r, x, Idle) /\ ~Pushes(Idle)
<1>1. Idle.pc = "idle" /\ Idle.then = "idle"
  BY DEF Idle
<1>2. QED  BY <1>1, Carefree DEF Pushes, PushSteps

(***************************************************************************)
(* A keyring update                                                        *)
(***************************************************************************)
(* The journal, and the lock that refuses the update                        *)
(* (write_keyring_generation_and_pointer, with_keyring_lock).               *)
LEMMA UpdateKeeps ==
  ASSUME KeyringInv, NEW d \in Devices, NEW k \in Keyrings, NEW after \in OpType,
         Update(d, k, after), Sound(set, k), loc[d].ptr \in DOMAIN loc[d].files,
         after.pc \in {"idle", "prepare", "verify"}, after.then = "idle",
         after.pc = "prepare" => /\ after.push.seen = remote.ptr /\ Knows(k, RemoteCur)
                                 /\ \A e \in Devices : ~Pushes(op[e]),
         set' = set, remote' = remote, invites' = invites, commits' \in 0..set.commits,
         updates' \in 0..set.updates
  PROVE  KeyringInv'
<1> DEFINE s == set  r == remote
<1>1. loc[d] \in LocalType /\ LocalOk(set, d, loc[d])
  BY OfDevice
<1>2. PICK x : x = [loc[d] EXCEPT !.journal = Name(k)]
  OBVIOUS
<1>3. x \in LocalType /\ x.ptr = loc[d].ptr /\ x.files = loc[d].files
  BY <1>1, <1>2, NameIsName DEF LocalType, Pointers
<1>4. LocalOk(set, d, x)
  BY <1>1, <1>3 DEF LocalOk
<1>5. PICK n : n = [after EXCEPT !.pc = "file", !.then = after.pc, !.new = k]
  OBVIOUS
<1>6. n \in OpType /\ n.pc = "file" /\ n.then = after.pc /\ n.new = k /\ n.push = after.push
  <2>1. n = Moved(after, "file", after.pc, k)
    BY <1>5, Zenon DEF Moved
  <2>2. after.pc \in Places /\ "file" \in Places /\ k \in Keyrings \cup {None}
    BY PlacesAre
  <2>3. OpIs(n, "file", after.pc, k, after.push, after.fetch)
    BY <2>1, <2>2, OpMoves, Zenon
  <2>4. QED  BY <2>3, Zenon DEF OpIs
<1>7. PICK o : o = IF loc[d].lock THEN Idle ELSE n
  OBVIOUS
<1>8. loc' = [loc EXCEPT ![d] = x] /\ op' = [op EXCEPT ![d] = o]
  BY <1>2, <1>5, <1>7, Zenon DEF Update, Local, Do
<1>9. OpOk(set, remote, x, n)
  BY <1>3, <1>6, PublishedIsSound
     DEF OpOk, UpdateOk, PushOk, FetchOk, UpdateSteps, BeforeSwap, FetchWrites
<1>10. o \in OpType /\ OpOk(set, remote, x, o)
  BY <1>6, <1>7, <1>9, IdleType, IdleOk
<1>11. Pushes(o) => \A e \in Devices \ {d} : ~Pushes(op[e])
  BY <1>6, <1>7, IdleOk DEF Pushes, PushSteps
<1>12. QED  BY <1>3, <1>4, <1>8, <1>10, <1>11, LocalStep

LEMMA WriteGenerationKeeps ==
  ASSUME KeyringInv, NEW d \in Devices, WriteGeneration(d)
  PROVE  KeyringInv'
<1> DEFINE k == op[d].new
<1>1. /\ loc[d] \in LocalType /\ op[d] \in OpType /\ op[d].pc = "file"
      /\ LocalOk(set, d, loc[d]) /\ OpOk(set, remote, loc[d], op[d])
      /\ loc[d].files \in Files /\ Filed(set, loc[d].files)
  BY OfDevice DEF WriteGeneration
<1>2. k \in Keyrings /\ Sound(set, k)
  BY <1>1 DEF OpOk, UpdateOk, UpdateSteps
<1>3. Name(k) \in Names /\ Name(k)[1] = k.gen
  BY <1>2, NameIsName
<1>4. PICK f : f = [n \in {Name(k)} |-> k]
  OBVIOUS
<1>5. f \in Files /\ Filed(set, f) /\ DOMAIN f = {Name(k)} /\ f[Name(k)] = k
  BY <1>2, <1>3, <1>4, OneFile
<1>6. PICK g : g = Over(f, loc[d].files)
  OBVIOUS
<1>7. /\ g \in Files /\ Filed(set, g) /\ DOMAIN g = {Name(k)} \cup DOMAIN loc[d].files
      /\ g[Name(k)] = k
  <2>1. Overlaid(set, f, loc[d].files, g)
    BY <1>1, <1>5, <1>6, OverFiles, Zenon
  <2>2. QED  BY <1>5, <2>1 DEF Overlaid
<1>8. PICK x : x = [loc[d] EXCEPT !.lock = TRUE, !.files = g]
  OBVIOUS
<1>9. x \in LocalType /\ x.ptr = loc[d].ptr /\ x.files = g
  BY <1>1, <1>7, <1>8 DEF LocalType
<1>10. PICK o : o = [op[d] EXCEPT !.pc = "pointer"]
  OBVIOUS
<1>11. o \in OpType /\ o.pc = "pointer" /\ o.then = op[d].then /\ o.new = k /\ o.push = op[d].push
  BY <1>1, <1>10, OpAt, PlacesAre
<1>12. loc' = [loc EXCEPT ![d] = x] /\ op' = [op EXCEPT ![d] = o]
  BY <1>4, <1>6, <1>8, <1>10, Zenon DEF WriteGeneration, Local, Go, Do
<1>13. LocalOk(set, d, x)
  BY <1>1, <1>7, <1>9 DEF LocalOk
<1>14. OpOk(set, remote, x, o)
  BY <1>1, <1>7, <1>9, <1>11
     DEF OpOk, UpdateOk, PushOk, FetchOk, UpdateSteps, BeforeSwap, FetchWrites
<1>15. Pushes(o) => \A e \in Devices \ {d} : ~Pushes(op[e])
  BY <1>11, StillPushing DEF Pushes, PushSteps
<1>16. QED
  BY <1>9, <1>11, <1>12, <1>13, <1>14, <1>15, LocalStep, Counters DEF WriteGeneration

LEMMA WritePointerKeeps ==
  ASSUME KeyringInv, NEW d \in Devices, WritePointer(d)
  PROVE  KeyringInv'
<1> DEFINE k == op[d].new
<1>1. /\ loc[d] \in LocalType /\ op[d] \in OpType /\ op[d].pc = "pointer"
      /\ LocalOk(set, d, loc[d]) /\ OpOk(set, remote, loc[d], op[d])
  BY OfDevice DEF WritePointer
<1>2. /\ k \in Keyrings /\ Sound(set, k)
      /\ Name(k) \in DOMAIN loc[d].files /\ loc[d].files[Name(k)] = k
  BY <1>1 DEF OpOk, UpdateOk, UpdateSteps
<1>3. PICK x : x = [loc[d] EXCEPT !.ptr = Name(k)]
  OBVIOUS
<1>4. x \in LocalType /\ x.ptr = Name(k) /\ x.files = loc[d].files
  BY <1>1, <1>2, <1>3, NameIsName DEF LocalType, Pointers
<1>5. PICK o : o = [op[d] EXCEPT !.pc = "unlock"]
  OBVIOUS
<1>6. o \in OpType /\ o.pc = "unlock" /\ o.then = op[d].then /\ o.new = k /\ o.push = op[d].push
  BY <1>1, <1>5, OpAt, PlacesAre
<1>7. loc' = [loc EXCEPT ![d] = x] /\ op' = [op EXCEPT ![d] = o]
  BY <1>3, <1>5, Zenon DEF WritePointer, Local, Go, Do
<1>8. LocalOk(set, d, x)
  BY <1>1, <1>2, <1>4 DEF LocalOk
<1>9. OpOk(set, remote, x, o)
  BY <1>1, <1>2, <1>4, <1>6
     DEF OpOk, UpdateOk, PushOk, FetchOk, UpdateSteps, BeforeSwap, FetchWrites
<1>10. Pushes(o) => \A e \in Devices \ {d} : ~Pushes(op[e])
  BY <1>6, StillPushing DEF Pushes, PushSteps
<1>11. QED
  BY <1>4, <1>6, <1>7, <1>8, <1>9, <1>10, LocalStep, Counters DEF WritePointer

LEMMA ReleaseLockKeeps ==
  ASSUME KeyringInv, NEW d \in Devices, ReleaseLock(d)
  PROVE  KeyringInv'
<1>1. /\ loc[d] \in LocalType /\ op[d] \in OpType /\ op[d].pc = "unlock"
      /\ LocalOk(set, d, loc[d]) /\ OpOk(set, remote, loc[d], op[d])
  BY OfDevice DEF ReleaseLock
<1>2. PICK x : x = [loc[d] EXCEPT !.lock = FALSE]
  OBVIOUS
<1>3. x \in LocalType /\ x.ptr = loc[d].ptr /\ x.files = loc[d].files
  BY <1>1, <1>2 DEF LocalType
<1>4. PICK o : o = [op[d] EXCEPT !.pc = "journal"]
  OBVIOUS
<1>5. /\ o \in OpType /\ o.pc = "journal" /\ o.then = op[d].then /\ o.new = op[d].new
      /\ o.push = op[d].push
  BY <1>1, <1>4, OpAt, PlacesAre
<1>6. loc' = [loc EXCEPT ![d] = x] /\ op' = [op EXCEPT ![d] = o]
  BY <1>2, <1>4, Zenon DEF ReleaseLock, Local, Go, Do
<1>7. LocalOk(set, d, x)
  BY <1>1, <1>3 DEF LocalOk
<1>8. OpOk(set, remote, x, o)
  BY <1>1, <1>3, <1>5
     DEF OpOk, UpdateOk, PushOk, FetchOk, UpdateSteps, BeforeSwap, FetchWrites
<1>9. Pushes(o) => \A e \in Devices \ {d} : ~Pushes(op[e])
  BY <1>5, StillPushing DEF Pushes, PushSteps
<1>10. QED
  BY <1>3, <1>5, <1>6, <1>7, <1>8, <1>9, LocalStep, Counters DEF ReleaseLock

(* The update is done, and the keyring it made is the device's.             *)
LEMMA DropJournalKeeps ==
  ASSUME KeyringInv, NEW d \in Devices, DropJournal(d)
  PROVE  KeyringInv'
<1>1. /\ loc[d] \in LocalType /\ op[d] \in OpType /\ op[d].pc = "journal"
      /\ LocalOk(set, d, loc[d]) /\ OpOk(set, remote, loc[d], op[d])
  BY OfDevice DEF DropJournal
<1>2. PICK x : x = [loc[d] EXCEPT !.journal = None]
  OBVIOUS
<1>3. x \in LocalType /\ x.ptr = loc[d].ptr /\ x.files = loc[d].files
  BY <1>1, <1>2 DEF LocalType, Pointers
<1>4. PICK o : o = [op[d] EXCEPT !.pc = op[d].then, !.then = "idle", !.new = None]
  OBVIOUS
<1>5. o \in OpType /\ o.pc = op[d].then /\ o.then = "idle" /\ o.push = op[d].push
  <2>1. o = Moved(op[d], op[d].then, "idle", None)
    BY <1>4, Zenon DEF Moved
  <2>2. op[d].then \in Places /\ "idle" \in Places /\ None \in Keyrings \cup {None}
    BY <1>1, PlacesAre DEF OpType
  <2>3. OpIs(o, op[d].then, "idle", None, op[d].push, op[d].fetch)
    BY <1>1, <2>1, <2>2, OpMoves, Zenon
  <2>4. QED  BY <2>3, Zenon DEF OpIs
<1>6. loc' = [loc EXCEPT ![d] = x] /\ op' = [op EXCEPT ![d] = o]
  BY <1>2, <1>4, Zenon DEF DropJournal, Local, Do
<1>7. LocalOk(set, d, x)
  BY <1>1, <1>3 DEF LocalOk
<1>8. /\ op[d].then \in {"idle", "prepare", "verify"} /\ x.ptr \in DOMAIN x.files
      /\ x.files[x.ptr] = op[d].new
  BY <1>1, <1>3 DEF OpOk, UpdateOk, UpdateSteps
<1>9. OpOk(set, remote, x, o)
  <2>1. CASE op[d].then = "prepare"
    <3>1. op[d].push.seen = remote.ptr /\ Knows(op[d].new, Published(remote))
      BY <1>1, <2>1 DEF OpOk, PushOk
    <3>2. QED
      BY <1>5, <1>8, <2>1, <3>1
         DEF OpOk, UpdateOk, PushOk, FetchOk, UpdateSteps, FetchWrites
  <2>2. CASE op[d].then # "prepare"
    BY <1>5, <1>8, <2>2, Carefree
  <2>3. QED  BY <2>1, <2>2
<1>10. Pushes(o) => \A e \in Devices \ {d} : ~Pushes(op[e])
  BY <1>5, StillPushing DEF Pushes, PushSteps
<1>11. QED
  BY <1>3, <1>5, <1>6, <1>7, <1>9, <1>10, LocalStep, Counters DEF DropJournal

(***************************************************************************)
(* Commands of one device                                                  *)
(***************************************************************************)
LEMMA IdleThen ==
  ASSUME KeyringInv, NEW d \in Devices, IsIdle(d)
  PROVE  op[d].pc = "idle" /\ op[d].then = "idle" /\ ~Pushes(op[d])
<1>1. op[d].pc = "idle" /\ op[d].then = "idle"
  BY OfDevice DEF IsIdle, OpOk, UpdateOk, UpdateSteps
<1>2. QED  BY <1>1 DEF Pushes, PushSteps

LEMMA IdleAfter ==
  /\ Idle.pc = "idle" /\ Idle.then = "idle" /\ Idle.push = NoPush /\ Idle.fetch = NoFetch
  /\ Idle.pc # "prepare"
BY DEF Idle

LEMMA NextUpdate ==
  ASSUME KeyringInv, updates < set.updates
  PROVE  updates + 1 \in 0..set.updates /\ updates + 2 \in Nat \ {0} /\ Key(updates + 1) \in Keys
<1>1. updates \in 0..set.updates /\ set.updates \in 0..MaxUpdates /\ MaxUpdates \in Nat
  BY ControlAssumption DEF KeyringInv, TypeOK
<1>2. updates + 1 \in 0..set.updates /\ updates + 1 \in 0..MaxUpdates /\ updates + 2 \in Nat \ {0}
  BY <1>1
<1>3. QED  BY <1>2, ControlAssumption

LEMMA ChangePasswordKeeps ==
  ASSUME KeyringInv, NEW d \in Devices, ChangePassword(d)
  PROVE  KeyringInv'
<1> DEFINE k == WithPassword(Cur(d), updates + 2)
<1>1. loc[d].ptr \in DOMAIN loc[d].files
  BY JoinedHasPointer DEF ChangePassword
<1>2. Cur(d) \in Keyrings /\ Sound(set, Cur(d))
  BY <1>1, CurIsSound
<1>3. updates + 1 \in 0..set.updates /\ updates + 2 \in Nat \ {0}
  BY NextUpdate DEF ChangePassword
<1>4. k \in Keyrings /\ Sound(set, k)
  BY <1>2, <1>3, PasswordIsSound
<1>5. Update(d, k, Idle)
  BY DEF ChangePassword
<1>6. /\ set' = set /\ remote' = remote /\ invites' = invites
      /\ commits' \in 0..set.commits /\ updates' \in 0..set.updates
  BY <1>3, Counters DEF ChangePassword
<1>7. QED
  BY <1>1, <1>4, <1>5, <1>6, IdleType, IdleAfter, UpdateKeeps

LEMMA RevokeDeviceKeeps ==
  ASSUME KeyringInv, NEW d \in Devices, NEW m \in Devices, RevokeDevice(d, m)
  PROVE  KeyringInv'
<1> DEFINE k == Revoke(Cur(d), m, Key(updates + 1))
<1>1. loc[d].ptr \in DOMAIN loc[d].files
  BY JoinedHasPointer DEF RevokeDevice
<1>2. Cur(d) \in Keyrings /\ Sound(set, Cur(d))
  BY <1>1, CurIsSound
<1>3. updates + 1 \in 0..set.updates /\ Key(updates + 1) \in Keys
  BY NextUpdate DEF RevokeDevice
<1>4. m \in Devices \ Admins
  BY DEF RevokeDevice
<1>5. k \in Keyrings /\ Sound(set, k)
  BY <1>2, <1>3, <1>4, RevokeIsSound
<1>6. Update(d, k, Idle)
  BY DEF RevokeDevice
<1>7. /\ set' = set /\ remote' = remote /\ invites' = invites
      /\ commits' \in 0..set.commits /\ updates' \in 0..set.updates
  BY <1>3, Counters DEF RevokeDevice
<1>8. QED
  BY <1>1, <1>5, <1>6, <1>7, IdleType, IdleAfter, UpdateKeeps

(* The journal names a file that was written.                               *)
LEMMA UnlockFromJournalKeeps ==
  ASSUME KeyringInv, NEW d \in Devices, UnlockFromJournal(d)
  PROVE  KeyringInv'
<1>1. /\ loc[d] \in LocalType /\ op[d] \in OpType /\ LocalOk(set, d, loc[d])
      /\ loc[d].files \in Files /\ loc[d].journal \in DOMAIN loc[d].files
  BY OfDevice DEF UnlockFromJournal
<1>2. op[d].pc = "idle" /\ op[d].then = "idle" /\ ~Pushes(op[d])
  BY IdleThen DEF UnlockFromJournal
<1>3. PICK x : x = [loc[d] EXCEPT !.ptr = loc[d].journal, !.journal = None]
  OBVIOUS
<1>4. x \in LocalType /\ x.ptr = loc[d].journal /\ x.files = loc[d].files
  BY <1>1, <1>3 DEF LocalType, Pointers
<1>5. loc' = [loc EXCEPT ![d] = x] /\ op' = [op EXCEPT ![d] = op[d]]
  BY <1>3, LocSame DEF UnlockFromJournal, Local
<1>6. LocalOk(set, d, x)
  BY <1>1, <1>4 DEF LocalOk
<1>7. OpOk(set, remote, x, op[d])
  BY <1>2, Carefree
<1>8. QED
  BY <1>1, <1>2, <1>4, <1>5, <1>6, <1>7, LocalStep, Counters DEF UnlockFromJournal

LEMMA InviteKeeps ==
  ASSUME KeyringInv, NEW d \in Devices, NEW m \in Devices, Invite(d, m)
  PROVE  KeyringInv'
<1>1. loc[d] \in LocalType /\ op[d] \in OpType /\ LocalOk(set, d, loc[d])
      /\ OpOk(set, remote, loc[d], op[d])
  BY OfDevice
<1>2. Cur(d) \in Keyrings
  BY JoinedHasPointer, CurIsSound DEF Invite
<1>3. m \notin set.joined
  <2>1. loc[m].ptr = None
    BY DEF Invite, Joined
  <2>2. loc[m].ptr \notin DOMAIN loc[m].files
    BY <2>1, OfDevice, FilesHold, NoneIsNoName
  <2>3. QED  BY <2>2, OfDevice DEF LocalOk
<1>4. PICK i : i = [to |-> m, kr |-> Bootstrap(Cur(d), m), ref |-> loc[d].ref]
  OBVIOUS
<1>5. Bootstrap(Cur(d), m) \in Keyrings /\ Sound(set, Bootstrap(Cur(d), m)) /\ loc[d].ref \in Refs
  BY <1>1, <1>2, <1>3, BootstrapIsSound DEF LocalType
<1>6. i \in InviteType /\ InviteOk(set, i)
  BY <1>3, <1>4, <1>5 DEF InviteType, InviteOk
<1>7. invites' = invites \cup {i}
  BY <1>4 DEF Invite
<1>8. invites' \subseteq InviteType /\ \A j \in invites' : InviteOk(set, j)
  BY <1>6, <1>7 DEF KeyringInv, TypeOK
<1>9. loc' = [loc EXCEPT ![d] = loc[d]] /\ op' = [op EXCEPT ![d] = op[d]]
  BY LocSame DEF Invite
<1>10. set' = set /\ remote' = remote /\ commits' \in 0..set.commits /\ updates' \in 0..set.updates
  BY Counters DEF Invite
<1>11. remote' \in RemoteType /\ RemoteOk(set, remote')
  BY <1>10 DEF KeyringInv, TypeOK
<1>12. Pushes(op[d]) => \A e \in Devices \ {d} : ~Pushes(op[e])
  BY StillPushing
<1>13. QED
  BY <1>1, <1>8, <1>9, <1>10, <1>11, <1>12, DeviceStep

(* The bundle becomes the control directory.                                *)
LEMMA AcceptKeeps ==
  ASSUME KeyringInv, NEW i \in invites, Accept(i)
  PROVE  KeyringInv'
<1> DEFINE d == i.to  n == BootName(i.kr, i.to)
<1>1. i \in InviteType /\ InviteOk(set, i)
  BY DEF KeyringInv, TypeOK
<1>2. d \in Devices /\ i.kr \in Keyrings /\ i.ref \in Refs /\ Sound(set, i.kr)
  BY <1>1 DEF InviteType, InviteOk
<1>3. op[d] \in OpType /\ OpOk(set, remote, loc[d], op[d])
  BY <1>2, OfDevice
<1>4. op[d].pc = "idle" /\ op[d].then = "idle" /\ ~Pushes(op[d])
  <2>1. loc[d].ptr \notin DOMAIN loc[d].files
    BY <1>2, HasPointerJoined DEF Accept
  <2>2. IsIdle(d)
    BY <1>3, <2>1 DEF OpOk, IsIdle
  <2>3. QED  BY <1>2, <2>2, IdleThen
<1>5. n \in Names /\ n[1] = i.kr.gen
  BY <1>2, BootNameIsName
<1>6. PICK f : f = [m \in {n} |-> i.kr]
  OBVIOUS
<1>7. f \in Files /\ Filed(set, f) /\ DOMAIN f = {n}
  BY <1>2, <1>5, <1>6, OneFile
<1>8. PICK x : x = [NoDirectory EXCEPT !.ptr = n, !.ref = i.ref, !.files = f]
  OBVIOUS
<1>9. x = [ptr |-> n, files |-> f, ref |-> i.ref, lock |-> FALSE, journal |-> None,
           loaded |-> FALSE, torn |-> FALSE]
  <2>1. PICK r : r = NoDirectory.ref
    OBVIOUS
  <2>2. PICK y : y = [ptr |-> None, files |-> << >>, ref |-> r, lock |-> FALSE,
                      journal |-> None, loaded |-> FALSE, torn |-> FALSE]
    OBVIOUS
  <2>3. NoDirectory = y
    BY <2>1, <2>2 DEF NoDirectory
  <2>4. x = [y EXCEPT !.ptr = n, !.ref = i.ref, !.files = f]
    BY <1>8, <2>3
  <2>5. QED  BY <2>2, <2>4, Zenon
<1>10. x \in LocalType /\ x.ptr = n /\ x.files = f
  BY <1>2, <1>5, <1>7, <1>9 DEF LocalType, Pointers
<1>11. loc' = [loc EXCEPT ![d] = x] /\ op' = [op EXCEPT ![d] = op[d]]
  BY <1>2, <1>6, <1>8, LocSame DEF Accept, Local
<1>12. LocalOk(set, d, x)
  BY <1>7, <1>10 DEF LocalOk
<1>13. OpOk(set, remote, x, op[d])
  BY <1>4, Carefree
<1>14. QED
  BY <1>2, <1>3, <1>4, <1>10, <1>11, <1>12, <1>13, LocalStep, Counters DEF Accept

LEMMA CommitKeeps ==
  ASSUME KeyringInv, NEW d \in Devices, Commit(d)
  PROVE  KeyringInv'
<1>1. /\ loc[d] \in LocalType /\ op[d] \in OpType /\ LocalOk(set, d, loc[d])
  BY OfDevice
<1>2. op[d].pc = "idle" /\ op[d].then = "idle" /\ ~Pushes(op[d])
  BY IdleThen DEF Commit
<1>3. commits \in 0..set.commits /\ updates \in 0..set.updates /\ commits < set.commits
  BY Counters DEF Commit
<1>4. set.commits \in Nat
  BY ControlAssumption DEF KeyringInv, TypeOK
<1>5. commits + 1 \in 0..set.commits
  BY <1>3, <1>4
<1>6. ActiveKey(Cur(d)) \in Keys
  <2>1. Cur(d).keys \in Seq(Keys) \ {<< >>}
    BY JoinedHasPointer, CurIsSound DEF Commit, Keyrings
  <2>2. QED  BY <2>1 DEF ActiveKey, Epoch
<1>7. PICK f : f = [head |-> loc[d].ref.head \cup {commits + 1}, key |-> ActiveKey(Cur(d))]
  OBVIOUS
<1>8. f \in Refs
  <2>1. loc[d].ref.head \cup {commits + 1} \in SUBSET Nat
    BY <1>1, <1>5 DEF LocalType, Refs
  <2>2. QED  BY <1>6, <1>7, <2>1 DEF Refs
<1>9. PICK x : x = [loc[d] EXCEPT !.ref = f]
  OBVIOUS
<1>10. x \in LocalType /\ x.ptr = loc[d].ptr /\ x.files = loc[d].files
  BY <1>1, <1>8, <1>9 DEF LocalType
<1>11. loc' = [loc EXCEPT ![d] = x] /\ op' = [op EXCEPT ![d] = op[d]]
  BY <1>7, <1>9, LocSame DEF Commit, Local
<1>12. LocalOk(set, d, x)
  BY <1>1, <1>10 DEF LocalOk
<1>13. OpOk(set, remote, x, op[d])
  BY <1>2, Carefree
<1>14. set' = set /\ remote' = remote /\ invites' = invites
       /\ commits' \in 0..set.commits /\ updates' \in 0..set.updates
  BY <1>3, <1>5 DEF Commit
<1>15. QED
  BY <1>1, <1>2, <1>10, <1>11, <1>12, <1>13, <1>14, LocalStep

(***************************************************************************)
(* Push and verification                                                   *)
(***************************************************************************)
LEMMA SameCounters ==
  ASSUME KeyringInv, UNCHANGED <<remote, invites, commits, updates, set>>
  PROVE  /\ set' = set /\ remote' = remote /\ invites' = invites
         /\ commits' \in 0..set.commits /\ updates' \in 0..set.updates
BY Counters

(* After the reconciliation the local keyring knows the published one, be   *)
(* it because it was merged or because a merge would change nothing         *)
(* (reconcile_local_keyring_with_remote_if_needed).                         *)
LEMMA ReconcileKeeps ==
  ASSUME KeyringInv, NEW d \in Devices, NEW after \in OpType, Reconcile(d, after), Joined(d),
         after.pc \in {"prepare", "verify"}, after.then = "idle",
         after.pc = "prepare" => /\ after.push.seen = remote.ptr
                                 /\ \A e \in Devices : ~Pushes(op[e]),
         set' = set, remote' = remote, invites' = invites, commits' \in 0..set.commits,
         updates' \in 0..set.updates
  PROVE  KeyringInv'
<1>1. loc[d].ptr \in DOMAIN loc[d].files
  BY JoinedHasPointer
<1>2. Cur(d) \in Keyrings /\ Sound(set, Cur(d))
  BY <1>1, CurIsSound
<1>3. /\ RemoteCur \in Keyrings /\ Sound(set, RemoteCur) /\ RemoteCur.pw # NoPassword
      /\ Resolves /\ Published(remote) = RemoteCur
  BY PublishedIsSound
<1>4. CASE ~SameAfterMerge(Cur(d), RemoteCur)
  <2> DEFINE k == Merge(Cur(d), RemoteCur)
  <2>1. Update(d, k, after)
    BY <1>3, <1>4 DEF Reconcile
  <2>2. k \in Keyrings /\ Sound(set, k) /\ Knows(k, RemoteCur)
    BY <1>2, <1>3, MergeIsSound
  <2>3. QED  BY <1>1, <2>1, <2>2, UpdateKeeps
<1>5. CASE SameAfterMerge(Cur(d), RemoteCur)
  <2>1. Knows(Cur(d), RemoteCur)
    BY <1>2, <1>3, <1>5, SameKnows
  <2>2. loc' = [loc EXCEPT ![d] = loc[d]] /\ op' = [op EXCEPT ![d] = after]
    BY <1>5, LocSame DEF Reconcile, Do
  <2>3. OpOk(set, remote, loc[d], after)
    BY <1>1, <1>3, <2>1
       DEF OpOk, UpdateOk, PushOk, FetchOk, UpdateSteps, BeforeSwap, FetchWrites, Cur
  <2>4. Pushes(after) => \A e \in Devices \ {d} : ~Pushes(op[e])
    BY DEF Pushes, PushSteps
  <2>5. loc[d] \in LocalType /\ LocalOk(set, d, loc[d])
    BY OfDevice
  <2>6. QED  BY <2>2, <2>3, <2>4, <2>5, LocalStep
<1>6. QED  BY <1>4, <1>5

LEMMA StartPushKeeps ==
  ASSUME KeyringInv, NEW d \in Devices, StartPush(d), set.serial
  PROVE  KeyringInv'
<1> DEFINE p == [NoPush EXCEPT !.seen = remote.ptr]
           after == Pushed(Idle, "prepare", p)
<1>1. Resolves /\ remote.ptr \in Pointers
  BY PublishedIsSound DEF KeyringInv, TypeOK, RemoteType, Pointers
<1>2. p \in PushType /\ p.seen = remote.ptr
  BY <1>1, NoPushType DEF PushType
<1>3. "prepare" \in Places
  BY PlacesAre
<1>4. OpIs(after, "prepare", Idle.then, Idle.new, p, Idle.fetch)
  BY <1>2, <1>3, IdleType, OpPushes, Zenon
<1>5. after \in OpType /\ after.pc = "prepare" /\ after.then = "idle" /\ after.push.seen = remote.ptr
  BY <1>2, <1>4, IdleAfter DEF OpIs
<1>6. Reconcile(d, after)
  BY <1>1 DEF StartPush, Pushed
<1>7. \A e \in Devices : ~Pushes(op[e])
  BY DEF StartPush, Pushing, Pushes
<1>8. Joined(d) /\ UNCHANGED <<remote, invites, commits, updates, set>>
  BY DEF StartPush
<1>9. QED  BY <1>5, <1>6, <1>7, <1>8, SameCounters, ReconcileKeeps

LEMMA StartVerifyKeeps ==
  ASSUME KeyringInv, NEW d \in Devices, StartVerify(d)
  PROVE  KeyringInv'
<1> DEFINE after == [Idle EXCEPT !.pc = "verify"]
<1>1. "verify" \in Places
  BY PlacesAre
<1>2. after \in OpType /\ after.pc = "verify" /\ after.then = "idle"
  BY <1>1, OpAt, IdleType, IdleAfter
<1>3. Joined(d) /\ UNCHANGED <<remote, invites, commits, updates, set>> /\ Reconcile(d, after)
  BY DEF StartVerify
<1>4. QED  BY <1>2, <1>3, SameCounters, ReconcileKeeps

\* The steps that write to op only.
LEMMA OpStep ==
  ASSUME KeyringInv, NEW d \in Devices, NEW o \in OpType, op' = [op EXCEPT ![d] = o],
         UNCHANGED <<loc, remote, invites, commits, updates, set>>,
         OpOk(set, remote, loc[d], o), Pushes(o) => Pushes(op[d])
  PROVE  KeyringInv'
<1>1. loc[d] \in LocalType /\ LocalOk(set, d, loc[d])
  BY OfDevice
<1>2. loc' = [loc EXCEPT ![d] = loc[d]]
  BY LocSame
<1>3. Pushes(o) => \A e \in Devices \ {d} : ~Pushes(op[e])
  BY StillPushing
<1>4. QED  BY <1>1, <1>2, <1>3, SameCounters, LocalStep

LEMMA PrepareKeeps ==
  ASSUME KeyringInv, NEW d \in Devices, Prepare(d)
  PROVE  KeyringInv'
<1> DEFINE b == remote.ref = loc[d].ref
<1>1. /\ op[d] \in OpType /\ op[d].pc = "prepare" /\ OpOk(set, remote, loc[d], op[d])
      /\ remote.rver \in Nat /\ op[d].push \in PushType
  BY OfDevice DEF Prepare, KeyringInv, TypeOK, RemoteType, OpType
<1>2. PICK p : p = [op[d].push EXCEPT !.fast = b, !.rver = remote.rver]
  OBVIOUS
<1>3. p \in PushType /\ p.seen = op[d].push.seen
  <2>1. PICK c \in BOOLEAN : c = b
    OBVIOUS
  <2>2. p = [op[d].push EXCEPT !.fast = c, !.rver = remote.rver]
    BY <1>2, <2>1
  <2>3. QED  BY <1>1, <2>1, <2>2 DEF PushType
<1>4. PICK n : n = Pushed(Idle, "upload", p)
  OBVIOUS
<1>5. OpIs(n, "upload", Idle.then, Idle.new, p, Idle.fetch)
  BY <1>3, <1>4, PlacesAre, IdleType, OpPushes
<1>6. n \in OpType /\ n.pc = "upload" /\ n.then = "idle" /\ n.push.seen = op[d].push.seen
  BY <1>3, <1>5, IdleAfter DEF OpIs
<1>7. PICK o \in {n, Idle} : op' = [op EXCEPT ![d] = o]
  BY <1>2, <1>4, Zenon DEF Prepare, Do, Pushed
<1>8. OpOk(set, remote, loc[d], n)
  BY <1>1, <1>6 DEF OpOk, UpdateOk, PushOk, FetchOk, UpdateSteps, BeforeSwap, FetchWrites
<1>9. o \in OpType /\ OpOk(set, remote, loc[d], o)
  BY <1>6, <1>7, <1>8, IdleType, IdleOk
<1>10. Pushes(op[d])
  BY <1>1 DEF Pushes, PushSteps
<1>11. UNCHANGED <<loc, remote, invites, commits, updates, set>>
  BY DEF Prepare
<1>12. QED  BY <1>7, <1>9, <1>10, <1>11, OpStep

(* No generation is written over the published one                          *)
(* (upload_remote_keyring_generations).                                     *)
LEMMA UploadGenerationsKeeps ==
  ASSUME KeyringInv, NEW d \in Devices, UploadGenerations(d)
  PROVE  KeyringInv'
<1>1. /\ loc[d] \in LocalType /\ op[d] \in OpType /\ op[d].pc = "upload"
      /\ LocalOk(set, d, loc[d]) /\ OpOk(set, remote, loc[d], op[d])
      /\ loc[d].files \in Files /\ Filed(set, loc[d].files)
  BY OfDevice DEF UploadGenerations
<1>2. op[d].push.seen = remote.ptr /\ Knows(loc[d].files[loc[d].ptr], Published(remote))
  BY <1>1 DEF OpOk, PushOk, BeforeSwap
<1>3. /\ remote \in RemoteType /\ RemoteOk(set, remote) /\ remote.files \in Files
      /\ Filed(set, remote.files) /\ remote.ptr \in DOMAIN remote.files
  BY PublishedIsSound DEF KeyringInv, TypeOK, RemoteOk
<1>4. PICK S : S = DOMAIN loc[d].files \ {remote.ptr}
  OBVIOUS
<1>5. PICK f : f = Restrict(loc[d].files, S)
  OBVIOUS
<1>6. /\ f \in Files /\ Filed(set, f) /\ DOMAIN f = S
      /\ \A n \in S : f[n] = loc[d].files[n]
  BY <1>1, <1>4, <1>5, RestrictFiles
<1>7. PICK g : g = Over(f, remote.files)
  OBVIOUS
<1>8. /\ g \in Files /\ Filed(set, g) /\ DOMAIN g = S \cup DOMAIN remote.files
      /\ \A n \in S : g[n] = loc[d].files[n]
      /\ \A n \in DOMAIN remote.files \ S : g[n] = remote.files[n]
  <2>1. Overlaid(set, f, remote.files, g)
    BY <1>3, <1>6, <1>7, OverFiles, Zenon
  <2>2. QED  BY <1>6, <2>1 DEF Overlaid
<1>9. PICK q : q = [remote EXCEPT !.files = g]
  OBVIOUS
<1>10. q \in RemoteType /\ q.files = g /\ q.ptr = remote.ptr
  BY <1>3, <1>8, <1>9 DEF RemoteType
<1>11. remote' = q
  BY <1>2, <1>4, <1>5, <1>7, <1>9 DEF UploadGenerations
<1>12. Published(q) = Published(remote) /\ q.ptr \in DOMAIN q.files
  BY <1>3, <1>4, <1>8, <1>10 DEF Published
<1>13. RemoteOk(set, q)
  BY <1>3, <1>8, <1>10, <1>12 DEF RemoteOk
<1>14. Uploaded(q, loc[d])
  BY <1>4, <1>8, <1>10 DEF Uploaded
<1>15. PICK o : o = [op[d] EXCEPT !.pc = "read"]
  OBVIOUS
<1>16. /\ o \in OpType /\ o.pc = "read" /\ o.then = op[d].then /\ o.push = op[d].push
  BY <1>1, <1>15, OpAt, PlacesAre
<1>17. OpOk(set, q, loc[d], o)
  BY <1>1, <1>2, <1>10, <1>12, <1>14, <1>16
     DEF OpOk, UpdateOk, PushOk, FetchOk, UpdateSteps, BeforeSwap, FetchWrites
<1>18. Pushes(op[d]) /\ \A e \in Devices \ {d} : ~Pushes(op[e])
  <2>1. Pushes(op[d])
    BY <1>1 DEF Pushes, PushSteps
  <2>2. QED  BY <2>1, StillPushing
<1>19. op' = [op EXCEPT ![d] = o] /\ loc' = [loc EXCEPT ![d] = loc[d]]
  BY <1>15, LocSame DEF UploadGenerations, Go, Do
<1>20. /\ set' = set /\ commits' \in 0..set.commits /\ updates' \in 0..set.updates
       /\ invites' \subseteq InviteType /\ \A i \in invites' : InviteOk(set, i)
  BY Counters DEF UploadGenerations, KeyringInv, TypeOK
<1>21. QED
  BY <1>1, <1>10, <1>11, <1>13, <1>16, <1>17, <1>18, <1>19, <1>20, DeviceStep

\* After the pointer a push has nothing of the keyring to rely on.
LEMMA AfterPointerOk ==
  ASSUME KeyringInv, NEW d \in Devices, loc[d].ptr \in DOMAIN loc[d].files
  PROVE  AfterPointer(d) \in OpType /\ \A r : OpOk(set, r, loc[d], AfterPointer(d))
<1>1. op[d].push \in PushType
  BY OfDevice DEF OpType
<1>2. PICK p : p = [NoPush EXCEPT !.rver = op[d].push.rver]
  OBVIOUS
<1>3. p \in PushType
  BY <1>1, <1>2, NoPushType DEF PushType
<1>4. PICK n : n = Pushed(Idle, "ref", p)
  OBVIOUS
<1>5. OpIs(n, "ref", Idle.then, Idle.new, p, Idle.fetch)
  BY <1>3, <1>4, PlacesAre, IdleType, OpPushes
<1>6. n \in OpType /\ n.pc = "ref" /\ n.then = "idle"
  BY <1>5, IdleAfter DEF OpIs
<1>7. AfterPointer(d) \in {n, Idle}
  BY <1>2, <1>4 DEF AfterPointer, Pushed
<1>8. \A r : OpOk(set, r, loc[d], n)
  BY <1>6, Carefree
<1>9. QED  BY <1>6, <1>7, <1>8, IdleType, IdleOk

LEMMA ReadPointerKeeps ==
  ASSUME KeyringInv, NEW d \in Devices, ReadPointer(d)
  PROVE  KeyringInv'
<1>1. /\ op[d] \in OpType /\ op[d].pc = "read" /\ OpOk(set, remote, loc[d], op[d])
      /\ op[d].push \in PushType
  BY OfDevice DEF ReadPointer, OpType
<1>2. loc[d].ptr \in DOMAIN loc[d].files
  BY <1>1 DEF OpOk
<1>3. Pushes(op[d])
  BY <1>1 DEF Pushes, PushSteps
<1>4. UNCHANGED <<loc, remote, invites, commits, updates, set>>
  BY DEF ReadPointer
<1>5. CASE remote.ptr = loc[d].ptr
  BY <1>2, <1>3, <1>4, <1>5, AfterPointerOk, OpStep DEF ReadPointer, Do
<1>6. CASE remote.ptr # loc[d].ptr
  <2>1. PICK p : p = [op[d].push EXCEPT !.same = TRUE]
    OBVIOUS
  <2>2. p \in PushType /\ p.seen = op[d].push.seen /\ p.same
    BY <1>1, <2>1 DEF PushType
  <2>3. PICK o : o = Pushed(op[d], "swap", p)
    OBVIOUS
  <2>4. OpIs(o, "swap", op[d].then, op[d].new, p, op[d].fetch)
    BY <1>1, <2>2, <2>3, PlacesAre, OpPushes
  <2>5. o \in OpType /\ o.pc = "swap" /\ o.then = op[d].then /\ o.push = p
    BY <2>4 DEF OpIs
  <2>6. op' = [op EXCEPT ![d] = o]
    BY <1>6, <2>1, <2>3 DEF ReadPointer, Do, Pushed
  <2>7. OpOk(set, remote, loc[d], o)
    BY <1>1, <1>6, <2>2, <2>5
       DEF OpOk, UpdateOk, PushOk, FetchOk, UpdateSteps, BeforeSwap, FetchWrites
  <2>8. QED  BY <1>3, <1>4, <2>5, <2>6, <2>7, OpStep
<1>7. QED  BY <1>5, <1>6

\* What a swap publishes: a keyring that knows the one before, and so has
\* the owner's first devices.
LEMMA SwapPublishes ==
  ASSUME KeyringInv, NEW d \in Devices, SwapPointer(d)
  PROVE  /\ remote' \in RemoteType /\ RemoteOk(set, remote')
         /\ RemoteCur' = Cur(d) /\ Knows(Cur(d), RemoteCur)
<1>1. /\ loc[d] \in LocalType /\ op[d].pc = "swap" /\ OpOk(set, remote, loc[d], op[d])
      /\ set \in Settings
  BY OfDevice DEF SwapPointer
<1>2. /\ Knows(Cur(d), Published(remote)) /\ Uploaded(remote, loc[d])
      /\ loc[d].ptr # remote.ptr /\ loc[d].ptr \in DOMAIN loc[d].files
  BY <1>1 DEF OpOk, PushOk, BeforeSwap, Cur
<1>3. /\ remote \in RemoteType /\ RemoteOk(set, remote) /\ Published(remote) = RemoteCur
      /\ set.joined \cap Admins \subseteq RemoteCur.active
  BY PublishedIsSound DEF KeyringInv, TypeOK
<1>4. loc[d].ptr \in DOMAIN remote.files /\ remote.files[loc[d].ptr] = Cur(d)
  BY <1>2 DEF Uploaded, Cur
<1>5. loc[d].ptr \in Names
  BY <1>2, OfDevice, FilesHold
<1>6. PICK q : q = [remote EXCEPT !.ptr = loc[d].ptr]
  OBVIOUS
<1>7. q \in RemoteType /\ q.ptr = loc[d].ptr /\ q.files = remote.files
  BY <1>3, <1>5, <1>6 DEF RemoteType
<1>8. remote' = q
  BY <1>6 DEF SwapPointer
<1>9. Sound(set, Cur(d))
  BY <1>2, CurIsSound
<1>10. set.joined \cap Admins \subseteq Cur(d).active
  BY <1>1, <1>2, <1>3, <1>9, KnowsFounders
<1>11. RemoteOk(set, q)
  BY <1>3, <1>4, <1>7, <1>10 DEF RemoteOk, Published
<1>12. RemoteCur' = Cur(d)
  BY <1>4, <1>7, <1>8 DEF RemoteCur
<1>13. QED  BY <1>2, <1>3, <1>7, <1>8, <1>11, <1>12

LEMMA SwapPointerKeeps ==
  ASSUME KeyringInv, NEW d \in Devices, SwapPointer(d)
  PROVE  KeyringInv'
<1>1. /\ loc[d] \in LocalType /\ LocalOk(set, d, loc[d]) /\ op[d].pc = "swap"
      /\ OpOk(set, remote, loc[d], op[d]) /\ op \in [Devices -> OpType]
  BY OfDevice DEF SwapPointer, KeyringInv, TypeOK
<1>2. loc[d].ptr \in DOMAIN loc[d].files
  BY <1>1 DEF OpOk
<1>3. Pushes(op[d]) /\ \A e \in Devices \ {d} : ~Pushes(op[e])
  <2>1. Pushes(op[d])
    BY <1>1 DEF Pushes, PushSteps
  <2>2. QED  BY <2>1, StillPushing
<1>4. op' = [op EXCEPT ![d] = AfterPointer(d)]
  <2>1. \A e \in Devices \ {d} : op[e].pc # "swap"
    BY <1>3 DEF Pushes, PushSteps
  <2>2. op' = [e \in Devices |-> IF e = d THEN AfterPointer(d) ELSE op[e]]
    BY <2>1 DEF SwapPointer
  <2>3. QED  BY <1>1, <2>2
<1>5. AfterPointer(d) \in OpType /\ OpOk(set, remote', loc[d], AfterPointer(d))
  BY <1>2, AfterPointerOk
<1>6. remote' \in RemoteType /\ RemoteOk(set, remote')
  BY SwapPublishes
<1>7. /\ loc' = [loc EXCEPT ![d] = loc[d]]
      /\ set' = set /\ commits' \in 0..set.commits /\ updates' \in 0..set.updates
      /\ invites' \subseteq InviteType /\ \A i \in invites' : InviteOk(set, i)
  BY LocSame, Counters DEF SwapPointer, KeyringInv, TypeOK
<1>8. QED  BY <1>1, <1>3, <1>4, <1>5, <1>6, <1>7, DeviceStep

\* No other push comes between reading the pointer and swapping it.
LEMMA NoConflict ==
  ASSUME KeyringInv, NEW d \in Devices
  PROVE  ~PointerConflict(d)
BY OfDevice DEF PointerConflict, OpOk, PushOk

LEMMA PublishRefKeeps ==
  ASSUME KeyringInv, NEW d \in Devices, PublishRef(d)
  PROVE  KeyringInv'
<1>1. /\ loc[d] \in LocalType /\ LocalOk(set, d, loc[d]) /\ op[d].pc = "ref"
  BY OfDevice DEF PublishRef
<1>2. remote \in RemoteType /\ RemoteOk(set, remote) /\ loc[d].ref \in Refs
  BY <1>1 DEF KeyringInv, TypeOK, LocalType
<1>3. PICK q : q = [remote EXCEPT !.ref = loc[d].ref, !.rver = remote.rver + 1]
  OBVIOUS
<1>4. q \in RemoteType /\ q.files = remote.files /\ q.ptr = remote.ptr
  <2>1. PICK v \in Nat : v = remote.rver + 1
    BY <1>2 DEF RemoteType
  <2>2. q = [remote EXCEPT !.ref = loc[d].ref, !.rver = v]
    BY <1>3, <2>1
  <2>3. QED  BY <1>2, <2>2 DEF RemoteType
<1>5. remote' \in {remote, q}
  BY <1>3 DEF PublishRef
<1>6. remote' \in RemoteType /\ RemoteOk(set, remote')
  BY <1>2, <1>4, <1>5 DEF RemoteOk, Published
<1>7. Pushes(op[d])
  BY <1>1 DEF Pushes, PushSteps
<1>8. /\ loc' = [loc EXCEPT ![d] = loc[d]] /\ op' = [op EXCEPT ![d] = Idle]
      /\ set' = set /\ commits' \in 0..set.commits /\ updates' \in 0..set.updates
      /\ invites' \subseteq InviteType /\ \A i \in invites' : InviteOk(set, i)
  BY LocSame, Counters DEF PublishRef, Do, KeyringInv, TypeOK
<1>9. QED  BY <1>1, <1>6, <1>7, <1>8, IdleType, IdleOk, DeviceStep

(***************************************************************************)
(* Fetch, acceptance, crashes                                              *)
(***************************************************************************)
LEMMA StartFetchKeeps ==
  ASSUME KeyringInv, NEW d \in Devices, StartFetch(d)
  PROVE  KeyringInv'
<1>1. loc[d].ptr \in DOMAIN loc[d].files
  BY JoinedHasPointer DEF StartFetch
<1>2. remote.ref \in Refs /\ remote.rver \in Nat
  BY DEF KeyringInv, TypeOK, RemoteType
<1>3. PICK f : f = [NoFetch EXCEPT !.ref = remote.ref, !.rver = remote.rver]
  OBVIOUS
<1>4. f \in FetchType
  BY <1>2, <1>3, NoFetchType DEF FetchType
<1>5. PICK o : o = Fetched(Idle, "control", f)
  OBVIOUS
<1>6. OpIs(o, "control", Idle.then, Idle.new, Idle.push, f)
  BY <1>4, <1>5, PlacesAre, IdleType, OpFetches
<1>7. o \in OpType /\ o.pc = "control" /\ o.then = "idle"
  BY <1>6, IdleAfter DEF OpIs
<1>8. OpOk(set, remote, loc[d], o) /\ ~Pushes(o)
  BY <1>1, <1>7, Carefree DEF Pushes, PushSteps
<1>9. op' = [op EXCEPT ![d] = o] /\ UNCHANGED <<loc, remote, invites, commits, updates, set>>
  BY <1>3, <1>5, Zenon DEF StartFetch, Do, Fetched
<1>10. QED  BY <1>7, <1>8, <1>9, OpStep

\* A step of d that leaves the remote, the invitations and the counters.
LEMMA BothStep ==
  ASSUME KeyringInv, NEW d \in Devices, NEW x \in LocalType, NEW o \in OpType,
         loc' = [loc EXCEPT ![d] = x], op' = [op EXCEPT ![d] = o],
         UNCHANGED <<remote, invites, commits, updates, set>>,
         LocalOk(set, d, x), OpOk(set, remote, x, o), ~Pushes(o)
  PROVE  KeyringInv'
BY SameCounters, LocalStep

(* The whole remote control plane is read at once; what is kept of it has   *)
(* its pointer (read_remote_control_plane).                                 *)
LEMMA ReadControlPlaneKeeps ==
  ASSUME KeyringInv, NEW d \in Devices, ReadControlPlane(d)
  PROVE  KeyringInv'
<1>1. /\ loc[d] \in LocalType /\ LocalOk(set, d, loc[d]) /\ op[d] \in OpType
      /\ op[d].pc = "control" /\ OpOk(set, remote, loc[d], op[d]) /\ op[d].fetch \in FetchType
  BY OfDevice DEF ReadControlPlane, OpType
<1>2. loc[d].ptr \in DOMAIN loc[d].files /\ op[d].then = "idle"
  BY <1>1 DEF OpOk, UpdateOk, UpdateSteps
<1>3. /\ remote.files \in Files /\ Filed(set, remote.files) /\ remote.ptr \in DOMAIN remote.files
      /\ remote.ptr \in Pointers
  BY PublishedIsSound DEF Resolves, KeyringInv, TypeOK, RemoteType, Pointers
<1>4. UNCHANGED <<remote, invites, commits, updates, set>>
  BY DEF ReadControlPlane
<1>5. CASE ~(Fetches(d) /\ ~UpToDate(d))
  <2>1. op' = [op EXCEPT ![d] = Idle] /\ UNCHANGED loc
    BY <1>5 DEF ReadControlPlane, Do
  <2>2. QED  BY <1>4, <2>1, IdleOk, IdleType, OpStep
<1>6. CASE Fetches(d) /\ ~UpToDate(d)
  <2>1. PICK k \in BOOLEAN : k = Keeps(d)
    BY DEF Keeps
  <2>2. PICK f : f = [op[d].fetch EXCEPT !.files = remote.files, !.ptr = remote.ptr, !.keep = k]
    OBVIOUS
  <2>3. f \in FetchType /\ f.files = remote.files /\ f.ptr = remote.ptr /\ f.keep = k
    BY <1>1, <1>3, <2>1, <2>2 DEF FetchType
  <2>4. PICK pc \in {"putref", "putfiles"} : pc = IF k THEN "putref" ELSE "putfiles"
    OBVIOUS
  <2>5. PICK o : o = Fetched(op[d], pc, f)
    OBVIOUS
  <2>6. OpIs(o, pc, op[d].then, op[d].new, op[d].push, f)
    BY <1>1, <2>3, <2>4, <2>5, PlacesAre, OpFetches
  <2>7. o \in OpType /\ o.pc = pc /\ o.then = "idle" /\ o.fetch = f
    BY <1>2, <2>6 DEF OpIs
  <2>8. PICK x : x = [loc[d] EXCEPT !.loaded = TRUE]
    OBVIOUS
  <2>9. x \in LocalType /\ x.ptr = loc[d].ptr /\ x.files = loc[d].files
    BY <1>1, <2>8 DEF LocalType
  <2>10. op' = [op EXCEPT ![d] = o] /\ loc' = [loc EXCEPT ![d] = x]
    BY <1>6, <2>1, <2>2, <2>4, <2>5, <2>8, Zenon DEF ReadControlPlane, Do, Local, Fetched
  <2>11. LocalOk(set, d, x)
    BY <1>1, <2>9 DEF LocalOk
  <2>12. o.pc = "putref" => o.fetch.keep
    BY <2>3, <2>4, <2>7
  <2>13. OpOk(set, remote, x, o)
    BY <1>2, <1>3, <2>3, <2>4, <2>7, <2>9, <2>12
       DEF OpOk, UpdateOk, PushOk, FetchOk, UpdateSteps, BeforeSwap, FetchWrites
  <2>14. ~Pushes(o)
    BY <2>4, <2>7 DEF Pushes, PushSteps
  <2>15. QED  BY <1>4, <2>7, <2>9, <2>10, <2>11, <2>13, <2>14, BothStep
<1>7. QED  BY <1>5, <1>6

LEMMA PutFilesKeeps ==
  ASSUME KeyringInv, NEW d \in Devices, PutFiles(d)
  PROVE  KeyringInv'
<1>1. /\ loc[d] \in LocalType /\ LocalOk(set, d, loc[d]) /\ op[d] \in OpType
      /\ op[d].pc = "putfiles" /\ OpOk(set, remote, loc[d], op[d])
      /\ loc[d].files \in Files /\ Filed(set, loc[d].files) /\ op[d].fetch.files \in Files
  BY OfDevice DEF PutFiles, OpType, FetchType
<1>2. /\ Filed(set, op[d].fetch.files) /\ op[d].fetch.ptr \in DOMAIN op[d].fetch.files
      /\ loc[d].ptr \in DOMAIN loc[d].files /\ op[d].then = "idle"
  BY <1>1 DEF OpOk, UpdateOk, FetchOk, FetchWrites, UpdateSteps
<1>3. PICK g : g = Over(op[d].fetch.files, loc[d].files)
  OBVIOUS
<1>4. /\ g \in Files /\ Filed(set, g)
      /\ DOMAIN g = DOMAIN op[d].fetch.files \cup DOMAIN loc[d].files
  <2>1. Overlaid(set, op[d].fetch.files, loc[d].files, g)
    BY <1>1, <1>2, <1>3, OverFiles, Zenon
  <2>2. QED  BY <2>1 DEF Overlaid
<1>5. PICK x : x = [loc[d] EXCEPT !.files = g]
  OBVIOUS
<1>6. x \in LocalType /\ x.ptr = loc[d].ptr /\ x.files = g
  BY <1>1, <1>4, <1>5 DEF LocalType
<1>7. PICK o : o = [op[d] EXCEPT !.pc = "putref"]
  OBVIOUS
<1>8. o \in OpType /\ o.pc = "putref" /\ o.then = "idle" /\ o.fetch = op[d].fetch
  BY <1>1, <1>2, <1>7, OpAt, PlacesAre
<1>9. op' = [op EXCEPT ![d] = o] /\ loc' = [loc EXCEPT ![d] = x]
  BY <1>3, <1>5, <1>7, Zenon DEF PutFiles, Go, Do, Local
<1>10. LocalOk(set, d, x)
  BY <1>2, <1>4, <1>6 DEF LocalOk
<1>11. OpOk(set, remote, x, o)
  BY <1>2, <1>4, <1>6, <1>8
     DEF OpOk, UpdateOk, PushOk, FetchOk, UpdateSteps, BeforeSwap, FetchWrites
<1>12. ~Pushes(o)
  BY <1>8 DEF Pushes, PushSteps
<1>13. QED  BY <1>6, <1>8, <1>9, <1>10, <1>11, <1>12, BothStep DEF PutFiles

LEMMA PutRefKeeps ==
  ASSUME KeyringInv, NEW d \in Devices, PutRef(d)
  PROVE  KeyringInv'
<1>1. /\ loc[d] \in LocalType /\ LocalOk(set, d, loc[d]) /\ op[d] \in OpType
      /\ op[d].pc = "putref" /\ OpOk(set, remote, loc[d], op[d]) /\ op[d].fetch.ref \in Refs
  BY OfDevice DEF PutRef, OpType, FetchType
<1>2. /\ Filed(set, op[d].fetch.files) /\ op[d].fetch.ptr \in DOMAIN op[d].fetch.files
      /\ loc[d].ptr \in DOMAIN loc[d].files /\ op[d].then = "idle"
      /\ ~op[d].fetch.keep => op[d].fetch.ptr \in DOMAIN loc[d].files
  BY <1>1 DEF OpOk, UpdateOk, FetchOk, FetchWrites, UpdateSteps
<1>3. PICK x : x = [loc[d] EXCEPT !.ref = op[d].fetch.ref]
  OBVIOUS
<1>4. x \in LocalType /\ x.ptr = loc[d].ptr /\ x.files = loc[d].files
  BY <1>1, <1>3 DEF LocalType
<1>5. PICK pc \in {"floor", "putpointer"} : pc = IF op[d].fetch.keep THEN "floor" ELSE "putpointer"
  OBVIOUS
<1>6. PICK o : o = [op[d] EXCEPT !.pc = pc]
  OBVIOUS
<1>7. o \in OpType /\ o.pc = pc /\ o.then = "idle" /\ o.fetch = op[d].fetch
  BY <1>1, <1>2, <1>5, <1>6, OpAt, PlacesAre
<1>8. op' = [op EXCEPT ![d] = o] /\ loc' = [loc EXCEPT ![d] = x]
  BY <1>3, <1>5, <1>6, Zenon DEF PutRef, Go, Do, Local
<1>9. LocalOk(set, d, x)
  BY <1>1, <1>4 DEF LocalOk
<1>10. OpOk(set, remote, x, o)
  BY <1>2, <1>4, <1>5, <1>7
     DEF OpOk, UpdateOk, PushOk, FetchOk, UpdateSteps, BeforeSwap, FetchWrites
<1>11. ~Pushes(o)
  BY <1>5, <1>7 DEF Pushes, PushSteps
<1>12. QED  BY <1>4, <1>7, <1>8, <1>9, <1>10, <1>11, BothStep DEF PutRef

LEMMA PutPointerKeeps ==
  ASSUME KeyringInv, NEW d \in Devices, PutPointer(d)
  PROVE  KeyringInv'
<1>1. /\ loc[d] \in LocalType /\ LocalOk(set, d, loc[d]) /\ op[d] \in OpType
      /\ op[d].pc = "putpointer" /\ OpOk(set, remote, loc[d], op[d])
      /\ op[d].fetch.ptr \in Pointers
  BY OfDevice DEF PutPointer, OpType, FetchType
<1>2. /\ Filed(set, op[d].fetch.files) /\ op[d].fetch.ptr \in DOMAIN op[d].fetch.files
      /\ op[d].then = "idle" /\ op[d].fetch.ptr \in DOMAIN loc[d].files
  BY <1>1 DEF OpOk, UpdateOk, FetchOk, FetchWrites, UpdateSteps
<1>3. PICK x : x = [loc[d] EXCEPT !.ptr = op[d].fetch.ptr]
  OBVIOUS
<1>4. x \in LocalType /\ x.ptr = op[d].fetch.ptr /\ x.files = loc[d].files
  BY <1>1, <1>3 DEF LocalType
<1>5. PICK o : o = [op[d] EXCEPT !.pc = "floor"]
  OBVIOUS
<1>6. o \in OpType /\ o.pc = "floor" /\ o.then = "idle" /\ o.fetch = op[d].fetch
  BY <1>1, <1>2, <1>5, OpAt, PlacesAre
<1>7. op' = [op EXCEPT ![d] = o] /\ loc' = [loc EXCEPT ![d] = x]
  BY <1>3, <1>5, Zenon DEF PutPointer, Go, Do, Local
<1>8. LocalOk(set, d, x)
  BY <1>1, <1>2, <1>4 DEF LocalOk
<1>9. OpOk(set, remote, x, o)
  BY <1>2, <1>4, <1>6
     DEF OpOk, UpdateOk, PushOk, FetchOk, UpdateSteps, BeforeSwap, FetchWrites
<1>10. ~Pushes(o)
  BY <1>6 DEF Pushes, PushSteps
<1>11. QED  BY <1>4, <1>6, <1>7, <1>8, <1>9, <1>10, BothStep DEF PutPointer

LEMMA EndFetchKeeps ==
  ASSUME KeyringInv, NEW d \in Devices, EndFetch(d)
  PROVE  KeyringInv'
<1>1. loc[d] \in LocalType /\ LocalOk(set, d, loc[d])
  BY OfDevice
<1>2. PICK x : x = [loc[d] EXCEPT !.torn = FALSE]
  OBVIOUS
<1>3. x \in LocalType /\ x.ptr = loc[d].ptr /\ x.files = loc[d].files
  BY <1>1, <1>2 DEF LocalType
<1>4. op' = [op EXCEPT ![d] = Idle] /\ loc' = [loc EXCEPT ![d] = x]
  BY <1>2, Zenon DEF EndFetch, Do, Local
<1>5. LocalOk(set, d, x)
  BY <1>1, <1>3 DEF LocalOk
<1>6. QED  BY <1>3, <1>4, <1>5, IdleType, IdleOk, BothStep DEF EndFetch

LEMMA EndVerifyKeeps ==
  ASSUME KeyringInv, NEW d \in Devices, EndVerify(d)
  PROVE  KeyringInv'
BY IdleType, IdleOk, OpStep DEF EndVerify, Do

(* All that is published comes at once (force_accept_remote_rollback).      *)
LEMMA ForceAcceptKeeps ==
  ASSUME KeyringInv, NEW d \in Devices, ForceAccept(d)
  PROVE  KeyringInv'
<1>1. /\ loc[d] \in LocalType /\ op[d] \in OpType
      /\ loc[d].files \in Files /\ Filed(set, loc[d].files)
  BY OfDevice
<1>2. op[d].pc = "idle" /\ op[d].then = "idle" /\ ~Pushes(op[d])
  BY IdleThen DEF ForceAccept
<1>3. /\ remote.files \in Files /\ Filed(set, remote.files) /\ remote.ptr \in DOMAIN remote.files
      /\ remote.ptr \in Pointers /\ remote.ref \in Refs
  BY PublishedIsSound DEF Resolves, KeyringInv, TypeOK, RemoteType, Pointers
<1>4. PICK g : g = Over(remote.files, loc[d].files)
  OBVIOUS
<1>5. g \in Files /\ Filed(set, g) /\ DOMAIN g = DOMAIN remote.files \cup DOMAIN loc[d].files
  <2>1. Overlaid(set, remote.files, loc[d].files, g)
    BY <1>1, <1>3, <1>4, OverFiles, Zenon
  <2>2. QED  BY <2>1 DEF Overlaid
<1>6. PICK x : x = [loc[d] EXCEPT !.files = g, !.ref = remote.ref, !.ptr = remote.ptr,
                                  !.loaded = TRUE, !.torn = FALSE]
  OBVIOUS
<1>7. x \in LocalType /\ x.ptr = remote.ptr /\ x.files = g
  <2>1. PICK p \in Pointers, r \in Refs : p = remote.ptr /\ r = remote.ref
    BY <1>3
  <2>2. x = [loc[d] EXCEPT !.files = g, !.ref = r, !.ptr = p, !.loaded = TRUE, !.torn = FALSE]
    BY <1>6, <2>1, Zenon
  <2>3. x \in LocalType /\ x.ptr = p /\ x.files = g
    BY <1>1, <1>5, <2>2 DEF LocalType
  <2>4. QED  BY <2>1, <2>3
<1>8. loc' = [loc EXCEPT ![d] = x] /\ op' = [op EXCEPT ![d] = op[d]]
  <2>1. loc' = [loc EXCEPT ![d] = x]
    BY <1>4, <1>6, Zenon DEF ForceAccept, Local
  <2>2. QED  BY <2>1, LocSame DEF ForceAccept
<1>9. LocalOk(set, d, x)
  BY <1>3, <1>5, <1>7 DEF LocalOk
<1>10. OpOk(set, remote, x, op[d])
  BY <1>2, Carefree
<1>11. QED
  BY <1>1, <1>2, <1>7, <1>8, <1>9, <1>10, BothStep DEF ForceAccept

LEMMA CrashKeeps ==
  ASSUME KeyringInv, NEW d \in Devices, Crash(d)
  PROVE  KeyringInv'
<1>1. loc[d] \in LocalType /\ LocalOk(set, d, loc[d])
  BY OfDevice
<1>2. PICK t \in BOOLEAN : t = (loc[d].torn \/ op[d].pc \in FetchWrites)
  OBVIOUS
<1>3. PICK x : x = [loc[d] EXCEPT !.torn = t]
  OBVIOUS
<1>4. x \in LocalType /\ x.ptr = loc[d].ptr /\ x.files = loc[d].files
  BY <1>1, <1>2, <1>3 DEF LocalType
<1>5. op' = [op EXCEPT ![d] = Idle] /\ loc' = [loc EXCEPT ![d] = x]
  BY <1>2, <1>3 DEF Crash, Do, Local
<1>6. LocalOk(set, d, x)
  BY <1>1, <1>4 DEF LocalOk
<1>7. QED  BY <1>4, <1>5, <1>6, IdleType, IdleOk, BothStep DEF Crash


(***************************************************************************)
(* The invariant, and what follows                                         *)
(***************************************************************************)
(* The first keyring has the owner's first devices and a password           *)
(* (initial_keyring).                                                       *)
LEMMA FirstIsSound ==
  ASSUME NEW s \in Settings
  PROVE  First(s) \in Keyrings /\ Sound(s, First(s)) /\ First(s).active = s.joined
<1>1. s.joined \subseteq Devices
  BY ControlAssumption
<1>2. Key(0) \in Keys
  BY KeyZero
<1>3. <<Key(0)>> \in Seq(Keys) \ {<< >>}
  BY <1>2
<1>4. First(s) \in Keyrings
  BY <1>1, <1>3 DEF First, Keyrings
<1>5. First(s).active = s.joined /\ First(s).revoked = {} /\ First(s).pw = 1
  BY DEF First
<1>6. QED  BY <1>4, <1>5 DEF Sound, NoPassword

\* A directory with the first keyring, and one with none.
LEMMA FirstDirectory ==
  ASSUME NEW s \in Settings, NEW d \in Devices, NEW f \in Files, NEW n \in Names,
         Filed(s, f), n \in DOMAIN f, NEW x,
         x = IF d \in s.joined
             THEN [NoDirectory EXCEPT !.ptr = n, !.loaded = TRUE, !.files = f] ELSE NoDirectory
  PROVE  x \in LocalType /\ LocalOk(s, d, x)
<1>1. NoDirectory \in LocalType
  BY KeyZero, NoFiles DEF NoDirectory, LocalType, Pointers
<1>2. NoDirectory.ptr = None /\ NoDirectory.files = << >>
  BY DEF NoDirectory
<1>3. CASE d \in s.joined
  <2>1. x = [NoDirectory EXCEPT !.ptr = n, !.loaded = TRUE, !.files = f]
    BY <1>3
  <2>2. n \in Pointers
    BY DEF Pointers
  <2>3. x \in LocalType /\ x.ptr = n /\ x.files = f
    BY <1>1, <2>1, <2>2 DEF LocalType
  <2>4. QED  BY <2>3 DEF LocalOk
<1>4. CASE d \notin s.joined
  <2>1. x = NoDirectory
    BY <1>4
  <2>2. Filed(s, << >>)
    BY NoFiles DEF Filed
  <2>3. QED  BY <1>1, <1>2, <1>4, <2>1, <2>2 DEF LocalOk
<1>5. QED  BY <1>3, <1>4

LEMMA InitKeeps == Init => KeyringInv
<1> SUFFICES ASSUME Init PROVE KeyringInv
  OBVIOUS
<1>1. set \in Settings
  BY DEF Init
<1>2. PICK k : k = First(set)
  OBVIOUS
<1>3. k \in Keyrings /\ Sound(set, k) /\ k.active = set.joined
  BY <1>1, <1>2, FirstIsSound
<1>4. PICK n : n = Name(k)
  OBVIOUS
<1>5. n \in Names /\ n[1] = k.gen
  BY <1>3, <1>4, NameIsName
<1>6. PICK f : f = [m \in {n} |-> k]
  OBVIOUS
<1>7. f \in Files /\ Filed(set, f) /\ DOMAIN f = {n} /\ f[n] = k
  BY <1>3, <1>5, <1>6, OneFile
<1>8. \A d \in Devices : loc[d] \in LocalType /\ LocalOk(set, d, loc[d])
  <2>1. SUFFICES ASSUME NEW d \in Devices PROVE loc[d] \in LocalType /\ LocalOk(set, d, loc[d])
    OBVIOUS
  <2>2. loc[d] = IF d \in set.joined
                 THEN [NoDirectory EXCEPT !.ptr = n, !.loaded = TRUE, !.files = f]
                 ELSE NoDirectory
    BY <1>2, <1>4, <1>6, Zenon DEF Init
  <2>3. n \in DOMAIN f
    BY <1>7
  <2>4. QED  BY <1>1, <1>5, <1>7, <2>2, <2>3, FirstDirectory
<1>9. /\ remote = [files |-> f, ptr |-> n, ref |-> NoDirectory.ref, rver |-> 1]
      /\ op = [d \in Devices |-> Idle]
      /\ DOMAIN loc = Devices /\ loc = [d \in Devices |-> loc[d]]
  BY <1>2, <1>4, <1>6 DEF Init
<1>10. remote \in RemoteType /\ remote.files = f /\ remote.ptr = n
  BY <1>5, <1>7, <1>9, KeyZero DEF RemoteType
<1>11. TypeOK
  <2>1. commits \in 0..set.commits /\ updates \in 0..set.updates
    BY <1>1, ControlAssumption DEF Init
  <2>2. loc \in [Devices -> LocalType] /\ op \in [Devices -> OpType]
    BY <1>8, <1>9, IdleType
  <2>3. invites \in SUBSET InviteType
    BY DEF Init
  <2>4. QED  BY <1>1, <1>10, <2>1, <2>2, <2>3 DEF TypeOK
<1>12. RemoteOk(set, remote)
  BY <1>3, <1>7, <1>10 DEF RemoteOk, Published
<1>13. \A d \in Devices : OpOk(set, remote, loc[d], op[d]) /\ ~Pushes(op[d])
  BY <1>9, IdleOk
<1>14. invites = {}
  BY DEF Init
<1>15. QED  BY <1>8, <1>11, <1>12, <1>13, <1>14 DEF KeyringInv

LEMMA NextKeeps ==
  ASSUME KeyringInv, set.serial, [Next]_vars
  PROVE  KeyringInv'
<1>1. ASSUME NEW d \in Devices, UpdateStep(d) PROVE KeyringInv'
  BY <1>1, WriteGenerationKeeps, WritePointerKeeps, ReleaseLockKeeps, DropJournalKeeps
     DEF UpdateStep
<1>2. ASSUME NEW d \in Devices, PushStep(d) PROVE KeyringInv'
  BY <1>2, StartPushKeeps, PrepareKeeps, UploadGenerationsKeeps, ReadPointerKeeps,
     SwapPointerKeeps, NoConflict, PublishRefKeeps DEF PushStep
<1>3. ASSUME NEW d \in Devices, FetchStep(d) PROVE KeyringInv'
  BY <1>3, StartFetchKeeps, ReadControlPlaneKeeps, PutFilesKeeps, PutRefKeeps,
     PutPointerKeeps, EndFetchKeeps DEF FetchStep
<1>4. ASSUME NEW d \in Devices, NEW m \in Devices, RevokeDevice(d, m) \/ Invite(d, m)
      PROVE  KeyringInv'
  BY <1>4, RevokeDeviceKeeps, InviteKeeps
<1>5. ASSUME NEW d \in Devices,
             \/ ChangePassword(d) \/ UnlockFromJournal(d) \/ Commit(d)
             \/ StartVerify(d) \/ EndVerify(d) \/ ForceAccept(d) \/ Crash(d)
      PROVE  KeyringInv'
  BY <1>5, ChangePasswordKeeps, UnlockFromJournalKeeps, CommitKeeps, StartVerifyKeeps,
     EndVerifyKeeps, ForceAcceptKeeps, CrashKeeps
<1>6. ASSUME NEW i \in invites, Accept(i) PROVE KeyringInv'
  BY <1>6, AcceptKeeps
<1>7. ASSUME UNCHANGED vars PROVE KeyringInv'
  BY <1>7 DEF vars, KeyringInv, TypeOK
<1>8. QED  BY <1>1, <1>2, <1>3, <1>4, <1>5, <1>6, <1>7 DEF Next

\* The settings in which a push starts when no other one is under way.
InTurn == set.serial

LEMMA StaysInTurn ==
  ASSUME InTurn, [Next]_vars
  PROVE  InTurn'
<1>1. ASSUME NEW d \in Devices, UpdateStep(d) PROVE set' = set
  BY <1>1 DEF UpdateStep, WriteGeneration, WritePointer, ReleaseLock, DropJournal
<1>2. ASSUME NEW d \in Devices, PushStep(d) PROVE set' = set
  BY <1>2 DEF PushStep, StartPush, Prepare, UploadGenerations, ReadPointer, SwapPointer,
     PointerConflict, PublishRef
<1>3. ASSUME NEW d \in Devices, FetchStep(d) PROVE set' = set
  BY <1>3 DEF FetchStep, StartFetch, ReadControlPlane, PutFiles, PutRef, PutPointer, EndFetch
<1>4. ASSUME NEW d \in Devices,
             \/ ChangePassword(d) \/ UnlockFromJournal(d) \/ Commit(d)
             \/ \E m \in Devices : RevokeDevice(d, m) \/ Invite(d, m)
             \/ StartVerify(d) \/ EndVerify(d) \/ ForceAccept(d) \/ Crash(d)
      PROVE  set' = set
  BY <1>4 DEF ChangePassword, UnlockFromJournal, Commit, RevokeDevice, Invite,
     StartVerify, EndVerify, ForceAccept, Crash
<1>5. ASSUME (\E i \in invites : Accept(i)) \/ UNCHANGED vars PROVE set' = set
  BY <1>5 DEF Accept, vars
<1>6. QED  BY <1>1, <1>2, <1>3, <1>4, <1>5 DEF Next, InTurn

LEMMA KeyringInvAlways == Spec /\ InTurn => [](KeyringInv /\ InTurn)
<1>1. Init => KeyringInv
  BY InitKeeps
<1>2. KeyringInv /\ InTurn /\ [Next]_vars => (KeyringInv /\ InTurn)'
  BY NextKeeps, StaysInTurn DEF InTurn
<1>3. QED  BY <1>1, <1>2, PTL DEF Spec

(* The file the remote pointer names is there and has the generation the    *)
(* pointer says, whatever runs beside a push and wherever it stops:         *)
(* generations are uploaded before the pointer is swapped, and the          *)
(* published one is not written over (push.rs                               *)
(* upload_remote_keyring_generations, publish_remote_keyring_pointer).      *)
THEOREM PointerAlwaysResolves == Spec /\ InTurn => []PointerResolves
<1>1. KeyringInv => PointerResolves
  BY PublishedIsSound DEF PointerResolves
<1>2. QED  BY <1>1, KeyringInvAlways, PTL

(* The published keyring has a password envelope, though the devices that   *)
(* are invited have none: what is published is merged with what was         *)
(* (facade.rs select_password_envelope_for_active_epoch, push.rs            *)
(* reconcile_local_keyring_with_remote_if_needed).                          *)
THEOREM PublishedAlwaysHasPassword == Spec /\ InTurn => []PublishedHasPassword
<1>1. KeyringInv => PublishedHasPassword
  BY PublishedIsSound DEF PublishedHasPassword
<1>2. QED  BY <1>1, KeyringInvAlways, PTL

\* The steps that publish another keyring, and those that do not.
LEMMA PublishesOnlyBySwap ==
  ASSUME KeyringInv, [Next]_vars
  PROVE  RemoteCur' = RemoteCur \/ \E d \in Devices : SwapPointer(d)
<1>1. ASSUME NEW d \in Devices, UploadGenerations(d) PROVE RemoteCur' = RemoteCur
  <2>1. op[d].push.seen = remote.ptr /\ op[d].pc = "upload"
    BY <1>1, OfDevice DEF UploadGenerations, OpOk, PushOk, BeforeSwap
  <2>2. PICK f : f = Restrict(loc[d].files, DOMAIN loc[d].files \ {remote.ptr})
    OBVIOUS
  <2>3. DOMAIN f = DOMAIN loc[d].files \ {remote.ptr}
    BY <2>2 DEF Restrict
  <2>4. remote \in RemoteType /\ remote.ptr \in DOMAIN remote.files
    BY PublishedIsSound DEF KeyringInv, TypeOK, Resolves
  <2>5. PICK g : g = Over(f, remote.files)
    OBVIOUS
  <2>6. g[remote.ptr] = remote.files[remote.ptr]
    BY <2>3, <2>4, <2>5 DEF Over
  <2>7. remote' = [remote EXCEPT !.files = g]
    BY <1>1, <2>1, <2>2, <2>5 DEF UploadGenerations
  <2>8. remote'.files = g /\ remote'.ptr = remote.ptr
    BY <2>4, <2>7 DEF RemoteType
  <2>9. QED  BY <2>6, <2>8 DEF RemoteCur
<1>2. ASSUME NEW d \in Devices, PublishRef(d) PROVE RemoteCur' = RemoteCur
  <2>1. remote \in RemoteType
    BY DEF KeyringInv, TypeOK
  <2>2. remote'.files = remote.files /\ remote'.ptr = remote.ptr
    BY <1>2, <2>1 DEF PublishRef, RemoteType
  <2>3. QED  BY <2>2 DEF RemoteCur
<1>3. ASSUME NEW d \in Devices, PushStep(d)
      PROVE  RemoteCur' = RemoteCur \/ SwapPointer(d)
  <2>1. ASSUME StartPush(d) \/ Prepare(d) \/ ReadPointer(d) \/ PointerConflict(d)
        PROVE  remote' = remote
    BY <2>1 DEF StartPush, Prepare, ReadPointer, PointerConflict
  <2>2. QED  BY <1>1, <1>2, <1>3, <2>1 DEF PushStep, RemoteCur
<1>4. ASSUME NEW d \in Devices, UpdateStep(d) \/ FetchStep(d)
      PROVE  remote' = remote
  BY <1>4 DEF UpdateStep, WriteGeneration, WritePointer, ReleaseLock, DropJournal, FetchStep,
     StartFetch, ReadControlPlane, PutFiles, PutRef, PutPointer, EndFetch
<1>5. ASSUME NEW d \in Devices,
             \/ ChangePassword(d) \/ UnlockFromJournal(d) \/ Commit(d)
             \/ \E m \in Devices : RevokeDevice(d, m) \/ Invite(d, m)
             \/ StartVerify(d) \/ EndVerify(d) \/ ForceAccept(d) \/ Crash(d)
      PROVE  remote' = remote
  BY <1>5 DEF ChangePassword, UnlockFromJournal, Commit, RevokeDevice, Invite,
     StartVerify, EndVerify, ForceAccept, Crash
<1>6. ASSUME (\E i \in invites : Accept(i)) \/ UNCHANGED vars
      PROVE  remote' = remote
  BY <1>6 DEF Accept, vars
<1>7. QED  BY <1>3, <1>4, <1>5, <1>6 DEF Next, RemoteCur

(* No push takes back a revocation: the keyring it swaps in knows the one   *)
(* it replaces (push.rs reconcile_local_keyring_with_remote_if_needed,      *)
(* facade.rs merge_device_records).                                         *)
THEOREM RevocationsStay == Spec /\ InTurn => RevokedStaysRevoked
<1>1. KeyringInv /\ [Next]_vars =>
        [Resolves /\ Resolves' => RemoteCur.revoked \subseteq RemoteCur'.revoked]_vars
  <2> SUFFICES ASSUME KeyringInv, [Next]_vars
               PROVE  RemoteCur.revoked \subseteq RemoteCur'.revoked
    OBVIOUS
  <2>1. CASE RemoteCur' = RemoteCur
    BY <2>1
  <2>2. ASSUME NEW d \in Devices, SwapPointer(d)
        PROVE  RemoteCur.revoked \subseteq RemoteCur'.revoked
    BY <2>2, SwapPublishes DEF Knows
  <2>3. QED  BY <2>1, <2>2, PublishesOnlyBySwap
<1>2. QED  BY <1>1, KeyringInvAlways, PTL DEF Spec, RevokedStaysRevoked

----------------------------------------------------------------------------
(* What a snapshot reaches.                                                *)

NewReach(h, S) == {h} \cup S

\* A set of numbers that is not empty has a least one.
LEMMA LeastNat ==
  ASSUME NEW S, S \subseteq Nat, S # {}
  PROVE  \E n \in S : \A m \in S : n <= m
  <1> DEFINE R == {ss \in Nat \X Nat : ss[1] < ss[2]}
  <1>1. OpToRel(<, Nat) = R BY DEF OpToRel
  <1>2. IsWellFoundedOn(R, Nat) BY <1>1, NatLessThanWellFounded
  <1> HIDE DEF R
  <1>3. \E x \in S : \A y \in S : <<y, x>> \notin R BY <1>2, WFMin
  <1>4. PICK n \in S : \A m \in S : ~(m < n) BY <1>3 DEF R
  <1> QED BY <1>4

\* A set of numbers with 0 and every successor has them all.
LEMMA SetInduction ==
  ASSUME NEW S, 0 \in S, \A n \in Nat : n \in S => n + 1 \in S
  PROVE  Nat \subseteq S
  <1> SUFFICES ASSUME Nat \ S # {} PROVE FALSE OBVIOUS
  <1>1. PICK n \in Nat \ S : \A m \in Nat \ S : n <= m BY LeastNat
  <1>2. n - 1 \in Nat /\ n - 1 < n BY <1>1
  <1>3. n - 1 \in S BY <1>1, <1>2
  <1> QED BY <1>2, <1>3

LEMMA ReachExists ==
  ASSUME NEW p, Parents(p)
  PROVE  \A n \in 0..Len(p) : \E f : ReachTo(p, n, f)
  <1> DEFINE S == {n \in Nat : n <= Len(p) => \E f : ReachTo(p, n, f)}
  <1>0. Len(p) \in Nat BY LenProperties DEF Parents
  <1>1. 0 \in S
    <2>1. ReachTo(p, 0, [s \in 0..0 |-> {}]) BY DEF ReachTo
    <2> QED BY <2>1
  <1>2. ASSUME NEW n \in Nat, n \in S PROVE n + 1 \in S
    <2> SUFFICES ASSUME n + 1 <= Len(p) PROVE \E f : ReachTo(p, n + 1, f) BY DEF S
    <2>1. PICK f : ReachTo(p, n, f) BY <1>0, <1>2
    <2> DEFINE g == [s \in 0..n + 1 |-> IF s = 0 THEN {} ELSE {s} \cup f[p[s]]]
    <2>2. ASSUME NEW s \in 0..n PROVE g[s] = f[s]
      <3>1. s \in 0..n + 1 OBVIOUS
      <3>2. g[s] = IF s = 0 THEN {} ELSE {s} \cup f[p[s]] BY <3>1
      <3> HIDE DEF g
      <3> QED BY <2>1, <3>2 DEF ReachTo
    <2>3. ASSUME NEW s \in 0..n + 1, s # 0 PROVE f[p[s]] = g[p[s]]
      <3>1. p[s] \in 0..n BY <1>0, <2>3 DEF Parents
      <3> QED BY <2>2, <3>1
    <2>4. ReachTo(p, n + 1, g) BY <2>3 DEF ReachTo
    <2> QED BY <2>4
  <1> HIDE DEF S
  <1>3. Nat \subseteq S BY <1>1, <1>2, SetInduction
  <1> QED BY <1>3, <1>0 DEF S

LEMMA ReachedDef ==
  ASSUME NEW p, Parents(p), NEW s \in 0..Len(p)
  PROVE  Reached(p)[s] = IF s = 0 THEN {} ELSE {s} \cup Reached(p)[p[s]]
  <1>0. Len(p) \in Nat BY LenProperties DEF Parents
  <1>1. \E f : ReachTo(p, Len(p), f) BY <1>0, ReachExists
  <1>2. ReachTo(p, Len(p), Reached(p)) BY <1>1 DEF Reached
  <1> QED BY <1>2 DEF ReachTo

\* Itself and its ancestors, which have smaller numbers.
LEMMA ReachBelow ==
  ASSUME NEW p, Parents(p)
  PROVE  \A s \in 0..Len(p) : ReachIn(p, s) \subseteq 1..s /\ (s # 0 => s \in ReachIn(p, s))
  <1> USE DEF ReachIn
  <1> DEFINE Ok(s) == Reached(p)[s] \subseteq 1..s /\ (s # 0 => s \in Reached(p)[s])
             Wrong == {s \in 0..Len(p) : ~Ok(s)}
  <1>0. Len(p) \in Nat BY LenProperties DEF Parents
  <1> SUFFICES ASSUME Wrong # {} PROVE FALSE OBVIOUS
  <1>9. Wrong \subseteq Nat /\ Wrong \subseteq 0..Len(p) BY <1>0
  <1>8. \A s \in 0..Len(p) : s \notin Wrong => Ok(s) OBVIOUS
  <1>7. \A s \in Wrong : ~Ok(s) OBVIOUS
  <1> HIDE DEF Wrong
  <1>1. PICK s \in Wrong : \A m \in Wrong : s <= m BY <1>9, LeastNat
  <1>2. Reached(p)[s] = IF s = 0 THEN {} ELSE {s} \cup Reached(p)[p[s]] BY <1>9, ReachedDef
  <1>3. s # 0
    <2>1. s = 0 => Ok(s) BY <1>2
    <2> QED BY <2>1, <1>1, <1>7
  <1>4. p[s] \in 0..s - 1 /\ p[s] \in 0..Len(p) BY <1>0, <1>3, <1>9 DEF Parents
  <1>5. p[s] \notin Wrong BY <1>0, <1>1, <1>4, <1>9
  <1>6. Reached(p)[p[s]] \subseteq 1..p[s] BY <1>4, <1>5, <1>8
  <1>10. Ok(s)
    <2>1. 1..p[s] \subseteq 1..s /\ s \in 1..s BY <1>3, <1>4, <1>9
    <2> QED BY <1>2, <1>3, <1>6, <2>1
  <1>11. FALSE BY <1>1, <1>10, <1>7
  <1> QED BY <1>11

\* An ancestor's ancestors are ancestors.
LEMMA ReachOfReached ==
  ASSUME NEW p, Parents(p)
  PROVE  \A s \in 0..Len(p) : \A x \in ReachIn(p, s) : ReachIn(p, x) \subseteq ReachIn(p, s)
  <1> USE DEF ReachIn
  <1> DEFINE Ok(s) == \A x \in Reached(p)[s] : Reached(p)[x] \subseteq Reached(p)[s]
             Wrong == {s \in 0..Len(p) : ~Ok(s)}
  <1>0. Len(p) \in Nat BY LenProperties DEF Parents
  <1> SUFFICES ASSUME Wrong # {} PROVE FALSE OBVIOUS
  <1>9. Wrong \subseteq Nat /\ Wrong \subseteq 0..Len(p) BY <1>0
  <1>8. \A s \in 0..Len(p) : s \notin Wrong => Ok(s) OBVIOUS
  <1>7. \A s \in Wrong : ~Ok(s) OBVIOUS
  <1> HIDE DEF Wrong
  <1>1. PICK s \in Wrong : \A m \in Wrong : s <= m BY <1>9, LeastNat
  <1>2. Reached(p)[s] = IF s = 0 THEN {} ELSE {s} \cup Reached(p)[p[s]] BY <1>9, ReachedDef
  <1>3. s # 0
    <2>1. s = 0 => Ok(s) BY <1>2
    <2> QED BY <2>1, <1>1, <1>7
  <1>4. p[s] \in 0..s - 1 /\ p[s] \in 0..Len(p) BY <1>0, <1>3, <1>9 DEF Parents
  <1>5. p[s] \notin Wrong BY <1>0, <1>1, <1>4, <1>9
  <1>6. Ok(p[s]) BY <1>4, <1>5, <1>8
  <1>10. Ok(s) BY <1>2, <1>3, <1>6
  <1>11. FALSE BY <1>1, <1>10, <1>7
  <1> QED BY <1>11

\* A new snapshot reaches what its parent does; what the others reach stays.
LEMMA ParentsGrow ==
  ASSUME NEW p, Parents(p), NEW v \in 0..Len(p), NEW r, r = Append(p, v)
  PROVE  /\ Parents(r) /\ Len(r) = Len(p) + 1
         /\ \A s \in 0..Len(p) : ReachIn(r, s) = ReachIn(p, s)
         /\ ReachIn(r, Len(r)) = NewReach(Len(r), ReachIn(p, v))
  <1>0. Len(p) \in Nat /\ v \in Nat BY LenProperties DEF Parents
  <1>1. PICK q \in Seq(Nat) : q = p BY DEF Parents
  <1>2. /\ r \in Seq(Nat) /\ Len(r) = Len(p) + 1
        /\ \A s \in 1..Len(p) : r[s] = p[s]
        /\ r[Len(r)] = v
    BY <1>0, <1>1, AppendProperties
  <1>3. Parents(r)
    <2>1. ASSUME NEW s \in 1..Len(r) PROVE r[s] \in 0..s - 1
      <3>1. CASE s = Len(r) BY <1>0, <1>2, <3>1
      <3>2. CASE s # Len(r)
        <4>1. s \in 1..Len(p) BY <1>0, <1>2, <3>2
        <4> QED BY <1>2, <4>1 DEF Parents
      <3> QED BY <3>1, <3>2
    <2> QED BY <1>2, <2>1 DEF Parents
  <1> DEFINE Wrong == {s \in 0..Len(p) : Reached(r)[s] # Reached(p)[s]}
  <1>4. Wrong = {}
    <2> SUFFICES ASSUME Wrong # {} PROVE FALSE OBVIOUS
    <2>9. Wrong \subseteq Nat /\ Wrong \subseteq 0..Len(p) BY <1>0
    <2> HIDE DEF Wrong
    <2>1. PICK s \in Wrong : \A m \in Wrong : s <= m BY <2>9, LeastNat
    <2>2. Reached(p)[s] = IF s = 0 THEN {} ELSE {s} \cup Reached(p)[p[s]] BY <2>9, ReachedDef
    <2>7. s \in 0..Len(r) BY <1>0, <1>2, <2>9
    <2>3. Reached(r)[s] = IF s = 0 THEN {} ELSE {s} \cup Reached(r)[r[s]] BY <1>3, <2>7, ReachedDef
    <2>4. s # 0 BY <2>1, <2>2, <2>3 DEF Wrong
    <2>5. r[s] = p[s] /\ p[s] \in 0..s - 1 /\ p[s] \in 0..Len(p)
      BY <1>0, <1>2, <2>4, <2>9 DEF Parents
    <2>6. p[s] \notin Wrong BY <1>0, <2>1, <2>5, <2>9
    <2> QED BY <2>1, <2>2, <2>3, <2>5, <2>6 DEF Wrong
  <1>6. ASSUME NEW s \in 0..Len(p) PROVE Reached(r)[s] = Reached(p)[s] BY <1>4
  <1>5. Reached(r)[Len(p) + 1] = {Len(p) + 1} \cup Reached(p)[v]
    <2>1. Len(p) + 1 \in 0..Len(r) /\ r[Len(p) + 1] = v /\ Len(p) + 1 # 0 BY <1>0, <1>2
    <2>4. PICK s : s = Len(p) + 1 OBVIOUS
    <2>5. Reached(r)[s] = IF s = 0 THEN {} ELSE {s} \cup Reached(r)[r[s]] BY <1>3, <2>1, <2>4, ReachedDef
    <2>2. Reached(r)[Len(p) + 1] = {Len(p) + 1} \cup Reached(r)[v] BY <2>1, <2>4, <2>5
    <2>3. Reached(r)[v] = Reached(p)[v] BY <1>6
    <2> QED BY <2>2, <2>3
  <1> QED BY <1>2, <1>3, <1>5, <1>6 DEF ReachIn, NewReach

LEMMA ReachIs == \A h : Reach(h) = ReachIn(parent, h)
  BY DEF Reach, Reached, ReachTo, ReachIn

LEMMA ReachFacts ==
  ASSUME Parents(parent)
  PROVE  /\ Len(parent) \in Nat
         /\ \A h \in 0..Len(parent) :
              /\ Reach(h) \subseteq 1..h /\ Reach(h) \subseteq Snapshots
              /\ h # 0 => h \in Reach(h)
              /\ \A x \in Reach(h) : Reach(x) \subseteq Reach(h)
         /\ Reach(0) = {}
  <1>1. Len(parent) \in Nat BY LenProperties DEF Parents
  <1>2. \A h \in 0..Len(parent) : /\ Reach(h) \subseteq 1..h /\ (h # 0 => h \in Reach(h))
                                  /\ \A x \in Reach(h) : Reach(x) \subseteq Reach(h)
    BY ReachIs, ReachBelow, ReachOfReached, Zenon
  <1>3. \A h \in 0..Len(parent) : 1..h \subseteq Snapshots BY <1>1 DEF Snapshots
  <1>4. Reach(0) = {}
    <2>1. 0 \in 0..Len(parent) /\ 1..0 = {} BY <1>1
    <2> QED BY <1>2, <2>1
  <1> QED BY <1>1, <1>2, <1>3, <1>4

LEMMA ReachGrows ==
  ASSUME Parents(parent), NEW v \in 0..Len(parent), parent' = Append(parent, v)
  PROVE  /\ Parents(parent)' /\ Len(parent') = Len(parent) + 1
         /\ \A h \in 0..Len(parent) : Reach(h)' = Reach(h)
         /\ \A h : h = Len(parent) + 1 => Reach(h)' = {h} \cup Reach(v)
  <1>0. PICK r, p : r = parent' /\ p = parent OBVIOUS
  <1>1. \A h : Reach(h)' = ReachIn(r, h) BY <1>0 DEF Reach, Reached, ReachTo, ReachIn
  <1>2. Parents(parent)' <=> Parents(r) BY <1>0 DEF Parents
  <1>3. Parents(p) /\ v \in 0..Len(p) /\ r = Append(p, v) BY <1>0
  <1>4. /\ Parents(r) /\ Len(r) = Len(p) + 1
        /\ \A s \in 0..Len(p) : ReachIn(r, s) = ReachIn(p, s)
        /\ ReachIn(r, Len(r)) = NewReach(Len(r), ReachIn(p, v))
    BY <1>3, ParentsGrow
  <1>5. \A h : Reach(h) = ReachIn(p, h) BY <1>0, ReachIs
  <1> QED BY <1>0, <1>1, <1>2, <1>4, <1>5 DEF NewReach
----------------------------------------------------------------------------
(* What a step leaves as it is.                                            *)

\* Snapshots are only added.
Grown == /\ Parents(parent)' /\ Len(parent) <= Len(parent')
         /\ \A h \in 0..Len(parent) : Reach(h)' = Reach(h)

LEMMA SameParents ==
  ASSUME Parents(parent), parent' = parent
  PROVE  Grown /\ \A h : Reach(h)' = Reach(h)
  <1>1. \A h : Reach(h)' = Reach(h) BY DEF Reach
  <1>2. Len(parent) \in Nat BY ReachFacts
  <1> QED BY <1>1, <1>2 DEF Grown, Parents

LEMMA MoreSnapshots ==
  ASSUME Parents(parent), Grown
  PROVE  Snapshots \subseteq Snapshots' /\ 0..Len(parent) \subseteq 0..Len(parent')
  <1>1. Len(parent) \in Nat /\ Len(parent') \in Nat
    <2>1. Len(parent) \in Nat BY ReachFacts
    <2>2. parent' \in Seq(Nat) BY DEF Grown, Parents
    <2> QED BY <2>1, <2>2, LenProperties
  <1> QED BY <1>1 DEF Grown, Snapshots

LEMMA InLocalReach ==
  \A o : o \in LocalReach <=> \/ o \in Reach(default.head)
                              \/ \E b \in Branches : o \in Reach(mirror[b].head)
  BY DEF LocalReach, LocalHeads

LEMMA TwoEpochs == /\ Old # Active /\ Epochs # {Active} /\ Old \in Epochs /\ Active \in Epochs
                  /\ \A e \in Epochs : e = Old \/ e = Active
  <1>1. Old \in Epochs /\ Old \notin {Active} BY DEF Epochs, Old, Active
  <1> QED BY <1>1 DEF Epochs, Active

LEMMA HeadsOk ==
  ASSUME TypesOk
  PROVE  /\ default.head \in 1..Len(parent) /\ other.head \in 1..Len(parent)
         /\ \A b \in Branches : /\ mirror[b].head \in 0..Len(parent)
                                /\ mirror[b] # NoBranch => mirror[b].head \in 1..Len(parent)
                                /\ ref[b].head \in 1..Len(parent) /\ ref[b].epoch \in Epochs
         /\ \A h \in LocalHeads : h \in 0..Len(parent)
  <1>1. Len(parent) \in Nat BY ReachFacts DEF TypesOk
  <1>2. default.head \in 1..Len(parent) /\ other.head \in 1..Len(parent)
    BY DEF TypesOk, OtherOk, Records, Snapshots
  <1>3. ASSUME NEW b \in Branches
        PROVE  /\ mirror[b].head \in 0..Len(parent)
               /\ mirror[b] # NoBranch => mirror[b].head \in 1..Len(parent)
               /\ ref[b].head \in 1..Len(parent) /\ ref[b].epoch \in Epochs
    <2>1. mirror[b] \in Records \cup {NoBranch} BY DEF TypesOk
    <2>2. ref[b] \in [head : Snapshots, epoch : Epochs, version : Nat] BY DEF TypesOk, RefsOk
    <2> QED BY <1>1, <2>1, <2>2 DEF Records, Snapshots, NoBranch
  <1> QED BY <1>1, <1>2, <1>3 DEF LocalHeads

LEMMA LocalStays ==
  ASSUME TypesOk, Grown, UNCHANGED <<default, mirror>>
  PROVE  LocalReach' = LocalReach /\ LocalHeads' = LocalHeads
  <1>1. LocalHeads' = LocalHeads BY DEF LocalHeads
  <1>2. \A h \in LocalHeads : Reach(h)' = Reach(h) BY HeadsOk DEF Grown
  <1> QED BY <1>1, <1>2 DEF LocalReach

LEMMA NoWorkFields == IsWork(NoWork) /\ NoWork.kind = "none" /\ NoWork.pc = "idle"
  BY DEF IsWork, NoWork

LEMMA BegunFields ==
  ASSUME NEW pc, NEW ids, NEW w, w = Begun(pc, ids)
  PROVE  /\ IsWork(w) /\ w.kind = "rewrite" /\ w.pc = pc /\ w.ids = ids
         /\ w.todo = SetToSeq(Branches)
  <1>1. PICK t : t = SetToSeq(Branches) OBVIOUS
  <1>2. w = [NoWork EXCEPT !.kind = "rewrite", !.pc = pc, !.ids = ids, !.todo = t]
    BY <1>1 DEF Begun
  <1>3. w = [pc |-> pc, kind |-> "rewrite", todo |-> t, ids |-> ids, next |-> 0, paths |-> {},
             version |-> 0, listed |-> << >>, layout |-> << >>, generation |-> 0]
    BY <1>2 DEF NoWork
  <1> QED BY <1>1, <1>3 DEF IsWork

LEMMA Proceeds ==
  ASSUME IsWork(work), NEW pc, Proceed(pc)
  PROVE  /\ IsWork(work') /\ work'.pc = pc /\ work'.kind = work.kind /\ work'.todo = work.todo
         /\ work'.ids = work.ids /\ work'.next = work.next /\ work'.paths = work.paths
         /\ work'.version = work.version /\ work'.listed = work.listed
         /\ work'.layout = work.layout /\ work'.generation = work.generation
  BY DEF IsWork, Proceed

\* A finite set, in any order.
LEMMA InAnyOrder ==
  ASSUME NEW S, IsFiniteSet(S)
  PROVE  /\ SetToSeq(S) \in Seq(S) /\ Range(SetToSeq(S)) = S /\ IsInjective(SetToSeq(S))
         /\ \A x \in S : \E i \in DOMAIN SetToSeq(S) : SetToSeq(S)[i] = x
  <1> DEFINE n == Cardinality(S)
  <1>1. n \in Nat /\ ExistsBijection(1..n, S) BY FS_CardinalityType
  <1>2. PICK f : f \in Bijection(1..n, S) BY <1>1 DEF ExistsBijection
  <1>3. f \in [1..n -> S] /\ IsInjective(f) BY <1>2 DEF Bijection, Injection, IsInjective
  <1>4. SetToSeq(S) \in [1..n -> S] /\ IsInjective(SetToSeq(S)) BY <1>3 DEF SetToSeq
  <1>5. PICK g \in [1..n -> S] : g = SetToSeq(S) BY <1>4
  <1>6. g \in Injection(1..n, S) BY <1>4, <1>5 DEF Injection, IsInjective
  <1>7. g \in Surjection(1..n, S)
    <2>1. IsFiniteSet(1..n) /\ Cardinality(1..n) = n BY <1>1, FS_Interval
    <2> QED BY <1>6, <2>1, FS_Injection
  <1>8. Range(g) = S BY <1>7 DEF Range, Surjection
  <1>9. g \in Seq(S) BY <1>1, <1>5 DEF Seq
  <1>10. \A x \in S : \E i \in DOMAIN g : g[i] = x BY <1>8 DEF Range
  <1> QED BY <1>4, <1>5, <1>8, <1>9, <1>10

LEMMA LocalReachIsFinite ==
  ASSUME TypesOk
  PROVE  IsFiniteSet(LocalReach) /\ LocalReach \subseteq Snapshots /\ default.head \in LocalReach
  <1>1. Parents(parent) BY DEF TypesOk
  <1>2. \A h \in LocalHeads : Reach(h) \subseteq Snapshots BY <1>1, HeadsOk, ReachFacts
  <1>3. LocalReach \subseteq Snapshots BY <1>2 DEF LocalReach
  <1>4. IsFiniteSet(Snapshots)
    <2>1. Len(parent) \in Nat BY <1>1, ReachFacts
    <2> QED BY <2>1, FS_Interval DEF Snapshots
  <1>5. default.head \in LocalReach
    <2>1. default.head \in 1..Len(parent) BY HeadsOk
    <2>2. default.head \in 0..Len(parent) /\ default.head # 0 BY <2>1, <1>1, ReachFacts
    <2>3. default.head \in Reach(default.head) BY <1>1, <2>2, ReachFacts
    <2> QED BY <2>3, InLocalReach
  <1> QED BY <1>3, <1>4, <1>5, FS_Subset

----------------------------------------------------------------------------
(* Keys are retired only when nothing is under them.                       *)

\* The device has what it had, with the same keys.
DeviceKept == /\ Grown /\ UNCHANGED <<setup, copies, default, mirror>>
              /\ keyring' = [keys |-> keyring.keys, listed |-> keyring'.listed]

LEMMA SameDevice ==
  ASSUME KeysInv, DeviceKept, RefsOk', OtherOk', UsedOk', IsWork(work'),
         \/ work' = work
         \/ /\ ~At("objects")' /\ ~At("retire")'
            /\ At("hydrate")' => ToBring'
  PROVE  KeysInv'
  <1>1. LocalReach' = LocalReach BY LocalStays DEF KeysInv, DeviceKept
  <1>2. Snapshots \subseteq Snapshots' BY MoreSnapshots DEF KeysInv, TypesOk, DeviceKept
  <1>3. keyring'.keys = keyring.keys BY DEF DeviceKept
  <1>4. TypesOk'
    <2>1. default' \in Records' /\ mirror' \in [Branches -> Records' \cup {NoBranch}]
      <3>1. Records \subseteq Records' BY <1>2 DEF Records
      <3>2. default \in Records /\ mirror \in [Branches -> Records \cup {NoBranch}] BY DEF KeysInv, TypesOk
      <3> QED BY <3>1, <3>2 DEF DeviceKept
    <2>2. copies' \in [DOMAIN copies' -> Epochs] /\ LocalReach' \subseteq DOMAIN copies'
          /\ DOMAIN copies' \subseteq Snapshots'
      BY <1>1, <1>2 DEF KeysInv, TypesOk, DeviceKept
    <2>3. keyring' = [keys |-> keyring'.keys, listed |-> keyring'.listed] /\ keyring'.keys \in {Epochs, {Active}}
      BY <1>3 DEF KeysInv, TypesOk, DeviceKept
    <2>4. setup' \in Scenarios /\ Parents(parent)' BY DEF KeysInv, TypesOk, DeviceKept, Grown
    <2> QED BY <2>1, <2>2, <2>3, <2>4 DEF TypesOk
  <1>5. AllActive => AllActive' BY <1>1 DEF AllActive, DeviceKept
  <1>6. CASE work' = work
    <2>1. \A pc : At(pc)' = At(pc) BY <1>6 DEF At
    <2>2. (ToRewrite => ToRewrite') /\ (ToBring => ToBring')
      BY <1>1, <1>6 DEF ToRewrite, ToBring, DeviceKept
    <2> QED BY <1>3, <1>4, <1>5, <2>1, <2>2 DEF KeysInv, RewritingOk
  <1>7. CASE work' # work
    BY <1>3, <1>4, <1>5, <1>7 DEF KeysInv, RewritingOk
  <1> QED BY <1>6, <1>7

\* A record of a branch that is put in its place.
LEMMA RefIsWritten ==
  ASSUME TypesOk, NEW b \in Branches, NEW h \in Snapshots', NEW e \in Epochs, Grown,
         ref' = [ref EXCEPT ![b] = [head |-> h, epoch |-> e, version |-> @.version + 1]]
  PROVE  RefsOk'
  <1> DEFINE R == [head : Snapshots, epoch : Epochs, version : Nat]
             Q == [head : Snapshots', epoch : Epochs, version : Nat]
  <1>1. ref \in [Branches -> R] BY DEF TypesOk, RefsOk
  <1>2. Snapshots \subseteq Snapshots' BY MoreSnapshots DEF TypesOk
  <1>3. ref[b].version + 1 \in Nat BY <1>1
  <1>4. [head |-> h, epoch |-> e, version |-> ref[b].version + 1] \in Q BY <1>3
  <1>5. R \subseteq Q BY <1>2
  <1> HIDE DEF R, Q
  <1>6. ref' \in [Branches -> Q] BY <1>1, <1>4, <1>5
  <1> QED BY <1>6 DEF RefsOk, Q

LEMMA RefsStay ==
  ASSUME TypesOk, Grown, ref' = ref
  PROVE  RefsOk'
  <1>1. Snapshots \subseteq Snapshots' BY MoreSnapshots DEF TypesOk
  <1> QED BY <1>1 DEF TypesOk, RefsOk

LEMMA OthersStay ==
  ASSUME TypesOk, Grown, other' = other
  PROVE  OtherOk'
  <1>1. Snapshots \subseteq Snapshots' BY MoreSnapshots DEF TypesOk
  <1> QED BY <1>1 DEF TypesOk, OtherOk

LEMMA KeysAtFirst == LayoutsInit => KeysInv
  <1> SUFFICES ASSUME LayoutsInit PROVE KeysInv OBVIOUS
  <1> USE DEF LayoutsInit, CopiesInit, RewriteInit
  <1>1. Parents(parent) /\ DOMAIN History = 1..Len(parent) /\ Len(parent) \in Nat
    <2>1. DOMAIN History = 1..Len(History) BY CopiesAssumption
    <2> QED BY CopiesAssumption, <2>1, LenProperties DEF Parents
  <1>2. \A b \in Branches : Heads[b] \in Snapshots BY <1>1, CopiesAssumption DEF Snapshots
  <1>3. Main \in Branches BY CopiesAssumption
  <1>4. RefsOk BY <1>2 DEF RefsOk, Epochs
  <1>5. default \in Records BY <1>2, <1>3 DEF Records, Epochs
  <1>6. mirror \in [Branches -> Records \cup {NoBranch}] BY <1>5
  <1>7. OtherOk BY <1>2, <1>3 DEF OtherOk
  <1>8. keyring = [keys |-> keyring.keys, listed |-> keyring.listed] /\ keyring.keys = Epochs
    BY DEF BothKeys, Epochs
  <1>9. copies \in [DOMAIN copies -> Epochs] BY DEF Epochs
  <1>10. LocalReach \subseteq DOMAIN copies /\ DOMAIN copies \subseteq Snapshots
    <2>3. Heads[Main] \in 0..Len(parent) BY <1>1, <1>2, <1>3 DEF Snapshots
    <2>4. DOMAIN copies \subseteq Snapshots BY <1>1, <2>3, ReachFacts
    <2>1. DOMAIN copies = Reach(Heads[Main]) OBVIOUS
    <2>2. \A b \in Branches : Reach(mirror[b].head) \subseteq Reach(Heads[Main])
      BY <1>1, ReachFacts DEF NoBranch
    <2> QED BY <2>1, <2>2, <2>4, InLocalReach
  <1>11. UsedOk BY DEF UsedOk
  <1>12. IsWork(work) /\ ~At("hydrate") /\ ~At("objects") /\ ~At("retire") BY NoWorkFields DEF At
  <1>13. keyring.keys # {Active} BY <1>8, TwoEpochs
  <1> QED BY <1>1, <1>4, <1>5, <1>6, <1>7, <1>8, <1>9, <1>10, <1>11, <1>12, <1>13
          DEF KeysInv, TypesOk, RewritingOk

Maps(f, S) == f \in [DOMAIN f -> S]

\* h has the entries of f, and those of g that f has not.
AlsoIs(h, f, g) == /\ DOMAIN h = DOMAIN f \cup DOMAIN g
                   /\ \A x \in DOMAIN f : h[x] = f[x]
                   /\ \A x \in DOMAIN g : x \notin DOMAIN f => h[x] = g[x]

LEMMA AlsoJoins ==
  ASSUME NEW f, NEW g, NEW h, h = Also(f, g)
  PROVE  AlsoIs(h, f, g)
  BY DEF Also, AlsoIs

LEMMA AlsoFacts ==
  ASSUME NEW S, NEW f, NEW g, Maps(f, S), Maps(g, S), NEW h, h = Also(f, g)
  PROVE  Maps(h, S) /\ AlsoIs(h, f, g)
  BY DEF Also, Maps, AlsoIs

LEMMA OthersKeepKeys ==
  ASSUME KeysInv, Others
  PROVE  KeysInv'
  <1> USE DEF KeysInv
  <1>1. Parents(parent) BY DEF TypesOk
  <1>2. UNCHANGED <<work, checkpoint, setup, copies, keyring, default, mirror, local, used>>
    BY DEF Others, OtherFetch, OtherPush, device
  <1>3. IsWork(work') /\ UsedOk' BY <1>2 DEF TypesOk, UsedOk, IsWork
  <1>4. keyring' = [keys |-> keyring.keys, listed |-> keyring'.listed] BY <1>2 DEF TypesOk
  <1>5. CASE \E b \in Branches : OtherFetch(b)
    <2>1. PICK b \in Branches : OtherFetch(b) BY <1>5
    <2>2. UNCHANGED <<parent, ref>> BY <2>1 DEF OtherFetch, remoteVars
    <2>3. Grown BY <1>1, <2>2, SameParents
    <2>4. RefsOk' BY <2>2, <2>3, RefsStay
    <2>5. OtherOk'
      <3>1. other' = [branch |-> b, head |-> ref[b].head, layout |-> layout] BY <2>1 DEF OtherFetch
      <3>2. ref[b].head \in Snapshots BY HeadsOk DEF Snapshots
      <3> QED BY <2>2, <3>1, <3>2 DEF OtherOk, Snapshots
    <2> QED BY <1>2, <1>3, <1>4, <2>3, <2>4, <2>5, SameDevice DEF DeviceKept
  <1>6. CASE OtherPush
    <2>1. /\ parent' = Append(parent, other.head)
          /\ other' = [other EXCEPT !.head = NextHead]
          /\ ref' = [ref EXCEPT ![other.branch] =
                       [head |-> NextHead, epoch |-> Active, version |-> @.version + 1]]
      BY <1>6 DEF OtherPush, Put
    <2>2. other.head \in 0..Len(parent) /\ other.branch \in Branches
      BY <1>1, HeadsOk, ReachFacts DEF TypesOk, OtherOk
    <2>3. Parents(parent)' /\ Len(parent') = Len(parent) + 1 /\ Grown
      BY <1>1, <2>1, <2>2, ReachGrows, ReachFacts DEF Grown
    <2>4. NextHead \in Snapshots'
      <3>1. Len(parent) \in Nat BY <1>1, ReachFacts
      <3> QED BY <2>3, <3>1 DEF NextHead, Snapshots
    <2>5. RefsOk'
      <3>1. PICK h : h = NextHead OBVIOUS
      <3> QED BY <2>1, <2>2, <2>3, <2>4, <3>1, RefIsWritten DEF Epochs
    <2>6. OtherOk' BY <2>1, <2>2, <2>4 DEF TypesOk, OtherOk
    <2> QED BY <1>2, <1>3, <1>4, <2>3, <2>5, <2>6, SameDevice DEF DeviceKept
  <1> QED BY <1>5, <1>6 DEF Others

LEMMA CommitKeepsKeys ==
  ASSUME KeysInv, AdminCommit, work = NoWork, UNCHANGED <<work, checkpoint>>
  PROVE  KeysInv'
  <1> USE DEF KeysInv
  <1>1. Parents(parent) /\ default.head \in 0..Len(parent) /\ Len(parent) \in Nat
    BY HeadsOk, ReachFacts DEF TypesOk
  <1>2. /\ parent' = Append(parent, default.head)
        /\ default' = [head |-> NextHead, epoch |-> Active]
        /\ mirror' = [mirror EXCEPT ![Main] = default']
        /\ copies' = Also(copies, [o \in {NextHead} |-> Active])
        /\ UNCHANGED <<setup, ref, keyring, other, used>>
    BY DEF AdminCommit, remoteVars
  <1>3. Parents(parent)' /\ Len(parent') = Len(parent) + 1 /\ Grown
        /\ \A h : h = NextHead => Reach(h)' = {h} \cup Reach(default.head)
    BY <1>1, <1>2, ReachGrows DEF Grown, NextHead
  <1>4. NextHead \in Snapshots' BY <1>1, <1>3 DEF NextHead, Snapshots
  <1>5. RefsOk' /\ OtherOk' BY <1>2, <1>3, RefsStay, OthersStay
  <1>6. default' \in Records' BY <1>2, <1>4 DEF Records, Epochs
  <1>7. mirror' \in [Branches -> Records' \cup {NoBranch}]
    <2>1. Records \subseteq Records' BY <1>1, <1>3, MoreSnapshots DEF Records
    <2>2. mirror \in [Branches -> Records \cup {NoBranch}] BY DEF TypesOk
    <2> QED BY <1>2, <1>6, <2>1, <2>2
  <1> DEFINE g == [o \in {NextHead} |-> Active]
  <1>8. /\ copies' \in [DOMAIN copies' -> Epochs] /\ DOMAIN copies' = DOMAIN copies \cup {NextHead}
        /\ \A o \in DOMAIN copies : copies'[o] = copies[o]
        /\ NextHead \notin DOMAIN copies => copies'[NextHead] = Active
    <2>1. Maps(g, Epochs) /\ DOMAIN g = {NextHead} /\ g[NextHead] = Active BY DEF Epochs, Maps
    <2>2. Maps(copies, Epochs) BY DEF TypesOk, Maps
    <2> HIDE DEF g
    <2>3. copies' = Also(copies, g) BY <1>2 DEF g
    <2>4. Maps(copies', Epochs) /\ AlsoIs(copies', copies, g) BY <2>1, <2>2, <2>3, AlsoFacts
    <2> QED BY <2>1, <2>4 DEF Maps, AlsoIs
  <1>9. \A h \in LocalHeads' : h = NextHead \/ h \in LocalHeads
    BY <1>2 DEF LocalHeads
  <1>10. LocalReach' \subseteq LocalReach \cup {NextHead}
    <2> SUFFICES ASSUME NEW h \in LocalHeads', NEW o, o \in Reach(h)'
                 PROVE  o \in LocalReach \/ o = NextHead
      BY DEF LocalReach
    <2>1. CASE h = NextHead
      <3>1. Reach(h)' = {h} \cup Reach(default.head) BY <1>3, <2>1
      <3> QED BY <2>1, <3>1, InLocalReach
    <2>2. CASE h \in LocalHeads
      <3>1. Reach(h)' = Reach(h) BY <1>3, <2>2, HeadsOk DEF Grown
      <3> QED BY <2>2, <3>1 DEF LocalReach
    <2> QED BY <1>9, <2>1, <2>2
  <1>11. LocalReach' \subseteq DOMAIN copies' BY <1>8, <1>10 DEF TypesOk
  <1>12. TypesOk'
    <2>1. DOMAIN copies' \subseteq Snapshots'
      BY <1>1, <1>3, <1>4, <1>8, MoreSnapshots DEF TypesOk
    <2>2. UsedOk' /\ IsWork(work') BY <1>2 DEF TypesOk, UsedOk, IsWork
    <2>3. setup' \in Scenarios /\ keyring' = keyring BY <1>2 DEF TypesOk
    <2>4. /\ keyring' = [keys |-> keyring'.keys, listed |-> keyring'.listed]
          /\ keyring'.keys \in {Epochs, {Active}}
      BY <2>3 DEF TypesOk
    <2>5. copies' \in [DOMAIN copies' -> Epochs] BY <1>8
    <2> QED BY <1>3, <1>5, <1>6, <1>7, <1>11, <2>1, <2>2, <2>3, <2>4, <2>5 DEF TypesOk
  <1>13. AllActive => AllActive'
    <2> SUFFICES ASSUME AllActive PROVE AllActive' OBVIOUS
    <2>1. default'.epoch = Active BY <1>2
    <2>2. ASSUME NEW b \in Branches PROVE mirror'[b] = NoBranch \/ mirror'[b].epoch = Active
      <3>1. mirror[b] = NoBranch \/ mirror[b].epoch = Active BY DEF AllActive
      <3>2. mirror'[b] = mirror[b] \/ mirror'[b] = default' BY <1>2 DEF TypesOk
      <3> QED BY <2>1, <3>1, <3>2
    <2>3. ASSUME NEW o \in DOMAIN copies' PROVE copies'[o] = Active
      <3>1. NextHead \notin DOMAIN copies BY <1>1 DEF TypesOk, Snapshots, NextHead
      <3> QED BY <1>8, <3>1 DEF AllActive
    <2> QED BY <2>1, <2>2, <2>3 DEF AllActive
  <1>14. ~At("hydrate")' /\ ~At("objects")' /\ ~At("retire")' BY NoWorkFields DEF At
  <1> QED BY <1>2, <1>12, <1>13, <1>14 DEF RewritingOk

\* A sequence that is worked off.
LEMMA WorkedOff ==
  ASSUME NEW S, NEW s \in Seq(S), s # << >>
  PROVE  /\ Head(s) \in S /\ Tail(s) \in Seq(S)
         /\ \A x : (\E i \in DOMAIN s : s[i] = x) =>
                     x = Head(s) \/ \E i \in DOMAIN Tail(s) : Tail(s)[i] = x
  <1>1. /\ Len(s) \in Nat /\ Len(s) > 0 /\ DOMAIN s = 1..Len(s) /\ Head(s) \in S /\ Head(s) = s[1]
        /\ Tail(s) \in Seq(S) /\ Len(Tail(s)) = Len(s) - 1 /\ DOMAIN Tail(s) = 1..Len(s) - 1
        /\ \A i \in 1..Len(Tail(s)) : Tail(s)[i] = s[i + 1]
    BY HeadTailProperties, LenProperties, EmptySeq
  <1>2. ASSUME NEW i \in DOMAIN s, s[i] # Head(s)
        PROVE  \E j \in DOMAIN Tail(s) : Tail(s)[j] = s[i]
    <2>1. i - 1 \in 1..Len(Tail(s)) /\ i - 1 \in DOMAIN Tail(s) BY <1>1, <1>2
    <2>2. Tail(s)[i - 1] = s[i - 1 + 1] BY <1>1, <2>1
    <2>3. i - 1 + 1 = i BY <1>1
    <2> QED BY <2>1, <2>2, <2>3
  <1> QED BY <1>1, <1>2

\* Copies of objects that could be opened.
LEMMA CopiesGrow ==
  ASSUME TypesOk, NEW S, S \subseteq Snapshots, \A o \in S : EpochOf(o) \in keyring.keys,
         copies' = Also(copies, [o \in S \ DOMAIN copies |-> EpochOf(o)])
  PROVE  /\ copies' \in [DOMAIN copies' -> Epochs] /\ DOMAIN copies' = DOMAIN copies \cup S
         /\ \A o \in DOMAIN copies : copies'[o] = copies[o]
         /\ \A o \in S : o \in DOMAIN copies \/ copies'[o] \in keyring.keys
  <1> DEFINE g == [o \in S \ DOMAIN copies |-> EpochOf(o)]
  <1>1. keyring.keys \subseteq Epochs BY DEF TypesOk, Epochs
  <1>2. Maps(g, Epochs) BY <1>1 DEF Maps
  <1>3. DOMAIN g = S \ DOMAIN copies /\ \A o \in DOMAIN g : g[o] \in keyring.keys OBVIOUS
  <1>4. Maps(copies, Epochs) BY DEF TypesOk, Maps
  <1>5. copies' = Also(copies, g) OBVIOUS
  <1> HIDE DEF g
  <1>6. Maps(copies', Epochs) /\ AlsoIs(copies', copies, g) BY <1>2, <1>4, <1>5, AlsoFacts
  <1> QED BY <1>3, <1>6 DEF Maps, AlsoIs

LEMMA PushKeepsKeys ==
  ASSUME KeysInv, AdminPush, UNCHANGED <<work, checkpoint>>
  PROVE  KeysInv'
  <1>1. /\ UNCHANGED <<setup, parent, copies, default, mirror, local, other, used>>
        /\ keyring' = Reconciled
        /\ ref' = [ref EXCEPT ![Main] =
                     [head |-> default.head, epoch |-> Active, version |-> @.version + 1]]
    BY DEF AdminPush, Put
  <1>2. Parents(parent) /\ TypesOk BY DEF KeysInv, TypesOk
  <1>3. Grown BY <1>1, <1>2, SameParents
  <1>4. keyring' = [keys |-> keyring.keys, listed |-> keyring'.listed]
    BY <1>1, <1>2 DEF TypesOk, Reconciled
  <1>5. RefsOk'
    <2>1. default.head \in Snapshots'
      BY <1>2, <1>3, MoreSnapshots, HeadsOk DEF Snapshots
    <2>2. PICK h : h = default.head OBVIOUS
    <2> QED BY <1>1, <1>2, <1>3, <2>1, <2>2, TwoEpochs, CopiesAssumption, RefIsWritten
  <1>6. OtherOk' /\ UsedOk' /\ IsWork(work')
    BY <1>1, <1>2, <1>3, OthersStay DEF TypesOk, UsedOk, IsWork
  <1> QED BY <1>1, <1>3, <1>4, <1>5, <1>6, SameDevice DEF DeviceKept

\* What a step of the admin device changes when it moves nothing but its work.
Unmoved == UNCHANGED <<setup, parent, copies, default, mirror, other>>

LEMMA MovesKeepKeys ==
  ASSUME KeysInv, Unmoved, RefsOk', UsedOk', IsWork(work'),
         keyring' = keyring \/ keyring' = Reconciled,
         \/ work' = work
         \/ /\ ~At("objects")' /\ ~At("retire")'
            /\ At("hydrate")' => ToBring'
  PROVE  KeysInv'
  <1>1. Parents(parent) /\ TypesOk BY DEF KeysInv, TypesOk
  <1>2. Grown BY <1>1, SameParents DEF Unmoved
  <1>3. keyring' = [keys |-> keyring.keys, listed |-> keyring'.listed]
    BY <1>1 DEF TypesOk, Reconciled
  <1>4. OtherOk' BY <1>1, <1>2, OthersStay DEF Unmoved
  <1>5. DeviceKept BY <1>2, <1>3 DEF DeviceKept, Unmoved
  <1> QED BY <1>4, <1>5, SameDevice

LEMMA StartsKeepKeys ==
  ASSUME KeysInv, Resume \/ StartRewrite \/ AlreadyEnabled \/ \E kind \in Kinds : StartLayout(kind)
  PROVE  KeysInv'
  <1>1. TypesOk BY DEF KeysInv
  <1>2. Unmoved /\ ref' = ref /\ (keyring' = keyring \/ keyring' = Reconciled)
    BY DEF Resume, StartRewrite, AlreadyEnabled, StartLayout, Unmoved, remoteVars
  <1>3. RefsOk'
    <2>1. Grown BY <1>1, <1>2, SameParents DEF TypesOk, Unmoved
    <2> QED BY <1>1, <1>2, <2>1, RefsStay
  <1>4. CASE Resume
    <2>1. \E ids : work' = Begun("observe", ids) BY <1>4 DEF Resume
    <2>2. PICK ids : work' = Begun("observe", ids) BY <2>1
    <2>3. IsWork(work') /\ work'.pc = "observe" BY <2>2, BegunFields
    <2>4. UsedOk' BY <1>1, <1>4 DEF Resume, TypesOk, UsedOk
    <2> QED BY <1>2, <1>3, <2>3, <2>4, MovesKeepKeys DEF At
  <1>5. CASE StartRewrite
    <2>1. work' = Begun("hydrate", << >>) BY <1>5 DEF StartRewrite
    <2>2. IsWork(work') /\ work'.pc = "hydrate" /\ work'.todo = SetToSeq(Branches) BY <2>1, BegunFields
    <2>3. ToBring' BY <2>2, InAnyOrder, CopiesAssumption DEF ToBring
    <2>4. UsedOk' BY <1>1, <1>5 DEF StartRewrite, TypesOk, UsedOk
    <2> QED BY <1>2, <1>3, <2>2, <2>3, <2>4, MovesKeepKeys DEF At
  <1>6. CASE AlreadyEnabled
    <2>1. work' = work /\ used' = used BY <1>6 DEF AlreadyEnabled
    <2>2. UsedOk' /\ IsWork(work') BY <1>1, <2>1 DEF TypesOk, UsedOk, IsWork
    <2> QED BY <1>2, <1>3, <2>1, <2>2, MovesKeepKeys
  <1>7. CASE \E kind \in Kinds : StartLayout(kind)
    <2>1. PICK kind \in Kinds : StartLayout(kind) BY <1>7
    <2>2. work' = [NoWork EXCEPT !.kind = kind, !.pc = "collect", !.version = ref[Main].version,
                                 !.layout = NextLayout, !.generation = layout.generation]
      BY <2>1 DEF StartLayout
    <2>3. IsWork(work') /\ work'.pc = "collect" BY <2>2 DEF IsWork, NoWork
    <2>4. UsedOk'
      <3>1. used' = [used EXCEPT !.layouts = @ + 1] BY <2>1 DEF StartLayout
      <3> QED BY <1>1, <3>1 DEF TypesOk, UsedOk
    <2> QED BY <1>2, <1>3, <2>3, <2>4, MovesKeepKeys DEF At
  <1> QED BY <1>4, <1>5, <1>6, <1>7

\* The step leaves the device as it is and is not within the rewriting of the copies.
Elsewhere == /\ IsWork(work') /\ UsedOk' /\ Unmoved /\ keyring' = keyring
             /\ ~At("objects")' /\ ~At("retire")' /\ ~At("hydrate")'

LEMMA UploadsAreElsewhere ==
  ASSUME TypesOk, NEW name, UploadBatch(name), work.pc = "upload"
  PROVE  Elsewhere /\ ref' = ref
  <1>1. /\ UNCHANGED <<setup, parent, ref, keyring, copies, default, mirror, other, used>>
        /\ work' = [work EXCEPT !.next = @ + 1, !.paths = @ \cup {name}]
    BY DEF UploadBatch, device
  <1>2. IsWork(work') /\ work'.pc = "upload"
    <2>1. IsWork(work) /\ work.next + 1 \in Nat BY DEF TypesOk, IsWork
    <2>2. PICK n, q : n = work.next + 1 /\ q = work.paths \cup {name} OBVIOUS
    <2>3. work' = [work EXCEPT !.next = n, !.paths = q] BY <1>1, <2>2
    <2> QED BY <2>1, <2>2, <2>3 DEF IsWork
  <1>3. UsedOk' BY <1>1 DEF TypesOk, UsedOk
  <1> QED BY <1>1, <1>2, <1>3 DEF Elsewhere, Unmoved, At

LEMMA RewritesAreElsewhere ==
  ASSUME TypesOk, \/ StoreCheckpoint \/ StoreBackup \/ Observe \/ PublishRewrittenLayout \/ Retain
                  \/ PutRewrittenRoot \/ PublishKeyring \/ ClearCheckpoint
  PROVE  Elsewhere /\ ref' = ref
  <1>1. IsWork(work) /\ UsedOk BY DEF TypesOk
  <1>2. Unmoved /\ ref' = ref /\ keyring' = keyring
    BY DEF StoreCheckpoint, StoreBackup, Observe, PublishRewrittenLayout, Retain, PutRewrittenRoot,
           PutRoot, PublishKeyring, ClearCheckpoint, Unmoved, remoteVars, device, copyVars
  <1>3. UsedOk'
    <2>1. used' = used \/ used' = [used EXCEPT !.rewrites = @ + 1]
      BY DEF StoreCheckpoint, StoreBackup, Observe, PublishRewrittenLayout, Retain, PutRewrittenRoot,
             PutRoot, PublishKeyring, ClearCheckpoint, copyVars
    <2> QED BY <1>1, <2>1 DEF UsedOk
  <1>4. IsWork(work') /\ work'.pc \notin {"hydrate", "objects", "retire"}
    <2>1. CASE Observe BY <1>1, <2>1 DEF Observe, IsWork
    <2>2. CASE Retain BY <1>1, <2>2 DEF Retain, IsWork
    <2>3. CASE ~Observe /\ ~Retain
      <3>1. \E pc \in {"backup", "observe", "retain", "verify", "ref", "clear"} : Proceed(pc)
        BY <2>3 DEF StoreCheckpoint, StoreBackup, PublishRewrittenLayout, PutRewrittenRoot,
                    PutRoot, PublishKeyring, ClearCheckpoint
      <3> QED BY <1>1, <3>1, Proceeds
    <2> QED BY <2>1, <2>2, <2>3
  <1> QED BY <1>2, <1>3, <1>4 DEF Elsewhere, At

LEMMA LayoutsAreElsewhere ==
  ASSUME TypesOk, PutOblivious \/ PublishLayout \/ PutLayoutIndex
  PROVE  Elsewhere /\ ref' = ref
  <1>1. IsWork(work) /\ UsedOk BY DEF TypesOk
  <1>2. Unmoved /\ ref' = ref /\ keyring' = keyring /\ used' = used
    BY DEF PutOblivious, PublishLayout, PutLayoutIndex, PutRoot, Unmoved, device
  <1>3. UsedOk' BY <1>1, <1>2 DEF UsedOk
  <1>4. \E pc \in {"layout", "root", "verify"} : Proceed(pc)
    BY DEF PutOblivious, PublishLayout, PutLayoutIndex, PutRoot
  <1>5. IsWork(work') /\ work'.pc \notin {"hydrate", "objects", "retire"} BY <1>1, <1>4, Proceeds
  <1> QED BY <1>2, <1>3, <1>5 DEF Elsewhere, At

LEMMA EndsAreElsewhere ==
  ASSUME TypesOk, \/ FinishRewrite \/ Stop \/ Interrupt \/ FinishLayout \/ StopLayout
  PROVE  Elsewhere /\ ref' = ref /\ work' = NoWork
  <1>1. Unmoved /\ ref' = ref /\ keyring' = keyring /\ work' = NoWork
    BY DEF FinishRewrite, Stop, Interrupt, FinishLayout, StopLayout, Unmoved, remoteVars, device, copyVars
  <1>2. UsedOk'
    <2>1. used' = used \/ used' = [used EXCEPT !.crashes = @ + 1]
      BY DEF FinishRewrite, Stop, Interrupt, FinishLayout, StopLayout, copyVars
    <2> QED BY <2>1 DEF TypesOk, UsedOk
  <1>3. IsWork(work') /\ work'.pc \notin {"hydrate", "objects", "retire"} BY <1>1, NoWorkFields
  <1> QED BY <1>1, <1>2, <1>3 DEF Elsewhere, At

LEMMA RefsAreElsewhere ==
  ASSUME TypesOk, PublishDefault \/ PublishBranch \/ PublishSameRef
  PROVE  Elsewhere /\ RefsOk'
  <1>1. IsWork(work) /\ UsedOk BY DEF TypesOk
  <1>2. Unmoved /\ keyring' = keyring /\ used' = used
    BY DEF PublishDefault, PublishBranch, PublishSameRef, Unmoved, device
  <1>3. UsedOk' BY <1>1, <1>2 DEF UsedOk
  <1>4. IsWork(work') /\ work'.pc \notin {"hydrate", "objects", "retire"}
    <2>1. CASE PublishDefault BY <1>1, <2>1 DEF PublishDefault, IsWork
    <2>2. CASE PublishBranch
      <3>1. work' = [work EXCEPT !.todo = Tail(@)] /\ work.pc = "branches"
        BY <2>2 DEF PublishBranch, At
      <3> QED BY <1>1, <3>1 DEF IsWork
    <2>3. CASE PublishSameRef
      <3>1. Proceed("keep") BY <2>3 DEF PublishSameRef
      <3> QED BY <1>1, <3>1, Proceeds
    <2> QED BY <2>1, <2>2, <2>3
  <1>5. Grown BY <1>2, SameParents DEF TypesOk, Unmoved
  <1>6. Snapshots' = Snapshots BY <1>2 DEF Unmoved, Snapshots
  <1>7. Main \in Branches BY CopiesAssumption
  <1>8. RefsOk'
    <2>1. CASE ref' = ref BY <1>5, <2>1, RefsStay
    <2>2. ASSUME NEW b \in Branches, NEW h \in Snapshots, NEW e \in Epochs, WriteRef(b, h, e)
          PROVE  RefsOk'
      BY <1>5, <1>6, <2>2, RefIsWritten DEF WriteRef
    <2>3. CASE PublishDefault
      <3>1. default.head \in Snapshots /\ default.epoch \in Epochs BY DEF TypesOk, Records
      <3> QED BY <1>7, <2>1, <2>2, <2>3, <3>1 DEF PublishDefault
    <2>4. CASE PublishBranch
      <3>1. PICK b : b = Head(work.todo) OBVIOUS
      <3>2. CASE b \in Branches /\ ~Skipped(b)
        <4>1. mirror[b] \in Records BY <3>2 DEF TypesOk, Skipped
        <4>2. mirror[b].head \in Snapshots /\ mirror[b].epoch \in Epochs BY <4>1 DEF Records
        <4> QED BY <2>2, <2>4, <3>1, <3>2, <4>2 DEF PublishBranch
      <3>3. CASE b \notin Branches
        <4>1. DOMAIN ref = Branches BY DEF TypesOk, RefsOk
        <4>2. ref' = ref BY <2>4, <3>1, <3>3, <4>1 DEF PublishBranch, WriteRef, TypesOk, RefsOk
        <4> QED BY <2>1, <4>2
      <3>4. CASE Skipped(b) BY <2>1, <2>4, <3>1, <3>4 DEF PublishBranch
      <3> QED BY <3>2, <3>3, <3>4
    <2>5. CASE PublishSameRef
      <3>1. ref[Main] \in [head : Snapshots, epoch : Epochs, version : Nat]
        BY <1>7 DEF TypesOk, RefsOk
      <3>2. ref[Main].head \in Snapshots /\ ref[Main].epoch \in Epochs BY <3>1
      <3> QED BY <1>7, <2>2, <2>5, <3>2 DEF PublishSameRef
    <2> QED BY <2>3, <2>4, <2>5
  <1> QED BY <1>2, <1>3, <1>4, <1>8 DEF Elsewhere, At

LEMMA ElsewhereKeepsKeys ==
  ASSUME KeysInv, Elsewhere, ref' = ref \/ RefsOk'
  PROVE  KeysInv'
  <1>1. TypesOk BY DEF KeysInv
  <1>2. Grown BY <1>1, SameParents DEF Elsewhere, Unmoved, TypesOk
  <1>3. RefsOk' BY <1>1, <1>2, RefsStay
  <1> QED BY <1>3, MovesKeepKeys DEF Elsewhere

LEMMA ReachedOnRemote ==
  ASSUME TypesOk, NEW b \in Branches, NEW keys, Readable(b, keys)
  PROVE  /\ Reach(ref[b].head) \subseteq Snapshots
         /\ \A o \in Reach(ref[b].head) : EpochOf(o) \in keys
  <1>1. ref[b].head \in 0..Len(parent) BY HeadsOk, ReachFacts DEF TypesOk
  <1> QED BY <1>1, ReachFacts DEF TypesOk, Readable

LEMMA HydrateKeepsKeys ==
  ASSUME KeysInv, Hydrate
  PROVE  KeysInv'
  <1>1. TypesOk /\ Parents(parent) BY DEF KeysInv, TypesOk
  <1> DEFINE b == Head(work.todo)
             S == Reach(ref[b].head)
  <1>2. b \in Branches /\ Tail(work.todo) \in Seq(Branches)
    BY WorkedOff DEF Hydrate, KeysInv, RewritingOk, ToBring
  <1>3. /\ UNCHANGED <<setup, parent, ref, keyring, default, other, used>>
        /\ copies' = Also(copies, [o \in S \ DOMAIN copies |-> EpochOf(o)])
        /\ mirror' = [mirror EXCEPT ![b] = [head |-> ref[b].head, epoch |-> Active]]
        /\ Readable(b, keyring.keys)
    BY DEF Hydrate, Hydrated, Missing, remoteVars
  <1>4. work' = [work EXCEPT !.todo = Tail(@)] /\ At("hydrate") BY DEF Hydrate
  <1>5. IsWork(work') /\ work'.pc = "hydrate" /\ work'.todo = Tail(work.todo)
    BY <1>1, <1>4 DEF TypesOk, IsWork, At
  <1>6. S \subseteq Snapshots /\ \A o \in S : EpochOf(o) \in keyring.keys
    BY <1>1, <1>2, <1>3, ReachedOnRemote
  <1>7. /\ copies' \in [DOMAIN copies' -> Epochs] /\ DOMAIN copies' = DOMAIN copies \cup S
        /\ \A o \in DOMAIN copies : copies'[o] = copies[o]
        /\ \A o \in S : o \in DOMAIN copies \/ copies'[o] \in keyring.keys
    <2> HIDE DEF S, b
    <2> QED BY <1>1, <1>3, <1>6, CopiesGrow
  <1>8. ref[b].head \in Snapshots BY <1>1, <1>2, HeadsOk DEF Snapshots
  <1>9. \A h \in LocalHeads' : h = ref[b].head \/ h \in LocalHeads
    BY <1>1, <1>2, <1>3 DEF LocalHeads, TypesOk
  <1>10. \A h : Reach(h)' = Reach(h) BY <1>1, <1>3, SameParents
  <1>11. LocalReach' \subseteq LocalReach \cup S BY <1>9, <1>10 DEF LocalReach
  <1> HIDE DEF S, b
  <1>12. TypesOk'
    <2>1. Snapshots' = Snapshots /\ Records' = Records BY <1>3 DEF Snapshots, Records
    <2>2. default' \in Records' BY <1>1, <1>3, <2>1 DEF TypesOk
    <2>3. mirror' \in [Branches -> Records' \cup {NoBranch}]
      <3>1. [head |-> ref[b].head, epoch |-> Active] \in Records BY <1>8, TwoEpochs DEF Records
      <3>2. mirror \in [Branches -> Records \cup {NoBranch}] BY <1>1 DEF TypesOk
      <3> QED BY <1>3, <2>1, <3>1, <3>2
    <2>4. LocalReach' \subseteq DOMAIN copies' /\ DOMAIN copies' \subseteq Snapshots'
      BY <1>1, <1>6, <1>7, <1>11, <2>1 DEF TypesOk
    <2>5. RefsOk' /\ OtherOk' /\ UsedOk'
      <3>1. Grown BY <1>1, <1>3, SameParents
      <3> QED BY <1>1, <1>3, <3>1, RefsStay, OthersStay DEF TypesOk, UsedOk
    <2>6. setup' \in Scenarios /\ Parents(parent)' BY <1>1, <1>3 DEF TypesOk, Parents
    <2>7. keyring' = [keys |-> keyring'.keys, listed |-> keyring'.listed] /\ keyring'.keys \in {Epochs, {Active}}
      BY <1>1, <1>3 DEF TypesOk
    <2> QED BY <1>5, <1>7, <2>2, <2>3, <2>4, <2>5, <2>6, <2>7 DEF TypesOk
  <1>13. keyring'.keys = {Active} => AllActive'
    <2> SUFFICES ASSUME keyring.keys = {Active} PROVE AllActive' BY <1>3
    <2>1. AllActive BY DEF KeysInv, RewritingOk
    <2>2. \A o \in DOMAIN copies' : copies'[o] = Active BY <1>7, <2>1 DEF AllActive
    <2> QED BY <1>3, <2>1, <2>2 DEF AllActive, TypesOk
  <1>14. ~At("objects")' /\ ~At("retire")' /\ ToBring'
    <2>1. ToBring BY <1>4 DEF KeysInv, RewritingOk
    <2>2. ASSUME NEW c \in Branches
          PROVE  mirror'[c] # NoBranch \/ \E i \in DOMAIN work'.todo : work'.todo[i] = c
      <3>1. CASE c = b
        <4>1. mirror'[c] = [head |-> ref[b].head, epoch |-> Active] BY <1>1, <1>2, <1>3, <3>1 DEF TypesOk
        <4>2. mirror'[c].epoch = 2 BY <4>1 DEF Active
        <4>3. NoBranch.epoch = 0 BY DEF NoBranch
        <4> QED BY <4>2, <4>3
      <3>2. CASE c # b
        <4>1. mirror'[c] = mirror[c] BY <1>1, <1>3, <3>2 DEF TypesOk
        <4>2. mirror[c] # NoBranch \/ \E i \in DOMAIN work.todo : work.todo[i] = c BY <2>1 DEF ToBring
        <4>3. work.todo \in Seq(Branches) /\ work.todo # << >> BY <2>1 DEF ToBring, Hydrate
        <4>4. \A x : (\E i \in DOMAIN work.todo : work.todo[i] = x) =>
                        x = Head(work.todo) \/ \E i \in DOMAIN Tail(work.todo) : Tail(work.todo)[i] = x
          BY <4>3, WorkedOff
        <4>5. c # Head(work.todo) BY <3>2 DEF b
        <4> QED BY <1>5, <4>1, <4>2, <4>4, <4>5
      <3> QED BY <3>1, <3>2
    <2> QED BY <1>2, <1>5, <2>2 DEF ToBring, At
  <1> QED BY <1>12, <1>13, <1>14 DEF KeysInv, RewritingOk

\* A step that leaves the setup, the snapshots, the refs and the other device as they are.
LEMMA StepsKeepTypes ==
  ASSUME TypesOk, UNCHANGED <<setup, parent, ref, other, used>>, IsWork(work'),
         default' \in Records, mirror' \in [Branches -> Records \cup {NoBranch}],
         keyring' = [keys |-> keyring'.keys, listed |-> keyring'.listed],
         keyring'.keys \in {Epochs, {Active}},
         copies' \in [DOMAIN copies' -> Epochs],
         LocalReach' \subseteq DOMAIN copies', DOMAIN copies' \subseteq Snapshots
  PROVE  TypesOk'
  <1>1. Snapshots' = Snapshots /\ Records' = Records BY DEF Snapshots, Records
  <1>2. Grown BY SameParents DEF TypesOk
  <1>3. RefsOk' /\ OtherOk' BY <1>2, RefsStay, OthersStay
  <1>4. UsedOk' /\ Parents(parent)' /\ setup' \in Scenarios BY DEF TypesOk, UsedOk, Parents
  <1> QED BY <1>1, <1>3, <1>4 DEF TypesOk

LEMMA CollectKeepsKeys ==
  ASSUME KeysInv, Collect
  PROVE  KeysInv'
  <1>1. TypesOk /\ Parents(parent) BY DEF KeysInv, TypesOk
  <1>2. /\ UNCHANGED <<setup, parent, ref, keyring, default, mirror, other, used>>
        /\ copies' = Also(copies, [o \in Collected \ DOMAIN copies |-> EpochOf(o)])
        /\ work' = [work EXCEPT !.pc = "upload", !.ids = SetToSeq(Collected)]
    BY DEF Collect, remoteVars
  <1>3. IsWork(work') /\ work'.pc = "upload"
    <2>1. PICK ids : ids = SetToSeq(Collected) OBVIOUS
    <2> QED BY <1>1, <1>2, <2>1 DEF TypesOk, IsWork
  <1>4. Collected \subseteq Snapshots /\ \A o \in Collected : EpochOf(o) \in keyring.keys
    BY <1>1, ReachedOnRemote DEF Collect, Opened, Collected
  <1>5. /\ copies' \in [DOMAIN copies' -> Epochs] /\ DOMAIN copies' = DOMAIN copies \cup Collected
        /\ \A o \in DOMAIN copies : copies'[o] = copies[o]
        /\ \A o \in Collected : o \in DOMAIN copies \/ copies'[o] \in keyring.keys
    BY <1>1, <1>2, <1>4, CopiesGrow
  <1>6. LocalReach' = LocalReach BY <1>1, <1>2, SameParents, LocalStays
  <1>7. TypesOk'
    BY <1>1, <1>2, <1>3, <1>4, <1>5, <1>6, StepsKeepTypes DEF TypesOk
  <1>8. keyring'.keys = {Active} => AllActive'
    BY <1>2, <1>5 DEF KeysInv, RewritingOk, AllActive
  <1> QED BY <1>3, <1>7, <1>8 DEF KeysInv, RewritingOk, At

LEMMA RewritingKeepsKeys ==
  ASSUME KeysInv, FirstInv, StartObjects \/ RewriteObject \/ RewriteRecords \/ RetireKeys
  PROVE  KeysInv'
  <1>1. TypesOk /\ Parents(parent) /\ IsWork(work) BY DEF KeysInv, TypesOk
  <1>2. UNCHANGED <<setup, parent, ref, other, used>>
    BY DEF StartObjects, RewriteObject, RewriteRecords, RetireKeys, remoteVars, copyVars
  <1>3. \A h : Reach(h)' = Reach(h) BY <1>1, <1>2, SameParents
  <1>4. CASE StartObjects
    <2>1. /\ UNCHANGED <<copies, keyring, default, mirror>> /\ At("hydrate") /\ work.todo = << >>
          /\ work' = [work EXCEPT !.pc = "objects", !.todo = SetToSeq(LocalReach), !.ids = SetToSeq(LocalReach)]
      BY <1>4 DEF StartObjects, Rewritten, copyVars, device
    <2>2. IsWork(work') /\ work'.pc = "objects" /\ work'.todo = SetToSeq(LocalReach)
      <3>1. PICK ids : ids = SetToSeq(LocalReach) OBVIOUS
      <3> QED BY <1>1, <2>1, <3>1 DEF IsWork
    <2>3. LocalReach' = LocalReach BY <1>1, <1>2, <2>1, SameParents, LocalStays
    <2>4. TypesOk' BY <1>1, <1>2, <2>1, <2>2, <2>3, StepsKeepTypes DEF TypesOk
    <2>5. ToRewrite'
      <3>1. Originals \subseteq LocalReach
        <4> SUFFICES ASSUME NEW b \in Branches, NEW o, o \in Original(b) PROVE o \in LocalReach
          BY DEF Originals
        <4>1. mirror[b] # NoBranch BY <2>1 DEF KeysInv, RewritingOk, ToBring
        <4>2. o \in Reach(mirror[b].head) BY <4>1 DEF FirstInv, HeadsFrom, HeadsOf, From
        <4> QED BY <4>2, InLocalReach
      <3>2. /\ work'.todo \in Seq(LocalReach')
            /\ \A o \in LocalReach : \E i \in DOMAIN work'.todo : work'.todo[i] = o
        BY <1>1, <2>2, <2>3, InAnyOrder, LocalReachIsFinite
      <3>3. \A o \in DOMAIN copies : copies[o] = Active \/ o \in LocalReach
        BY <3>1 DEF FirstInv, Aged
      <3> QED BY <2>1, <3>2, <3>3 DEF ToRewrite
    <2>6. AllActive => AllActive' BY <2>1 DEF AllActive
    <2> QED BY <2>1, <2>2, <2>4, <2>5, <2>6 DEF KeysInv, RewritingOk, At
  <1>5. CASE RewriteObject
    <2>1. /\ UNCHANGED <<keyring, default, mirror>> /\ At("objects") /\ work.todo # << >>
          /\ copies' = [copies EXCEPT ![Head(work.todo)] = Active]
          /\ work' = [work EXCEPT !.todo = Tail(@)]
      BY <1>5 DEF RewriteObject
    <2>2. IsWork(work') /\ work'.pc = "objects" /\ work'.todo = Tail(work.todo)
      BY <1>1, <2>1 DEF IsWork, At
    <2>3. LocalReach' = LocalReach BY <1>1, <1>2, <2>1, SameParents, LocalStays
    <2>4. /\ copies' \in [DOMAIN copies -> Epochs] /\ DOMAIN copies' = DOMAIN copies
          /\ \A o \in DOMAIN copies : copies'[o] = copies[o] \/ copies'[o] = Active
          /\ \A o \in DOMAIN copies : o = Head(work.todo) => copies'[o] = Active
      BY <1>1, <2>1, TwoEpochs DEF TypesOk
    <2>5. TypesOk' BY <1>1, <1>2, <2>1, <2>2, <2>3, <2>4, StepsKeepTypes DEF TypesOk
    <2>6. ToRewrite'
      <3>1. ToRewrite BY <2>1 DEF KeysInv, RewritingOk
      <3>2. /\ Tail(work.todo) \in Seq(LocalReach)
            /\ \A o : (\E i \in DOMAIN work.todo : work.todo[i] = o) =>
                        o = Head(work.todo) \/ \E i \in DOMAIN Tail(work.todo) : Tail(work.todo)[i] = o
        BY <2>1, <3>1, WorkedOff DEF ToRewrite
      <3> QED BY <2>2, <2>3, <2>4, <3>1, <3>2 DEF ToRewrite
    <2>7. AllActive => AllActive' BY <2>1, <2>4 DEF AllActive
    <2> QED BY <2>1, <2>2, <2>5, <2>6, <2>7 DEF KeysInv, RewritingOk, At
  <1>6. CASE RewriteRecords
    <2>1. /\ UNCHANGED <<copies, keyring>> /\ At("objects") /\ work.todo = << >> /\ Proceed("retire")
          /\ default' = [default EXCEPT !.epoch = Active]
          /\ mirror' = [b \in Branches |-> IF mirror[b] = NoBranch THEN NoBranch
                                           ELSE [mirror[b] EXCEPT !.epoch = Active]]
      BY <1>6 DEF RewriteRecords
    <2>2. IsWork(work') /\ work'.pc = "retire" BY <1>1, <2>1, Proceeds
    <2>3. default' \in Records /\ default'.head = default.head /\ default'.epoch = Active
      BY <1>1, <2>1, TwoEpochs DEF TypesOk, Records
    <2>4. ASSUME NEW b \in Branches
          PROVE  /\ mirror'[b] \in Records \cup {NoBranch} /\ mirror'[b].head = mirror[b].head
                 /\ mirror'[b] = NoBranch \/ mirror'[b].epoch = Active
      <3>1. CASE mirror[b] = NoBranch BY <2>1, <3>1
      <3>2. CASE mirror[b] # NoBranch
        <4>1. mirror[b] \in Records BY <1>1, <3>2 DEF TypesOk
        <4> QED BY <2>1, <3>2, <4>1, TwoEpochs DEF Records
      <3> QED BY <3>1, <3>2
    <2>5. mirror' \in [Branches -> Records \cup {NoBranch}]
      <3>1. DOMAIN mirror' = Branches /\ mirror' = [b \in Branches |-> mirror'[b]] BY <2>1
      <3> QED BY <2>4, <3>1
    <2>6. LocalReach' = LocalReach
      BY <1>3, <2>3, <2>4 DEF LocalReach, LocalHeads
    <2>7. TypesOk' BY <1>1, <1>2, <2>1, <2>2, <2>3, <2>5, <2>6, StepsKeepTypes DEF TypesOk
    <2>8. AllActive'
      <3>1. ToRewrite BY <2>1 DEF KeysInv, RewritingOk
      <3>2. \A o \in DOMAIN copies : copies[o] = Active BY <2>1, <3>1 DEF ToRewrite
      <3> QED BY <2>1, <2>3, <2>4, <3>2 DEF AllActive
    <2> QED BY <2>2, <2>7, <2>8 DEF KeysInv, RewritingOk, At
  <1>7. CASE RetireKeys
    <2>1. /\ UNCHANGED <<copies, default, mirror>> /\ At("retire") /\ Proceed("store")
          /\ keyring' = [keys |-> {Active}, listed |-> {Active}]
      BY <1>7 DEF RetireKeys
    <2>2. IsWork(work') /\ work'.pc = "store" BY <1>1, <2>1, Proceeds
    <2>3. LocalReach' = LocalReach BY <1>1, <1>2, <2>1, SameParents, LocalStays
    <2>4. TypesOk' BY <1>1, <1>2, <2>1, <2>2, <2>3, StepsKeepTypes DEF TypesOk
    <2>5. AllActive' BY <2>1 DEF KeysInv, RewritingOk, AllActive
    <2> QED BY <2>2, <2>4, <2>5 DEF KeysInv, RewritingOk, At
  <1> QED BY <1>4, <1>5, <1>6, <1>7

----------------------------------------------------------------------------
(* Only what the branches reached at first is under the old key.           *)

LEMMA FromStays ==
  ASSUME Grown, NEW h \in 0..Len(parent), NEW b \in Branches, From(b, h)
  PROVE  From(b, h)'
  <1>1. Reach(h)' = Reach(h) BY DEF Grown
  <1> QED BY <1>1 DEF From, Original, Originals

\* The steps that touch the heads, the copies, the remote's objects, the ids of the work.
HeadSteps == OtherPush \/ AdminCommit \/ AdminPush \/ Hydrate \/ RewriteRecords
             \/ PublishDefault \/ PublishBranch \/ PublishSameRef
CopySteps == AdminCommit \/ Hydrate \/ RewriteObject \/ Collect
StoreSteps == OtherPush \/ AdminPush \/ UploadRewritten \/ UploadCollected
IdSteps == Resume \/ StartObjects \/ StoreCheckpoint \/ StoreBackup \/ ClearCheckpoint
           \/ FinishRewrite \/ Collect

IdsKept == /\ checkpoint' = checkpoint
           /\ work'.ids = work.ids \/ work'.ids = << >>

LEMMA RewriteFrames ==
  ASSUME IsWork(work), RewriteStep
  PROVE  /\ HeadSteps \/ UNCHANGED <<parent, ref, mirror, default>>
         /\ CopySteps \/ UNCHANGED copies
         /\ StoreSteps \/ UNCHANGED <<loose, segments>>
         /\ IdSteps \/ IdsKept
  <1>1. HeadSteps \/ UNCHANGED <<parent, ref, mirror, default>>
    BY DEF RewriteStep, HeadSteps, StartObjects, RewriteObject, RetireKeys, StoreCheckpoint, StoreBackup,
           Observe, UploadRewritten, UploadBatch, PublishRewrittenLayout, Retain, PutRewrittenRoot, PutRoot,
           PublishKeyring, ClearCheckpoint, FinishRewrite, Stop, remoteVars, device, copyVars
  <1>2. CopySteps \/ UNCHANGED copies
    BY DEF RewriteStep, CopySteps, StartObjects, RewriteRecords, RetireKeys, StoreCheckpoint, StoreBackup,
           Observe, UploadRewritten, UploadBatch, PublishRewrittenLayout, Retain, PutRewrittenRoot, PutRoot,
           PublishKeyring, PublishDefault, PublishBranch, ClearCheckpoint, FinishRewrite, Stop,
           device, copyVars
  <1>3. StoreSteps \/ UNCHANGED <<loose, segments>>
    BY DEF RewriteStep, StoreSteps, Hydrate, StartObjects, RewriteObject, RewriteRecords, RetireKeys,
           StoreCheckpoint, StoreBackup, Observe, PublishRewrittenLayout, Retain, PutRewrittenRoot, PutRoot,
           PublishKeyring, PublishDefault, PublishBranch, ClearCheckpoint, FinishRewrite, Stop, remoteVars,
           copyVars
  <1>4. ASSUME ~IdSteps PROVE IdsKept
    <2>1. checkpoint' = checkpoint
      BY <1>4 DEF RewriteStep, IdSteps, Hydrate, RewriteObject, RewriteRecords, RetireKeys, Observe,
             UploadRewritten, UploadBatch, PublishRewrittenLayout, Retain, PutRewrittenRoot, PutRoot,
             PublishKeyring, PublishDefault, PublishBranch, Stop
    <2>2. CASE \E pc : Proceed(pc)
      <3>1. work'.ids = work.ids BY <2>2, Proceeds
      <3> QED BY <2>1, <3>1 DEF IdsKept
    <2>3. CASE Hydrate \/ RewriteObject \/ Observe \/ UploadRewritten \/ Retain
               \/ PublishDefault \/ PublishBranch
      <3>1. work'.ids = work.ids
        BY <2>3 DEF Hydrate, RewriteObject, Observe, UploadRewritten, UploadBatch, Retain,
                    PublishDefault, PublishBranch, IsWork
      <3> QED BY <2>1, <3>1 DEF IdsKept
    <2>4. CASE Stop
      <3>1. work'.ids = << >> BY <2>4 DEF Stop, NoWork
      <3> QED BY <2>1, <3>1 DEF IdsKept
    <2>5. CASE RewriteRecords \/ RetireKeys \/ PublishRewrittenLayout \/ PutRewrittenRoot \/ PublishKeyring
      BY <2>2, <2>5 DEF RewriteRecords, RetireKeys, PublishRewrittenLayout, PutRewrittenRoot, PutRoot,
                        PublishKeyring
    <2> QED BY <1>4, <2>3, <2>4, <2>5 DEF RewriteStep, IdSteps
  <1> QED BY <1>1, <1>2, <1>3, <1>4

LEMMA LayoutFrames ==
  ASSUME IsWork(work), LayoutStep
  PROVE  /\ HeadSteps \/ UNCHANGED <<parent, ref, mirror, default>>
         /\ CopySteps \/ UNCHANGED copies
         /\ StoreSteps \/ UNCHANGED <<loose, segments>>
         /\ IdSteps \/ IdsKept
  <1>1. HeadSteps \/ UNCHANGED <<parent, ref, mirror, default>>
    BY DEF LayoutStep, HeadSteps, Collect, UploadCollected, UploadBatch, PutOblivious, PublishLayout,
           PutLayoutIndex, PutRoot, FinishLayout, StopLayout, remoteVars, device, copyVars
  <1>2. CopySteps \/ UNCHANGED copies
    BY DEF LayoutStep, CopySteps, UploadCollected, UploadBatch, PutOblivious, PublishLayout,
           PutLayoutIndex, PutRoot, PublishSameRef, FinishLayout, StopLayout, device, copyVars
  <1>3. StoreSteps \/ UNCHANGED <<loose, segments>>
    BY DEF LayoutStep, StoreSteps, Collect, PutOblivious, PublishLayout, PutLayoutIndex, PutRoot,
           PublishSameRef, FinishLayout, StopLayout, remoteVars, copyVars
  <1>4. ASSUME ~IdSteps PROVE IdsKept
    <2>1. checkpoint' = checkpoint
      BY <1>4 DEF LayoutStep, IdSteps, UploadCollected, UploadBatch, PutOblivious, PublishLayout,
             PutLayoutIndex, PutRoot, PublishSameRef, FinishLayout, StopLayout
    <2>2. CASE \E pc : Proceed(pc)
      <3>1. work'.ids = work.ids BY <2>2, Proceeds
      <3> QED BY <2>1, <3>1 DEF IdsKept
    <2>3. CASE UploadCollected
      <3>1. work'.ids = work.ids BY <2>3 DEF UploadCollected, UploadBatch, IsWork
      <3> QED BY <2>1, <3>1 DEF IdsKept
    <2>4. CASE FinishLayout \/ StopLayout
      <3>1. work'.ids = << >> BY <2>4 DEF FinishLayout, StopLayout, NoWork
      <3> QED BY <2>1, <3>1 DEF IdsKept
    <2>5. CASE PutOblivious \/ PublishLayout \/ PutLayoutIndex \/ PublishSameRef
      BY <2>2, <2>5 DEF PutOblivious, PublishLayout, PutLayoutIndex, PutRoot, PublishSameRef
    <2> QED BY <1>4, <2>3, <2>4, <2>5 DEF LayoutStep, IdSteps
  <1> QED BY <1>1, <1>2, <1>3, <1>4

LEMMA Frames ==
  ASSUME TypesOk, LayoutsNext
  PROVE  /\ HeadSteps \/ UNCHANGED <<parent, ref, mirror, default>>
         /\ CopySteps \/ UNCHANGED copies
         /\ StoreSteps \/ UNCHANGED <<loose, segments>>
         /\ IdSteps \/ IdsKept
  <1>1. IsWork(work) BY DEF TypesOk
  <1>2. CASE Step BY <1>1, <1>2, RewriteFrames, LayoutFrames DEF Step
  <1>3. CASE Others
    <2>1. HeadSteps \/ UNCHANGED <<parent, ref, mirror, default>>
      BY <1>3 DEF Others, OtherFetch, HeadSteps, remoteVars, device
    <2>2. StoreSteps \/ UNCHANGED <<loose, segments>> BY <1>3 DEF Others, OtherFetch, StoreSteps, remoteVars
    <2>3. UNCHANGED <<work, checkpoint, copies>> BY <1>3 DEF Others, OtherFetch, OtherPush, device
    <2> QED BY <2>1, <2>2, <2>3 DEF IdsKept
  <1>4. CASE Admin
    <2>1. HeadSteps \/ UNCHANGED <<parent, ref, mirror, default>> BY <1>4 DEF Admin, HeadSteps
    <2>2. StoreSteps \/ UNCHANGED <<loose, segments>> BY <1>4 DEF Admin, StoreSteps, AdminCommit, remoteVars
    <2>3. CopySteps \/ UNCHANGED copies BY <1>4 DEF Admin, CopySteps, AdminPush
    <2>4. UNCHANGED <<work, checkpoint>> BY <1>4 DEF Admin
    <2> QED BY <2>1, <2>2, <2>3, <2>4 DEF IdsKept
  <1>5. CASE Resume
    BY <1>5 DEF Resume, IdSteps, remoteVars
  <1>6. CASE StartRewrite
    <2>1. work'.ids = << >>
      <3>1. work' = Begun("hydrate", << >>) BY <1>6 DEF StartRewrite
      <3> QED BY <3>1, BegunFields
    <2> QED BY <1>6, <2>1 DEF StartRewrite, remoteVars, IdsKept
  <1>7. CASE AlreadyEnabled BY <1>7 DEF AlreadyEnabled, remoteVars, IdsKept
  <1>8. CASE \E kind \in Kinds : StartLayout(kind)
    <2>1. work'.ids = << >> BY <1>8 DEF StartLayout, NoWork
    <2> QED BY <1>8, <2>1 DEF StartLayout, remoteVars, IdsKept
  <1>9. CASE Interrupt
    <2>1. work'.ids = << >> BY <1>9 DEF Interrupt, NoWork
    <2> QED BY <1>9, <2>1 DEF Interrupt, remoteVars, device, IdsKept
  <1> QED BY <1>2, <1>3, <1>4, <1>5, <1>6, <1>7, <1>8, <1>9 DEF LayoutsNext, Kinds

\* A snapshot that is written on a head.
LEMMA NewFrom ==
  ASSUME TypesOk, HeadsFrom, NEW v \in 0..Len(parent), parent' = Append(parent, v),
         NEW b \in Branches, From(b, v), NEW h, h = NextHead
  PROVE  From(b, h)'
  <1>1. Reach(h)' = {h} \cup Reach(v) BY ReachGrows DEF TypesOk, NextHead
  <1>2. h \notin DOMAIN History
    <2>1. Len(History) \in Nat /\ Len(parent) \in Nat /\ DOMAIN History = 1..Len(History)
      BY CopiesAssumption, LenProperties DEF TypesOk, Parents
    <2> QED BY <2>1 DEF HeadsFrom, NextHead
  <1> QED BY <1>1, <1>2 DEF From, Original, Originals

\* The snapshots stay, and a head is written that is from its branch.
LEMMA HeadMoves ==
  ASSUME TypesOk, HeadsFrom, Grown,
         \A b \in Branches : \A h \in HeadsOf(b)' : h \in HeadsOf(b) \/ From(b, h)'
  PROVE  HeadsFrom'
  <1>1. \A b \in Branches : HeadsOf(b) \subseteq 0..Len(parent)
    BY HeadsOk, ReachFacts DEF TypesOk, HeadsOf
  <1>2. ASSUME NEW b \in Branches, NEW h \in HeadsOf(b)' PROVE From(b, h)'
    <2>1. CASE h \in HeadsOf(b) BY <1>1, <2>1, FromStays DEF HeadsFrom
    <2> QED BY <2>1
  <1>3. Len(History) <= Len(parent')
    <2>1. Len(History) \in Nat /\ Len(parent) \in Nat /\ Len(parent') \in Nat
      BY CopiesAssumption, LenProperties DEF TypesOk, Grown, Parents
    <2> QED BY <2>1 DEF HeadsFrom, Grown
  <1> QED BY <1>2, <1>3 DEF HeadsFrom

LEMMA CommitsMoveHeads ==
  ASSUME KeysInv, HeadsFrom, OtherPush \/ AdminCommit
  PROVE  HeadsFrom'
  <1>1. TypesOk /\ Parents(parent) BY DEF KeysInv, TypesOk
  <1>6. \E b \in Branches : \E v \in HeadsOf(b) :
          /\ parent' = Append(parent, v)
          /\ \A c \in Branches : \A h \in HeadsOf(c)' : h \in HeadsOf(c) \/ (c = b /\ h = NextHead)
    <2>1. CASE OtherPush
      <3>1. /\ parent' = Append(parent, other.head) /\ UNCHANGED <<mirror, default>>
            /\ other.head = ref[other.branch].head /\ other.branch \in Branches
            /\ ref' = [ref EXCEPT ![other.branch] =
                         [head |-> NextHead, epoch |-> Active, version |-> @.version + 1]]
        BY <1>1, <2>1 DEF OtherPush, Put, device, TypesOk, OtherOk
      <3>2. \A c \in Branches : ref'[c].head = ref[c].head \/ (c = other.branch /\ ref'[c].head = NextHead)
        BY <1>1, <3>1 DEF TypesOk, RefsOk
      <3>3. other.head \in HeadsOf(other.branch) BY <3>1 DEF HeadsOf
      <3>4. \A c \in Branches : \A h \in HeadsOf(c)' :
              h \in HeadsOf(c) \/ (c = other.branch /\ h = NextHead)
        BY <3>1, <3>2 DEF HeadsOf, NoBranch
      <3> QED BY <3>1, <3>3, <3>4
    <2>2. CASE AdminCommit
      <3>1. /\ parent' = Append(parent, default.head) /\ UNCHANGED ref
            /\ default' = [head |-> NextHead, epoch |-> Active]
            /\ mirror' = [mirror EXCEPT ![Main] = default']
        BY <2>2 DEF AdminCommit, remoteVars
      <3>2. default'.head = NextHead
            /\ \A c \in Branches : mirror'[c] = mirror[c] \/ (c = Main /\ mirror'[c].head = NextHead)
        BY <1>1, <3>1 DEF TypesOk
      <3>3. Main \in Branches /\ default.head \in HeadsOf(Main) BY CopiesAssumption DEF HeadsOf
      <3>4. \A c \in Branches : \A h \in HeadsOf(c)' : h \in HeadsOf(c) \/ (c = Main /\ h = NextHead)
        BY <3>1, <3>2 DEF HeadsOf, NoBranch
      <3> QED BY <3>1, <3>3, <3>4
    <2> QED BY <2>1, <2>2
  <1>2. PICK b \in Branches : \E v \in HeadsOf(b) :
          /\ parent' = Append(parent, v)
          /\ \A c \in Branches : \A h \in HeadsOf(c)' : h \in HeadsOf(c) \/ (c = b /\ h = NextHead)
    BY <1>6
  <1>7. PICK v \in HeadsOf(b) : parent' = Append(parent, v) BY <1>2
  <1>3. v \in 0..Len(parent) BY <1>1, HeadsOk, ReachFacts DEF HeadsOf
  <1>4. Grown BY <1>1, <1>7, <1>3, ReachGrows DEF Grown
  <1>5. \A h : h = NextHead => From(b, h)'
    <2>1. From(b, v) BY DEF HeadsFrom
    <2> QED BY <1>1, <1>7, <1>3, <2>1, NewFrom
  <1> QED BY <1>1, <1>2, <1>4, <1>5, HeadMoves

LEMMA HeadsMove ==
  ASSUME KeysInv, HeadsFrom, AdminPush \/ Hydrate \/ RewriteRecords
                             \/ PublishDefault \/ PublishBranch \/ PublishSameRef
  PROVE  HeadsFrom'
  <1>1. TypesOk /\ Parents(parent) BY DEF KeysInv, TypesOk
  <1>2. Main \in Branches BY CopiesAssumption
  <1>3. parent' = parent
    BY DEF AdminPush, Hydrate, RewriteRecords, PublishDefault, PublishBranch, PublishSameRef
  <1>4. \A b \in Branches : HeadsOf(b)' \subseteq HeadsOf(b)
    <2>1. CASE AdminPush \/ PublishDefault \/ PublishBranch \/ PublishSameRef
      <3>1. UNCHANGED <<mirror, default>>
        BY <2>1 DEF AdminPush, PublishDefault, PublishBranch, PublishSameRef, device
      <3>2. \A b \in Branches : ref'[b].head \in HeadsOf(b)
        <4>1. CASE AdminPush
          <5>1. \A b \in Branches : ref'[b].head = ref[b].head \/ (b = Main /\ ref'[b].head = default.head)
            BY <1>1, <4>1 DEF AdminPush, Put, TypesOk, RefsOk
          <5> QED BY <5>1 DEF HeadsOf
        <4>2. CASE PublishDefault
          <5>1. \A b \in Branches : ref'[b].head = ref[b].head \/ (b = Main /\ ref'[b].head = default.head)
            BY <1>1, <4>2 DEF PublishDefault, WriteRef, TypesOk, RefsOk
          <5> QED BY <5>1 DEF HeadsOf
        <4>3. CASE PublishBranch
          <5>1. \A b \in Branches : \/ ref'[b].head = ref[b].head
                                    \/ mirror[b] # NoBranch /\ ref'[b].head = mirror[b].head
            BY <1>1, <4>3 DEF PublishBranch, WriteRef, Skipped, TypesOk, RefsOk
          <5> QED BY <5>1 DEF HeadsOf
        <4>4. CASE PublishSameRef
          <5>1. \A b \in Branches : ref'[b].head = ref[b].head
            BY <1>1, <4>4 DEF PublishSameRef, WriteRef, TypesOk, RefsOk
          <5> QED BY <5>1 DEF HeadsOf
        <4> QED BY <2>1, <4>1, <4>2, <4>3, <4>4
      <3> QED BY <3>1, <3>2 DEF HeadsOf, NoBranch
    <2>2. CASE Hydrate
      <3>1. /\ UNCHANGED <<ref, default>>
            /\ mirror' = [mirror EXCEPT ![Head(work.todo)] = [head |-> ref[Head(work.todo)].head, epoch |-> Active]]
        BY <2>2 DEF Hydrate, remoteVars
      <3>2. \A b \in Branches : mirror'[b] = mirror[b] \/ mirror'[b].head = ref[b].head
        BY <1>1, <3>1 DEF TypesOk
      <3> QED BY <3>1, <3>2 DEF HeadsOf, NoBranch
    <2>3. CASE RewriteRecords
      <3>1. /\ UNCHANGED ref /\ default' = [default EXCEPT !.epoch = Active]
            /\ mirror' = [b \in Branches |-> IF mirror[b] = NoBranch THEN NoBranch
                                             ELSE [mirror[b] EXCEPT !.epoch = Active]]
        BY <2>3 DEF RewriteRecords, remoteVars
      <3>2. default'.head = default.head BY <1>1, <3>1 DEF TypesOk, Records
      <3>3. ASSUME NEW b \in Branches
            PROVE  mirror'[b] = NoBranch \/ (mirror[b] # NoBranch /\ mirror'[b].head = mirror[b].head)
        <4>1. CASE mirror[b] = NoBranch BY <3>1, <4>1
        <4>2. CASE mirror[b] # NoBranch
          <5>1. mirror[b] \in Records BY <1>1, <4>2 DEF TypesOk
          <5> QED BY <3>1, <4>2, <5>1 DEF Records
        <4> QED BY <4>1, <4>2
      <3> QED BY <3>1, <3>2, <3>3 DEF HeadsOf, NoBranch
    <2> QED BY <2>1, <2>2, <2>3
  <1>5. Grown BY <1>1, <1>3, SameParents
  <1> QED BY <1>1, <1>4, <1>5, HeadMoves

LEMMA HeadsStayFrom ==
  ASSUME TypesOk, HeadsFrom, UNCHANGED <<parent, ref, mirror, default>>
  PROVE  HeadsFrom'
  <1>1. Grown BY SameParents DEF TypesOk
  <1>2. \A b : HeadsOf(b)' = HeadsOf(b) BY DEF HeadsOf, NoBranch
  <1> QED BY <1>1, <1>2, HeadMoves

\* The epoch of an object that a reader finds.
LEMMA FoundIsAged ==
  ASSUME KeysInv, FirstInv, NEW b \in Branches, NEW keys, Readable(b, keys), NEW o \in Reach(ref[b].head)
  PROVE  EpochOf(o) = Active \/ o \in Originals
  <1>1. EpochOf(o) = Active \/ o \in DOMAIN History
    <2>1. CASE o \in Packed
      <3> DEFINE p == CHOOSE q \in Root.paths : o \in DOMAIN segments[q].holds
      <3>1. p \in Root.paths /\ o \in DOMAIN segments[p].holds BY <2>1 DEF Packed
      <3>2. p \in DOMAIN segments BY <3>1 DEF Readable, IndexOpens
      <3>3. EpochOf(o) = segments[p].holds[o] BY <2>1 DEF EpochOf
      <3> HIDE DEF p
      <3> QED BY <3>1, <3>2, <3>3 DEF FirstInv, RemoteAged, Aged
    <2>2. CASE o \notin Packed
      <3>1. o \in DOMAIN loose BY <2>2 DEF Readable, Stored
      <3> QED BY <2>2, <3>1 DEF EpochOf, FirstInv, RemoteAged, Aged
    <2> QED BY <2>1, <2>2
  <1>2. From(b, ref[b].head) BY DEF FirstInv, HeadsFrom, HeadsOf
  <1> QED BY <1>1, <1>2 DEF From

LEMMA CopiesStayAged ==
  ASSUME KeysInv, FirstInv, CopySteps
  PROVE  Aged(copies, Originals)' /\ DOMAIN copies \subseteq DOMAIN copies'
  <1>1. TypesOk /\ Aged(copies, Originals) BY DEF KeysInv, FirstInv
  <1>2. ASSUME NEW g, copies' = Also(copies, g), Aged(g, Originals)
        PROVE  Aged(copies, Originals)' /\ DOMAIN copies \subseteq DOMAIN copies'
    <2>1. AlsoIs(copies', copies, g) BY <1>2, AlsoJoins
    <2>2. Aged(copies', Originals) BY <1>1, <1>2, <2>1 DEF AlsoIs, Aged
    <2> QED BY <2>1, <2>2 DEF AlsoIs, Aged, Originals, Original
  <1>3. CASE AdminCommit
    <2>1. Aged([o \in {NextHead} |-> Active], Originals) BY DEF Aged
    <2> QED BY <1>2, <1>3, <2>1 DEF AdminCommit
  <1>4. CASE Hydrate
    <2> DEFINE b == Head(work.todo)
               g == [o \in Missing(ref[b].head) |-> EpochOf(o)]
    <2>1. b \in Branches /\ Readable(b, keyring.keys) /\ copies' = Also(copies, g)
      BY <1>4, WorkedOff DEF Hydrate, Hydrated, KeysInv, RewritingOk, ToBring
    <2> HIDE DEF b
    <2>2. \A o \in Missing(ref[b].head) : EpochOf(o) = Active \/ o \in Originals
      BY <2>1, FoundIsAged DEF Missing
    <2>3. Aged(g, Originals) BY <2>2 DEF Aged
    <2> QED BY <1>2, <2>1, <2>3
  <1>5. CASE Collect
    <2> DEFINE g == [o \in Collected \ DOMAIN copies |-> EpochOf(o)]
    <2>1. \A o \in Collected : EpochOf(o) = Active \/ o \in Originals
      BY <1>5, FoundIsAged DEF Collect, Opened, Collected
    <2>2. Aged(g, Originals) BY <2>1 DEF Aged
    <2> QED BY <1>2, <1>5, <2>2 DEF Collect
  <1>6. CASE RewriteObject
    <2>1. copies' = [copies EXCEPT ![Head(work.todo)] = Active] BY <1>6 DEF RewriteObject
    <2>2. DOMAIN copies' = DOMAIN copies /\ \A o \in DOMAIN copies : copies'[o] = copies[o] \/ copies'[o] = Active
      BY <1>1, <2>1 DEF TypesOk
    <2>3. Aged(copies', Originals) BY <1>1, <2>2 DEF Aged
    <2> QED BY <2>2, <2>3 DEF Aged, Originals, Original
  <1> QED BY <1>3, <1>4, <1>5, <1>6 DEF CopySteps

LEMMA BatchIsListed ==
  ASSUME NEW S, NEW ids \in Seq(S), NEW i \in Nat
  PROVE  BatchOf(ids, i) \subseteq Range(ids)
  <1> DEFINE m == i * Batch + 1
             n == IF (i + 1) * Batch < Len(ids) THEN (i + 1) * Batch ELSE Len(ids)
  <1>1. Batch \in Nat \ {0} /\ Len(ids) \in Nat /\ DOMAIN ids = 1..Len(ids)
    BY CopiesAssumption, LenProperties
  <1>2. m \in Nat /\ m >= 1 /\ n \in Int /\ n <= Len(ids)
    <2>1. i * Batch \in Nat /\ (i + 1) * Batch \in Nat BY <1>1
    <2> QED BY <1>1, <2>1
  <1>3. BatchOf(ids, i) = Range(SubSeq(ids, m, n)) BY DEF BatchOf
  <1> HIDE DEF m, n
  <1>4. \A j \in DOMAIN SubSeq(ids, m, n) : \E k \in DOMAIN ids : SubSeq(ids, m, n)[j] = ids[k]
    <2>1. n \in Int /\ m \in Int /\ \A j \in m..n : ids[j] \in S BY <1>1, <1>2
    <2>2. /\ SubSeq(ids, m, n) \in Seq(S)
          /\ Len(SubSeq(ids, m, n)) = IF m <= n THEN n - m + 1 ELSE 0
          /\ \A j \in 1..n - m + 1 : SubSeq(ids, m, n)[j] = ids[m + j - 1]
      BY <2>1, SubSeqProperties
    <2>3. DOMAIN SubSeq(ids, m, n) = 1..Len(SubSeq(ids, m, n)) BY <2>2, LenProperties
    <2>4. ASSUME NEW j \in DOMAIN SubSeq(ids, m, n)
          PROVE  m + j - 1 \in DOMAIN ids /\ j \in 1..n - m + 1
      BY <1>1, <1>2, <2>2, <2>3
    <2> QED BY <2>2, <2>4
  <1> QED BY <1>3, <1>4 DEF Range

LEMMA SegmentsStayAged ==
  ASSUME \A p \in DOMAIN segments : Aged(segments[p].holds, DOMAIN History),
         NEW name, NEW f, NEW S, S \subseteq DOMAIN f, Aged(f, DOMAIN History),
         \/ segments' = Also([p \in {name} |-> [epoch |-> Active, holds |-> Restrict(f, S)]], segments)
         \/ segments' = Also(segments, [p \in {name} |-> [epoch |-> Active, holds |-> Restrict(f, S)]])
  PROVE  \A p \in DOMAIN segments' : Aged(segments'[p].holds, DOMAIN History)
  <1> DEFINE g == [p \in {name} |-> [epoch |-> Active, holds |-> Restrict(f, S)]]
  <1>1. Aged(Restrict(f, S), DOMAIN History) BY DEF Aged, Restrict
  <1>2. \A p \in DOMAIN g : Aged(g[p].holds, DOMAIN History) BY <1>1
  <1>3. segments' = Also(g, segments) \/ segments' = Also(segments, g) OBVIOUS
  <1> HIDE DEF g
  <1>4. AlsoIs(segments', g, segments) \/ AlsoIs(segments', segments, g) BY <1>3, AlsoJoins
  <1> QED BY <1>2, <1>4 DEF AlsoIs

LEMMA PutsStayAged ==
  ASSUME RemoteAged, NEW b, NEW h, NEW missing, NEW epochs, NEW own, NEW ring,
         missing \subseteq DOMAIN epochs, Aged(epochs, DOMAIN History),
         Put(b, h, missing, epochs, own, ring)
  PROVE  RemoteAged'
  <1>1. CASE segments' = Also([p \in {PushSegment(h)} |->
                                 [epoch |-> Active, holds |-> Restrict(epochs, missing)]], segments)
             /\ UNCHANGED loose
    <2>1. PICK name : name = PushSegment(h) OBVIOUS
    <2>2. \A p \in DOMAIN segments' : Aged(segments'[p].holds, DOMAIN History)
      BY <1>1, <2>1, SegmentsStayAged DEF RemoteAged
    <2> QED BY <1>1, <2>2 DEF RemoteAged, Aged
  <1>2. CASE loose' = Also(loose, Restrict(epochs, missing)) /\ UNCHANGED segments
    <2>1. Aged(Restrict(epochs, missing), DOMAIN History) BY DEF Aged, Restrict
    <2>2. PICK g : g = Restrict(epochs, missing) OBVIOUS
    <2>3. AlsoIs(loose', loose, g) BY <1>2, <2>2, AlsoJoins
    <2>4. Aged(loose', DOMAIN History) BY <2>1, <2>2, <2>3 DEF RemoteAged, Aged, AlsoIs
    <2> QED BY <1>2, <2>4 DEF RemoteAged, Aged
  <1> QED BY <1>1, <1>2 DEF Put

LEMMA StoresStayAged ==
  ASSUME KeysInv, FirstInv, StoreSteps
  PROVE  RemoteAged'
  <1>1. TypesOk /\ Parents(parent) /\ RemoteAged BY DEF KeysInv, TypesOk, FirstInv
  <1>2. Aged(copies, DOMAIN History)
    <2>1. Originals \subseteq DOMAIN History
      <3>1. History \in Seq(Nat) /\ Parents(History) BY CopiesAssumption, LenProperties DEF Parents
      <3>2. ASSUME NEW b \in Branches PROVE Original(b) \subseteq DOMAIN History
        <4>1. Len(History) \in Nat /\ DOMAIN History = 1..Len(History) BY <3>1, LenProperties
        <4>2. Heads[b] \in 1..Len(History) /\ Heads[b] \in 0..Len(History) BY <4>1, CopiesAssumption
        <4>3. ReachIn(History, Heads[b]) \subseteq 1..Heads[b] BY <3>1, <4>2, ReachBelow
        <4> QED BY <4>1, <4>2, <4>3 DEF Original
      <3> QED BY <3>2 DEF Originals
    <2> QED BY <2>1 DEF FirstInv, Aged
  <1>3. CASE OtherPush
    <2>1. Put(other.branch, NextHead, {NextHead}, [o \in {NextHead} |-> Active], other.layout, BothKeys)
      BY <1>3 DEF OtherPush
    <2>2. Aged([o \in {NextHead} |-> Active], DOMAIN History) BY DEF Aged
    <2> QED BY <1>1, <2>1, <2>2, PutsStayAged
  <1>4. CASE AdminPush
    <2>1. Put(Main, default.head, Reach(default.head) \ Stored, copies, local, Reconciled)
      BY <1>4 DEF AdminPush
    <2>2. Reach(default.head) \ Stored \subseteq DOMAIN copies BY <1>1, InLocalReach DEF TypesOk
    <2> QED BY <1>1, <1>2, <2>1, <2>2, PutsStayAged
  <1>5. CASE UploadRewritten \/ UploadCollected
    <2>1. PICK name : UploadBatch(name) BY <1>5 DEF UploadRewritten, UploadCollected
    <2>2. BatchOf(work.ids, work.next) \subseteq DOMAIN copies
      <3>1. work.ids \in Seq(DOMAIN copies) /\ work.next \in Nat
        BY <1>1 DEF FirstInv, IdsAreHere, TypesOk, IsWork
      <3>2. BatchOf(work.ids, work.next) \subseteq Range(work.ids) BY <3>1, BatchIsListed
      <3>3. Range(work.ids) \subseteq DOMAIN copies BY <3>1, LenProperties DEF Range
      <3> QED BY <3>2, <3>3
    <2>3. \A p \in DOMAIN segments' : Aged(segments'[p].holds, DOMAIN History)
      <3>1. CASE segments' = segments BY <1>1, <3>1 DEF RemoteAged
      <3>2. CASE segments' # segments
        <4>1. PICK S : S = BatchOf(work.ids, work.next) OBVIOUS
        <4>2. segments' = Also(segments, [p \in {name} |-> [epoch |-> Active, holds |-> Restrict(copies, S)]])
          BY <2>1, <3>2, <4>1 DEF UploadBatch
        <4> QED BY <1>1, <1>2, <2>2, <4>1, <4>2, SegmentsStayAged DEF RemoteAged
      <3> QED BY <3>1, <3>2
    <2> QED BY <1>1, <2>1, <2>3 DEF RemoteAged, UploadBatch, Aged
  <1> QED BY <1>3, <1>4, <1>5 DEF StoreSteps

LEMMA IdsStayHere ==
  ASSUME KeysInv, FirstInv, DOMAIN copies \subseteq DOMAIN copies', IdSteps \/ IdsKept
  PROVE  IdsAreHere'
  <1>1. TypesOk /\ IsWork(work) BY DEF KeysInv, TypesOk
  <1> DEFINE D == DOMAIN copies
             E == DOMAIN copies'
  <1>2. /\ work.ids \in Seq(D) /\ D \subseteq E
        /\ checkpoint = [primary |-> checkpoint.primary, backup |-> checkpoint.backup]
        /\ checkpoint.primary \subseteq D /\ checkpoint.backup \subseteq D
    BY DEF FirstInv, IdsAreHere
  <1> HIDE DEF D, E
  <1>3. Seq(D) \subseteq Seq(E)
    <2> SUFFICES ASSUME NEW s \in Seq(D) PROVE s \in Seq(E) OBVIOUS
    <2>1. Len(s) \in Nat /\ s \in [1..Len(s) -> D] BY LenProperties
    <2>2. s \in [1..Len(s) -> E] BY <1>2, <2>1
    <2> QED BY <2>1, <2>2 DEF Seq
  <1>4. << >> \in Seq(E) OBVIOUS
  <1>5. \A S : IsFiniteSet(S) /\ S \subseteq E => SetToSeq(S) \in Seq(E)
    <2> SUFFICES ASSUME NEW S, IsFiniteSet(S), S \subseteq E PROVE SetToSeq(S) \in Seq(E) OBVIOUS
    <2>1. SetToSeq(S) \in Seq(S) BY InAnyOrder
    <2>2. PICK s \in Seq(S) : s = SetToSeq(S) BY <2>1
    <2>3. Len(s) \in Nat /\ s \in [1..Len(s) -> S] BY LenProperties
    <2>4. s \in [1..Len(s) -> E] BY <2>3
    <2> QED BY <2>2, <2>3, <2>4 DEF Seq
  <1>6. Range(work.ids) \subseteq D
    <2>1. work.ids \in Seq(D) BY <1>2
    <2> QED BY <2>1, LenProperties DEF Range
  <1>7. IsFiniteSet(D)
    <2>1. IsFiniteSet(Snapshots)
      <3>1. Len(parent) \in Nat BY <1>1, ReachFacts DEF TypesOk
      <3> QED BY <3>1, FS_Interval DEF Snapshots
    <2> QED BY <1>1, <2>1, FS_Subset DEF TypesOk, D
  <1>8. ASSUME work'.ids \in Seq(E),
               checkpoint' = [primary |-> checkpoint'.primary, backup |-> checkpoint'.backup],
               checkpoint'.primary \subseteq E, checkpoint'.backup \subseteq E
        PROVE  IdsAreHere'
    BY <1>8 DEF IdsAreHere, E
  <1>9. CASE IdsKept BY <1>2, <1>3, <1>4, <1>8, <1>9 DEF IdsKept
  <1>10. CASE Resume
    <2> DEFINE ids == IF checkpoint.primary # {} THEN checkpoint.primary ELSE checkpoint.backup
    <2>1. checkpoint' = [primary |-> ids, backup |-> ids] /\ work' = Begun("observe", SetToSeq(ids))
      BY <1>10 DEF Resume
    <2>2. ids \subseteq D BY <1>2
    <2> HIDE DEF ids
    <2>3. work'.ids = SetToSeq(ids) BY <2>1, BegunFields
    <2>4. SetToSeq(ids) \in Seq(E) BY <1>2, <1>5, <1>7, <2>2, FS_Subset
    <2> QED BY <1>2, <1>8, <2>1, <2>2, <2>3, <2>4
  <1>11. CASE StartObjects
    <2>1. work' = [work EXCEPT !.pc = "objects", !.todo = SetToSeq(LocalReach), !.ids = SetToSeq(LocalReach)]
          /\ checkpoint' = checkpoint
      BY <1>11 DEF StartObjects, Rewritten
    <2>2. work'.ids = SetToSeq(LocalReach)
      <3>1. PICK ids : ids = SetToSeq(LocalReach) OBVIOUS
      <3> QED BY <1>1, <2>1, <3>1 DEF IsWork
    <2>3. IsFiniteSet(LocalReach) /\ LocalReach \subseteq E
      BY <1>1, <1>2, LocalReachIsFinite DEF TypesOk, D
    <2> QED BY <1>2, <1>5, <1>8, <2>1, <2>2, <2>3
  <1>12. CASE Collect
    <2>1. /\ checkpoint' = checkpoint
          /\ copies' = Also(copies, [o \in Collected \ DOMAIN copies |-> EpochOf(o)])
          /\ work' = [work EXCEPT !.pc = "upload", !.ids = SetToSeq(Collected)]
      BY <1>12 DEF Collect
    <2>2. work'.ids = SetToSeq(Collected)
      <3>1. PICK ids : ids = SetToSeq(Collected) OBVIOUS
      <3> QED BY <1>1, <2>1, <3>1 DEF IsWork
    <2>3. Collected \subseteq Snapshots
      BY <1>1, <1>12, ReachedOnRemote DEF Collect, Opened, Collected
    <2>4. IsFiniteSet(Collected)
      <3>1. Len(parent) \in Nat BY <1>1, ReachFacts DEF TypesOk
      <3>2. IsFiniteSet(Snapshots) BY <3>1, FS_Interval DEF Snapshots
      <3> QED BY <2>3, <3>2, FS_Subset
    <2>5. Collected \subseteq E
      <3> DEFINE g == [o \in Collected \ DOMAIN copies |-> EpochOf(o)]
      <3>1. DOMAIN g = Collected \ DOMAIN copies /\ copies' = Also(copies, g) BY <2>1
      <3> HIDE DEF g
      <3>2. AlsoIs(copies', copies, g) BY <3>1, AlsoJoins
      <3> QED BY <3>1, <3>2 DEF AlsoIs, E
    <2> QED BY <1>2, <1>5, <1>8, <2>1, <2>2, <2>4, <2>5
  <1>13. CASE StoreCheckpoint \/ StoreBackup \/ ClearCheckpoint \/ FinishRewrite
    <2>1. work'.ids = work.ids \/ work'.ids = << >>
      <3>1. CASE \E pc : Proceed(pc) BY <1>1, <3>1, Proceeds
      <3>2. CASE FinishRewrite BY <3>2 DEF FinishRewrite, NoWork
      <3> QED BY <1>13, <3>1, <3>2 DEF StoreCheckpoint, StoreBackup, ClearCheckpoint
    <2>2. \/ checkpoint' = [checkpoint EXCEPT !.primary = Range(work.ids)]
          \/ checkpoint' = [checkpoint EXCEPT !.backup = Range(work.ids)]
          \/ checkpoint' = [checkpoint EXCEPT !.primary = {}]
          \/ checkpoint' = [checkpoint EXCEPT !.backup = {}]
      BY <1>13 DEF StoreCheckpoint, StoreBackup, ClearCheckpoint, FinishRewrite
    <2>3. PICK R : R = Range(work.ids) OBVIOUS
    <2>4. /\ checkpoint' = [primary |-> checkpoint'.primary, backup |-> checkpoint'.backup]
          /\ checkpoint'.primary \in {checkpoint.primary, R, {}}
          /\ checkpoint'.backup \in {checkpoint.backup, R, {}}
      BY <1>2, <2>2, <2>3
    <2> QED BY <1>2, <1>3, <1>4, <1>6, <1>8, <2>1, <2>3, <2>4
  <1> QED BY <1>9, <1>10, <1>11, <1>12, <1>13 DEF IdSteps

LEMMA FirstAtFirst == LayoutsInit => FirstInv
  <1> SUFFICES ASSUME LayoutsInit PROVE FirstInv OBVIOUS
  <1> USE DEF LayoutsInit, CopiesInit, RewriteInit
  <1>1. parent = History /\ Parents(parent) /\ DOMAIN History = 1..Len(History) /\ Len(History) \in Nat
    BY CopiesAssumption, LenProperties DEF Parents
  <1>2. \A b \in Branches : Reach(Heads[b]) = Original(b) BY <1>1, ReachIs DEF Original
  <1>3. \A b \in Branches : From(b, Heads[b]) BY <1>2 DEF From, Originals
  <1>4. HeadsFrom
    <2>1. ASSUME NEW b \in Branches, NEW h \in HeadsOf(b) PROVE h = Heads[b]
      BY <2>1 DEF HeadsOf, NoBranch
    <2> QED BY <1>1, <1>3, <2>1 DEF HeadsFrom
  <1>5. DOMAIN copies = Original(Main) /\ Main \in Branches BY <1>2, CopiesAssumption
  <1>6. Aged(copies, Originals) BY <1>5 DEF Aged, Originals
  <1>7. RemoteAged BY CopiesAssumption DEF RemoteAged, Aged
  <1>8. IdsAreHere BY DEF IdsAreHere, NoWork
  <1> QED BY <1>4, <1>6, <1>7, <1>8 DEF FirstInv

LEMMA KeysStep ==
  ASSUME KeysInv, FirstInv, LayoutsNext
  PROVE  KeysInv' /\ FirstInv'
  <1>1. TypesOk BY DEF KeysInv
  <1>2. KeysInv'
    <2>1. CASE Others BY <2>1, OthersKeepKeys
    <2>2. CASE Admin BY <2>2, CommitKeepsKeys, PushKeepsKeys DEF Admin
    <2>3. CASE Resume \/ StartRewrite \/ AlreadyEnabled \/ \E kind \in Kinds : StartLayout(kind)
      BY <2>3, StartsKeepKeys
    <2>4. CASE Interrupt BY <1>1, <2>4, EndsAreElsewhere, ElsewhereKeepsKeys
    <2>5. CASE RewriteStep
      <3>1. CASE Hydrate BY <3>1, HydrateKeepsKeys
      <3>2. CASE StartObjects \/ RewriteObject \/ RewriteRecords \/ RetireKeys BY <3>2, RewritingKeepsKeys
      <3>3. CASE UploadRewritten
        BY <1>1, <3>3, UploadsAreElsewhere, ElsewhereKeepsKeys DEF UploadRewritten, At
      <3>4. CASE \/ StoreCheckpoint \/ StoreBackup \/ Observe \/ PublishRewrittenLayout \/ Retain
                 \/ PutRewrittenRoot \/ PublishKeyring \/ ClearCheckpoint
        BY <1>1, <3>4, RewritesAreElsewhere, ElsewhereKeepsKeys
      <3>5. CASE FinishRewrite \/ Stop BY <1>1, <3>5, EndsAreElsewhere, ElsewhereKeepsKeys
      <3>6. CASE PublishDefault \/ PublishBranch BY <1>1, <3>6, RefsAreElsewhere, ElsewhereKeepsKeys
      <3> QED BY <2>5, <3>1, <3>2, <3>3, <3>4, <3>5, <3>6 DEF RewriteStep
    <2>6. CASE LayoutStep
      <3>1. CASE Collect BY <3>1, CollectKeepsKeys
      <3>2. CASE UploadCollected
        BY <1>1, <3>2, UploadsAreElsewhere, ElsewhereKeepsKeys DEF UploadCollected, LayoutAt
      <3>3. CASE PutOblivious \/ PublishLayout \/ PutLayoutIndex
        BY <1>1, <3>3, LayoutsAreElsewhere, ElsewhereKeepsKeys
      <3>4. CASE PublishSameRef BY <1>1, <3>4, RefsAreElsewhere, ElsewhereKeepsKeys
      <3>5. CASE FinishLayout \/ StopLayout BY <1>1, <3>5, EndsAreElsewhere, ElsewhereKeepsKeys
      <3> QED BY <2>6, <3>1, <3>2, <3>3, <3>4, <3>5 DEF LayoutStep
    <2> QED BY <2>1, <2>2, <2>3, <2>4, <2>5, <2>6 DEF LayoutsNext, Step, Kinds
  <1>3. HeadsFrom'
    <2>1. HeadsFrom BY DEF FirstInv
    <2>2. CASE UNCHANGED <<parent, ref, mirror, default>> BY <1>1, <2>1, <2>2, HeadsStayFrom
    <2>3. CASE HeadSteps BY <2>1, <2>3, CommitsMoveHeads, HeadsMove DEF HeadSteps
    <2> QED BY <1>1, <2>2, <2>3, Frames
  <1>4. Aged(copies, Originals)' /\ DOMAIN copies \subseteq DOMAIN copies'
    <2>1. CASE UNCHANGED copies BY <2>1 DEF FirstInv, Aged, Originals, Original
    <2> QED BY <1>1, <2>1, Frames, CopiesStayAged
  <1>5. RemoteAged'
    <2>1. CASE UNCHANGED <<loose, segments>> BY <2>1 DEF FirstInv, RemoteAged, Aged
    <2> QED BY <1>1, <2>1, Frames, StoresStayAged
  <1>6. IdsAreHere' BY <1>1, <1>4, Frames, IdsStayHere
  <1> QED BY <1>2, <1>3, <1>4, <1>5, <1>6 DEF FirstInv

LEMMA KeysStutter ==
  ASSUME KeysInv, FirstInv, UNCHANGED rewriteVars
  PROVE  KeysInv' /\ FirstInv'
  <1> USE DEF rewriteVars, copyVars, remoteVars, device
  <1>1. TypesOk /\ Parents(parent) BY DEF KeysInv, TypesOk
  <1>2. UsedOk' /\ IsWork(work') BY <1>1 DEF TypesOk, UsedOk, IsWork
  <1>3. Grown BY <1>1, SameParents
  <1>4. RefsOk' BY <1>1, <1>3, RefsStay
  <1>5. KeysInv' BY <1>1, <1>2, <1>4, MovesKeepKeys DEF Unmoved
  <1>6. HeadsFrom' BY <1>1, HeadsStayFrom DEF FirstInv
  <1>7. Aged(copies, Originals)' /\ RemoteAged' BY DEF FirstInv, RemoteAged, Aged, Originals, Original
  <1>8. IdsAreHere' BY DEF FirstInv, IdsAreHere
  <1> QED BY <1>5, <1>6, <1>7, <1>8 DEF FirstInv

THEOREM KeysAreSafe == LayoutsSpec => [](KeysInv /\ FirstInv)
  <1>1. LayoutsInit => KeysInv /\ FirstInv BY KeysAtFirst, FirstAtFirst
  <1>2. KeysInv /\ FirstInv /\ [LayoutsNext]_rewriteVars => (KeysInv /\ FirstInv)' BY KeysStep, KeysStutter
  <1> QED BY <1>1, <1>2, PTL DEF LayoutsSpec

LEMMA KeysImply == KeysInv => RetiredKeysAreUnused
  <1> SUFFICES ASSUME KeysInv PROVE RetiredKeysAreUnused OBVIOUS
  <1>1. TypesOk BY DEF KeysInv
  <1>2. CASE keyring.keys = {Active}
    <2>1. AllActive BY <1>2 DEF KeysInv, RewritingOk
    <2> QED BY <1>1, <1>2, <2>1 DEF AllActive, RetiredKeysAreUnused, TypesOk
  <1>3. CASE keyring.keys = Epochs
    <2>1. \A b \in Branches : mirror[b] = NoBranch \/ mirror[b].epoch \in Epochs BY <1>1 DEF TypesOk, Records
    <2>2. default.epoch \in Epochs BY <1>1 DEF TypesOk, Records
    <2> QED BY <1>1, <1>3, <2>1, <2>2 DEF RetiredKeysAreUnused, TypesOk
  <1> QED BY <1>1, <1>2, <1>3 DEF TypesOk

THEOREM NothingIsUnderARetiredKey == LayoutsSpec => []RetiredKeysAreUnused
  BY KeysAreSafe, KeysImply, PTL

----------------------------------------------------------------------------
(* Reading: ReadableInv.                                                   *)

LEMMA HeldOnce ==
  ASSUME NEW P, NEW s, NEW l, Apart(P, s), NEW p \in P, NEW o \in DOMAIN s[p].holds
  PROVE  o \in HeldIn(P, s) /\ EpochIn(P, s, l, o) = s[p].holds[o]
  <1>1. o \in HeldIn(P, s) BY DEF HeldIn
  <1>2. \A q \in P : o \in DOMAIN s[q].holds => q = p BY DEF Apart
  <1>3. (CHOOSE q \in P : o \in DOMAIN s[q].holds) = p BY <1>2
  <1> QED BY <1>1, <1>3 DEF EpochIn

\* More segments do not disturb those that are read.
LEMMA SameSegments ==
  ASSUME NEW P, NEW s, NEW t, NEW l, Apart(P, s), \A p \in P : t[p] = s[p]
  PROVE  /\ Apart(P, t) /\ HeldIn(P, t) = HeldIn(P, s)
         /\ \A o : EpochIn(P, t, l, o) = EpochIn(P, s, l, o)
  <1>1. Apart(P, t) BY DEF Apart
  <1>2. HeldIn(P, t) = HeldIn(P, s) BY DEF HeldIn
  <1>4. \A p \in P : \A o \in DOMAIN t[p].holds : EpochIn(P, t, l, o) = t[p].holds[o] BY <1>1, HeldOnce
  <1>3. ASSUME NEW o PROVE EpochIn(P, t, l, o) = EpochIn(P, s, l, o)
    <2>1. CASE o \in HeldIn(P, s)
      <3>1. PICK p \in P : o \in DOMAIN s[p].holds BY <2>1 DEF HeldIn
      <3>2. o \in DOMAIN t[p].holds /\ t[p].holds[o] = s[p].holds[o] BY <3>1
      <3>3. EpochIn(P, s, l, o) = s[p].holds[o] BY <3>1, HeldOnce
      <3>4. EpochIn(P, t, l, o) = t[p].holds[o] BY <1>4, <3>2
      <3> QED BY <3>2, <3>3, <3>4
    <2>2. CASE o \notin HeldIn(P, s) BY <1>2, <2>2 DEF EpochIn
    <2> QED BY <2>1, <2>2
  <1> QED BY <1>1, <1>2, <1>3

LEMMA StillReadIn ==
  ASSUME NEW R, NEW r, NEW s, NEW t, NEW l, NEW keys, ReadIn(R, r, s, l, keys),
         \A p \in DOMAIN s : p \in DOMAIN t /\ t[p] = s[p]
  PROVE  ReadIn(R, r, t, l, keys)
  <1>1. Apart(r.paths, s) /\ \A p \in r.paths : p \in DOMAIN t /\ t[p] = s[p] BY DEF ReadIn, Opening
  <1>2. PICK P : P = r.paths OBVIOUS
  <1>3. /\ Apart(P, t) /\ HeldIn(P, t) = HeldIn(P, s)
        /\ \A o : EpochIn(P, t, l, o) = EpochIn(P, s, l, o)
    BY <1>1, <1>2, SameSegments
  <1>4. Opening(r, t, keys) BY <1>1, <1>2, <1>3 DEF ReadIn, Opening
  <1>5. Finding(R, P, t, l, keys) BY <1>2, <1>3 DEF ReadIn, Finding
  <1> QED BY <1>2, <1>4, <1>5 DEF ReadIn

\* A segment n of objects S that were not stored.
Adds(P, s, t, l, n, S, f) ==
  /\ Apart(P, s) /\ n \notin P /\ \A p \in P : t[p] = s[p]
  /\ DOMAIN t[n].holds = S /\ \A o \in S : t[n].holds[o] = f[o]
  /\ \A o \in S : o \notin HeldIn(P, s) \cup DOMAIN l

\* The segments Q of t have what P of s had, and S with the epochs f.
Added(P, Q, s, t, l, S, f) ==
  /\ Apart(Q, t) /\ HeldIn(Q, t) = HeldIn(P, s) \cup S
  /\ \A o \in HeldIn(P, s) \cup DOMAIN l : EpochIn(Q, t, l, o) = EpochIn(P, s, l, o)
  /\ \A o \in S : EpochIn(Q, t, l, o) = f[o]

LEMMA SegmentIsAdded ==
  ASSUME NEW P, NEW s, NEW t, NEW l, NEW n, NEW S, NEW f, Adds(P, s, t, l, n, S, f),
         NEW Q, Q = P \cup {n}
  PROVE  Added(P, Q, s, t, l, S, f)
  <1> USE DEF Adds
  <1>1. Apart(Q, t)
    <2>1. \A p, q \in P : p # q => DOMAIN t[p].holds \cap DOMAIN t[q].holds = {} BY DEF Apart
    <2>2. \A p \in P : DOMAIN t[p].holds \cap DOMAIN t[n].holds = {} BY DEF HeldIn
    <2> QED BY <2>1, <2>2 DEF Apart
  <1>2. HeldIn(Q, t) = HeldIn(P, s) \cup S BY DEF HeldIn
  <1>6. /\ \A p \in P : p \in Q /\ t[p] = s[p]
        /\ n \in Q /\ DOMAIN t[n].holds = S /\ \A o \in S : t[n].holds[o] = f[o]
    OBVIOUS
  <1>7. Apart(P, s) OBVIOUS
  <1> HIDE DEF Adds
  <1>5. \A p \in Q : \A o \in DOMAIN t[p].holds : EpochIn(Q, t, l, o) = t[p].holds[o]
    BY <1>1, HeldOnce
  <1>3. \A o \in S : EpochIn(Q, t, l, o) = f[o] BY <1>5, <1>6
  <1>4. ASSUME NEW o \in HeldIn(P, s) \cup DOMAIN l
        PROVE  EpochIn(Q, t, l, o) = EpochIn(P, s, l, o)
    <2>1. CASE o \in HeldIn(P, s)
      <3>1. PICK p \in P : o \in DOMAIN s[p].holds BY <2>1 DEF HeldIn
      <3>2. o \in DOMAIN t[p].holds /\ t[p].holds[o] = s[p].holds[o] /\ p \in Q BY <1>6, <3>1
      <3>3. EpochIn(P, s, l, o) = s[p].holds[o] BY <1>7, <3>1, HeldOnce
      <3>4. EpochIn(Q, t, l, o) = t[p].holds[o] BY <1>5, <3>2
      <3> QED BY <3>2, <3>3, <3>4
    <2>2. CASE o \notin HeldIn(P, s)
      <3>1. o \in DOMAIN l BY <1>4, <2>2
      <3>2. o \notin HeldIn(Q, t) BY <1>2, <2>2, <3>1 DEF Adds
      <3> QED BY <2>2, <3>2 DEF EpochIn
    <2> QED BY <2>1, <2>2
  <1> QED BY <1>1, <1>2, <1>3, <1>4 DEF Added

\* A published head is read through the root of the layout.
LEMMA ReadThrough ==
  ASSUME NEW r, r = Root, r.epoch \in Epochs
  PROVE  \A b, keys : Readable(b, keys) <=> /\ ref[b].epoch \in keys
                                            /\ ReadIn(Reach(ref[b].head), r, segments, loose, keys)
  <1>1. r # NoRoot
    <2>1. NoRoot.epoch = 0 /\ 0 \notin Epochs BY DEF NoRoot, Epochs, Old, Active
    <2> QED BY <2>1
  <1>2. \A keys : IndexOpens(keys) <=> Opening(r, segments, keys)
    BY <1>1 DEF IndexOpens, RootOpens, Opening, Apart
  <1>3. \A o : EpochOf(o) = EpochIn(r.paths, segments, loose, o)
    BY DEF EpochOf, EpochIn, Packed, HeldIn
  <1>4. Stored = HeldIn(r.paths, segments) \cup DOMAIN loose BY DEF Stored, Packed, HeldIn
  <1> QED BY <1>2, <1>3, <1>4 DEF Readable, ReadIn, Finding

LEMMA ReadThroughNext ==
  ASSUME NEW r, r = Root', r.epoch \in Epochs
  PROVE  \A b, keys : Readable(b, keys)' <=> /\ ref'[b].epoch \in keys
                                             /\ ReadIn(Reach(ref[b].head)', r, segments', loose', keys)
  <1>1. r # NoRoot
    <2>1. NoRoot.epoch = 0 /\ 0 \notin Epochs BY DEF NoRoot, Epochs, Old, Active
    <2> QED BY <2>1
  <1>2. \A keys : IndexOpens(keys)' <=> Opening(r, segments', keys)
    BY <1>1 DEF IndexOpens, RootOpens, Opening, Apart
  <1>3. \A o : EpochOf(o)' = EpochIn(r.paths, segments', loose', o)
    BY DEF EpochOf, EpochIn, Packed, HeldIn
  <1>4. Stored' = HeldIn(r.paths, segments') \cup DOMAIN loose' BY DEF Stored, Packed, HeldIn
  <1> QED BY <1>2, <1>3, <1>4 DEF Readable, ReadIn, Finding

(* Batches.                                                                *)

\* Batch i of a sequence, from i * Batch + 1 to (i + 1) * Batch.
LEMMA BatchIs ==
  ASSUME NEW S, NEW ids \in Seq(S), NEW i \in Nat
  PROVE  \A x : x \in BatchOf(ids, i) <=>
                  \E j \in DOMAIN ids : i * Batch < j /\ j <= (i + 1) * Batch /\ ids[j] = x
  <1> DEFINE m == i * Batch + 1
             n == IF (i + 1) * Batch < Len(ids) THEN (i + 1) * Batch ELSE Len(ids)
  <1>1. Batch \in Nat \ {0} /\ Len(ids) \in Nat /\ DOMAIN ids = 1..Len(ids)
    BY CopiesAssumption, LenProperties
  <1>2. /\ i * Batch \in Nat /\ (i + 1) * Batch \in Nat
        /\ m \in Nat /\ m >= 1 /\ n \in Nat /\ n <= Len(ids)
    <2>1. i * Batch \in Nat /\ (i + 1) * Batch \in Nat BY <1>1
    <2> QED BY <1>1, <2>1
  <1>3. BatchOf(ids, i) = Range(SubSeq(ids, m, n)) BY DEF BatchOf
  <1>4. \A j \in DOMAIN ids : i * Batch < j /\ j <= (i + 1) * Batch <=> m <= j /\ j <= n
    BY <1>1, <1>2
  <1> HIDE DEF m, n
  <1>5. \A x : x \in Range(SubSeq(ids, m, n)) <=> \E j \in DOMAIN ids : m <= j /\ j <= n /\ ids[j] = x
    <2>1. n \in Int /\ m \in Int /\ \A j \in m..n : ids[j] \in S BY <1>1, <1>2
    <2>2. /\ SubSeq(ids, m, n) \in Seq(S)
          /\ Len(SubSeq(ids, m, n)) = IF m <= n THEN n - m + 1 ELSE 0
          /\ \A j \in 1..n - m + 1 : SubSeq(ids, m, n)[j] = ids[m + j - 1]
      BY <2>1, <1>2, SubSeqProperties
    <2>3. PICK q : q = SubSeq(ids, m, n) OBVIOUS
    <2>4. DOMAIN q = 1..Len(q) /\ Len(q) \in Nat BY <2>2, <2>3, LenProperties
    <2>5. (\A j : j \in DOMAIN q <=> j \in 1..n - m + 1) /\ \A j \in DOMAIN q : q[j] = ids[m + j - 1]
      <3>1. Len(q) = IF m <= n THEN n - m + 1 ELSE 0 BY <2>2, <2>3
      <3>2. \A j : j \in 1..Len(q) <=> j \in 1..n - m + 1 BY <1>2, <3>1
      <3>3. \A j \in 1..n - m + 1 : q[j] = ids[m + j - 1] BY <2>2, <2>3
      <3> QED BY <2>4, <3>2, <3>3
    <2>6. ASSUME NEW j \in DOMAIN q PROVE m + j - 1 \in DOMAIN ids /\ m <= m + j - 1 /\ m + j - 1 <= n
      BY <1>1, <1>2, <2>5
    <2>7. ASSUME NEW j \in DOMAIN ids, m <= j, j <= n
          PROVE  j - m + 1 \in DOMAIN q /\ q[j - m + 1] = ids[j]
      <3>1. j - m + 1 \in DOMAIN q BY <1>1, <1>2, <2>5, <2>7
      <3>2. PICK k : k = j - m + 1 OBVIOUS
      <3>3. m + k - 1 = j BY <1>1, <1>2, <3>2
      <3>4. q[k] = ids[m + k - 1] BY <2>5, <3>1, <3>2
      <3>5. ids[m + k - 1] = ids[j] BY <3>3
      <3> QED BY <3>1, <3>2, <3>4, <3>5
    <2>8. \A x : x \in Range(q) <=> \E j \in DOMAIN q : q[j] = x BY DEF Range
    <2>9. ASSUME NEW x \in Range(q) PROVE \E j \in DOMAIN ids : m <= j /\ j <= n /\ ids[j] = x
      <3>1. PICK j \in DOMAIN q : q[j] = x BY <2>8
      <3>2. ids[m + j - 1] = x BY <2>5, <3>1
      <3> QED BY <2>6, <3>1, <3>2
    <2>10. ASSUME NEW j \in DOMAIN ids, m <= j, j <= n PROVE ids[j] \in Range(q)
      BY <2>7, <2>8, <2>10
    <2> QED BY <2>3, <2>9, <2>10
  <1> QED BY <1>3, <1>4, <1>5

LEMMA Quotients ==
  ASSUME NEW B \in Nat \ {0}, NEW n \in Nat
  PROVE  /\ n \div B \in Nat /\ (n \div B) * B <= n /\ n < (n \div B + 1) * B
         /\ \A m \in Nat : m <= n => m \div B <= n \div B
  OBVIOUS

LEMMA Products ==
  ASSUME NEW B \in Nat \ {0}, NEW i \in Nat, NEW k \in Nat, i < k
  PROVE  (i + 1) * B <= k * B
  <1>1. k = i + 1 + (k - i - 1) /\ k - i - 1 \in Nat OBVIOUS
  <1>2. k * B = (i + 1) * B + (k - i - 1) * B /\ (k - i - 1) * B \in Nat BY <1>1
  <1> QED BY <1>2

LEMMA BatchesOfASet ==
  ASSUME NEW S, IsFiniteSet(S)
  PROVE  /\ \A i \in Nat : BatchOf(SetToSeq(S), i) \subseteq S
         /\ \A i, k \in Nat : i # k => BatchOf(SetToSeq(S), i) \cap BatchOf(SetToSeq(S), k) = {}
         /\ Full(S) \in Nat
         /\ \A x \in S : \E i \in 0..Full(S) - 1 : x \in BatchOf(SetToSeq(S), i)
  <1>1. PICK ids \in Seq(S) : ids = SetToSeq(S) BY InAnyOrder
  <1>2. IsInjective(ids) /\ Range(ids) = S /\ \A x \in S : \E j \in DOMAIN ids : ids[j] = x
    BY <1>1, InAnyOrder
  <1>3. /\ Len(ids) \in Nat /\ DOMAIN ids = 1..Len(ids) /\ Batch \in Nat \ {0}
        /\ \A j, k \in DOMAIN ids : ids[j] = ids[k] => j = k
    BY <1>2, LenProperties, CopiesAssumption DEF IsInjective
  <1>4. \A i \in Nat : \A x : x \in BatchOf(ids, i) <=>
          \E j \in DOMAIN ids : i * Batch < j /\ j <= (i + 1) * Batch /\ ids[j] = x
    BY BatchIs
  <1>5. \A i \in Nat : BatchOf(ids, i) \subseteq S BY <1>2, BatchIsListed
  <1>6. ASSUME NEW i \in Nat, NEW k \in Nat, i < k, NEW x \in BatchOf(ids, i), x \in BatchOf(ids, k)
        PROVE  FALSE
    <2>1. PICK j \in DOMAIN ids : j <= (i + 1) * Batch /\ ids[j] = x BY <1>4
    <2>2. PICK h \in DOMAIN ids : k * Batch < h /\ ids[h] = x BY <1>4, <1>6
    <2>3. j = h BY <1>3, <2>1, <2>2
    <2>4. (i + 1) * Batch <= k * Batch BY <1>3, <1>6, Products
    <2>5. (i + 1) * Batch \in Nat /\ k * Batch \in Nat /\ j \in Nat BY <1>3
    <2> QED BY <2>1, <2>2, <2>3, <2>4, <2>5
  <1>7. Batches(ids) \in Nat
        /\ \A j \in DOMAIN ids : (j - 1) \div Batch \in 0..Batches(ids) - 1
                                 /\ ((j - 1) \div Batch) * Batch < j
                                 /\ j <= ((j - 1) \div Batch + 1) * Batch
    <2>1. CASE ids = << >>
      <3>1. Batches(ids) = 0 /\ DOMAIN ids = {} BY <1>3, <2>1 DEF Batches
      <3> QED BY <3>1
    <2>2. CASE ids # << >>
      <3>1. Len(ids) - 1 \in Nat BY <1>3, <2>2, EmptySeq
      <3>2. PICK q : q = (Len(ids) - 1) \div Batch OBVIOUS
      <3>3. q \in Nat /\ Batches(ids) = q + 1 BY <1>3, <2>2, <3>1, <3>2, Quotients DEF Batches
      <3>4. ASSUME NEW j \in DOMAIN ids
            PROVE  (j - 1) \div Batch \in 0..Batches(ids) - 1
                   /\ ((j - 1) \div Batch) * Batch < j /\ j <= ((j - 1) \div Batch + 1) * Batch
        <4>1. j - 1 \in Nat /\ j - 1 <= Len(ids) - 1 /\ j \in Nat BY <1>3
        <4>2. PICK u : u = (j - 1) \div Batch OBVIOUS
        <4>3. PICK n \in Nat : n = j - 1 BY <4>1
        <4>4. u = n \div Batch /\ u \in Nat /\ u * Batch <= n /\ n < (u + 1) * Batch
          BY <1>3, <4>2, <4>3, Quotients
        <4>5. u <= q BY <1>3, <3>1, <3>2, <4>1, <4>3, <4>4, Quotients
        <4>6. u * Batch \in Nat /\ (u + 1) * Batch \in Nat BY <1>3, <4>4
        <4> QED BY <3>3, <4>1, <4>2, <4>3, <4>4, <4>5, <4>6
      <3> QED BY <3>3, <3>4
    <2> QED BY <2>1, <2>2
  <1>8. ASSUME NEW x \in S PROVE \E i \in 0..Batches(ids) - 1 : x \in BatchOf(ids, i)
    <2>1. PICK j \in DOMAIN ids : ids[j] = x BY <1>2
    <2>2. (j - 1) \div Batch \in 0..Batches(ids) - 1 /\ (j - 1) \div Batch \in Nat BY <1>7, <2>1
    <2> QED BY <1>4, <1>7, <2>1, <2>2
  <1>9. \A i, k \in Nat : i # k => BatchOf(ids, i) \cap BatchOf(ids, k) = {}
    <2>1. \A i, k \in Nat : i # k => i < k \/ k < i OBVIOUS
    <2> QED BY <1>6, <2>1
  <1> QED BY <1>1, <1>5, <1>7, <1>8, <1>9 DEF Full

(* What is stored.                                                         *)
SegmentsKept == \A p \in DOMAIN segments : p \in DOMAIN segments' /\ segments'[p] = segments[p]

NewSegment(n, S, f) == /\ SegmentsKept /\ n \notin DOMAIN segments
                       /\ \A p : p \in DOMAIN segments' <=> p \in DOMAIN segments \/ p = n
                       /\ segments'[n] = [epoch |-> Active, holds |-> Restrict(f, S)]

NewLoose(S, f) == /\ \A o \in DOMAIN loose : loose'[o] = loose[o]
                  /\ \A o : o \in DOMAIN loose' <=> o \in DOMAIN loose \/ o \in S
                  /\ \A o \in S : o \in DOMAIN loose \/ loose'[o] = f[o]

LEMMA UploadIs ==
  ASSUME NEW name, UploadBatch(name)
  PROVE  \/ segments' = segments /\ name \in DOMAIN segments
         \/ NewSegment(name, BatchOf(work.ids, work.next), copies)
  <1>1. PICK S : S = BatchOf(work.ids, work.next) OBVIOUS
  <1>2. PICK g : g = [p \in {name} |-> [epoch |-> Active, holds |-> Restrict(copies, S)]] OBVIOUS
  <1>3. CASE name \notin DOMAIN segments
    <2>1. segments' = Also(segments, g) BY <1>1, <1>2, <1>3 DEF UploadBatch
    <2>2. AlsoIs(segments', segments, g) BY <2>1, AlsoJoins
    <2>3. DOMAIN g = {name} /\ g[name] = [epoch |-> Active, holds |-> Restrict(copies, S)] BY <1>2
    <2> QED BY <1>1, <1>3, <2>2, <2>3 DEF AlsoIs, NewSegment, SegmentsKept
  <1>4. CASE name \in DOMAIN segments BY <1>4 DEF UploadBatch
  <1> QED BY <1>3, <1>4

LEMMA PutIs ==
  ASSUME NEW b, NEW h, NEW S, NEW f, NEW own, NEW ring, Put(b, h, S, f, own, ring),
         PushSegment(h) \notin DOMAIN segments
  PROVE  \/ /\ NewSegment(PushSegment(h), S, f) /\ loose' = loose
            /\ index' = [epoch |-> Active, paths |-> index.paths \cup {PushSegment(h)}]
         \/ NewLoose(S, f) /\ segments' = segments /\ index' = index
  <1>1. PICK n : n = PushSegment(h) OBVIOUS
  <1>2. PICK g : g = [p \in {n} |-> [epoch |-> Active, holds |-> Restrict(f, S)]] OBVIOUS
  <1>3. PICK k : k = Restrict(f, S) OBVIOUS
  <1>4. \/ /\ segments' = Also(g, segments) /\ loose' = loose
           /\ index' = [epoch |-> Active, paths |-> index.paths \cup {PushSegment(h)}]
        \/ loose' = Also(loose, k) /\ segments' = segments /\ index' = index
    BY <1>1, <1>2, <1>3 DEF Put
  <1>5. ASSUME segments' = Also(g, segments) PROVE NewSegment(PushSegment(h), S, f)
    <2>1. AlsoIs(segments', g, segments) BY <1>5, AlsoJoins
    <2>2. DOMAIN g = {n} /\ g[n] = [epoch |-> Active, holds |-> Restrict(f, S)] BY <1>2
    <2> QED BY <1>1, <2>1, <2>2 DEF AlsoIs, NewSegment, SegmentsKept
  <1>6. ASSUME loose' = Also(loose, k) PROVE NewLoose(S, f)
    <2>1. AlsoIs(loose', loose, k) BY <1>6, AlsoJoins
    <2>2. DOMAIN k = S /\ \A o \in S : k[o] = f[o] BY <1>3 DEF Restrict
    <2> QED BY <2>1, <2>2 DEF AlsoIs, NewLoose
  <1> QED BY <1>4, <1>5, <1>6

\* A push to b: h and what it reaches that is not stored, S with the epochs f.
PushOf(b, h, S, f, own, ring) ==
  /\ b \in Branches /\ Put(b, h, S, f, own, ring)
  /\ h \in Snapshots' /\ PushSegment(h) \notin DOMAIN segments
  /\ Grown /\ \A o \in Snapshots : o \in Snapshots'
  /\ S \subseteq Reach(h)' /\ S \cap Stored = {} /\ Reach(h)' \subseteq Stored \cup S
  /\ Reach(ref[b].head) \subseteq Reach(h)'
  /\ \A o \in S : o \in Snapshots' /\ f[o] \in Epochs

OtherPushIs(b, h, S, f, own, ring) ==
  /\ b = other.branch /\ h = NextHead /\ S = {NextHead} /\ f = [o \in {NextHead} |-> Active]
  /\ own = other.layout /\ ring = BothKeys

AdminPushIs(b, h, S, f, own, ring) ==
  /\ b = Main /\ h = default.head /\ S = Reach(default.head) \ Stored /\ f = copies
  /\ own = local /\ ring = Reconciled

LEMMA StoredIsKnown ==
  ASSUME StoredOk, Root.paths \subseteq DOMAIN segments
  PROVE  \A o \in Stored : o \in Snapshots /\ EpochOf(o) \in Epochs
  <1>1. ASSUME NEW o \in Stored PROVE o \in Snapshots /\ EpochOf(o) \in Epochs
    <2>1. CASE o \in Packed
      <3>1. \E q \in Root.paths : o \in DOMAIN segments[q].holds BY <2>1 DEF Packed
      <3>2. PICK c : c = CHOOSE q \in Root.paths : o \in DOMAIN segments[q].holds OBVIOUS
      <3>3. c \in Root.paths /\ o \in DOMAIN segments[c].holds BY <3>1, <3>2
      <3>4. EpochOf(o) = segments[c].holds[o] BY <2>1, <3>2 DEF EpochOf
      <3>5. c \in DOMAIN segments BY <3>3
      <3> QED BY <3>3, <3>4, <3>5 DEF StoredOk, Parts
    <2>2. CASE o \notin Packed
      <3>1. o \in DOMAIN loose /\ EpochOf(o) = loose[o] BY <1>1, <2>2 DEF Stored, EpochOf
      <3> QED BY <3>1 DEF StoredOk
    <2> QED BY <2>1, <2>2
  <1> QED BY <1>1

LEMMA OtherPushes ==
  ASSUME KeysInv, StoredOk, OtherPush
  PROVE  \E b, h, S, f, own, ring :
           PushOf(b, h, S, f, own, ring) /\ OtherPushIs(b, h, S, f, own, ring)
  <1>1. TypesOk /\ Parents(parent) BY DEF KeysInv, TypesOk
  <1>2. Len(parent) \in Nat BY <1>1, ReachFacts
  <1>3. PICK b, h, S, f, own, ring : OtherPushIs(b, h, S, f, own, ring) BY DEF OtherPushIs
  <1>4. Put(b, h, S, f, own, ring) /\ parent' = Append(parent, other.head) /\ other.head = ref[b].head
    BY <1>3 DEF OtherPush, OtherPushIs
  <1>5. b \in Branches /\ h = Len(parent) + 1 BY <1>1, <1>3 DEF OtherPushIs, TypesOk, OtherOk, NextHead
  <1>6. other.head \in 0..Len(parent) BY <1>1, <1>2, HeadsOk
  <1>7. /\ Grown /\ Len(parent') = Len(parent) + 1
        /\ Reach(h)' = {h} \cup Reach(other.head)
    BY <1>1, <1>2, <1>4, <1>5, <1>6, ReachGrows DEF Grown
  <1>8. h \in Snapshots' /\ h \notin Snapshots /\ \A o \in Snapshots : o \in Snapshots'
    BY <1>2, <1>5, <1>7 DEF Snapshots
  <1>9. Readable(b, ring.keys) BY <1>4 DEF Put
  <1>10. PushSegment(h) \notin DOMAIN segments
    <2>1. PICK n : n = PushSegment(h) OBVIOUS
    <2>2. n[1] = "push" /\ n[2] = h BY <2>1 DEF PushSegment
    <2> QED BY <1>8, <2>1, <2>2 DEF StoredOk
  <1>11. Root.paths \subseteq DOMAIN segments BY <1>9 DEF Readable, IndexOpens
  <1>12. h \notin Stored BY <1>8, <1>11, StoredIsKnown
  <1>13. Reach(other.head) \subseteq Stored BY <1>4, <1>9 DEF Readable
  <1>14. S = {h} /\ f[h] = Active /\ Active \in Epochs BY <1>3, TwoEpochs DEF OtherPushIs
  <1> QED BY <1>3, <1>4, <1>5, <1>7, <1>8, <1>10, <1>12, <1>13, <1>14 DEF PushOf

LEMMA AdminPushes ==
  ASSUME KeysInv, StoredOk, AdminPush
  PROVE  \E b, h, S, f, own, ring :
           PushOf(b, h, S, f, own, ring) /\ AdminPushIs(b, h, S, f, own, ring)
  <1>1. TypesOk /\ Parents(parent) BY DEF KeysInv, TypesOk
  <1>2. Len(parent) \in Nat BY <1>1, ReachFacts
  <1>3. PICK b, h, S, f, own, ring : AdminPushIs(b, h, S, f, own, ring) BY DEF AdminPushIs
  <1>4. /\ Put(b, h, S, f, own, ring) /\ parent' = parent
        /\ ref[Main].head \in Reach(default.head) \ {default.head}
        /\ Reach(default.head) \ {default.head} \subseteq Stored
    BY <1>3 DEF AdminPush, AdminPushIs
  <1>5. b \in Branches /\ b = Main /\ h = default.head BY <1>3, CopiesAssumption DEF AdminPushIs
  <1>6. default.head \in 1..Len(parent) /\ default.head \in 0..Len(parent) BY <1>1, <1>2, HeadsOk
  <1>7. Grown /\ Reach(h)' = Reach(h) BY <1>1, <1>4, SameParents
  <1>8. h \in Snapshots' /\ \A o \in Snapshots : o \in Snapshots' BY <1>4, <1>5, <1>6 DEF Snapshots
  <1>9. /\ Reach(default.head) \subseteq 1..default.head /\ Reach(default.head) \subseteq Snapshots
        /\ default.head \in Reach(default.head)
        /\ \A x \in Reach(default.head) : Reach(x) \subseteq Reach(default.head)
    BY <1>1, <1>6, ReachFacts
  <1>10. PushSegment(h) \notin DOMAIN segments
    <2>1. PICK n : n = PushSegment(h) OBVIOUS
    <2>2. n[1] = "push" /\ n[2] = h BY <2>1 DEF PushSegment
    <2>3. ref[Main].head \in Nat /\ ref[Main].head < default.head BY <1>4, <1>6, <1>9
    <2>4. ~(default.head <= ref[Main].head) BY <1>6, <2>3
    <2> QED BY <1>5, <2>1, <2>2, <2>4 DEF StoredOk
  <1>11. Reach(ref[b].head) \subseteq Reach(h) BY <1>4, <1>5, <1>9
  <1>12. S = Reach(h) \ Stored /\ f = copies BY <1>3 DEF AdminPushIs
  <1>13. \A o \in S : o \in Snapshots' /\ f[o] \in Epochs
    <2>1. Reach(h) \subseteq DOMAIN copies BY <1>1, <1>5, InLocalReach DEF TypesOk
    <2> QED BY <1>1, <1>5, <1>8, <1>9, <1>12, <2>1 DEF TypesOk
  <1> QED BY <1>3, <1>4, <1>5, <1>7, <1>8, <1>10, <1>11, <1>12, <1>13 DEF PushOf

LEMMA TodoFrame ==
  ASSUME TypesOk, LayoutsNext
  PROVE  PublishDefault \/ PublishBranch \/ work' = work \/ ~At("branches")'
  <1>1. IsWork(work) BY DEF TypesOk
  <1>2. CASE Others \/ Admin \/ AlreadyEnabled BY <1>2 DEF Others, Admin, AlreadyEnabled
  <1>3. CASE Resume \/ StartRewrite
    <2>1. \E pc \in {"observe", "hydrate"} : \E ids : work' = Begun(pc, ids)
      BY <1>3 DEF Resume, StartRewrite
    <2>2. work'.pc \in {"observe", "hydrate"} BY <2>1, BegunFields
    <2> QED BY <2>2 DEF At
  <1>4. CASE \E kind \in {"enable", "reshuffle"} : StartLayout(kind)
    <2>1. work'.pc = "collect" BY <1>4 DEF StartLayout, NoWork
    <2> QED BY <2>1 DEF At
  <1>5. CASE Interrupt \/ Stop \/ FinishRewrite \/ FinishLayout \/ StopLayout
    <2>1. work' = NoWork BY <1>5 DEF Interrupt, Stop, FinishRewrite, FinishLayout, StopLayout
    <2> QED BY <2>1, NoWorkFields DEF At
  <1>6. CASE Hydrate \/ StartObjects \/ RewriteObject \/ Observe \/ UploadRewritten \/ Retain
    <2>1. work'.pc \in {"hydrate", "objects", "upload", "root"}
      BY <1>1, <1>6 DEF Hydrate, StartObjects, RewriteObject, Observe, UploadRewritten, UploadBatch, Retain,
                        At, IsWork
    <2> QED BY <2>1 DEF At
  <1>7. CASE Collect \/ UploadCollected
    <2>1. work'.pc = "upload" BY <1>1, <1>7 DEF Collect, UploadCollected, UploadBatch, LayoutAt, IsWork
    <2> QED BY <2>1 DEF At
  <1>8. CASE RewriteRecords \/ RetireKeys \/ StoreCheckpoint \/ StoreBackup \/ PublishRewrittenLayout
             \/ PutRewrittenRoot \/ PublishKeyring \/ ClearCheckpoint
             \/ PutOblivious \/ PublishLayout \/ PutLayoutIndex \/ PublishSameRef
    <2>1. \E pc \in {"retire", "store", "backup", "observe", "retain", "verify", "ref", "clear", "layout",
                     "root", "keep"} : Proceed(pc)
      BY <1>8 DEF RewriteRecords, RetireKeys, StoreCheckpoint, StoreBackup, PublishRewrittenLayout,
                  PutRewrittenRoot, PutRoot, PublishKeyring, ClearCheckpoint, PutOblivious, PublishLayout,
                  PutLayoutIndex, PublishSameRef
    <2>2. work'.pc # "branches" BY <1>1, <2>1, Proceeds
    <2> QED BY <2>2 DEF At
  <1> QED BY <1>2, <1>3, <1>4, <1>5, <1>6, <1>7, <1>8 DEF LayoutsNext, Step, RewriteStep, LayoutStep

LEMMA IndexFrame ==
  ASSUME LayoutsNext
  PROVE  OtherPush \/ AdminPush \/ index' = index \/ index'.epoch = Active
  <1>1. CASE Others \/ Admin \/ Resume \/ StartRewrite \/ AlreadyEnabled \/ Interrupt
             \/ \E kind \in {"enable", "reshuffle"} : StartLayout(kind)
    BY <1>1 DEF Others, Admin, Resume, StartRewrite, AlreadyEnabled, Interrupt, StartLayout, OtherFetch,
                AdminCommit, remoteVars
  <1>2. CASE RewriteStep
    BY <1>2 DEF RewriteStep, Hydrate, StartObjects, RewriteObject, RewriteRecords, RetireKeys,
                StoreCheckpoint, StoreBackup, Observe, UploadRewritten, UploadBatch, PublishRewrittenLayout,
                Retain, PutRewrittenRoot, PutRoot, PublishKeyring, PublishDefault, PublishBranch,
                ClearCheckpoint, FinishRewrite, Stop, remoteVars, copyVars
  <1>3. CASE LayoutStep
    BY <1>3 DEF LayoutStep, Collect, UploadCollected, UploadBatch, PutOblivious, PublishLayout,
                PutLayoutIndex, PutRoot, PublishSameRef, FinishLayout, StopLayout, remoteVars, copyVars
  <1> QED BY <1>1, <1>2, <1>3 DEF LayoutsNext, Step

\* The head of the default branch is the only one a push of the admin device names.
PushNames ==
  \A p \in DOMAIN segments : p[1] = "push" =>
    p[2] \in Snapshots /\ (p[2] = default.head => default.head <= ref[Main].head)

LEMMA PushNamesStay ==
  ASSUME PushNames, \A o \in Snapshots : o \in Snapshots', default'.head = default.head,
         \A p \in DOMAIN segments' : p \in DOMAIN segments \/ p[1] # "push",
         ref'[Main].head = ref[Main].head \/ (ref'[Main].head = default.head /\ default.head \in Nat)
  PROVE  PushNames'
  BY DEF PushNames

\* A step leaves the segments there, adds one that is not a push's, or pushes.
LEMMA NamesFrame ==
  ASSUME TypesOk, LayoutsNext
  PROVE  OtherPush \/ AdminPush \/ \A p \in DOMAIN segments' : p \in DOMAIN segments \/ p[1] # "push"
  <1>1. CASE UNCHANGED <<loose, segments>> BY <1>1
  <1>2. CASE UploadRewritten
    <2>1. PICK name : name = <<"rewrite", 0, work.next>> OBVIOUS
    <2>2. UploadBatch(name) /\ name[1] # "push" BY <1>2, <2>1 DEF UploadRewritten
    <2> QED BY <2>2, UploadIs DEF NewSegment
  <1>3. CASE UploadCollected
    <2>1. PICK name : name = <<work.kind, work.layout.generation, work.next>> OBVIOUS
    <2>2. UploadBatch(name) /\ name[1] # "push" BY <1>3, <2>1 DEF UploadCollected, LayoutAt
    <2> QED BY <2>2, UploadIs DEF NewSegment
  <1> QED BY <1>1, <1>2, <1>3, Frames DEF StoreSteps

LEMMA PushNamesStep ==
  ASSUME KeysInv, KeysInv', StoredOk, LayoutsNext
  PROVE  PushNames'
  <1>1. /\ TypesOk /\ Parents(parent) /\ PushNames /\ Main \in Branches
        /\ default.head \in 1..Len(parent) /\ Len(parent) \in Nat
    <2>1. TypesOk /\ Parents(parent) BY DEF KeysInv, TypesOk
    <2> QED BY <2>1, HeadsOk, ReachFacts, CopiesAssumption DEF StoredOk, PushNames
  <1>2. CASE OtherPush
    <2>1. PICK b, h, S, f, own, ring : PushOf(b, h, S, f, own, ring) /\ OtherPushIs(b, h, S, f, own, ring)
      BY <1>2, OtherPushes
    <2>2. default' = default /\ ref' = [ref EXCEPT ![b] = [head |-> h, epoch |-> Active, version |-> @.version + 1]]
      BY <1>2, <2>1 DEF OtherPush, device, PushOf, Put
    <2>3. h = Len(parent) + 1 BY <2>1 DEF OtherPushIs, NextHead
    <2>4. ref'[Main].head = ref[Main].head \/ ref'[Main].head = h
      BY <1>1, <2>2 DEF TypesOk, RefsOk
    <2>5. \A p \in DOMAIN segments' : p \in DOMAIN segments \/ p = PushSegment(h)
      BY <2>1, PutIs DEF PushOf, NewSegment
    <2>6. ASSUME NEW p \in DOMAIN segments', p[1] = "push"
          PROVE  p[2] \in Snapshots' /\ (p[2] = default.head => default.head <= ref'[Main].head)
      <3>1. CASE p = PushSegment(h)
        <4>1. p[2] = h BY <3>1 DEF PushSegment
        <4> QED BY <1>1, <2>1, <2>3, <4>1 DEF PushOf
      <3>2. CASE p \in DOMAIN segments
        <4>1. p[2] \in Snapshots /\ (p[2] = default.head => default.head <= ref[Main].head)
          BY <1>1, <2>6, <3>2 DEF PushNames
        <4> QED BY <1>1, <2>1, <2>3, <2>4, <4>1 DEF PushOf
      <3> QED BY <2>5, <3>1, <3>2
    <2> QED BY <2>2, <2>6 DEF PushNames
  <1>3. CASE AdminPush
    <2>1. PICK b, h, S, f, own, ring : PushOf(b, h, S, f, own, ring) /\ AdminPushIs(b, h, S, f, own, ring)
      BY <1>3, AdminPushes
    <2>2. /\ default' = default /\ b = Main /\ h = default.head
          /\ ref' = [ref EXCEPT ![b] = [head |-> h, epoch |-> Active, version |-> @.version + 1]]
      BY <1>3, <2>1 DEF AdminPush, AdminPushIs, PushOf, Put
    <2>3. ref'[Main].head = default.head BY <1>1, <2>2 DEF TypesOk, RefsOk
    <2>4. \A p \in DOMAIN segments' : p \in DOMAIN segments \/ p = PushSegment(h)
      BY <2>1, PutIs DEF PushOf, NewSegment
    <2>5. ASSUME NEW p \in DOMAIN segments', p[1] = "push" PROVE p[2] \in Snapshots'
      <3>1. CASE p = PushSegment(h)
        <4>1. p[2] = h BY <3>1 DEF PushSegment
        <4> QED BY <2>1, <4>1 DEF PushOf
      <3>2. CASE p \in DOMAIN segments BY <1>1, <2>1, <2>5, <3>2 DEF PushNames, PushOf
      <3> QED BY <2>4, <3>1, <3>2
    <2> QED BY <1>1, <2>2, <2>3, <2>5 DEF PushNames
  <1>4. CASE AdminCommit
    <2>1. /\ parent' = Append(parent, default.head) /\ default'.head = Len(parent) + 1
          /\ segments' = segments /\ ref' = ref
      BY <1>4 DEF AdminCommit, remoteVars, NextHead
    <2>2. Len(parent') = Len(parent) + 1 BY <1>1, <2>1, ReachGrows
    <2>3. \A o \in Snapshots : o \in Snapshots' /\ o # default'.head
      BY <1>1, <2>1, <2>2 DEF Snapshots
    <2> QED BY <1>1, <2>1, <2>3 DEF PushNames
  <1>5. ASSUME ~OtherPush, ~AdminPush, ~AdminCommit
        PROVE  /\ \A o \in Snapshots : o \in Snapshots'
               /\ default'.head = default.head
               /\ ref'[Main].head = ref[Main].head \/ ref'[Main].head = default.head
    <2>1. CASE UNCHANGED <<parent, ref, mirror, default>> BY <2>1 DEF Snapshots
    <2>2. CASE Hydrate BY <2>2 DEF Hydrate, remoteVars, Snapshots
    <2>3. CASE RewriteRecords
      <3>1. parent' = parent /\ ref' = ref /\ default' = [default EXCEPT !.epoch = Active]
        BY <2>3 DEF RewriteRecords, remoteVars
      <3> QED BY <1>1, <3>1 DEF TypesOk, Records, Snapshots
    <2>4. CASE PublishDefault
      <3>1. parent' = parent /\ default' = default BY <2>4 DEF PublishDefault, device
      <3>2. ref' = ref \/ ref' = [ref EXCEPT ![Main] = [head |-> default.head, epoch |-> default.epoch,
                                                       version |-> @.version + 1]]
        BY <2>4 DEF PublishDefault, WriteRef
      <3> QED BY <1>1, <3>1, <3>2 DEF TypesOk, RefsOk, Snapshots
    <2>5. CASE PublishBranch
      <3>1. parent' = parent /\ default' = default BY <2>5 DEF PublishBranch, device
      <3>2. work.todo \in Seq(Branches \ {Main}) /\ work.todo # << >>
        BY <2>5 DEF PublishBranch, StoredOk
      <3>3. PICK b : b = Head(work.todo) OBVIOUS
      <3>4. b # Main BY <3>2, <3>3, WorkedOff
      <3>5. ref' = ref \/ ref' = [ref EXCEPT ![b] = [head |-> mirror[b].head, epoch |-> mirror[b].epoch,
                                                    version |-> @.version + 1]]
        BY <2>5, <3>3 DEF PublishBranch, WriteRef
      <3>6. ref'[Main] = ref[Main] BY <1>1, <3>4, <3>5 DEF TypesOk, RefsOk
      <3> QED BY <3>1, <3>6 DEF Snapshots
    <2>6. CASE PublishSameRef
      <3>1. parent' = parent /\ default' = default BY <2>6 DEF PublishSameRef, device
      <3>2. ref' = [ref EXCEPT ![Main] = [head |-> ref[Main].head, epoch |-> ref[Main].epoch,
                                          version |-> @.version + 1]]
        BY <2>6 DEF PublishSameRef, WriteRef
      <3> QED BY <1>1, <3>1, <3>2 DEF TypesOk, RefsOk, Snapshots
    <2> QED BY <1>1, <1>5, <2>1, <2>2, <2>3, <2>4, <2>5, <2>6, Frames DEF HeadSteps
  <1>6. default.head \in Nat BY <1>1
  <1> QED BY <1>1, <1>2, <1>3, <1>4, <1>5, <1>6, NamesFrame, PushNamesStay

LEMMA SegmentIsKnown ==
  ASSUME NEW n, NEW S, NEW f, NewSegment(n, S, f), \A o \in S : o \in Snapshots' /\ f[o] \in Epochs,
         \A p \in DOMAIN segments : /\ segments[p].epoch \in Epochs
                                    /\ \A o \in Parts(p) : o \in Snapshots' /\ segments[p].holds[o] \in Epochs
  PROVE  \A p \in DOMAIN segments' : /\ segments'[p].epoch \in Epochs
                                     /\ \A o \in Parts(p)' : o \in Snapshots' /\ segments'[p].holds[o] \in Epochs
  <1>1. ASSUME NEW p \in DOMAIN segments', p = n
        PROVE  /\ segments'[p].epoch \in Epochs
               /\ \A o \in Parts(p)' : o \in Snapshots' /\ segments'[p].holds[o] \in Epochs
    <2>1. segments'[p] = [epoch |-> Active, holds |-> Restrict(f, S)] BY <1>1 DEF NewSegment
    <2>2. Parts(p)' = S /\ segments'[p].epoch = Active /\ \A o \in S : segments'[p].holds[o] = f[o]
      BY <2>1 DEF Parts, Restrict
    <2> QED BY <2>2, TwoEpochs
  <1>2. ASSUME NEW p \in DOMAIN segments', p # n
        PROVE  /\ segments'[p].epoch \in Epochs
               /\ \A o \in Parts(p)' : o \in Snapshots' /\ segments'[p].holds[o] \in Epochs
    <2>1. p \in DOMAIN segments /\ segments'[p] = segments[p] BY <1>2 DEF NewSegment, SegmentsKept
    <2> QED BY <2>1 DEF Parts
  <1> QED BY <1>1, <1>2

\* What an upload takes is here.
LEMMA BatchIsHere ==
  ASSUME TypesOk, FirstInv
  PROVE  \A o \in BatchOf(work.ids, work.next) : o \in DOMAIN copies /\ o \in Snapshots /\ copies[o] \in Epochs
  <1>1. work.ids \in Seq(DOMAIN copies) /\ work.next \in Nat BY DEF FirstInv, IdsAreHere, TypesOk, IsWork
  <1>2. BatchOf(work.ids, work.next) \subseteq Range(work.ids) BY <1>1, BatchIsListed
  <1>3. Range(work.ids) \subseteq DOMAIN copies BY <1>1, LenProperties DEF Range
  <1> QED BY <1>2, <1>3 DEF TypesOk

LEMMA StoredStep ==
  ASSUME KeysInv, FirstInv, KeysInv', StoredOk, LayoutsNext
  PROVE  StoredOk'
  <1>1. TypesOk /\ Parents(parent) BY DEF KeysInv, TypesOk
  <1>2. \A o \in Snapshots : o \in Snapshots'
    <2>1. CASE UNCHANGED <<parent, ref, mirror, default>> BY <2>1 DEF Snapshots
    <2>2. CASE OtherPush \/ AdminPush BY <2>2, OtherPushes, AdminPushes DEF PushOf
    <2>3. CASE AdminCommit
      <3>1. parent' = Append(parent, default.head) /\ default.head \in 0..Len(parent) /\ Len(parent) \in Nat
        BY <1>1, <2>3, HeadsOk, ReachFacts DEF AdminCommit
      <3>2. Len(parent') = Len(parent) + 1 BY <1>1, <3>1, ReachGrows
      <3> QED BY <3>1, <3>2 DEF Snapshots
    <2>4. CASE Hydrate \/ RewriteRecords \/ PublishDefault \/ PublishBranch \/ PublishSameRef
      <3>1. parent' = parent
        BY <2>4 DEF Hydrate, RewriteRecords, PublishDefault, PublishBranch, PublishSameRef
      <3> QED BY <3>1 DEF Snapshots
    <2> QED BY <1>1, <2>1, <2>2, <2>3, <2>4, Frames DEF HeadSteps
  <1>3. \A p \in DOMAIN segments : /\ segments[p].epoch \in Epochs
                                   /\ \A o \in Parts(p) : o \in Snapshots' /\ segments[p].holds[o] \in Epochs
    BY <1>2 DEF StoredOk
  <1>4. \A o \in DOMAIN loose : o \in Snapshots' /\ loose[o] \in Epochs BY <1>2 DEF StoredOk
  <1> DEFINE Known == /\ \A p \in DOMAIN segments' :
                           /\ segments'[p].epoch \in Epochs
                           /\ \A o \in Parts(p)' : o \in Snapshots' /\ segments'[p].holds[o] \in Epochs
                      /\ \A o \in DOMAIN loose' : o \in Snapshots' /\ loose'[o] \in Epochs
                      /\ OtherPush \/ AdminPush => index'.epoch \in Epochs
  <1>5. Known
    <2>1. ASSUME UNCHANGED <<loose, segments>>, ~OtherPush, ~AdminPush PROVE Known
      BY <1>3, <1>4, <2>1 DEF Parts
    <2>2. ASSUME NEW b, NEW h, NEW S, NEW f, NEW own, NEW ring, PushOf(b, h, S, f, own, ring) PROVE Known
      <3>1. \A o \in S : o \in Snapshots' /\ f[o] \in Epochs BY <2>2 DEF PushOf
      <3>2. PICK n : n = PushSegment(h) OBVIOUS
      <3>3. \/ /\ NewSegment(n, S, f) /\ loose' = loose
               /\ index' = [epoch |-> Active, paths |-> index.paths \cup {n}]
            \/ NewLoose(S, f) /\ segments' = segments /\ index' = index
        BY <2>2, <3>2, PutIs DEF PushOf
      <3>4. CASE NewSegment(n, S, f) /\ loose' = loose
                 /\ index' = [epoch |-> Active, paths |-> index.paths \cup {n}]
        BY <1>3, <1>4, <3>1, <3>4, SegmentIsKnown, TwoEpochs
      <3>5. CASE NewLoose(S, f) /\ segments' = segments /\ index' = index
        <4>1. \A o \in DOMAIN loose' : o \in Snapshots' /\ loose'[o] \in Epochs
          BY <1>4, <3>1, <3>5 DEF NewLoose
        <4> QED BY <1>3, <3>5, <4>1 DEF StoredOk, Parts
      <3> QED BY <3>3, <3>4, <3>5
    <2>3. ASSUME NEW name, UploadBatch(name), ~OtherPush, ~AdminPush PROVE Known
      <3>1. PICK S : S = BatchOf(work.ids, work.next) OBVIOUS
      <3>2. \A o \in S : o \in Snapshots' /\ copies[o] \in Epochs BY <1>1, <1>2, <3>1, BatchIsHere
      <3>3. loose' = loose BY <2>3 DEF UploadBatch
      <3>4. CASE segments' = segments BY <1>3, <1>4, <2>3, <3>3, <3>4 DEF Parts
      <3>5. CASE NewSegment(name, S, copies) BY <1>3, <1>4, <2>3, <3>2, <3>3, <3>5, SegmentIsKnown
      <3> QED BY <2>3, <3>1, <3>4, <3>5, UploadIs
    <2>4. CASE OtherPush \/ AdminPush BY <2>2, <2>4, OtherPushes, AdminPushes
    <2>5. CASE (UploadRewritten \/ UploadCollected) /\ ~OtherPush /\ ~AdminPush
      BY <2>3, <2>5 DEF UploadRewritten, UploadCollected
    <2> HIDE DEF Known
    <2> QED BY <1>1, <2>1, <2>4, <2>5, Frames DEF StoreSteps
  <1>6. index'.epoch \in Epochs
    <2>1. index'.epoch \in Epochs \/ index' = index \/ index'.epoch = Active BY <1>5, IndexFrame
    <2> QED BY <2>1, TwoEpochs DEF StoredOk
  <1>7. At("branches")' => work'.todo \in Seq(Branches \ {Main})
    <2>1. CASE PublishDefault
      <3>1. work' = [work EXCEPT !.pc = "branches", !.todo = SetToSeq(Branches \ {Main})]
        BY <2>1 DEF PublishDefault
      <3>2. work'.todo = SetToSeq(Branches \ {Main}) BY <1>1, <3>1 DEF TypesOk, IsWork
      <3>3. IsFiniteSet(Branches \ {Main}) BY CopiesAssumption, FS_Difference
      <3> QED BY <3>2, <3>3, InAnyOrder
    <2>2. CASE PublishBranch
      <3>1. work.todo \in Seq(Branches \ {Main}) /\ work.todo # << >> BY <2>2 DEF PublishBranch, StoredOk
      <3>2. work'.todo = Tail(work.todo) BY <1>1, <2>2 DEF PublishBranch, TypesOk, IsWork
      <3> QED BY <3>1, <3>2, WorkedOff
    <2>3. CASE work' = work BY <2>3 DEF At, StoredOk
    <2> QED BY <1>1, <2>1, <2>2, <2>3, TodoFrame
  <1>8. PushNames' BY PushNamesStep
  <1> QED BY <1>5, <1>6, <1>7, <1>8 DEF StoredOk, PushNames

LEMMA StoredAtFirst == LayoutsInit => StoredOk
  <1> SUFFICES ASSUME LayoutsInit PROVE StoredOk OBVIOUS
  <1>1. /\ parent = History /\ index.epoch = Old /\ work = NoWork
        /\ loose = [o \in DOMAIN History \ PackedAtFirst |-> Old]
        /\ segments = [p \in {FirstSegment} |-> [epoch |-> Old, holds |-> [o \in PackedAtFirst |-> Old]]]
    BY DEF LayoutsInit, CopiesInit, RewriteInit
  <1>2. DOMAIN History = Snapshots /\ PackedAtFirst \subseteq Snapshots
    BY <1>1, CopiesAssumption, LenProperties DEF Snapshots
  <1>3. ~At("branches") BY <1>1, NoWorkFields DEF At
  <1>4. FirstSegment[1] # "push" BY DEF FirstSegment
  <1>5. ASSUME NEW p \in DOMAIN segments
        PROVE  /\ segments[p].epoch \in Epochs /\ p[1] # "push"
               /\ \A o \in Parts(p) : o \in Snapshots /\ segments[p].holds[o] \in Epochs
    <2>1. p = FirstSegment BY <1>1
    <2>2. segments[p] = [epoch |-> Old, holds |-> [o \in PackedAtFirst |-> Old]] BY <1>1, <2>1
    <2> QED BY <1>2, <1>4, <2>1, <2>2, TwoEpochs DEF Parts
  <1> QED BY <1>1, <1>2, <1>3, <1>5, TwoEpochs DEF StoredOk

(* Pushes under the pack layout.                                           *)

\* A push leaves what is stored, and adds what it brings.
LEMMA PushView ==
  ASSUME NEW b, NEW h, NEW S, NEW f, NEW own, NEW ring, PushOf(b, h, S, f, own, ring),
         NEW keys, Opening(index, segments, keys), Active \in keys,
         \A o \in S : o \notin HeldIn(index.paths, segments) \cup DOMAIN loose
  PROVE  /\ Opening(index', segments', keys)
         /\ \A o \in HeldIn(index.paths, segments) \cup DOMAIN loose :
              /\ o \in HeldIn(index'.paths, segments') \cup DOMAIN loose'
              /\ EpochIn(index'.paths, segments', loose', o) = EpochIn(index.paths, segments, loose, o)
         /\ \A o \in S : /\ o \in HeldIn(index'.paths, segments') \cup DOMAIN loose'
                         /\ EpochIn(index'.paths, segments', loose', o) = f[o]
  <1>1. PICK P, s, l, n : P = index.paths /\ s = segments /\ l = loose /\ n = PushSegment(h) OBVIOUS
  <1>2. Apart(P, s) /\ \A p \in P : p \in DOMAIN s /\ s[p].epoch \in keys BY <1>1 DEF Opening
  <1>3. n \notin P BY <1>1, <1>2 DEF PushOf
  <1>4. CASE /\ NewSegment(n, S, f) /\ loose' = loose
             /\ index' = [epoch |-> Active, paths |-> index.paths \cup {n}]
    <2>1. PICK t : t = segments' OBVIOUS
    <2>2. /\ \A p \in P : p \in DOMAIN t /\ t[p] = s[p]
          /\ n \in DOMAIN t /\ t[n] = [epoch |-> Active, holds |-> Restrict(f, S)]
      BY <1>1, <1>2, <1>4, <2>1 DEF NewSegment, SegmentsKept
    <2>3. DOMAIN t[n].holds = S /\ (\A o \in S : t[n].holds[o] = f[o]) /\ t[n].epoch = Active
      BY <2>2 DEF Restrict
    <2>7. Adds(P, s, t, l, n, S, f) BY <1>1, <1>2, <1>3, <2>2, <2>3 DEF Adds
    <2>8. PICK Q : Q = P \cup {n} OBVIOUS
    <2>9. Added(P, Q, s, t, l, S, f) BY <2>7, <2>8, SegmentIsAdded
    <2>4. /\ Apart(P \cup {n}, t)
          /\ HeldIn(P \cup {n}, t) = HeldIn(P, s) \cup S
          /\ \A o \in HeldIn(P, s) \cup DOMAIN l : EpochIn(P \cup {n}, t, l, o) = EpochIn(P, s, l, o)
          /\ \A o \in S : EpochIn(P \cup {n}, t, l, o) = f[o]
      BY <2>8, <2>9 DEF Added
    <2>5. index'.paths = P \cup {n} /\ index'.epoch = Active BY <1>1, <1>4
    <2>6. Opening(index', segments', keys) BY <1>2, <2>1, <2>2, <2>3, <2>4, <2>5 DEF Opening
    <2> QED BY <1>1, <1>4, <2>1, <2>4, <2>5, <2>6
  <1>5. CASE NewLoose(S, f) /\ segments' = segments /\ index' = index
    <2>1. PICK m : m = loose' OBVIOUS
    <2>2. /\ \A o \in DOMAIN l : o \in DOMAIN m /\ m[o] = l[o]
          /\ \A o \in S : o \in DOMAIN m /\ m[o] = f[o]
      BY <1>1, <1>5, <2>1 DEF NewLoose
    <2>3. \A o \in HeldIn(P, s) \cup DOMAIN l : EpochIn(P, s, m, o) = EpochIn(P, s, l, o)
      BY <2>2 DEF EpochIn
    <2>4. \A o \in S : EpochIn(P, s, m, o) = f[o] BY <1>1, <2>2 DEF EpochIn
    <2> QED BY <1>1, <1>5, <2>1, <2>2, <2>3, <2>4
  <1> QED BY <1>1, <1>4, <1>5, PutIs DEF PushOf

LEMMA PushesRead ==
  ASSUME TypesOk, StoredOk, StoredOk',
         NEW b, NEW h, NEW S, NEW f, NEW own, NEW ring, PushOf(b, h, S, f, own, ring),
         layout.mode = "pack", own.mode = "pack",
         NEW keys, Active \in keys, AllRead(keys),
         \A o \in Reach(h)' : (o \in S => f[o] \in keys) /\ (o \notin S => EpochOf(o) \in keys)
  PROVE  AllRead(keys)'
  <1>1. /\ layout' = own /\ b \in Branches
        /\ ref' = [ref EXCEPT ![b] = [head |-> h, epoch |-> Active, version |-> @.version + 1]]
    BY DEF PushOf, Put
  <1>2. Root = index /\ Root' = index' BY <1>1 DEF Root
  <1>3. index.epoch \in Epochs /\ index'.epoch \in Epochs BY DEF StoredOk
  <1>4. PICK P, s, l : P = index.paths /\ s = segments /\ l = loose OBVIOUS
  <1>5. \A c, ks : Readable(c, ks) <=> /\ ref[c].epoch \in ks
                                       /\ ReadIn(Reach(ref[c].head), index, s, l, ks)
    BY <1>2, <1>3, <1>4, ReadThrough
  <1>6. Opening(index, segments, keys) BY <1>1, <1>4, <1>5 DEF AllRead, ReadIn
  <1>7. Stored = HeldIn(P, s) \cup DOMAIN l /\ \A o : EpochOf(o) = EpochIn(P, s, l, o)
    BY <1>2, <1>4 DEF Stored, Packed, HeldIn, EpochOf, EpochIn
  <1>8. \A o \in S : o \notin HeldIn(P, s) \cup DOMAIN l BY <1>7 DEF PushOf
  <1>9. PICK Q, t, m : Q = index'.paths /\ t = segments' /\ m = loose' OBVIOUS
  <1>10. /\ Opening(index', t, keys)
         /\ \A o \in HeldIn(P, s) \cup DOMAIN l : o \in HeldIn(Q, t) \cup DOMAIN m /\ EpochIn(Q, t, m, o) = EpochIn(P, s, l, o)
         /\ \A o \in S : o \in HeldIn(Q, t) \cup DOMAIN m /\ EpochIn(Q, t, m, o) = f[o]
    BY <1>4, <1>6, <1>8, <1>9, PushView
  <1>11. \A c, ks : Readable(c, ks)' <=> /\ ref'[c].epoch \in ks
                                         /\ ReadIn(Reach(ref[c].head)', index', t, m, ks)
    BY <1>2, <1>3, <1>9, ReadThroughNext
  <1>12. ASSUME NEW c \in Branches PROVE Readable(c, keys)'
    <2>1. CASE c = b
      <3>1. ref'[c].epoch = Active /\ ref'[c].head = h BY <1>1, <2>1 DEF TypesOk, RefsOk
      <3>2. Reach(h)' \subseteq Stored \cup S BY DEF PushOf
      <3>3. Finding(Reach(h)', Q, t, m, keys) BY <1>7, <1>10, <3>2 DEF Finding
      <3>4. Reach(ref[c].head)' = Reach(h)' BY <3>1 DEF Reach
      <3>5. ReadIn(Reach(ref[c].head)', index', t, m, keys) BY <1>9, <1>10, <3>3, <3>4 DEF ReadIn
      <3> QED BY <1>11, <3>1, <3>5
    <2>2. CASE c # b
      <3>1. ref'[c] = ref[c] BY <1>1, <2>2 DEF TypesOk, RefsOk
      <3>2. ref[c].head \in 0..Len(parent)
        <4>1. ref[c].head \in 1..Len(parent) BY HeadsOk
        <4> QED BY <4>1
      <3>3. PICK x : x = ref[c].head OBVIOUS
      <3>4. Reach(x)' = Reach(x) BY <3>2, <3>3 DEF PushOf, Grown
      <3>5. Reach(ref[c].head)' = Reach(x)' BY <3>1, <3>3 DEF Reach
      <3>6. Readable(c, keys) BY DEF AllRead
      <3>7. ref[c].epoch \in keys /\ Finding(Reach(x), P, s, l, keys) BY <1>4, <1>5, <3>3, <3>6 DEF ReadIn
      <3>8. Finding(Reach(x), Q, t, m, keys) BY <1>10, <3>7 DEF Finding
      <3>9. ReadIn(Reach(ref[c].head)', index', t, m, keys) BY <1>9, <1>10, <3>4, <3>5, <3>8 DEF ReadIn
      <3> QED BY <1>11, <3>1, <3>7, <3>9
    <2> QED BY <2>1, <2>2
  <1> QED BY <1>12 DEF AllRead

\* Segments are only added, and the refs name what they did.
Quiet == /\ Grown /\ loose' = loose /\ SegmentsKept
         /\ \A b \in Branches : ref'[b].epoch = ref[b].epoch /\ ref'[b].head = ref[b].head

LEMMA QuietlyRead ==
  ASSUME TypesOk, NEW keys, AllRead(keys), Quiet, Root' = Root, Root.epoch \in Epochs
  PROVE  AllRead(keys)'
  <1>1. PICK r, s, t, l : r = Root /\ s = segments /\ t = segments' /\ l = loose OBVIOUS
  <1>2. \A b : Readable(b, keys) <=> /\ ref[b].epoch \in keys
                                     /\ ReadIn(Reach(ref[b].head), r, s, l, keys)
    BY <1>1, ReadThrough
  <1>3. \A b : Readable(b, keys)' <=> /\ ref'[b].epoch \in keys
                                      /\ ReadIn(Reach(ref[b].head)', r, t, l, keys)
    BY <1>1, ReadThroughNext DEF Quiet
  <1>4. \A p \in DOMAIN s : p \in DOMAIN t /\ t[p] = s[p] BY <1>1 DEF Quiet, SegmentsKept
  <1>5. ASSUME NEW b \in Branches PROVE Readable(b, keys)'
    <2>1. ref[b].epoch \in keys /\ ReadIn(Reach(ref[b].head), r, s, l, keys) BY <1>2 DEF AllRead
    <2>2. ReadIn(Reach(ref[b].head), r, t, l, keys) BY <1>4, <2>1, StillReadIn
    <2>3. Reach(ref[b].head)' = Reach(ref[b].head)
      <3>1. PICK x : x = ref[b].head OBVIOUS
      <3>2. x \in 1..Len(parent) BY <3>1, HeadsOk
      <3>3. x \in 0..Len(parent) BY <3>2
      <3>4. Reach(x)' = Reach(x) BY <3>3 DEF Quiet, Grown
      <3>5. Reach(ref[b].head)' = Reach(x)' BY <3>1 DEF Reach, Quiet
      <3> QED BY <3>1, <3>4, <3>5
    <2>4. ref'[b].epoch \in keys BY <2>1 DEF Quiet
    <2>5. ReadIn(Reach(ref[b].head)', r, t, l, keys) BY <2>2, <2>3
    <2> QED BY <1>3, <2>4, <2>5
  <1> QED BY <1>5 DEF AllRead

LEMMA RootIsKnown ==
  ASSUME StoredOk, AllRead(Epochs), layout.mode \in {"pack", "oblivious"}
  PROVE  Root.epoch \in Epochs /\ Root.paths \subseteq DOMAIN segments
  <1>1. Readable(Main, Epochs) BY CopiesAssumption DEF AllRead
  <1>2. IndexOpens(Epochs) BY <1>1 DEF Readable
  <1>3. Root.paths \subseteq DOMAIN segments BY <1>2 DEF IndexOpens
  <1>4. CASE layout.mode = "pack" BY <1>3, <1>4 DEF Root, StoredOk
  <1>5. CASE layout.mode = "oblivious" BY <1>2, <1>3, <1>5 DEF IndexOpens, RootOpens
  <1> QED BY <1>4, <1>5

LEMMA CollectedIsFinite ==
  ASSUME TypesOk
  PROVE  IsFiniteSet(Collected) /\ Collected \subseteq Snapshots /\ Full(Collected) \in Nat
  <1>1. Parents(parent) /\ Len(parent) \in Nat BY ReachFacts DEF TypesOk
  <1>2. ASSUME NEW b \in Branches PROVE Reach(ref[b].head) \subseteq Snapshots
    <2>1. ref[b].head \in 1..Len(parent) BY HeadsOk
    <2>2. ref[b].head \in 0..Len(parent) BY <2>1
    <2> QED BY <1>1, <2>2, ReachFacts
  <1>3. Collected \subseteq Snapshots BY <1>2 DEF Collected
  <1>4. IsFiniteSet(Snapshots) BY <1>1, FS_Interval DEF Snapshots
  <1>5. IsFiniteSet(Collected) BY <1>3, <1>4, FS_Subset
  <1> QED BY <1>3, <1>5, BatchesOfASet

LEMMA QuietCollected ==
  ASSUME TypesOk, Quiet
  PROVE  Collected' = Collected
  <1>1. ASSUME NEW b \in Branches PROVE Reach(ref[b].head)' = Reach(ref[b].head)
    <2>1. PICK x : x = ref[b].head OBVIOUS
    <2>2. x \in 1..Len(parent) BY <2>1, HeadsOk
    <2>3. x \in 0..Len(parent) BY <2>2
    <2>4. Reach(x)' = Reach(x) BY <2>3 DEF Quiet, Grown
    <2>5. Reach(ref[b].head)' = Reach(x)' BY <2>1 DEF Reach, Quiet
    <2> QED BY <2>1, <2>4, <2>5
  <1> QED BY <1>1 DEF Collected

\* What the oblivious root covers is read through it.
LEMMA CoveredIsRead ==
  ASSUME TypesOk', StoredOk', Covered', layout'.mode = "oblivious"
  PROVE  AllRead(Epochs)'
  <1>1. PICK r, s, l : r = oblivious' /\ s = segments' /\ l = loose' OBVIOUS
  <1>2. r = Root' /\ r.epoch \in Epochs /\ Apart(r.paths, s) /\ r.paths \subseteq DOMAIN s
    BY <1>1 DEF Root, Covered
  <1>3. \A b : Readable(b, Epochs)' <=> /\ ref'[b].epoch \in Epochs
                                        /\ ReadIn(Reach(ref[b].head)', r, s, l, Epochs)
    BY <1>1, <1>2, ReadThroughNext
  <1>4. \A p \in DOMAIN s : s[p].epoch \in Epochs /\ \A o \in DOMAIN s[p].holds : s[p].holds[o] \in Epochs
    BY <1>1 DEF StoredOk, Parts
  <1>5. Opening(r, s, Epochs) BY <1>2, <1>4 DEF Opening
  <1>7. PICK P : P = r.paths OBVIOUS
  <1>9. Apart(P, s) BY <1>2, <1>7
  <1>8. \A p \in P : \A o \in DOMAIN s[p].holds : EpochIn(P, s, l, o) = s[p].holds[o] BY <1>9, HeldOnce
  <1>6. ASSUME NEW b \in Branches PROVE Readable(b, Epochs)'
    <2>1. ref'[b].epoch \in Epochs BY DEF TypesOk, RefsOk
    <2>2. PICK R : R = Reach(ref[b].head)' OBVIOUS
    <2>3. R \subseteq HeldIn(r.paths, s) BY <1>1, <2>2 DEF Covered, Collected
    <2>4. ASSUME NEW o \in R PROVE o \in HeldIn(r.paths, s) /\ EpochIn(r.paths, s, l, o) \in Epochs
      <3>1. PICK p \in P : o \in DOMAIN s[p].holds BY <1>7, <2>3 DEF HeldIn
      <3>2. EpochIn(P, s, l, o) = s[p].holds[o] BY <1>8, <3>1
      <3> QED BY <1>2, <1>4, <1>7, <2>3, <3>1, <3>2
    <2>5. ReadIn(R, r, s, l, Epochs) BY <1>5, <2>4 DEF ReadIn, Finding
    <2> QED BY <1>3, <2>1, <2>2, <2>5
  <1> QED BY <1>6 DEF AllRead

\* All batches of what is collected cover it.
LEMMA BatchesCover ==
  ASSUME NEW S, IsFiniteSet(S), NEW k, NEW g, NEW P, P = BatchNames(k, g, Full(S)), NEW s,
         \A p \in P : DOMAIN s[p].holds = BatchOf(SetToSeq(S), p[3])
  PROVE  Apart(P, s) /\ HeldIn(P, s) = S
  <1>1. /\ \A i \in Nat : BatchOf(SetToSeq(S), i) \subseteq S
        /\ \A i, j \in Nat : i # j => BatchOf(SetToSeq(S), i) \cap BatchOf(SetToSeq(S), j) = {}
        /\ Full(S) \in Nat
        /\ \A x \in S : \E i \in 0..Full(S) - 1 : x \in BatchOf(SetToSeq(S), i)
    BY BatchesOfASet
  <1>2. \A p \in P : p = <<k, g, p[3]>> /\ p[3] \in Nat
    <2>1. ASSUME NEW p \in P PROVE p = <<k, g, p[3]>> /\ p[3] \in Nat
      <3>1. PICK i \in 0..Full(S) - 1 : p = <<k, g, i>> BY DEF BatchNames
      <3> QED BY <1>1, <3>1
    <2> QED BY <2>1
  <1>3. Apart(P, s)
    <2>1. \A p, q \in P : p # q => p[3] # q[3] BY <1>2
    <2> QED BY <1>1, <1>2, <2>1 DEF Apart
  <1>6. \A p \in P : DOMAIN s[p].holds \subseteq S BY <1>1, <1>2
  <1>4. HeldIn(P, s) \subseteq S BY <1>6 DEF HeldIn
  <1>5. ASSUME NEW x \in S PROVE x \in HeldIn(P, s)
    <2>1. PICK i \in 0..Full(S) - 1 : x \in BatchOf(SetToSeq(S), i) BY <1>1
    <2>2. PICK p : p = <<k, g, i>> OBVIOUS
    <2>3. p \in P /\ p[3] = i BY <2>2 DEF BatchNames
    <2> QED BY <2>1, <2>3 DEF HeldIn
  <1> QED BY <1>3, <1>4, <1>5

LEMMA MoreNames ==
  ASSUME NEW k, NEW g, NEW n \in Nat
  PROVE  /\ BatchNames(k, g, n + 1) = BatchNames(k, g, n) \cup {<<k, g, n>>}
         /\ BatchNames(k, g, 0) = {}
  <1>1. 0..n + 1 - 1 = (0..n - 1) \cup {n} /\ 0..0 - 1 = {} OBVIOUS
  <1> QED BY <1>1 DEF BatchNames

(* Layout changes.                                                         *)
LEMMA PushKeepsBothRead ==
  ASSUME TypesOk, StoredOk, StoredOk', layout.mode = "pack", AllRead(Epochs),
         NEW b, NEW h, NEW S, NEW f, NEW own, NEW ring, PushOf(b, h, S, f, own, ring), own.mode = "pack"
  PROVE  AllRead(Epochs)'
  <1>1. Root.paths \subseteq DOMAIN segments BY RootIsKnown
  <1>2. \A o \in Reach(h)' : (o \in S => f[o] \in Epochs) /\ (o \notin S => EpochOf(o) \in Epochs)
    <2>1. \A o \in Stored : EpochOf(o) \in Epochs BY <1>1, StoredIsKnown
    <2> QED BY <2>1 DEF PushOf
  <1>3. PICK keys : keys = Epochs OBVIOUS
  <1>4. AllRead(keys)' <=> AllRead(Epochs)' BY <1>3
  <1> QED BY <1>2, <1>3, <1>4, TwoEpochs, PushesRead

LEMMA CommitIsQuiet ==
  ASSUME TypesOk, AdminCommit
  PROVE  Quiet /\ Root' = Root
  <1>1. Parents(parent) /\ Len(parent) \in Nat /\ default.head \in 1..Len(parent)
    BY HeadsOk, ReachFacts DEF TypesOk
  <1>2. default.head \in 0..Len(parent) BY <1>1
  <1>3. /\ parent' = Append(parent, default.head)
        /\ UNCHANGED <<ref, loose, segments, index, oblivious, layout>>
    BY DEF AdminCommit, remoteVars
  <1>4. Grown BY <1>1, <1>2, <1>3, ReachGrows DEF Grown
  <1> QED BY <1>3, <1>4 DEF Quiet, SegmentsKept, Root

LEMMA ChangesTurn ==
  ASSUME KeysInv, StoredOk, StoredOk', Orderly, ChangesInv, Others \/ Admin
  PROVE  ChangesInv'
  <1>1. TypesOk /\ Parents(parent) BY DEF KeysInv, TypesOk
  <1>2. work = NoWork /\ used.layouts = 0 BY DEF Others, Admin, Orderly
  <1>3. Packing /\ \A p \in DOMAIN segments : p[1] \notin Kinds BY <1>2 DEF ChangesInv
  <1>4. AllRead(Epochs) /\ ~Pending /\ keyring.keys = Epochs BY DEF ChangesInv
  <1>5. layout.mode = "pack" /\ local.mode = "pack" /\ other.layout.mode = "pack" BY <1>3 DEF Packing
  <1>6. Root.epoch \in Epochs BY <1>4, <1>5, RootIsKnown
  <1>7. work' = work /\ checkpoint' = checkpoint BY DEF Others, Admin
  <1>8. ASSUME NEW b, NEW h, NEW S, NEW f, NEW own, NEW ring, PushOf(b, h, S, f, own, ring),
               own.mode = "pack", ring.keys = Epochs, used' = used, local' = local,
               keyring'.keys = Epochs, other'.layout = other.layout
        PROVE  ChangesInv'
    <2>1. AllRead(Epochs)' BY <1>1, <1>4, <1>5, <1>8, PushKeepsBothRead
    <2>2. layout' = own /\ published' = ring BY <1>8 DEF PushOf, Put
    <2>3. \A p \in DOMAIN segments' : p[1] \notin Kinds
      <3>1. \A p \in DOMAIN segments' : p \in DOMAIN segments \/ p = PushSegment(h)
        BY <1>8, PutIs DEF PushOf, NewSegment
      <3>2. ASSUME NEW p \in DOMAIN segments' PROVE p[1] \notin Kinds
        <4>1. CASE p = PushSegment(h)
          <5>1. p[1] = "push" BY <4>1 DEF PushSegment
          <5> QED BY <5>1 DEF Kinds
        <4> QED BY <1>3, <3>1, <4>1
      <3> QED BY <3>2
    <2>4. ~Pending' BY <1>4, <1>7 DEF Pending
    <2>5. Packing' BY <1>5, <1>8, <2>2 DEF Packing
    <2>6. layout'.mode = "pack" BY <2>5 DEF Packing
    <2>7. published'.keys = Epochs BY <1>8, <2>2
    <2> QED BY <1>2, <1>7, <1>8, <2>1, <2>3, <2>4, <2>5, <2>6, <2>7 DEF ChangesInv
  <1>9. ASSUME Quiet, Root' = Root, segments' = segments, layout' = layout, local' = local,
               other'.layout \in {other.layout, layout}, keyring' = keyring, published' = published, used' = used
        PROVE  ChangesInv'
    <2>1. AllRead(Epochs)' BY <1>1, <1>4, <1>6, <1>9, QuietlyRead
    <2>2. Packing' BY <1>5, <1>9 DEF Packing
    <2>3. ~Pending' BY <1>4, <1>7 DEF Pending
    <2>4. layout'.mode = "pack" BY <2>2 DEF Packing
    <2> QED BY <1>2, <1>3, <1>4, <1>7, <1>9, <2>1, <2>2, <2>3, <2>4 DEF ChangesInv
  <1>10. CASE \E b \in Branches : OtherFetch(b)
    <2>1. PICK b \in Branches : OtherFetch(b) BY <1>10
    <2>2. /\ other'.layout = layout /\ keyring' = keyring /\ local' = local /\ used' = used
          /\ UNCHANGED <<parent, ref, loose, segments, index, oblivious, layout, published>>
      BY <2>1 DEF OtherFetch, remoteVars, device
    <2>3. Quiet /\ Root' = Root
      <3>1. Grown BY <1>1, <2>2, SameParents
      <3> QED BY <2>2, <3>1 DEF Quiet, SegmentsKept, Root
    <2> QED BY <1>9, <2>2, <2>3
  <1>11. CASE OtherPush
    <2>1. PICK b, h, S, f, own, ring : PushOf(b, h, S, f, own, ring) /\ OtherPushIs(b, h, S, f, own, ring)
      BY <1>11, OtherPushes
    <2>2. own.mode = "pack" /\ ring.keys = Epochs
      BY <1>5, <2>1 DEF OtherPushIs, BothKeys, Epochs
    <2>3. used' = used /\ local' = local /\ keyring' = keyring /\ other' = [other EXCEPT !.head = NextHead]
      BY <1>11 DEF OtherPush, device
    <2>4. other'.layout = other.layout BY <1>1, <2>3 DEF TypesOk, OtherOk
    <2> QED BY <1>4, <1>8, <2>1, <2>2, <2>3, <2>4
  <1>12. CASE AdminPush
    <2>1. PICK b, h, S, f, own, ring : PushOf(b, h, S, f, own, ring) /\ AdminPushIs(b, h, S, f, own, ring)
      BY <1>12, AdminPushes
    <2>2. Reconciled.keys = Epochs BY <1>1, <1>4 DEF Reconciled, TypesOk
    <2>3. own.mode = "pack" /\ ring.keys = Epochs BY <1>5, <2>1, <2>2 DEF AdminPushIs
    <2>4. used' = used /\ local' = local /\ keyring' = Reconciled /\ other' = other
      BY <1>12 DEF AdminPush
    <2> QED BY <1>8, <2>1, <2>2, <2>3, <2>4
  <1>13. CASE AdminCommit
    <2>1. /\ keyring' = keyring /\ local' = local /\ used' = used /\ other' = other
          /\ UNCHANGED <<segments, layout, published>>
      BY <1>13 DEF AdminCommit, remoteVars
    <2>2. Quiet /\ Root' = Root BY <1>1, <1>13, CommitIsQuiet
    <2> QED BY <1>9, <2>1, <2>2
  <1> QED BY <1>10, <1>11, <1>12, <1>13 DEF Others, Admin

LEMMA QuietCovered ==
  ASSUME TypesOk, Covered, Quiet, oblivious' = oblivious
  PROVE  Covered'
  <1>1. PICK P, s, t, l : P = oblivious.paths /\ s = segments /\ t = segments' /\ l = loose OBVIOUS
  <1>2. Apart(P, s) /\ P \subseteq DOMAIN s /\ oblivious.epoch \in Epochs /\ Collected \subseteq HeldIn(P, s)
    BY <1>1 DEF Covered
  <1>3. \A p \in P : p \in DOMAIN t /\ t[p] = s[p] BY <1>1, <1>2 DEF Quiet, SegmentsKept
  <1>4. Apart(P, t) /\ HeldIn(P, t) = HeldIn(P, s) BY <1>2, <1>3, SameSegments
  <1>5. Collected' = Collected BY QuietCollected
  <1> QED BY <1>1, <1>2, <1>3, <1>4, <1>5 DEF Covered

LEMMA ChangesGoOn ==
  ASSUME TypesOk, ChangesInv, Quiet, checkpoint' = checkpoint, keyring'.keys = keyring.keys,
         published'.keys = Epochs, AllRead(Epochs)', layout'.mode \in {"pack", "oblivious"}, used'.layouts # 0,
         \A p \in DOMAIN segments' : p \in DOMAIN segments
            \/ (p[1] \in Kinds => Parts(p)' = BatchOf(SetToSeq(Collected), p[3])),
         work' = NoWork \/ Changing'
  PROVE  ChangesInv'
  <1>1. Collected' = Collected BY QuietCollected
  <1>2. ~Pending' BY DEF ChangesInv, Pending
  <1>3. ASSUME NEW p \in DOMAIN segments', p[1] \in Kinds
        PROVE  Parts(p)' = BatchOf(SetToSeq(Collected), p[3])
    <2>1. CASE p \in DOMAIN segments
      <3>1. segments'[p] = segments[p] BY <2>1 DEF Quiet, SegmentsKept
      <3>2. Parts(p)' = Parts(p) BY <3>1 DEF Parts
      <3> QED BY <1>3, <2>1, <3>2 DEF ChangesInv
    <2> QED BY <1>3, <2>1
  <1>4. \A p \in DOMAIN segments' : p[1] \in Kinds => Parts(p)' = BatchOf(SetToSeq(Collected'), p[3])
    BY <1>1, <1>3
  <1> QED BY <1>2, <1>4 DEF ChangesInv

\* A step that changes nothing that is read.
LEMMA ChangesIdle ==
  ASSUME TypesOk, StoredOk, ChangesInv, checkpoint' = checkpoint, keyring'.keys = keyring.keys,
         UNCHANGED <<parent, ref, loose, segments, index, oblivious, layout, published>>, used'.layouts # 0,
         work' = NoWork \/ Changing'
  PROVE  ChangesInv'
  <1>1. Parents(parent) BY DEF TypesOk
  <1>2. Grown BY <1>1, SameParents
  <1>3. Quiet /\ Root' = Root BY <1>2 DEF Quiet, SegmentsKept, Root
  <1>4. Root.epoch \in Epochs BY RootIsKnown DEF ChangesInv
  <1>5. AllRead(Epochs)' BY <1>3, <1>4, QuietlyRead DEF ChangesInv
  <1>6. layout'.mode \in {"pack", "oblivious"} /\ published'.keys = Epochs BY DEF ChangesInv
  <1>7. \A p \in DOMAIN segments' : p \in DOMAIN segments OBVIOUS
  <1> QED BY <1>3, <1>5, <1>6, <1>7, ChangesGoOn

LEMMA NotNoWork ==
  ASSUME work # NoWork, ChangesInv
  PROVE  Changing /\ used.layouts # 0 /\ work.kind \in Kinds /\ work.kind # "rewrite"
  BY DEF ChangesInv, Changing, Kinds

LEMMA ChangesStart ==
  ASSUME KeysInv, StoredOk, ChangesInv, setup.rewrites = 0,
         Resume \/ StartRewrite \/ AlreadyEnabled \/ Interrupt
         \/ \E kind \in {"enable", "reshuffle"} : StartLayout(kind)
  PROVE  ChangesInv'
  <1>1. TypesOk /\ UsedOk BY DEF KeysInv, TypesOk
  <1>2. CASE Resume BY <1>2 DEF Resume, ChangesInv
  <1>3. CASE StartRewrite BY <1>1, <1>3 DEF StartRewrite, UsedOk
  <1>4. CASE AlreadyEnabled
    <2>1. /\ work = NoWork /\ layout.mode = "oblivious"
          /\ UNCHANGED <<parent, ref, loose, segments, index, oblivious, layout, published, keyring, used,
                         work, checkpoint>>
      BY <1>4 DEF AlreadyEnabled, remoteVars
    <2>2. used.layouts # 0 BY <2>1 DEF ChangesInv, Packing
    <2> QED BY <1>1, <2>1, <2>2, ChangesIdle
  <1>5. CASE Interrupt
    <2>1. /\ work # NoWork /\ work' = NoWork /\ used' = [used EXCEPT !.crashes = @ + 1]
          /\ UNCHANGED <<parent, ref, loose, segments, index, oblivious, layout, published, keyring, checkpoint>>
      BY <1>5 DEF Interrupt, remoteVars, device
    <2>2. used'.layouts # 0 BY <1>1, <2>1, NotNoWork DEF UsedOk
    <2> QED BY <1>1, <2>1, <2>2, ChangesIdle
  <1>6. CASE \E kind \in {"enable", "reshuffle"} : StartLayout(kind)
    <2>1. PICK kind \in {"enable", "reshuffle"} : StartLayout(kind) BY <1>6
    <2>2. /\ keyring' = Reconciled /\ used' = [used EXCEPT !.layouts = @ + 1]
          /\ UNCHANGED <<parent, ref, loose, segments, index, oblivious, layout, published, checkpoint>>
      BY <2>1 DEF StartLayout, remoteVars
    <2>3. /\ work'.kind = kind /\ work'.pc = "collect" /\ work'.layout = NextLayout
          /\ work'.next = 0 /\ work'.paths = {}
      BY <2>1 DEF StartLayout, NoWork
    <2>4. Changing' BY <2>3 DEF Changing, Kinds, NextLayout
    <2>5. used'.layouts # 0 BY <1>1, <2>2 DEF UsedOk
    <2>6. keyring'.keys = keyring.keys BY <1>1, <2>2 DEF Reconciled, TypesOk
    <2> QED BY <1>1, <2>2, <2>4, <2>5, <2>6, ChangesIdle
  <1> QED BY <1>2, <1>3, <1>4, <1>5, <1>6

LEMMA ChangesRewriteStep ==
  ASSUME KeysInv, StoredOk, ChangesInv, RewriteStep
  PROVE  ChangesInv'
  <1>1. TypesOk /\ UsedOk BY DEF KeysInv, TypesOk
  <1>2. \A pc : ~At(pc)
    <2>1. CASE work = NoWork BY <2>1, NoWorkFields DEF At
    <2>2. CASE work # NoWork BY <2>2, NotNoWork DEF At
    <2> QED BY <2>1, <2>2
  <1>3. work.kind # "rewrite"
    <2>1. CASE work = NoWork BY <2>1, NoWorkFields
    <2> QED BY <2>1, NotNoWork
  <1>4. PublishKeyring \/ Stop
    BY <1>2 DEF RewriteStep, Hydrate, StartObjects, RewriteObject, RewriteRecords, RetireKeys,
                StoreCheckpoint, StoreBackup, Observe, UploadRewritten, PublishRewrittenLayout,
                Retain, PutRewrittenRoot, PublishDefault, PublishBranch, ClearCheckpoint, FinishRewrite
  <1>5. work.pc = "verify" /\ work # NoWork
    <2>1. work.pc = "verify" BY <1>2, <1>3, <1>4 DEF PublishKeyring, Stop
    <2> QED BY <2>1, NoWorkFields
  <1>6. Changing /\ used.layouts # 0 BY <1>5, NotNoWork
  <1>7. CASE Stop
    <2>1. /\ work' = NoWork
          /\ UNCHANGED <<parent, ref, loose, segments, index, oblivious, layout, published, keyring, used, checkpoint>>
      BY <1>7 DEF Stop, copyVars, remoteVars, device
    <2> QED BY <1>1, <1>6, <2>1, ChangesIdle
  <1>8. CASE PublishKeyring
    <2>1. /\ Proceed("ref") /\ published' = keyring
          /\ UNCHANGED <<parent, ref, loose, segments, index, oblivious, layout, keyring, used, checkpoint>>
      BY <1>8 DEF PublishKeyring, device
    <2>2. work'.pc = "ref" /\ work'.kind = work.kind /\ work'.layout = work.layout
      BY <1>1, <2>1, Proceeds DEF TypesOk
    <2>3. Changing' BY <1>5, <1>6, <2>1, <2>2 DEF Changing
    <2>4. Parents(parent) BY <1>1 DEF TypesOk
    <2>5. Grown BY <2>1, <2>4, SameParents
    <2>6. Quiet /\ Root' = Root BY <2>1, <2>5 DEF Quiet, SegmentsKept, Root
    <2>7. Root.epoch \in Epochs BY RootIsKnown DEF ChangesInv
    <2>8. AllRead(Epochs)' BY <1>1, <2>6, <2>7, QuietlyRead DEF ChangesInv
    <2>9. layout'.mode \in {"pack", "oblivious"} /\ published'.keys = Epochs BY <2>1 DEF ChangesInv
    <2>10. used'.layouts # 0 /\ \A p \in DOMAIN segments' : p \in DOMAIN segments BY <1>6, <2>1
    <2> QED BY <1>1, <2>1, <2>3, <2>6, <2>8, <2>9, <2>10, ChangesGoOn
  <1> QED BY <1>4, <1>7, <1>8

LEMMA ChangesCollect ==
  ASSUME KeysInv, StoredOk, ChangesInv, Changing, used.layouts # 0,
         Collect \/ FinishLayout \/ StopLayout
  PROVE  ChangesInv'
  <1>1. TypesOk /\ Parents(parent) /\ IsWork(work) BY DEF KeysInv, TypesOk
  <1>2. CASE Collect
    <2>1. /\ work' = [work EXCEPT !.pc = "upload", !.ids = SetToSeq(Collected)] /\ work.pc = "collect"
          /\ UNCHANGED <<parent, ref, loose, segments, index, oblivious, layout, published, keyring, used, checkpoint>>
      BY <1>2 DEF Collect, LayoutAt, remoteVars
    <2>2. PICK C : C = SetToSeq(Collected) OBVIOUS
    <2>3. /\ work'.pc = "upload" /\ work'.ids = C /\ work'.kind = work.kind /\ work'.layout = work.layout
          /\ work'.next = 0 /\ work'.paths = {}
      BY <1>1, <2>1, <2>2 DEF IsWork, Changing
    <2>4. Grown BY <1>1, <2>1, SameParents
    <2>5. Quiet BY <2>1, <2>4 DEF Quiet, SegmentsKept
    <2>6. Collected' = Collected BY <1>1, <2>5, QuietCollected
    <2>7. Full(Collected) \in Nat BY <1>1, CollectedIsFinite
    <2>8. 0 \in 0..Full(Collected) BY <2>7
    <2>9. PICK n : n = Full(Collected) OBVIOUS
    <2>10. Full(Collected)' = n BY <2>6, <2>9 DEF Full
    <2>11. BatchNames(work'.kind, work'.layout.generation, 0) = {} BY MoreNames
    <2>12. work'.ids = SetToSeq(Collected') BY <2>2, <2>3, <2>6
    <2>13. Changing'
      BY <2>3, <2>8, <2>9, <2>10, <2>11, <2>12 DEF Changing
    <2> QED BY <1>1, <2>1, <2>13, ChangesIdle
  <1>3. CASE FinishLayout \/ StopLayout
    <2>1. /\ work' = NoWork
          /\ UNCHANGED <<parent, ref, loose, segments, index, oblivious, layout, published, keyring, used, checkpoint>>
      BY <1>3 DEF FinishLayout, StopLayout, copyVars, remoteVars, device
    <2> QED BY <1>1, <2>1, ChangesIdle
  <1> QED BY <1>2, <1>3

LEMMA ChangesUpload ==
  ASSUME KeysInv, StoredOk, ChangesInv, Changing, used.layouts # 0, UploadCollected
  PROVE  ChangesInv'
  <1>1. TypesOk /\ Parents(parent) /\ IsWork(work) BY DEF KeysInv, TypesOk
  <1>2. PICK name : name = <<work.kind, work.layout.generation, work.next>> OBVIOUS
  <1>3. UploadBatch(name) /\ work.pc = "upload" BY <1>2 DEF UploadCollected, LayoutAt
  <1>4. /\ work.next < Batches(work.ids)
        /\ work' = [work EXCEPT !.next = @ + 1, !.paths = @ \cup {name}]
        /\ UNCHANGED <<parent, ref, loose, index, oblivious, layout, published, keyring, used, checkpoint>>
    BY <1>3 DEF UploadBatch, device
  <1>5. \/ segments' = segments /\ name \in DOMAIN segments
        \/ NewSegment(name, BatchOf(work.ids, work.next), copies)
    BY <1>3, UploadIs
  <1>6. /\ work.ids = SetToSeq(Collected) /\ work.next \in 0..Full(Collected)
        /\ work.paths = BatchNames(work.kind, work.layout.generation, work.next)
        /\ work.paths \subseteq DOMAIN segments
    BY <1>3 DEF Changing
  <1>7. Grown BY <1>1, <1>4, SameParents
  <1>8. SegmentsKept /\ name \in DOMAIN segments' /\ \A p \in DOMAIN segments' : p \in DOMAIN segments \/ p = name
    BY <1>5 DEF NewSegment, SegmentsKept
  <1>9. Quiet /\ Root' = Root BY <1>4, <1>7, <1>8 DEF Quiet, Root
  <1>10. Collected' = Collected BY <1>1, <1>9, QuietCollected
  <1>11. PICK n \in Nat : n = work.next BY <1>1 DEF IsWork
  <1>12. /\ work'.pc = work.pc /\ work'.kind = work.kind /\ work'.ids = work.ids /\ work'.layout = work.layout
         /\ work'.next = n + 1 /\ work'.paths = work.paths \cup {name}
    BY <1>1, <1>4, <1>11 DEF IsWork
  <1>13. PICK m : m = Full(Collected) OBVIOUS
  <1>14. m \in Nat /\ m = Batches(work.ids) BY <1>1, <1>6, <1>13, CollectedIsFinite DEF Full
  <1>15. n + 1 \in 0..m BY <1>4, <1>11, <1>14
  <1>16. work'.paths = BatchNames(work'.kind, work'.layout.generation, n + 1)
    BY <1>2, <1>6, <1>11, <1>12, MoreNames
  <1>17. work'.paths \subseteq DOMAIN segments' BY <1>6, <1>8, <1>12 DEF SegmentsKept
  <1>18. Full(Collected)' = m BY <1>10, <1>13 DEF Full
  <1>19. work'.ids = SetToSeq(Collected') BY <1>6, <1>10, <1>12
  <1>20. Changing'
    BY <1>3, <1>12, <1>15, <1>16, <1>17, <1>18, <1>19 DEF Changing
  <1>21. ASSUME NEW p \in DOMAIN segments', p \notin DOMAIN segments
         PROVE  Parts(p)' = BatchOf(SetToSeq(Collected), p[3])
    <2>1. p = name /\ p[3] = work.next BY <1>2, <1>8, <1>21
    <2>2. PICK S : S = BatchOf(work.ids, work.next) OBVIOUS
    <2>3. segments'[p] = [epoch |-> Active, holds |-> Restrict(copies, S)]
      BY <1>5, <1>21, <2>1, <2>2 DEF NewSegment
    <2>4. Parts(p)' = S BY <2>3 DEF Parts, Restrict
    <2> QED BY <1>6, <2>1, <2>2, <2>4
  <1>22. Root.epoch \in Epochs BY RootIsKnown DEF ChangesInv
  <1>23. AllRead(Epochs)' BY <1>1, <1>9, <1>22, QuietlyRead DEF ChangesInv
  <1>24. layout'.mode \in {"pack", "oblivious"} /\ published'.keys = Epochs BY <1>4 DEF ChangesInv
  <1>25. used'.layouts # 0 /\ keyring'.keys = keyring.keys /\ checkpoint' = checkpoint BY <1>4
  <1> QED BY <1>1, <1>9, <1>20, <1>21, <1>23, <1>24, <1>25, ChangesGoOn

LEMMA ChangesPublish ==
  ASSUME KeysInv, StoredOk, TypesOk', StoredOk', ChangesInv, Changing, used.layouts # 0,
         PutOblivious \/ PublishLayout \/ PutLayoutIndex \/ PublishSameRef
  PROVE  ChangesInv'
  <1>1. TypesOk /\ Parents(parent) /\ IsWork(work) BY DEF KeysInv, TypesOk
  <1>2. /\ UNCHANGED <<parent, loose, segments, published, keyring, used, checkpoint>>
        /\ \E pc \in {"layout", "root", "verify", "keep"} : Proceed(pc)
    BY DEF PutOblivious, PublishLayout, PutLayoutIndex, PutRoot, PublishSameRef, device
  <1>3. /\ work'.kind = work.kind /\ work'.layout = work.layout
    BY <1>1, <1>2, Proceeds
  <1>4. \A b \in Branches : ref'[b].epoch = ref[b].epoch /\ ref'[b].head = ref[b].head
    <2>1. CASE PublishSameRef
      <3>1. ref' = [ref EXCEPT ![Main] = [head |-> ref[Main].head, epoch |-> ref[Main].epoch,
                                          version |-> @.version + 1]]
        BY <2>1 DEF PublishSameRef, WriteRef
      <3> QED BY <1>1, <3>1 DEF TypesOk, RefsOk
    <2>2. CASE ref' = ref BY <2>2
    <2> QED BY <2>1, <2>2 DEF PutOblivious, PublishLayout, PutLayoutIndex, PutRoot
  <1>5. Grown BY <1>1, <1>2, SameParents
  <1>6. Quiet BY <1>2, <1>4, <1>5 DEF Quiet, SegmentsKept
  <1>7. Root.epoch \in Epochs BY RootIsKnown DEF ChangesInv
  <1>8. ASSUME Changing', AllRead(Epochs)', layout'.mode \in {"pack", "oblivious"}
        PROVE  ChangesInv'
    <2>1. published'.keys = Epochs /\ \A p \in DOMAIN segments' : p \in DOMAIN segments BY <1>2 DEF ChangesInv
    <2> QED BY <1>1, <1>2, <1>6, <1>8, <2>1, ChangesGoOn
  <1>9. CASE PutOblivious
    <2>1. /\ work.pc = "upload" /\ work.next = Batches(work.ids) /\ layout' = layout /\ index' = index
          /\ Proceed("layout") /\ oblivious' = [epoch |-> Active, paths |-> work.paths]
      BY <1>9 DEF PutOblivious, LayoutAt
    <2>2. PICK P, s : P = work.paths /\ s = segments OBVIOUS
    <2>3. /\ work.ids = SetToSeq(Collected) /\ P \subseteq DOMAIN s
          /\ P = BatchNames(work.kind, work.layout.generation, work.next)
      BY <2>1, <2>2 DEF Changing
    <2>4. IsFiniteSet(Collected) BY <1>1, CollectedIsFinite
    <2>5. work.next = Full(Collected) BY <2>1, <2>3 DEF Full
    <2>6. \A p \in P : DOMAIN s[p].holds = BatchOf(SetToSeq(Collected), p[3])
      <3>1. ASSUME NEW p \in P PROVE p[1] = work.kind
        <4>1. PICK i : p = <<work.kind, work.layout.generation, i>> BY <2>3 DEF BatchNames
        <4> QED BY <4>1
      <3> QED BY <2>2, <2>3, <3>1 DEF ChangesInv, Changing, Parts
    <2>7. PICK k, g : k = work.kind /\ g = work.layout.generation OBVIOUS
    <2>8. P = BatchNames(k, g, Full(Collected)) BY <2>3, <2>5, <2>7
    <2>9. Apart(P, s) /\ HeldIn(P, s) = Collected BY <2>4, <2>6, <2>8, BatchesCover
    <2>10. Collected' = Collected BY <1>1, <1>6, QuietCollected
    <2>11. Covered' BY <1>2, <2>1, <2>2, <2>3, <2>9, <2>10, TwoEpochs DEF Covered
    <2>12. work'.pc = "layout" BY <1>1, <2>1, Proceeds
    <2>13. Changing' BY <1>3, <2>11, <2>12 DEF Changing
    <2>14. layout'.mode \in {"pack", "oblivious"} BY <2>1 DEF ChangesInv
    <2>15. CASE layout.mode = "pack"
      <3>1. Root' = Root BY <2>1, <2>15 DEF Root
      <3>2. AllRead(Epochs)' BY <1>1, <1>6, <1>7, <3>1, QuietlyRead DEF ChangesInv
      <3> QED BY <1>8, <2>13, <2>14, <3>2
    <2>16. CASE layout.mode = "oblivious"
      <3>1. layout'.mode = "oblivious" BY <2>1, <2>16
      <3>2. AllRead(Epochs)' BY <2>11, <3>1, CoveredIsRead
      <3> QED BY <1>8, <2>13, <2>14, <3>2
    <2> QED BY <2>1, <2>14, <2>15, <2>16
  <1>10. CASE PublishLayout
    <2>1. work.pc = "layout" /\ layout' = work.layout /\ oblivious' = oblivious /\ Proceed("root")
      BY <1>10 DEF PublishLayout, LayoutAt
    <2>2. Covered /\ layout'.mode = "oblivious" BY <2>1 DEF Changing
    <2>3. Covered' BY <1>1, <1>6, <2>1, <2>2, QuietCovered
    <2>4. AllRead(Epochs)' BY <2>2, <2>3, CoveredIsRead
    <2>5. work'.pc = "root" BY <1>1, <2>1, Proceeds
    <2>6. Changing' BY <1>3, <2>2, <2>5 DEF Changing
    <2> QED BY <1>8, <2>2, <2>4, <2>6
  <1>11. CASE PutLayoutIndex \/ PublishSameRef
    <2>1. /\ work.pc \in {"root", "ref"} /\ layout' = layout /\ oblivious' = oblivious
          /\ \E pc \in {"verify", "keep"} : Proceed(pc)
      BY <1>11 DEF PutLayoutIndex, PutRoot, PublishSameRef, LayoutAt
    <2>2. layout.mode = "oblivious" BY <2>1 DEF Changing
    <2>3. Root' = Root BY <2>1, <2>2 DEF Root
    <2>4. AllRead(Epochs)' BY <1>1, <1>6, <1>7, <2>3, QuietlyRead DEF ChangesInv
    <2>5. work'.pc \in {"verify", "keep"} BY <1>1, <2>1, Proceeds
    <2>6. Changing' BY <1>3, <2>1, <2>2, <2>5 DEF Changing
    <2> QED BY <1>8, <2>1, <2>2, <2>4, <2>6
  <1> QED BY <1>9, <1>10, <1>11

LEMMA ChangesLayoutStep ==
  ASSUME KeysInv, StoredOk, TypesOk', StoredOk', ChangesInv, LayoutStep
  PROVE  ChangesInv'
  <1>1. work # NoWork
    <2>1. \E pc \in {"collect", "upload", "layout", "root", "ref", "keep"} : LayoutAt(pc)
      BY DEF LayoutStep, Collect, UploadCollected, PutOblivious, PublishLayout, PutLayoutIndex,
             PublishSameRef, FinishLayout, StopLayout
    <2> QED BY <2>1, NoWorkFields DEF LayoutAt
  <1>2. Changing /\ used.layouts # 0 BY <1>1, NotNoWork
  <1> QED BY <1>2, ChangesCollect, ChangesUpload, ChangesPublish DEF LayoutStep

LEMMA ReadAtFirst ==
  ASSUME LayoutsInit
  PROVE  AllRead(Epochs)
  <1>1. /\ parent = History /\ index = [epoch |-> Old, paths |-> {FirstSegment}] /\ layout = FirstLayout
        /\ loose = [o \in DOMAIN History \ PackedAtFirst |-> Old]
        /\ segments = [p \in {FirstSegment} |-> [epoch |-> Old, holds |-> [o \in PackedAtFirst |-> Old]]]
    BY DEF LayoutsInit, CopiesInit
  <1>2. KeysInv /\ StoredOk BY KeysAtFirst, StoredAtFirst
  <1>3. PICK r, s, l, n : r = index /\ s = segments /\ l = loose /\ n = FirstSegment OBVIOUS
  <1>4. r = Root /\ r.epoch = Old /\ r.paths = {n} BY <1>1, <1>3 DEF Root, FirstLayout
  <1>5. DOMAIN s = {n} /\ s[n].epoch = Old /\ DOMAIN s[n].holds = PackedAtFirst
        /\ \A o \in PackedAtFirst : s[n].holds[o] = Old
    BY <1>1, <1>3
  <1>6. PICK P : P = {n} OBVIOUS
  <1>7. Apart(P, s) BY <1>6 DEF Apart
  <1>8. \A p \in P : \A o \in DOMAIN s[p].holds : EpochIn(P, s, l, o) = s[p].holds[o] BY <1>7, HeldOnce
  <1>9. HeldIn(P, s) = PackedAtFirst BY <1>5, <1>6 DEF HeldIn
  <1>10. DOMAIN History = Snapshots BY <1>1, CopiesAssumption, LenProperties DEF Snapshots
  <1>11. ASSUME NEW o \in Snapshots PROVE o \in HeldIn(P, s) \cup DOMAIN l /\ EpochIn(P, s, l, o) \in Epochs
    <2>1. CASE o \in PackedAtFirst BY <1>5, <1>6, <1>8, <1>9, <2>1, TwoEpochs
    <2>2. CASE o \notin PackedAtFirst
      <3>1. o \in DOMAIN l /\ l[o] = Old BY <1>1, <1>3, <1>10, <2>2
      <3>2. EpochIn(P, s, l, o) = l[o] BY <1>9, <2>2 DEF EpochIn
      <3> QED BY <3>1, <3>2, TwoEpochs
    <2> QED BY <2>1, <2>2
  <1>12. Opening(r, s, Epochs) BY <1>4, <1>5, <1>6, <1>7, TwoEpochs DEF Opening
  <1>13. \A b : Readable(b, Epochs) <=> /\ ref[b].epoch \in Epochs
                                        /\ ReadIn(Reach(ref[b].head), r, s, l, Epochs)
    BY <1>3, <1>4, ReadThrough, TwoEpochs
  <1>14. ASSUME NEW b \in Branches PROVE Readable(b, Epochs)
    <2>1. ref[b].epoch \in Epochs /\ ref[b].head \in 1..Len(parent) BY <1>2, HeadsOk DEF KeysInv
    <2>2. Parents(parent) /\ Len(parent) \in Nat BY <1>2, ReachFacts DEF KeysInv, TypesOk
    <2>3. Reach(ref[b].head) \subseteq Snapshots
      <3>1. ref[b].head \in 0..Len(parent) BY <2>1
      <3> QED BY <2>2, <3>1, ReachFacts
    <2>4. ReadIn(Reach(ref[b].head), r, s, l, Epochs)
      BY <1>4, <1>6, <1>11, <1>12, <2>3 DEF ReadIn, Finding
    <2> QED BY <1>13, <2>1, <2>4
  <1> QED BY <1>14 DEF AllRead

LEMMA NothingYet ==
  ASSUME LayoutsInit
  PROVE  /\ ~Pending /\ keyring.keys = Epochs /\ published.keys = Epochs /\ Packing /\ work = NoWork
         /\ used.layouts = 0 /\ used.rewrites = 0 /\ layout.mode = "pack"
         /\ DOMAIN segments = {FirstSegment} /\ index.paths = {FirstSegment}
         /\ segments[FirstSegment].epoch = Old /\ Parts(FirstSegment) = PackedAtFirst
  <1>1. /\ keyring = BothKeys /\ published = BothKeys /\ checkpoint = [primary |-> {}, backup |-> {}]
        /\ layout = FirstLayout /\ local = FirstLayout /\ work = NoWork
        /\ other = [branch |-> Main, head |-> Heads[Main], layout |-> FirstLayout]
        /\ used = [crashes |-> 0, rewrites |-> 0, layouts |-> 0]
    BY DEF LayoutsInit, CopiesInit, RewriteInit
  <1>2. /\ index = [epoch |-> Old, paths |-> {FirstSegment}]
        /\ segments = [p \in {FirstSegment} |-> [epoch |-> Old, holds |-> [o \in PackedAtFirst |-> Old]]]
    BY DEF LayoutsInit, CopiesInit
  <1>3. /\ DOMAIN segments = {FirstSegment} /\ index.paths = {FirstSegment}
        /\ segments[FirstSegment].epoch = Old /\ Parts(FirstSegment) = PackedAtFirst
    BY <1>2 DEF Parts
  <1>4. Packing /\ layout.mode = "pack" BY <1>1 DEF Packing, FirstLayout
  <1>5. ~Pending /\ keyring.keys = Epochs /\ published.keys = Epochs BY <1>1 DEF Pending, BothKeys, Epochs
  <1> QED BY <1>1, <1>3, <1>4, <1>5

LEMMA ChangesAtFirst == LayoutsInit => ChangesInv
  <1> SUFFICES ASSUME LayoutsInit PROVE ChangesInv OBVIOUS
  <1>1. FirstSegment[1] = "first" BY DEF FirstSegment
  <1>2. \A p \in DOMAIN segments : p[1] \notin Kinds BY <1>1, NothingYet DEF Kinds
  <1> QED BY <1>2, NothingYet, ReadAtFirst DEF ChangesInv

LEMMA ChangesStep ==
  ASSUME KeysInv, StoredOk, KeysInv', StoredOk', Orderly, setup.rewrites = 0, ChangesInv, LayoutsNext
  PROVE  ChangesInv'
  <1>1. TypesOk' BY DEF KeysInv
  <1> QED BY <1>1, ChangesTurn, ChangesStart, ChangesRewriteStep, ChangesLayoutStep DEF LayoutsNext, Step

(* A rewrite: before its checkpoint.                                       *)

\* A push adds to what the branches reach.
LEMMA PushCollects ==
  ASSUME TypesOk, NEW b, NEW h, NEW S, NEW f, NEW own, NEW ring, PushOf(b, h, S, f, own, ring)
  PROVE  Collected \subseteq Collected' /\ Reach(h)' \subseteq Collected'
  <1>1. /\ b \in Branches
        /\ ref' = [ref EXCEPT ![b] = [head |-> h, epoch |-> Active, version |-> @.version + 1]]
    BY DEF PushOf, Put
  <1>2. \A c \in Branches : ref'[c].head = (IF c = b THEN h ELSE ref[c].head) BY <1>1 DEF TypesOk, RefsOk
  <1>3. ASSUME NEW c \in Branches PROVE Reach(ref[c].head) \subseteq Reach(ref[c].head)'
    <2>1. PICK x : x = ref[c].head OBVIOUS
    <2>2. x \in 1..Len(parent) BY <2>1, HeadsOk
    <2>3. x \in 0..Len(parent) BY <2>2
    <2>4. Reach(x)' = Reach(x) BY <2>3 DEF PushOf, Grown
    <2>5. CASE c = b
      <3>1. Reach(ref[c].head)' = Reach(h)' BY <1>2, <2>5 DEF Reach
      <3> QED BY <2>5, <3>1 DEF PushOf
    <2>6. CASE c # b
      <3>1. Reach(ref[c].head)' = Reach(x)' BY <1>2, <2>1, <2>6 DEF Reach
      <3> QED BY <2>1, <2>4, <3>1
    <2> QED BY <2>5, <2>6
  <1>4. Reach(ref[b].head)' = Reach(h)' BY <1>1, <1>2 DEF Reach
  <1> QED BY <1>1, <1>3, <1>4 DEF Collected

LEMMA EarlierPush ==
  ASSUME TypesOk, StoredOk, StoredOk', Packing, Earlier, work = NoWork, work' = work, used' = used,
         checkpoint' = checkpoint,
         NEW b, NEW h, NEW S, NEW f, NEW own, NEW ring, PushOf(b, h, S, f, own, ring),
         own.mode = "pack", ring.keys = Epochs
  PROVE  Earlier'
  <1>1. layout.mode = "pack" /\ AllRead(Epochs) BY DEF Packing, Earlier
  <1>2. AllRead(Epochs)' BY <1>1, PushKeepsBothRead
  <1>3. published' = ring BY DEF PushOf, Put
  <1>4. ~Pending' BY DEF Earlier, Pending
  <1>5. index.paths \subseteq DOMAIN segments BY <1>1, RootIsKnown DEF Root
  <1>6. PICK n : n = PushSegment(h) OBVIOUS
  <1>7. n[1] = "push" BY <1>6 DEF PushSegment
  <1>8. /\ SegmentsKept /\ \A p \in DOMAIN segments' : p \in DOMAIN segments \/ p = n
        /\ index'.paths = index.paths
           \/ (index'.paths = index.paths \cup {n} /\ NewSegment(n, S, f))
    BY <1>6, PutIs DEF PushOf, NewSegment, SegmentsKept
  <1>9. \A p \in DOMAIN segments : Parts(p)' = Parts(p) BY <1>8 DEF Parts, SegmentsKept
  <1>10. Collected \subseteq Collected' /\ Reach(h)' \subseteq Collected' BY PushCollects
  <1>11. ASSUME NEW p \in index'.paths PROVE Parts(p)' \subseteq Collected'
    <2>1. CASE p \in index.paths BY <1>5, <1>9, <1>10, <2>1 DEF Earlier
    <2>2. CASE p = n /\ NewSegment(n, S, f)
      <3>1. Parts(p)' = S BY <2>2 DEF NewSegment, Parts, Restrict
      <3> QED BY <1>10, <3>1 DEF PushOf
    <2> QED BY <1>8, <1>11, <2>1, <2>2
  <1>12. FirstSegment \in index'.paths /\ segments'[FirstSegment].epoch = Old
    BY <1>5, <1>8 DEF Earlier, SegmentsKept
  <1>13. \A p \in DOMAIN segments' : p[1] # "rewrite" BY <1>7, <1>8 DEF Earlier
  <1>14. used'.rewrites = 0 /\ published'.keys = Epochs BY <1>3 DEF Earlier
  <1> QED BY <1>2, <1>4, <1>11, <1>12, <1>13, <1>14 DEF Earlier

LEMMA EarlierIdle ==
  ASSUME TypesOk, StoredOk, Packing, Earlier, Quiet,
         UNCHANGED <<segments, index, layout, published, checkpoint>>,
         used'.rewrites = used.rewrites, work' # NoWork => Preparing'
  PROVE  Earlier'
  <1>1. layout.mode = "pack" /\ AllRead(Epochs) BY DEF Packing, Earlier
  <1>2. Root' = Root /\ Root.epoch \in Epochs BY <1>1, RootIsKnown DEF Root
  <1>3. AllRead(Epochs)' BY <1>1, <1>2, QuietlyRead
  <1>4. ~Pending' BY DEF Earlier, Pending
  <1>5. Collected' = Collected BY QuietCollected
  <1>6. \A p : Parts(p)' = Parts(p) BY DEF Parts
  <1> QED BY <1>3, <1>4, <1>5, <1>6 DEF Earlier

LEMMA NothingMoves ==
  ASSUME TypesOk, UNCHANGED <<parent, ref, loose, segments>>
  PROVE  Quiet
  <1>1. Parents(parent) BY DEF TypesOk
  <1>2. Grown BY <1>1, SameParents
  <1> QED BY <1>2 DEF Quiet, SegmentsKept

\* While the old segment is there, a push of the admin device needs both keys.
LEMMA OldIsNeeded ==
  ASSUME TypesOk, Packing, Earlier, NEW b, NEW keys, keys \in {Epochs, {Active}}, Readable(b, keys)
  PROVE  keys = Epochs
  <1>1. Root = index BY DEF Root, Packing
  <1>2. Old \in keys BY <1>1 DEF Readable, IndexOpens, Earlier
  <1> QED BY <1>2, TwoEpochs

LEMMA EarlierTurn ==
  ASSUME KeysInv, StoredOk, StoredOk', Orderly, Packing, Earlier, Others \/ Admin
  PROVE  Earlier'
  <1>1. TypesOk BY DEF KeysInv
  <1>2. work = NoWork /\ work' = work /\ checkpoint' = checkpoint BY DEF Others, Admin, Orderly
  <1>3. layout.mode = "pack" /\ local.mode = "pack" /\ other.layout.mode = "pack" BY DEF Packing
  <1>4. CASE \E b \in Branches : OtherFetch(b)
    <2>1. UNCHANGED <<parent, ref, loose, segments, index, layout, published, used>>
      BY <1>4 DEF OtherFetch, remoteVars
    <2>2. Quiet BY <1>1, <2>1, NothingMoves
    <2> QED BY <1>1, <1>2, <2>1, <2>2, EarlierIdle
  <1>5. CASE OtherPush
    <2>1. PICK b, h, S, f, own, ring : PushOf(b, h, S, f, own, ring) /\ OtherPushIs(b, h, S, f, own, ring)
      BY <1>5, OtherPushes
    <2>2. own.mode = "pack" /\ ring.keys = Epochs BY <1>3, <2>1 DEF OtherPushIs, BothKeys, Epochs
    <2>3. used' = used BY <1>5 DEF OtherPush
    <2> QED BY <1>1, <1>2, <2>1, <2>2, <2>3, EarlierPush
  <1>6. CASE AdminPush
    <2>1. PICK b, h, S, f, own, ring : PushOf(b, h, S, f, own, ring) /\ AdminPushIs(b, h, S, f, own, ring)
      BY <1>6, AdminPushes
    <2>2. own.mode = "pack" /\ ring = Reconciled /\ used' = used
      BY <1>3, <1>6, <2>1 DEF AdminPushIs, AdminPush
    <2>3. ring.keys = keyring.keys BY <1>1, <2>2 DEF Reconciled, TypesOk
    <2>4. Readable(b, ring.keys) BY <2>1 DEF PushOf, Put
    <2>5. ring.keys \in {Epochs, {Active}} BY <1>1, <2>3 DEF TypesOk
    <2>6. ring.keys = Epochs BY <1>1, <2>4, <2>5, OldIsNeeded
    <2> QED BY <1>1, <1>2, <2>1, <2>2, <2>6, EarlierPush
  <1>7. CASE AdminCommit
    <2>1. UNCHANGED <<segments, index, layout, published, used>> BY <1>7 DEF AdminCommit, remoteVars
    <2>2. Quiet BY <1>1, <1>7, CommitIsQuiet
    <2> QED BY <1>1, <1>2, <2>1, <2>2, EarlierIdle
  <1> QED BY <1>4, <1>5, <1>6, <1>7 DEF Others, Admin

LEMMA EarlierStart ==
  ASSUME KeysInv, StoredOk, Packing, Earlier, StartRewrite \/ Interrupt \/ Stop
  PROVE  Earlier'
  <1>1. TypesOk /\ UsedOk BY DEF KeysInv, TypesOk
  <1>2. UNCHANGED <<parent, ref, loose, segments, index, layout, published, checkpoint>>
    BY DEF StartRewrite, Interrupt, Stop, copyVars, remoteVars
  <1>3. Quiet BY <1>1, <1>2, NothingMoves
  <1>4. used'.rewrites = used.rewrites
    <2>1. used' = used \/ used' = [used EXCEPT !.crashes = @ + 1]
      BY DEF StartRewrite, Interrupt, Stop, copyVars
    <2> QED BY <1>1, <2>1 DEF UsedOk
  <1>5. work' # NoWork => Preparing'
    <2>1. CASE StartRewrite
      <3>1. PICK ids : ids = << >> OBVIOUS
      <3>2. PICK w : w = work' OBVIOUS
      <3>3. w = Begun("hydrate", ids) BY <2>1, <3>1, <3>2 DEF StartRewrite
      <3>4. w.kind = "rewrite" /\ w.pc = "hydrate" /\ w.todo = SetToSeq(Branches) BY <3>3, BegunFields
      <3>5. \A b \in Branches : \E i \in DOMAIN w.todo : w.todo[i] = b
        BY <3>4, CopiesAssumption, InAnyOrder
      <3> QED BY <3>2, <3>4, <3>5 DEF Preparing
    <2> QED BY <2>1 DEF Interrupt, Stop
  <1> QED BY <1>1, <1>2, <1>3, <1>4, <1>5, EarlierIdle

LEMMA EarlierHydrate ==
  ASSUME KeysInv, StoredOk, Packing, Earlier, Preparing, Hydrate \/ StartObjects
  PROVE  Earlier'
  <1>1. TypesOk /\ Parents(parent) /\ IsWork(work) BY DEF KeysInv, TypesOk
  <1>2. UNCHANGED <<parent, ref, loose, segments, index, layout, published, checkpoint, used>>
    BY DEF Hydrate, StartObjects, copyVars, remoteVars
  <1>3. Quiet BY <1>1, <1>2, NothingMoves
  <1>4. At("hydrate") BY DEF Hydrate, StartObjects
  <1>5. work.kind = "rewrite" /\ work.pc = "hydrate"
        /\ \A b \in Branches : mirror[b].head = ref[b].head \/ \E i \in DOMAIN work.todo : work.todo[i] = b
    BY <1>4 DEF At, Preparing
  <1>6. CASE Hydrate
    <2>1. PICK d : d = Head(work.todo) OBVIOUS
    <2>2. /\ work.todo # << >> /\ work' = [work EXCEPT !.todo = Tail(@)]
          /\ mirror' = [mirror EXCEPT ![d] = [head |-> ref[d].head, epoch |-> Active]]
      BY <1>6, <2>1 DEF Hydrate
    <2>3. work.todo \in Seq(Branches) BY <1>4 DEF KeysInv, RewritingOk, ToBring
    <2>4. work'.pc = "hydrate" /\ work'.kind = "rewrite" /\ work'.todo = Tail(work.todo)
      BY <1>1, <1>5, <2>2 DEF IsWork
    <2>5. PICK t, u : t = work.todo /\ u = work'.todo OBVIOUS
    <2>6. d \in Branches /\ \A x : (\E i \in DOMAIN t : t[i] = x) => x = d \/ \E i \in DOMAIN u : u[i] = x
      <3>1. t \in Seq(Branches) /\ t # << >> /\ d = Head(t) /\ u = Tail(t) BY <2>1, <2>2, <2>3, <2>4, <2>5
      <3>2. /\ Head(t) \in Branches
            /\ \A x : (\E i \in DOMAIN t : t[i] = x) => x = Head(t) \/ \E i \in DOMAIN Tail(t) : Tail(t)[i] = x
        BY <3>1, WorkedOff
      <3> QED BY <3>1, <3>2
    <2>7. ASSUME NEW b \in Branches
          PROVE  mirror'[b].head = ref[b].head \/ \E i \in DOMAIN u : u[i] = b
      <3>1. CASE b = d BY <1>1, <2>2, <3>1 DEF TypesOk
      <3>2. CASE b # d
        <4>1. mirror'[b] = mirror[b] BY <1>1, <2>2, <3>2 DEF TypesOk
        <4> QED BY <1>5, <2>5, <2>6, <3>2, <4>1
      <3> QED BY <3>1, <3>2
    <2>8. Preparing' BY <1>2, <2>4, <2>5, <2>7 DEF Preparing
    <2> QED BY <1>1, <1>2, <1>3, <2>8, EarlierIdle
  <1>7. CASE StartObjects
    <2>1. PICK s, t : s = SetToSeq(LocalReach) /\ t = work.todo OBVIOUS
    <2>2. /\ t = << >> /\ work' = [work EXCEPT !.pc = "objects", !.todo = s, !.ids = s]
          /\ default' = default /\ mirror' = mirror
      BY <1>7, <2>1 DEF StartObjects, Rewritten, copyVars, device
    <2>3. work'.pc = "objects" /\ work'.kind = "rewrite" /\ work'.ids = s BY <1>1, <1>5, <2>2 DEF IsWork
    <2>4. LocalReach' = LocalReach BY <1>1, <1>3, <2>2, LocalStays DEF Quiet
    <2>5. \A b \in Branches : mirror'[b].head = ref'[b].head BY <1>2, <1>5, <2>1, <2>2
    <2>6. work'.ids = SetToSeq(LocalReach') BY <2>1, <2>3, <2>4
    <2>7. Preparing' BY <2>3, <2>5, <2>6 DEF Preparing
    <2> QED BY <1>1, <1>2, <1>3, <2>7, EarlierIdle
  <1> QED BY <1>6, <1>7

LEMMA EarlierRewrite ==
  ASSUME KeysInv, StoredOk, Packing, Earlier, Preparing, RewriteObject \/ RewriteRecords \/ RetireKeys
  PROVE  Earlier'
  <1>1. TypesOk /\ Parents(parent) /\ IsWork(work) BY DEF KeysInv, TypesOk
  <1>2. UNCHANGED <<parent, ref, loose, segments, index, layout, published, checkpoint, used>>
    BY DEF RewriteObject, RewriteRecords, RetireKeys, remoteVars
  <1>3. Quiet BY <1>1, <1>2, NothingMoves
  <1>4. At("objects") \/ At("retire") BY DEF RewriteObject, RewriteRecords, RetireKeys
  <1>5. /\ work.kind = "rewrite" /\ work.pc # "hydrate" /\ work.ids = SetToSeq(LocalReach)
        /\ \A b \in Branches : mirror[b].head = ref[b].head
    BY <1>4 DEF At, Preparing
  <1>6. default'.head = default.head /\ \A b \in Branches : mirror'[b].head = mirror[b].head
    <2>1. CASE RewriteRecords
      <3>1. /\ default' = [default EXCEPT !.epoch = Active]
            /\ mirror' = [b \in Branches |-> IF mirror[b] = NoBranch THEN NoBranch
                                            ELSE [mirror[b] EXCEPT !.epoch = Active]]
        BY <2>1 DEF RewriteRecords
      <3>2. default'.head = default.head BY <1>1, <3>1 DEF TypesOk, Records
      <3>3. ASSUME NEW b \in Branches PROVE mirror'[b].head = mirror[b].head
        <4>1. CASE mirror[b] = NoBranch BY <3>1, <4>1
        <4>2. CASE mirror[b] # NoBranch
          <5>1. mirror[b] \in Records BY <1>1, <4>2 DEF TypesOk
          <5> QED BY <3>1, <4>2, <5>1 DEF Records
        <4> QED BY <4>1, <4>2
      <3> QED BY <3>2, <3>3
    <2>2. CASE RewriteObject \/ RetireKeys BY <2>2 DEF RewriteObject, RetireKeys
    <2> QED BY <2>1, <2>2
  <1>7. LocalReach' = LocalReach
    <2>1. LocalHeads' = LocalHeads BY <1>6 DEF LocalHeads
    <2>2. \A h : Reach(h)' = Reach(h) BY <1>1, <1>2, SameParents
    <2> QED BY <2>1, <2>2 DEF LocalReach
  <1>8. /\ work'.kind = "rewrite" /\ work'.ids = work.ids
        /\ \/ work'.pc \in {"objects", "retire"}
           \/ work'.pc = "store" /\ keyring'.keys = {Active}
    <2>1. CASE RewriteObject
      <3>1. work' = [work EXCEPT !.todo = Tail(@)] /\ work.pc = "objects" BY <2>1 DEF RewriteObject, At
      <3> QED BY <1>1, <1>5, <3>1 DEF IsWork
    <2>2. CASE RewriteRecords
      <3>1. Proceed("retire") BY <2>2 DEF RewriteRecords
      <3> QED BY <1>1, <1>5, <3>1, Proceeds
    <2>3. CASE RetireKeys
      <3>1. Proceed("store") /\ keyring'.keys = {Active} BY <2>3 DEF RetireKeys
      <3> QED BY <1>1, <1>5, <3>1, Proceeds
    <2> QED BY <2>1, <2>2, <2>3
  <1>9. /\ \A b \in Branches : mirror'[b].head = ref'[b].head
        /\ work'.ids = SetToSeq(LocalReach')
    BY <1>2, <1>5, <1>6, <1>7, <1>8
  <1>10. Preparing' BY <1>8, <1>9 DEF Preparing
  <1> QED BY <1>1, <1>2, <1>3, <1>10, EarlierIdle

\* What every branch reaches is here when the checkpoint is stored.
LEMMA CheckpointIsStored ==
  ASSUME KeysInv, StoredOk, Packing, Earlier, Preparing, StoreCheckpoint, FirstInv
  PROVE  Underway'
  <1>1. TypesOk /\ Parents(parent) /\ IsWork(work) /\ UsedOk BY DEF KeysInv, TypesOk
  <1>2. /\ UNCHANGED <<parent, ref, loose, segments, index, layout, published, keyring, mirror, default>>
        /\ checkpoint' = [checkpoint EXCEPT !.primary = Range(work.ids)]
        /\ used' = [used EXCEPT !.rewrites = @ + 1] /\ Proceed("backup")
        /\ work.pc = "store" /\ work.kind = "rewrite"
    BY DEF StoreCheckpoint, remoteVars, device, At
  <1>3. /\ keyring.keys = {Active} /\ work.ids = SetToSeq(LocalReach)
        /\ \A b \in Branches : mirror[b].head = ref[b].head
    BY <1>2 DEF Preparing
  <1>4. IsFiniteSet(LocalReach) /\ default.head \in LocalReach BY <1>1, LocalReachIsFinite
  <1>5. Range(work.ids) = LocalReach /\ LocalReach # {} BY <1>3, <1>4, InAnyOrder
  <1>6. Quiet BY <1>1, <1>2, NothingMoves
  <1>7. LocalReach' = LocalReach BY <1>1, <1>2, <1>6, LocalStays DEF Quiet
  <1>8. checkpoint'.primary = LocalReach /\ checkpoint'.backup = {}
    <2>1. checkpoint.backup = {} BY DEF Earlier, Pending
    <2> QED BY <1>2, <1>5, <2>1 DEF FirstInv, IdsAreHere
  <1>9. Pending' /\ checkpoint'.primary \in {{}, LocalReach'} /\ checkpoint'.backup \in {{}, LocalReach'}
    BY <1>5, <1>7, <1>8 DEF Pending
  <1>10. used'.rewrites = 1 BY <1>1, <1>2 DEF UsedOk, Earlier
  <1>11. \A b \in Branches : mirror'[b] # NoBranch
    <2>1. ASSUME NEW b \in Branches PROVE mirror[b] # NoBranch
      <3>1. ref[b].head \in 1..Len(parent) /\ Len(parent) \in Nat BY <1>1, HeadsOk, ReachFacts
      <3>2. mirror[b].head # 0 BY <1>3, <3>1
      <3> QED BY <3>2 DEF NoBranch
    <2> QED BY <1>2, <2>1
  <1>12. Root = index BY DEF Root, Packing
  <1>13. index.paths \subseteq DOMAIN segments /\ Apart(index.paths, segments)
    <2>1. IndexOpens(Epochs) BY CopiesAssumption DEF Earlier, AllRead, Readable
    <2> QED BY <1>12, <2>1 DEF IndexOpens, Apart
  <1>14. Collected \subseteq LocalReach BY <1>3 DEF Collected, LocalReach, LocalHeads
  <1>15. \A p : Parts(p)' = Parts(p) BY <1>2 DEF Parts
  <1>16. \A p \in index'.paths : Parts(p)' \subseteq LocalReach' BY <1>2, <1>7, <1>14, <1>15 DEF Earlier
  <1>17. PiecesOk' BY <1>2 DEF PiecesOk, Earlier
  <1>18. Publishing'
    <2>1. work'.kind = "rewrite" /\ work'.pc = "backup" /\ work'.ids = work.ids BY <1>1, <1>2, Proceeds
    <2>2. work'.ids = SetToSeq(LocalReach') BY <1>3, <1>7, <2>1
    <2> QED BY <2>1, <2>2 DEF Publishing
  <1>19. /\ index'.paths \subseteq DOMAIN segments' /\ Apart(index'.paths, segments') /\ keyring'.keys = {Active}
    BY <1>2, <1>3, <1>13
  <1> QED BY <1>9, <1>10, <1>11, <1>16, <1>17, <1>18, <1>19 DEF Underway

LEMMA EarlierStep ==
  ASSUME KeysInv, FirstInv, StoredOk, Packing, Earlier, RewriteStep
  PROVE  Earlier' \/ Underway'
  <1>1. work # NoWork
    <2>1. work.pc # "idle" \/ Stop
      BY DEF RewriteStep, Hydrate, StartObjects, RewriteObject, RewriteRecords, RetireKeys,
             StoreCheckpoint, StoreBackup, Observe, UploadRewritten, PublishRewrittenLayout,
             Retain, PutRewrittenRoot, PublishKeyring, PublishDefault, PublishBranch, ClearCheckpoint,
             FinishRewrite, At
    <2>2. work.pc # "idle" BY <2>1 DEF Stop, At
    <2> QED BY <2>2, NoWorkFields
  <1>2. Preparing BY <1>1 DEF Earlier
  <1>3. work.pc \in {"hydrate", "objects", "retire", "store"} BY <1>2 DEF Preparing
  <1>4. \/ Hydrate \/ StartObjects \/ RewriteObject \/ RewriteRecords \/ RetireKeys
        \/ StoreCheckpoint \/ Stop
    BY <1>3 DEF RewriteStep, StoreBackup, Observe, UploadRewritten, PublishRewrittenLayout,
                Retain, PutRewrittenRoot, PublishKeyring, PublishDefault, PublishBranch, ClearCheckpoint,
                FinishRewrite, At
  <1> QED BY <1>2, <1>4, EarlierStart, EarlierHydrate, EarlierRewrite, CheckpointIsStored

(* A rewrite: until its checkpoint is removed.                             *)

LEMMA SamePlaces ==
  ASSUME UNCHANGED <<segments, index>>, LocalReach' = LocalReach
  PROVE  /\ Placed' = Placed /\ Pieces' = Pieces /\ PiecesOk' = PiecesOk
         /\ \A p : Parts(p)' = Parts(p) /\ NotRewritten(p)' = NotRewritten(p)
  <1>1. \A p : Parts(p)' = Parts(p) BY DEF Parts
  <1>2. \A p : NotRewritten(p)' = NotRewritten(p) BY <1>1 DEF NotRewritten
  <1>3. Pieces' = Pieces BY DEF Pieces, Full
  <1>4. Placed' = Placed BY <1>3 DEF Placed
  <1>5. PiecesOk' = PiecesOk BY <1>1 DEF PiecesOk
  <1> QED BY <1>1, <1>2, <1>3, <1>4, <1>5

LEMMA UnderwayIdle ==
  ASSUME Underway, UNCHANGED <<segments, index, mirror>>, LocalReach' = LocalReach,
         keyring'.keys = keyring.keys, used'.rewrites = used.rewrites, Pending',
         checkpoint'.primary \in {{}, LocalReach}, checkpoint'.backup \in {{}, LocalReach},
         work' # NoWork => Publishing'
  PROVE  Underway'
  <1>1. PiecesOk' /\ \A p : Parts(p)' = Parts(p) /\ NotRewritten(p)' = NotRewritten(p)
    BY SamePlaces DEF Underway
  <1> QED BY <1>1 DEF Underway

LEMMA DeviceStays ==
  ASSUME TypesOk, UNCHANGED <<parent, default, mirror>>
  PROVE  LocalReach' = LocalReach /\ LocalHeads' = LocalHeads /\ Grown
  <1>1. Parents(parent) BY DEF TypesOk
  <1>2. Grown BY <1>1, SameParents
  <1> QED BY <1>2, LocalStays

LEMMA AllLocal ==
  ASSUME KeysInv, Underway
  PROVE  /\ AllActive /\ IsFiniteSet(LocalReach) /\ default.head \in LocalReach
         /\ Full(LocalReach) \in Nat /\ Range(SetToSeq(LocalReach)) = LocalReach
  <1>1. TypesOk /\ AllActive BY DEF KeysInv, RewritingOk, Underway
  <1> QED BY <1>1, LocalReachIsFinite, BatchesOfASet, InAnyOrder

LEMMA UnderwayStart ==
  ASSUME KeysInv, Underway, FirstInv, Resume \/ Interrupt \/ Stop
  PROVE  Underway'
  <1>1. TypesOk /\ UsedOk /\ IsWork(work) BY DEF KeysInv, TypesOk
  <1>2. UNCHANGED <<parent, default, mirror, segments, index>>
    BY DEF Resume, Interrupt, Stop, copyVars, remoteVars, device
  <1>3. LocalReach' = LocalReach BY <1>1, <1>2, DeviceStays
  <1>4. CASE Resume
    <2>1. PICK ids : ids = IF checkpoint.primary # {} THEN checkpoint.primary ELSE checkpoint.backup OBVIOUS
    <2>2. /\ work' = Begun("observe", SetToSeq(ids)) /\ keyring' = Reconciled /\ used' = used
          /\ checkpoint' = [primary |-> ids, backup |-> ids]
      BY <1>4, <2>1 DEF Resume
    <2>3. ids = LocalReach BY <2>1 DEF Underway, Pending
    <2>4. PICK q : q = SetToSeq(ids) OBVIOUS
    <2>5. work'.kind = "rewrite" /\ work'.pc = "observe" /\ work'.ids = q
      <3>1. PICK w : w = work' OBVIOUS
      <3>2. w = Begun("observe", q) BY <2>2, <2>4, <3>1
      <3> QED BY <3>1, <3>2, BegunFields
    <2>6. work'.ids = SetToSeq(LocalReach') BY <1>3, <2>3, <2>4, <2>5
    <2>7. checkpoint'.primary = LocalReach /\ checkpoint'.backup = LocalReach BY <2>2, <2>3
    <2>8. Publishing' BY <1>3, <2>5, <2>6, <2>7 DEF Publishing
    <2>9. keyring'.keys = keyring.keys BY <1>1, <2>2 DEF Reconciled, TypesOk
    <2>10. Pending' BY <2>7, AllLocal DEF Pending
    <2> QED BY <1>2, <1>3, <2>2, <2>7, <2>8, <2>9, <2>10, UnderwayIdle
  <1>5. CASE Interrupt \/ Stop
    <2>1. work' = NoWork /\ checkpoint' = checkpoint /\ keyring' = keyring
      BY <1>5 DEF Interrupt, Stop, copyVars, device
    <2>2. used'.rewrites = used.rewrites
      <3>1. used' = used \/ used' = [used EXCEPT !.crashes = @ + 1]
        BY <1>5 DEF Interrupt, Stop, copyVars
      <3> QED BY <1>1, <3>1 DEF UsedOk
    <2>3. Pending' BY <2>1 DEF Underway, Pending
    <2>4. checkpoint'.primary \in {{}, LocalReach} /\ checkpoint'.backup \in {{}, LocalReach}
      BY <2>1 DEF Underway
    <2> QED BY <1>2, <1>3, <2>1, <2>2, <2>3, <2>4, UnderwayIdle
  <1> QED BY <1>4, <1>5

LEMMA UnderwayObserve ==
  ASSUME KeysInv, FirstInv, Underway, Publishing, StoreBackup \/ Observe
  PROVE  Underway'
  <1>1. TypesOk /\ UsedOk /\ IsWork(work) BY DEF KeysInv, TypesOk
  <1>2. UNCHANGED <<parent, ref, default, mirror, segments, index, keyring, used>>
    BY DEF StoreBackup, Observe, copyVars, remoteVars, device
  <1>3. LocalReach' = LocalReach BY <1>1, <1>2, DeviceStays
  <1>4. work.ids = SetToSeq(LocalReach) /\ work.kind = "rewrite" BY DEF Publishing
  <1>5. Range(work.ids) = LocalReach /\ LocalReach # {} BY <1>4, AllLocal
  <1>6. CASE StoreBackup
    <2>1. checkpoint' = [checkpoint EXCEPT !.backup = LocalReach] /\ Proceed("observe")
      BY <1>5, <1>6 DEF StoreBackup
    <2>2. checkpoint'.backup = LocalReach /\ checkpoint'.primary = checkpoint.primary
      BY <2>1 DEF FirstInv, IdsAreHere
    <2>3. work'.pc = "observe" /\ work'.kind = "rewrite" /\ work'.ids = work.ids BY <1>1, <1>4, <2>1, Proceeds
    <2>4. work'.ids = SetToSeq(LocalReach') BY <1>3, <1>4, <2>3
    <2>5. Publishing' BY <1>3, <2>2, <2>3, <2>4 DEF Publishing
    <2>6. Pending' /\ checkpoint'.primary \in {{}, LocalReach} BY <1>5, <2>2 DEF Pending, Underway
    <2> QED BY <1>2, <1>3, <2>2, <2>5, <2>6, UnderwayIdle
  <1>7. CASE Observe
    <2>1. /\ work.pc = "observe" /\ checkpoint' = checkpoint
          /\ work' = [work EXCEPT !.pc = "upload", !.next = 0, !.paths = {}, !.version = ref[Main].version,
                                  !.listed = ref]
      BY <1>7 DEF Observe, At
    <2>2. /\ work'.pc = "upload" /\ work'.next = 0 /\ work'.paths = {} /\ work'.listed = ref
          /\ work'.kind = "rewrite" /\ work'.ids = work.ids
      BY <1>1, <1>4, <2>1 DEF IsWork
    <2>3. work'.ids = SetToSeq(LocalReach') BY <1>3, <1>4, <2>2
    <2>4. PICK m : m = Full(LocalReach) OBVIOUS
    <2>5. m \in Nat /\ Full(LocalReach)' = m BY <1>3, <2>4, AllLocal DEF Full
    <2>6. BatchNames("rewrite", 0, 0) = {} BY MoreNames
    <2>7. checkpoint'.backup = LocalReach' BY <1>3, <2>1 DEF Publishing
    <2>8. /\ work'.next \in 0..Full(LocalReach)' /\ work'.paths = BatchNames("rewrite", 0, work'.next)
          /\ work'.paths \subseteq DOMAIN segments' /\ work'.listed = ref'
      BY <1>2, <2>2, <2>5, <2>6
    <2>9. Publishing' BY <2>2, <2>3, <2>7, <2>8 DEF Publishing
    <2>10. Pending' /\ checkpoint'.primary \in {{}, LocalReach} /\ checkpoint'.backup \in {{}, LocalReach}
      BY <2>1 DEF Pending, Underway
    <2> QED BY <1>2, <1>3, <2>9, <2>10, UnderwayIdle
  <1> QED BY <1>6, <1>7

\* An upload leaves what the index names.
LEMMA KeptPlaces ==
  ASSUME Underway, SegmentsKept, index' = index, LocalReach' = LocalReach
  PROVE  /\ index'.paths \subseteq DOMAIN segments' /\ Apart(index'.paths, segments')
         /\ \A p \in index'.paths : Parts(p)' \subseteq LocalReach' \/ NotRewritten(p)'
  <1>1. index.paths \subseteq DOMAIN segments /\ Apart(index.paths, segments) BY DEF Underway
  <1>2. \A p \in index.paths : p \in DOMAIN segments' /\ segments'[p] = segments[p]
    BY <1>1 DEF SegmentsKept
  <1>3. Apart(index.paths, segments') BY <1>1, <1>2 DEF Apart
  <1>4. ASSUME NEW p \in index.paths PROVE Parts(p)' \subseteq LocalReach' \/ NotRewritten(p)'
    <2>1. Parts(p)' = Parts(p) /\ segments'[p] = segments[p] BY <1>2 DEF Parts
    <2> QED BY <2>1 DEF Underway, NotRewritten
  <1> QED BY <1>2, <1>3, <1>4

LEMMA UnderwayUpload ==
  ASSUME KeysInv, FirstInv, Underway, Publishing, UploadRewritten
  PROVE  Underway'
  <1>1. TypesOk /\ UsedOk /\ IsWork(work) BY DEF KeysInv, TypesOk
  <1>2. PICK name : name = <<"rewrite", 0, work.next>> OBVIOUS
  <1>3. UploadBatch(name) /\ work.pc = "upload" BY <1>2 DEF UploadRewritten, At
  <1>4. /\ UNCHANGED <<parent, ref, index, default, mirror, keyring, used, checkpoint>>
        /\ work.next < Batches(work.ids)
        /\ work' = [work EXCEPT !.next = @ + 1, !.paths = @ \cup {name}]
    BY <1>3 DEF UploadBatch, device
  <1>5. /\ work.ids = SetToSeq(LocalReach) /\ work.kind = "rewrite" /\ work.listed = ref
        /\ work.next \in 0..Full(LocalReach) /\ work.paths \subseteq DOMAIN segments
        /\ work.paths = BatchNames("rewrite", 0, work.next) /\ checkpoint.backup = LocalReach
    BY <1>3 DEF Publishing
  <1>6. PICK S : S = BatchOf(work.ids, work.next) OBVIOUS
  <1>7. \/ segments' = segments /\ name \in DOMAIN segments
        \/ NewSegment(name, S, copies)
    BY <1>3, <1>6, UploadIs
  <1>8. SegmentsKept /\ name \in DOMAIN segments' BY <1>7 DEF NewSegment, SegmentsKept
  <1>9. LocalReach' = LocalReach BY <1>1, <1>4, DeviceStays
  <1>10. AllActive /\ Full(LocalReach) \in Nat BY AllLocal
  <1>11. PICK n, m : n = work.next /\ m = Full(LocalReach) OBVIOUS
  <1>12. n \in Nat /\ m \in Nat /\ n < m BY <1>1, <1>4, <1>5, <1>10, <1>11 DEF Full, IsWork
  <1>13. Full(LocalReach)' = m BY <1>9, <1>11 DEF Full
  <1>14. /\ work'.pc = "upload" /\ work'.kind = "rewrite" /\ work'.ids = work.ids /\ work'.listed = work.listed
         /\ work'.next = n + 1 /\ work'.paths = work.paths \cup {name}
    BY <1>1, <1>3, <1>4, <1>5, <1>11 DEF IsWork
  <1>15. work'.paths = BatchNames("rewrite", 0, work'.next)
    BY <1>2, <1>5, <1>11, <1>12, <1>14, MoreNames
  <1>16. work'.next \in 0..Full(LocalReach)' BY <1>12, <1>13, <1>14
  <1>17. work'.paths \subseteq DOMAIN segments' BY <1>5, <1>8, <1>14 DEF SegmentsKept
  <1>18. work'.ids = SetToSeq(LocalReach') /\ work'.listed = ref' /\ checkpoint'.backup = LocalReach'
    BY <1>4, <1>5, <1>9, <1>14
  <1>19. Publishing' BY <1>14, <1>15, <1>16, <1>17, <1>18 DEF Publishing
  <1>20. \A o \in S : copies[o] = Active BY <1>1, <1>6, <1>10, BatchIsHere DEF AllActive
  <1>21. ASSUME NEW p \in DOMAIN segments', p[1] = "rewrite"
         PROVE  /\ segments'[p].epoch = Active /\ \A o \in Parts(p)' : segments'[p].holds[o] = Active
                /\ Parts(p)' = BatchOf(SetToSeq(LocalReach'), p[3])
    <2>1. CASE p \in DOMAIN segments
      <3>1. segments'[p] = segments[p] /\ Parts(p)' = Parts(p) BY <1>8, <2>1 DEF SegmentsKept, Parts
      <3> QED BY <1>9, <1>21, <2>1, <3>1 DEF Underway, PiecesOk
    <2>2. CASE p \notin DOMAIN segments
      <3>1. p = name /\ p[3] = work.next BY <1>2, <1>7, <2>2 DEF NewSegment
      <3>2. segments'[p] = [epoch |-> Active, holds |-> Restrict(copies, S)]
        BY <1>7, <2>2, <3>1 DEF NewSegment
      <3>3. /\ Parts(p)' = S /\ segments'[p].epoch = Active
            /\ \A o \in S : segments'[p].holds[o] = copies[o]
        BY <3>2 DEF Parts, Restrict
      <3> QED BY <1>5, <1>6, <1>9, <1>20, <3>1, <3>3
    <2> QED BY <2>1, <2>2
  <1>22. PiecesOk' BY <1>21 DEF PiecesOk
  <1>23. /\ index'.paths \subseteq DOMAIN segments' /\ Apart(index'.paths, segments')
         /\ \A p \in index'.paths : Parts(p)' \subseteq LocalReach' \/ NotRewritten(p)'
    BY <1>4, <1>8, <1>9, KeptPlaces
  <1>24. /\ used'.rewrites = 1 /\ Pending' /\ keyring'.keys = {Active}
         /\ checkpoint'.primary \in {{}, LocalReach'} /\ checkpoint'.backup \in {{}, LocalReach'}
         /\ \A b \in Branches : mirror'[b] # NoBranch
    BY <1>4, <1>9 DEF Underway, Pending
  <1> QED BY <1>19, <1>22, <1>23, <1>24 DEF Underway

LEMMA UnderwayRetain ==
  ASSUME KeysInv, Packing, Underway, Publishing, PublishRewrittenLayout \/ Retain
  PROVE  Underway'
  <1>1. TypesOk /\ UsedOk /\ IsWork(work) BY DEF KeysInv, TypesOk
  <1>2. UNCHANGED <<parent, ref, default, mirror, segments, index, keyring, used, checkpoint>>
    BY DEF PublishRewrittenLayout, Retain, copyVars, remoteVars, device
  <1>3. LocalReach' = LocalReach BY <1>1, <1>2, DeviceStays
  <1>4. work.ids = SetToSeq(LocalReach) /\ work.kind = "rewrite" BY DEF Publishing
  <1>5. /\ Pending' /\ checkpoint'.primary \in {{}, LocalReach} /\ checkpoint'.backup \in {{}, LocalReach}
    BY <1>2 DEF Pending, Underway
  <1>6. Pieces' = Pieces /\ \A p : NotRewritten(p)' = NotRewritten(p) BY <1>2, <1>3, SamePlaces
  <1>7. work.pc \in {"upload", "retain"} BY DEF PublishRewrittenLayout, Retain, At
  <1>8. work.listed = ref /\ work.paths \subseteq DOMAIN segments /\ checkpoint.backup = LocalReach
    BY <1>7 DEF Publishing
  <1>9. ASSUME work'.kind = "rewrite", work'.ids = work.ids, work'.listed = work.listed
        PROVE  work'.ids = SetToSeq(LocalReach') /\ work'.listed = ref' /\ checkpoint'.backup = LocalReach'
    BY <1>2, <1>3, <1>4, <1>8, <1>9
  <1>10. CASE PublishRewrittenLayout
    <2>1. Proceed("retain") /\ work.next = Batches(work.ids) /\ work.pc = "upload"
      BY <1>10 DEF PublishRewrittenLayout, At
    <2>2. work.paths = BatchNames("rewrite", 0, work.next) BY <2>1 DEF Publishing
    <2>3. work.paths = Pieces BY <1>4, <2>1, <2>2 DEF Pieces, Full
    <2>4. /\ work'.pc = "retain" /\ work'.kind = "rewrite" /\ work'.ids = work.ids
          /\ work'.listed = work.listed /\ work'.paths = work.paths
      BY <1>1, <1>4, <2>1, Proceeds
    <2>5. work'.paths = Pieces' /\ work'.paths \subseteq DOMAIN segments' BY <1>2, <1>6, <1>8, <2>3, <2>4
    <2>6. Publishing' BY <1>9, <2>4, <2>5 DEF Publishing
    <2> QED BY <1>2, <1>3, <1>5, <2>6, UnderwayIdle
  <1>11. CASE Retain
    <2>1. work.pc = "retain" /\ work' = [work EXCEPT !.pc = "root", !.paths = @ \cup Retained]
      BY <1>11 DEF Retain, At
    <2>2. PICK P : P = work.paths \cup Retained OBVIOUS
    <2>3. /\ work'.pc = "root" /\ work'.kind = "rewrite" /\ work'.ids = work.ids
          /\ work'.listed = work.listed /\ work'.paths = P
      BY <1>1, <1>4, <2>1, <2>2 DEF IsWork
    <2>4. work.paths = Pieces BY <2>1 DEF Publishing
    <2>5. Root = index BY DEF Root, Packing
    <2>6. Range(work.ids) = LocalReach BY <1>4, AllLocal
    <2>7. ASSUME NEW p \in Retained PROVE p \in index.paths /\ NotRewritten(p) /\ p \in DOMAIN segments
      <3>1. p \in index.paths /\ Parts(p) \ LocalReach # {} BY <2>5, <2>6 DEF Retained, Parts
      <3> QED BY <3>1 DEF Underway
    <2>8. /\ Pieces \subseteq P /\ P \subseteq DOMAIN segments
          /\ \A p \in P \ Pieces : p \in index.paths /\ NotRewritten(p)
      BY <1>8, <2>2, <2>4, <2>7
    <2>9. /\ Pieces' \subseteq work'.paths /\ work'.paths \subseteq DOMAIN segments'
          /\ \A p \in work'.paths \ Pieces' : p \in index'.paths /\ NotRewritten(p)'
      BY <1>2, <1>6, <2>3, <2>8
    <2>10. Publishing' BY <1>9, <2>3, <2>9 DEF Publishing
    <2> QED BY <1>2, <1>3, <1>5, <2>10, UnderwayIdle
  <1> QED BY <1>10, <1>11

\* The new index names the pieces and segments of what is not rewritten.
LEMMA UnderwayRoot ==
  ASSUME KeysInv, Underway, Publishing, PutRewrittenRoot
  PROVE  Underway'
  <1>1. TypesOk /\ UsedOk /\ IsWork(work) BY DEF KeysInv, TypesOk
  <1>2. /\ UNCHANGED <<parent, ref, default, mirror, segments, keyring, used, checkpoint>>
        /\ index' = [epoch |-> Active, paths |-> work.paths] /\ Proceed("verify") /\ work.pc = "root"
    BY DEF PutRewrittenRoot, PutRoot, At, device
  <1>3. LocalReach' = LocalReach BY <1>1, <1>2, DeviceStays
  <1>4. PICK P, R, s : P = work.paths /\ R = Pieces /\ s = segments OBVIOUS
  <1>5. /\ work.ids = SetToSeq(LocalReach) /\ work.kind = "rewrite" /\ R \subseteq P /\ P \subseteq DOMAIN s
        /\ \A p \in P \ R : p \in index.paths /\ NotRewritten(p)
        /\ checkpoint.backup = LocalReach
    BY <1>2, <1>4 DEF Publishing
  <1>6. \A p \in R : p[1] = "rewrite"
    <2>1. ASSUME NEW p \in R PROVE p[1] = "rewrite"
      <3>1. PICK i : p = <<"rewrite", 0, i>> BY <1>4 DEF Pieces, BatchNames
      <3> QED BY <3>1
    <2> QED BY <2>1
  <1>7. \A p \in R : s[p].epoch = Active /\ DOMAIN s[p].holds = BatchOf(SetToSeq(LocalReach), p[3])
    BY <1>4, <1>5, <1>6 DEF Underway, PiecesOk, Parts
  <1>8. Apart(R, s) /\ HeldIn(R, s) = LocalReach
    <2>1. IsFiniteSet(LocalReach) /\ R = BatchNames("rewrite", 0, Full(LocalReach)) BY <1>4, AllLocal DEF Pieces
    <2> QED BY <1>7, <2>1, BatchesCover
  <1>9. \A p \in R : DOMAIN s[p].holds \subseteq LocalReach BY <1>8 DEF HeldIn
  <1>10. \A p \in P \ R : s[p].epoch = Active /\ DOMAIN s[p].holds \cap LocalReach = {} /\ p \in index.paths
    BY <1>4, <1>5 DEF NotRewritten, Parts
  <1>11. Apart(index.paths, s) BY <1>4 DEF Underway
  <1>12. Apart(P, s)
    <2>1. ASSUME NEW p \in P, NEW q \in P, p # q PROVE DOMAIN s[p].holds \cap DOMAIN s[q].holds = {}
      <3>1. CASE p \in R /\ q \in R BY <1>8, <2>1, <3>1 DEF Apart
      <3>2. CASE p \notin R /\ q \notin R BY <1>10, <1>11, <2>1, <3>2 DEF Apart
      <3>3. CASE p \in R /\ q \notin R BY <1>9, <1>10, <3>3
      <3>4. CASE p \notin R /\ q \in R BY <1>9, <1>10, <3>4
      <3> QED BY <3>1, <3>2, <3>3, <3>4
    <2> QED BY <2>1 DEF Apart
  <1>13. \A p : Parts(p)' = Parts(p) /\ NotRewritten(p)' = NotRewritten(p)
    <2>1. \A p : Parts(p)' = Parts(p) BY <1>2 DEF Parts
    <2> QED BY <1>2, <1>3, <2>1 DEF NotRewritten
  <1>14. Pieces' = R BY <1>3, <1>4 DEF Pieces, Full
  <1>15. index'.paths = P /\ index'.epoch = Active /\ segments' = s BY <1>2, <1>4
  <1>16. Placed' BY <1>5, <1>7, <1>10, <1>14, <1>15 DEF Placed
  <1>17. \A p \in index'.paths : Parts(p)' \subseteq LocalReach' \/ NotRewritten(p)'
    BY <1>3, <1>4, <1>5, <1>9, <1>13, <1>15 DEF Parts
  <1>18. PiecesOk' BY <1>2, <1>3, <1>13 DEF PiecesOk, Underway
  <1>19. work'.pc = "verify" /\ work'.kind = work.kind /\ work'.ids = work.ids /\ work'.listed = work.listed
    BY <1>1, <1>2, Proceeds
  <1>20. work.listed = ref BY <1>2 DEF Publishing
  <1>21. work'.ids = SetToSeq(LocalReach') /\ work'.listed = ref' /\ checkpoint'.backup = LocalReach'
    BY <1>2, <1>3, <1>5, <1>19, <1>20
  <1>22. Publishing' BY <1>5, <1>16, <1>19, <1>21 DEF Publishing
  <1>23. /\ used'.rewrites = 1 /\ Pending' /\ keyring'.keys = {Active}
         /\ checkpoint'.primary \in {{}, LocalReach'} /\ checkpoint'.backup \in {{}, LocalReach'}
         /\ \A b \in Branches : mirror'[b] # NoBranch
    BY <1>2, <1>3 DEF Underway, Pending
  <1>24. index'.paths \subseteq DOMAIN segments' /\ Apart(index'.paths, segments')
    BY <1>4, <1>5, <1>12, <1>15
  <1> QED BY <1>17, <1>18, <1>22, <1>23, <1>24 DEF Underway

LEMMA UnderwayKeyring ==
  ASSUME KeysInv, FirstInv, Underway, Publishing, PublishKeyring \/ ClearCheckpoint
  PROVE  Underway'
  <1>1. TypesOk /\ UsedOk /\ IsWork(work) BY DEF KeysInv, TypesOk
  <1>2. UNCHANGED <<parent, ref, default, mirror, segments, index, keyring, used>>
    BY DEF PublishKeyring, ClearCheckpoint, copyVars, remoteVars, device
  <1>3. LocalReach' = LocalReach /\ LocalHeads' = LocalHeads BY <1>1, <1>2, DeviceStays
  <1>4. work.ids = SetToSeq(LocalReach) /\ work.kind = "rewrite" BY DEF Publishing
  <1>5. Placed' = Placed BY <1>2, <1>3, SamePlaces
  <1>6. work.pc \in {"verify", "branches"} BY DEF PublishKeyring, ClearCheckpoint, At
  <1>7. Placed /\ checkpoint.backup = LocalReach BY <1>6 DEF Publishing
  <1>8. LocalReach # {} BY AllLocal
  <1>9. CASE PublishKeyring
    <2>1. work.pc = "verify" /\ Proceed("ref") /\ published' = keyring /\ checkpoint' = checkpoint
      BY <1>9 DEF PublishKeyring
    <2>2. work'.pc = "ref" /\ work'.kind = work.kind /\ work'.ids = work.ids /\ work'.listed = work.listed
      BY <1>1, <2>1, Proceeds
    <2>3. published'.keys = {Active} BY <2>1 DEF Underway
    <2>4. work.listed = ref BY <2>1 DEF Publishing
    <2>5. work'.ids = SetToSeq(LocalReach') /\ work'.listed = ref' /\ checkpoint'.backup = LocalReach'
      BY <1>2, <1>3, <1>4, <1>7, <2>1, <2>2, <2>4
    <2>6. Publishing' BY <1>4, <1>5, <1>7, <2>2, <2>3, <2>5 DEF Publishing
    <2>7. /\ Pending' /\ checkpoint'.primary \in {{}, LocalReach} /\ checkpoint'.backup \in {{}, LocalReach}
      BY <2>1 DEF Pending, Underway
    <2> QED BY <1>2, <1>3, <2>6, <2>7, UnderwayIdle
  <1>10. CASE ClearCheckpoint
    <2>1. /\ work.pc = "branches" /\ work.todo = << >> /\ Proceed("clear") /\ published' = published
          /\ checkpoint' = [checkpoint EXCEPT !.primary = {}]
      BY <1>10 DEF ClearCheckpoint, At, copyVars, remoteVars
    <2>2. checkpoint'.primary = {} /\ checkpoint'.backup = checkpoint.backup
      BY <2>1 DEF FirstInv, IdsAreHere
    <2>3. work'.pc = "clear" /\ work'.kind = work.kind /\ work'.ids = work.ids
      BY <1>1, <2>1, Proceeds
    <2>4. PICK t : t = work.todo OBVIOUS
    <2>5. \A b \in Branches : Again(b) \/ \E i \in DOMAIN t : t[i] = b BY <2>1, <2>4 DEF Publishing
    <2>6. t = << >> BY <2>1, <2>4
    <2>7. \A b \in Branches : Again(b) BY <2>5, <2>6
    <2>8. \A b : Again(b)' = Again(b) BY <1>2, <1>3 DEF Again
    <2>9. published'.keys = {Active} BY <2>1 DEF Publishing
    <2>10. work'.ids = SetToSeq(LocalReach') /\ checkpoint'.backup = LocalReach'
      BY <1>3, <1>4, <1>7, <2>2, <2>3
    <2>11. Publishing' BY <1>4, <1>5, <1>7, <2>2, <2>3, <2>7, <2>8, <2>9, <2>10 DEF Publishing
    <2>12. /\ Pending' /\ checkpoint'.primary \in {{}, LocalReach} /\ checkpoint'.backup \in {{}, LocalReach}
      BY <1>7, <1>8, <2>2 DEF Pending
    <2> QED BY <1>2, <1>3, <2>11, <2>12, UnderwayIdle
  <1> QED BY <1>9, <1>10

\* A branch that is listed as it is here is left, the others are written.
LEMMA UnderwayRefs ==
  ASSUME KeysInv, StoredOk, Underway, Publishing, PublishDefault \/ PublishBranch
  PROVE  Underway'
  <1>1. TypesOk /\ UsedOk /\ IsWork(work) BY DEF KeysInv, TypesOk
  <1>2. UNCHANGED <<parent, default, mirror, segments, index, published, keyring, used, checkpoint>>
    BY DEF PublishDefault, PublishBranch, device
  <1>3. LocalReach' = LocalReach /\ LocalHeads' = LocalHeads BY <1>1, <1>2, DeviceStays
  <1>4. work.ids = SetToSeq(LocalReach) /\ work.kind = "rewrite" BY DEF Publishing
  <1>5. Placed' = Placed BY <1>2, <1>3, SamePlaces
  <1>6. work.pc \in {"ref", "branches"} BY DEF PublishDefault, PublishBranch, At
  <1>7. Placed /\ checkpoint.backup = LocalReach /\ published.keys = {Active} BY <1>6 DEF Publishing
  <1>8. AllActive BY AllLocal
  <1>9. /\ Pending' /\ checkpoint'.primary \in {{}, LocalReach} /\ checkpoint'.backup \in {{}, LocalReach}
    BY <1>2 DEF Pending, Underway
  <1>10. default.head \in LocalHeads /\ \A b \in Branches : mirror[b].head \in LocalHeads BY DEF LocalHeads
  <1>11. \A b : ref'[b].epoch = Active /\ ref'[b].head \in LocalHeads => Again(b)' BY <1>3 DEF Again
  <1>12. ASSUME work'.pc = "branches", work'.kind = "rewrite", work'.ids = work.ids,
                \A b \in Branches : \/ Again(b)'
                                    \/ /\ ref'[b] = work'.listed[b]
                                       /\ \E i \in DOMAIN work'.todo : work'.todo[i] = b
         PROVE  Underway'
    <2>1. work'.ids = SetToSeq(LocalReach') /\ checkpoint'.backup = LocalReach'
      BY <1>2, <1>3, <1>4, <1>7, <1>12
    <2>2. Publishing' BY <1>2, <1>5, <1>7, <1>12, <2>1 DEF Publishing
    <2> QED BY <1>2, <1>3, <1>9, <2>2, UnderwayIdle
  <1>13. CASE PublishDefault
    <2>1. PICK s : s = SetToSeq(Branches \ {Main}) OBVIOUS
    <2>2. work.pc = "ref" /\ work' = [work EXCEPT !.pc = "branches", !.todo = s]
      BY <1>13, <2>1 DEF PublishDefault, At
    <2>3. work.listed = ref BY <2>2 DEF Publishing
    <2>4. /\ work'.pc = "branches" /\ work'.kind = "rewrite" /\ work'.ids = work.ids
          /\ work'.listed = ref /\ work'.todo = s
      BY <1>1, <1>4, <2>2, <2>3 DEF IsWork
    <2>5. \/ ref' = ref /\ ref[Main].head = default.head /\ ref[Main].epoch = default.epoch
          \/ ref' = [ref EXCEPT ![Main] = [head |-> default.head, epoch |-> default.epoch, version |-> @.version + 1]]
      BY <1>13, <2>3 DEF PublishDefault, SameRef, WriteRef
    <2>6. ref'[Main].head = default.head /\ ref'[Main].epoch = default.epoch
      BY <1>1, <2>5, CopiesAssumption DEF TypesOk, RefsOk
    <2>7. Again(Main)' BY <1>8, <1>10, <1>11, <2>6 DEF AllActive
    <2>8. IsFiniteSet(Branches \ {Main}) BY CopiesAssumption, FS_Difference
    <2>9. \A b \in Branches \ {Main} : \E i \in DOMAIN s : s[i] = b BY <2>1, <2>8, InAnyOrder
    <2>10. \A b \in Branches \ {Main} : ref'[b] = ref[b] BY <1>1, <2>5 DEF TypesOk, RefsOk
    <2>11. ASSUME NEW b \in Branches
           PROVE  Again(b)' \/ (ref'[b] = work'.listed[b] /\ \E i \in DOMAIN work'.todo : work'.todo[i] = b)
      BY <2>4, <2>7, <2>9, <2>10
    <2> QED BY <1>12, <2>4, <2>11
  <1>14. CASE PublishBranch
    <2>1. PICK d, t : d = Head(work.todo) /\ t = work.todo OBVIOUS
    <2>2. /\ work.pc = "branches" /\ t # << >> /\ work' = [work EXCEPT !.todo = Tail(t)]
          /\ IF Skipped(d) THEN ref' = ref ELSE WriteRef(d, mirror[d].head, mirror[d].epoch)
      BY <1>14, <2>1 DEF PublishBranch, At
    <2>3. t \in Seq(Branches \ {Main}) BY <1>14, <2>1 DEF PublishBranch, StoredOk
    <2>4. PICK u : u = Tail(t) OBVIOUS
    <2>5. /\ work'.pc = "branches" /\ work'.kind = "rewrite" /\ work'.ids = work.ids
          /\ work'.listed = work.listed /\ work'.todo = u
      BY <1>1, <1>4, <2>2, <2>4 DEF IsWork
    <2>6. /\ Head(t) \in Branches \ {Main}
          /\ \A x : (\E i \in DOMAIN t : t[i] = x) => x = Head(t) \/ \E i \in DOMAIN Tail(t) : Tail(t)[i] = x
      BY <2>2, <2>3, WorkedOff
    <2>7. d \in Branches /\ \A x : (\E i \in DOMAIN t : t[i] = x) => x = d \/ \E i \in DOMAIN u : u[i] = x
      BY <2>1, <2>4, <2>6
    <2>8. mirror[d] # NoBranch /\ mirror[d].epoch = Active BY <1>8, <2>7 DEF Underway, AllActive
    <2>9. \A b \in Branches : Again(b) \/ (ref[b] = work.listed[b] /\ \E i \in DOMAIN t : t[i] = b)
      BY <2>1, <2>2 DEF Publishing
    <2>10. \/ ref' = ref /\ (ref[d] = work.listed[d] => ref[d].head = mirror[d].head /\ ref[d].epoch = mirror[d].epoch)
           \/ ref' = [ref EXCEPT ![d] = [head |-> mirror[d].head, epoch |-> mirror[d].epoch, version |-> @.version + 1]]
      BY <2>2, <2>8 DEF Skipped, SameRef, WriteRef
    <2>11. Again(d)'
      <3>1. CASE ref' = ref /\ (ref[d] = work.listed[d] => ref[d].head = mirror[d].head /\ ref[d].epoch = mirror[d].epoch)
        BY <1>10, <1>11, <2>7, <2>8, <2>9, <3>1 DEF Again
      <3>2. CASE ref' = [ref EXCEPT ![d] = [head |-> mirror[d].head, epoch |-> mirror[d].epoch, version |-> @.version + 1]]
        <4>1. ref'[d].head = mirror[d].head /\ ref'[d].epoch = mirror[d].epoch
          BY <1>1, <2>7, <3>2 DEF TypesOk, RefsOk
        <4> QED BY <1>10, <1>11, <2>7, <2>8, <4>1
      <3> QED BY <2>10, <3>1, <3>2
    <2>12. ASSUME NEW b \in Branches, b # d
           PROVE  Again(b)' \/ (ref'[b] = work'.listed[b] /\ \E i \in DOMAIN work'.todo : work'.todo[i] = b)
      <3>1. ref'[b] = ref[b] BY <1>1, <2>10, <2>12 DEF TypesOk, RefsOk
      <3>2. Again(b) => Again(b)' BY <1>11, <3>1 DEF Again
      <3>3. (\E i \in DOMAIN t : t[i] = b) => \E i \in DOMAIN u : u[i] = b BY <2>7, <2>12
      <3> QED BY <2>5, <2>9, <3>1, <3>2, <3>3
    <2>13. \A b \in Branches : \/ Again(b)'
                               \/ ref'[b] = work'.listed[b] /\ \E i \in DOMAIN work'.todo : work'.todo[i] = b
      BY <2>11, <2>12
    <2> QED BY <1>12, <2>5, <2>13
  <1> QED BY <1>13, <1>14

\* What every branch reaches is in the pieces the index names.
LEMMA RewriteFinishes ==
  ASSUME KeysInv, FirstInv, StoredOk, Packing, Underway, Publishing, FinishRewrite
  PROVE  Afterwards'
  <1>1. TypesOk BY DEF KeysInv
  <1>2. /\ work.pc = "clear" /\ work' = NoWork /\ checkpoint' = [checkpoint EXCEPT !.backup = {}]
        /\ UNCHANGED <<parent, ref, loose, segments, index, layout, published, keyring, used>>
    BY DEF FinishRewrite, At, copyVars, remoteVars, device
  <1>3. /\ Placed /\ published.keys = {Active} /\ checkpoint.primary = {} /\ \A b \in Branches : Again(b)
    BY <1>2 DEF Publishing
  <1>4. ~Pending'
    <2>1. checkpoint'.primary = {} /\ checkpoint'.backup = {} BY <1>2, <1>3 DEF FirstInv, IdsAreHere
    <2> QED BY <2>1 DEF Pending
  <1>5. PICK P, R, s, l, r : P = index.paths /\ R = Pieces /\ s = segments /\ l = loose /\ r = index OBVIOUS
  <1>6. R \subseteq P /\ P \subseteq DOMAIN s /\ Apart(P, s) /\ r.paths = P /\ r.epoch = Active
        /\ \A p \in P : s[p].epoch = Active
    BY <1>3, <1>5 DEF Placed, Underway
  <1>7. \A p \in R : p[1] = "rewrite"
    <2>1. ASSUME NEW p \in R PROVE p[1] = "rewrite"
      <3>1. PICK i : p = <<"rewrite", 0, i>> BY <1>5 DEF Pieces, BatchNames
      <3> QED BY <3>1
    <2> QED BY <2>1
  <1>8. \A p \in R : /\ \A o \in DOMAIN s[p].holds : s[p].holds[o] = Active
                     /\ DOMAIN s[p].holds = BatchOf(SetToSeq(LocalReach), p[3])
    BY <1>5, <1>6, <1>7 DEF Underway, PiecesOk, Parts
  <1>9. HeldIn(R, s) = LocalReach
    <2>1. IsFiniteSet(LocalReach) /\ R = BatchNames("rewrite", 0, Full(LocalReach)) BY <1>5, AllLocal DEF Pieces
    <2> QED BY <1>8, <2>1, BatchesCover
  <1>10. \A p \in P : \A o \in DOMAIN s[p].holds : EpochIn(P, s, l, o) = s[p].holds[o] BY <1>6, HeldOnce
  <1>11. ASSUME NEW o \in LocalReach PROVE o \in HeldIn(P, s) /\ EpochIn(P, s, l, o) \in {Active}
    <2>1. PICK p \in R : o \in DOMAIN s[p].holds BY <1>9 DEF HeldIn
    <2>2. p \in P /\ s[p].holds[o] = Active BY <1>6, <1>8, <2>1
    <2>3. EpochIn(P, s, l, o) = Active BY <1>10, <2>1, <2>2
    <2> QED BY <2>1, <2>2, <2>3 DEF HeldIn
  <1>12. Opening(r, s, {Active}) BY <1>6 DEF Opening
  <1>13. r = Root /\ r.epoch \in Epochs BY <1>5, <1>6, TwoEpochs DEF Root, Packing
  <1>14. \A b, ks : Readable(b, ks) <=> /\ ref[b].epoch \in ks
                                        /\ ReadIn(Reach(ref[b].head), r, s, l, ks)
    BY <1>5, <1>13, ReadThrough
  <1>15. ASSUME NEW b \in Branches PROVE Readable(b, {Active})
    <2>1. ref[b].epoch = Active /\ ref[b].head \in LocalHeads BY <1>3 DEF Again
    <2>2. PICK Q : Q = Reach(ref[b].head) OBVIOUS
    <2>3. Q \subseteq LocalReach BY <2>1, <2>2 DEF LocalReach
    <2>4. Finding(Q, P, s, l, {Active}) BY <1>11, <2>3 DEF Finding
    <2>5. ReadIn(Q, r, s, l, {Active}) BY <1>6, <1>12, <2>4 DEF ReadIn
    <2> QED BY <1>14, <2>1, <2>2, <2>5
  <1>16. PICK keys : keys = {Active} OBVIOUS
  <1>17. AllRead(keys) BY <1>15, <1>16 DEF AllRead
  <1>18. Quiet BY <1>1, <1>2, NothingMoves
  <1>19. Root' = Root BY <1>2, <1>5, <1>13 DEF Root, Packing
  <1>20. AllRead(keys)' BY <1>1, <1>5, <1>13, <1>17, <1>18, <1>19, QuietlyRead
  <1>21. AllRead({Active})' BY <1>16, <1>20 DEF AllRead
  <1>22. used'.rewrites = 1 /\ keyring'.keys = {Active} /\ published'.keys = {Active}
    BY <1>2, <1>3 DEF Underway
  <1> QED BY <1>2, <1>4, <1>21, <1>22 DEF Afterwards

LEMMA UnderwayPush ==
  ASSUME TypesOk, StoredOk, Packing, Underway, work' = NoWork, used' = used, checkpoint' = checkpoint,
         UNCHANGED <<default, mirror>>, keyring'.keys = keyring.keys,
         NEW b, NEW h, NEW S, NEW f, NEW own, NEW ring, PushOf(b, h, S, f, own, ring),
         Active \in ring.keys, S \subseteq LocalReach \/ S \cap LocalReach = {}
  PROVE  Underway'
  <1>1. PICK n : n = PushSegment(h) OBVIOUS
  <1>2. n[1] = "push" BY <1>1 DEF PushSegment
  <1>3. /\ SegmentsKept /\ \A p \in DOMAIN segments' : p \in DOMAIN segments \/ p = n
        /\ index'.paths = index.paths
           \/ (index'.paths = index.paths \cup {n} /\ NewSegment(n, S, f))
    BY <1>1, PutIs DEF PushOf, NewSegment, SegmentsKept
  <1>4. LocalReach' = LocalReach BY LocalStays DEF PushOf
  <1>5. Root = index BY DEF Root, Packing
  <1>6. PICK keys : keys = ring.keys OBVIOUS
  <1>7. Opening(index, segments, keys)
    <2>1. index.epoch \in Epochs /\ Readable(b, keys) BY <1>6 DEF StoredOk, PushOf, Put
    <2> QED BY <1>5, <2>1, ReadThrough DEF ReadIn
  <1>8. \A o \in S : o \notin HeldIn(index.paths, segments) \cup DOMAIN loose
    BY <1>5 DEF PushOf, Stored, Packed, HeldIn
  <1>9. Opening(index', segments', keys) BY <1>6, <1>7, <1>8, PushView
  <1>10. \A p \in DOMAIN segments : Parts(p)' = Parts(p) /\ segments'[p] = segments[p]
    BY <1>3 DEF Parts, SegmentsKept
  <1>11. ASSUME NEW p \in index'.paths PROVE Parts(p)' \subseteq LocalReach' \/ NotRewritten(p)'
    <2>1. CASE p \in index.paths
      <3>1. p \in DOMAIN segments BY <2>1 DEF Underway
      <3> QED BY <1>4, <1>10, <2>1, <3>1 DEF Underway, NotRewritten
    <2>2. CASE p = n /\ NewSegment(n, S, f)
      <3>1. Parts(p)' = S /\ segments'[p].epoch = Active BY <2>2 DEF NewSegment, Parts, Restrict
      <3> QED BY <1>4, <3>1 DEF NotRewritten
    <2> QED BY <1>3, <1>11, <2>1, <2>2
  <1>12. PiecesOk'
    <2>1. \A p \in DOMAIN segments' : p[1] = "rewrite" => p \in DOMAIN segments BY <1>2, <1>3
    <2> QED BY <1>4, <1>10, <2>1 DEF PiecesOk, Underway
  <1>13. /\ used'.rewrites = 1 /\ Pending' /\ keyring'.keys = {Active}
         /\ checkpoint'.primary \in {{}, LocalReach'} /\ checkpoint'.backup \in {{}, LocalReach'}
         /\ \A c \in Branches : mirror'[c] # NoBranch
    BY <1>4 DEF Underway, Pending
  <1>14. index'.paths \subseteq DOMAIN segments' /\ Apart(index'.paths, segments') BY <1>9 DEF Opening
  <1> QED BY <1>11, <1>12, <1>13, <1>14 DEF Underway


LEMMA UnderwayTurn ==
  ASSUME KeysInv, StoredOk, Orderly, Packing, Underway, Others \/ Admin
  PROVE  Underway'
  <1>1. TypesOk /\ Parents(parent) /\ Len(parent) \in Nat BY ReachFacts DEF KeysInv, TypesOk
  <1>2. work = NoWork /\ work' = NoWork /\ checkpoint' = checkpoint BY DEF Others, Admin, Orderly
  <1>3. CASE \E b \in Branches : OtherFetch(b)
    <2>1. UNCHANGED <<parent, segments, index, default, mirror, keyring, used>>
      BY <1>3 DEF OtherFetch, remoteVars, device
    <2>2. LocalReach' = LocalReach BY <1>1, <2>1, DeviceStays
    <2>3. /\ Pending' /\ checkpoint'.primary \in {{}, LocalReach} /\ checkpoint'.backup \in {{}, LocalReach}
      BY <1>2 DEF Pending, Underway
    <2> QED BY <1>2, <2>1, <2>2, <2>3, UnderwayIdle
  <1>4. CASE OtherPush
    <2>1. PICK b, h, S, f, own, ring : PushOf(b, h, S, f, own, ring) /\ OtherPushIs(b, h, S, f, own, ring)
      BY <1>4, OtherPushes
    <2>2. Active \in ring.keys BY <2>1 DEF OtherPushIs, BothKeys
    <2>3. UNCHANGED <<default, mirror, keyring, used>> BY <1>4 DEF OtherPush, device
    <2>4. S \cap LocalReach = {}
      <3>1. LocalReach \subseteq 1..Len(parent) BY <1>1, LocalReachIsFinite DEF Snapshots
      <3>2. S = {Len(parent) + 1} BY <2>1 DEF OtherPushIs, NextHead
      <3> QED BY <1>1, <3>1, <3>2
    <2> QED BY <1>1, <1>2, <2>1, <2>2, <2>3, <2>4, UnderwayPush
  <1>5. CASE AdminPush
    <2>1. PICK b, h, S, f, own, ring : PushOf(b, h, S, f, own, ring) /\ AdminPushIs(b, h, S, f, own, ring)
      BY <1>5, AdminPushes
    <2>2. keyring' = Reconciled /\ UNCHANGED <<default, mirror, used>> BY <1>5 DEF AdminPush
    <2>3. Reconciled.keys = keyring.keys BY <1>1 DEF Reconciled, TypesOk
    <2>4. Active \in ring.keys /\ keyring'.keys = keyring.keys BY <2>1, <2>2, <2>3 DEF AdminPushIs, Underway
    <2>5. S \subseteq LocalReach BY <2>1, InLocalReach DEF AdminPushIs
    <2> QED BY <1>1, <1>2, <2>1, <2>2, <2>4, <2>5, UnderwayPush
  <1>6. Pending /\ ~setup.late BY DEF Orderly, Underway
  <1> QED BY <1>3, <1>4, <1>5, <1>6 DEF Others, Admin

LEMMA UnderwayStep ==
  ASSUME KeysInv, FirstInv, StoredOk, Packing, Underway, RewriteStep
  PROVE  Underway' \/ Afterwards'
  <1>1. work # NoWork
    <2>1. work.pc # "idle" \/ Stop
      BY DEF RewriteStep, Hydrate, StartObjects, RewriteObject, RewriteRecords, RetireKeys,
             StoreCheckpoint, StoreBackup, Observe, UploadRewritten, PublishRewrittenLayout,
             Retain, PutRewrittenRoot, PublishKeyring, PublishDefault, PublishBranch, ClearCheckpoint,
             FinishRewrite, At
    <2>2. work.pc # "idle" BY <2>1 DEF Stop, At
    <2> QED BY <2>2, NoWorkFields
  <1>2. Publishing BY <1>1 DEF Underway
  <1>3. work.pc \in {"backup", "observe", "upload", "retain", "root", "verify", "ref", "branches", "clear"}
    BY <1>2 DEF Publishing
  <1>4. \/ StoreBackup \/ Observe \/ UploadRewritten \/ PublishRewrittenLayout \/ Retain \/ PutRewrittenRoot
        \/ PublishKeyring \/ PublishDefault \/ PublishBranch \/ ClearCheckpoint \/ FinishRewrite \/ Stop
    BY <1>3 DEF RewriteStep, Hydrate, StartObjects, RewriteObject, RewriteRecords, RetireKeys, StoreCheckpoint, At
  <1> QED BY <1>2, <1>4, UnderwayStart, UnderwayObserve, UnderwayUpload, UnderwayRetain, UnderwayRoot,
             UnderwayKeyring, UnderwayRefs, RewriteFinishes

(* A rewrite: after it.                                                    *)

\* Of what the default branch reaches, what is stored is under the active epoch:
\* a first snapshot that it reaches is one that a branch reaches on the remote.
LEMMA LocalIsActive ==
  ASSUME KeysInv, FirstInv, StoredOk, AllRead({Active}), Root.paths \subseteq DOMAIN segments,
         NEW o \in Reach(default.head), o \in Stored
  PROVE  EpochOf(o) = Active
  <1>1. EpochOf(o) = Active \/ o \in DOMAIN History
    <2>1. CASE o \in Packed
      <3>1. \E q \in Root.paths : o \in DOMAIN segments[q].holds BY <2>1 DEF Packed
      <3>2. PICK c : c = CHOOSE q \in Root.paths : o \in DOMAIN segments[q].holds OBVIOUS
      <3>3. c \in Root.paths /\ o \in DOMAIN segments[c].holds BY <3>1, <3>2
      <3>4. EpochOf(o) = segments[c].holds[o] BY <2>1, <3>2 DEF EpochOf
      <3>5. Aged(segments[c].holds, DOMAIN History) BY <3>3 DEF FirstInv, RemoteAged
      <3> QED BY <3>3, <3>4, <3>5 DEF Aged
    <2>2. CASE o \notin Packed
      <3>1. o \in DOMAIN loose /\ EpochOf(o) = loose[o] BY <2>2 DEF Stored, EpochOf
      <3> QED BY <3>1 DEF FirstInv, RemoteAged, Aged
    <2> QED BY <2>1, <2>2
  <1>2. ASSUME o \in DOMAIN History PROVE EpochOf(o) = Active
    <2>1. Main \in Branches BY CopiesAssumption
    <2>2. default.head \in HeadsOf(Main) BY DEF HeadsOf
    <2>3. From(Main, default.head) BY <2>1, <2>2 DEF FirstInv, HeadsFrom
    <2>4. o \in Originals BY <1>2, <2>3 DEF From
    <2>5. PICK c \in Branches : o \in Original(c) BY <2>4 DEF Originals
    <2>6. ref[c].head \in HeadsOf(c) BY DEF HeadsOf
    <2>7. From(c, ref[c].head) BY <2>6 DEF FirstInv, HeadsFrom
    <2>8. o \in Reach(ref[c].head) BY <2>5, <2>7 DEF From
    <2>9. Readable(c, {Active}) BY DEF AllRead
    <2> QED BY <2>8, <2>9 DEF Readable
  <1> QED BY <1>1, <1>2

LEMMA AfterwardsIdle ==
  ASSUME TypesOk, StoredOk, Packing, Afterwards, Quiet, index' = index, layout' = layout,
         work' = work, used' = used, checkpoint' = checkpoint, keyring'.keys = keyring.keys,
         published' = published
  PROVE  Afterwards'
  <1>1. Root' = Root /\ Root.epoch \in Epochs BY DEF Root, Packing, StoredOk
  <1>2. PICK keys : keys = {Active} OBVIOUS
  <1>3. AllRead(keys) BY <1>2 DEF Afterwards
  <1>4. AllRead(keys)' BY <1>1, <1>3, QuietlyRead
  <1>5. AllRead({Active})' BY <1>2, <1>4 DEF AllRead
  <1>6. ~Pending' BY DEF Afterwards, Pending
  <1> QED BY <1>5, <1>6 DEF Afterwards

LEMMA AfterwardsPush ==
  ASSUME TypesOk, StoredOk, StoredOk', Packing, Afterwards, work' = work, used' = used, checkpoint' = checkpoint,
         keyring'.keys = keyring.keys,
         NEW b, NEW h, NEW S, NEW f, NEW own, NEW ring, PushOf(b, h, S, f, own, ring), own.mode = "pack",
         ring.keys \in {Epochs, {Active}},
         \A o \in Reach(h)' : (o \in S => f[o] = Active) /\ (o \notin S => EpochOf(o) = Active)
  PROVE  Afterwards'
  <1>1. layout.mode = "pack" BY DEF Packing
  <1>2. PICK keys : keys = {Active} OBVIOUS
  <1>3. AllRead(keys) BY <1>2 DEF Afterwards
  <1>4. \A o \in Reach(h)' : (o \in S => f[o] \in keys) /\ (o \notin S => EpochOf(o) \in keys) BY <1>2
  <1>5. Active \in keys BY <1>2
  <1>6. AllRead(keys)' BY <1>1, <1>3, <1>4, <1>5, PushesRead
  <1>7. AllRead({Active})' BY <1>2, <1>6 DEF AllRead
  <1>8. ~Pending' BY DEF Afterwards, Pending
  <1>9. published'.keys \in {Epochs, {Active}} BY DEF PushOf, Put
  <1> QED BY <1>7, <1>8, <1>9 DEF Afterwards

LEMMA AfterwardsTurn ==
  ASSUME KeysInv, FirstInv, StoredOk, StoredOk', Packing, Afterwards, Others \/ Admin
  PROVE  Afterwards'
  <1>1. TypesOk /\ Parents(parent) /\ Len(parent) \in Nat /\ AllActive
    BY ReachFacts DEF KeysInv, TypesOk, RewritingOk, Afterwards
  <1>2. work' = work /\ checkpoint' = checkpoint BY DEF Others, Admin
  <1>3. Root = index /\ other.layout.mode = "pack" /\ local.mode = "pack" BY DEF Packing, Root
  <1>4. \A b \in Branches : Readable(b, {Active}) BY DEF Afterwards, AllRead
  <1>5. CASE \E b \in Branches : OtherFetch(b)
    <2>1. UNCHANGED <<parent, ref, loose, segments, index, layout, published, keyring, used>>
      BY <1>5 DEF OtherFetch, remoteVars, device
    <2>2. Quiet BY <1>1, <2>1, NothingMoves
    <2> QED BY <1>1, <1>2, <2>1, <2>2, AfterwardsIdle
  <1>6. CASE OtherPush
    <2>1. PICK b, h, S, f, own, ring : PushOf(b, h, S, f, own, ring) /\ OtherPushIs(b, h, S, f, own, ring)
      BY <1>6, OtherPushes
    <2>2. own.mode = "pack" /\ ring.keys = Epochs BY <1>3, <2>1 DEF OtherPushIs, BothKeys, Epochs
    <2>3. UNCHANGED <<keyring, used>> BY <1>6 DEF OtherPush, device
    <2>4. parent' = Append(parent, other.head) /\ other.head = ref[b].head /\ b \in Branches
      BY <1>6, <2>1 DEF OtherPush, OtherPushIs, PushOf
    <2>5. other.head \in 1..Len(parent) BY <1>1, HeadsOk
    <2>6. other.head \in 0..Len(parent) BY <2>5
    <2>7. h = Len(parent) + 1 /\ S = {h} /\ f[h] = Active BY <2>1 DEF OtherPushIs, NextHead
    <2>8. Reach(h)' = {h} \cup Reach(other.head) BY <1>1, <2>4, <2>6, <2>7, ReachGrows
    <2>9. \A o \in Reach(ref[b].head) : EpochOf(o) = Active BY <1>4, <2>4 DEF Readable
    <2>10. \A o \in Reach(h)' : (o \in S => f[o] = Active) /\ (o \notin S => EpochOf(o) = Active)
      BY <2>4, <2>7, <2>8, <2>9
    <2> QED BY <1>1, <1>2, <2>1, <2>2, <2>3, <2>10, AfterwardsPush
  <1>7. CASE AdminPush
    <2>1. PICK b, h, S, f, own, ring : PushOf(b, h, S, f, own, ring) /\ AdminPushIs(b, h, S, f, own, ring)
      BY <1>7, AdminPushes
    <2>2. keyring' = Reconciled /\ used' = used /\ parent' = parent BY <1>7 DEF AdminPush
    <2>3. Reconciled.keys = keyring.keys BY <1>1 DEF Reconciled, TypesOk
    <2>4. own.mode = "pack" /\ ring.keys = {Active} /\ h = default.head /\ S = Reach(default.head) \ Stored /\ f = copies
      BY <1>3, <2>1, <2>3 DEF AdminPushIs, Afterwards
    <2>5. Reach(h)' = Reach(default.head) BY <1>1, <2>2, <2>4, SameParents
    <2>6. Root.paths \subseteq DOMAIN segments BY <1>4, CopiesAssumption DEF Readable, IndexOpens
    <2>7. ASSUME NEW o \in Reach(h)' PROVE (o \in S => f[o] = Active) /\ (o \notin S => EpochOf(o) = Active)
      <3>1. o \in Reach(default.head) BY <2>5
      <3>2. o \in DOMAIN copies BY <1>1, <3>1, InLocalReach DEF TypesOk
      <3>3. f[o] = Active BY <1>1, <2>4, <3>2 DEF AllActive
      <3>4. o \notin S => o \in Stored BY <2>4, <3>1
      <3>5. o \in Stored => EpochOf(o) = Active BY <2>6, <3>1, LocalIsActive DEF Afterwards
      <3> QED BY <3>3, <3>4, <3>5
    <2>8. keyring'.keys = keyring.keys BY <2>2, <2>3
    <2>9. ring.keys \in {Epochs, {Active}} BY <2>4
    <2> QED BY <1>1, <1>2, <2>1, <2>2, <2>4, <2>7, <2>8, <2>9, AfterwardsPush
  <1>8. CASE AdminCommit
    <2>1. UNCHANGED <<index, layout, published, keyring, used>> BY <1>8 DEF AdminCommit, remoteVars
    <2>2. Quiet BY <1>1, <1>8, CommitIsQuiet
    <2> QED BY <1>1, <1>2, <2>1, <2>2, AfterwardsIdle
  <1> QED BY <1>5, <1>6, <1>7, <1>8 DEF Others, Admin

(* A rewrite: altogether.                                                  *)
Rewriting == work = NoWork \/ work.kind = "rewrite"

LEMMA PackingStays ==
  ASSUME TypesOk, Packing, "mode" \in DOMAIN local, used.layouts = 0, setup.layouts = 0, Rewriting, LayoutsNext
  PROVE  /\ Packing' /\ "mode" \in DOMAIN local' /\ used'.layouts = 0
         /\ Others \/ Admin \/ Resume \/ StartRewrite \/ Interrupt \/ RewriteStep
  <1>1. layout.mode = "pack" /\ local.mode = "pack" /\ other.layout.mode = "pack" BY DEF Packing
  <1>2. UsedOk /\ OtherOk BY DEF TypesOk
  <1>3. ~LayoutStep
    <2>1. ASSUME NEW pc, LayoutAt(pc) PROVE FALSE
      <3>1. work.kind \in {"enable", "reshuffle"} BY <2>1 DEF LayoutAt
      <3> QED BY <3>1, NoWorkFields DEF Rewriting
    <2> QED BY <2>1 DEF LayoutStep, Collect, UploadCollected, PutOblivious, PublishLayout, PutLayoutIndex,
                        PublishSameRef, FinishLayout, StopLayout
  <1>4. ~AlreadyEnabled BY <1>1 DEF AlreadyEnabled
  <1>5. \A kind : ~StartLayout(kind) BY DEF StartLayout
  <1>6. Others \/ Admin \/ Resume \/ StartRewrite \/ Interrupt \/ RewriteStep
    BY <1>3, <1>4, <1>5 DEF LayoutsNext, Step
  <1>7. used'.layouts = 0
    <2>1. \/ used' = used \/ used' = [used EXCEPT !.crashes = @ + 1] \/ used' = [used EXCEPT !.rewrites = @ + 1]
      BY <1>6 DEF Others, OtherFetch, OtherPush, Admin, AdminCommit, AdminPush, Resume, StartRewrite, Interrupt,
                  RewriteStep, Hydrate, StartObjects, RewriteObject, RewriteRecords, RetireKeys,
                  StoreCheckpoint, StoreBackup, Observe, UploadRewritten, UploadBatch, PublishRewrittenLayout,
                  Retain, PutRewrittenRoot, PutRoot, PublishKeyring, PublishDefault, PublishBranch,
                  ClearCheckpoint, FinishRewrite, Stop, copyVars
    <2> QED BY <1>2, <2>1 DEF UsedOk
  <1>8. local'.mode = "pack" /\ "mode" \in DOMAIN local'
    <2>1. local' = local \/ local' = [local EXCEPT !.generation = @ + 1]
      BY <1>6 DEF Others, OtherFetch, OtherPush, Admin, AdminCommit, AdminPush, Resume, StartRewrite, Interrupt,
                  RewriteStep, Hydrate, StartObjects, RewriteObject, RewriteRecords, RetireKeys,
                  StoreCheckpoint, StoreBackup, Observe, UploadRewritten, UploadBatch, PublishRewrittenLayout,
                  Retain, PutRewrittenRoot, PutRoot, PublishKeyring, PublishDefault, PublishBranch,
                  ClearCheckpoint, FinishRewrite, Stop, copyVars, device
    <2>2. PICK g : g = local.generation + 1 OBVIOUS
    <2>3. local' = local \/ local' = [local EXCEPT !.generation = g] BY <2>1, <2>2
    <2> QED BY <1>1, <2>3
  <1>9. layout' \in {layout, local, other.layout}
    BY <1>6 DEF Others, OtherFetch, OtherPush, Admin, AdminCommit, AdminPush, Put, Resume, StartRewrite, Interrupt,
                RewriteStep, Hydrate, StartObjects, RewriteObject, RewriteRecords, RetireKeys,
                StoreCheckpoint, StoreBackup, Observe, UploadRewritten, UploadBatch, PublishRewrittenLayout,
                Retain, PutRewrittenRoot, PutRoot, PublishKeyring, PublishDefault, PublishBranch,
                ClearCheckpoint, FinishRewrite, Stop, copyVars, remoteVars
  <1>10. other'.layout \in {other.layout, layout}
    <2>1. \/ other' = other \/ other' = [other EXCEPT !.head = NextHead]
          \/ \E b \in Branches : other' = [branch |-> b, head |-> ref[b].head, layout |-> layout]
      BY <1>6 DEF Others, OtherFetch, OtherPush, Admin, AdminCommit, AdminPush, Resume, StartRewrite, Interrupt,
                  RewriteStep, Hydrate, StartObjects, RewriteObject, RewriteRecords, RetireKeys,
                  StoreCheckpoint, StoreBackup, Observe, UploadRewritten, UploadBatch, PublishRewrittenLayout,
                  Retain, PutRewrittenRoot, PutRoot, PublishKeyring, PublishDefault, PublishBranch,
                  ClearCheckpoint, FinishRewrite, Stop, copyVars
    <2> QED BY <1>2, <2>1 DEF OtherOk
  <1> QED BY <1>1, <1>6, <1>7, <1>8, <1>9, <1>10 DEF Packing

LEMMA RewritesStep ==
  ASSUME KeysInv, FirstInv, StoredOk, StoredOk', Orderly, setup.rewrites # 0, RewritesInv, LayoutsNext
  PROVE  RewritesInv'
  <1>1. TypesOk /\ UsedOk BY DEF KeysInv, TypesOk
  <1>2. setup.rewrites = 1 /\ setup.layouts = 0 BY DEF Orderly
  <1>3. Packing /\ used.layouts = 0 /\ "mode" \in DOMAIN local BY DEF RewritesInv
  <1>4. Rewriting BY DEF Rewriting, RewritesInv, Earlier, Preparing, Underway, Publishing, Afterwards
  <1>5. /\ Packing' /\ "mode" \in DOMAIN local' /\ used'.layouts = 0
        /\ Others \/ Admin \/ Resume \/ StartRewrite \/ Interrupt \/ RewriteStep
    BY <1>1, <1>2, <1>3, <1>4, PackingStays
  <1>6. CASE Earlier
    <2>1. ~Resume BY <1>6 DEF Resume, Earlier
    <2>2. Earlier' \/ Underway' BY <1>3, <1>5, <1>6, <2>1, EarlierTurn, EarlierStart, EarlierStep
    <2> QED BY <1>5, <2>2 DEF RewritesInv
  <1>7. CASE Underway
    <2>1. ~StartRewrite BY <1>7 DEF StartRewrite, Underway
    <2>2. Underway' \/ Afterwards' BY <1>3, <1>5, <1>7, <2>1, UnderwayTurn, UnderwayStart, UnderwayStep
    <2> QED BY <1>5, <2>2 DEF RewritesInv
  <1>8. CASE Afterwards
    <2>1. ~StartRewrite /\ ~Resume /\ ~Interrupt
      BY <1>1, <1>2, <1>8 DEF StartRewrite, Resume, Interrupt, Afterwards, UsedOk
    <2>2. ~RewriteStep
      <3>1. work.pc = "idle" /\ work.kind = "none" BY <1>8, NoWorkFields DEF Afterwards
      <3> QED BY <3>1
          DEF RewriteStep, Hydrate, StartObjects, RewriteObject, RewriteRecords, RetireKeys,
              StoreCheckpoint, StoreBackup, Observe, UploadRewritten, PublishRewrittenLayout,
              Retain, PutRewrittenRoot, PublishKeyring, PublishDefault, PublishBranch, ClearCheckpoint,
              FinishRewrite, Stop, At
    <2>3. Afterwards' BY <1>3, <1>5, <1>8, <2>1, <2>2, AfterwardsTurn
    <2> QED BY <1>5, <2>3 DEF RewritesInv
  <1> QED BY <1>6, <1>7, <1>8 DEF RewritesInv

LEMMA RewritesAtFirst ==
  ASSUME LayoutsInit, NoGarbage
  PROVE  RewritesInv
  <1>1. parent = History /\ (\A b \in Branches : ref[b].head = Heads[b]) /\ local = FirstLayout
    BY DEF LayoutsInit, CopiesInit
  <1>2. Originals = Collected
    <2>1. \A b \in Branches : Original(b) = Reach(ref[b].head) BY <1>1, ReachIs DEF Original
    <2> QED BY <2>1 DEF Originals, Collected
  <1>3. \A p \in index.paths : Parts(p) \subseteq Collected BY <1>2, NothingYet DEF NoGarbage
  <1>4. FirstSegment[1] = "first" BY DEF FirstSegment
  <1>5. \A p \in DOMAIN segments : p[1] # "rewrite" BY <1>4, NothingYet
  <1>6. FirstSegment \in index.paths BY NothingYet
  <1>7. Earlier BY <1>3, <1>5, <1>6, NothingYet, ReadAtFirst DEF Earlier
  <1>8. "mode" \in DOMAIN local BY <1>1 DEF FirstLayout
  <1> QED BY <1>7, <1>8, NothingYet DEF RewritesInv

(* The result.                                                             *)
LEMMA ReadableStutter ==
  ASSUME ReadableInv, UNCHANGED rewriteVars
  PROVE  ReadableInv'
  <1> USE DEF rewriteVars, copyVars, remoteVars, device
  <1>1. \A h : Reach(h)' = Reach(h) BY DEF Reach
  <1>2. Collected' = Collected BY <1>1 DEF Collected
  <1>3. LocalHeads' = LocalHeads BY DEF LocalHeads
  <1>4. LocalReach' = LocalReach BY <1>1, <1>3 DEF LocalReach
  <1>5. Root' = Root BY DEF Root
  <1>6. Packed' = Packed BY <1>5 DEF Packed
  <1>7. Stored' = Stored BY <1>6 DEF Stored
  <1>8. \A o : EpochOf(o)' = EpochOf(o) BY <1>5, <1>6 DEF EpochOf
  <1>9. \A keys : IndexOpens(keys)' = IndexOpens(keys) BY <1>5 DEF IndexOpens, RootOpens
  <1>10. \A b, keys : Readable(b, keys)' = Readable(b, keys)
    BY <1>1, <1>7, <1>8, <1>9 DEF Readable
  <1>11. \A keys : AllRead(keys)' = AllRead(keys) BY <1>10 DEF AllRead
  <1>12. \A p : Parts(p)' = Parts(p) BY DEF Parts
  <1>13. Pending' = Pending /\ Packing' = Packing BY DEF Pending, Packing
  <1>14. StoredOk'
    <2>1. Snapshots' = Snapshots /\ At("branches")' = At("branches") BY DEF Snapshots, At
    <2> QED BY <1>12, <2>1 DEF ReadableInv, StoredOk
  <1>15. ASSUME ChangesInv PROVE ChangesInv'
    <2>1. Covered' = Covered BY <1>2 DEF Covered
    <2>2. Changing' = Changing BY <1>2, <2>1 DEF Changing, Full
    <2> QED BY <1>2, <1>11, <1>12, <1>13, <1>15, <2>2 DEF ChangesInv
  <1>16. ASSUME RewritesInv PROVE RewritesInv'
    <2>1. Preparing' = Preparing BY <1>4 DEF Preparing
    <2>2. Earlier' = Earlier BY <1>2, <1>11, <1>12, <1>13, <2>1 DEF Earlier
    <2>3. /\ Placed' = Placed /\ Pieces' = Pieces /\ PiecesOk' = PiecesOk
          /\ \A p : NotRewritten(p)' = NotRewritten(p)
      BY <1>4, SamePlaces
    <2>4. \A b : Again(b)' = Again(b) BY <1>3 DEF Again
    <2>5. Full(LocalReach)' = Full(LocalReach) BY <1>4 DEF Full
    <2>6. Publishing' = Publishing BY <1>4, <2>3, <2>4, <2>5 DEF Publishing
    <2>7. Underway' = Underway BY <1>4, <1>12, <1>13, <2>3, <2>6 DEF Underway
    <2>8. Afterwards' = Afterwards BY <1>11, <1>13 DEF Afterwards
    <2> QED BY <1>13, <1>16, <2>2, <2>7, <2>8 DEF RewritesInv
  <1>17. Orderly' = Orderly BY DEF Orderly
  <1> QED BY <1>14, <1>15, <1>16, <1>17 DEF ReadableInv

LEMMA ReadableStep ==
  ASSUME KeysInv, FirstInv, KeysInv', ReadableInv, LayoutsNext
  PROVE  ReadableInv'
  <1>1. StoredOk /\ StoredOk' BY StoredStep DEF ReadableInv
  <1>2. setup' = setup
    BY DEF LayoutsNext, Others, OtherFetch, OtherPush, Admin, AdminCommit, AdminPush, Resume, StartRewrite,
           AlreadyEnabled, StartLayout, Interrupt, Step, RewriteStep, LayoutStep,
           Hydrate, StartObjects, RewriteObject, RewriteRecords, RetireKeys,
           StoreCheckpoint, StoreBackup, Observe, UploadRewritten, UploadBatch, PublishRewrittenLayout,
           Retain, PutRewrittenRoot, PutRoot, PublishKeyring, PublishDefault, PublishBranch,
           ClearCheckpoint, FinishRewrite, Stop, Collect, UploadCollected, PutOblivious, PublishLayout,
           PutLayoutIndex, PublishSameRef, FinishLayout, StopLayout, copyVars
  <1>3. Orderly' = Orderly BY <1>2 DEF Orderly
  <1>4. ASSUME Orderly, setup.rewrites = 0 PROVE ChangesInv' BY <1>1, <1>4, ChangesStep DEF ReadableInv
  <1>5. ASSUME Orderly, setup.rewrites # 0 PROVE RewritesInv' BY <1>1, <1>5, RewritesStep DEF ReadableInv
  <1> QED BY <1>1, <1>2, <1>3, <1>4, <1>5 DEF ReadableInv

LEMMA MoreKeys ==
  ASSUME NEW b, NEW keys, NEW more, keys \subseteq more, Readable(b, keys)
  PROVE  Readable(b, more)
  BY DEF Readable, IndexOpens, RootOpens

LEMMA ReadableImplies ==
  ASSUME ReadableInv, Orderly
  PROVE  HeadsAreReadable
  <1> SUFFICES ASSUME ~Pending, NEW b \in Branches PROVE Readable(b, published.keys)
    BY DEF HeadsAreReadable
  <1>1. CASE ChangesInv \/ Earlier BY <1>1 DEF ChangesInv, Earlier, AllRead
  <1>2. CASE Afterwards
    <2>1. Readable(b, {Active}) /\ {Active} \subseteq published.keys
      BY <1>2, TwoEpochs DEF Afterwards, AllRead
    <2> QED BY <2>1, MoreKeys
  <1>3. ~Underway BY DEF Underway
  <1> QED BY <1>1, <1>2, <1>3 DEF ReadableInv, RewritesInv

\* While pushes take turns with one rewrite, or come before the layout changes,
\* the published keyring and layout open every branch whenever no rewrite is
\* under way, wherever the runs of the rewrite or of the layout changes stop
\* (historical_rewrite_remote, enable_oblivious_layout).
THEOREM HeadsOpenInTurn ==
  ASSUME NoGarbage
  PROVE  LayoutsSpec => [](Orderly => HeadsAreReadable)
  <1>1. LayoutsInit => ReadableInv BY StoredAtFirst, ChangesAtFirst, RewritesAtFirst DEF ReadableInv
  <1>2. KeysInv /\ FirstInv /\ KeysInv' /\ ReadableInv /\ [LayoutsNext]_rewriteVars => ReadableInv'
    BY ReadableStep, ReadableStutter
  <1>3. ReadableInv => (Orderly => HeadsAreReadable) BY ReadableImplies
  <1> QED BY <1>1, <1>2, <1>3, KeysAreSafe, PTL DEF LayoutsSpec
=============================================================================
