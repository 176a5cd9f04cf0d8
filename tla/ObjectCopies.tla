---------------------------- MODULE ObjectCopies ----------------------------
(***************************************************************************)
(* Where the objects of the branches are on the remote and under which key *)
(* epoch, how a reader finds them through the published layout, and the    *)
(* pushes that add to them.  An admin device, followed in detail, and a    *)
(* second device work on the remote.  A snapshot is one object and reaches *)
(* its ancestors.                                                          *)
(***************************************************************************)
EXTENDS Integers, FiniteSets, SequencesExt

CONSTANTS Branches,
          Main,          \* the branch both devices have checked out
          History,       \* the first snapshots: the parent of each, 0 for none
          Heads,         \* the head of every branch on the remote at first
          PackedAtFirst, \* the objects that are in a pack at first
          Batch,         \* objects in one segment
          Scenarios      \* what an instance may do, with its bounds: snapshots,
                         \* crashes, rewrites, layouts; what is uploaded how, when

Old == 1     \* the epoch that is to be retired
Active == 2  \* the epoch of the last rotation

ASSUME CopiesAssumption ==
  /\ IsFiniteSet(Branches) /\ Main \in Branches
  /\ History \in Seq(Nat) /\ \A s \in DOMAIN History : History[s] \in 0..s - 1
  /\ Heads \in [Branches -> DOMAIN History]
  /\ PackedAtFirst \subseteq DOMAIN History
  /\ Batch \in Nat \ {0}
  /\ Scenarios \subseteq [snapshots : Nat, crashes : Nat, rewrites : Nat, layouts : Nat,
                          uploads : SUBSET {"packed", "loose"}, during : BOOLEAN, late : BOOLEAN]

VARIABLES setup,
          parent,    \* of each snapshot
          \* The remote.
          ref,       \* branch refs
          loose,     \* loose objects: the epoch of each
          segments,  \* index segments by name, with the pack they describe
          index,     \* pack-index/root.json
          oblivious, \* oblivious/root.json
          layout,    \* layout_root.json
          published, \* the keyring the pointer names: its keys, and the epochs it lists
          \* The admin device.
          copies,    \* its objects: the epoch of each
          keyring,
          default,   \* refs/default.json
          mirror,    \* its branch files
          local,     \* its layout_root.json
          \* The other device.
          other,     \* the branch it has checked out, its head, its layout root
          used       \* counters of the bounds

remoteVars == <<ref, loose, segments, index, oblivious, layout, published>>
device == <<copies, keyring, default, mirror, local>>
copyVars == <<setup, parent, remoteVars, device, other, used>>

Reach(h) == LET anc[s \in 0..Len(parent)] ==
                  IF s = 0 THEN {} ELSE {s} \cup anc[parent[s]]
            IN anc[h]

\* The entries of f, and those that g adds.
Also(f, g) == [x \in DOMAIN f \cup DOMAIN g |-> IF x \in DOMAIN f THEN f[x] ELSE g[x]]

NoRoot == [epoch |-> 0, paths |-> {}]
FirstSegment == <<"first", 1, 0>>
FirstLayout == [generation |-> 1, mode |-> "pack", oblivious |-> 0]
BothKeys == [keys |-> {Old, Active}, listed |-> {Old, Active}]
NoBranch == [head |-> 0, epoch |-> 0]

CopiesInit ==
  /\ setup \in Scenarios
  /\ parent = History
  /\ ref = [b \in Branches |-> [head |-> Heads[b], epoch |-> Old, version |-> 1]]
  /\ loose = [o \in DOMAIN History \ PackedAtFirst |-> Old]
  /\ segments = [p \in {FirstSegment} |-> [epoch |-> Old, holds |-> [o \in PackedAtFirst |-> Old]]]
  /\ index = [epoch |-> Old, paths |-> {FirstSegment}]
  /\ oblivious = NoRoot /\ layout = FirstLayout /\ published = BothKeys
  /\ copies = [o \in Reach(Heads[Main]) |-> Old] /\ keyring = BothKeys
  /\ default = [head |-> Heads[Main], epoch |-> Old]
  /\ mirror = [b \in Branches |-> IF b = Main THEN default ELSE NoBranch]
  /\ local = FirstLayout
  /\ other = [branch |-> Main, head |-> Heads[Main], layout |-> FirstLayout]
  /\ used = [crashes |-> 0, rewrites |-> 0, layouts |-> 0]

(***************************************************************************)
(* Reading the remote with a set of keys.                                  *)
(***************************************************************************)
\* active_pack_segment_paths_for_layout_root.
Root == IF layout.mode = "oblivious" THEN oblivious ELSE index

\* A missing pack index root lists nothing, a missing oblivious root is an error.
RootOpens(keys) ==
  \/ Root.epoch \in keys
  \/ Root = NoRoot /\ layout.mode # "oblivious"

\* The segments are merged: each must open, and no object may be in two of them.
IndexOpens(keys) ==
  /\ RootOpens(keys)
  /\ \A p \in Root.paths : p \in DOMAIN segments /\ segments[p].epoch \in keys
  /\ \A p, q \in Root.paths :
       p # q => DOMAIN segments[p].holds \cap DOMAIN segments[q].holds = {}

Packed == UNION {DOMAIN segments[p].holds : p \in Root.paths}

Stored == Packed \cup DOMAIN loose

\* The epoch of the copy a reader takes: a packed one before a loose one.
EpochOf(o) ==
  IF o \in Packed
  THEN LET p == CHOOSE q \in Root.paths : o \in DOMAIN segments[q].holds
       IN segments[p].holds[o]
  ELSE loose[o]

Readable(b, keys) ==
  /\ ref[b].epoch \in keys
  /\ IndexOpens(keys)
  /\ \A o \in Reach(ref[b].head) : o \in Stored /\ EpochOf(o) \in keys

(***************************************************************************)
(* A push of head, as one step: no other device works on the remote        *)
(* meanwhile (Publisher and UploadResume take it apart).  The pusher has   *)
(* layout root own and the bytes of its own copies, and opens what is      *)
(* there before it adds to it.                                             *)
(***************************************************************************)
PushSegment(h) == <<"push", h, 0>>

\* Under an oblivious layout everything goes into segments (use_segment_only_uploads).
Ways(own) == setup.uploads \cap IF own.mode = "oblivious" THEN {"packed"} ELSE {"packed", "loose"}

Put(b, h, missing, epochs, own, ring) ==
  /\ Readable(b, ring.keys)
  /\ \E way \in Ways(own) :
       IF way = "packed"
       THEN /\ segments' = Also([p \in {PushSegment(h)} |->
                                 [epoch |-> Active, holds |-> Restrict(epochs, missing)]], segments)
            /\ index' = [epoch |-> Active, paths |-> index.paths \cup {PushSegment(h)}]
            /\ UNCHANGED loose
       ELSE /\ loose' = Also(loose, Restrict(epochs, missing))
            /\ UNCHANGED <<segments, index>>
  /\ layout' = own
  /\ published' = ring
  /\ ref' = [ref EXCEPT ![b] = [head |-> h, epoch |-> Active, version |-> @.version + 1]]
  /\ UNCHANGED oblivious

MayCommit == Len(parent) < setup.snapshots
NextHead == Len(parent) + 1

\* The other device keeps both keys, whatever keyring it finds.
OtherFetch(b) ==
  /\ other # [branch |-> b, head |-> ref[b].head, layout |-> layout]
  /\ Readable(b, BothKeys.keys)
  /\ other' = [branch |-> b, head |-> ref[b].head, layout |-> layout]
  /\ UNCHANGED <<setup, parent, remoteVars, device, used>>

\* It commits and pushes.
OtherPush ==
  /\ MayCommit
  /\ other.head = ref[other.branch].head
  /\ parent' = Append(parent, other.head)
  /\ other' = [other EXCEPT !.head = NextHead]
  /\ Put(other.branch, NextHead, {NextHead}, [o \in {NextHead} |-> Active], other.layout, BothKeys)
  /\ UNCHANGED <<setup, device, used>>

AdminCommit ==
  /\ MayCommit
  /\ parent' = Append(parent, default.head)
  /\ default' = [head |-> NextHead, epoch |-> Active]
  /\ mirror' = [mirror EXCEPT ![Main] = default']
  /\ copies' = Also(copies, [o \in {NextHead} |-> Active])
  /\ UNCHANGED <<setup, remoteVars, keyring, local, other, used>>

\* reconcile_local_keyring_with_remote_if_needed: the device keeps the keys it
\* has; the epochs the remote lists are listed again.
Reconciled == [keyring EXCEPT !.listed = @ \cup published.listed]

\* Every ancestor must be on the remote.
AdminPush ==
  /\ ref[Main].head \in Reach(default.head) \ {default.head}
  /\ Reach(default.head) \ {default.head} \subseteq Stored
  /\ Put(Main, default.head, Reach(default.head) \ Stored, copies, local, Reconciled)
  /\ keyring' = Reconciled
  /\ UNCHANGED <<setup, parent, copies, default, mirror, local, other, used>>

=============================================================================
