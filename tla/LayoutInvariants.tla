------------------------- MODULE LayoutInvariants -------------------------
(***************************************************************************)
(* What holds in every state of Layouts: KeysInv and FirstInv of the keys  *)
(* that copies and records are under (HistoricalRewrite), and ReadableInv  *)
(* of what a reader finds (ObliviousLayout).  KeyProofs shows that each is *)
(* kept by every step.                                                     *)
(***************************************************************************)
EXTENDS Layouts

Epochs == {Old, Active}
Snapshots == 1..Len(parent)
Kinds == {"enable", "reshuffle"}

\* A snapshot is written after its parent.
Parents(p) == p \in Seq(Nat) /\ \A s \in 1..Len(p) : p[s] \in 0..s - 1

\* What the first n snapshots reach, where p has the parents.
ReachTo(p, n, f) == f = [s \in 0..n |-> IF s = 0 THEN {} ELSE {s} \cup f[p[s]]]

Reached(p) == CHOOSE f : ReachTo(p, Len(p), f)

ReachIn(p, h) == Reached(p)[h]

----------------------------------------------------------------------------
(* Keys that were retired.                                                 *)
Records == [head : Snapshots, epoch : Epochs]

IsWork(w) == /\ w = [pc |-> w.pc, kind |-> w.kind, todo |-> w.todo, ids |-> w.ids, next |-> w.next,
                     paths |-> w.paths, version |-> w.version, listed |-> w.listed,
                     layout |-> w.layout, generation |-> w.generation]
             /\ w.next \in Nat

RefsOk == ref \in [Branches -> [head : Snapshots, epoch : Epochs, version : Nat]]

OtherOk == /\ other = [branch |-> other.branch, head |-> other.head, layout |-> other.layout]
           /\ other.branch \in Branches /\ other.head \in Snapshots

UsedOk == used \in [crashes : Nat, rewrites : Nat, layouts : Nat]

TypesOk ==
  /\ setup \in Scenarios /\ Parents(parent)
  /\ RefsOk /\ OtherOk /\ UsedOk /\ IsWork(work)
  /\ default \in Records /\ mirror \in [Branches -> Records \cup {NoBranch}]
  /\ keyring = [keys |-> keyring.keys, listed |-> keyring.listed]
  /\ keyring.keys \in {Epochs, {Active}}
  /\ copies \in [DOMAIN copies -> Epochs]
  /\ LocalReach \subseteq DOMAIN copies /\ DOMAIN copies \subseteq Snapshots

\* Nothing local is under the old key.
AllActive ==
  /\ default.epoch = Active /\ \A o \in DOMAIN copies : copies[o] = Active
  /\ \A b \in Branches : mirror[b] = NoBranch \/ mirror[b].epoch = Active

\* The branches that are still to be brought here.
ToBring == /\ work.todo \in Seq(Branches)
           /\ \A b \in Branches : mirror[b] # NoBranch \/ \E i \in DOMAIN work.todo : work.todo[i] = b

\* The objects that are still to be rewritten.
ToRewrite == /\ work.todo \in Seq(LocalReach)
             /\ \A o \in DOMAIN copies : copies[o] = Active \/ \E i \in DOMAIN work.todo : work.todo[i] = o

RewritingOk ==
  /\ keyring.keys = {Active} => AllActive
  /\ At("hydrate") => ToBring
  /\ At("objects") => ToRewrite
  /\ At("retire") => AllActive

KeysInv == TypesOk /\ RewritingOk

\* What the branches reached at first.
Original(b) == ReachIn(History, Heads[b])
Originals == UNION {Original(b) : b \in Branches}

\* What a head reaches, the first of its branch included; of the first
\* snapshots it reaches those that a branch did.
From(b, h) == /\ Original(b) \subseteq Reach(h)
              /\ \A o \in Reach(h) : o \in DOMAIN History => o \in Originals

\* Only first snapshots are under the old key.
Aged(f, S) == \A o \in DOMAIN f : f[o] = Active \/ o \in S

HeadsOf(b) == {ref[b].head} \cup {m \in {mirror[b].head} : mirror[b] # NoBranch}
                            \cup {d \in {default.head} : b = Main}

HeadsFrom == /\ Len(History) <= Len(parent)
             /\ \A b \in Branches : \A h \in HeadsOf(b) : From(b, h)

RemoteAged == /\ Aged(loose, DOMAIN History)
              /\ \A p \in DOMAIN segments : Aged(segments[p].holds, DOMAIN History)

IdsAreHere == /\ work.ids \in Seq(DOMAIN copies)
              /\ checkpoint = [primary |-> checkpoint.primary, backup |-> checkpoint.backup]
              /\ checkpoint.primary \cup checkpoint.backup \subseteq DOMAIN copies

FirstInv == HeadsFrom /\ Aged(copies, Originals) /\ RemoteAged /\ IdsAreHere

----------------------------------------------------------------------------
(* What a branch is read from.                                             *)

\* What segments P of s hold, and the epoch of the copy that is found there or
\* among the loose ones.
HeldIn(P, s) == UNION {DOMAIN s[p].holds : p \in P}

EpochIn(P, s, l, o) ==
  IF o \in HeldIn(P, s) THEN s[CHOOSE q \in P : o \in DOMAIN s[q].holds].holds[o] ELSE l[o]

Apart(P, s) == \A p, q \in P : p # q => DOMAIN s[p].holds \cap DOMAIN s[q].holds = {}

Opening(r, s, keys) == /\ r.epoch \in keys /\ Apart(r.paths, s)
                       /\ \A p \in r.paths : p \in DOMAIN s /\ s[p].epoch \in keys

Finding(R, P, s, l, keys) == \A o \in R : o \in HeldIn(P, s) \cup DOMAIN l /\ EpochIn(P, s, l, o) \in keys

\* A head that reaches R is read through the index r with the keys.
ReadIn(R, r, s, l, keys) == Opening(r, s, keys) /\ Finding(R, r.paths, s, l, keys)

AllRead(keys) == \A b \in Branches : Readable(b, keys)

Parts(p) == DOMAIN segments[p].holds

\* What is stored is under one of the two epochs; a push does not find its segment there.
StoredOk ==
  /\ \A p \in DOMAIN segments :
       /\ segments[p].epoch \in Epochs
       /\ \A o \in Parts(p) : o \in Snapshots /\ segments[p].holds[o] \in Epochs
       /\ p[1] = "push" => p[2] \in Snapshots /\ (p[2] = default.head => default.head <= ref[Main].head)
  /\ \A o \in DOMAIN loose : o \in Snapshots /\ loose[o] \in Epochs
  /\ index.epoch \in Epochs
  /\ At("branches") => work.todo \in Seq(Branches \ {Main})

\* The segments of the batches of a set of objects.
BatchNames(kind, g, n) == {<<kind, g, i>> : i \in 0..n - 1}
Full(S) == Batches(SetToSeq(S))

(* Layout changes.                                                         *)

\* The oblivious root names all that a branch reaches.
Covered == /\ oblivious.epoch \in Epochs /\ Apart(oblivious.paths, segments)
           /\ oblivious.paths \subseteq DOMAIN segments
           /\ Collected \subseteq HeldIn(oblivious.paths, segments)

Changing ==
  /\ work.kind \in Kinds /\ work.layout.mode = "oblivious"
  /\ work.pc \in {"collect", "upload", "layout", "root", "verify", "ref", "keep"}
  /\ work.pc = "collect" => work.next = 0 /\ work.paths = {}
  /\ work.pc = "upload" =>
       /\ work.ids = SetToSeq(Collected) /\ work.next \in 0..Full(Collected)
       /\ work.paths = BatchNames(work.kind, work.layout.generation, work.next)
       /\ work.paths \subseteq DOMAIN segments
  /\ work.pc = "layout" => Covered
  /\ work.pc \in {"root", "verify", "ref", "keep"} => layout.mode = "oblivious"

Packing == layout.mode = "pack" /\ local.mode = "pack" /\ other.layout.mode = "pack"

ChangesInv ==
  /\ ~Pending /\ keyring.keys = Epochs /\ published.keys = Epochs /\ AllRead(Epochs)
  /\ layout.mode \in {"pack", "oblivious"}
  /\ used.layouts = 0 => Packing /\ work = NoWork /\ \A p \in DOMAIN segments : p[1] \notin Kinds
  /\ \A p \in DOMAIN segments : p[1] \in Kinds => Parts(p) = BatchOf(SetToSeq(Collected), p[3])
  /\ work # NoWork => Changing

(* A rewrite.                                                              *)

\* Before its checkpoint: a branch is read with both keys.
Preparing ==
  /\ work.kind = "rewrite" /\ work.pc \in {"hydrate", "objects", "retire", "store"}
  /\ work.pc = "hydrate" => \A b \in Branches : \/ mirror[b].head = ref[b].head
                                                \/ \E i \in DOMAIN work.todo : work.todo[i] = b
  /\ work.pc # "hydrate" => /\ \A b \in Branches : mirror[b].head = ref[b].head
                            /\ work.ids = SetToSeq(LocalReach)
  /\ work.pc = "store" => keyring.keys = {Active}

Earlier ==
  /\ used.rewrites = 0 /\ ~Pending /\ published.keys = Epochs /\ AllRead(Epochs)
  /\ FirstSegment \in index.paths /\ segments[FirstSegment].epoch = Old
  /\ \A p \in index.paths : Parts(p) \subseteq Collected
  /\ \A p \in DOMAIN segments : p[1] # "rewrite"
  /\ work # NoWork => Preparing

\* Its objects, all of them under the active epoch.
Pieces == BatchNames("rewrite", 0, Full(LocalReach))

PiecesOk ==
  \A p \in DOMAIN segments : p[1] = "rewrite" =>
    /\ segments[p].epoch = Active /\ \A o \in Parts(p) : segments[p].holds[o] = Active
    /\ Parts(p) = BatchOf(SetToSeq(LocalReach), p[3])

\* A segment of what is not rewritten.
NotRewritten(p) == Parts(p) \cap LocalReach = {} /\ segments[p].epoch = Active

Placed == /\ index.epoch = Active /\ Pieces \subseteq index.paths
          /\ \A p \in index.paths : segments[p].epoch = Active

\* A branch ref that is written again.
Again(b) == ref[b].epoch = Active /\ ref[b].head \in LocalHeads

Publishing ==
  /\ work.kind = "rewrite" /\ work.ids = SetToSeq(LocalReach)
  /\ work.pc \in {"backup", "observe", "upload", "retain", "root", "verify", "ref", "branches", "clear"}
  /\ work.pc # "backup" => checkpoint.backup = LocalReach
  /\ work.pc = "clear" => checkpoint.primary = {}
  /\ work.pc \in {"upload", "retain", "root", "verify", "ref"} => work.listed = ref
  /\ work.pc = "upload" => /\ work.next \in 0..Full(LocalReach)
                           /\ work.paths = BatchNames("rewrite", 0, work.next)
  /\ work.pc = "retain" => work.paths = Pieces
  /\ work.pc = "root" =>
       Pieces \subseteq work.paths /\ \A p \in work.paths \ Pieces : p \in index.paths /\ NotRewritten(p)
  /\ work.pc \in {"upload", "retain", "root"} => work.paths \subseteq DOMAIN segments
  /\ work.pc \in {"verify", "ref", "branches", "clear"} => Placed
  /\ work.pc \in {"ref", "branches", "clear"} => published.keys = {Active}
  /\ work.pc \in {"branches", "clear"} =>
       \A b \in Branches : \/ Again(b)
                           \/ /\ work.pc = "branches" /\ ref[b] = work.listed[b]
                              /\ \E i \in DOMAIN work.todo : work.todo[i] = b

\* Between its checkpoint and the removal of it.
Underway ==
  /\ used.rewrites = 1 /\ Pending /\ keyring.keys = {Active}
  /\ checkpoint.primary \in {{}, LocalReach} /\ checkpoint.backup \in {{}, LocalReach}
  /\ \A b \in Branches : mirror[b] # NoBranch
  /\ index.paths \subseteq DOMAIN segments /\ Apart(index.paths, segments)
  /\ \A p \in index.paths : Parts(p) \subseteq LocalReach \/ NotRewritten(p)
  /\ PiecesOk
  /\ work # NoWork => Publishing

\* After it: a branch is read with the active key.
Afterwards == /\ used.rewrites = 1 /\ ~Pending /\ keyring.keys = {Active} /\ work = NoWork
              /\ published.keys \in {Epochs, {Active}} /\ AllRead({Active})

RewritesInv == /\ used.layouts = 0 /\ Packing /\ "mode" \in DOMAIN local
               /\ (Earlier \/ Underway \/ Afterwards)

\* Pushes take turns with rewrites, of which there is one, or come before layout changes.
Orderly == /\ ~setup.during /\ ~setup.late
           /\ setup.rewrites = 0 \/ (setup.rewrites = 1 /\ setup.layouts = 0)

ReadableInv == StoredOk /\ (Orderly => IF setup.rewrites = 0 THEN ChangesInv ELSE RewritesInv)

\* A segment holds nothing that no branch reaches.
NoGarbage == PackedAtFirst \subseteq Originals
=============================================================================
