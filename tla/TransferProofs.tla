---------------------------- MODULE TransferProofs ----------------------------
(***************************************************************************)
(* For every backend, every bound and any number of branches, snapshots,   *)
(* pushes, crashes and failing objects: a clone, fetch or accept that      *)
(* reports success leaves a head with its whole graph, a clone or fetch    *)
(* takes no readable object and no readable head away, and a verify leaves *)
(* what it found readable.                                                 *)
(*                                                                         *)
(* Each object of the graph that a fetch validated is good on the device,  *)
(* still to be written or being written; what another device pushes        *)
(* meanwhile neither replaces an object nor changes the graph of a head.   *)
(***************************************************************************)
EXTENDS Transfer, WellFoundedInduction, SequenceTheorems, TLAPS

----------------------------------------------------------------------------
(* The graph of a head.                                                    *)

\* What the first n snapshots reach, where p has the parents.
ReachTo(p, n, f) == f = [s \in 0..n |-> IF s = 0 THEN {} ELSE {s} \cup f[p[s]]]

Reached(p) == CHOOSE f : ReachTo(p, Len(p), f)

GraphOf(p, h) == {<<"manifest", s>> : s \in Reached(p)[h]} \cup {<<"chunk", s>> : s \in Reached(p)[h]}

\* A snapshot is written after its parent.
Parents(p) == p \in Seq(Nat) /\ \A s \in 1..Len(p) : p[s] \in 0..s - 1

\* A set of numbers that is not empty has a least one.
LEMMA LeastNat ==
  ASSUME NEW S, S \subseteq Nat, S # {}
  PROVE  \E n \in S : \A m \in S : n <= m
  <1> DEFINE R == {ss \in Nat \X Nat : ss[1] < ss[2]}
  <1>1. OpToRel(<, Nat) = R BY DEF OpToRel
  <1>2. IsWellFoundedOn(R, Nat) BY <1>1, NatLessThanWellFounded
  <1> HIDE DEF R
  <1>3. \E x \in S : \A y \in S : <<y, x>> \notin R BY <1>2, WFMin
  <1>4. PICK n \in S : \A m \in S : ~(m < n) BY <1>3 DEF R
  <1> QED BY <1>4

\* A set of numbers with 0 and every successor has them all.
LEMMA SetInduction ==
  ASSUME NEW S, 0 \in S, \A n \in Nat : n \in S => n + 1 \in S
  PROVE  Nat \subseteq S
  <1> SUFFICES ASSUME Nat \ S # {} PROVE FALSE OBVIOUS
  <1>1. PICK n \in Nat \ S : \A m \in Nat \ S : n <= m BY LeastNat
  <1>2. n - 1 \in Nat /\ n - 1 < n BY <1>1
  <1>3. n - 1 \in S BY <1>1, <1>2
  <1> QED BY <1>2, <1>3

LEMMA ReachExists ==
  ASSUME NEW p, Parents(p)
  PROVE  \A n \in 0..Len(p) : \E f : ReachTo(p, n, f)
  <1> DEFINE S == {n \in Nat : n <= Len(p) => \E f : ReachTo(p, n, f)}
  <1>0. Len(p) \in Nat BY LenProperties DEF Parents
  <1>1. 0 \in S
    <2>1. ReachTo(p, 0, [s \in 0..0 |-> {}]) BY DEF ReachTo
    <2> QED BY <2>1
  <1>2. ASSUME NEW n \in Nat, n \in S PROVE n + 1 \in S
    <2> SUFFICES ASSUME n + 1 <= Len(p) PROVE \E f : ReachTo(p, n + 1, f) BY DEF S
    <2>1. PICK f : ReachTo(p, n, f) BY <1>0, <1>2
    <2> DEFINE g == [s \in 0..n + 1 |-> IF s = 0 THEN {} ELSE {s} \cup f[p[s]]]
    <2>2. ASSUME NEW s \in 0..n PROVE g[s] = f[s]
      <3>1. s \in 0..n + 1 OBVIOUS
      <3>2. g[s] = IF s = 0 THEN {} ELSE {s} \cup f[p[s]] BY <3>1
      <3> HIDE DEF g
      <3> QED BY <2>1, <3>2 DEF ReachTo
    <2>3. ASSUME NEW s \in 0..n + 1, s # 0 PROVE f[p[s]] = g[p[s]]
      <3>1. p[s] \in 0..n BY <1>0, <2>3 DEF Parents
      <3> QED BY <2>2, <3>1
    <2>4. ReachTo(p, n + 1, g) BY <2>3 DEF ReachTo
    <2> QED BY <2>4
  <1> HIDE DEF S
  <1>3. Nat \subseteq S BY <1>1, <1>2, SetInduction
  <1> QED BY <1>3, <1>0 DEF S

LEMMA ReachedDef ==
  ASSUME NEW p, Parents(p), NEW s \in 0..Len(p)
  PROVE  Reached(p)[s] = IF s = 0 THEN {} ELSE {s} \cup Reached(p)[p[s]]
  <1>0. Len(p) \in Nat BY LenProperties DEF Parents
  <1>1. \E f : ReachTo(p, Len(p), f) BY <1>0, ReachExists
  <1>2. ReachTo(p, Len(p), Reached(p)) BY <1>1 DEF Reached
  <1> QED BY <1>2 DEF ReachTo

LEMMA ReachedAreNumbers ==
  ASSUME NEW p, Parents(p)
  PROVE  \A s \in 0..Len(p) : Reached(p)[s] \subseteq Nat
  <1> DEFINE Wrong == {s \in 0..Len(p) : ~(Reached(p)[s] \subseteq Nat)}
  <1>0. Len(p) \in Nat BY LenProperties DEF Parents
  <1> SUFFICES ASSUME Wrong # {} PROVE FALSE OBVIOUS
  <1>9. Wrong \subseteq Nat /\ Wrong \subseteq 0..Len(p) BY <1>0
  <1> HIDE DEF Wrong
  <1>1. PICK s \in Wrong : \A m \in Wrong : s <= m BY <1>9, LeastNat
  <1>2. Reached(p)[s] = IF s = 0 THEN {} ELSE {s} \cup Reached(p)[p[s]] BY <1>9, ReachedDef
  <1>3. s # 0 BY <1>2 DEF Wrong
  <1>4. p[s] \in 0..s - 1 /\ p[s] \in 0..Len(p) BY <1>0, <1>3, <1>9 DEF Parents
  <1>5. p[s] \notin Wrong BY <1>0, <1>1, <1>4, <1>9
  <1> QED BY <1>1, <1>2, <1>3, <1>4, <1>5, <1>9 DEF Wrong

\* A new snapshot changes the graph of no other.
LEMMA ParentsGrow ==
  ASSUME NEW p, Parents(p), NEW v \in 0..Len(p), NEW r, r = Append(p, v)
  PROVE  /\ Parents(r) /\ Len(r) = Len(p) + 1
         /\ \A s \in 0..Len(p) : GraphOf(r, s) = GraphOf(p, s)
  <1>0. Len(p) \in Nat /\ v \in Nat BY LenProperties DEF Parents
  <1>1. PICK q \in Seq(Nat) : q = p BY DEF Parents
  <1>2. /\ r \in Seq(Nat) /\ Len(r) = Len(p) + 1
        /\ \A s \in 1..Len(p) : r[s] = p[s]
        /\ r[Len(r)] = v
    BY <1>0, <1>1, AppendProperties
  <1>3. Parents(r)
    <2>1. ASSUME NEW s \in 1..Len(r) PROVE r[s] \in 0..s - 1
      <3>1. CASE s = Len(r) BY <1>0, <1>2, <3>1
      <3>2. CASE s # Len(r)
        <4>1. s \in 1..Len(p) BY <1>0, <1>2, <3>2
        <4> QED BY <1>2, <4>1 DEF Parents
      <3> QED BY <3>1, <3>2
    <2> QED BY <1>2, <2>1 DEF Parents
  <1> DEFINE Wrong == {s \in 0..Len(p) : Reached(r)[s] # Reached(p)[s]}
  <1>4. Wrong = {}
    <2> SUFFICES ASSUME Wrong # {} PROVE FALSE OBVIOUS
    <2>9. Wrong \subseteq Nat /\ Wrong \subseteq 0..Len(p) BY <1>0
    <2> HIDE DEF Wrong
    <2>1. PICK s \in Wrong : \A m \in Wrong : s <= m BY <2>9, LeastNat
    <2>2. Reached(p)[s] = IF s = 0 THEN {} ELSE {s} \cup Reached(p)[p[s]] BY <2>9, ReachedDef
    <2>7. s \in 0..Len(r) BY <1>0, <1>2, <2>9
    <2>3. Reached(r)[s] = IF s = 0 THEN {} ELSE {s} \cup Reached(r)[r[s]] BY <1>3, <2>7, ReachedDef
    <2>4. s # 0 BY <2>1, <2>2, <2>3 DEF Wrong
    <2>5. r[s] = p[s] /\ p[s] \in 0..s - 1 /\ p[s] \in 0..Len(p)
      BY <1>0, <1>2, <2>4, <2>9 DEF Parents
    <2>6. p[s] \notin Wrong BY <1>0, <2>1, <2>5, <2>9
    <2> QED BY <2>1, <2>2, <2>3, <2>5, <2>6 DEF Wrong
  <1>5. ASSUME NEW s \in 0..Len(p) PROVE GraphOf(r, s) = GraphOf(p, s)
    <2>1. Reached(r)[s] = Reached(p)[s] BY <1>4
    <2> QED BY <2>1 DEF GraphOf
  <1> QED BY <1>2, <1>3, <1>5

LEMMA GraphIsGraphOf ==
  ASSUME NEW h
  PROVE  Graph(h) = GraphOf(parent, h)
  <1>1. Reach(h) = Reached(parent)[h] BY DEF Reach, Reached, ReachTo
  <1> QED BY <1>1 DEF Graph, ManifestsOf, GraphOf

Objects == {"manifest", "chunk"} \X Nat

LEMMA GraphHasObjects ==
  ASSUME NEW p, Parents(p), NEW h \in 0..Len(p)
  PROVE  GraphOf(p, h) \subseteq Objects
  <1>1. Reached(p)[h] \subseteq Nat BY ReachedAreNumbers
  <1> QED BY <1>1 DEF GraphOf, Objects

----------------------------------------------------------------------------
(* Paths and files.                                                        *)

Paths == {ObjectPath(o) : o \in Objects} \cup {RefPath(b) : b \in Branches} \cup {PointerPath, LayoutPath}

Files == [torn : BOOLEAN, version : Int, value : Int]

LEMMA PathsDiffer ==
  /\ \A o, b : ObjectPath(o) # RefPath(b)
  /\ \A o : ObjectPath(o) # PointerPath /\ ObjectPath(o) # LayoutPath
  /\ \A b : RefPath(b) # PointerPath /\ RefPath(b) # LayoutPath
  /\ \A o, x : ObjectPath(o) = ObjectPath(x) => o = x
  /\ \A b, x : RefPath(b) = RefPath(x) => b = x
  BY DEF ObjectPath, RefPath, PointerPath, LayoutPath

LEMMA OnlyObjectsAreThere ==
  ASSUME NEW path \in Paths, IsStrictPrefix(<<"objects">>, path)
  PROVE  \E o \in Objects : path = ObjectPath(o)
  <1>1. \A b : ~IsStrictPrefix(<<"objects">>, RefPath(b))
    BY DEF RefPath, IsStrictPrefix, IsPrefix
  <1>2. ~IsStrictPrefix(<<"objects">>, PointerPath)
    BY DEF PointerPath, IsStrictPrefix, IsPrefix
  <1>3. ~IsStrictPrefix(<<"objects">>, LayoutPath)
    BY DEF LayoutPath, IsStrictPrefix, IsPrefix
  <1> QED BY <1>1, <1>2, <1>3 DEF Paths

LEMMA ObjectPathParts ==
  ASSUME NEW o
  PROVE  /\ IsStrictPrefix(<<"objects">>, ObjectPath(o))
         /\ ObjectPath(o)[2] = o /\ Len(ObjectPath(o)) = 2
         /\ SubSeq(ObjectPath(o), 1, 2) = ObjectPath(o)
  <1>1. IsStrictPrefix(<<"objects">>, ObjectPath(o))
    BY DEF ObjectPath, IsStrictPrefix, IsPrefix
  <1>2. ObjectPath(o)[2] = o /\ Len(ObjectPath(o)) = 2 BY DEF ObjectPath
  <1>3. SubSeq(ObjectPath(o), 1, 2) = ObjectPath(o)
    <2> DEFINE q == <<"objects", o>>
    <2>1. q \in Seq({"objects", o}) /\ Len(q) = 2 OBVIOUS
    <2> HIDE DEF q
    <2>2. PICK S : q \in Seq(S) BY <2>1
    <2>3. SubSeq(q, 1, 2) \in Seq(S) /\ Len(SubSeq(q, 1, 2)) = 2
          /\ \A i \in 1..2 : SubSeq(q, 1, 2)[i] = q[i]
      BY <2>1, <2>2, SubSeqProperties
    <2>4. SubSeq(q, 1, 2) = q BY <2>1, <2>2, <2>3, SeqEqual
    <2>5. ObjectPath(o) = q BY DEF ObjectPath, q
    <2> QED BY <2>4, <2>5
  <1> QED BY <1>1, <1>2, <1>3

\* What is listed is what is there, at one level or at all.
LEMMA ListedObjects ==
  ASSUME DOMAIN files \subseteq Paths
  PROVE  LooseIds = {o \in Objects : ObjectPath(o) \in DOMAIN files}
  <1>1. Under(<<"objects">>) = {ObjectPath(o) : o \in {x \in Objects : ObjectPath(x) \in DOMAIN files}}
    <2>1. ASSUME NEW path \in Under(<<"objects">>)
          PROVE  \E o \in Objects : path = ObjectPath(o) /\ path \in DOMAIN files
      BY OnlyObjectsAreThere DEF Under
    <2>2. ASSUME NEW o \in Objects, ObjectPath(o) \in DOMAIN files
          PROVE  ObjectPath(o) \in Under(<<"objects">>)
      BY <2>2, ObjectPathParts DEF Under
    <2> QED BY <2>1, <2>2
  <1>2. FilesIn(<<"objects">>) = Under(<<"objects">>)
    <2>1. ASSUME NEW path \in Under(<<"objects">>)
          PROVE  /\ SubSeq(path, 1, Len(<<"objects">>) + 1) = path
                 /\ (Len(path) > Len(<<"objects">>) + 1) = FALSE
      <3>1. PICK o \in Objects : path = ObjectPath(o) BY <1>1
      <3>2. Len(path) = 2 /\ SubSeq(path, 1, 2) = path BY <3>1, ObjectPathParts
      <3>3. Len(<<"objects">>) + 1 = 2 OBVIOUS
      <3> QED BY <3>2, <3>3
    <2>2. Entries(<<"objects">>) = {[path |-> path, isDir |-> FALSE] : path \in Under(<<"objects">>)}
      <3> DEFINE e(path) == [path |-> SubSeq(path, 1, Len(<<"objects">>) + 1),
                             isDir |-> Len(path) > Len(<<"objects">>) + 1]
      <3>1. Entries(<<"objects">>) = {e(path) : path \in Under(<<"objects">>)} BY DEF Entries
      <3>2. ASSUME NEW path \in Under(<<"objects">>)
            PROVE  e(path) = [path |-> path, isDir |-> FALSE]
        BY <2>1
      <3> HIDE DEF e
      <3> QED BY <3>1, <3>2
    <2>3. FilesIn(<<"objects">>) = {e.path : e \in {x \in Entries(<<"objects">>) : ~x.isDir}}
      BY DEF FilesIn
    <2>4. ASSUME NEW path \in Under(<<"objects">>)
          PROVE  \E e \in Entries(<<"objects">>) : ~e.isDir /\ e.path = path
      <3>1. [path |-> path, isDir |-> FALSE] \in Entries(<<"objects">>) BY <2>2
      <3> QED BY <3>1
    <2>5. ASSUME NEW e \in Entries(<<"objects">>)
          PROVE  e.path \in Under(<<"objects">>)
      BY <2>2
    <2> QED BY <2>3, <2>4, <2>5
  <1>3. Listed(<<"objects">>) = Under(<<"objects">>) BY <1>2 DEF Listed
  <1>4. LooseIds = {path[2] : path \in Under(<<"objects">>)} BY <1>3 DEF LooseIds
  <1>5. ASSUME NEW path \in Under(<<"objects">>)
        PROVE  path[2] \in {o \in Objects : ObjectPath(o) \in DOMAIN files}
    <2>1. PICK o \in Objects : path = ObjectPath(o) /\ ObjectPath(o) \in DOMAIN files BY <1>1
    <2> QED BY <2>1, ObjectPathParts
  <1>6. ASSUME NEW o \in Objects, ObjectPath(o) \in DOMAIN files
        PROVE  \E path \in Under(<<"objects">>) : path[2] = o
    <2>1. ObjectPath(o) \in Under(<<"objects">>) BY <1>1, <1>6
    <2> QED BY <2>1, ObjectPathParts
  <1> QED BY <1>4, <1>5, <1>6

----------------------------------------------------------------------------
(* The remote, with n snapshots, the files f and the push q.               *)

Pushes == [pc : {"idle", "list", "upload", "end"}, branch : Branches \cup {"none"}, head : Nat,
           todo : SUBSET Objects, seen : Int, open : {<< >>} \cup (Paths \X Files)]

Counters == [pushes : Int, layouts : Int, rotations : Int, crashes : Int, damage : Int,
             rot : Int, runs : Int]

\* What is put at the path of a ref is a snapshot.
FitsPath(n, path, file) == \A b \in Branches : path = RefPath(b) => file.value \in 0..n

FilesOk(n, f) ==
  /\ DOMAIN f \subseteq Paths
  /\ \A path \in DOMAIN f : f[path] \in Files /\ FitsPath(n, path, f[path])
  /\ {RefPath(b) : b \in Branches} \cup {PointerPath, LayoutPath} \subseteq DOMAIN f

\* No object is put twice, and a file that is being put is not cut short again.
PushOk(n, f, q) ==
  /\ q \in Pushes /\ q.head \in 0..n
  /\ q.pc \in {"list", "upload"} => q.branch \in Branches
  /\ q.open # << >> => /\ q.open[1] \in DOMAIN f /\ q.open[2] \in Files
                       /\ ~q.open[2].torn /\ FitsPath(n, q.open[1], q.open[2])
  /\ \A o \in q.todo : ObjectPath(o) \notin DOMAIN f

RemoteInv ==
  /\ Parents(parent) /\ used \in Counters
  /\ FilesOk(Len(parent), files)
  /\ PushOk(Len(parent), files, pusher)

LooseIn(f, o) == ObjectPath(o) \in DOMAIN f /\ ~f[ObjectPath(o)].torn

\* What the device may rely on: graphs stay, and what is whole stays whole.
Grows(p, f, r, g) ==
  /\ Len(p) <= Len(r) /\ \A h \in 0..Len(p) : GraphOf(r, h) = GraphOf(p, h)
  /\ DOMAIN f \subseteq DOMAIN g
  /\ \A o \in Objects : LooseIn(f, o) => LooseIn(g, o)

LEMMA MoreSnapshots ==
  ASSUME NEW n \in Nat, NEW m \in Nat, n <= m, NEW f, NEW q, FilesOk(n, f), PushOk(n, f, q)
  PROVE  FilesOk(m, f) /\ PushOk(m, f, q)
  <1>1. \A path, file : FitsPath(n, path, file) => FitsPath(m, path, file) BY DEF FitsPath
  <1>2. q.head \in 0..m BY DEF PushOk
  <1> QED BY <1>1, <1>2 DEF FilesOk, PushOk

LEMMA PutFile ==
  ASSUME NEW n \in Nat, NEW f, FilesOk(n, f),
         NEW path \in Paths, NEW file \in Files, FitsPath(n, path, file),
         NEW g, g = With(f, path, file)
  PROVE  FilesOk(n, g)
  <1>1. /\ DOMAIN g = DOMAIN f \cup {path} /\ g[path] = file
        /\ \A y \in DOMAIN f : y # path => g[y] = f[y]
    BY DEF With
  <1>2. ASSUME NEW y \in DOMAIN g PROVE g[y] \in Files /\ FitsPath(n, y, g[y])
    BY <1>1, <1>2 DEF FilesOk
  <1> QED BY <1>1, <1>2 DEF FilesOk

LEMMA PushBesides ==
  ASSUME NEW n \in Nat, NEW f, NEW q, PushOk(n, f, q),
         NEW path, \A o \in q.todo : ObjectPath(o) # path,
         NEW file, NEW g, g = With(f, path, file)
  PROVE  PushOk(n, g, q)
  <1>1. DOMAIN g = DOMAIN f \cup {path} BY DEF With
  <1> QED BY <1>1 DEF PushOk

\* An object that is put was not there, or is put whole.
LEMMA PutGrows ==
  ASSUME NEW p, NEW f, NEW path, NEW file, NEW g, g = With(f, path, file), Len(p) \in Nat,
         ~file.torn \/ path \notin DOMAIN f \/ \A o : path # ObjectPath(o)
  PROVE  Grows(p, f, p, g)
  <1>1. /\ DOMAIN g = DOMAIN f \cup {path} /\ g[path] = file
        /\ \A y \in DOMAIN f : y # path => g[y] = f[y]
    BY DEF With
  <1>2. ASSUME NEW o \in Objects, LooseIn(f, o) PROVE LooseIn(g, o)
    <2>1. CASE ObjectPath(o) = path BY <1>1, <1>2, <2>1 DEF LooseIn
    <2>2. CASE ObjectPath(o) # path BY <1>1, <1>2, <2>2 DEF LooseIn
    <2> QED BY <2>1, <2>2
  <1> QED BY <1>1, <1>2 DEF Grows

LEMMA PutStep ==
  ASSUME Parents(parent), FilesOk(Len(parent), files), parent' = parent,
         NEW path \in Paths, NEW file \in Files, FitsPath(Len(parent), path, file), ~file.torn,
         path \notin DOMAIN files \/ \A o : path # ObjectPath(o),
         NEW then, PushOk(Len(parent), files, then), then.open = << >>,
         \A o \in then.todo : ObjectPath(o) # path,
         Put(path, file, then)
  PROVE  /\ FilesOk(Len(parent'), files') /\ PushOk(Len(parent'), files', pusher')
         /\ Grows(parent, files, parent', files')
  <1>0. PICK n \in Nat : n = Len(parent) BY LenProperties DEF Parents
  <1>1. PICK p, f : p = parent /\ f = files OBVIOUS
  <1>2. FilesOk(n, f) /\ PushOk(n, f, then) BY <1>0, <1>1
  <1>3. FitsPath(n, path, file) BY <1>0
  <1>4. CASE Backend.inPlace
    <2>1. PICK g : g = With(f, path, TornFile) OBVIOUS
    <2>2. TornFile \in Files /\ FitsPath(n, path, TornFile) BY DEF TornFile, Files, FitsPath
    <2>3. FilesOk(n, g) BY <1>2, <2>1, <2>2, PutFile
    <2>4. PushOk(n, g, then) BY <1>2, <2>1, PushBesides
    <2>5. Grows(p, f, p, g) BY <1>0, <1>1, <2>1, PutGrows
    <2>6. path \in DOMAIN g BY <2>1 DEF With
    <2>7. files' = g /\ pusher' = [then EXCEPT !.open = <<path, file>>] BY <1>1, <1>4, <2>1 DEF Put
    <2>8. PushOk(n, g, pusher')
      <3>1. PICK q : q = [then EXCEPT !.open = <<path, file>>] OBVIOUS
      <3>2. then \in Pushes BY <1>2 DEF PushOk
      <3>3. q \in Pushes /\ q.open = <<path, file>> /\ q.head = then.head /\ q.todo = then.todo
          /\ q.pc = then.pc /\ q.branch = then.branch
        BY <3>1, <3>2 DEF Pushes
      <3>4. q.open[1] = path /\ q.open[2] = file BY <3>3
      <3> QED BY <1>3, <2>4, <2>6, <2>7, <3>1, <3>3, <3>4 DEF PushOk
    <2> QED BY <1>0, <1>1, <2>3, <2>5, <2>7, <2>8
  <1>5. CASE ~Backend.inPlace
    <2>1. PICK g : g = With(f, path, file) OBVIOUS
    <2>3. FilesOk(n, g) BY <1>2, <1>3, <2>1, PutFile
    <2>4. PushOk(n, g, then) BY <1>2, <2>1, PushBesides
    <2>5. Grows(p, f, p, g) BY <1>0, <1>1, <2>1, PutGrows
    <2>7. files' = g /\ pusher' = then BY <1>1, <1>5, <2>1 DEF Put
    <2> QED BY <1>0, <1>1, <2>3, <2>4, <2>5, <2>7
  <1> QED BY <1>4, <1>5

\* What a step of the other device needs to know of the files.
RemoteFacts ==
  /\ Len(parent) \in Nat /\ Parents(parent) /\ used \in Counters
  /\ FilesOk(Len(parent), files) /\ PushOk(Len(parent), files, pusher)
  /\ pusher \in Pushes
  /\ \A b \in Branches : /\ RefPath(b) \in Paths /\ files[RefPath(b)] \in Files
                         /\ files[RefPath(b)].value \in 0..Len(parent)
  /\ files[PointerPath] \in Files /\ files[LayoutPath] \in Files
  /\ PointerPath \in Paths /\ LayoutPath \in Paths

LEMMA RemoteFactsHold ==
  ASSUME RemoteInv
  PROVE  RemoteFacts
  <1>1. Len(parent) \in Nat BY LenProperties DEF RemoteInv, Parents
  <1>2. ASSUME NEW b \in Branches
        PROVE  /\ RefPath(b) \in Paths /\ files[RefPath(b)] \in Files
               /\ files[RefPath(b)].value \in 0..Len(parent)
    <2>1. RefPath(b) \in DOMAIN files BY DEF RemoteInv, FilesOk
    <2> QED BY <2>1 DEF RemoteInv, FilesOk, FitsPath
  <1>3. PointerPath \in DOMAIN files /\ LayoutPath \in DOMAIN files BY DEF RemoteInv, FilesOk
  <1> QED BY <1>1, <1>2, <1>3 DEF RemoteFacts, RemoteInv, FilesOk, PushOk

\* A step of the push that writes no file.
LEMMA PusherOnly ==
  ASSUME RemoteInv, UNCHANGED <<parent, files>>, used' \in Counters,
         PushOk(Len(parent), files, pusher')
  PROVE  RemoteInv' /\ Grows(parent, files, parent', files')
  <1>1. RemoteFacts BY RemoteFactsHold
  <1>2. Grows(parent, files, parent', files') BY <1>1 DEF Grows, RemoteFacts
  <1> QED BY <1>2 DEF RemoteInv

LEMMA PushStartKeeps ==
  ASSUME RemoteInv, NEW b \in Branches, PushStart(b)
  PROVE  RemoteInv' /\ Grows(parent, files, parent', files')
  <1>1. RemoteFacts BY RemoteFactsHold
  <1>2. PICK v \in 0..Len(parent) : v = files[RefPath(b)].value BY <1>1 DEF RemoteFacts
  <1>3. files[RefPath(b)].version \in Int BY <1>1 DEF RemoteFacts, Files
  <1>4. pusher.open = << >> BY DEF PushStart, PushAt
  <1>5. CASE pusher.head = 0
    <2>1. /\ parent' = Append(parent, v) /\ files' = files
          /\ pusher' = [NoPush EXCEPT !.pc = "list", !.branch = b, !.head = Len(parent'),
                                      !.seen = files[RefPath(b)].version]
          /\ used' = [used EXCEPT !.pushes = @ + 1]
      BY <1>2, <1>5 DEF PushStart
    <2>2. PICK p, r, f : p = parent /\ r = Append(p, v) /\ f = files OBVIOUS
    <2>3. /\ Parents(r) /\ Len(r) = Len(p) + 1
          /\ \A s \in 0..Len(p) : GraphOf(r, s) = GraphOf(p, s)
      BY <1>1, <2>2, ParentsGrow DEF RemoteFacts
    <2>4. Len(p) \in Nat /\ Len(r) \in Nat /\ Len(p) <= Len(r) BY <1>1, <2>2, <2>3 DEF RemoteFacts
    <2>5. Grows(p, f, r, f) BY <2>3, <2>4 DEF Grows
    <2>6. FilesOk(Len(r), f)
      <3>1. FilesOk(Len(p), f) /\ PushOk(Len(p), f, pusher) BY <1>1, <2>2 DEF RemoteFacts
      <3> QED BY <2>4, <3>1, MoreSnapshots
    <2>7. PushOk(Len(r), f, pusher')
      <3>1. pusher' \in Pushes BY <1>3, <2>1, <2>2, <2>4 DEF Pushes, NoPush
      <3>2. pusher'.head = Len(r) /\ pusher'.open = << >> /\ pusher'.todo = {}
            /\ pusher'.branch = b
        BY <2>1, <2>2 DEF NoPush
      <3> QED BY <2>4, <3>1, <3>2 DEF PushOk
    <2>8. used' \in Counters BY <1>1, <2>1 DEF RemoteFacts, Counters
    <2> QED BY <2>1, <2>2, <2>3, <2>5, <2>6, <2>7, <2>8 DEF RemoteInv
  <1>6. CASE pusher.head # 0
    <2>1. /\ pusher' = [pusher EXCEPT !.pc = "list", !.seen = files[RefPath(b)].version]
          /\ b = pusher.branch
          /\ UNCHANGED <<parent, files, used>>
      BY <1>6 DEF PushStart
    <2>2. /\ pusher' \in Pushes /\ pusher'.head = pusher.head
          /\ pusher'.todo = pusher.todo /\ pusher'.open = pusher.open /\ pusher'.branch = b
      BY <1>1, <1>3, <2>1 DEF RemoteFacts, Pushes
    <2>3. PushOk(Len(parent), files, pusher') BY <1>1, <2>2 DEF RemoteFacts, PushOk
    <2> QED BY <1>1, <2>1, <2>3, PusherOnly DEF RemoteFacts
  <1> QED BY <1>5, <1>6

LEMMA PushListKeeps ==
  ASSUME RemoteInv, PushList
  PROVE  RemoteInv' /\ Grows(parent, files, parent', files')
  <1>1. RemoteFacts BY RemoteFactsHold
  <1>2. PICK t : t = {o \in Graph(pusher.head) : ~OnRemote(o)} OBVIOUS
  <1>3. Graph(pusher.head) \subseteq Objects
    <2>1. pusher.head \in 0..Len(parent) BY <1>1 DEF RemoteFacts, PushOk
    <2> QED BY <1>1, <2>1, GraphIsGraphOf, GraphHasObjects DEF RemoteFacts
  <1>4. \A o \in t : o \in Objects /\ ObjectPath(o) \notin DOMAIN files
    <2>1. DOMAIN files \subseteq Paths BY <1>1 DEF RemoteFacts, FilesOk
    <2>2. LooseIds = {o \in Objects : ObjectPath(o) \in DOMAIN files} BY <2>1, ListedObjects
    <2> QED BY <1>2, <1>3, <2>2 DEF OnRemote
  <1>5. pusher.open = << >> /\ pusher.pc = "list" BY DEF PushList, PushAt
  <1>6. pusher' = [pusher EXCEPT !.pc = "upload", !.todo = t] /\ UNCHANGED <<parent, files, used>>
    BY <1>2 DEF PushList
  <1>7. /\ pusher' \in Pushes /\ pusher'.head = pusher.head
        /\ pusher'.todo = t /\ pusher'.open = pusher.open /\ pusher'.branch = pusher.branch
    BY <1>1, <1>4, <1>6 DEF RemoteFacts, Pushes
  <1>8. PushOk(Len(parent), files, pusher') BY <1>1, <1>4, <1>5, <1>7 DEF RemoteFacts, PushOk
  <1> QED BY <1>1, <1>6, <1>8, PusherOnly DEF RemoteFacts

LEMMA FinishPutKeeps ==
  ASSUME RemoteInv, FinishPut
  PROVE  RemoteInv' /\ Grows(parent, files, parent', files')
  <1>1. RemoteFacts BY RemoteFactsHold
  <1>2. PICK p, f, q : p = parent /\ f = files /\ q = pusher OBVIOUS
  <1>3. PICK path, file, g : path = q.open[1] /\ file = q.open[2] /\ g = With(f, path, file) OBVIOUS
  <1>4. PICK n \in Nat : n = Len(p) BY <1>1, <1>2 DEF RemoteFacts
  <1>5. /\ path \in DOMAIN f /\ path \in Paths /\ file \in Files /\ ~file.torn
        /\ FitsPath(n, path, file)
    BY <1>1, <1>2, <1>3, <1>4 DEF FinishPut, RemoteFacts, PushOk, FilesOk
  <1>6. FilesOk(n, f) /\ PushOk(n, f, q) BY <1>1, <1>2, <1>4 DEF RemoteFacts
  <1>7. FilesOk(n, g) BY <1>3, <1>5, <1>6, PutFile
  <1>8. Grows(p, f, p, g) BY <1>3, <1>4, <1>5, PutGrows
  <1>9. /\ files' = g /\ pusher' = [q EXCEPT !.open = << >>] /\ UNCHANGED <<parent, used>>
    BY <1>2, <1>3 DEF FinishPut
  <1>10. PushOk(n, g, pusher')
    <2>1. /\ pusher' \in Pushes /\ pusher'.head = q.head
          /\ pusher'.todo = q.todo /\ pusher'.open = << >>
          /\ pusher'.pc = q.pc /\ pusher'.branch = q.branch
      BY <1>6, <1>9 DEF PushOk, Pushes
    <2>2. DOMAIN g = DOMAIN f BY <1>3, <1>5 DEF With
    <2> QED BY <1>6, <2>1, <2>2 DEF PushOk
  <1> QED BY <1>1, <1>2, <1>4, <1>7, <1>8, <1>9, <1>10 DEF RemoteInv, RemoteFacts

\* A step of the push that puts a file.
LEMMA PutKeeps ==
  ASSUME RemoteInv, parent' = parent, used' \in Counters,
         NEW path \in Paths, NEW file \in Files, FitsPath(Len(parent), path, file), ~file.torn,
         path \notin DOMAIN files \/ \A o : path # ObjectPath(o),
         NEW then, PushOk(Len(parent), files, then), then.open = << >>,
         \A o \in then.todo : ObjectPath(o) # path,
         Put(path, file, then)
  PROVE  RemoteInv' /\ Grows(parent, files, parent', files')
  <1>1. Parents(parent) /\ FilesOk(Len(parent), files) BY DEF RemoteInv
  <1>2. /\ FilesOk(Len(parent'), files') /\ PushOk(Len(parent'), files', pusher')
        /\ Grows(parent, files, parent', files')
    BY <1>1, PutStep
  <1> QED BY <1>1, <1>2 DEF RemoteInv

LEMMA PushObjectKeeps ==
  ASSUME RemoteInv, NEW o \in pusher.todo, PushObject(o)
  PROVE  RemoteInv' /\ Grows(parent, files, parent', files')
  <1>1. RemoteFacts BY RemoteFactsHold
  <1>2. PICK path, file, then : /\ path = ObjectPath(o) /\ file = File(1, 0)
                                /\ then = [pusher EXCEPT !.todo = @ \ {o}]
    OBVIOUS
  <1>3. o \in Objects BY <1>1 DEF RemoteFacts, Pushes
  <1>4. path \in Paths /\ path \notin DOMAIN files
    BY <1>1, <1>2, <1>3 DEF Paths, RemoteFacts, PushOk
  <1>5. file \in Files /\ ~file.torn /\ FitsPath(Len(parent), path, file)
    BY <1>2, PathsDiffer DEF File, Files, FitsPath
  <1>6. /\ then \in Pushes /\ then.head = pusher.head /\ then.open = pusher.open
        /\ then.todo = pusher.todo \ {o}
        /\ then.pc = pusher.pc /\ then.branch = pusher.branch
    BY <1>1, <1>2 DEF RemoteFacts, Pushes
  <1>7. pusher.open = << >> BY DEF PushObject, PushAt
  <1>8. PushOk(Len(parent), files, then) BY <1>1, <1>6, <1>7 DEF RemoteFacts, PushOk
  <1>9. \A x \in then.todo : ObjectPath(x) # path BY <1>2, <1>6, PathsDiffer
  <1>10. Put(path, file, then) /\ parent' = parent /\ used' = used BY <1>2 DEF PushObject
  <1>11. used' \in Counters BY <1>1, <1>10 DEF RemoteFacts
  <1> QED BY <1>4, <1>5, <1>6, <1>7, <1>8, <1>9, <1>10, <1>11, PutKeeps

LEMMA SwapLayoutRootKeeps ==
  ASSUME RemoteInv, SwapLayoutRoot
  PROVE  RemoteInv' /\ Grows(parent, files, parent', files')
  <1>1. RemoteFacts BY RemoteFactsHold
  <1>2. PICK path, file, then : /\ path = LayoutPath /\ then = pusher
                                /\ file = File(1, files[LayoutPath].value + 1)
    OBVIOUS
  <1>4. path \in Paths /\ \A o : path # ObjectPath(o)
    BY <1>1, <1>2, PathsDiffer DEF RemoteFacts
  <1>5. file \in Files /\ ~file.torn /\ FitsPath(Len(parent), path, file)
    BY <1>1, <1>2, PathsDiffer DEF File, Files, FitsPath, RemoteFacts
  <1>7. then.open = << >> BY <1>2 DEF SwapLayoutRoot, PushAt
  <1>8. PushOk(Len(parent), files, then) BY <1>1, <1>2 DEF RemoteFacts
  <1>10. Put(path, file, then) /\ parent' = parent /\ used' = [used EXCEPT !.layouts = @ + 1]
    BY <1>2 DEF SwapLayoutRoot
  <1>11. used' \in Counters BY <1>1, <1>10 DEF RemoteFacts, Counters
  <1>12. \A o \in then.todo : ObjectPath(o) # path BY <1>4
  <1> QED BY <1>4, <1>5, <1>7, <1>8, <1>10, <1>11, <1>12, PutKeeps

LEMMA SwapRefKeeps ==
  ASSUME RemoteInv, SwapRef
  PROVE  RemoteInv' /\ Grows(parent, files, parent', files')
  <1>1. RemoteFacts BY RemoteFactsHold
  <1>2. PICK path, file, then : /\ path = RefPath(pusher.branch)
                                /\ file = File(pusher.seen + 1, pusher.head)
                                /\ then = [pusher EXCEPT !.pc = "end"]
    OBVIOUS
  <1>4. CASE path \in Paths
    <2>1. pusher.open = << >> /\ pusher.todo = {} BY DEF SwapRef, PushAt
    <2>2. \A o : path # ObjectPath(o) BY <1>2, PathsDiffer
    <2>3. file \in Files /\ ~file.torn /\ FitsPath(Len(parent), path, file)
      <3>1. pusher.head \in 0..Len(parent) /\ pusher.seen \in Int
        BY <1>1 DEF RemoteFacts, PushOk, Pushes
      <3>2. file \in Files /\ ~file.torn /\ file.value = pusher.head
        BY <1>1, <1>2, <3>1 DEF File, Files, RemoteFacts
      <3> QED BY <3>1, <3>2 DEF FitsPath
    <2>4. /\ then \in Pushes /\ then.head = pusher.head /\ then.open = << >> /\ then.todo = {}
          /\ then.pc = "end"
      BY <1>1, <1>2, <2>1 DEF RemoteFacts, Pushes
    <2>5. PushOk(Len(parent), files, then) BY <1>1, <2>4 DEF RemoteFacts, PushOk
    <2>6. Put(path, file, then) /\ parent' = parent /\ used' = used BY <1>2 DEF SwapRef
    <2>7. used' \in Counters BY <1>1, <2>6 DEF RemoteFacts
    <2>8. \A o \in then.todo : ObjectPath(o) # path BY <2>4
    <2> QED BY <1>4, <2>2, <2>3, <2>4, <2>5, <2>6, <2>7, <2>8, PutKeeps
  <1>5. path \in Paths
    <2>1. pusher.branch \in Branches BY <1>1 DEF SwapRef, PushAt, RemoteFacts, PushOk
    <2> QED BY <1>1, <1>2, <2>1 DEF RemoteFacts
  <1> QED BY <1>4, <1>5

LEMMA PushEndKeeps ==
  ASSUME RemoteInv, PushEnd
  PROVE  RemoteInv' /\ Grows(parent, files, parent', files')
  <1>1. RemoteFacts BY RemoteFactsHold
  <1>2. pusher' = NoPush /\ UNCHANGED <<parent, files, used>> BY DEF PushEnd
  <1>3. PushOk(Len(parent), files, NoPush) BY <1>1 DEF NoPush, PushOk, Pushes, RemoteFacts
  <1> QED BY <1>1, <1>2, <1>3, PusherOnly DEF RemoteFacts

LEMMA RotatePointerKeeps ==
  ASSUME RemoteInv, RotatePointer
  PROVE  RemoteInv' /\ Grows(parent, files, parent', files')
  <1>1. RemoteFacts BY RemoteFactsHold
  <1>2. PICK next : next = files[PointerPath].version + 1 OBVIOUS
  <1>3. PICK path, file, then : /\ path = PointerPath /\ file = File(next, next)
                                /\ then = [NoPush EXCEPT !.pc = "end"]
    OBVIOUS
  <1>4. path \in Paths /\ \A o : path # ObjectPath(o)
    BY <1>1, <1>3, PathsDiffer DEF RemoteFacts
  <1>5. file \in Files /\ ~file.torn /\ FitsPath(Len(parent), path, file)
    BY <1>1, <1>2, <1>3, PathsDiffer DEF File, Files, FitsPath, RemoteFacts
  <1>6. /\ then \in Pushes /\ then.head = 0 /\ then.open = << >> /\ then.todo = {}
        /\ then.pc = "end"
    BY <1>3 DEF NoPush, Pushes
  <1>8. PushOk(Len(parent), files, then) BY <1>1, <1>6 DEF RemoteFacts, PushOk
  <1>10. Put(path, file, then) /\ parent' = parent /\ used' = [used EXCEPT !.rotations = @ + 1]
    BY <1>2, <1>3 DEF RotatePointer
  <1>11. used' \in Counters BY <1>1, <1>10 DEF RemoteFacts, Counters
  <1>12. \A o \in then.todo : ObjectPath(o) # path BY <1>4
  <1> QED BY <1>4, <1>5, <1>6, <1>8, <1>10, <1>11, <1>12, PutKeeps

LEMMA PusherCrashKeeps ==
  ASSUME RemoteInv, PusherCrash
  PROVE  RemoteInv' /\ Grows(parent, files, parent', files')
  <1>1. RemoteFacts BY RemoteFactsHold
  <1>2. /\ pusher' = [pusher EXCEPT !.pc = "idle", !.open = << >>]
        /\ used' = [used EXCEPT !.crashes = @ + 1] /\ UNCHANGED <<parent, files>>
    BY DEF PusherCrash
  <1>3. /\ pusher' \in Pushes /\ pusher'.head = pusher.head /\ pusher'.pc = "idle"
        /\ pusher'.todo = pusher.todo /\ pusher'.open = << >>
    BY <1>1, <1>2 DEF RemoteFacts, Pushes
  <1>4. PushOk(Len(parent), files, pusher') BY <1>1, <1>3 DEF RemoteFacts, PushOk
  <1>5. used' \in Counters BY <1>1, <1>2 DEF RemoteFacts, Counters
  <1> QED BY <1>2, <1>4, <1>5, PusherOnly

LEMMA RemoteKeeps ==
  ASSUME RemoteInv, RemoteStep
  PROVE  RemoteInv' /\ Grows(parent, files, parent', files')
  BY PushStartKeeps, PushListKeeps, PushObjectKeeps, FinishPutKeeps, SwapLayoutRootKeeps,
     SwapRefKeeps, PushEndKeeps, RotatePointerKeeps, PusherCrashKeeps DEF RemoteStep

----------------------------------------------------------------------------
(* The device, with the objects o, the control files r, the operation w    *)
(* and the success d reported last, and a remote with the snapshots p and  *)
(* the files f.                                                            *)

RecordNames == {Default, Layout, Pointer} \cup Branches

DefaultRefs == [branch : Branches \cup {"none"}, head : Nat]

Works ==
  [op : {"none", "clone", "fetch", "verify", "repair", "accept"},
   pc : {"idle", "list", "validate", "copy", "packed", "control", "verify"},
   ref : DefaultRefs,
   control : {<< >>} \cup [head : Int, pointer : Int, layout : Int],
   mode : {"none", "replace", "unchanged", "changed", "mismatch"},
   plan : BOOLEAN, loose : SUBSET Objects, todo : SUBSET Objects,
   open : {<< >>} \cup (Objects \X {Good, Bad}) \cup {<<name>> : name \in RecordNames \cup {"none"}},
   next : Seq(RecordNames \cup {"none"}), before : SUBSET Objects]

Pulls == {"clone", "fetch"}

GoodIn(o) == {x \in DOMAIN o : o[x] = Good}

\* The object that is being written whole.
Coming(w) == {x \in Objects : w.open = <<x, Good>>}

There(o, w) == GoodIn(o) \cup w.todo \cup Coming(w)

\* What was validated is there, or comes; the head goes after it.
PullOk(p, f, o, r, w) ==
  LET graph == GraphOf(p, w.ref.head)
  IN /\ w.pc \in {"list", "validate", "copy", "packed", "control"}
     /\ w.pc \in {"list", "validate"} => w.open = << >>
     /\ w.op = "clone" /\ w.pc \in {"list", "validate"} => o = << >> /\ r = NoRecords
     /\ w.pc = "copy" /\ w.plan => graph \subseteq There(o, w)
     /\ w.pc = "copy" /\ ~w.plan =>
          graph \ Packed \subseteq There(o, w) /\ \A x \in graph \ Packed : LooseIn(f, x)
     /\ w.pc = "packed" => graph \subseteq There(o, w)
     /\ w.pc = "control" =>
          /\ graph \subseteq GoodIn(o)
          /\ r[Default] = Is(w.ref) \/ (w.next # << >> /\ Head(w.next) = Default)

WorkOk(p, f, o, r, w) ==
  /\ w \in Works /\ w.ref.head \in 0..Len(p)
  /\ IF w.op = "none" THEN w = Idle ELSE w.ref.branch \in Branches
  /\ \A x \in w.loose : ObjectPath(x) \in DOMAIN f
  /\ w.open # << >> /\ w.pc # "control" =>
       w.open \in Objects \X {Good, Bad} /\ w.open[1] \notin GoodIn(o)
  /\ w.open # << >> /\ w.pc = "control" => w.next # << >>
  /\ w.op \in Pulls => PullOk(p, f, o, r, w)
  /\ w.op = "verify" => w.pc = "copy" /\ w.before \subseteq GoodIn(o) \cup Coming(w)

RecordsOk(p, r) ==
  /\ DOMAIN r = RecordNames
  /\ r[Default].value \in DefaultRefs /\ r[Default].value.head \in 0..Len(p)
  /\ r[Default].state = "whole" => r[Default].value.branch \in Branches

HeadIsWhole(p, o, r) ==
  r[Default].state = "whole" /\ GraphOf(p, r[Default].value.head) \subseteq GoodIn(o)

DeviceOk(p, f, o, r, w, d) ==
  /\ DOMAIN o \subseteq Objects /\ RecordsOk(p, r) /\ WorkOk(p, f, o, r, w)
  /\ d # "none" => w = Idle
  /\ d \in {"clone", "fetch", "accept"} => HeadIsWhole(p, o, r)

TransferInv == RemoteInv /\ DeviceOk(parent, files, objects, records, work, done)

\* What a step of an operation may do to the objects and the head.
Spares(p, o, r, w, p1, o1, r1, w1, same) ==
  /\ w.op \in Pulls => /\ GoodIn(o) \subseteq GoodIn(o1)
                       /\ HeadIsWhole(p, o, r) => HeadIsWhole(p1, o1, r1)
  /\ w.op = "verify" /\ w1 = Idle /\ same => w.before \subseteq GoodIn(o1)

DeviceKeeps ==
  /\ DeviceOk(parent', files', objects', records', work', done')
  /\ Spares(parent, objects, records, work, parent', objects', records', work', used' = used)

LEMMA HeadsAreTheSame ==
  /\ DefaultIsWhole <=> HeadIsWhole(parent, objects, records)
  /\ GoodObjects = GoodIn(objects)
  /\ \A h : Whole(h) <=> GraphOf(parent, h) \subseteq GoodIn(objects)
  <1>1. GoodObjects = GoodIn(objects) BY DEF GoodObjects, GoodIn
  <1>2. ASSUME NEW h PROVE Whole(h) <=> GraphOf(parent, h) \subseteq GoodIn(objects)
    <2>1. Graph(h) = GraphOf(parent, h) BY GraphIsGraphOf
    <2>2. \A x : IsGood(x) <=> x \in GoodIn(objects) BY DEF IsGood, Have, GoodIn
    <2> QED BY <2>1, <2>2 DEF Whole
  <1>3. DefaultIsWhole <=> HeadIsWhole(parent, objects, records)
    BY <1>2 DEF DefaultIsWhole, HeadIsWhole
  <1> QED BY <1>1, <1>2, <1>3

LEMMA IdleIsOk ==
  ASSUME NEW p, Len(p) \in Nat, NEW f, NEW o, NEW r
  PROVE  WorkOk(p, f, o, r, Idle) /\ Idle \in Works /\ Idle.op = "none" /\ Idle.open = << >>
  <1>1. Idle \in Works BY DEF Idle, Works, NoRef, At, DefaultRefs
  <1>2. /\ Idle.op = "none" /\ Idle.open = << >> /\ Idle.ref.head = 0 /\ Idle.loose = {}
    BY DEF Idle, NoRef, At
  <1> QED BY <1>1, <1>2 DEF WorkOk, Pulls

\* What another device pushes does not matter to the operation.
LEMMA DeviceIsSpared ==
  ASSUME NEW p, NEW f, NEW o, NEW r, NEW w, NEW d, DeviceOk(p, f, o, r, w, d),
         NEW p1, NEW f1, Grows(p, f, p1, f1), Parents(p), Parents(p1)
  PROVE  /\ DeviceOk(p1, f1, o, r, w, d)
         /\ HeadIsWhole(p, o, r) => HeadIsWhole(p1, o, r)
  <1>0. Len(p) \in Nat /\ Len(p1) \in Nat BY LenProperties DEF Parents
  <1>1. \A h \in 0..Len(p) : h \in 0..Len(p1) /\ GraphOf(p1, h) = GraphOf(p, h)
    BY <1>0 DEF Grows
  <1>2. w.ref.head \in 0..Len(p) /\ r[Default].value.head \in 0..Len(p)
    BY DEF DeviceOk, WorkOk, RecordsOk
  <1>3. /\ GraphOf(p1, w.ref.head) = GraphOf(p, w.ref.head)
        /\ GraphOf(p1, r[Default].value.head) = GraphOf(p, r[Default].value.head)
        /\ w.ref.head \in 0..Len(p1) /\ r[Default].value.head \in 0..Len(p1)
    BY <1>1, <1>2
  <1>4. HeadIsWhole(p, o, r) => HeadIsWhole(p1, o, r) BY <1>3 DEF HeadIsWhole
  <1>5. RecordsOk(p1, r) BY <1>3 DEF DeviceOk, RecordsOk
  <1>6. GraphOf(p, w.ref.head) \subseteq Objects BY <1>2, GraphHasObjects
  <1>7. PullOk(p, f, o, r, w) => PullOk(p1, f1, o, r, w) BY <1>3, <1>6 DEF PullOk, Grows
  <1>8. WorkOk(p1, f1, o, r, w) BY <1>3, <1>7 DEF DeviceOk, WorkOk, Grows
  <1> QED BY <1>4, <1>5, <1>8 DEF DeviceOk

LEMMA RemoteStepSpares ==
  ASSUME TransferInv, RemoteStep, UNCHANGED deviceVars
  PROVE  RemoteInv' /\ DeviceKeeps
  <1>1. RemoteInv' /\ Grows(parent, files, parent', files') BY RemoteKeeps DEF TransferInv
  <1>2. Parents(parent) /\ Parents(parent') BY <1>1 DEF TransferInv, RemoteInv
  <1>3. PICK p, f, o, r, w, d, p1, f1 :
          /\ p = parent /\ f = files /\ o = objects /\ r = records /\ w = work /\ d = done
          /\ p1 = parent' /\ f1 = files'
    OBVIOUS
  <1>4. DeviceOk(p1, f1, o, r, w, d) /\ (HeadIsWhole(p, o, r) => HeadIsWhole(p1, o, r))
    BY <1>1, <1>2, <1>3, DeviceIsSpared DEF TransferInv
  <1>5. objects' = o /\ records' = r /\ work' = w /\ done' = d BY <1>3 DEF deviceVars
  <1>6. w.op = "verify" => w # Idle BY DEF Idle
  <1> QED BY <1>1, <1>3, <1>4, <1>5, <1>6 DEF DeviceKeeps, Spares

----------------------------------------------------------------------------
(* Writing an object.                                                      *)

Wrote(w, x, v) == [w EXCEPT !.open = <<x, v>>, !.todo = @ \ {x}]

Opened(o, w, x, v, u, w1) ==
  /\ w1 \in Works /\ x \in Objects
  /\ w1.op = w.op /\ w1.pc = w.pc /\ w1.ref = w.ref /\ w1.plan = w.plan
  /\ w1.loose = w.loose /\ w1.next = w.next /\ w1.before = w.before
  /\ w1.open = <<x, v>> /\ w1.open[1] = x /\ w1.open \in Objects \X {Good, Bad}
  /\ GoodIn(u) = GoodIn(o) \ {x} /\ DOMAIN u = DOMAIN o \cup {x}
  /\ Coming(w1) = (IF v = Good THEN {x} ELSE {})
  /\ \A y : y # x /\ y \in There(o, w) => y \in There(u, w1)

LEMMA Opens ==
  ASSUME NEW o, NEW w \in Works, w.open = << >>, NEW x \in w.todo, NEW v \in {Good, Bad},
         NEW u, u = With(o, x, Bad), NEW w1, w1 = Wrote(w, x, v)
  PROVE  Opened(o, w, x, v, u, w1)
  <1>1. w.todo \subseteq Objects BY DEF Works
  <1>2. x \in Objects BY <1>1
  <1>3. <<x, v>> \in Objects \X {Good, Bad} BY <1>2
  <1>4. w1 \in Works BY <1>3 DEF Works, Wrote
  <1>5. /\ w1.op = w.op /\ w1.pc = w.pc /\ w1.ref = w.ref /\ w1.plan = w.plan
        /\ w1.loose = w.loose /\ w1.next = w.next /\ w1.before = w.before
        /\ w1.open = <<x, v>> /\ w1.todo = w.todo \ {x}
    BY DEF Works, Wrote
  <1>6. GoodIn(u) = GoodIn(o) \ {x} /\ DOMAIN u = DOMAIN o \cup {x}
    BY DEF With, GoodIn, Good, Bad
  <1>7. Coming(w) = {} BY DEF Coming
  <1>8. Coming(w1) = (IF v = Good THEN {x} ELSE {})
    <2>1. \A y \in Objects : w1.open = <<y, Good>> <=> (y = x /\ v = Good) BY <1>5
    <2> QED BY <1>2, <2>1 DEF Coming
  <1>9. \A y : y # x /\ y \in There(o, w) => y \in There(u, w1) BY <1>5, <1>6, <1>7 DEF There
  <1>10. w1.open[1] = x BY <1>5
  <1> QED BY <1>2, <1>3, <1>4, <1>5, <1>6, <1>8, <1>9, <1>10 DEF Opened

LEMMA Closes ==
  ASSUME NEW o, NEW w \in Works, w.open \in Objects \X {Good, Bad}, w.open[1] \notin GoodIn(o),
         NEW u, u = With(o, w.open[1], w.open[2]), NEW w1, w1 = [w EXCEPT !.open = << >>]
  PROVE  /\ w1 \in Works
         /\ w1.op = w.op /\ w1.pc = w.pc /\ w1.ref = w.ref /\ w1.plan = w.plan
         /\ w1.loose = w.loose /\ w1.next = w.next /\ w1.before = w.before /\ w1.open = << >>
         /\ DOMAIN u \subseteq DOMAIN o \cup Objects
         /\ GoodIn(o) \cup Coming(w) \subseteq GoodIn(u)
         /\ There(o, w) \subseteq There(u, w1)
  <1>1. PICK x \in Objects, v \in {Good, Bad} : w.open = <<x, v>> OBVIOUS
  <1>2. w.open[1] = x /\ w.open[2] = v /\ u = With(o, x, v) BY <1>1
  <1>3. /\ w1 \in Works
        /\ w1.op = w.op /\ w1.pc = w.pc /\ w1.ref = w.ref /\ w1.plan = w.plan
        /\ w1.loose = w.loose /\ w1.next = w.next /\ w1.before = w.before
        /\ w1.open = << >> /\ w1.todo = w.todo
    BY DEF Works
  <1>4. /\ v = Good => GoodIn(u) = GoodIn(o) \cup {x}
        /\ v = Bad => GoodIn(u) = GoodIn(o) \ {x}
        /\ DOMAIN u = DOMAIN o \cup {x}
    BY <1>2 DEF With, GoodIn, Good, Bad
  <1>5. Coming(w) = (IF v = Good THEN {x} ELSE {})
    <2>1. \A y \in Objects : w.open = <<y, Good>> <=> (y = x /\ v = Good) BY <1>1
    <2> QED BY <2>1 DEF Coming
  <1>6. GoodIn(o) \cup Coming(w) \subseteq GoodIn(u) BY <1>1, <1>2, <1>4, <1>5
  <1>7. There(o, w) \subseteq There(u, w1) BY <1>3, <1>6 DEF There
  <1> QED BY <1>1, <1>3, <1>4, <1>6, <1>7

----------------------------------------------------------------------------
(* Clone and fetch.                                                        *)

DeviceFacts ==
  /\ RemoteFacts /\ work \in Works
  /\ DOMAIN objects \subseteq Objects /\ GoodObjects \subseteq Objects
  /\ GoodIn(objects) = GoodObjects
  /\ RecordsOk(parent, records) /\ WorkOk(parent, files, objects, records, work)
  /\ done # "none" => work = Idle
  /\ LooseIds = {x \in Objects : ObjectPath(x) \in DOMAIN files}
  /\ Packed \subseteq Objects
  /\ \A h \in 0..Len(parent) : Graph(h) = GraphOf(parent, h) /\ Graph(h) \subseteq Objects

LEMMA DeviceFactsHold ==
  ASSUME TransferInv
  PROVE  DeviceFacts
  <1>1. RemoteFacts BY RemoteFactsHold DEF TransferInv
  <1>2. GoodIn(objects) = GoodObjects BY HeadsAreTheSame
  <1>3. DOMAIN objects \subseteq Objects BY DEF TransferInv, DeviceOk
  <1>4. GoodObjects \subseteq Objects BY <1>3 DEF GoodObjects
  <1>5. LooseIds = {x \in Objects : ObjectPath(x) \in DOMAIN files}
    BY <1>1, ListedObjects DEF RemoteFacts, FilesOk
  <1>6. Packed \subseteq Objects
    <2>1. DOMAIN History \subseteq Nat
      <3>1. PICK q \in Seq(Nat) : q = History BY FilesAssumption
      <3>2. DOMAIN q = 1..Len(q) /\ Len(q) \in Nat BY <3>1, LenProperties
      <3> QED BY <3>1, <3>2
    <2>2. PackedAtFirst \subseteq Nat BY <2>1, FilesAssumption
    <2> QED BY <2>2 DEF Packed, Objects
  <1>7. \A h \in 0..Len(parent) : Graph(h) = GraphOf(parent, h) /\ Graph(h) \subseteq Objects
    BY <1>1, GraphIsGraphOf, GraphHasObjects DEF RemoteFacts
  <1> QED BY <1>1, <1>2, <1>3, <1>4, <1>5, <1>6, <1>7 DEF TransferInv, DeviceOk, WorkOk, DeviceFacts

\* What a step that reports no success has to keep.
LEMMA Working ==
  ASSUME TransferInv, UNCHANGED <<parent, files, records>>, done' = "none",
         DOMAIN objects' \subseteq Objects,
         WorkOk(parent, files, objects', records, work'),
         work.op \in Pulls => GoodIn(objects) \subseteq GoodIn(objects'),
         work.op = "verify" /\ work' = Idle /\ used' = used => work.before \subseteq GoodIn(objects')
  PROVE  DeviceKeeps
  <1>1. RecordsOk(parent, records) BY DEF TransferInv, DeviceOk
  <1>2. DeviceOk(parent', files', objects', records', work', done') BY <1>1 DEF DeviceOk
  <1>3. work.op \in Pulls /\ HeadIsWhole(parent, objects, records)
          => HeadIsWhole(parent', objects', records')
    BY DEF HeadIsWhole
  <1> QED BY <1>2, <1>3 DEF DeviceKeeps, Spares

LEMMA NotIdle ==
  ASSUME TransferInv, work.op # "none"
  PROVE  done = "none"
  BY DEF TransferInv, DeviceOk, Idle

LEMMA ControlIsTyped ==
  ASSUME RemoteFacts, NEW b \in Branches
  PROVE  /\ Control(b) \in [head : Int, pointer : Int, layout : Int]
         /\ Control(b).head \in 0..Len(parent)
  BY DEF RemoteFacts, Control, Files

LEMMA StartCloneKeeps ==
  ASSUME TransferInv, NEW b \in Branches, StartClone(b)
  PROVE  DeviceKeeps
  <1>1. DeviceFacts BY DeviceFactsHold
  <1>2. work = Idle /\ work.op = "none" BY <1>1, IdleIsOk DEF StartClone, MayRun, DeviceFacts, RemoteFacts
  <1>3. PICK c : c = Control(b) OBVIOUS
  <1>4. c \in [head : Int, pointer : Int, layout : Int] /\ c.head \in 0..Len(parent)
    BY <1>1, <1>3, ControlIsTyped DEF DeviceFacts
  <1>5. PICK a : a = At(b, c.head) OBVIOUS
  <1>6. a \in DefaultRefs /\ a.head = c.head /\ a.branch = b
    BY <1>1, <1>4, <1>5 DEF At, DefaultRefs, DeviceFacts, RemoteFacts
  <1>7. work' = [Idle EXCEPT !.op = "clone", !.pc = "list", !.mode = "replace", !.plan = TRUE,
                             !.ref = a, !.control = c]
    BY <1>3, <1>5 DEF StartClone
  <1>8. /\ work' \in Works /\ work'.op = "clone" /\ work'.pc = "list" /\ work'.ref = a
        /\ work'.loose = {} /\ work'.open = << >>
    <2>1. PICK i \in Works : i = Idle BY <1>1, IdleIsOk DEF DeviceFacts, RemoteFacts
    <2>2. i.loose = {} /\ i.open = << >> BY <2>1 DEF Idle
    <2> QED BY <1>4, <1>6, <1>7, <2>1, <2>2 DEF Works
  <1>9. objects = << >> /\ records = NoRecords /\ UNCHANGED <<parent, files, objects, records>>
        /\ done' = "none"
    BY DEF StartClone, Run
  <1>10. PullOk(parent, files, objects, records, work') BY <1>8, <1>9 DEF PullOk
  <1>11. WorkOk(parent, files, objects, records, work') BY <1>4, <1>6, <1>8, <1>10 DEF WorkOk, Pulls
  <1> QED BY <1>1, <1>2, <1>9, <1>11, Working DEF DeviceFacts, Pulls

LEMMA ModeIsTyped ==
  Mode \in {"replace", "unchanged", "changed", "mismatch"}
  BY DEF Mode

LEMMA StartFetchKeeps ==
  ASSUME TransferInv, NEW b \in Branches, StartFetch(b)
  PROVE  DeviceKeeps
  <1>1. DeviceFacts BY DeviceFactsHold
  <1>2. work = Idle /\ work.op = "none" BY <1>1, IdleIsOk DEF StartFetch, MayRun, DeviceFacts, RemoteFacts
  <1>3. PICK c : c = Control(b) OBVIOUS
  <1>4. c \in [head : Int, pointer : Int, layout : Int] /\ c.head \in 0..Len(parent)
    BY <1>1, <1>3, ControlIsTyped DEF DeviceFacts
  <1>5. PICK a : a = At(b, c.head) OBVIOUS
  <1>6. a \in DefaultRefs /\ a.head = c.head /\ a.branch = b
    BY <1>1, <1>4, <1>5 DEF At, DefaultRefs, DeviceFacts, RemoteFacts
  <1>7. PICK password \in BOOLEAN :
          work' = [Idle EXCEPT !.op = "fetch", !.pc = "list", !.mode = Mode,
                               !.plan = password /\ Mode # "changed",
                               !.ref = a, !.control = c, !.before = GoodObjects]
    BY <1>3, <1>5 DEF StartFetch
  <1>8. PICK m, planned, g : m = Mode /\ planned = (password /\ Mode # "changed") /\ g = GoodObjects
    OBVIOUS
  <1>9. m \in {"replace", "unchanged", "changed", "mismatch"} /\ planned \in BOOLEAN /\ g \subseteq Objects
    BY <1>1, <1>8, ModeIsTyped DEF DeviceFacts
  <1>10. work' = [Idle EXCEPT !.op = "fetch", !.pc = "list", !.mode = m, !.plan = planned,
                              !.ref = a, !.control = c, !.before = g]
    BY <1>7, <1>8
  <1>11. /\ work' \in Works /\ work'.op = "fetch" /\ work'.pc = "list" /\ work'.ref = a
         /\ work'.loose = {} /\ work'.open = << >>
    <2>1. PICK i \in Works : i = Idle BY <1>1, IdleIsOk DEF DeviceFacts, RemoteFacts
    <2>2. i.loose = {} /\ i.open = << >> BY <2>1 DEF Idle
    <2>3. PICK j : j = [i EXCEPT !.op = "fetch", !.pc = "list", !.mode = m, !.plan = planned] OBVIOUS
    <2>4. work' = [j EXCEPT !.ref = a, !.control = c, !.before = g] BY <1>10, <2>1, <2>3, Zenon
    <2>5. j \in Works /\ j.op = "fetch" /\ j.pc = "list" /\ j.loose = {} /\ j.open = << >>
      BY <1>9, <2>2, <2>3 DEF Works
    <2> QED BY <1>4, <1>6, <1>9, <2>4, <2>5 DEF Works
  <1>12. UNCHANGED <<parent, files, objects, records>> /\ done' = "none"
    BY DEF StartFetch, Run
  <1>13. PullOk(parent, files, objects, records, work') BY <1>11 DEF PullOk
  <1>14. WorkOk(parent, files, objects, records, work') BY <1>4, <1>6, <1>11, <1>13 DEF WorkOk, Pulls
  <1> QED BY <1>1, <1>2, <1>12, <1>14, Working DEF DeviceFacts, Pulls

LEMMA ListObjectsKeeps ==
  ASSUME TransferInv, ListObjects
  PROVE  DeviceKeeps
  <1>1. DeviceFacts BY DeviceFactsHold
  <1>2. work.op \in Pulls /\ work.pc = "list" /\ work.open = << >>
    BY DEF ListObjects, Fetching, Pulls
  <1>3. PICK l : l = LooseIds OBVIOUS
  <1>4. work' = [work EXCEPT !.pc = "validate", !.loose = l] BY <1>3 DEF ListObjects
  <1>5. l \subseteq Objects /\ \A x \in l : ObjectPath(x) \in DOMAIN files BY <1>1, <1>3 DEF DeviceFacts
  <1>6. /\ work' \in Works /\ work'.op = work.op /\ work'.pc = "validate" /\ work'.ref = work.ref
        /\ work'.loose = l /\ work'.open = << >>
    BY <1>1, <1>2, <1>4, <1>5 DEF DeviceFacts, Works
  <1>7. UNCHANGED <<parent, files, objects, records, done>> BY DEF ListObjects, fileVars
  <1>8. WorkOk(parent, files, objects, records, work) BY <1>1 DEF DeviceFacts
  <1>9. PullOk(parent, files, objects, records, work') BY <1>2, <1>6, <1>8 DEF WorkOk, PullOk
  <1>10. WorkOk(parent, files, objects, records, work') BY <1>2, <1>5, <1>6, <1>8, <1>9 DEF WorkOk, Pulls
  <1>11. done = "none" BY <1>2, NotIdle DEF Pulls
  <1> QED BY <1>1, <1>2, <1>7, <1>10, <1>11, Working DEF DeviceFacts, Pulls

\* What an operation returns, when it has taken no object.
LEMMA Returns ==
  ASSUME TransferInv, UNCHANGED <<parent, files, records>>, work' = Idle,
         DOMAIN objects' \subseteq Objects, GoodIn(objects) \subseteq GoodIn(objects'),
         work.op = "verify" => work.before \subseteq GoodIn(objects'),
         done' \in {"clone", "fetch", "accept"} => HeadIsWhole(parent, objects', records)
  PROVE  DeviceKeeps
  <1>1. RecordsOk(parent, records) BY DEF TransferInv, DeviceOk
  <1>2. Len(parent) \in Nat BY DeviceFactsHold DEF DeviceFacts, RemoteFacts
  <1>3. WorkOk(parent, files, objects', records, Idle) BY <1>2, IdleIsOk
  <1>4. DeviceOk(parent', files', objects', records', work', done') BY <1>1, <1>3 DEF DeviceOk
  <1>5. work.op \in Pulls /\ HeadIsWhole(parent, objects, records)
          => HeadIsWhole(parent', objects', records')
    BY DEF HeadIsWhole
  <1> QED BY <1>4, <1>5 DEF DeviceKeeps, Spares

LEMMA ValidateKeeps ==
  ASSUME TransferInv, Validate
  PROVE  DeviceKeeps
  <1>1. DeviceFacts BY DeviceFactsHold
  <1>2. work.op \in Pulls /\ work.pc = "validate" /\ work.open = << >> /\ work.op # "verify"
    BY DEF Validate, Fetching, Pulls
  <1>3. UNCHANGED <<parent, files, objects, records>> BY DEF Validate, fileVars
  <1>4. WorkOk(parent, files, objects, records, work) BY <1>1 DEF DeviceFacts
  <1>5. CASE UpToDate
    <2>1. work' = Idle BY <1>5 DEF Validate, FetchReturns
    <2>2. HeadIsWhole(parent, objects, records) BY <1>5, HeadsAreTheSame DEF UpToDate
    <2> QED BY <1>1, <1>2, <1>3, <2>1, <2>2, Returns DEF DeviceFacts
  <1>6. CASE ~UpToDate
    <2>1. PICK t : t = IF work.plan THEN Graph(work.ref.head) ELSE work.loose OBVIOUS
    <2>2. work' = [work EXCEPT !.pc = "copy", !.todo = t] /\ done' = done
      BY <1>6, <2>1 DEF Validate
    <2>3. /\ work.ref.head \in 0..Len(parent) /\ work.loose \subseteq Objects
          /\ \A x \in work.loose : ObjectPath(x) \in DOMAIN files
      BY <1>1, <1>4 DEF WorkOk, DeviceFacts, Works
    <2>4. PICK graph : graph = Graph(work.ref.head) OBVIOUS
    <2>5. graph = GraphOf(parent, work.ref.head) /\ graph \subseteq Objects
      BY <1>1, <2>3, <2>4 DEF DeviceFacts
    <2>6. t \subseteq Objects BY <2>1, <2>3, <2>4, <2>5
    <2>7. /\ work' \in Works /\ work'.op = work.op /\ work'.pc = "copy" /\ work'.ref = work.ref
          /\ work'.loose = work.loose /\ work'.open = << >> /\ work'.todo = t
          /\ work'.plan = work.plan
      BY <1>1, <1>2, <2>2, <2>6 DEF DeviceFacts, Works
    <2>8. ASSUME NEW x \in graph \ Packed, ~work.plan
          PROVE  x \in t /\ LooseIn(files, x)
      <3>1. Authentic(x, work.loose) BY <2>4 DEF Validate, RemoteIsWhole
      <3>2. x \in work.loose /\ Decodes(ObjectPath(x))
        BY <2>8, <3>1 DEF Authentic, RemoteBytes, Good, Bad
      <3> QED BY <2>1, <2>3, <2>8, <3>2 DEF LooseIn, Decodes
    <2>9. PullOk(parent, files, objects, records, work')
      <3>1. work'.plan => graph \subseteq There(objects, work') BY <2>1, <2>4, <2>7 DEF There
      <3>2. ~work'.plan => graph \ Packed \subseteq There(objects, work') BY <2>7, <2>8 DEF There
      <3>3. ~work'.plan => \A x \in graph \ Packed : LooseIn(files, x) BY <2>7, <2>8
      <3> QED BY <1>2, <2>5, <2>7, <3>1, <3>2, <3>3 DEF PullOk
    <2>10. WorkOk(parent, files, objects, records, work')
      BY <1>2, <1>4, <2>3, <2>7, <2>9 DEF WorkOk, Pulls
    <2>11. done = "none" BY <1>2, NotIdle DEF Pulls
    <2> QED BY <1>1, <1>2, <1>3, <2>2, <2>10, <2>11, Working DEF DeviceFacts, Pulls
  <1> QED BY <1>5, <1>6

LEMMA CopyObjectKeeps ==
  ASSUME TransferInv, NEW x \in work.todo, CopyObject(x)
  PROVE  DeviceKeeps
  <1>1. DeviceFacts BY DeviceFactsHold
  <1>2. work.op \in Pulls /\ work.pc \in {"copy", "packed"} /\ work.open = << >>
    BY DEF CopyObject, Copying, Fetching, Pulls
  <1>3. UNCHANGED <<parent, files, records, done>> BY DEF CopyObject, fileVars
  <1>4. WorkOk(parent, files, objects, records, work) /\ PullOk(parent, files, objects, records, work)
    BY <1>1, <1>2 DEF DeviceFacts, WorkOk
  <1>5. done = "none" BY <1>2, NotIdle DEF Pulls
  <1>6. PICK graph : graph = GraphOf(parent, work.ref.head) OBVIOUS
  <1>7. CASE Needed(x)
    <2>1. PICK v : v = BytesFor(x) OBVIOUS
    <2>2. v \in {Good, Bad} BY <2>1 DEF BytesFor
    <2>3. PICK o, w, u, w1 : /\ o = objects /\ w = work /\ u = With(o, x, Bad)
                             /\ w1 = Wrote(w, x, v)
      OBVIOUS
    <2>4. objects' = u /\ work' = w1 BY <1>7, <2>1, <2>3 DEF CopyObject, StartWrite, Wrote
    <2>5. w \in Works /\ w.open = << >> /\ x \in w.todo BY <1>1, <1>2, <2>3 DEF DeviceFacts
    <2>16. Opened(o, w, x, v, u, w1) BY <2>2, <2>3, <2>5, Opens
    <2>6. /\ w1 \in Works /\ x \in Objects
          /\ w1.op = w.op /\ w1.pc = w.pc /\ w1.ref = w.ref /\ w1.plan = w.plan
          /\ w1.loose = w.loose
          /\ w1.open[1] = x /\ w1.open \in Objects \X {Good, Bad}
          /\ GoodIn(u) = GoodIn(o) \ {x} /\ DOMAIN u = DOMAIN o \cup {x}
          /\ Coming(w1) = (IF v = Good THEN {x} ELSE {})
          /\ \A y : y # x /\ y \in There(o, w) => y \in There(u, w1)
      BY <2>16 DEF Opened
    <2>7. x \notin GoodIn(o) BY <1>7, <2>3 DEF Needed, IsGood, Have, GoodIn
    <2>8. GoodIn(o) = GoodIn(u) BY <2>6, <2>7
    <2>9. v = Good => There(o, w) \subseteq There(u, w1) BY <2>6 DEF There
    <2>10. LooseIn(files, x) \/ work.plan \/ work.pc = "packed" => v = Good
      <3>1. work.plan \/ work.pc = "packed" => v = Good BY <2>1 DEF BytesFor
      <3>2. LooseIn(files, x) => Decodes(ObjectPath(x)) BY DEF LooseIn, Decodes
      <3>3. Decodes(ObjectPath(x)) => v = Good BY <2>1 DEF BytesFor
      <3> QED BY <3>1, <3>2, <3>3
    <2>11. PullOk(parent, files, u, records, w1)
      <3>1. w.pc = "copy" /\ w.plan => graph \subseteq There(u, w1)
        BY <1>4, <1>6, <2>3, <2>9, <2>10 DEF PullOk
      <3>2. w.pc = "packed" => graph \subseteq There(u, w1)
        BY <1>4, <1>6, <2>3, <2>9, <2>10 DEF PullOk
      <3>3. ASSUME w.pc = "copy", ~w.plan, NEW y \in graph \ Packed
            PROVE  y \in There(u, w1) /\ LooseIn(files, y)
        <4>1. y \in There(o, w) /\ LooseIn(files, y) BY <1>4, <1>6, <2>3, <3>3 DEF PullOk
        <4>2. CASE y = x BY <2>9, <2>10, <4>1, <4>2
        <4>3. CASE y # x BY <2>6, <4>1, <4>3
        <4> QED BY <4>1, <4>2, <4>3
      <3> QED BY <1>2, <1>6, <2>3, <2>6, <3>1, <3>2, <3>3 DEF PullOk
    <2>12. WorkOk(parent, files, u, records, w1)
      BY <1>2, <1>4, <2>3, <2>6, <2>7, <2>11 DEF WorkOk, Pulls
    <2>13. DOMAIN u \subseteq Objects BY <1>1, <2>3, <2>6 DEF DeviceFacts
    <2>14. GoodIn(objects) \subseteq GoodIn(objects') BY <2>3, <2>4, <2>8
    <2> QED BY <1>2, <1>3, <1>5, <2>4, <2>12, <2>13, <2>14, Working DEF Pulls
  <1>8. CASE ~Needed(x)
    <2>1. work' = [work EXCEPT !.todo = @ \ {x}] /\ objects' = objects BY <1>8 DEF CopyObject
    <2>2. /\ work' \in Works /\ work'.op = work.op /\ work'.pc = work.pc /\ work'.ref = work.ref
          /\ work'.plan = work.plan /\ work'.loose = work.loose /\ work'.open = work.open
          /\ work'.todo = work.todo \ {x}
      BY <1>1, <2>1 DEF DeviceFacts, Works
    <2>3. x \in GoodIn(objects) BY <1>8 DEF Needed, IsGood, Have, GoodIn
    <2>4. There(objects, work') = There(objects, work)
      <3>1. Coming(work') = Coming(work) BY <2>2 DEF Coming
      <3> QED BY <2>2, <2>3, <3>1 DEF There
    <2>5. PullOk(parent, files, objects, records, work') BY <1>2, <1>4, <2>2, <2>4 DEF PullOk
    <2>6. WorkOk(parent, files, objects, records, work')
      BY <1>2, <1>4, <2>2, <2>5 DEF WorkOk, Pulls
    <2> QED BY <1>1, <1>2, <1>3, <1>5, <2>1, <2>6, Working DEF DeviceFacts, Pulls
  <1> QED BY <1>7, <1>8

LEMMA FinishWriteKeeps ==
  ASSUME TransferInv, FinishWrite
  PROVE  DeviceKeeps
  <1>1. DeviceFacts BY DeviceFactsHold
  <1>2. PICK o, w, u, w1 : /\ o = objects /\ w = work /\ u = With(o, w.open[1], w.open[2])
                           /\ w1 = [w EXCEPT !.open = << >>]
    OBVIOUS
  <1>3. /\ objects' = u /\ work' = w1 /\ UNCHANGED <<parent, files, records, done, used>>
        /\ w.open # << >> /\ w.pc # "control"
    BY <1>2 DEF FinishWrite, fileVars
  <1>4. WorkOk(parent, files, o, records, w) BY <1>1, <1>2 DEF DeviceFacts
  <1>5. w \in Works /\ w.open \in Objects \X {Good, Bad} /\ w.open[1] \notin GoodIn(o)
    BY <1>3, <1>4 DEF WorkOk
  <1>6. /\ w1 \in Works
        /\ w1.op = w.op /\ w1.pc = w.pc /\ w1.ref = w.ref /\ w1.plan = w.plan
        /\ w1.loose = w.loose /\ w1.next = w.next /\ w1.before = w.before /\ w1.open = << >>
        /\ DOMAIN u \subseteq DOMAIN o \cup Objects
        /\ GoodIn(o) \cup Coming(w) \subseteq GoodIn(u)
        /\ There(o, w) \subseteq There(u, w1)
    BY <1>2, <1>5, Closes
  <1>7. w.op # "none"
    <2>1. w # Idle BY <1>3 DEF Idle
    <2> QED BY <1>4, <1>3, <2>1 DEF WorkOk
  <1>8. done = "none" BY <1>2, <1>7, NotIdle
  <1>9. w.op \in Pulls => PullOk(parent, files, u, records, w1)
    <2> SUFFICES ASSUME w.op \in Pulls PROVE PullOk(parent, files, u, records, w1) OBVIOUS
    <2>1. PullOk(parent, files, o, records, w) BY <1>4 DEF WorkOk
    <2>2. ~(w.pc \in {"list", "validate"}) BY <1>3, <2>1 DEF PullOk
    <2> QED BY <1>3, <1>6, <2>1, <2>2 DEF PullOk
  <1>10. WorkOk(parent, files, u, records, w1) BY <1>4, <1>6, <1>7, <1>9 DEF WorkOk
  <1>11. DOMAIN u \subseteq Objects BY <1>1, <1>2, <1>6 DEF DeviceFacts
  <1>12. w1 # Idle BY <1>6, <1>7 DEF Idle
  <1> QED BY <1>2, <1>3, <1>6, <1>8, <1>10, <1>11, <1>12, Working

LEMMA CopyPackedKeeps ==
  ASSUME TransferInv, CopyPacked
  PROVE  DeviceKeeps
  <1>1. DeviceFacts BY DeviceFactsHold
  <1>2. /\ work.op \in Pulls /\ work.pc = "copy" /\ work.open = << >> /\ work.todo = {} /\ ~work.plan
        /\ UNCHANGED <<parent, files, objects, records, done>>
    BY DEF CopyPacked, Fetching, Pulls, fileVars
  <1>3. work' = [work EXCEPT !.pc = "packed", !.todo = Packed] BY DEF CopyPacked
  <1>4. /\ work' \in Works /\ work'.op = work.op /\ work'.pc = "packed" /\ work'.ref = work.ref
        /\ work'.loose = work.loose /\ work'.open = work.open /\ work'.todo = Packed
    BY <1>1, <1>3 DEF DeviceFacts, Works
  <1>5. WorkOk(parent, files, objects, records, work) /\ PullOk(parent, files, objects, records, work)
    BY <1>1, <1>2 DEF DeviceFacts, WorkOk
  <1>6. There(objects, work) \cup Packed \subseteq There(objects, work')
    <2>1. Coming(work') = Coming(work) BY <1>4 DEF Coming
    <2> QED BY <1>2, <1>4, <2>1 DEF There
  <1>7. PullOk(parent, files, objects, records, work') BY <1>2, <1>4, <1>5, <1>6 DEF PullOk
  <1>8. WorkOk(parent, files, objects, records, work')
    BY <1>2, <1>4, <1>5, <1>7 DEF WorkOk, Pulls
  <1>9. done = "none" BY <1>2, NotIdle DEF Pulls
  <1> QED BY <1>1, <1>2, <1>8, <1>9, Working DEF DeviceFacts, Pulls

LEMMA ControlFilesAreNamed ==
  ASSUME DeviceFacts
  PROVE  /\ ControlFiles \in Seq(RecordNames \cup {"none"}) /\ ControlFiles # << >>
         /\ Head(ControlFiles) = Default
  <1>1. work.ref.branch \in Branches \cup {"none"} BY DEF DeviceFacts, Works, DefaultRefs
  <1>2. PICK b \in RecordNames \cup {"none"} : b = work.ref.branch BY <1>1 DEF RecordNames
  <1>3. ControlFiles = <<Default, Layout, Pointer, b>> BY <1>2 DEF ControlFiles
  <1>4. Default \in RecordNames /\ Layout \in RecordNames /\ Pointer \in RecordNames
    BY DEF RecordNames
  <1> QED BY <1>3, <1>4

LEMMA CopyDoneKeeps ==
  ASSUME TransferInv, CopyDone
  PROVE  DeviceKeeps
  <1>1. DeviceFacts BY DeviceFactsHold
  <1>2. /\ work.op \in Pulls /\ work.open = << >> /\ work.todo = {}
        /\ work.pc = "packed" \/ (work.pc = "copy" /\ work.plan)
        /\ UNCHANGED <<parent, files, objects, records, done>>
    BY DEF CopyDone, Fetching, Pulls, fileVars
  <1>3. PICK c : c = ControlFiles OBVIOUS
  <1>4. c \in Seq(RecordNames \cup {"none"}) /\ c # << >> /\ Head(c) = Default
    BY <1>1, <1>3, ControlFilesAreNamed
  <1>5. work' = [work EXCEPT !.pc = "control", !.next = c] BY <1>3 DEF CopyDone
  <1>6. /\ work' \in Works /\ work'.op = work.op /\ work'.pc = "control" /\ work'.ref = work.ref
        /\ work'.loose = work.loose /\ work'.next = c /\ work'.open = work.open
    BY <1>1, <1>4, <1>5 DEF DeviceFacts, Works
  <1>7. WorkOk(parent, files, objects, records, work) /\ PullOk(parent, files, objects, records, work)
    BY <1>1, <1>2 DEF DeviceFacts, WorkOk
  <1>8. GraphOf(parent, work.ref.head) \subseteq GoodIn(objects)
    <2>1. Coming(work) = {} BY <1>2 DEF Coming
    <2> QED BY <1>2, <1>7, <2>1 DEF PullOk, There
  <1>9. PullOk(parent, files, objects, records, work') BY <1>4, <1>6, <1>8 DEF PullOk
  <1>10. WorkOk(parent, files, objects, records, work')
    BY <1>2, <1>6, <1>7, <1>9 DEF WorkOk, Pulls
  <1>11. done = "none" BY <1>2, NotIdle DEF Pulls
  <1> QED BY <1>1, <1>2, <1>10, <1>11, Working DEF DeviceFacts, Pulls

LEMMA ReplaceControlFileKeeps ==
  ASSUME TransferInv, ReplaceControlFile
  PROVE  DeviceKeeps
  <1>1. DeviceFacts BY DeviceFactsHold
  <1>2. /\ work.op \in Pulls /\ work.pc = "control" /\ work.open = << >> /\ work.next # << >>
        /\ UNCHANGED <<parent, files, objects, done>>
    BY DEF ReplaceControlFile, Fetching, Pulls, fileVars
  <1>3. PICK h, v, t : h = Head(work.next) /\ v = Is(ValueOf(h)) /\ t = Tail(work.next) OBVIOUS
  <1>4. records' = [records EXCEPT ![h] = v] BY <1>3 DEF ReplaceControlFile
  <1>5. work' = [work EXCEPT !.next = t] BY <1>3 DEF ReplaceControlFile
  <1>6. t \in Seq(RecordNames \cup {"none"})
    <2>1. work.next \in Seq(RecordNames \cup {"none"}) BY <1>1 DEF DeviceFacts, Works
    <2> QED BY <1>2, <1>3, <2>1
  <1>7. /\ work' \in Works /\ work'.op = work.op /\ work'.pc = "control" /\ work'.ref = work.ref
        /\ work'.loose = work.loose /\ work'.next = t /\ work'.plan = work.plan
        /\ work'.open = work.open
    BY <1>1, <1>2, <1>5, <1>6 DEF DeviceFacts, Works
  <1>8. WorkOk(parent, files, objects, records, work) /\ PullOk(parent, files, objects, records, work)
        /\ RecordsOk(parent, records)
    BY <1>1, <1>2 DEF DeviceFacts, WorkOk
  <1>9. DOMAIN records' = RecordNames /\ Default \in RecordNames
    BY <1>4, <1>8 DEF RecordsOk, RecordNames
  <1>10. h = Default => records'[Default] = Is(work.ref)
    <2>1. ValueOf(Default) = work.ref BY DEF ValueOf, Default, Layout, Pointer
    <2> QED BY <1>3, <1>4, <1>8, <2>1 DEF RecordsOk, RecordNames
  <1>11. h # Default => records'[Default] = records[Default]
    BY <1>4, <1>8 DEF RecordsOk, RecordNames
  <1>12. Is(work.ref).value = work.ref /\ Is(work.ref).state = "whole" BY DEF Is
  <1>13. RecordsOk(parent, records')
    <2>1. /\ work.ref \in DefaultRefs /\ work.ref.head \in 0..Len(parent)
          /\ work.ref.branch \in Branches
      BY <1>1, <1>2, <1>8 DEF DeviceFacts, Works, WorkOk, Pulls
    <2> QED BY <1>8, <1>9, <1>10, <1>11, <1>12, <2>1 DEF RecordsOk
  <1>14. records'[Default] = Is(work.ref)
    BY <1>2, <1>3, <1>8, <1>10, <1>11 DEF PullOk
  <1>15. PullOk(parent, files, objects, records', work') BY <1>2, <1>7, <1>8, <1>14 DEF PullOk
  <1>16. WorkOk(parent, files, objects, records', work')
    BY <1>2, <1>7, <1>8, <1>15 DEF WorkOk, Pulls
  <1>17. done = "none" BY <1>2, NotIdle DEF Pulls
  <1>18. HeadIsWhole(parent, objects, records')
    BY <1>2, <1>8, <1>12, <1>14 DEF HeadIsWhole, PullOk
  <1>19. DeviceOk(parent', files', objects', records', work', done')
    BY <1>1, <1>2, <1>13, <1>16, <1>17 DEF DeviceOk, DeviceFacts
  <1> QED BY <1>2, <1>18, <1>19 DEF DeviceKeeps, Spares, Pulls

LEMMA FetchDoneKeeps ==
  ASSUME TransferInv, FetchDone
  PROVE  DeviceKeeps
  <1>1. DeviceFacts BY DeviceFactsHold
  <1>2. /\ work.op = "fetch" /\ work.pc = "control" /\ work.next = << >> /\ work' = Idle
        /\ UNCHANGED <<parent, files, objects, records>>
    BY DEF FetchDone, Running, FetchReturns, fileVars
  <1>3. PullOk(parent, files, objects, records, work) BY <1>1, <1>2 DEF DeviceFacts, WorkOk, Pulls
  <1>4. HeadIsWhole(parent, objects, records) BY <1>2, <1>3 DEF PullOk, HeadIsWhole, Is
  <1> QED BY <1>1, <1>2, <1>4, Returns DEF DeviceFacts

LEMMA CloneDoneKeeps ==
  ASSUME TransferInv, CloneDone
  PROVE  DeviceKeeps
  <1>1. DeviceFacts BY DeviceFactsHold
  <1>2. /\ work.op = "clone" /\ work' = Idle /\ UNCHANGED <<parent, files, objects, records>>
    BY DEF CloneDone, Running, FetchReturns, fileVars
  <1>3. HeadIsWhole(parent, objects, records) BY HeadsAreTheSame DEF CloneDone
  <1> QED BY <1>1, <1>2, <1>3, Returns DEF DeviceFacts

LEMMA NothingIsWhole ==
  ASSUME NEW p, Len(p) \in Nat
  PROVE  RecordsOk(p, NoRecords) /\ \A o : ~HeadIsWhole(p, o, NoRecords)
  <1>1. NoRecords[Default] = [state |-> "absent", value |-> NoRef]
    BY DEF NoRecords, Without
  <1>2. DOMAIN NoRecords = RecordNames BY DEF NoRecords, RecordNames
  <1> QED BY <1>1, <1>2 DEF RecordsOk, HeadIsWhole, NoRef, At, DefaultRefs

LEMMA FetchFailsKeeps ==
  ASSUME TransferInv, FetchFails
  PROVE  DeviceKeeps
  <1>1. DeviceFacts BY DeviceFactsHold
  <1>2. /\ work.op \in Pulls /\ work.pc = "validate" /\ work' = Idle /\ done' = "none"
        /\ UNCHANGED <<parent, files>>
    BY DEF FetchFails, Fetching, Pulls, FetchReturns, fileVars
  <1>3. PullOk(parent, files, objects, records, work) BY <1>1, <1>2 DEF DeviceFacts, WorkOk
  <1>4. CASE work.op = "clone"
    <2>1. UNCHANGED <<objects, records>> BY <1>2, <1>3, <1>4 DEF PullOk, FetchFails
    <2> QED BY <1>1, <1>2, <1>4, <2>1, Returns DEF DeviceFacts
  <1>5. CASE work.op # "clone"
    <2>1. UNCHANGED <<objects, records>> BY <1>5 DEF FetchFails
    <2> QED BY <1>1, <1>2, <2>1, Returns DEF DeviceFacts, Pulls
  <1> QED BY <1>4, <1>5

LEMMA CrashKeeps ==
  ASSUME TransferInv, Crash
  PROVE  DeviceKeeps
  <1>1. DeviceFacts BY DeviceFactsHold
  <1>2. /\ work' = Idle /\ done' = "none" /\ used' = [used EXCEPT !.crashes = @ + 1]
        /\ UNCHANGED <<parent, files, objects, records>>
    BY DEF Crash
  <1>3. used' # used BY <1>1, <1>2 DEF DeviceFacts, RemoteFacts, Counters
  <1>4. WorkOk(parent, files, objects, records, Idle) BY <1>1, IdleIsOk DEF DeviceFacts, RemoteFacts
  <1> QED BY <1>1, <1>2, <1>3, <1>4, Working DEF DeviceFacts

LEMMA DamageKeeps ==
  ASSUME TransferInv, Damage
  PROVE  DeviceKeeps
  <1>1. DeviceFacts BY DeviceFactsHold
  <1>2. /\ work = Idle /\ work' = Idle /\ done' = "none" /\ UNCHANGED <<parent, files, records>>
    BY DEF Damage
  <1>3. DOMAIN objects' \subseteq Objects
    <2>1. PICK x \in GoodObjects :
            objects' \in {[objects EXCEPT ![x] = Bad], [y \in DOMAIN objects \ {x} |-> objects[y]]}
      BY DEF Damage
    <2>2. DOMAIN objects' \subseteq DOMAIN objects BY <2>1
    <2> QED BY <1>1, <2>2 DEF DeviceFacts
  <1>4. WorkOk(parent, files, objects', records, Idle) /\ work.op = "none"
    BY <1>1, <1>2, IdleIsOk DEF DeviceFacts, RemoteFacts
  <1> QED BY <1>2, <1>3, <1>4, Working DEF Pulls

LEMMA RemoteDamageKeeps ==
  ASSUME TransferInv, RemoteDamage
  PROVE  RemoteInv' /\ DeviceKeeps
  <1>1. DeviceFacts /\ RemoteInv BY DeviceFactsHold DEF TransferInv
  <1>2. PICK x \in LooseIds : files' = [files EXCEPT ![ObjectPath(x)] = TornFile]
    BY DEF RemoteDamage
  <1>3. /\ work = Idle /\ used' = [used EXCEPT !.rot = @ + 1] /\ work' = Idle
        /\ UNCHANGED <<parent, pusher, objects, records, done>>
    BY DEF RemoteDamage, deviceVars
  <1>4. DOMAIN files' = DOMAIN files BY <1>2
  <1>5. FilesOk(Len(parent), files')
    <2>1. FilesOk(Len(parent), files) /\ Len(parent) \in Nat BY <1>1 DEF DeviceFacts, RemoteFacts
    <2>2. TornFile \in Files /\ TornFile.value = 0 BY DEF TornFile, Files
    <2>3. ASSUME NEW path \in DOMAIN files'
          PROVE  files'[path] \in Files /\ FitsPath(Len(parent), path, files'[path])
      <3>1. CASE path = ObjectPath(x)
        <4>1. files'[path] = TornFile BY <1>2, <2>3, <3>1
        <4> QED BY <2>1, <2>2, <4>1 DEF FitsPath
      <3>2. CASE path # ObjectPath(x)
        <4>1. files'[path] = files[path] BY <1>2, <1>4, <2>3, <3>2
        <4> QED BY <1>4, <2>1, <2>3, <4>1 DEF FilesOk
      <3> QED BY <3>1, <3>2
    <2> QED BY <1>4, <2>1, <2>3 DEF FilesOk
  <1>6. PushOk(Len(parent), files', pusher) BY <1>1, <1>4 DEF DeviceFacts, RemoteFacts, PushOk
  <1>7. used' \in Counters BY <1>1, <1>3 DEF DeviceFacts, RemoteFacts, Counters
  <1>8. RemoteInv' BY <1>1, <1>3, <1>5, <1>6, <1>7 DEF RemoteInv
  <1>9. WorkOk(parent, files', objects, records, Idle) /\ work.op = "none"
    BY <1>1, <1>3, IdleIsOk DEF DeviceFacts, RemoteFacts
  <1>10. DeviceOk(parent', files', objects', records', work', done')
    BY <1>3, <1>9 DEF TransferInv, DeviceOk
  <1> QED BY <1>3, <1>8, <1>9, <1>10 DEF DeviceKeeps, Spares, Pulls

----------------------------------------------------------------------------
(* Verify, repair and accept.                                              *)

Checks == {"verify", "repair", "accept"}

\* The start of a check, over any objects of the repository.
LEMMA BeginKeeps ==
  ASSUME TransferInv, NEW name \in Checks, NEW sample, sample \subseteq Objects,
         Begin(name, sample)
  PROVE  DeviceKeeps
  <1>1. DeviceFacts BY DeviceFactsHold
  <1>2. work = Idle /\ work.op = "none" BY <1>1, IdleIsOk DEF Begin, MayRun, DeviceFacts, RemoteFacts
  <1>3. PICK b : b = Branch OBVIOUS
  <1>4. b \in Branches BY <1>1, <1>3 DEF Begin, OnBranch, Branch, DeviceFacts, RecordsOk
  <1>5. PICK c, g : c = Control(b) /\ g = GoodObjects OBVIOUS
  <1>6. /\ c \in [head : Int, pointer : Int, layout : Int] /\ c.head \in 0..Len(parent)
        /\ g \subseteq Objects /\ g = GoodIn(objects)
    BY <1>1, <1>4, <1>5, ControlIsTyped DEF DeviceFacts
  <1>7. PICK a : a = At(b, c.head) OBVIOUS
  <1>8. a \in DefaultRefs /\ a.head = c.head /\ a.branch = b
    BY <1>1, <1>4, <1>6, <1>7 DEF At, DefaultRefs, DeviceFacts, RemoteFacts
  <1>9. work' = [Idle EXCEPT !.op = name, !.pc = "copy", !.todo = sample,
                             !.ref = a, !.control = c, !.before = g]
    BY <1>3, <1>5, <1>7 DEF Begin
  <1>10. /\ work' \in Works /\ work'.op = name /\ work'.pc = "copy" /\ work'.ref = a
         /\ work'.loose = {} /\ work'.open = << >> /\ work'.before = g
    <2>1. PICK i \in Works : i = Idle BY <1>1, IdleIsOk DEF DeviceFacts, RemoteFacts
    <2>2. i.loose = {} /\ i.open = << >> BY <2>1 DEF Idle
    <2>3. PICK j : j = [i EXCEPT !.op = name, !.pc = "copy", !.todo = sample] OBVIOUS
    <2>4. work' = [j EXCEPT !.ref = a, !.control = c, !.before = g] BY <1>9, <2>1, <2>3, Zenon
    <2>5. j \in Works /\ j.op = name /\ j.pc = "copy" /\ j.loose = {} /\ j.open = << >>
      BY <2>2, <2>3 DEF Works, Checks
    <2> QED BY <1>6, <1>8, <2>4, <2>5 DEF Works
  <1>11. UNCHANGED <<parent, files, objects, records>> /\ done' = "none" BY DEF Begin, Run
  <1>12. WorkOk(parent, files, objects, records, work')
    BY <1>4, <1>6, <1>8, <1>10 DEF WorkOk, Pulls, Checks
  <1> QED BY <1>1, <1>2, <1>11, <1>12, Working DEF DeviceFacts, Pulls

LEMMA ReachedAreObjects ==
  ASSUME DeviceFacts
  PROVE  AllReached \subseteq Objects
  <1>1. ASSUME NEW h \in AllHeads PROVE Graph(h) \subseteq Objects
    <2>1. h \in 0..Len(parent) BY <1>1 DEF AllHeads, DeviceFacts, RemoteFacts
    <2> QED BY <2>1 DEF DeviceFacts
  <1> QED BY <1>1 DEF AllReached

LEMMA StartsKeep ==
  ASSUME TransferInv, StartVerify \/ StartRepair \/ StartAccept
  PROVE  DeviceKeeps
  <1>1. DeviceFacts BY DeviceFactsHold
  <1>2. AllReached \subseteq Objects BY <1>1, ReachedAreObjects
  <1>3. CASE StartVerify
    <2>1. PICK sample \in Samples : Begin("verify", sample) BY <1>3 DEF StartVerify
    <2>2. sample \subseteq Objects BY <1>2 DEF Samples
    <2> QED BY <2>1, <2>2, BeginKeeps DEF Checks
  <1>4. CASE StartRepair
    <2>1. Begin("repair", AllReached) BY <1>4 DEF StartRepair
    <2> QED BY <1>2, <2>1, BeginKeeps DEF Checks
  <1>5. CASE StartAccept
    <2>1. PICK b, graph : b = Branch /\ graph = Graph(Control(b).head) OBVIOUS
    <2>2. Begin("accept", graph) BY <1>5, <2>1 DEF StartAccept
    <2>3. b \in Branches
      BY <1>1, <1>5, <2>1 DEF StartAccept, OnBranch, Branch, DeviceFacts, RecordsOk
    <2>4. graph \subseteq Objects BY <1>1, <2>1, <2>3, ControlIsTyped DEF DeviceFacts
    <2> QED BY <2>2, <2>4, BeginKeeps DEF Checks
  <1> QED BY <1>3, <1>4, <1>5

LEMMA VerifyObjectKeeps ==
  ASSUME TransferInv, NEW x \in work.todo, VerifyObject(x)
  PROVE  DeviceKeeps
  <1>1. DeviceFacts BY DeviceFactsHold
  <1>2. PICK o, w, u, w1 : /\ o = objects /\ w = work /\ u = With(o, x, Bad)
                           /\ w1 = Wrote(w, x, Good)
    OBVIOUS
  <1>3. /\ objects' = u /\ work' = w1 /\ UNCHANGED <<parent, files, records, done>>
        /\ w.op = "verify" /\ w.pc = "copy" /\ w.open = << >>
    BY <1>2 DEF VerifyObject, Running, StartWrite, Wrote, fileVars
  <1>4. w \in Works /\ x \in w.todo /\ WorkOk(parent, files, o, records, w)
    BY <1>1, <1>2 DEF DeviceFacts
  <1>5. Opened(o, w, x, Good, u, w1) BY <1>2, <1>3, <1>4, Opens
  <1>6. /\ w1 \in Works /\ w1.op = "verify" /\ w1.pc = "copy" /\ w1.ref = w.ref
        /\ w1.loose = w.loose /\ w1.before = w.before
        /\ w1.open[1] = x /\ w1.open \in Objects \X {Good, Bad}
        /\ GoodIn(u) = GoodIn(o) \ {x} /\ DOMAIN u = DOMAIN o \cup {x} /\ x \in Objects
        /\ Coming(w1) = {x}
    BY <1>3, <1>5 DEF Opened
  <1>7. w.before \subseteq GoodIn(o)
    <2>1. Coming(w) = {} BY <1>3 DEF Coming
    <2> QED BY <1>3, <1>4, <2>1 DEF WorkOk
  <1>8. WorkOk(parent, files, u, records, w1)
    BY <1>3, <1>4, <1>6, <1>7 DEF WorkOk, Pulls
  <1>9. DOMAIN u \subseteq Objects BY <1>1, <1>2, <1>6 DEF DeviceFacts
  <1>10. done = "none" BY <1>2, <1>3, NotIdle
  <1>11. w1 # Idle BY <1>6 DEF Idle
  <1> QED BY <1>2, <1>3, <1>8, <1>9, <1>10, <1>11, Working DEF Pulls

\* A verify that ends has no object open.
LEMMA VerifyEnds ==
  ASSUME TransferInv, work.op = "verify", work.open = << >>
  PROVE  work.before \subseteq GoodIn(objects)
  <1>1. Coming(work) = {} BY DEF Coming
  <1>2. WorkOk(parent, files, objects, records, work) BY DeviceFactsHold DEF DeviceFacts
  <1> QED BY <1>1, <1>2 DEF WorkOk

LEMMA VerifyFailsKeeps ==
  ASSUME TransferInv, VerifyFails
  PROVE  DeviceKeeps
  <1>1. DOMAIN objects \subseteq Objects BY DeviceFactsHold DEF DeviceFacts
  <1>2. /\ work.op = "verify" /\ work.open = << >> /\ work' = Idle /\ done' = "none"
        /\ UNCHANGED <<parent, files, objects, records>>
    BY DEF VerifyFails, Running, FetchReturns, fileVars
  <1> QED BY <1>1, <1>2, VerifyEnds, Returns

LEMMA CheckDoneKeeps ==
  ASSUME TransferInv, CheckDone
  PROVE  DeviceKeeps
  <1>1. DOMAIN objects \subseteq Objects BY DeviceFactsHold DEF DeviceFacts
  <1>2. /\ work.op \in {"verify", "repair"} /\ work.open = << >> /\ work' = Idle /\ done' = work.op
        /\ UNCHANGED <<parent, files, objects, records>>
    BY DEF CheckDone, Running, FetchReturns, fileVars
  <1> QED BY <1>1, <1>2, VerifyEnds, Returns

LEMMA RepairObjectKeeps ==
  ASSUME TransferInv, NEW x \in work.todo, RepairObject(x)
  PROVE  DeviceKeeps
  <1>1. DeviceFacts BY DeviceFactsHold
  <1>2. /\ work.op \in {"repair", "accept"} /\ work.pc = "copy" /\ work.open = << >>
        /\ UNCHANGED <<parent, files, records, done>>
    BY DEF RepairObject, Running, fileVars
  <1>3. WorkOk(parent, files, objects, records, work) BY <1>1 DEF DeviceFacts
  <1>4. done = "none" BY <1>2, NotIdle
  <1>5. CASE Same(x)
    <2>1. work' = [work EXCEPT !.todo = @ \ {x}] /\ objects' = objects BY <1>5 DEF RepairObject
    <2>2. /\ work' \in Works /\ work'.op = work.op /\ work'.ref = work.ref
          /\ work'.loose = work.loose /\ work'.open = work.open
      BY <1>1, <2>1 DEF DeviceFacts, Works
    <2>3. WorkOk(parent, files, objects, records, work') BY <1>2, <1>3, <2>2 DEF WorkOk, Pulls
    <2> QED BY <1>1, <1>2, <1>4, <2>1, <2>3, Working DEF DeviceFacts, Pulls
  <1>6. CASE ~Same(x)
    <2>1. PICK v : v = RemoteBytes(x) OBVIOUS
    <2>2. v \in {Good, Bad} BY <2>1 DEF RemoteBytes
    <2>3. PICK o, w, u, w1 : /\ o = objects /\ w = work /\ u = With(o, x, Bad)
                             /\ w1 = Wrote(w, x, v)
      OBVIOUS
    <2>4. objects' = u /\ work' = w1 BY <1>6, <2>1, <2>3 DEF RepairObject, StartWrite, Wrote
    <2>5. w \in Works /\ w.open = << >> /\ x \in w.todo BY <1>1, <1>2, <2>3 DEF DeviceFacts
    <2>6. Opened(o, w, x, v, u, w1) BY <2>2, <2>3, <2>5, Opens
    <2>7. /\ w1 \in Works /\ w1.op = w.op /\ w1.pc = w.pc /\ w1.ref = w.ref
          /\ w1.loose = w.loose /\ w1.open[1] = x /\ w1.open \in Objects \X {Good, Bad}
          /\ GoodIn(u) = GoodIn(o) \ {x} /\ DOMAIN u = DOMAIN o \cup {x} /\ x \in Objects
      BY <2>6 DEF Opened
    <2>8. WorkOk(parent, files, u, records, w1) BY <1>2, <1>3, <2>3, <2>7 DEF WorkOk, Pulls
    <2>9. DOMAIN u \subseteq Objects BY <1>1, <2>3, <2>7 DEF DeviceFacts
    <2> QED BY <1>2, <1>4, <2>4, <2>8, <2>9, Working DEF Pulls
  <1> QED BY <1>5, <1>6

LEMMA CheckFailsKeeps ==
  ASSUME TransferInv, CheckFails
  PROVE  DeviceKeeps
  <1>1. DOMAIN objects \subseteq Objects BY DeviceFactsHold DEF DeviceFacts
  <1>2. /\ work.op \in {"repair", "accept"} /\ work' = Idle /\ done' = "none"
        /\ UNCHANGED <<parent, files, objects, records>>
    BY DEF CheckFails, Running, FetchReturns, fileVars
  <1> QED BY <1>1, <1>2, Returns

----------------------------------------------------------------------------
(* The control files of an accept.                                         *)

\* A step of an accept that writes no object and does not end it.
LEMMA Accepting ==
  ASSUME TransferInv, work.op = "accept", UNCHANGED <<parent, files, objects, done>>,
         work' \in Works, work'.op = "accept", work'.ref = work.ref, work'.loose = work.loose,
         work'.open = << >> \/ (work'.pc = "control" /\ work'.next # << >>), RecordsOk(parent, records')
  PROVE  DeviceKeeps
  <1>1. DeviceFacts BY DeviceFactsHold
  <1>2. WorkOk(parent, files, objects, records, work) BY <1>1 DEF DeviceFacts
  <1>3. WorkOk(parent, files, objects, records', work') BY <1>2 DEF WorkOk, Pulls
  <1>4. done = "none" BY NotIdle
  <1>5. DeviceOk(parent', files', objects', records', work', done')
    BY <1>1, <1>3, <1>4 DEF DeviceOk, DeviceFacts
  <1> QED BY <1>5 DEF DeviceKeeps, Spares, Pulls

LEMMA AcceptControlKeeps ==
  ASSUME TransferInv, AcceptControl
  PROVE  DeviceKeeps
  <1>1. DeviceFacts BY DeviceFactsHold
  <1>2. PICK b \in RecordNames \cup {"none"} : b = work.ref.branch
    BY <1>1 DEF DeviceFacts, Works, DefaultRefs, RecordNames
  <1>3. PICK c : c = <<Default, b, Layout, Pointer>> OBVIOUS
  <1>4. c \in Seq(RecordNames \cup {"none"}) BY <1>2, <1>3 DEF RecordNames
  <1>5. /\ work' = [work EXCEPT !.pc = "control", !.next = c]
        /\ work.op = "accept" /\ work.open = << >> /\ UNCHANGED <<parent, files, objects, records, done>>
    BY <1>2, <1>3 DEF AcceptControl, Running, fileVars
  <1>6. /\ work' \in Works /\ work'.op = work.op /\ work'.ref = work.ref /\ work'.pc = "control"
        /\ work'.loose = work.loose /\ work'.open = work.open
    BY <1>1, <1>4, <1>5 DEF DeviceFacts, Works
  <1>7. RecordsOk(parent, records) BY <1>1 DEF DeviceFacts
  <1> QED BY <1>5, <1>6, <1>7, Accepting

LEMMA OpenControlFileKeeps ==
  ASSUME TransferInv, OpenControlFile
  PROVE  DeviceKeeps
  <1>1. DeviceFacts BY DeviceFactsHold
  <1>2. PICK h : h = Head(work.next) OBVIOUS
  <1>3. /\ work' = [work EXCEPT !.open = <<h>>] /\ records' = [records EXCEPT ![h] = Without(h, "torn")]
        /\ work.op = "accept" /\ work.pc = "control" /\ work.next # << >>
        /\ UNCHANGED <<parent, files, objects, done>>
    BY <1>2 DEF OpenControlFile, Running, fileVars
  <1>4. h \in RecordNames \cup {"none"}
    <2>1. work.next \in Seq(RecordNames \cup {"none"}) BY <1>1 DEF DeviceFacts, Works
    <2> QED BY <1>2, <1>3, <2>1
  <1>5. /\ work' \in Works /\ work'.op = work.op /\ work'.ref = work.ref /\ work'.pc = "control"
        /\ work'.loose = work.loose /\ work'.next = work.next
    BY <1>1, <1>3, <1>4 DEF DeviceFacts, Works
  <1>6. RecordsOk(parent, records')
    <2>1. RecordsOk(parent, records) /\ Len(parent) \in Nat BY <1>1 DEF DeviceFacts, RemoteFacts
    <2>2. /\ Without(Default, "torn").state = "torn" /\ Without(Default, "torn").value = NoRef
      BY DEF Without
    <2>3. NoRef \in DefaultRefs /\ NoRef.head = 0 BY DEF NoRef, At, DefaultRefs
    <2>4. DOMAIN records' = RecordNames /\ Default \in RecordNames
      BY <1>3, <2>1 DEF RecordsOk, RecordNames
    <2>5. h = Default => records'[Default] = Without(Default, "torn") BY <1>3, <2>4
    <2>6. h # Default => records'[Default] = records[Default] BY <1>3, <2>4
    <2> QED BY <2>1, <2>2, <2>3, <2>4, <2>5, <2>6 DEF RecordsOk
  <1> QED BY <1>3, <1>5, <1>6, Accepting

LEMMA WriteControlFileKeeps ==
  ASSUME TransferInv, WriteControlFile
  PROVE  DeviceKeeps
  <1>1. DeviceFacts BY DeviceFactsHold
  <1>2. PICK h, v, t : h = Head(work.next) /\ v = Is(ValueOf(h)) /\ t = Tail(work.next) OBVIOUS
  <1>3. work' = [work EXCEPT !.open = << >>, !.next = t] BY <1>2 DEF WriteControlFile
  <1>4. /\ records' = [records EXCEPT ![h] = v]
        /\ work.op = "accept" /\ UNCHANGED <<parent, files, objects, done>>
    BY <1>2 DEF WriteControlFile, fileVars
  <1>5. t \in Seq(RecordNames \cup {"none"})
    <2>1. work.next \in Seq(RecordNames \cup {"none"}) BY <1>1 DEF DeviceFacts, Works
    <2>2. work.next # << >> BY <1>1 DEF WriteControlFile, DeviceFacts, WorkOk
    <2> QED BY <1>2, <2>1, <2>2
  <1>6. /\ work' \in Works /\ work'.op = work.op /\ work'.ref = work.ref /\ work'.open = << >>
        /\ work'.loose = work.loose
    BY <1>1, <1>3, <1>5 DEF DeviceFacts, Works
  <1>7. RecordsOk(parent, records')
    <2>1. RecordsOk(parent, records) BY <1>1 DEF DeviceFacts
    <2>2. ValueOf(Default) = work.ref BY DEF ValueOf, Default, Layout, Pointer
    <2>3. Is(work.ref).value = work.ref BY DEF Is
    <2>4. work.ref \in DefaultRefs /\ work.ref.head \in 0..Len(parent) /\ work.ref.branch \in Branches
      BY <1>1, <1>4 DEF DeviceFacts, Works, WorkOk
    <2>5. DOMAIN records' = RecordNames /\ Default \in RecordNames
      BY <1>4, <2>1 DEF RecordsOk, RecordNames
    <2>6. h = Default => records'[Default] = Is(work.ref) BY <1>2, <1>4, <2>2, <2>5
    <2>7. h # Default => records'[Default] = records[Default] BY <1>4, <2>5
    <2> QED BY <2>1, <2>3, <2>4, <2>5, <2>6, <2>7 DEF RecordsOk
  <1> QED BY <1>4, <1>6, <1>7, Accepting

LEMMA RestoreMirrorsKeeps ==
  ASSUME TransferInv, RestoreMirrors
  PROVE  DeviceKeeps
  <1>1. DeviceFacts BY DeviceFactsHold
  <1>2. /\ work' = [work EXCEPT !.pc = "verify"] /\ work.op = "accept" /\ work.open = << >>
        /\ UNCHANGED <<parent, files, objects, done>>
    BY DEF RestoreMirrors, Running, fileVars
  <1>3. /\ work' \in Works /\ work'.op = work.op /\ work'.ref = work.ref /\ work'.open = << >>
        /\ work'.loose = work.loose
    BY <1>1, <1>2 DEF DeviceFacts, Works
  <1>4. RecordsOk(parent, records')
    <2>1. RecordsOk(parent, records) BY <1>1 DEF DeviceFacts
    <2>2. Default \in RecordNames /\ Default \notin Branches BY DeviceAssumption DEF RecordNames
    <2>3. DOMAIN records' = RecordNames /\ records'[Default] = records[Default]
      BY <2>1, <2>2 DEF RestoreMirrors, RecordsOk
    <2> QED BY <2>1, <2>3 DEF RecordsOk
  <1> QED BY <1>2, <1>3, <1>4, Accepting

LEMMA AcceptDoneKeeps ==
  ASSUME TransferInv, AcceptDone
  PROVE  DeviceKeeps
  <1>1. DOMAIN objects \subseteq Objects BY DeviceFactsHold DEF DeviceFacts
  <1>2. /\ work.op = "accept" /\ work' = Idle /\ UNCHANGED <<parent, files, objects, records>>
        /\ done' = (IF DefaultIsWhole THEN "accept" ELSE "none")
    BY DEF AcceptDone, Running, FetchReturns, fileVars
  <1>3. done' # "none" => HeadIsWhole(parent, objects, records) BY <1>2, HeadsAreTheSame
  <1> QED BY <1>1, <1>2, <1>3, Returns

----------------------------------------------------------------------------
(* The invariant holds at first and is kept.                               *)

LEMMA HistoryHasParents ==
  Parents(History)
  <1>1. PICK q \in Seq(Nat) : q = History BY FilesAssumption
  <1>2. DOMAIN q = 1..Len(q) BY <1>1, LenProperties
  <1> QED BY <1>1, <1>2, FilesAssumption DEF Parents

LEMMA HeadsAreSnapshots ==
  ASSUME NEW b \in Branches
  PROVE  Heads[b] \in 0..Len(History) /\ Heads[b] \in Nat
  <1>1. PICK q \in Seq(Nat) : q = History BY FilesAssumption
  <1>2. DOMAIN q = 1..Len(q) /\ Len(q) \in Nat BY <1>1, LenProperties
  <1>3. Heads[b] \in 1..Len(History) BY <1>1, <1>2, FilesAssumption
  <1> QED BY <1>1, <1>2, <1>3

LEMMA RemoteAtFirst ==
  ASSUME FilesInit
  PROVE  RemoteInv
  <1>1. parent = History /\ Parents(parent) BY HistoryHasParents DEF FilesInit
  <1>2. Len(parent) \in Nat BY <1>1, LenProperties DEF Parents
  <1>3. used \in Counters BY DEF FilesInit, Counters
  <1> DEFINE objs == {ObjectPath(o) : o \in UNION {Graph(Heads[b]) : b \in Branches} \ Packed}
             refs == {RefPath(b) : b \in Branches}
             F == [path \in objs \cup refs \cup {PointerPath, LayoutPath} |->
                     IF path \in objs THEN File(1, 0) ELSE IF path \in refs THEN File(1, Heads[path[2]])
                     ELSE File(1, 1)]
  <1>4. files = F BY DEF FilesInit
  <1>5. objs \subseteq {ObjectPath(o) : o \in Objects}
    <2>1. ASSUME NEW b \in Branches PROVE Graph(Heads[b]) \subseteq Objects
      <3>1. Heads[b] \in 0..Len(parent) BY <1>1, HeadsAreSnapshots
      <3> QED BY <1>1, <3>1, GraphIsGraphOf, GraphHasObjects
    <2> QED BY <2>1
  <1>6. ASSUME NEW path \in DOMAIN F
        PROVE  F[path] \in Files /\ FitsPath(Len(parent), path, F[path])
    <2>1. CASE path \in objs
      <3>1. F[path] = File(1, 0) BY <1>6, <2>1
      <3> HIDE DEF F
      <3> QED BY <1>2, <3>1 DEF File, Files, FitsPath
    <2>2. CASE path \in refs
      <3>1. PICK b \in Branches : path = RefPath(b) BY <2>2
      <3>2. path \notin objs
        <4> HIDE DEF F
        <4> QED BY <1>5, <3>1, PathsDiffer
      <3>3. path[2] = b BY <3>1 DEF RefPath
      <3>4. F[path] = File(1, Heads[b]) BY <1>6, <2>2, <3>2, <3>3
      <3> HIDE DEF F, objs, refs
      <3>5. Heads[b] \in 0..Len(parent) /\ Heads[b] \in Nat BY <1>1, HeadsAreSnapshots
      <3> QED BY <3>4, <3>5 DEF File, Files, FitsPath
    <2>3. CASE path \notin objs /\ path \notin refs
      <3>1. F[path] = File(1, 1) BY <1>6, <2>3
      <3>2. \A b \in Branches : path # RefPath(b) BY <2>3
      <3> HIDE DEF F, objs, refs
      <3> QED BY <3>1, <3>2 DEF File, Files, FitsPath
    <2> QED BY <2>1, <2>2, <2>3
  <1>7. DOMAIN F = objs \cup refs \cup {PointerPath, LayoutPath} OBVIOUS
  <1>8. objs \cup refs \cup {PointerPath, LayoutPath} \subseteq Paths
    BY <1>5 DEF Paths
  <1> HIDE DEF F
  <1>9. FilesOk(Len(parent), files) BY <1>4, <1>6, <1>7, <1>8 DEF FilesOk
  <1>10. PushOk(Len(parent), files, pusher)
    <2>1. pusher = NoPush BY DEF FilesInit
    <2> QED BY <1>2, <2>1 DEF NoPush, PushOk, Pushes
  <1> QED BY <1>1, <1>3, <1>9, <1>10 DEF RemoteInv

LEMMA TransferAtFirst ==
  ASSUME Init
  PROVE  TransferInv
  <1>1. RemoteInv BY RemoteAtFirst DEF Init
  <1>2. Len(parent) \in Nat BY <1>1, LenProperties DEF RemoteInv, Parents
  <1>3. done = "none" /\ work = Idle BY DEF Init, DeviceInit
  <1>4. WorkOk(parent, files, objects, records, Idle) BY <1>2, IdleIsOk
  <1>5. DOMAIN objects \subseteq Objects /\ RecordsOk(parent, records)
    <2>1. CASE objects = << >> /\ records = NoRecords
      <3>1. DOMAIN objects = {} BY <2>1
      <3> QED BY <1>2, <2>1, <3>1, NothingIsWhole
    <2>2. ASSUME NEW b \in setup.cloned,
                 objects = [o \in Graph(Heads[b]) |-> Good],
                 records = [NoRecords EXCEPT ![Default] = Is(At(b, Heads[b])), ![Layout] = Is(1),
                                             ![Pointer] = Is(1), ![b] = Is(Heads[b])]
          PROVE  DOMAIN objects \subseteq Objects /\ RecordsOk(parent, records)
      <3>0. b \in Branches BY <2>2, DeviceAssumption DEF Init, FilesInit
      <3>1. Heads[b] \in 0..Len(parent) /\ Heads[b] \in Nat
        BY <3>0, HeadsAreSnapshots DEF Init, FilesInit
      <3>2. DOMAIN objects \subseteq Objects
        BY <1>1, <2>2, <3>1, GraphIsGraphOf, GraphHasObjects DEF RemoteInv
      <3>3. PICK a, v : a = At(b, Heads[b]) /\ v = Is(a) OBVIOUS
      <3>4. /\ a \in DefaultRefs /\ a.head = Heads[b] /\ a.branch = b
            /\ v.value = a
        BY <3>0, <3>1, <3>3 DEF At, Is, DefaultRefs
      <3>5. DOMAIN NoRecords = RecordNames /\ Default \in RecordNames BY DEF NoRecords, RecordNames
      <3>6. b # Default /\ Layout # Default /\ Pointer # Default
        BY <3>0, DeviceAssumption DEF Default, Layout, Pointer
      <3>7. DOMAIN records = RecordNames /\ records[Default] = v
        <4>1. PICK r1, r2, r3 : /\ r1 = [NoRecords EXCEPT ![Default] = v]
                                /\ r2 = [r1 EXCEPT ![Layout] = Is(1)]
                                /\ r3 = [r2 EXCEPT ![Pointer] = Is(1)]
          OBVIOUS
        <4>2. records = [r3 EXCEPT ![b] = Is(Heads[b])] BY <2>2, <3>3, <4>1, Zenon
        <4>3. DOMAIN r1 = RecordNames /\ r1[Default] = v BY <3>5, <4>1
        <4>4. DOMAIN r2 = RecordNames /\ r2[Default] = v BY <3>5, <3>6, <4>1, <4>3
        <4>5. DOMAIN r3 = RecordNames /\ r3[Default] = v BY <3>5, <3>6, <4>1, <4>4
        <4> QED BY <3>5, <3>6, <4>2, <4>5
      <3> QED BY <3>0, <3>1, <3>2, <3>4, <3>7 DEF RecordsOk
    <2> QED BY <2>1, <2>2 DEF Init, DeviceInit
  <1> QED BY <1>1, <1>3, <1>4, <1>5 DEF TransferInv, DeviceOk

\* A step of the device alone.
LEMMA DeviceAlone ==
  ASSUME TransferInv, UNCHANGED <<parent, files, pusher>>, used' \in Counters
  PROVE  RemoteInv'
  BY DEF TransferInv, RemoteInv

LEMMA FetchStepKeeps ==
  ASSUME TransferInv, FetchStep
  PROVE  RemoteInv' /\ DeviceKeeps
  <1>1. used \in Counters BY DEF TransferInv, RemoteInv
  <1>2. CASE RemoteDamage BY <1>2, RemoteDamageKeeps
  <1>3. CASE ~RemoteDamage
    <2>1. DeviceKeeps
      BY <1>3, StartCloneKeeps, StartFetchKeeps, CopyObjectKeeps, ListObjectsKeeps, ValidateKeeps,
         FinishWriteKeeps, CopyPackedKeeps, CopyDoneKeeps, ReplaceControlFileKeeps, FetchDoneKeeps,
         CloneDoneKeeps, FetchFailsKeeps, DamageKeeps, CrashKeeps DEF FetchStep
    <2>2. UNCHANGED <<parent, files, pusher>>
      BY <1>3 DEF FetchStep, StartClone, StartFetch, CopyObject, ListObjects, Validate,
         FinishWrite, CopyPacked, CopyDone, ReplaceControlFile, FetchDone,
         CloneDone, FetchFails, Damage, Crash, fileVars
    <2>3. used' \in Counters
      <3>1. \/ used' = used \/ used' = [used EXCEPT !.runs = @ + 1]
            \/ used' = [used EXCEPT !.damage = @ + 1] \/ used' = [used EXCEPT !.crashes = @ + 1]
        BY <1>3 DEF FetchStep, StartClone, StartFetch, CopyObject, ListObjects, Validate,
           FinishWrite, CopyPacked, CopyDone, ReplaceControlFile, FetchDone,
           CloneDone, FetchFails, Damage, Crash, fileVars, Run
      <3> QED BY <1>1, <3>1 DEF Counters
    <2> QED BY <2>1, <2>2, <2>3, DeviceAlone
  <1> QED BY <1>2, <1>3

LEMMA CheckStepKeeps ==
  ASSUME TransferInv, CheckStep
  PROVE  RemoteInv' /\ DeviceKeeps
  <1>1. used \in Counters BY DEF TransferInv, RemoteInv
  <1>2. DeviceKeeps
    BY StartsKeep, VerifyObjectKeeps, RepairObjectKeeps, VerifyFailsKeeps, CheckFailsKeeps,
       CheckDoneKeeps, AcceptControlKeeps, OpenControlFileKeeps, WriteControlFileKeeps,
       RestoreMirrorsKeeps, AcceptDoneKeeps DEF CheckStep
  <1>3. UNCHANGED <<parent, files, pusher>>
    BY DEF CheckStep, StartVerify, StartRepair, StartAccept, Begin, VerifyObject, RepairObject,
       VerifyFails, CheckFails, CheckDone, AcceptControl, OpenControlFile, WriteControlFile,
       RestoreMirrors, AcceptDone, fileVars
  <1>4. used' \in Counters
    <2>1. used' = used \/ used' = [used EXCEPT !.runs = @ + 1]
      BY DEF CheckStep, StartVerify, StartRepair, StartAccept, Begin, VerifyObject, RepairObject,
         VerifyFails, CheckFails, CheckDone, AcceptControl, OpenControlFile, WriteControlFile,
         RestoreMirrors, AcceptDone, fileVars, Run
    <2> QED BY <1>1, <2>1 DEF Counters
  <1> QED BY <1>2, <1>3, <1>4, DeviceAlone

LEMMA StepKeeps ==
  ASSUME TransferInv, Next
  PROVE  TransferInv' /\ DeviceKeeps
  <1>1. RemoteInv' /\ DeviceKeeps
    BY RemoteStepSpares, FetchStepKeeps, CheckStepKeeps DEF Next
  <1> QED BY <1>1 DEF DeviceKeeps, TransferInv

LEMMA StutterKeeps ==
  ASSUME TransferInv, UNCHANGED vars
  PROVE  TransferInv'
  BY DEF TransferInv, RemoteInv, vars, fileVars, deviceVars

LEMMA TransferInvHolds ==
  Spec => []TransferInv
  <1>1. Init => TransferInv BY TransferAtFirst
  <1>2. TransferInv /\ [Next]_vars => TransferInv' BY StepKeeps, StutterKeeps
  <1> QED BY <1>1, <1>2, PTL DEF Spec

(* When clone_remote, fetch_remote or force_accept_remote_rollback reports  *)
(* success, the checked out head opens with its whole graph, whatever the   *)
(* pushes, crashes and failing objects before (fetch.rs 1294-1366,          *)
(* 1368-1426; remote_maintenance.rs 1079-1081).                             *)
THEOREM SuccessIsWhole ==
  Spec => []DoneIsWhole
  <1>1. TransferInv => DoneIsWhole
    BY HeadsAreTheSame DEF TransferInv, DeviceOk, DoneIsWhole
  <1> QED BY <1>1, TransferInvHolds, PTL

LEMMA HeadIsTheSameNext ==
  (DefaultIsWhole <=> HeadIsWhole(parent, objects, records))'
  <1>1. DefaultIsWhole <=> HeadIsWhole(parent, objects, records) BY HeadsAreTheSame
  <1> QED BY <1>1, PTL

\* What the three properties of a step say, of the device as it is and after.
LEMMA StepSpares ==
  ASSUME TransferInv, Next
  PROVE  /\ work.op \in {"clone", "fetch"} =>
              GoodObjects \subseteq GoodObjects' /\ (DefaultIsWhole => DefaultIsWhole')
         /\ work.op = "verify" /\ work' = Idle /\ used' = used => work.before \subseteq GoodObjects'
  <1>1. DeviceKeeps BY StepKeeps
  <1>2. GoodObjects = GoodIn(objects) /\ (DefaultIsWhole <=> HeadIsWhole(parent, objects, records))
    BY HeadsAreTheSame
  <1>3. GoodObjects' = GoodIn(objects') BY DEF GoodObjects, GoodIn
  <1>4. DefaultIsWhole' <=> HeadIsWhole(parent', objects', records')
    BY HeadIsTheSameNext
  <1> QED BY <1>1, <1>2, <1>3, <1>4 DEF DeviceKeeps, Spares, Pulls

(* A clone or fetch never takes an object from the device that it could     *)
(* read, not even by a crash between two writes (fetch.rs 430-545).         *)
THEOREM ObjectsAreKept ==
  Spec => FetchKeepsObjects
  <1>1. TransferInv /\ [Next]_vars =>
          [work.op \in {"clone", "fetch"} => GoodObjects \subseteq GoodObjects']_vars
    BY StepSpares
  <1> QED BY <1>1, TransferInvHolds, PTL DEF Spec, FetchKeepsObjects

(* A head that opens with its whole graph still does after any step of a    *)
(* clone or fetch, a crash included: the refs come after the objects        *)
(* (fetch.rs 381-572).                                                      *)
THEOREM HeadIsKept ==
  Spec => HeadStaysWhole
  <1>1. TransferInv /\ [Next]_vars =>
          [work.op \in {"clone", "fetch"} /\ DefaultIsWhole => DefaultIsWhole']_vars
    BY StepSpares
  <1> QED BY <1>1, TransferInvHolds, PTL DEF Spec, HeadStaysWhole

(* A verify that ends, with success or not, leaves every object it found    *)
(* readable so (remote_maintenance.rs 1169-1206).                           *)
THEOREM VerifyTakesNothing ==
  Spec => VerifyOnlyHeals
  <1>1. TransferInv /\ [Next]_vars =>
          [work.op = "verify" /\ work' = Idle /\ used' = used
             => work.before \subseteq GoodObjects']_vars
    BY StepSpares
  <1> QED BY <1>1, TransferInvHolds, PTL DEF Spec, VerifyOnlyHeals

=============================================================================
