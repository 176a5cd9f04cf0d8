--------------------------- MODULE RepositoryProofs ---------------------------
(***************************************************************************)
(* For any branches, processes that take turns and number of snapshots,    *)
(* and a crash between any two ref files of a command: what a command      *)
(* reported stays in the history of its branch, but for the branch that a  *)
(* pull fetches where a pull may be cut off.  And for any mounts, shells,  *)
(* handles and trees: the snapshots that mounts commit are well-formed; a  *)
(* flush that reports success is visible, and writes over nothing that its *)
(* handle has not read, where it is the only one that is open, or that the *)
(* view does not show, with more of them.                                  *)
(*                                                                         *)
(* Every ref file that is still to be written goes to a head that descends *)
(* from what was reported for its branch, so that it does not matter how   *)
(* many of them are written.  A pull that runs has saved the heads that    *)
(* hold what was reported, and brings both files back to them; cut off, it *)
(* has written over the files of the branch it pulls only.                 *)
(*                                                                         *)
(* A mount's overlay is a sequence of changes, of which only the last is   *)
(* not a new directory.  What that one leaves at its path is in the        *)
(* committed tree, and without a conflict the path was the same in the     *)
(* branch's head as in the snapshot of the view.                           *)
(***************************************************************************)
EXTENDS Branches, WritableMount, FiniteSetTheorems, WellFoundedInduction, SequenceTheorems, TLAPS

----------------------------------------------------------------------------
(* Ancestry.                                                               *)

\* The ancestry of the first n of the snapshots s.
AncestryTo(s, n, f) ==
  f = [h \in 0..n |-> {h} \cup (IF h = 0 THEN {} ELSE f[s[h].parent])]

Ancestors(s) == CHOOSE f : AncestryTo(s, Len(s), f)

\* A snapshot is written after its parent.
History(s) ==
  /\ \E S : s \in Seq(S)
  /\ \A h \in 1..Len(s) : s[h].parent \in 0..h - 1

\* The head h holds the snapshot a.
Holds(s, a, h) == h \in 0..Len(s) /\ a \in Ancestors(s)[h]

\* A set of numbers that is not empty has a least one.
LEMMA LeastNat ==
  ASSUME NEW S, S \subseteq Nat, S # {}
  PROVE  \E n \in S : \A m \in S : n <= m
  <1> DEFINE R == {ss \in Nat \X Nat : ss[1] < ss[2]}
  <1>1. OpToRel(<, Nat) = R BY DEF OpToRel
  <1>2. IsWellFoundedOn(R, Nat) BY <1>1, NatLessThanWellFounded
  <1> HIDE DEF R
  <1>3. \E x \in S : \A y \in S : <<y, x>> \notin R BY <1>2, WFMin
  <1>4. PICK n \in S : \A m \in S : ~(m < n) BY <1>3 DEF R
  <1> QED BY <1>4

\* A set of numbers with 0 and every successor has them all.
LEMMA SetInduction ==
  ASSUME NEW S, 0 \in S, \A n \in Nat : n \in S => n + 1 \in S
  PROVE  Nat \subseteq S
  <1> SUFFICES ASSUME Nat \ S # {} PROVE FALSE OBVIOUS
  <1>1. PICK n \in Nat \ S : \A m \in Nat \ S : n <= m BY LeastNat
  <1>2. n - 1 \in Nat /\ n - 1 < n BY <1>1
  <1>3. n - 1 \in S BY <1>1, <1>2
  <1> QED BY <1>2, <1>3

LEMMA LenOfHistory ==
  ASSUME NEW s, History(s)
  PROVE  Len(s) \in Nat
  BY LenProperties DEF History

LEMMA AncestryExists ==
  ASSUME NEW s, History(s)
  PROVE  \A n \in 0..Len(s) : \E f : AncestryTo(s, n, f)
  <1> DEFINE S == {n \in Nat : n <= Len(s) => \E f : AncestryTo(s, n, f)}
  <1>0. Len(s) \in Nat BY LenOfHistory
  <1>1. 0 \in S
    <2>1. AncestryTo(s, 0, [h \in 0..0 |-> {0}]) BY DEF AncestryTo
    <2> QED BY <2>1
  <1>2. ASSUME NEW n \in Nat, n \in S PROVE n + 1 \in S
    <2> SUFFICES ASSUME n + 1 <= Len(s) PROVE \E f : AncestryTo(s, n + 1, f) BY DEF S
    <2>1. PICK f : AncestryTo(s, n, f) BY <1>0, <1>2
    <2> DEFINE g == [h \in 0..n + 1 |-> {h} \cup (IF h = 0 THEN {} ELSE f[s[h].parent])]
    <2>2. ASSUME NEW h \in 0..n PROVE g[h] = f[h]
      <3>1. h \in 0..n + 1 OBVIOUS
      <3>2. g[h] = {h} \cup (IF h = 0 THEN {} ELSE f[s[h].parent]) BY <3>1
      <3> HIDE DEF g
      <3> QED BY <2>1, <3>2 DEF AncestryTo
    <2>3. ASSUME NEW h \in 0..n + 1, h # 0 PROVE f[s[h].parent] = g[s[h].parent]
      <3>1. s[h].parent \in 0..n BY <1>0, <2>3 DEF History
      <3> QED BY <2>2, <3>1
    <2> HIDE DEF AncestryTo
    <2>4. AncestryTo(s, n + 1, g) BY <2>3 DEF AncestryTo
    <2> QED BY <2>4
  <1> HIDE DEF S
  <1>3. Nat \subseteq S BY <1>1, <1>2, SetInduction
  <1> QED BY <1>3, <1>0 DEF S

LEMMA AncestorsDef ==
  ASSUME NEW s, History(s), NEW h \in 0..Len(s)
  PROVE  Ancestors(s)[h] = {h} \cup (IF h = 0 THEN {} ELSE Ancestors(s)[s[h].parent])
  <1>1. \E f : AncestryTo(s, Len(s), f) BY AncestryExists, LenOfHistory
  <1>2. AncestryTo(s, Len(s), Ancestors(s)) BY <1>1 DEF Ancestors
  <1> QED BY <1>2 DEF AncestryTo

LEMMA AncestryIsAncestors ==
  Ancestry = Ancestors(snaps)
  BY DEF Ancestry, Ancestors, AncestryTo

\* Nothing is written before its ancestors.
LEMMA AncestorsAreBefore ==
  ASSUME NEW s, History(s)
  PROVE  \A h \in 0..Len(s) : Ancestors(s)[h] \subseteq 0..h
  <1> DEFINE Bad == {h \in 0..Len(s) : ~(Ancestors(s)[h] \subseteq 0..h)}
  <1>0. Len(s) \in Nat BY LenOfHistory
  <1> SUFFICES ASSUME Bad # {} PROVE FALSE OBVIOUS
  <1>9. Bad \subseteq Nat /\ Bad \subseteq 0..Len(s) BY <1>0
  <1> HIDE DEF Bad
  <1>1. PICK h \in Bad : \A m \in Bad : h <= m BY <1>9, LeastNat
  <1>2. Ancestors(s)[h] = {h} \cup (IF h = 0 THEN {} ELSE Ancestors(s)[s[h].parent])
    BY <1>9, AncestorsDef
  <1>3. CASE h = 0
    <2>1. Ancestors(s)[h] \subseteq 0..h BY <1>2, <1>3
    <2> QED BY <1>1, <2>1 DEF Bad
  <1>4. CASE h # 0
    <2>1. s[h].parent \in 0..h - 1 /\ s[h].parent \in 0..Len(s) BY <1>0, <1>4, <1>9 DEF History
    <2>2. s[h].parent \notin Bad BY <1>0, <1>1, <1>9, <2>1
    <2>3. Ancestors(s)[s[h].parent] \subseteq 0..s[h].parent BY <2>1, <2>2 DEF Bad
    <2>4. Ancestors(s)[h] \subseteq 0..h BY <1>0, <1>2, <1>4, <1>9, <2>1, <2>3
    <2> QED BY <1>1, <2>4 DEF Bad
  <1> QED BY <1>3, <1>4

LEMMA HoldsItself ==
  ASSUME NEW s, History(s), NEW h \in 0..Len(s)
  PROVE  Holds(s, h, h)
  BY AncestorsDef DEF Holds

\* What a snapshot holds, its descendants hold.
LEMMA HoldsThrough ==
  ASSUME NEW s, History(s), NEW a, NEW b, NEW c, Holds(s, a, b), Holds(s, b, c)
  PROVE  Holds(s, a, c)
  <1> DEFINE Bad == {h \in 0..Len(s) : Holds(s, b, h) /\ ~Holds(s, a, h)}
  <1>0. Len(s) \in Nat BY LenOfHistory
  <1> SUFFICES ASSUME Bad # {} PROVE FALSE BY DEF Holds
  <1>9. Bad \subseteq Nat /\ Bad \subseteq 0..Len(s) BY <1>0
  <1> HIDE DEF Bad
  <1>1. PICK h \in Bad : \A m \in Bad : h <= m BY <1>9, LeastNat
  <1>2. Ancestors(s)[h] = {h} \cup (IF h = 0 THEN {} ELSE Ancestors(s)[s[h].parent])
    BY <1>9, AncestorsDef
  <1>3. h # b /\ h # 0 BY <1>2 DEF Holds, Bad
  <1>4. s[h].parent \in 0..h - 1 /\ s[h].parent \in 0..Len(s) BY <1>0, <1>3, <1>9 DEF History
  <1>5. Holds(s, b, s[h].parent) BY <1>2, <1>3, <1>4 DEF Holds, Bad
  <1>6. s[h].parent \notin Bad BY <1>0, <1>1, <1>9, <1>4
  <1>7. Holds(s, a, s[h].parent) BY <1>4, <1>5, <1>6 DEF Bad
  <1> QED BY <1>1, <1>2, <1>3, <1>7 DEF Holds, Bad

\* A new snapshot holds what its parent holds, and changes no other.
LEMMA HistoryGrows ==
  ASSUME NEW s, History(s), NEW p \in 0..Len(s), NEW x, x.parent = p, NEW r, r = Append(s, x)
  PROVE  /\ History(r) /\ Len(r) = Len(s) + 1
         /\ \A a, h : Holds(s, a, h) => Holds(r, a, h)
         /\ \A a : Holds(s, a, p) => Holds(r, a, Len(r))
  <1>0. Len(s) \in Nat BY LenOfHistory
  <1>1. PICK S : s \in Seq(S) BY DEF History
  <1>2. /\ r \in Seq(S \cup {x}) /\ Len(r) = Len(s) + 1
        /\ \A h \in 1..Len(s) : r[h] = s[h]
        /\ r[Len(r)] = x
    <2>1. s \in Seq(S \cup {x}) BY <1>1, SMT
    <2> QED BY <2>1, AppendProperties, <1>0
  <1>3. History(r)
    <2>1. ASSUME NEW h \in 1..Len(r) PROVE r[h].parent \in 0..h - 1
      <3>1. CASE h = Len(r) BY <1>0, <1>2, <3>1
      <3>2. CASE h # Len(r)
        <4>1. h \in 1..Len(s) BY <1>0, <1>2, <3>2
        <4> QED BY <1>2, <4>1 DEF History
      <3> QED BY <3>1, <3>2
    <2> QED BY <1>2, <2>1 DEF History
  <1> DEFINE Bad == {h \in 0..Len(s) : Ancestors(r)[h] # Ancestors(s)[h]}
  <1>4. Bad = {}
    <2> SUFFICES ASSUME Bad # {} PROVE FALSE OBVIOUS
    <2>9. Bad \subseteq Nat /\ Bad \subseteq 0..Len(s) BY <1>0
    <2> HIDE DEF Bad
    <2>1. PICK h \in Bad : \A m \in Bad : h <= m BY <2>9, LeastNat
    <2>2. Ancestors(s)[h] = {h} \cup (IF h = 0 THEN {} ELSE Ancestors(s)[s[h].parent])
      BY <2>9, AncestorsDef
    <2>7. h \in 0..Len(r) BY <1>0, <1>2, <2>9
    <2>3. Ancestors(r)[h] = {h} \cup (IF h = 0 THEN {} ELSE Ancestors(r)[r[h].parent])
      BY <1>3, <2>7, AncestorsDef
    <2>4. h # 0 BY <2>1, <2>2, <2>3 DEF Bad
    <2>5. r[h] = s[h] /\ s[h].parent \in 0..h - 1 /\ s[h].parent \in 0..Len(s)
      BY <1>0, <1>2, <2>4, <2>9 DEF History
    <2>6. s[h].parent \notin Bad BY <1>0, <2>1, <2>5, <2>9
    <2> QED BY <2>1, <2>2, <2>3, <2>5, <2>6 DEF Bad
  <1>5. ASSUME NEW a, NEW h, Holds(s, a, h) PROVE Holds(r, a, h)
    BY <1>0, <1>2, <1>4, <1>5 DEF Holds
  <1>6. ASSUME NEW a, Holds(s, a, p) PROVE Holds(r, a, Len(r))
    <2>1. Holds(r, p, Len(r))
      <3>1. Ancestors(r)[Len(r)] = {Len(r)} \cup Ancestors(r)[p]
        <4>1. Len(r) \in 0..Len(r) /\ Len(r) # 0 BY <1>0, <1>2
        <4>2. PICK n \in 0..Len(r) : n = Len(r) BY <4>1
        <4>3. Ancestors(r)[n] = {n} \cup (IF n = 0 THEN {} ELSE Ancestors(r)[r[n].parent])
          BY <1>3, AncestorsDef
        <4> QED BY <1>2, <4>1, <4>2, <4>3
      <3>3. p \in 0..Len(r) BY <1>0, <1>2
      <3>2. Holds(r, p, p) BY <1>3, <3>3, HoldsItself
      <3> QED BY <1>0, <1>2, <3>1, <3>2 DEF Holds
    <2>2. Holds(r, a, p) BY <1>5, <1>6
    <2> QED BY <1>3, <2>1, <2>2, HoldsThrough
  <1> QED BY <1>2, <1>3, <1>5, <1>6

----------------------------------------------------------------------------
(* The invariant.                                                          *)

RefFile == [file : {"default", "branch"}, token : Tokens, head : Int]

Commands == [step : {"idle", "write", "fetch", "restore"}, todo : Seq(RefFile),
             ack : SUBSET (Tokens \X Int), saved : Seq(Int)]

\* A head that a ref file may get; only a branch file may go.
Fits(s, w) == w.head \in -1..Len(s) /\ (w.file = "default" => w.head # None)

\* A reported head a stays where it is, and under what is still written.
Stays(s, d, b, a) ==
  /\ Holds(s, a[2], b[a[1]])
  /\ d.token = a[1] => Holds(s, a[2], d.head)

Survives(s, q, a) == \A w \in q : w.token = a[1] => Holds(s, a[2], w.head)

\* A head that is to be reported is in both files, or will be.
Comes(s, d, b, q, a) ==
  /\ Holds(s, a[2], b[a[1]]) \/ \E w \in q : w.file = "branch" /\ w.token = a[1]
  /\ d.token = a[1] =>
       Holds(s, a[2], d.head) \/ \E w \in q : w.file = "default" /\ w.token = a[1]

Writes(s, d, b, o, told) ==
  LET q == Range(o.todo)
  IN /\ \A a \in told : Stays(s, d, b, a) /\ Survives(s, q, a)
     /\ \A a \in o.ack : Comes(s, d, b, q, a) /\ Survives(s, q, a)

\* What a pull saved holds what was reported, and comes back.
Restores(d, b, q, saved) ==
  /\ \A w \in q : w.head = IF w.file = "default" THEN saved[1] ELSE saved[2]
  /\ d.head = saved[1] \/ \E w \in q : w.file = "default"
  /\ b[Main] = saved[2] \/ \E w \in q : w.file = "branch"

Pulls(s, d, b, o, told) ==
  LET q == Range(o.todo)
  IN /\ d.token = Main /\ o.ack = {}
     /\ o.saved[1] \in 0..Len(s) /\ o.saved[2] \in -1..Len(s) /\ o.saved[3] \in 0..Len(s)
     /\ \A w \in q : w.token = Main
     /\ \A a \in told : IF a[1] = Main THEN Holds(s, a[2], o.saved[1]) /\ Holds(s, a[2], o.saved[2])
                       ELSE Holds(s, a[2], b[a[1]])
     /\ o.step = "restore" => Restores(d, b, q, o.saved)

Refs(s, d, b, r, told) ==
  /\ History(s)
  /\ d \in [token : Tokens, head : Int] /\ d.head \in 0..Len(s)
  /\ b \in [Tokens -> Int] /\ \A t \in Tokens : b[t] \in -1..Len(s)
  /\ r \in 0..Len(s)
  /\ told \in SUBSET (Tokens \X Int)

Types ==
  /\ Refs(snaps, default, branch, remote, Sure)
  /\ op \in [Procs -> Commands]
  /\ \A i \in Procs : \A w \in Range(op[i].todo) : Fits(snaps, w)

Turns == \A i, j \in Procs : op[i] # Idle /\ op[j] # Idle => i = j

Calm == \A i \in Procs : op[i].step \in {"idle", "write"}

Reported ==
  /\ Calm => \A a \in Sure : Stays(snaps, default, branch, a)
  /\ Calm => \A i \in Procs : Writes(snaps, default, branch, op[i], Sure)
  /\ \A i \in Procs : op[i].step \in {"fetch", "restore"} =>
                       Pulls(snaps, default, branch, op[i], Sure)

BranchInv == Types /\ Turns /\ Reported

----------------------------------------------------------------------------
(* What a command writes, and that it is alone.                            *)

LEMMA IdleIsCommand ==
  /\ Idle \in Commands /\ Idle.step = "idle" /\ Idle.todo = << >> /\ Idle.ack = {}
  /\ Range(Idle.todo) = {}
  BY DEF Idle, Commands, Range

LEMMA Queues ==
  /\ Range(<< >>) = {}
  /\ \A x : x \in RefFile => <<x>> \in Seq(RefFile) /\ Range(<<x>>) = {x}
  /\ \A x, y : x \in RefFile /\ y \in RefFile =>
       <<x, y>> \in Seq(RefFile) /\ Range(<<x, y>>) = {x, y}
  /\ \A x, y, z : x \in RefFile /\ y \in RefFile /\ z \in RefFile =>
       <<x, y, z>> \in Seq(RefFile) /\ Range(<<x, y, z>>) = {x, y, z}
  <1>1. Range(<< >>) = {} BY DEF Range
  <1>2. ASSUME NEW x \in RefFile PROVE <<x>> \in Seq(RefFile) /\ Range(<<x>>) = {x}
    BY DEF Range
  <1>3. ASSUME NEW x \in RefFile, NEW y \in RefFile
        PROVE  <<x, y>> \in Seq(RefFile) /\ Range(<<x, y>>) = {x, y}
    <2>1. DOMAIN <<x, y>> = {1, 2} OBVIOUS
    <2> QED BY <2>1 DEF Range
  <1>4. ASSUME NEW x \in RefFile, NEW y \in RefFile, NEW z \in RefFile
        PROVE  <<x, y, z>> \in Seq(RefFile) /\ Range(<<x, y, z>>) = {x, y, z}
    <2>1. DOMAIN <<x, y, z>> = {1, 2, 3} OBVIOUS
    <2> QED BY <2>1 DEF Range
  <1> QED BY <1>1, <1>2, <1>3, <1>4

LEMMA LongerQueues ==
  ASSUME NEW x \in RefFile, NEW y \in RefFile, NEW z \in RefFile
  PROVE  <<x>> \o <<y>> = <<x, y>> /\ Append(<<x, y>>, z) = <<x, y, z>>
  <1>1. <<x>> \o <<y>> = <<x, y>>
    <2> DEFINE p == <<x>>
               q == <<y>>
               r == <<x, y>>
    <2>1. p \in Seq(RefFile) /\ q \in Seq(RefFile) /\ Len(p) = 1 /\ Len(q) = 1
          /\ p[1] = x /\ q[1] = y
      OBVIOUS
    <2>2. r \in Seq(RefFile) /\ Len(r) = 2 /\ r[1] = x /\ r[2] = y OBVIOUS
    <2> HIDE DEF p, q, r
    <2>3. /\ p \o q \in Seq(RefFile) /\ Len(p \o q) = Len(p) + Len(q)
          /\ \A i \in 1..(Len(p) + Len(q)) :
               (p \o q)[i] = IF i <= Len(p) THEN p[i] ELSE q[i - Len(p)]
      BY <2>1, ConcatProperties, Zenon
    <2>4. \A i \in 1..2 : (p \o q)[i] = r[i] BY <2>1, <2>2, <2>3
    <2>5. p \o q = r BY <2>1, <2>2, <2>3, <2>4, SeqEqual
    <2> QED BY <2>5 DEF p, q, r
  <1>2. Append(<<x, y>>, z) = <<x, y, z>>
    <2> DEFINE p == <<x, y>>
               r == <<x, y, z>>
    <2>1. p \in Seq(RefFile) /\ Len(p) = 2 /\ p[1] = x /\ p[2] = y OBVIOUS
    <2>2. r \in Seq(RefFile) /\ Len(r) = 3 /\ r[1] = x /\ r[2] = y /\ r[3] = z OBVIOUS
    <2> HIDE DEF p, r
    <2>3. /\ Append(p, z) \in Seq(RefFile) /\ Len(Append(p, z)) = 3
          /\ Append(p, z)[1] = x /\ Append(p, z)[2] = y /\ Append(p, z)[3] = z
      <3>1. PICK e : e = Append(p, z) OBVIOUS
      <3>2. /\ e \in Seq(RefFile) /\ Len(e) = Len(p) + 1
            /\ \A i \in 1..Len(p) : e[i] = p[i]
            /\ e[Len(p) + 1] = z
        <4>1. PICK q \in Seq(RefFile) : q = p BY <2>1
        <4>2. /\ Append(q, z) \in Seq(RefFile) /\ Len(Append(q, z)) = Len(q) + 1
              /\ \A i \in 1..Len(q) : Append(q, z)[i] = q[i]
              /\ Append(q, z)[Len(q) + 1] = z
          BY AppendProperties
        <4> QED BY <3>1, <4>1, <4>2
      <3>3. e \in Seq(RefFile) /\ Len(e) = 3 /\ e[1] = x /\ e[2] = y /\ e[3] = z
        BY <2>1, <3>2
      <3> QED BY <3>1, <3>3
    <2>4. \A i \in 1..3 : Append(p, z)[i] = r[i] BY <2>2, <2>3
    <2>5. Append(p, z) = r BY <2>2, <2>3, <2>4, SeqEqual
    <2> QED BY <2>5 DEF p, r
  <1> QED BY <1>1, <1>2

LEMMA FirstOfQueue ==
  ASSUME NEW q \in Seq(RefFile), q # << >>
  PROVE  /\ Tail(q) \in Seq(RefFile) /\ Head(q) \in RefFile
         /\ Range(q) = {Head(q)} \cup Range(Tail(q))
  <1>1. Len(q) \in Nat \ {0} /\ DOMAIN q = 1..Len(q) BY EmptySeq, LenProperties
  <1>2. Tail(q) \in Seq(RefFile) /\ Head(q) \in RefFile /\ Head(q) = q[1] BY <1>1, HeadTailProperties
  <1>3. DOMAIN Tail(q) = 1..Len(q) - 1 /\ \A n \in 1..Len(q) - 1 : Tail(q)[n] = q[n + 1]
    BY <1>1, HeadTailProperties
  <1>4. Range(q) \subseteq {Head(q)} \cup Range(Tail(q))
    <2>1. ASSUME NEW n \in 1..Len(q), n # 1 PROVE q[n] \in Range(Tail(q))
      <3>1. n - 1 \in 1..Len(q) - 1 /\ (n - 1) + 1 = n BY <1>1, <2>1
      <3> QED BY <1>3, <3>1 DEF Range
    <2> QED BY <1>1, <1>2, <2>1 DEF Range
  <1>5. Range(Tail(q)) \subseteq Range(q)
    <2>1. ASSUME NEW n \in 1..Len(q) - 1 PROVE Tail(q)[n] \in Range(q)
      <3>1. n + 1 \in 1..Len(q) BY <1>1
      <3> QED BY <1>1, <1>3, <3>1 DEF Range
    <2> QED BY <1>3, <2>1 DEF Range
  <1>6. Head(q) \in Range(q) BY <1>1, <1>2 DEF Range
  <1> QED BY <1>2, <1>4, <1>5, <1>6

NoOther(i) == \A j \in Procs \ {i} : op[j] = Idle

\* What the invariant says of a command that is alone.
Running(s, d, b, o, told) ==
  /\ o \in Commands /\ \A w \in Range(o.todo) : Fits(s, w)
  /\ o.step \in {"idle", "write"} => Writes(s, d, b, o, told)
  /\ o.step \in {"fetch", "restore"} => Pulls(s, d, b, o, told)

LEMMA AloneBefore ==
  ASSUME BranchInv, NEW i \in Procs, NoOther(i), NEW o, o = op[i]
  PROVE  /\ Refs(snaps, default, branch, remote, Sure)
         /\ Running(snaps, default, branch, o, Sure)
  <1>1. o.step \in {"idle", "write"} => Calm BY IdleIsCommand DEF NoOther, Calm
  <1> QED BY <1>1 DEF BranchInv, Types, Reported, Running

LEMMA AloneAfter ==
  ASSUME BranchInv, NEW i \in Procs, NoOther(i), NEW c, op' = [op EXCEPT ![i] = c],
         Refs(snaps, default, branch, remote, Sure)',
         NEW s, s = snaps', NEW d, d = default', NEW b, b = branch', NEW told, told = Sure',
         Running(s, d, b, c, told)
  PROVE  BranchInv'
  <1>1. c \in Commands BY DEF Running
  <1>2. op' \in [Procs -> Commands] /\ op'[i] = c /\ \A j \in Procs \ {i} : op'[j] = Idle
    BY <1>1 DEF BranchInv, Types, NoOther
  <1>3. \A j \in Procs : \A w \in Range(op'[j].todo) : Fits(s, w)
    BY <1>2, IdleIsCommand DEF Running
  <1>4. Types' BY <1>2, <1>3 DEF Types
  <1>5. Turns' BY <1>2 DEF Turns
  <1>6. Calm' => \A a \in told : Stays(s, d, b, a) BY <1>2 DEF Calm, Running, Writes
  <1>7. Calm' => \A j \in Procs : Writes(s, d, b, op'[j], told)
    <2> SUFFICES ASSUME Calm', NEW j \in Procs PROVE Writes(s, d, b, op'[j], told) OBVIOUS
    <2>1. CASE j = i BY <1>2, <2>1 DEF Calm, Running
    <2>2. CASE j # i
      <3>1. op'[j] = Idle BY <1>2, <2>2
      <3> QED BY <1>6, <3>1, IdleIsCommand DEF Writes, Survives
    <2> QED BY <2>1, <2>2
  <1>8. \A j \in Procs : op'[j].step \in {"fetch", "restore"} => Pulls(s, d, b, op'[j], told)
    BY <1>2, IdleIsCommand DEF Running
  <1>9. Reported' BY <1>6, <1>7, <1>8 DEF Reported
  <1> QED BY <1>4, <1>5, <1>9 DEF BranchInv

LEMMA FreeIsAlone ==
  ASSUME ~Concurrent, NEW i \in Procs, Free(i)
  PROVE  NoOther(i) /\ op[i] = Idle
  BY DEF Free, NoOther

LEMMA BusyIsAlone ==
  ASSUME BranchInv, NEW i \in Procs, op[i] # Idle
  PROVE  NoOther(i)
  BY DEF BranchInv, Turns, NoOther

----------------------------------------------------------------------------
(* New snapshots.                                                          *)

Grows(s, r) ==
  History(r) /\ Len(s) <= Len(r) /\ \A a, h : Holds(s, a, h) => Holds(r, a, h)

LEMMA SnapshotGrows ==
  ASSUME NEW s, History(s), NEW p \in 0..Len(s), NEW tree, NEW r,
         r = Append(s, [parent |-> p, tree |-> tree])
  PROVE  /\ Grows(s, r) /\ Len(s) + 1 \in 0..Len(r) /\ Holds(r, Len(s) + 1, Len(s) + 1)
         /\ \A a : Holds(s, a, p) => Holds(r, a, Len(s) + 1)
  <1>0. Len(s) \in Nat BY LenOfHistory
  <1>1. PICK x : x = [parent |-> p, tree |-> tree] OBVIOUS
  <1>2. r = Append(s, x) /\ x.parent = p BY <1>1
  <1>3. /\ History(r) /\ Len(r) = Len(s) + 1
        /\ \A a, h : Holds(s, a, h) => Holds(r, a, h)
        /\ \A a : Holds(s, a, p) => Holds(r, a, Len(r))
    BY <1>2, HistoryGrows
  <1>4. Len(r) \in 0..Len(r) BY <1>0, <1>3
  <1>5. Holds(r, Len(r), Len(r)) BY <1>3, <1>4, HoldsItself
  <1> QED BY <1>0, <1>3, <1>4, <1>5 DEF Grows

LEMMA GrowingRefs ==
  ASSUME NEW s, NEW d, NEW b, NEW told, NEW r, NEW r2, NEW s2, Grows(s, s2),
         Refs(s, d, b, r, told), r2 \in 0..Len(s2)
  PROVE  Refs(s2, d, b, r2, told)
  <1>1. Len(s) \in Nat /\ Len(s2) \in Nat BY LenOfHistory DEF Refs, Grows
  <1>2. \A h \in Int : h \in 0..Len(s) => h \in 0..Len(s2) BY <1>1 DEF Grows
  <1>3. \A h \in Int : h \in -1..Len(s) => h \in -1..Len(s2) BY <1>1 DEF Grows
  <1> QED BY <1>2, <1>3 DEF Refs, Grows

LEMMA GrowingFits ==
  ASSUME NEW s, NEW s2, Grows(s, s2), History(s)
  PROVE  \A w : w.head \in Int /\ Fits(s, w) => Fits(s2, w)
  <1>1. Len(s) \in Nat /\ Len(s2) \in Nat BY LenOfHistory DEF Grows
  <1>2. \A h \in Int : h \in -1..Len(s) => h \in -1..Len(s2) BY <1>1 DEF Grows
  <1> QED BY <1>2 DEF Fits

LEMMA GrowingCommand ==
  ASSUME NEW s, NEW d, NEW b, NEW o \in Commands, NEW told, NEW s2, Grows(s, s2), History(s)
  PROVE  /\ Writes(s, d, b, o, told) => Writes(s2, d, b, o, told)
         /\ Pulls(s, d, b, o, told) => Pulls(s2, d, b, o, told)
         /\ \A a : Stays(s, d, b, a) => Stays(s2, d, b, a)
  <1>0. Len(s) \in Nat /\ Len(s2) \in Nat BY LenOfHistory DEF Grows
  <1>1. Writes(s, d, b, o, told) => Writes(s2, d, b, o, told)
    BY DEF Grows, Writes, Stays, Survives, Comes
  <1>2. ASSUME Pulls(s, d, b, o, told) PROVE Pulls(s2, d, b, o, told)
    <2>1. o.saved[1] \in 0..Len(s2) /\ o.saved[2] \in -1..Len(s2) /\ o.saved[3] \in 0..Len(s2)
      BY <1>0, <1>2 DEF Grows, Pulls
    <2> QED BY <1>2, <2>1 DEF Grows, Pulls
  <1>3. \A a : Stays(s, d, b, a) => Stays(s2, d, b, a) BY DEF Grows, Stays
  <1> QED BY <1>1, <1>2, <1>3

LEMMA RemoteCommitKeeps ==
  ASSUME BranchInv, NEW tree, RemoteCommit(tree)
  PROVE  BranchInv'
  <1>1. PICK s : s = snaps OBVIOUS
  <1>2. PICK s2 : s2 = snaps' OBVIOUS
  <1>3. PICK p : p = remote OBVIOUS
  <1>4. /\ Refs(s, default, branch, p, Sure) /\ s2 = Append(s, [parent |-> p, tree |-> tree])
        /\ remote' = Len(s) + 1
    BY <1>1, <1>2, <1>3 DEF BranchInv, Types, RemoteCommit, NewSnapshot, NextId
  <1>5. History(s) /\ p \in 0..Len(s) BY <1>4 DEF Refs
  <1>6. Grows(s, s2) /\ remote' \in 0..Len(s2) BY <1>4, <1>5, SnapshotGrows
  <1>7. Types'
    <2>1. PICK d, b, told : d = default /\ b = branch /\ told = Sure OBVIOUS
    <2>2. Refs(s, d, b, p, told) BY <1>4, <2>1
    <2>3. PICK r2 : r2 = remote' OBVIOUS
    <2>4. Refs(s2, d, b, r2, told) BY <1>6, <2>2, <2>3, GrowingRefs
    <2>9. \A w : w.head \in Int /\ Fits(s, w) => Fits(s2, w) BY <1>5, <1>6, GrowingFits
    <2>5. UNCHANGED <<default, branch, op, Sure>> BY DEF RemoteCommit, Sure
    <2>6. \A i \in Procs : \A w \in Range(op[i].todo) : w.head \in Int /\ Fits(s, w)
      <3>1. ASSUME NEW i \in Procs, NEW w \in Range(op[i].todo) PROVE w \in RefFile
        BY DEF BranchInv, Types, Commands, Range
      <3> QED BY <1>1, <3>1 DEF BranchInv, Types, RefFile
    <2>7. Refs(snaps, default, branch, remote, Sure)' BY <1>2, <2>1, <2>3, <2>4, <2>5
    <2>8. op' \in [Procs -> Commands] BY <2>5 DEF BranchInv, Types
    <2> QED BY <1>2, <2>5, <2>6, <2>7, <2>8, <2>9 DEF Types
  <1>8. Turns' BY DEF BranchInv, Turns, RemoteCommit
  <1>9. Reported'
    <2>1. UNCHANGED <<default, branch, op, Sure>> BY DEF RemoteCommit, Sure
    <2>2. PICK d, b, told : d = default /\ b = branch /\ told = Sure OBVIOUS
    <2>3. \A o \in Commands : /\ Writes(s, d, b, o, told) => Writes(s2, d, b, o, told)
                              /\ Pulls(s, d, b, o, told) => Pulls(s2, d, b, o, told)
      BY <1>5, <1>6, GrowingCommand
    <2>4. \A a : Stays(s, d, b, a) => Stays(s2, d, b, a) BY <1>5, <1>6, IdleIsCommand, GrowingCommand
    <2>5. \A i \in Procs : op[i] \in Commands BY DEF BranchInv, Types
    <2> QED BY <1>1, <1>2, <2>1, <2>2, <2>3, <2>4, <2>5 DEF BranchInv, Reported, Calm
  <1> QED BY <1>7, <1>8, <1>9 DEF BranchInv

\* The commands that move refs, from values of the refs.
LEMMA CommitRuns ==
  ASSUME NEW s, NEW d, NEW b, NEW r, NEW told, Refs(s, d, b, r, told),
         Running(s, d, b, Idle, told), NEW s2, Grows(s, s2),
         NEW n \in 0..Len(s2), Holds(s2, n, n), \A a : Holds(s, a, d.head) => Holds(s2, a, n),
         NEW c, c = [Idle EXCEPT !.step = "write",
                       !.todo = <<DefaultFile(d.token, n), BranchFile(d.token, n)>>,
                       !.ack = {<<d.token, n>>}]
  PROVE  Running(s2, d, b, c, told)
  <1>0. History(s) /\ d.token \in Tokens BY DEF Refs
  <1>1. Len(s2) \in Nat /\ n \in Int BY LenOfHistory DEF Grows
  <1> DEFINE x == DefaultFile(d.token, n)
             y == BranchFile(d.token, n)
  <1>2. /\ x \in RefFile /\ x.file = "default" /\ x.token = d.token /\ x.head = n
        /\ y \in RefFile /\ y.file = "branch" /\ y.token = d.token /\ y.head = n
    BY <1>0, <1>1 DEF DefaultFile, BranchFile, RefFile
  <1>3. /\ c.step = "write" /\ c.todo = <<x, y>> /\ c.ack = {<<d.token, n>>}
        /\ c \in Commands
    <2>1. <<x, y>> \in Seq(RefFile) BY <1>2, Queues
    <2>2. {<<d.token, n>>} \in SUBSET (Tokens \X Int) BY <1>0, <1>1
    <2>3. c = [Idle EXCEPT !.step = "write", !.todo = <<x, y>>, !.ack = {<<d.token, n>>}] OBVIOUS
    <2> HIDE DEF x, y
    <2>4. PICK q, A : q = <<x, y>> /\ A = {<<d.token, n>>} OBVIOUS
    <2> QED BY <2>1, <2>2, <2>3, <2>4, IdleIsCommand DEF Commands
  <1> HIDE DEF x, y
  <1>4. Range(c.todo) = {x, y} BY <1>2, <1>3, Queues
  <1>5. \A w \in Range(c.todo) : Fits(s2, w)
    BY <1>1, <1>2, <1>4 DEF Fits, None
  <1>6. Writes(s2, d, b, c, told)
    <2>1. \A a \in told : Stays(s, d, b, a) BY IdleIsCommand DEF Running, Writes
    <2>2. \A a \in told : Stays(s2, d, b, a) BY <2>1, <1>0, IdleIsCommand, GrowingCommand
    <2>3. \A a \in told : Survives(s2, {x, y}, a) BY <1>2, <2>1 DEF Survives, Stays
    <2>4. \A a \in c.ack : Comes(s2, d, b, {x, y}, a) /\ Survives(s2, {x, y}, a)
      BY <1>2, <1>3 DEF Survives, Comes
    <2> QED BY <1>4, <2>2, <2>3, <2>4 DEF Writes
  <1> QED BY <1>3, <1>5, <1>6 DEF Running

LEMMA CommitKeeps ==
  ASSUME ~Concurrent, BranchInv, NEW i \in Procs, NEW tree, Commit(i, tree)
  PROVE  BranchInv'
  <1>1. PICK s, d, b, r, told : s = snaps /\ d = default /\ b = branch /\ r = remote /\ told = Sure
    OBVIOUS
  <1>2. PICK n, c : /\ n = Len(s) + 1
                    /\ c = [Idle EXCEPT !.step = "write",
                              !.todo = <<DefaultFile(d.token, n), BranchFile(d.token, n)>>,
                              !.ack = {<<d.token, n>>}]
    OBVIOUS
  <1>3. PICK s2 : s2 = Append(s, [parent |-> d.head, tree |-> tree]) OBVIOUS
  <1>4. PICK h : h = d.head OBVIOUS
  <1>5. Free(i) BY DEF Commit
  <1>6. NoOther(i) /\ op[i] = Idle BY <1>5, FreeIsAlone
  <1>7. Refs(s, d, b, r, told) /\ Running(s, d, b, Idle, told) BY <1>1, <1>6, AloneBefore
  <1>8. /\ Grows(s, s2) /\ n \in 0..Len(s2) /\ Holds(s2, n, n)
        /\ \A a : Holds(s, a, h) => Holds(s2, a, n)
    <2>1. s2 = Append(s, [parent |-> h, tree |-> tree]) BY <1>3, <1>4
    <2>2. History(s) /\ h \in 0..Len(s) BY <1>7, <1>4 DEF Refs
    <2>3. PICK m : m = Len(s) + 1 OBVIOUS
    <2> QED BY <1>2, <2>1, <2>2, SnapshotGrows
  <1>9. Refs(s2, d, b, r, told)
    <2>1. r \in 0..Len(s2) BY <1>7, <1>8, LenOfHistory DEF Refs, Grows
    <2> QED BY <1>7, <1>8, <2>1, GrowingRefs
  <1>10. Refs(s2, d, b, r, told) /\ Running(s2, d, b, c, told)
    BY <1>2, <1>7, <1>4, <1>8, <1>9, CommitRuns
  <1>11. /\ snaps' = s2 /\ default' = d /\ branch' = b /\ remote' = r /\ Sure' = told
        /\ op' = [op EXCEPT ![i] = c]
    BY <1>1, <1>2, <1>3 DEF Commit, NewSnapshot, Begin, NextId, Sure
  <1>12. Refs(snaps, default, branch, remote, Sure)' BY <1>10, <1>11
  <1> QED BY <1>6, <1>10, <1>11, <1>12, AloneAfter

----------------------------------------------------------------------------
(* The commands of one step, and the ref files one after the other.        *)

LEMMA Begun ==
  ASSUME NEW s, NEW d, NEW b, NEW told, NEW q \in Seq(RefFile), NEW ack \in SUBSET (Tokens \X Int),
         \A w \in Range(q) : Fits(s, w),
         \A a \in told : Stays(s, d, b, a) /\ Survives(s, Range(q), a),
         \A a \in ack : Comes(s, d, b, Range(q), a) /\ Survives(s, Range(q), a),
         NEW c, c = [Idle EXCEPT !.step = "write", !.todo = q, !.ack = ack]
  PROVE  Running(s, d, b, c, told)
  <1>1. c.step = "write" /\ c.todo = q /\ c.ack = ack /\ c \in Commands
    BY IdleIsCommand DEF Commands
  <1>2. Writes(s, d, b, c, told) BY <1>1 DEF Writes
  <1> QED BY <1>1, <1>2 DEF Running

LEMMA IdleStays ==
  ASSUME NEW s, NEW d, NEW b, NEW told, Running(s, d, b, Idle, told)
  PROVE  \A a \in told : Stays(s, d, b, a)
  BY IdleIsCommand DEF Running, Writes

LEMMA RunningIdle ==
  ASSUME NEW s, NEW d, NEW b, NEW told, \A a \in told : Stays(s, d, b, a)
  PROVE  Running(s, d, b, Idle, told)
  BY IdleIsCommand DEF Running, Writes, Survives

LEMMA CreateBranchKeeps ==
  ASSUME ~Concurrent, BranchInv, NEW i \in Procs, NEW t \in Tokens, CreateBranch(i, t)
  PROVE  BranchInv'
  <1>1. PICK s, d, b, r, told : s = snaps /\ d = default /\ b = branch /\ r = remote /\ told = Sure
    OBVIOUS
  <1>2. PICK x : x = BranchFile(t, d.head) OBVIOUS
  <1>3. PICK c : c = [Idle EXCEPT !.step = "write", !.todo = <<x>>, !.ack = {<<t, d.head>>}] OBVIOUS
  <1>4. Free(i) BY DEF CreateBranch
  <1>5. NoOther(i) /\ op[i] = Idle BY <1>4, FreeIsAlone
  <1>6. Refs(s, d, b, r, told) /\ Running(s, d, b, Idle, told) BY <1>1, <1>5, AloneBefore
  <1>7. /\ UNCHANGED <<snaps, default, branch, remote, Sure>> /\ op' = [op EXCEPT ![i] = c]
        /\ d.token # t /\ b[t] = None
    BY <1>1, <1>2, <1>3 DEF CreateBranch, Begin, Sure
  <1>8. Running(s, d, b, c, told)
    <2>1. History(s) /\ d.head \in 0..Len(s) /\ Len(s) \in Nat BY <1>6, LenOfHistory DEF Refs
    <2>2. x \in RefFile /\ x.file = "branch" /\ x.token = t /\ x.head = d.head
      BY <1>2, <2>1 DEF BranchFile, RefFile
    <2>3. <<x>> \in Seq(RefFile) /\ Range(<<x>>) = {x} BY <2>2, Queues
    <2>4. Holds(s, d.head, d.head) BY <2>1, HoldsItself
    <2>5. \A w \in {x} : Fits(s, w) BY <2>1, <2>2 DEF Fits
    <2>6. \A a \in told : Stays(s, d, b, a) BY <1>6, IdleStays
    <2>7. \A a \in told : a[1] # t BY <1>7, <2>6, <2>1 DEF Stays, Holds, None
    <2>8. \A a \in told : Survives(s, {x}, a) BY <2>2, <2>7 DEF Survives
    <2>9. PICK h \in Int : h = d.head BY <2>1
    <2>10. <<t, h>>[1] = t /\ <<t, h>>[2] = h OBVIOUS
    <2>11. Comes(s, d, b, {x}, <<t, h>>) /\ Survives(s, {x}, <<t, h>>)
      BY <1>7, <2>2, <2>4, <2>9, <2>10 DEF Comes, Survives
    <2>12. PICK q : q = <<x>> OBVIOUS
    <2>13. PICK ack : ack = {<<t, h>>} OBVIOUS
    <2>14. c = [Idle EXCEPT !.step = "write", !.todo = q, !.ack = ack] BY <1>3, <2>9, <2>12, <2>13
    <2>15. q \in Seq(RefFile) /\ Range(q) = {x} BY <2>3, <2>12
    <2>16. ack \in SUBSET (Tokens \X Int) BY <2>13
    <2>17. \A a \in ack : Comes(s, d, b, {x}, a) /\ Survives(s, {x}, a) BY <2>11, <2>13
    <2> QED BY <2>5, <2>6, <2>8, <2>14, <2>15, <2>16, <2>17, Begun
  <1>9. Refs(snaps, default, branch, remote, Sure)' BY <1>1, <1>6, <1>7
  <1> QED BY <1>1, <1>5, <1>7, <1>8, <1>9, AloneAfter

LEMMA DeleteBranchKeeps ==
  ASSUME ~Concurrent, BranchInv, NEW i \in Procs, NEW t \in Tokens, DeleteBranch(i, t)
  PROVE  BranchInv'
  <1>1. PICK s, d, b, r, told : s = snaps /\ d = default /\ b = branch /\ r = remote /\ told = Sure
    OBVIOUS
  <1>2. PICK b2, left : b2 = [b EXCEPT ![t] = None] /\ left = {a \in told : a[1] # t} OBVIOUS
  <1>4. Free(i) BY DEF DeleteBranch
  <1>5. NoOther(i) /\ op[i] = Idle BY <1>4, FreeIsAlone
  <1>6. Refs(s, d, b, r, told) /\ Running(s, d, b, Idle, told) BY <1>1, <1>5, AloneBefore
  <1>7. /\ snaps' = s /\ default' = d /\ remote' = r /\ branch' = b2 /\ Sure' = left
        /\ op' = op
    BY <1>1, <1>2 DEF DeleteBranch, Sure
  <1>8. op' = [op EXCEPT ![i] = Idle] BY <1>5, <1>7 DEF BranchInv, Types
  <1>9. Refs(s, d, b2, r, left)
    <2>1. Len(s) \in Nat BY <1>6, LenOfHistory DEF Refs
    <2> QED BY <1>2, <1>6, <2>1 DEF Refs, None
  <1>10. Running(s, d, b2, Idle, left)
    <2>1. \A a \in told : Stays(s, d, b, a) BY <1>6, IdleStays
    <2>2. \A a \in left : a \in told /\ b2[a[1]] = b[a[1]] BY <1>2, <1>6 DEF Refs
    <2>3. \A a \in left : Stays(s, d, b2, a) BY <2>1, <2>2 DEF Stays
    <2> QED BY <2>3, RunningIdle
  <1>11. Refs(snaps, default, branch, remote, Sure)' BY <1>7, <1>9
  <1> QED BY <1>5, <1>7, <1>8, <1>10, <1>11, AloneAfter

LEMMA CheckoutBranchKeeps ==
  ASSUME ~Concurrent, BranchInv, NEW i \in Procs, NEW t \in Tokens, CheckoutBranch(i, t)
  PROVE  BranchInv'
  <1>1. PICK s, d, b, r, told : s = snaps /\ d = default /\ b = branch /\ r = remote /\ told = Sure
    OBVIOUS
  <1>2. PICK x : x = DefaultFile(t, b[t]) OBVIOUS
  <1>3. PICK q, ack : q = <<x>> /\ ack = {} OBVIOUS
  <1>4. PICK c : c = [Idle EXCEPT !.step = "write", !.todo = q, !.ack = ack] OBVIOUS
  <1>5. Free(i) BY DEF CheckoutBranch
  <1>6. NoOther(i) /\ op[i] = Idle BY <1>5, FreeIsAlone
  <1>7. Refs(s, d, b, r, told) /\ Running(s, d, b, Idle, told) BY <1>1, <1>6, AloneBefore
  <1>8. /\ UNCHANGED <<snaps, default, branch, remote, Sure>> /\ op' = [op EXCEPT ![i] = c]
        /\ b[t] # None
    BY <1>1, <1>2, <1>3, <1>4 DEF CheckoutBranch, Begin, Sure
  <1>9. Running(s, d, b, c, told)
    <2>1. b[t] \in -1..Len(s) /\ Len(s) \in Nat /\ b[t] \in Int BY <1>7, LenOfHistory DEF Refs
    <2>2. x \in RefFile /\ x.file = "default" /\ x.token = t /\ x.head = b[t]
      BY <1>2, <2>1 DEF DefaultFile, RefFile
    <2>3. q \in Seq(RefFile) /\ Range(q) = {x} BY <1>3, <2>2, Queues
    <2>4. \A w \in Range(q) : Fits(s, w) BY <1>8, <2>1, <2>2, <2>3 DEF Fits
    <2>5. \A a \in told : Stays(s, d, b, a) BY <1>7, IdleStays
    <2>6. \A a \in told : Survives(s, Range(q), a) BY <2>2, <2>3, <2>5 DEF Survives, Stays
    <2>7. ack \in SUBSET (Tokens \X Int) /\ \A a : a \notin ack BY <1>3
    <2> QED BY <1>4, <2>3, <2>4, <2>5, <2>6, <2>7, Begun
  <1>10. Refs(snaps, default, branch, remote, Sure)' BY <1>1, <1>7, <1>8
  <1> QED BY <1>1, <1>6, <1>8, <1>9, <1>10, AloneAfter

LEMMA FinishKeeps ==
  ASSUME BranchInv, NEW i \in Procs, Finish(i)
  PROVE  BranchInv'
  <1>1. PICK s, d, b, r, told : s = snaps /\ d = default /\ b = branch /\ r = remote /\ told = Sure
    OBVIOUS
  <1>2. PICK o : o = op[i] OBVIOUS
  <1>3. PICK all : all = Sure' OBVIOUS
  <1>4. /\ snaps' = s /\ default' = d /\ branch' = b /\ remote' = r /\ Sure' = all
        /\ op' = [op EXCEPT ![i] = Idle] /\ o.step = "write" /\ o.todo = << >>
    BY <1>1, <1>2, <1>3 DEF Finish, Written
  <1>10. all \subseteq told \cup o.ack BY <1>1, <1>2, <1>3 DEF Finish, Sure
  <1>5. NoOther(i) BY <1>2, <1>4, BusyIsAlone, IdleIsCommand
  <1>6. Refs(s, d, b, r, told) /\ Running(s, d, b, o, told) BY <1>1, <1>2, <1>5, AloneBefore
  <1>7. \A a \in all : Stays(s, d, b, a)
    <2>1. Range(o.todo) = {} BY <1>4, Queues
    <2>2. Writes(s, d, b, o, told) BY <1>4, <1>6 DEF Running
    <2> QED BY <1>10, <2>1, <2>2 DEF Writes, Comes, Stays
  <1>8. Running(s, d, b, Idle, all) BY <1>7, RunningIdle
  <1>9. Refs(s, d, b, r, all) BY <1>10, <1>6 DEF Refs, Running, Commands
  <1>11. Refs(snaps, default, branch, remote, Sure)' BY <1>4, <1>9
  <1> QED BY <1>4, <1>5, <1>8, <1>11, AloneAfter

\* A pull that is cut off leaves its own branch where it put it, which is the
\* only one that nothing is sure of.
LEMMA CrashCommandKeeps ==
  ASSUME BranchInv, NEW i \in Procs, CrashCommand(i)
  PROVE  BranchInv'
  <1>1. PICK s, d, b, r, told : s = snaps /\ d = default /\ b = branch /\ r = remote /\ told = Sure
    OBVIOUS
  <1>2. PICK o : o = op[i] OBVIOUS
  <1>3. /\ snaps' = s /\ default' = d /\ branch' = b /\ remote' = r /\ Sure' = told
        /\ op' = [op EXCEPT ![i] = Idle] /\ o # Idle /\ (PullMayCrash \/ o.step = "write")
    BY <1>1, <1>2 DEF CrashCommand, Sure
  <1>4. NoOther(i) BY <1>2, <1>3, BusyIsAlone
  <1>5. Refs(s, d, b, r, told) /\ Running(s, d, b, o, told) BY <1>1, <1>2, <1>4, AloneBefore
  <1>6. \A a \in told : Stays(s, d, b, a)
    <2>1. CASE o.step \in {"idle", "write"} BY <1>5, <2>1 DEF Running, Writes
    <2>2. CASE o.step \in {"fetch", "restore"}
      <3>1. Pulls(s, d, b, o, told) BY <1>5, <2>2 DEF Running
      <3>2. PullMayCrash BY <1>3, <2>2
      <3>3. \A a \in told : a[1] # Main BY <1>1, <3>2 DEF Sure
      <3> QED BY <3>1, <3>3 DEF Pulls, Stays
    <2> QED BY <1>5, <2>1, <2>2 DEF Running, Commands
  <1>7. Running(s, d, b, Idle, told) BY <1>6, RunningIdle
  <1>8. Refs(snaps, default, branch, remote, Sure)' BY <1>3, <1>5
  <1> QED BY <1>3, <1>4, <1>7, <1>8, AloneAfter

LEMMA PushKeeps ==
  ASSUME BranchInv, NEW i \in Procs, Push(i)
  PROVE  BranchInv'
  <1>1. UNCHANGED <<snaps, default, branch, op, Sure>> /\ remote' = default.head BY DEF Push, Sure
  <1>2. Types' BY <1>1 DEF BranchInv, Types, Refs
  <1>3. Turns' /\ Reported' BY <1>1 DEF BranchInv, Turns, Reported, Calm
  <1> QED BY <1>2, <1>3 DEF BranchInv

\* The file w is written over d and b.
Places(w, d, b, d2, b2) ==
  \/ w.file = "default" /\ d2 = [token |-> w.token, head |-> w.head] /\ b2 = b
  \/ w.file = "branch" /\ b2 = [b EXCEPT ![w.token] = w.head] /\ d2 = d

\* One ref file of a command, from values of the refs.
LEMMA RefWritten ==
  ASSUME NEW s, NEW d, NEW b, NEW r, NEW told, Refs(s, d, b, r, told),
         NEW o, Running(s, d, b, o, told), NEW w, NEW Q, NEW Q2,
         Q = Range(o.todo), Q = {w} \cup Q2, w \in RefFile,
         NEW o2 \in Commands, Range(o2.todo) = Q2,
         o2.step = o.step, o2.ack = o.ack, o2.saved = o.saved,
         NEW d2, NEW b2, Places(w, d, b, d2, b2)
  PROVE  Refs(s, d2, b2, r, told) /\ Running(s, d2, b2, o2, told)
  <1>1. /\ w.token \in Tokens /\ w.head \in Int /\ w.file \in {"default", "branch"}
        /\ b \in [Tokens -> Int] /\ Main \in Tokens
    BY RepositoryAssumption DEF RefFile, Refs
  <1>2. Fits(s, w) /\ \A x \in Q2 : Fits(s, x) /\ x \in Q BY DEF Running
  <1>3. Len(s) \in Nat BY LenOfHistory DEF Refs
  <1>4. \/ w.file = "default" /\ d2.token = w.token /\ d2.head = w.head /\ b2 = b
        \/ /\ w.file = "branch" /\ d2 = d /\ b2 \in [Tokens -> Int]
           /\ \A t \in Tokens : b2[t] = IF t = w.token THEN w.head ELSE b[t]
    BY <1>1 DEF Places
  <1>5. Refs(s, d2, b2, r, told)
    <2>1. CASE w.file = "default"
      <3>1. d2 \in [token : Tokens, head : Int] /\ b2 = b /\ d2.head = w.head BY <1>1, <2>1 DEF Places
      <3>2. w.head \in 0..Len(s) BY <1>1, <1>2, <1>3, <2>1 DEF Fits, None
      <3> QED BY <3>1, <3>2 DEF Refs
    <2>2. CASE w.file = "branch"
      <3>1. w.head \in -1..Len(s) BY <1>2 DEF Fits
      <3> QED BY <1>1, <1>4, <2>2, <3>1 DEF Refs
    <2> QED BY <1>1, <2>1, <2>2
  <1>6. ASSUME o.step \in {"idle", "write"} PROVE Writes(s, d2, b2, o2, told)
    <2>1. Writes(s, d, b, o, told) BY <1>6 DEF Running
    <2>2. \A a : Survives(s, Q, a) => Survives(s, Q2, a) BY <1>2 DEF Survives
    <2>3. ASSUME NEW a \in told PROVE Stays(s, d2, b2, a) /\ Survives(s, Q2, a)
      <3>1. Stays(s, d, b, a) /\ Survives(s, Q, a) BY <2>1 DEF Writes
      <3>2. a[1] = w.token => Holds(s, a[2], w.head) BY <3>1 DEF Survives
      <3>3. a[1] \in Tokens BY DEF Refs
      <3> QED BY <1>4, <2>2, <3>1, <3>2, <3>3 DEF Stays
    <2>4. ASSUME NEW a \in o.ack PROVE Comes(s, d2, b2, Q2, a) /\ Survives(s, Q2, a)
      <3>1. Comes(s, d, b, Q, a) /\ Survives(s, Q, a) BY <2>1 DEF Writes
      <3>2. a[1] = w.token => Holds(s, a[2], w.head) BY <3>1 DEF Survives
      <3>3. a[1] \in Tokens BY DEF Running, Commands
      <3>4. Holds(s, a[2], b2[a[1]]) \/ \E x \in Q2 : x.file = "branch" /\ x.token = a[1]
        BY <1>4, <3>1, <3>2, <3>3 DEF Comes
      <3>5. d2.token = a[1] =>
              Holds(s, a[2], d2.head) \/ \E x \in Q2 : x.file = "default" /\ x.token = a[1]
        BY <1>4, <3>1, <3>2, <3>3 DEF Comes
      <3> QED BY <2>2, <3>1, <3>4, <3>5 DEF Comes
    <2> QED BY <2>3, <2>4 DEF Writes
  <1>7. ASSUME o.step \in {"fetch", "restore"} PROVE Pulls(s, d2, b2, o2, told)
    <2>1. Pulls(s, d, b, o, told) BY <1>7 DEF Running
    <2>2. w.token = Main /\ \A x \in Q2 : x.token = Main BY <1>2, <2>1 DEF Pulls
    <2>3. d2.token = Main BY <1>4, <2>1, <2>2 DEF Pulls
    <2>4. \A a \in told : a[1] # Main => b2[a[1]] = b[a[1]] BY <1>4, <2>2 DEF Refs
    <2>5. ASSUME o.step = "restore" PROVE Restores(d2, b2, Q2, o.saved)
      <3>1. Restores(d, b, Q, o.saved) BY <2>1, <2>5 DEF Pulls
      <3>2. w.head = IF w.file = "default" THEN o.saved[1] ELSE o.saved[2] BY <3>1 DEF Restores
      <3>3. \A x \in Q2 : x.head = IF x.file = "default" THEN o.saved[1] ELSE o.saved[2]
        BY <1>2, <3>1 DEF Restores
      <3>4. d2.head = o.saved[1] \/ \E x \in Q2 : x.file = "default"
        BY <1>4, <3>1, <3>2 DEF Restores
      <3>5. b2[Main] = o.saved[2] \/ \E x \in Q2 : x.file = "branch"
        BY <1>1, <1>4, <2>2, <3>1, <3>2 DEF Restores
      <3> QED BY <3>3, <3>4, <3>5 DEF Restores
    <2> QED BY <2>1, <2>2, <2>3, <2>4, <2>5 DEF Pulls
  <1> QED BY <1>2, <1>5, <1>6, <1>7 DEF Running

LEMMA WriteRefKeeps ==
  ASSUME BranchInv, NEW i \in Procs, WriteRef(i)
  PROVE  BranchInv'
  <1>1. PICK s, d, b, r, told : s = snaps /\ d = default /\ b = branch /\ r = remote /\ told = Sure
    OBVIOUS
  <1>2. PICK o : o = op[i] OBVIOUS
  <1>3. PICK q : q = o.todo OBVIOUS
  <1>4. q # << >> /\ o # Idle BY <1>2, <1>3, IdleIsCommand DEF WriteRef
  <1>5. NoOther(i) BY <1>2, <1>4, BusyIsAlone
  <1>6. Refs(s, d, b, r, told) /\ Running(s, d, b, o, told) BY <1>1, <1>2, <1>5, AloneBefore
  <1>7. o \in Commands /\ q \in Seq(RefFile) BY <1>3, <1>6 DEF Running, Commands
  <1>8. PICK w : w = Head(q) OBVIOUS
  <1>9. PICK rest : rest = Tail(q) OBVIOUS
  <1>10. rest \in Seq(RefFile) /\ w \in RefFile /\ Range(q) = {w} \cup Range(rest)
    BY <1>4, <1>7, <1>8, <1>9, FirstOfQueue
  <1>11. PICK o2 : o2 = [o EXCEPT !.todo = rest] OBVIOUS
  <1>12. /\ o2 \in Commands /\ o2.todo = rest
         /\ o2.step = o.step /\ o2.ack = o.ack /\ o2.saved = o.saved
    BY <1>7, <1>10, <1>11 DEF Commands
  <1>13. op' = [op EXCEPT ![i] = o2]
    <2>1. op \in [Procs -> Commands] BY DEF BranchInv, Types
    <2>2. op' = [op EXCEPT ![i].todo = Tail(@)] BY DEF WriteRef
    <2> QED BY <1>2, <1>3, <1>9, <1>11, <2>1, <2>2
  <1>14. snaps' = s /\ remote' = r /\ Sure' = told BY <1>1 DEF WriteRef, Sure
  <1>15. PICK d2, b2 : d2 = default' /\ b2 = branch' OBVIOUS
  <1>16. Places(w, d, b, d2, b2)
    <2>1. w.file \in {"default", "branch"} BY <1>10 DEF RefFile
    <2> QED BY <1>1, <1>2, <1>3, <1>8, <1>15, <2>1 DEF WriteRef, Places
  <1>17. Refs(s, d2, b2, r, told) /\ Running(s, d2, b2, o2, told)
    <2>1. PICK Q, Q2 : Q = Range(o.todo) /\ Q2 = Range(o2.todo) OBVIOUS
    <2>2. Q = {w} \cup Q2 /\ w \in RefFile BY <1>3, <1>10, <1>12, <2>1
    <2> QED BY <1>6, <1>12, <1>16, <2>1, <2>2, RefWritten
  <1>18. Refs(snaps, default, branch, remote, Sure)' BY <1>14, <1>15, <1>17
  <1> QED BY <1>5, <1>13, <1>14, <1>15, <1>17, <1>18, AloneAfter

----------------------------------------------------------------------------
(* Pull.                                                                   *)

LEMMA OriginalFiles ==
  ASSUME NEW saved \in Seq(Int), NEW h1 \in Int, NEW h2 \in Int, saved[1] = h1, saved[2] = h2
  PROVE  \E x, y \in RefFile :
           /\ Originals(saved) = <<x, y>>
           /\ x.file = "default" /\ x.token = Main /\ x.head = saved[1]
           /\ y.file = "branch" /\ y.token = Main /\ y.head = saved[2]
  <1>1. PICK x, y : x = DefaultFile(Main, saved[1]) /\ y = BranchFile(Main, saved[2]) OBVIOUS
  <1>2. /\ x \in RefFile /\ x.file = "default" /\ x.token = Main /\ x.head = saved[1]
        /\ y \in RefFile /\ y.file = "branch" /\ y.token = Main /\ y.head = saved[2]
    BY <1>1, RepositoryAssumption DEF DefaultFile, BranchFile, RefFile
  <1>3. Originals(saved) = <<x, y>> BY <1>1 DEF Originals
  <1> QED BY <1>2, <1>3

LEMMA PullFetchKeeps ==
  ASSUME ~Concurrent, BranchInv, NEW i \in Procs, PullFetch(i)
  PROVE  BranchInv'
  <1>1. PICK s, d, b, r, told : s = snaps /\ d = default /\ b = branch /\ r = remote /\ told = Sure
    OBVIOUS
  <1>2. PICK x, y : x = DefaultFile(Main, r) /\ y = BranchFile(Main, r) OBVIOUS
  <1>3. PICK h1, h2, q, saved : /\ h1 = d.head /\ h2 = b[Main]
                                /\ q = <<x, y>> /\ saved = <<h1, h2, r>> OBVIOUS
  <1>4. PICK c : c = [Idle EXCEPT !.step = "fetch", !.todo = q, !.saved = saved] OBVIOUS
  <1>5. Free(i) BY DEF PullFetch
  <1>6. NoOther(i) /\ op[i] = Idle BY <1>5, FreeIsAlone
  <1>7. Refs(s, d, b, r, told) /\ Running(s, d, b, Idle, told) BY <1>1, <1>6, AloneBefore
  <1>8. /\ UNCHANGED <<snaps, default, branch, remote, Sure>> /\ op' = [op EXCEPT ![i] = c]
        /\ d.token = Main
    BY <1>1, <1>2, <1>3, <1>4 DEF PullFetch, Sure
  <1>9. /\ Len(s) \in Nat /\ h1 \in 0..Len(s) /\ h2 \in -1..Len(s) /\ r \in 0..Len(s)
        /\ Main \in Tokens
    BY <1>3, <1>7, LenOfHistory, RepositoryAssumption DEF Refs
  <1>10. h1 \in Int /\ h2 \in Int /\ r \in Int BY <1>9
  <1>11. /\ x \in RefFile /\ x.file = "default" /\ x.token = Main /\ x.head = r
         /\ y \in RefFile /\ y.file = "branch" /\ y.token = Main /\ y.head = r
    BY <1>2, <1>9, <1>10 DEF DefaultFile, BranchFile, RefFile
  <1>12. q \in Seq(RefFile) /\ Range(q) = {x, y} BY <1>3, <1>11, Queues
  <1>13. saved \in Seq(Int) /\ saved[1] = h1 /\ saved[2] = h2 /\ saved[3] = r BY <1>3, <1>10
  <1>14. c \in Commands /\ c.step = "fetch" /\ c.todo = q /\ c.ack = {} /\ c.saved = saved
    BY <1>4, <1>12, <1>13, IdleIsCommand DEF Commands
  <1>15. Running(s, d, b, c, told)
    <2>1. \A w \in {x, y} : Fits(s, w) BY <1>9, <1>11 DEF Fits, None
    <2>2. \A a \in told : Stays(s, d, b, a) BY <1>7, IdleStays
    <2>3. Pulls(s, d, b, c, told)
      BY <1>3, <1>8, <1>9, <1>11, <1>12, <1>13, <1>14, <2>2 DEF Pulls, Stays
    <2> QED BY <1>12, <1>14, <2>1, <2>3 DEF Running
  <1>16. Refs(snaps, default, branch, remote, Sure)' BY <1>1, <1>7, <1>8
  <1> QED BY <1>1, <1>6, <1>8, <1>15, <1>16, AloneAfter

LEMMA PullRestoreKeeps ==
  ASSUME BranchInv, NEW i \in Procs, PullRestore(i)
  PROVE  BranchInv'
  <1>1. PICK s, d, b, r, told : s = snaps /\ d = default /\ b = branch /\ r = remote /\ told = Sure
    OBVIOUS
  <1>2. PICK o : o = op[i] OBVIOUS
  <1>3. o.step = "fetch" /\ o # Idle BY <1>2, IdleIsCommand DEF PullRestore
  <1>4. NoOther(i) BY <1>2, <1>3, BusyIsAlone
  <1>5. Refs(s, d, b, r, told) /\ Running(s, d, b, o, told) BY <1>1, <1>2, <1>4, AloneBefore
  <1>6. Pulls(s, d, b, o, told) /\ o \in Commands BY <1>3, <1>5 DEF Running
  <1>7. PICK saved : saved = o.saved OBVIOUS
  <1>8. /\ Len(s) \in Nat /\ saved \in Seq(Int)
        /\ saved[1] \in 0..Len(s) /\ saved[2] \in -1..Len(s) /\ saved[3] \in 0..Len(s)
    BY <1>5, <1>6, <1>7, LenOfHistory DEF Refs, Pulls, Commands
  <1>9. saved[1] \in Int /\ saved[2] \in Int BY <1>8
  <1>10. PICK x, y \in RefFile :
           /\ Originals(saved) = <<x, y>>
           /\ x.file = "default" /\ x.token = Main /\ x.head = saved[1]
           /\ y.file = "branch" /\ y.token = Main /\ y.head = saved[2]
    BY <1>8, <1>9, OriginalFiles
  <1>11. PICK q : q = <<x, y>> OBVIOUS
  <1>12. q \in Seq(RefFile) /\ Range(q) = {x, y} BY <1>11, Queues
  <1>13. PICK c : c = [o EXCEPT !.step = "restore", !.todo = q] OBVIOUS
  <1>14. /\ c \in Commands /\ c.step = "restore" /\ c.todo = q
         /\ c.ack = o.ack /\ c.saved = saved
    BY <1>6, <1>7, <1>12, <1>13 DEF Commands
  <1>15. op' = [op EXCEPT ![i] = c]
    <2>1. op \in [Procs -> Commands] BY DEF BranchInv, Types
    <2>2. op' = [op EXCEPT ![i].step = "restore", ![i].todo = q]
      BY <1>2, <1>7, <1>10, <1>11 DEF PullRestore
    <2> QED BY <1>2, <1>13, <2>1, <2>2
  <1>16. UNCHANGED <<snaps, default, branch, remote, Sure>> BY DEF PullRestore, Sure
  <1>17. Running(s, d, b, c, told)
    <2>1. \A w \in {x, y} : Fits(s, w) BY <1>8, <1>10 DEF Fits, None
    <2>2. Restores(d, b, {x, y}, saved) BY <1>10 DEF Restores
    <2>3. Pulls(s, d, b, c, told) BY <1>6, <1>7, <1>10, <1>12, <1>14, <2>2 DEF Pulls
    <2> QED BY <1>12, <1>14, <2>1, <2>3 DEF Running
  <1>18. Refs(snaps, default, branch, remote, Sure)' BY <1>1, <1>5, <1>16
  <1> QED BY <1>1, <1>4, <1>15, <1>16, <1>17, <1>18, AloneAfter

\* The files hold what the pull saved, and those of the remote descend from
\* it; else they are written as they are.
LEMMA PullForwardKeeps ==
  ASSUME BranchInv, NEW i \in Procs, PullForward(i)
  PROVE  BranchInv'
  <1>1. PICK s, d, b, r, told : s = snaps /\ d = default /\ b = branch /\ r = remote /\ told = Sure
    OBVIOUS
  <1>2. PICK o : o = op[i] OBVIOUS
  <1>3. o.step = "restore" /\ o.todo = << >> /\ o # Idle BY <1>2, IdleIsCommand DEF PullForward
  <1>4. NoOther(i) BY <1>2, <1>3, BusyIsAlone
  <1>5. Refs(s, d, b, r, told) /\ Running(s, d, b, o, told) BY <1>1, <1>2, <1>4, AloneBefore
  <1>6. Pulls(s, d, b, o, told) /\ o \in Commands BY <1>3, <1>5 DEF Running
  <1>7. PICK saved, next, head : saved = o.saved /\ next = saved[3] /\ head = ResolvedHead(Main)
    OBVIOUS
  <1>8. /\ Len(s) \in Nat /\ saved \in Seq(Int) /\ History(s)
        /\ saved[1] \in 0..Len(s) /\ saved[2] \in -1..Len(s) /\ next \in 0..Len(s)
    BY <1>5, <1>6, <1>7, LenOfHistory DEF Refs, Pulls, Commands
  <1>9. saved[1] \in Int /\ saved[2] \in Int /\ next \in Int BY <1>8
  <1>10. /\ d.token = Main /\ d.head = saved[1] /\ b[Main] = saved[2]
         /\ head = IF b[Main] # None THEN b[Main] ELSE d.head
    BY <1>1, <1>3, <1>6, <1>7, Queues DEF Pulls, Restores, ResolvedHead
  <1>11. \A a \in told : Stays(s, d, b, a)
    BY <1>6, <1>7, <1>10 DEF Pulls, Stays
  <1>12. \A a \in told : a[1] = Main => Holds(s, a[2], head)
    BY <1>10, <1>11 DEF Stays, Holds, None
  <1>13. head \in 0..Len(s) /\ head \in Int /\ Main \in Tokens
    BY <1>8, <1>10, RepositoryAssumption DEF None
  <1>14. UNCHANGED <<snaps, default, branch, remote, Sure>> BY DEF PullForward, Sure
  <1>15. Refs(snaps, default, branch, remote, Sure)' BY <1>1, <1>5, <1>14
  <1>16. PICK x, y \in RefFile :
           /\ Originals(saved) = <<x, y>>
           /\ x.file = "default" /\ x.token = Main /\ x.head = saved[1]
           /\ y.file = "branch" /\ y.token = Main /\ y.head = saved[2]
    BY <1>8, <1>9, OriginalFiles
  <1>17. CASE head = next
    <2>1. op' = [op EXCEPT ![i] = Idle] BY <1>2, <1>7, <1>17 DEF PullForward
    <2>2. Running(s, d, b, Idle, told) BY <1>11, RunningIdle
    <2> QED BY <1>1, <1>4, <1>14, <1>15, <2>1, <2>2, AloneAfter
  <1>18. CASE head # next /\ FastForwards(head, next)
    <2>1. PICK u, v : u = BranchFile(Main, next) /\ v = DefaultFile(Main, next) OBVIOUS
    <2>2. /\ u \in RefFile /\ u.file = "branch" /\ u.token = Main /\ u.head = next
          /\ v \in RefFile /\ v.file = "default" /\ v.token = Main /\ v.head = next
      BY <1>9, <1>13, <2>1 DEF DefaultFile, BranchFile, RefFile
    <2>3. PICK q, ack : q = <<u, v>> /\ ack = {<<Main, next>>} OBVIOUS
    <2>4. PICK c : c = [Idle EXCEPT !.step = "write", !.todo = q, !.ack = ack] OBVIOUS
    <2>5. RefFiles(Main, next) = q
      <3>1. RefFiles(Main, next) = <<u>> \o <<v>> BY <1>1, <1>10, <2>1 DEF RefFiles
      <3>2. <<u>> \o <<v>> = <<u, v>> BY <2>2, LongerQueues
      <3> QED BY <2>3, <3>1, <3>2
    <2>6. op' = [op EXCEPT ![i] = c]
      BY <1>2, <1>7, <1>18, <2>3, <2>4, <2>5 DEF PullForward, Begin
    <2>7. q \in Seq(RefFile) /\ Range(q) = {u, v} BY <2>2, <2>3, Queues
    <2>8. Holds(s, head, next)
      BY <1>1, <1>8, <1>18, AncestryIsAncestors DEF FastForwards, Holds
    <2>9. \A a \in told : a[1] = Main => Holds(s, a[2], next)
      <3>1. ASSUME NEW a, Holds(s, a, head) PROVE Holds(s, a, next)
        BY <1>8, <2>8, <3>1, HoldsThrough
      <3> QED BY <1>12, <3>1
    <2>10. Holds(s, next, next) BY <1>8, HoldsItself
    <2>11. \A w \in Range(q) : Fits(s, w) BY <1>8, <2>2, <2>7 DEF Fits, None
    <2>12. \A a \in told : Survives(s, Range(q), a) BY <2>2, <2>7, <2>9 DEF Survives
    <2>13. \A a \in ack : Comes(s, d, b, Range(q), a) /\ Survives(s, Range(q), a)
      BY <2>2, <2>3, <2>7, <2>10 DEF Comes, Survives
    <2>14. ack \in SUBSET (Tokens \X Int) BY <1>9, <1>13, <2>3
    <2>15. Running(s, d, b, c, told)
      BY <1>11, <2>4, <2>7, <2>11, <2>12, <2>13, <2>14, Begun
    <2> QED BY <1>1, <1>4, <1>14, <1>15, <2>6, <2>15, AloneAfter
  <1>19. CASE head # next /\ ~FastForwards(head, next)
    <2>1. PICK z : z = DefaultFile(Main, head) OBVIOUS
    <2>2. z \in RefFile /\ z.file = "default" /\ z.token = Main /\ z.head = head
      BY <1>13, <2>1 DEF DefaultFile, RefFile
    <2>3. PICK q, ack : q = <<x, y, z>> /\ ack = {} OBVIOUS
    <2>4. PICK c : c = [Idle EXCEPT !.step = "write", !.todo = q, !.ack = ack] OBVIOUS
    <2>5. Append(Originals(saved), DefaultFile(Main, head)) = q
      <3>1. Append(<<x, y>>, z) = <<x, y, z>> BY <2>2, LongerQueues
      <3> QED BY <1>16, <2>1, <2>3, <3>1
    <2>6. op' = [op EXCEPT ![i] = c]
      BY <1>2, <1>7, <1>19, <2>3, <2>4, <2>5 DEF PullForward, Begin
    <2>7. q \in Seq(RefFile) /\ Range(q) = {x, y, z} BY <1>16, <2>2, <2>3, Queues
    <2>8. \A w \in Range(q) : Fits(s, w) BY <1>8, <1>13, <1>16, <2>2, <2>7 DEF Fits, None
    <2>9. \A a \in told : Survives(s, Range(q), a)
      BY <1>10, <1>11, <1>12, <1>16, <2>2, <2>7 DEF Survives, Stays
    <2>10. ack \in SUBSET (Tokens \X Int) /\ \A a : a \notin ack BY <2>3
    <2>11. Running(s, d, b, c, told) BY <1>11, <2>4, <2>7, <2>8, <2>9, <2>10, Begun
    <2> QED BY <1>1, <1>4, <1>14, <1>15, <2>6, <2>11, AloneAfter
  <1> QED BY <1>17, <1>18, <1>19

----------------------------------------------------------------------------
LEMMA BranchInit == RepositoryInit => BranchInv
  <1> SUFFICES ASSUME RepositoryInit PROVE BranchInv OBVIOUS
  <1>1. PICK s, d, b : s = << >> /\ d = [token |-> Main, head |-> 0]
                       /\ b = [t \in Tokens |-> IF t = Main THEN 0 ELSE None]
    OBVIOUS
  <1>2. /\ snaps = s /\ default = d /\ branch = b /\ remote = 0 /\ Sure = {}
        /\ op = [i \in Procs |-> Idle]
    BY <1>1 DEF RepositoryInit, Sure
  <1>3. s \in Seq({}) /\ Len(s) = 0 BY <1>1
  <1>4. History(s) BY <1>3 DEF History
  <1>5. Refs(s, d, b, 0, {}) BY <1>1, <1>3, <1>4, RepositoryAssumption DEF Refs, None
  <1>6. Types
    <2>1. op \in [Procs -> Commands] BY <1>2, IdleIsCommand
    <2> QED BY <1>2, <1>5, <2>1, IdleIsCommand DEF Types
  <1>7. Turns BY <1>2 DEF Turns
  <1>8. Reported BY <1>2, IdleIsCommand DEF Reported, Writes
  <1> QED BY <1>6, <1>7, <1>8 DEF BranchInv

LEMMA BranchNext ==
  ASSUME ~Concurrent, BranchInv, [BranchesNext]_repoVars
  PROVE  BranchInv'
  <1>1. ASSUME NEW i \in Procs, Command(i) PROVE BranchInv'
    <2>1. ASSUME Commit(i, TreeAt[NextId]) PROVE BranchInv' BY <2>1, CommitKeeps
    <2>2. ASSUME BranchCommand(i) PROVE BranchInv'
      BY <2>2, CreateBranchKeeps, DeleteBranchKeeps, CheckoutBranchKeeps DEF BranchCommand
    <2>3. ASSUME RemoteCommand(i) PROVE BranchInv'
      BY <2>3, PullFetchKeeps, PullRestoreKeeps, PullForwardKeeps, PushKeeps DEF RemoteCommand
    <2>4. ASSUME WriteRef(i) PROVE BranchInv' BY <2>4, WriteRefKeeps
    <2>5. ASSUME Finish(i) PROVE BranchInv' BY <2>5, FinishKeeps
    <2>6. ASSUME CrashCommand(i) PROVE BranchInv' BY <2>6, CrashCommandKeeps
    <2> QED BY <1>1, <2>1, <2>2, <2>3, <2>4, <2>5, <2>6 DEF Command
  <1>2. ASSUME OtherDevice PROVE BranchInv' BY <1>2, RemoteCommitKeeps DEF OtherDevice
  <1>3. ASSUME UNCHANGED repoVars PROVE BranchInv'
    BY <1>3 DEF repoVars, BranchInv, Types, Turns, Reported, Calm, Sure
  <1> QED BY <1>1, <1>2, <1>3 DEF BranchesNext

LEMMA BranchInvAlways ==
  ASSUME ~Concurrent
  PROVE  BranchesSpec => []BranchInv
  <1>1. BranchesInit => BranchInv BY BranchInit DEF BranchesInit
  <1>2. BranchInv /\ [BranchesNext]_repoVars => BranchInv' BY BranchNext
  <1> QED BY <1>1, <1>2, PTL DEF BranchesSpec

(* What a command reported stays in the history of its branch, in both ref  *)
(* files, whichever command is cut off between any two of its steps; where *)
(* that may be the fetch of a pull, on every branch but the one it pulls    *)
(* (facade.rs 829-1006, lib.rs 760-866).                                    *)
THEOREM ReportedStays ==
  ASSUME ~Concurrent
  PROVE  BranchesSpec => []AcknowledgedStays
  <1>1. BranchInv => AcknowledgedStays
    <2> SUFFICES ASSUME BranchInv, Calm, NEW a \in Sure
                 PROVE  /\ branch[a[1]] # None /\ a[2] \in Ancestry[branch[a[1]]]
                        /\ default.token = a[1] => a[2] \in Ancestry[default.head]
      BY DEF AcknowledgedStays, Calm
    <2>1. Stays(snaps, default, branch, a) BY DEF BranchInv, Reported
    <2>2. Len(snaps) \in Nat BY LenOfHistory DEF BranchInv, Types, Refs
    <2> QED BY <2>1, <2>2, AncestryIsAncestors DEF Stays, Holds, None
  <1> QED BY <1>1, BranchInvAlways, PTL

----------------------------------------------------------------------------
(* Paths.                                                                  *)

Names == Seq(STRING)

LEMMA PathElements ==
  ASSUME NEW p \in Names, NEW q \in Names
  PROVE  /\ Len(p) \in Nat
         /\ IsPrefix(p, q) <=> Len(p) <= Len(q) /\ \A i \in 1..Len(p) : p[i] = q[i]
         /\ p = q <=> Len(p) = Len(q) /\ \A i \in 1..Len(p) : p[i] = q[i]
         /\ p = << >> <=> Len(p) = 0
  <1>1. /\ Len(p) \in Nat /\ Len(q) \in Nat
        /\ \A i \in 1..Len(p) : p[i] \in STRING
        /\ \A i \in 1..Len(q) : q[i] \in STRING
    BY LenProperties, ElementOfSeq DEF Names
  <1>2. (Len(p) = Len(q) /\ \A i \in 1..Len(p) : p[i] = q[i]) => p = q
    BY SeqEqual DEF Names
  <1>3. SubSeq(p, 1, Len(p)) = p BY SubSeqFull DEF Names
  <1>4. ASSUME Len(p) <= Len(q)
        PROVE  /\ SubSeq(q, 1, Len(p)) \in Seq(STRING) /\ Len(SubSeq(q, 1, Len(p))) = Len(p)
               /\ \A i \in 1..Len(p) : SubSeq(q, 1, Len(p))[i] = q[i]
    <2>1. \A i \in 1..Len(p) : q[i] \in STRING BY <1>1, <1>4
    <2>2. /\ SubSeq(q, 1, Len(p)) \in Seq(STRING)
          /\ Len(SubSeq(q, 1, Len(p))) = IF 1 <= Len(p) THEN Len(p) - 1 + 1 ELSE 0
          /\ \A i \in 1..Len(p) - 1 + 1 : SubSeq(q, 1, Len(p))[i] = q[1 + i - 1]
      BY <1>1, <2>1, SubSeqProperties
    <2> QED BY <1>1, <2>2
  <1>5. ASSUME Len(p) <= Len(q)
        PROVE  SubSeq(p, 1, Len(p)) = SubSeq(q, 1, Len(p)) <=> \A i \in 1..Len(p) : p[i] = q[i]
    <2>1. ASSUME \A i \in 1..Len(p) : p[i] = q[i] PROVE p = SubSeq(q, 1, Len(p))
      <3> DEFINE r == SubSeq(q, 1, Len(p))
      <3>1. r \in Seq(STRING) /\ Len(r) = Len(p) /\ \A i \in 1..Len(p) : r[i] = q[i] BY <1>4, <1>5
      <3> HIDE DEF r
      <3>2. p \in Seq(STRING) BY DEF Names
      <3>3. p = r BY <2>1, <3>1, <3>2, SeqEqual
      <3> QED BY <3>3 DEF r
    <2> QED BY <1>3, <1>4, <1>5, <2>1
  <1>6. IsPrefix(p, q) <=> Len(p) <= Len(q) /\ \A i \in 1..Len(p) : p[i] = q[i]
    BY <1>5 DEF IsPrefix
  <1>7. p = << >> <=> Len(p) = 0 BY <1>1, EmptySeq DEF Names
  <1> QED BY <1>1, <1>2, <1>6, <1>7

LEMMA FrontElements ==
  ASSUME NEW q \in Names
  PROVE  /\ Front(q) \in Names
         /\ q = << >> => Front(q) = << >>
         /\ q # << >> => /\ Len(Front(q)) = Len(q) - 1
                         /\ \A i \in 1..Len(q) - 1 : Front(q)[i] = q[i]
  <1>1. Len(q) \in Nat /\ \A i \in 1..Len(q) : q[i] \in STRING
    BY LenProperties, ElementOfSeq DEF Names
  <1>2. q = << >> <=> Len(q) = 0 BY PathElements
  <1>3. \A i \in 1..Len(q) - 1 : q[i] \in STRING BY <1>1
  <1> DEFINE n == Len(q) - 1  f == SubSeq(q, 1, n)
  <1>4. n \in Int /\ \A i \in 1..n : q[i] \in STRING BY <1>1, <1>3
  <1> HIDE DEF n
  <1>5. /\ f \in Seq(STRING) /\ Len(f) = IF 1 <= n THEN n - 1 + 1 ELSE 0
        /\ \A i \in 1..n - 1 + 1 : f[i] = q[1 + i - 1]
    BY <1>4, SubSeqProperties
  <1>6. ASSUME q = << >> PROVE f = << >>
    <2>1. ~(1 <= n) BY <1>1, <1>2, <1>6 DEF n
    <2>2. f \in Names /\ Len(f) = 0 BY <1>5, <2>1 DEF Names
    <2> HIDE DEF f
    <2> QED BY <2>2, PathElements
  <1>7. Front(q) = f BY DEF Front, n
  <1> HIDE DEF f
  <1>8. ASSUME q # << >> PROVE Len(f) = Len(q) - 1 /\ \A i \in 1..Len(q) - 1 : f[i] = q[i]
    <2>1. Len(q) - 1 \in Nat /\ n = Len(q) - 1 BY <1>1, <1>2, <1>8 DEF n
    <2>2. Len(f) = n BY <1>5, <2>1
    <2>3. \A i \in 1..n : i \in 1..n - 1 + 1 /\ 1 + i - 1 = i BY <2>1
    <2>4. \A i \in 1..n : f[i] = q[i] BY <1>5, <2>3
    <2> QED BY <2>1, <2>2, <2>4
  <1> QED BY <1>5, <1>6, <1>7, <1>8 DEF Names

\* What is beneath a path.
LEMMA PathsBeneath ==
  ASSUME NEW p \in Names, NEW q \in Names
  PROVE  /\ IsPrefix(p, p)
         /\ IsPrefix(p, Front(q)) => IsPrefix(p, q)
         /\ IsPrefix(p, q) /\ p # q => IsPrefix(p, Front(q)) /\ Len(p) < Len(q)
         /\ IsPrefix(p, q) => Len(p) <= Len(q)
         /\ IsPrefix(p, q) /\ Len(p) = Len(q) => p = q
         /\ q # << >> => Len(Front(q)) < Len(q)
  <1>1. /\ Front(q) \in Names /\ Len(q) \in Nat /\ Len(p) \in Nat
        /\ q = << >> => Front(q) = << >>
        /\ q # << >> => /\ Len(Front(q)) = Len(q) - 1
                        /\ \A i \in 1..Len(q) - 1 : Front(q)[i] = q[i]
    BY FrontElements, PathElements
  <1>2. /\ q = << >> <=> Len(q) = 0
        /\ IsPrefix(p, p) <=> Len(p) <= Len(p) /\ \A i \in 1..Len(p) : p[i] = p[i]
        /\ IsPrefix(p, q) <=> Len(p) <= Len(q) /\ \A i \in 1..Len(p) : p[i] = q[i]
        /\ p = q <=> Len(p) = Len(q) /\ \A i \in 1..Len(p) : p[i] = q[i]
    BY PathElements
  <1>3. IsPrefix(p, Front(q)) <=> /\ Len(p) <= Len(Front(q))
                                  /\ \A i \in 1..Len(p) : p[i] = Front(q)[i]
    BY <1>1, PathElements
  <1>4. IsPrefix(p, p) BY <1>1, <1>2
  <1>5. IsPrefix(p, Front(q)) => IsPrefix(p, q)
    <2>1. CASE q = << >> BY <1>1, <2>1
    <2>2. CASE q # << >> BY <1>1, <1>2, <1>3, <2>2
    <2> QED BY <2>1, <2>2
  <1>6. ASSUME IsPrefix(p, q), p # q PROVE IsPrefix(p, Front(q)) /\ Len(p) < Len(q)
    <2>1. Len(p) < Len(q) BY <1>1, <1>2, <1>6
    <2>2. q # << >> BY <1>1, <1>2, <2>1
    <2> QED BY <1>1, <1>2, <1>3, <1>6, <2>1, <2>2
  <1> QED BY <1>1, <1>2, <1>4, <1>5, <1>6

\* Where a rename of p to r takes q.
MovedTo(p, r, q) == r \o SubSeq(q, Len(p) + 1, Len(q))

LEMMA MovedElements ==
  ASSUME NEW p \in Names, NEW r \in Names, NEW q \in Names, IsPrefix(p, q)
  PROVE  LET x == MovedTo(p, r, q)
         IN /\ x \in Names /\ Len(x) = Len(r) + Len(q) - Len(p)
            /\ \A i \in 1..Len(r) : x[i] = r[i]
            /\ \A i \in 1..Len(q) - Len(p) : x[Len(r) + i] = q[Len(p) + i]
  <1> DEFINE x == MovedTo(p, r, q)
  <1>1. /\ Len(p) \in Nat /\ Len(q) \in Nat /\ Len(r) \in Nat /\ Len(p) <= Len(q)
        /\ \A i \in 1..Len(q) : q[i] \in STRING
    BY PathElements, ElementOfSeq DEF Names
  <1> DEFINE m == Len(p) + 1  n == Len(q)  s == SubSeq(q, m, n)
  <1>2. m \in Int /\ n \in Int /\ \A i \in m..n : q[i] \in STRING BY <1>1
  <1> HIDE DEF m, n
  <1>3. /\ s \in Seq(STRING) /\ Len(s) = IF m <= n THEN n - m + 1 ELSE 0
        /\ \A i \in 1..n - m + 1 : s[i] = q[m + i - 1]
    BY <1>2, SubSeqProperties
  <1>4. x = r \o s BY DEF MovedTo, m, n
  <1> HIDE DEF s, x
  <1>5. /\ Len(s) = Len(q) - Len(p)
        /\ \A i \in 1..Len(q) - Len(p) : s[i] = q[Len(p) + i]
    BY <1>1, <1>3 DEF m, n
  <1>6. r \in Seq(STRING) BY DEF Names
  <1>7. /\ x \in Seq(STRING) /\ Len(x) = Len(r) + Len(s)
        /\ \A i \in 1..Len(r) + Len(s) : x[i] = IF i <= Len(r) THEN r[i] ELSE s[i - Len(r)]
    BY <1>3, <1>4, <1>6, ConcatProperties
  <1>8. ASSUME NEW i \in 1..Len(r) PROVE x[i] = r[i]
    <2>1. i \in 1..Len(r) + Len(s) /\ i <= Len(r) BY <1>1, <1>5
    <2> QED BY <1>7, <2>1
  <1>9. ASSUME NEW i \in 1..Len(q) - Len(p) PROVE x[Len(r) + i] = q[Len(p) + i]
    <2>1. Len(r) + i \in 1..Len(r) + Len(s) /\ ~(Len(r) + i <= Len(r)) /\ Len(r) + i - Len(r) = i
      BY <1>1, <1>5, <1>9
    <2>2. x[Len(r) + i] = s[Len(r) + i - Len(r)] BY <1>7, <2>1
    <2> QED BY <1>5, <2>1, <2>2
  <1> QED BY <1>1, <1>5, <1>7, <1>8, <1>9 DEF Names, x

\* A rename keeps what is beneath in its place.
LEMMA Renaming ==
  ASSUME NEW p \in Names, NEW r \in Names, NEW q \in Names, IsPrefix(p, q)
  PROVE  /\ MovedTo(p, r, q) \in Names
         /\ IsPrefix(r, MovedTo(p, r, q))
         /\ q = p <=> MovedTo(p, r, q) = r
         /\ q # p => /\ IsPrefix(p, Front(q))
                     /\ Front(MovedTo(p, r, q)) = MovedTo(p, r, Front(q))
         /\ \A u \in Names : IsPrefix(p, u) /\ MovedTo(p, r, u) = MovedTo(p, r, q) => u = q
  <1> DEFINE x == MovedTo(p, r, q)
  <1>1. /\ x \in Names /\ Len(x) = Len(r) + Len(q) - Len(p)
        /\ \A i \in 1..Len(r) : x[i] = r[i]
        /\ \A i \in 1..Len(q) - Len(p) : x[Len(r) + i] = q[Len(p) + i]
    BY MovedElements
  <1> HIDE DEF x
  <1>2. /\ Len(p) \in Nat /\ Len(q) \in Nat /\ Len(r) \in Nat /\ Len(p) <= Len(q)
        /\ \A i \in 1..Len(p) : p[i] = q[i]
    BY PathElements
  <1>3. IsPrefix(r, x) BY <1>1, <1>2, PathElements
  <1>4. q = p <=> x = r
    <2>1. q = p => x = r BY <1>1, <1>2, PathElements
    <2>2. x = r => q = p BY <1>1, <1>2, PathElements
    <2> QED BY <2>1, <2>2
  <1>5. ASSUME q # p PROVE IsPrefix(p, Front(q)) /\ Front(x) = MovedTo(p, r, Front(q))
    <2>1. IsPrefix(p, Front(q)) /\ Len(p) < Len(q) BY <1>5, PathsBeneath
    <2>2. q # << >> /\ x # << >> BY <1>1, <1>2, <2>1, PathElements
    <2>3. /\ Front(q) \in Names /\ Len(Front(q)) = Len(q) - 1
          /\ \A i \in 1..Len(q) - 1 : Front(q)[i] = q[i]
      BY <2>2, FrontElements
    <2>4. /\ Front(x) \in Names /\ Len(Front(x)) = Len(x) - 1
          /\ \A i \in 1..Len(x) - 1 : Front(x)[i] = x[i]
      BY <1>1, <2>2, FrontElements
    <2> DEFINE y == MovedTo(p, r, Front(q))
    <2>5. /\ y \in Names /\ Len(y) = Len(r) + Len(Front(q)) - Len(p)
          /\ \A i \in 1..Len(r) : y[i] = r[i]
          /\ \A i \in 1..Len(Front(q)) - Len(p) : y[Len(r) + i] = Front(q)[Len(p) + i]
      BY <2>1, <2>3, MovedElements
    <2> HIDE DEF y
    <2>6. Len(Front(x)) = Len(y) BY <1>1, <1>2, <2>3, <2>4, <2>5
    <2>7. ASSUME NEW i \in 1..Len(y) PROVE Front(x)[i] = y[i]
      <3>1. CASE i <= Len(r) BY <1>1, <1>2, <2>1, <2>3, <2>4, <2>5, <2>6, <3>1
      <3>2. CASE i > Len(r)
        <4>0. i \in Int BY <1>2, <2>3, <2>5, <2>7
        <4>1. PICK j \in Nat : j = i - Len(r)
          <5>1. i - Len(r) \in Nat BY <1>2, <3>2, <4>0
          <5> QED BY <5>1
        <4>2. /\ j \in 1..Len(q) - Len(p) /\ j \in 1..Len(Front(q)) - Len(p)
              /\ i = Len(r) + j /\ i \in 1..Len(x) - 1 /\ Len(p) + j \in 1..Len(q) - 1
          BY <1>1, <1>2, <2>3, <2>5, <2>7, <3>2, <4>1
        <4>3. Front(x)[i] = q[Len(p) + j] BY <1>1, <2>4, <4>2
        <4>4. y[i] = q[Len(p) + j] BY <2>3, <2>5, <4>2
        <4> QED BY <4>3, <4>4
      <3> QED BY <1>2, <2>3, <2>5, <2>7, <3>1, <3>2
    <2>8. Front(x) = y BY <2>4, <2>5, <2>6, <2>7, PathElements
    <2> QED BY <2>1, <2>8 DEF y
  <1>6. ASSUME NEW u \in Names, IsPrefix(p, u), MovedTo(p, r, u) = x PROVE u = q
    <2>0. LET y == MovedTo(p, r, u)
          IN /\ Len(y) = Len(r) + Len(u) - Len(p)
             /\ \A i \in 1..Len(u) - Len(p) : y[Len(r) + i] = u[Len(p) + i]
      BY <1>6, MovedElements
    <2>1. /\ Len(x) = Len(r) + Len(u) - Len(p)
          /\ \A i \in 1..Len(u) - Len(p) : x[Len(r) + i] = u[Len(p) + i]
      BY <1>6, <2>0
    <2>2. /\ Len(u) \in Nat /\ Len(p) <= Len(u) /\ \A i \in 1..Len(p) : p[i] = u[i]
      BY <1>6, PathElements
    <2>3. Len(u) = Len(q) BY <1>1, <1>2, <2>1, <2>2
    <2>4. ASSUME NEW i \in 1..Len(q) PROVE u[i] = q[i]
      <3>1. CASE i <= Len(p) BY <1>2, <2>2, <3>1
      <3>2. CASE i > Len(p)
        <4>1. PICK j \in 1..Len(q) - Len(p) : i = Len(p) + j
          <5>1. i - Len(p) \in 1..Len(q) - Len(p) /\ i = Len(p) + (i - Len(p)) BY <1>2, <3>2
          <5> QED BY <5>1
        <4> QED BY <1>1, <2>1, <2>3, <4>1
      <3> QED BY <1>2, <3>1, <3>2
    <2> QED BY <2>3, <2>4, PathElements
  <1> QED BY <1>1, <1>3, <1>4, <1>5, <1>6 DEF x
----------------------------------------------------------------------------
(* Trees.                                                                  *)

Edits == [kind : {"mkdir", "upsert", "rm", "rmdir", "rename"}, path : Names, to : Names, id : Nat]

EditOk(ch) == ch \in Edits /\ (ch.kind = "rename" => ch.path # << >> /\ ch.to # << >>)

LEMMA PutIsTree ==
  ASSUME NEW t, TreeOk(t), NEW p \in Names, NEW x \in Nat, IsDir(t, Front(p)),
         p \in DOMAIN t => (t[p] = Dir => x = Dir)
  PROVE  TreeOk(Put(t, p, x))
  <1> DEFINE u == Put(t, p, x)
  <1>1. /\ DOMAIN u = DOMAIN t \cup {p} /\ u \in [DOMAIN u -> Nat]
        /\ u[p] = x /\ \A q \in DOMAIN t : q # p => u[q] = t[q]
    BY DEF Put, TreeOk
  <1> HIDE DEF u
  <1>2. DOMAIN u \subseteq Names BY <1>1 DEF TreeOk, Names
  <1>3. ASSUME NEW q \in Names, IsDir(t, q) PROVE IsDir(u, q)
    BY <1>1, <1>3 DEF IsDir
  <1>4. ASSUME NEW q \in DOMAIN u PROVE IsDir(u, Front(q))
    <2>1. Front(q) \in Names BY <1>2, FrontElements
    <2>2. IsDir(t, Front(q)) BY <1>1, <1>4 DEF TreeOk
    <2> QED BY <1>3, <2>1, <2>2
  <1>5. TreeOk(u) BY <1>1, <1>2, <1>4 DEF TreeOk, Names
  <1> QED BY <1>5 DEF u

LEMMA WithoutIsTree ==
  ASSUME NEW t, TreeOk(t), NEW p \in Names
  PROVE  TreeOk(Without(t, p))
  <1> DEFINE u == Without(t, p)
  <1>1. /\ DOMAIN u = {q \in DOMAIN t : ~IsPrefix(p, q)} /\ u \in [DOMAIN u -> Nat]
        /\ \A q \in DOMAIN u : u[q] = t[q]
    BY DEF Without, Restrict, TreeOk
  <1> HIDE DEF u
  <1>2. DOMAIN u \subseteq Names BY <1>1 DEF TreeOk, Names
  <1>3. ASSUME NEW q \in DOMAIN u PROVE IsDir(u, Front(q))
    <2>1. IsDir(t, Front(q)) /\ q \in Names /\ ~IsPrefix(p, q) BY <1>1, <1>2, <1>3 DEF TreeOk
    <2>2. ~IsPrefix(p, Front(q)) BY <2>1, PathsBeneath
    <2> QED BY <1>1, <2>1, <2>2 DEF IsDir
  <1>4. TreeOk(u) BY <1>1, <1>2, <1>3 DEF TreeOk
  <1> QED BY <1>4 DEF u

\* What is above an entry is an entry.
LEMMA AboveAnEntry ==
  ASSUME NEW t, TreeOk(t), NEW p \in Names, p # << >>, NEW q \in DOMAIN t, IsPrefix(p, q)
  PROVE  p \in DOMAIN t
  <1> DEFINE Beneath == {r \in DOMAIN t : IsPrefix(p, r)}
             Lengths == {Len(r) : r \in Beneath}
  <1>1. q \in Beneath /\ Beneath \subseteq Names BY DEF TreeOk, Names
  <1>2. \A r \in Beneath : Len(r) \in Nat BY <1>1, PathElements
  <1> HIDE DEF Beneath
  <1>9. Lengths \subseteq Nat /\ Lengths # {} BY <1>1, <1>2
  <1>3. PICK n \in Lengths : \A m \in Lengths : n <= m BY <1>9, LeastNat
  <1> USE DEF Beneath
  <1>4. PICK r \in Beneath : \A s \in Beneath : Len(r) <= Len(s) BY <1>3
  <1>5. CASE r = p BY <1>5, <1>4
  <1>6. CASE r # p
    <2>1. r \in Names /\ r \in DOMAIN t /\ IsPrefix(p, r) BY <1>1, <1>4
    <2>2. IsPrefix(p, Front(r)) /\ Len(p) < Len(r) BY <1>6, <2>1, PathsBeneath
    <2>3. Len(p) \in Nat /\ Len(r) \in Nat /\ Front(r) \in Names BY <2>1, PathElements, FrontElements
    <2>4. r # << >> /\ Len(p) # 0 BY <2>1, <2>2, <2>3, PathElements
    <2>5. Len(Front(r)) < Len(r) /\ Len(p) <= Len(Front(r)) BY <2>1, <2>2, <2>3, <2>4, PathsBeneath
    <2>6. Front(r) # << >> BY <2>3, <2>4, <2>5, PathElements
    <2>7. Front(r) \in Beneath BY <2>1, <2>2, <2>6 DEF TreeOk, IsDir
    <2>8. Len(Front(r)) \in Nat BY <2>3, PathElements
    <2> QED BY <1>4, <2>3, <2>5, <2>7, <2>8
  <1> QED BY <1>5, <1>6

Under(t, p) == {q \in DOMAIN t : IsPrefix(p, q)}
Beside(t, p) == {q \in DOMAIN t : ~IsPrefix(p, q)}
Targets(t, p, r) == {MovedTo(p, r, q) : q \in Under(t, p)}

\* A tree after a rename: what stays, and what moves with its directory.
LEMMA MovedTree ==
  ASSUME NEW t, TreeOk(t), NEW p \in Names, NEW r \in Names
  PROVE  /\ DOMAIN Moved(t, p, r) = Beside(t, p) \cup Targets(t, p, r)
         /\ \A q \in DOMAIN t : IsPrefix(p, q) => Moved(t, p, r)[MovedTo(p, r, q)] = t[q]
         /\ \A q \in DOMAIN t : ~IsPrefix(p, q) /\ ~IsPrefix(r, q) => Moved(t, p, r)[q] = t[q]
  <1> DEFINE under == {q \in DOMAIN t : IsPrefix(p, q)}
             places == {MovedTo(p, r, q) : q \in under}
             back == [x \in places |-> CHOOSE q \in under : MovedTo(p, r, q) = x]
             all == (DOMAIN t \ under) \cup places
  <1>0. under \subseteq Names BY DEF TreeOk, Names
  <1>1. Moved(t, p, r) = [x \in (DOMAIN t \ under) \cup DOMAIN back |->
                            IF x \in DOMAIN back THEN t[back[x]] ELSE t[x]]
    BY DEF Moved, MovedTo
  <1>2. DOMAIN back = places OBVIOUS
  <1>3. ASSUME NEW q \in under PROVE back[MovedTo(p, r, q)] = q
    <2> DEFINE x == MovedTo(p, r, q)
    <2>1. x \in places OBVIOUS
    <2>2. back[x] = CHOOSE s \in under : MovedTo(p, r, s) = x BY <2>1
    <2>3. back[x] \in under /\ MovedTo(p, r, back[x]) = x BY <2>2
    <2> HIDE DEF back, x
    <2>4. back[x] = q BY <1>0, <2>3, Renaming DEF x
    <2> QED BY <2>4 DEF x
  <1> HIDE DEF back
  <1>4. /\ DOMAIN Moved(t, p, r) = all
        /\ \A x \in all : Moved(t, p, r)[x] = IF x \in places THEN t[back[x]] ELSE t[x]
    BY <1>1, <1>2
  <1>5. ASSUME NEW x \in places PROVE IsPrefix(r, x)
    BY <1>0, Renaming
  <1>6. DOMAIN t \ under = Beside(t, p) /\ places = Targets(t, p, r) BY DEF Beside, Targets, Under
  <1>7. \A q \in under : Moved(t, p, r)[MovedTo(p, r, q)] = t[q] BY <1>3, <1>4
  <1>8. \A q \in DOMAIN t : ~IsPrefix(p, q) /\ ~IsPrefix(r, q) => Moved(t, p, r)[q] = t[q]
    BY <1>4, <1>5
  <1> QED BY <1>4, <1>6, <1>7, <1>8

LEMMA MovedItself ==
  ASSUME NEW t, TreeOk(t), NEW p \in Names, NEW r \in Names, p \in DOMAIN t
  PROVE  r \in DOMAIN Moved(t, p, r) /\ Moved(t, p, r)[r] = t[p]
  <1>1. IsPrefix(p, p) BY PathsBeneath
  <1>2. MovedTo(p, r, p) = r BY <1>1, Renaming
  <1>3. DOMAIN Moved(t, p, r) = Beside(t, p) \cup Targets(t, p, r) BY MovedTree
  <1>4. \A q \in DOMAIN t : IsPrefix(p, q) => Moved(t, p, r)[MovedTo(p, r, q)] = t[q]
    BY MovedTree
  <1> QED BY <1>1, <1>2, <1>3, <1>4 DEF Targets, Under

LEMMA MovedIsTree ==
  ASSUME NEW t, TreeOk(t), NEW p \in Names, NEW r \in Names, p # << >>, r # << >>,
         r \notin DOMAIN Without(t, p), IsDir(Without(t, p), Front(r))
  PROVE  TreeOk(Moved(t, p, r))
  <1> DEFINE u == Moved(t, p, r)
             under == Under(t, p)
             rest == Beside(t, p)
  <1>0. DOMAIN t \subseteq Names /\ under \subseteq Names /\ rest \subseteq Names
    BY DEF TreeOk, Names, Under, Beside
  <1>1. /\ DOMAIN u = rest \cup {MovedTo(p, r, q) : q \in under}
        /\ \A q \in under : u[MovedTo(p, r, q)] = t[q]
        /\ \A q \in rest : ~IsPrefix(r, q) => u[q] = t[q]
    <2>1. DOMAIN u = rest \cup Targets(t, p, r) BY MovedTree
    <2>2. \A q \in DOMAIN t : IsPrefix(p, q) => u[MovedTo(p, r, q)] = t[q] BY MovedTree
    <2>3. \A q \in DOMAIN t : ~IsPrefix(p, q) /\ ~IsPrefix(r, q) => u[q] = t[q] BY MovedTree
    <2> HIDE DEF u
    <2> QED BY <2>1, <2>2, <2>3 DEF Under, Beside, Targets
  <1>2. u = [x \in DOMAIN u |-> u[x]] BY DEF Moved
  <1>3. DOMAIN Without(t, p) = rest BY DEF Without, Restrict, Beside
  <1>4. TreeOk(Without(t, p)) BY WithoutIsTree
  <1> USE DEF Under, Beside
  <1> HIDE DEF u
  \* Nothing that stays is at the new place or beneath it.
  <1>5. ASSUME NEW q \in rest PROVE ~IsPrefix(r, q) /\ u[q] = t[q]
    BY <1>1, <1>3, <1>4, <1>5, AboveAnEntry
  <1>6. DOMAIN u \subseteq Names BY <1>0, <1>1, Renaming
  <1>7. \A x \in DOMAIN u : u[x] \in Nat BY <1>1, <1>5 DEF TreeOk
  <1>8. ASSUME NEW q \in Names, IsDir(t, q), q = << >> \/ ~IsPrefix(p, q) PROVE IsDir(u, q)
    BY <1>1, <1>5, <1>8 DEF IsDir
  <1>9. ASSUME NEW q \in rest PROVE IsDir(u, Front(q))
    <2>1. Front(q) \in Names /\ IsDir(t, Front(q)) BY <1>0, <1>9, FrontElements DEF TreeOk
    <2>2. ~IsPrefix(p, Front(q)) BY <1>0, <1>9, PathsBeneath
    <2> QED BY <1>8, <2>1, <2>2
  <1>10. ASSUME NEW q \in under PROVE IsDir(u, Front(MovedTo(p, r, q)))
    <2>1. CASE q = p
      <3>1. MovedTo(p, r, q) = r BY <1>0, <2>1, Renaming
      <3>2. Front(r) \in Names BY FrontElements
      <3>3. IsDir(t, Front(r)) /\ (Front(r) = << >> \/ ~IsPrefix(p, Front(r)))
        BY <1>3 DEF IsDir, Without, Restrict
      <3> QED BY <1>8, <3>1, <3>2, <3>3
    <2>2. CASE q # p
      <3>1. q \in Names /\ q \in DOMAIN t /\ IsPrefix(p, q) BY <1>0
      <3>2. IsPrefix(p, Front(q)) /\ Front(MovedTo(p, r, q)) = MovedTo(p, r, Front(q))
        BY <2>2, <3>1, Renaming
      <3>3. Front(q) \in Names /\ Front(q) # << >>
        BY <3>1, <3>2, FrontElements, PathElements, PathsBeneath
      <3>4. Front(q) \in under /\ t[Front(q)] = Dir BY <3>1, <3>2, <3>3 DEF TreeOk, IsDir
      <3> QED BY <1>1, <3>2, <3>4 DEF IsDir
    <2> QED BY <2>1, <2>2
  <1>11. \A x \in DOMAIN u : IsDir(u, Front(x)) BY <1>1, <1>9, <1>10
  <1>12. u \in [DOMAIN u -> Nat] BY <1>2, <1>7
  <1>13. TreeOk(u) BY <1>6, <1>11, <1>12 DEF TreeOk, Names
  <1> QED BY <1>13 DEF u

LEMMA AppliedIsTree ==
  ASSUME NEW t, TreeOk(t), NEW ch, EditOk(ch), Applies(t, ch)
  PROVE  TreeOk(Applied(t, ch))
  <1>1. /\ ch.path \in Names /\ ch.to \in Names /\ ch.id \in Nat
        /\ ch.kind \in {"mkdir", "upsert", "rm", "rmdir", "rename"}
    BY DEF EditOk, Edits
  <1>2. CASE ch.kind = "mkdir"
    <2>1. IsDir(t, Front(ch.path)) BY <1>2 DEF Applies
    <2>2. TreeOk(Put(t, ch.path, Dir)) BY <1>1, <2>1, PutIsTree DEF Dir
    <2> QED BY <1>2, <2>2 DEF Applied
  <1>3. CASE ch.kind = "upsert"
    <2>1. IsDir(t, Front(ch.path)) /\ Kind(t, ch.path) # "directory" BY <1>3 DEF Applies
    <2>2. ~(ch.path \in DOMAIN t /\ t[ch.path] = Dir) BY <2>1 DEF Kind
    <2>3. TreeOk(Put(t, ch.path, ch.id)) BY <1>1, <2>1, <2>2, PutIsTree
    <2> QED BY <1>3, <2>3 DEF Applied
  <1>4. CASE ch.kind \in {"rm", "rmdir"}
    <2>1. TreeOk(Without(t, ch.path)) BY <1>1, WithoutIsTree
    <2> QED BY <1>4, <2>1 DEF Applied
  <1>5. CASE ch.kind = "rename"
    <2>1. ch.to \notin DOMAIN Without(t, ch.path) /\ IsDir(Without(t, ch.path), Front(ch.to))
      BY <1>5 DEF Applies
    <2>2. ch.path # << >> /\ ch.to # << >> BY <1>5 DEF EditOk
    <2>3. TreeOk(Moved(t, ch.path, ch.to)) BY <1>1, <2>1, <2>2, MovedIsTree
    <2> QED BY <1>5, <2>3 DEF Applied
  <1> QED BY <1>1, <1>2, <1>3, <1>4, <1>5

\* The trees after the first n of the changes cs.
OverlayTo(t, cs, n, f) ==
  f = [k \in 0..n |->
         IF k = 0 THEN {t} ELSE {Applied(x, cs[k]) : x \in {y \in f[k - 1] : Applies(y, cs[k])}}]

Steps(t, cs) == CHOOSE f : OverlayTo(t, cs, Len(cs), f)

LEMMA StepsExist ==
  ASSUME NEW t, NEW cs
  PROVE  \A n \in Nat : \E f : OverlayTo(t, cs, n, f)
  <1> DEFINE S == {n \in Nat : \E f : OverlayTo(t, cs, n, f)}
             Further(k, ts) == {Applied(x, cs[k]) : x \in {y \in ts : Applies(y, cs[k])}}
  <1>1. 0 \in S
    <2>1. OverlayTo(t, cs, 0, [k \in 0..0 |-> {t}]) BY DEF OverlayTo
    <2> QED BY <2>1
  <1>2. ASSUME NEW n \in Nat, n \in S PROVE n + 1 \in S
    <2>1. PICK f : OverlayTo(t, cs, n, f) BY <1>2
    <2> DEFINE g == [k \in 0..n + 1 |-> IF k = 0 THEN {t} ELSE Further(k, f[k - 1])]
    <2>2. f = [k \in 0..n |-> IF k = 0 THEN {t} ELSE Further(k, f[k - 1])] BY <2>1 DEF OverlayTo
    <2> HIDE DEF Further
    <2>3. ASSUME NEW k \in 0..n PROVE g[k] = f[k]
      <3>1. k \in 0..n + 1 OBVIOUS
      <3>2. g[k] = IF k = 0 THEN {t} ELSE Further(k, f[k - 1]) BY <3>1
      <3> HIDE DEF g
      <3> QED BY <2>2, <3>2
    <2>4. ASSUME NEW k \in 0..n + 1, k # 0 PROVE f[k - 1] = g[k - 1]
      <3>1. k - 1 \in 0..n BY <2>4
      <3> QED BY <2>3, <3>1
    <2>5. g = [k \in 0..n + 1 |-> IF k = 0 THEN {t} ELSE Further(k, g[k - 1])]
      <3> DEFINE h == [k \in 0..n + 1 |-> IF k = 0 THEN {t} ELSE Further(k, g[k - 1])]
      <3>1. \A k \in 0..n + 1 : g[k] = h[k] BY <2>4
      <3> QED BY <3>1
    <2>6. OverlayTo(t, cs, n + 1, g) BY <2>5 DEF OverlayTo, Further
    <2> QED BY <2>6
  <1> HIDE DEF S
  <1>3. Nat \subseteq S BY <1>1, <1>2, SetInduction
  <1> QED BY <1>3 DEF S

LEMMA StepsDef ==
  ASSUME NEW t, NEW cs, Len(cs) \in Nat
  PROVE  /\ Overlaid(t, cs) = Steps(t, cs)[Len(cs)]
         /\ Steps(t, cs)[0] = {t}
         /\ \A k \in 1..Len(cs) : \A x \in Steps(t, cs)[k] :
              \E y \in Steps(t, cs)[k - 1] : Applies(y, cs[k]) /\ x = Applied(y, cs[k])
  <1> DEFINE f == Steps(t, cs)
  <1>1. Overlaid(t, cs) = f[Len(cs)] BY DEF Overlaid, Steps, OverlayTo
  <1>2. \E g : OverlayTo(t, cs, Len(cs), g) BY StepsExist
  <1>3. OverlayTo(t, cs, Len(cs), f) BY <1>2 DEF Steps
  <1> HIDE DEF f
  <1>4. f = [k \in 0..Len(cs) |->
               IF k = 0 THEN {t}
               ELSE {Applied(x, cs[k]) : x \in {y \in f[k - 1] : Applies(y, cs[k])}}]
    BY <1>3 DEF OverlayTo
  <1>5. f[0] = {t} BY <1>4
  <1>6. ASSUME NEW k \in 1..Len(cs)
        PROVE  f[k] = {Applied(x, cs[k]) : x \in {y \in f[k - 1] : Applies(y, cs[k])}}
    <2>1. k \in 0..Len(cs) /\ k # 0 OBVIOUS
    <2> QED BY <1>4, <2>1
  <1> QED BY <1>1, <1>5, <1>6 DEF f

LEMMA OverlaidAreTrees ==
  ASSUME NEW t, TreeOk(t), NEW cs, Len(cs) \in Nat, \A k \in 1..Len(cs) : EditOk(cs[k])
  PROVE  /\ \A k \in 0..Len(cs) : \A x \in Steps(t, cs)[k] : TreeOk(x)
         /\ \A x \in Overlaid(t, cs) : TreeOk(x)
  <1> DEFINE S == {k \in Nat : k <= Len(cs) => \A x \in Steps(t, cs)[k] : TreeOk(x)}
  <1>1. 0 \in S BY StepsDef
  <1>2. ASSUME NEW k \in Nat, k \in S PROVE k + 1 \in S
    <2> SUFFICES ASSUME k + 1 <= Len(cs), NEW x \in Steps(t, cs)[k + 1] PROVE TreeOk(x)
      OBVIOUS
    <2>1. k + 1 \in 1..Len(cs) /\ k + 1 - 1 = k /\ k <= Len(cs) OBVIOUS
    <2>2. PICK y \in Steps(t, cs)[k] : Applies(y, cs[k + 1]) /\ x = Applied(y, cs[k + 1])
      BY <2>1, StepsDef
    <2>3. TreeOk(y) BY <1>2, <2>1, <2>2
    <2> QED BY <2>1, <2>2, <2>3, AppliedIsTree
  <1> HIDE DEF S
  <1>3. Nat \subseteq S BY <1>1, <1>2, SetInduction
  <1>4. \A k \in 0..Len(cs) : \A x \in Steps(t, cs)[k] : TreeOk(x) BY <1>3 DEF S
  <1>5. Len(cs) \in 0..Len(cs) OBVIOUS
  <1> QED BY <1>4, <1>5, StepsDef

\* What a path holds: a file's object, and 0 for a directory or nothing.

\* New directories change no content.
LEMMA DirectoriesKeepContent ==
  ASSUME NEW t, NEW cs, Len(cs) \in Nat, NEW n \in 0..Len(cs), NEW p,
         \A k \in 1..n : cs[k].kind = "mkdir"
  PROVE  \A x \in Steps(t, cs)[n] : Content(x, p) = Content(t, p)
  <1> DEFINE S == {k \in Nat : k <= n => \A x \in Steps(t, cs)[k] : Content(x, p) = Content(t, p)}
  <1>1. 0 \in S BY StepsDef
  <1>2. ASSUME NEW k \in Nat, k \in S PROVE k + 1 \in S
    <2> SUFFICES ASSUME k + 1 <= n, NEW x \in Steps(t, cs)[k + 1]
                 PROVE  Content(x, p) = Content(t, p)
      OBVIOUS
    <2>1. k + 1 \in 1..Len(cs) /\ k + 1 \in 1..n /\ k + 1 - 1 = k /\ k <= n OBVIOUS
    <2>2. PICK y \in Steps(t, cs)[k] : Applies(y, cs[k + 1]) /\ x = Applied(y, cs[k + 1])
      BY <2>1, StepsDef
    <2>3. Content(y, p) = Content(t, p) BY <1>2, <2>1, <2>2
    <2>4. cs[k + 1].kind = "mkdir" BY <2>1
    <2>5. x = Put(y, cs[k + 1].path, Dir) /\ Kind(y, cs[k + 1].path) # "file"
      BY <2>2, <2>4 DEF Applied, Applies
    <2>6. Content(x, p) = Content(y, p) BY <2>5 DEF Put, Kind, Content, Dir
    <2> QED BY <2>3, <2>6
  <1> HIDE DEF S
  <1>3. Nat \subseteq S BY <1>1, <1>2, SetInduction
  <1> QED BY <1>3 DEF S

\* What the last change of an overlay leaves at its path.
LEMMA LastChange ==
  ASSUME NEW t, TreeOk(t), NEW cs, Len(cs) \in Nat \ {0},
         \A k \in 1..Len(cs) : EditOk(cs[k]), NEW x \in Overlaid(t, cs),
         NEW ch, ch = cs[Len(cs)]
  PROVE  /\ ch.kind = "upsert" => ch.path \in DOMAIN x /\ x[ch.path] = ch.id
         /\ ch.kind = "rm" => ch.path \notin DOMAIN x
         /\ ch.kind = "rename" /\ (\A k \in 1..Len(cs) - 1 : cs[k].kind = "mkdir") =>
              Content(x, ch.to) = Content(t, ch.path)
  <1> DEFINE n == Len(cs)
  <1>1. n \in 1..Len(cs) /\ n - 1 \in 0..Len(cs) OBVIOUS
  <1>2. PICK y \in Steps(t, cs)[n - 1] : Applies(y, ch) /\ x = Applied(y, ch)
    BY <1>1, StepsDef
  <1>3. TreeOk(y) BY <1>1, <1>2, OverlaidAreTrees
  <1>4. EditOk(ch) /\ ch.path \in Names /\ ch.to \in Names BY <1>1 DEF EditOk, Edits
  <1>5. ch.kind = "upsert" => ch.path \in DOMAIN x /\ x[ch.path] = ch.id
    BY <1>2 DEF Applied, Put
  <1>6. ch.kind = "rm" => ch.path \notin DOMAIN x
    BY <1>2, <1>4, PathsBeneath DEF Applied, Without, Restrict
  <1>7. ASSUME ch.kind = "rename", \A k \in 1..n - 1 : cs[k].kind = "mkdir"
        PROVE  Content(x, ch.to) = Content(t, ch.path)
    <2>1. Content(y, ch.path) = Content(t, ch.path) BY <1>1, <1>2, <1>7, DirectoriesKeepContent
    <2>2. x = Moved(y, ch.path, ch.to) /\ ch.path \in DOMAIN y BY <1>2, <1>7 DEF Applied, Applies
    <2>6. ch.to \in DOMAIN Moved(y, ch.path, ch.to) /\ Moved(y, ch.path, ch.to)[ch.to] = y[ch.path]
      BY <1>3, <1>4, <2>2, MovedItself
    <2> QED BY <2>1, <2>2, <2>6 DEF Content
  <1> QED BY <1>5, <1>6, <1>7

----------------------------------------------------------------------------
(* The changes of an overlay.                                              *)

LEMMA FunctionIsSeq ==
  ASSUME NEW S, NEW n \in Nat, NEW f \in [1..n -> S]
  PROVE  f \in Seq(S) /\ Len(f) = n
  <1>1. f \in Seq(S) BY SeqDef
  <1>2. DOMAIN f = 1..Len(f) /\ DOMAIN f = 1..n /\ Len(f) \in Nat BY <1>1, LenProperties
  <1>3. Len(f) <= n /\ n <= Len(f)
    <2>1. Len(f) \in 1..n \/ Len(f) = 0 BY <1>2
    <2>2. n \in 1..Len(f) \/ n = 0 BY <1>2
    <2> QED BY <1>2, <2>1, <2>2
  <1> QED BY <1>1, <1>2, <1>3

LEMMA ChangeIsEdit ==
  ASSUME NEW kind \in {"mkdir", "upsert", "rm", "rmdir", "rename"},
         NEW p \in Names, NEW r \in Names, NEW x \in Nat,
         kind = "rename" => p # << >> /\ r # << >>
  PROVE  /\ EditOk(Change(kind, p, r, x)) /\ Change(kind, p, r, x).kind = kind
         /\ Change(kind, p, r, x).path = p /\ Change(kind, p, r, x).to = r
         /\ Change(kind, p, r, x).id = x
  BY DEF Change, EditOk, Edits

LEMMA MkdirsAre ==
  ASSUME NEW dirs \in Seq(Names)
  PROVE  /\ Mkdirs(dirs) \in Seq(Edits) /\ Len(Mkdirs(dirs)) = Len(dirs)
         /\ \A k \in 1..Len(dirs) : EditOk(Mkdirs(dirs)[k]) /\ Mkdirs(dirs)[k].kind = "mkdir"
  <1>1. Len(dirs) \in Nat /\ DOMAIN dirs = 1..Len(dirs) BY LenProperties
  <1>2. \A k \in 1..Len(dirs) : dirs[k] \in Names BY ElementOfSeq
  <1>3. Mkdirs(dirs) = [k \in 1..Len(dirs) |-> Change("mkdir", dirs[k], dirs[k], 0)]
    BY <1>1 DEF Mkdirs
  <1>4. \A k \in 1..Len(dirs) : /\ EditOk(Change("mkdir", dirs[k], dirs[k], 0))
                                /\ Change("mkdir", dirs[k], dirs[k], 0).kind = "mkdir"
    BY <1>2, ChangeIsEdit
  <1>5. Mkdirs(dirs) \in [1..Len(dirs) -> Edits] BY <1>3, <1>4 DEF EditOk
  <1> QED BY <1>1, <1>3, <1>4, <1>5, FunctionIsSeq

LEMMA UpsertsOfNone == Upserts(<< >>) = << >>
  <1>1. DOMAIN << >> = {} OBVIOUS
  <1>2. Cardinality({}) = 0 BY FS_EmptySet
  <1>3. 1..0 = {} OBVIOUS
  <1>4. Upserts(<< >>) = [i \in {} |-> 0] BY <1>1, <1>2, <1>3 DEF Upserts
  <1> QED BY <1>4

LEMMA UpsertsOfOne ==
  ASSUME NEW p \in Names, NEW x \in Nat
  PROVE  Upserts(Put(<< >>, p, x)) = <<Change("upsert", p, p, x)>>
  <1> DEFINE f == Put(<< >>, p, x)
  <1>1. DOMAIN f = {p} /\ f[p] = x BY DEF Put
  <1> HIDE DEF f
  <1>2. Cardinality({p}) = 1 BY FS_Singleton
  <1>3. \E s \in [1..1 -> {p}] : IsInjective(s)
    <2>1. [i \in 1..1 |-> p] \in [1..1 -> {p}] /\ IsInjective([i \in 1..1 |-> p]) BY DEF IsInjective
    <2> QED BY <2>1
  <1>4. SetToSeq({p}) \in [1..1 -> {p}] BY <1>2, <1>3 DEF SetToSeq
  <1>5. SetToSeq({p})[1] = p BY <1>4
  <1>6. Upserts(f) = [i \in 1..1 |-> LET q == SetToSeq({p})[i] IN Change("upsert", q, q, f[q])]
    BY <1>1, <1>2 DEF Upserts
  <1>7. Upserts(f) = [i \in 1..1 |-> Change("upsert", p, p, x)] BY <1>1, <1>5, <1>6
  <1> QED BY <1>7 DEF f

\* What the changes of an overlay with one last change are.
OneMore(cs, dirs, ch) ==
  /\ cs \in Seq(Edits) /\ Len(cs) = Len(dirs) + 1 /\ cs[Len(cs)] = ch
  /\ \A k \in 1..Len(cs) : EditOk(cs[k])
  /\ \A k \in 1..Len(cs) - 1 : cs[k].kind = "mkdir"

LEMMA AppendedChange ==
  ASSUME NEW dirs \in Seq(Names), NEW ch, EditOk(ch)
  PROVE  OneMore(Mkdirs(dirs) \o <<ch>>, dirs, ch)
  <1> DEFINE mk == Mkdirs(dirs)  cs == mk \o <<ch>>
  <1>1. Len(dirs) \in Nat /\ mk \in Seq(Edits) /\ Len(mk) = Len(dirs)
        /\ \A k \in 1..Len(dirs) : EditOk(mk[k]) /\ mk[k].kind = "mkdir"
    BY MkdirsAre, LenProperties
  <1>2. <<ch>> \in Seq(Edits) /\ Len(<<ch>>) = 1 /\ <<ch>>[1] = ch BY DEF EditOk
  <1> HIDE DEF mk
  <1>3. /\ cs \in Seq(Edits) /\ Len(cs) = Len(mk) + 1
        /\ \A i \in 1..Len(mk) + 1 : cs[i] = IF i <= Len(mk) THEN mk[i] ELSE <<ch>>[i - Len(mk)]
    BY <1>1, <1>2, ConcatProperties
  <1> HIDE DEF cs
  <1>4. cs[Len(cs)] = ch BY <1>1, <1>2, <1>3
  <1>5. \A k \in 1..Len(dirs) : cs[k] = mk[k] BY <1>1, <1>3
  <1>6. Len(cs) = Len(dirs) + 1 BY <1>1, <1>3
  <1>7. ASSUME NEW k \in 1..Len(cs) PROVE EditOk(cs[k]) /\ (k # Len(cs) => cs[k].kind = "mkdir")
    <2>1. CASE k = Len(cs) BY <1>4, <2>1
    <2>2. CASE k # Len(cs)
      <3>1. k \in 1..Len(dirs) BY <1>1, <1>6, <2>2
      <3> QED BY <1>1, <1>5, <3>1
    <2> QED BY <2>1, <2>2
  <1>8. \A k \in 1..Len(cs) - 1 : k \in 1..Len(cs) /\ k # Len(cs) BY <1>1, <1>6
  <1>9. OneMore(cs, dirs, ch) BY <1>3, <1>4, <1>6, <1>7, <1>8 DEF OneMore
  <1> QED BY <1>9 DEF cs, mk

\* A flush adds its file, a deletion or a rename itself.
LEMMA ChangesAre ==
  ASSUME NEW m, mount[m].dirs \in Seq(Names)
  PROVE  /\ \A p \in Names, x \in Nat :
              OneMore(Changes(m, Put(<< >>, p, x), << >>), mount[m].dirs, Change("upsert", p, p, x))
         /\ \A ch : EditOk(ch) => OneMore(Changes(m, << >>, <<ch>>), mount[m].dirs, ch)
  <1> DEFINE mk == Mkdirs(mount[m].dirs)
  <1>1. mk \in Seq(Edits) BY MkdirsAre
  <1>2. ASSUME NEW p \in Names, NEW x \in Nat
        PROVE  OneMore(Changes(m, Put(<< >>, p, x), << >>), mount[m].dirs, Change("upsert", p, p, x))
    <2> DEFINE ch == Change("upsert", p, p, x)
    <2>1. EditOk(ch) BY ChangeIsEdit
    <2>2. <<ch>> \in Seq(Edits) BY <2>1 DEF EditOk
    <2>3. Changes(m, Put(<< >>, p, x), << >>) = (mk \o <<ch>>) \o << >>
      BY UpsertsOfOne DEF Changes
    <2> HIDE DEF mk, ch
    <2>4. mk \o <<ch>> \in Seq(Edits) BY <1>1, <2>2, ConcatProperties
    <2>5. (mk \o <<ch>>) \o << >> = mk \o <<ch>> BY <2>4, ConcatEmptySeq
    <2>6. OneMore(mk \o <<ch>>, mount[m].dirs, ch) BY <2>1, AppendedChange DEF mk
    <2> QED BY <2>3, <2>5, <2>6 DEF ch
  <1>3. ASSUME NEW ch, EditOk(ch)
        PROVE  OneMore(Changes(m, << >>, <<ch>>), mount[m].dirs, ch)
    <2>1. Changes(m, << >>, <<ch>>) = (mk \o << >>) \o <<ch>> BY UpsertsOfNone DEF Changes
    <2> HIDE DEF mk
    <2>2. mk \o << >> = mk BY <1>1, ConcatEmptySeq
    <2>3. OneMore(mk \o <<ch>>, mount[m].dirs, ch) BY <1>3, AppendedChange DEF mk
    <2> QED BY <2>1, <2>2, <2>3
  <1> QED BY <1>2, <1>3

----------------------------------------------------------------------------
(* The invariant.                                                          *)

Calls == {NoCallback} \cup [kind : {"flush", "close", "delete"}, h : Handles]
         \cup [kind : {"mkdir"}, h : {0}] \cup [kind : {"rename"}, h : Handles, to : Names]

Opens == [open : BOOLEAN, path : Names, dir : BOOLEAN, writable : BOOLEAN,
          opened : Nat, pending : Nat]

IsView(v) ==
  v = [up |-> v.up, base |-> v.base, dirs |-> v.dirs, files |-> v.files, call |-> v.call]

\* A view v with its handles, of a branch with or without a branch file.
ViewOk(n, there, v, hs) ==
  /\ IsView(v) /\ v.up \in BOOLEAN /\ v.base \in 0..n /\ v.dirs \in Seq(Names)
  /\ v.call \in Calls /\ (v.call = NoCallback => v.files = << >>)
  /\ v.up => there
  /\ ~v.up => v.call = NoCallback /\ \A h \in Handles : ~hs[h].open

\* What is written goes to a snapshot that is there, and the default file stays at Main.
QueueOk(n, q) ==
  \A w \in Range(q) : w.head \in 0..n /\ (w.file = "default" => w.token = Main)

TreesOk(s) ==
  /\ \E S : s \in Seq(S)
  /\ \A h \in 1..Len(s) : TreeOk(s[h].tree)

HeadsOk(n, d, b) ==
  /\ d.token = Main /\ d.head \in 0..n
  /\ b \in [Tokens -> Int] /\ \A t \in Tokens : b[t] \in -1..n
  /\ b[Main] # None

RefsOk ==
  /\ TreesOk(snaps) /\ HeadsOk(Len(snaps), default, branch)
  /\ op \in [Procs -> Commands]
  /\ \A i \in Procs : QueueOk(Len(snaps), op[i].todo)

ViewsOk ==
  /\ RefsOk
  /\ mount = [m \in Mounts |-> mount[m]] /\ handle \in [Mounts -> [Handles -> Opens]] /\ writes \in Nat
  /\ \A m \in Mounts : ViewOk(Len(snaps), branch[Mounted[m]] # None, mount[m], handle[m])

ToWrite(t, n, b, q) ==
  \/ q \in {<<BranchFile(t, n), DefaultFile(t, n)>>, <<BranchFile(t, n)>>}
  \/ b[t] = n /\ q \in {<<DefaultFile(t, n)>>, << >>}

\* The commit of a callback: the branch file is at its snapshot, or will be, and
\* the snapshot has what the callback did.
Committing(s, b, t, o, v, hs) ==
  v.call # NoCallback =>
    /\ o.step = "write" /\ Len(s) # 0
    /\ ToWrite(t, Len(s), b, o.todo)
    /\ v.call.kind = "flush" =>
         LET file == hs[v.call.h] IN /\ file.path \in DOMAIN s[Len(s)].tree
                                     /\ s[Len(s)].tree[file.path] = file.pending

CallsOk ==
  /\ \A i, j \in Procs : op[i] # Idle /\ op[j] # Idle => i = j
  /\ \A m \in Mounts : Committing(snaps, branch, Mounted[m], op[m], mount[m], handle[m])

\* What the only handle of a mount has read is what its view, or the snapshot
\* of its callback, holds.
Seen(s, v, hs) ==
  /\ \A h, k \in Handles : hs[h].open /\ hs[k].open => h = k
  /\ \A h \in Handles : hs[h].writable => ~hs[h].dir
  /\ v.call = NoCallback =>
       \A h \in Handles : hs[h].open /\ ~hs[h].dir =>
         hs[h].opened = Content(IF v.base = 0 THEN << >> ELSE s[v.base].tree, hs[h].path)
  /\ v.call.kind = "mkdir" => \A h \in Handles : ~hs[h].open
  /\ v.call.kind \in {"flush", "close", "delete", "rename"} => hs[v.call.h].open
  /\ v.call.kind = "delete" /\ ~hs[v.call.h].dir =>
       Content(s[Len(s)].tree, hs[v.call.h].path) = 0
  /\ v.call.kind = "rename" /\ ~hs[v.call.h].dir =>
       Content(s[Len(s)].tree, v.call.to) = hs[v.call.h].opened

HandlesOk == \A m \in Mounts : Seen(snaps, mount[m], handle[m])

----------------------------------------------------------------------------
(* The refs under a mount.                                                 *)

\* A step keeps the snapshots and the branches that are there.
Extends(r, s) == Len(s) <= Len(r) /\ \A h \in 1..Len(s) : r[h] = s[h]

Kept ==
  /\ Extends(snaps', snaps)
  /\ \A t \in Tokens : branch[t] # None => branch'[t] # None

LEMMA LenOfTrees ==
  ASSUME NEW s, TreesOk(s)
  PROVE  Len(s) \in Nat
  BY LenProperties DEF TreesOk

LEMMA EmptyTree == TreeOk(<< >>)
  BY DEF TreeOk

LEMMA TreeOfHead ==
  ASSUME TreesOk(snaps), NEW h \in 0..Len(snaps)
  PROVE  TreeOk(Tree(h))
  <1>1. Len(snaps) \in Nat BY LenOfTrees
  <1>2. CASE h = 0 BY <1>2, EmptyTree DEF Tree
  <1>3. CASE h # 0
    <2>1. h \in 1..Len(snaps) BY <1>1, <1>3
    <2> QED BY <1>3, <2>1 DEF Tree, TreesOk
  <1> QED BY <1>2, <1>3

LEMMA TreesGrow ==
  ASSUME NEW s, TreesOk(s), NEW x, TreeOk(x.tree), NEW r, r = Append(s, x)
  PROVE  TreesOk(r) /\ Len(r) = Len(s) + 1 /\ Extends(r, s) /\ r[Len(r)] = x
  <1>1. Len(s) \in Nat BY LenOfTrees
  <1>2. PICK S : s \in Seq(S) BY DEF TreesOk
  <1>3. /\ r \in Seq(S \cup {x}) /\ Len(r) = Len(s) + 1
        /\ \A h \in 1..Len(s) : r[h] = s[h]
        /\ r[Len(r)] = x
    <2>1. s \in Seq(S \cup {x}) BY <1>2, SMT
    <2> QED BY <2>1, <1>1, AppendProperties
  <1>4. ASSUME NEW h \in 1..Len(r) PROVE TreeOk(r[h].tree)
    <2>1. CASE h = Len(r) BY <1>3, <2>1
    <2>2. CASE h # Len(r)
      <3>1. h \in 1..Len(s) BY <1>1, <1>3, <2>2
      <3> QED BY <1>3, <3>1 DEF TreesOk
    <2> QED BY <2>1, <2>2
  <1>5. Extends(r, s) BY <1>1, <1>3 DEF Extends
  <1> QED BY <1>3, <1>4, <1>5 DEF TreesOk

\* Heads and queues stay within more snapshots.
LEMMA MoreSnapshots ==
  ASSUME NEW n \in Nat, NEW k \in Nat, n <= k
  PROVE  /\ \A d, b : HeadsOk(n, d, b) => HeadsOk(k, d, b)
         /\ \A q : QueueOk(n, q) => QueueOk(k, q)
  <1>1. /\ \A h : h \in 0..n => h \in 0..k
        /\ \A h : h \in -1..n => h \in -1..k
    OBVIOUS
  <1> QED BY <1>1 DEF HeadsOk, QueueOk

LEMMA NewCommand ==
  ASSUME RefsOk, NEW i \in Procs, NEW p, NEW tree, TreeOk(tree), NEW q \in Seq(RefFile),
         NEW ack \in SUBSET (Tokens \X Int), QueueOk(Len(snaps) + 1, q),
         snaps' = Append(snaps, [parent |-> p, tree |-> tree]), Begin(i, q, ack),
         UNCHANGED <<default, branch>>
  PROVE  /\ RefsOk' /\ Kept
         /\ Len(snaps') = Len(snaps) + 1 /\ snaps'[Len(snaps')].tree = tree
         /\ op'[i].step = "write" /\ op'[i].todo = q
         /\ \A j \in Procs \ {i} : op'[j] = op[j]
  <1>1. PICK s, r, d, b : s = snaps /\ r = snaps' /\ d = default /\ b = branch OBVIOUS
  <1>2. TreesOk(s) /\ HeadsOk(Len(s), d, b) /\ QueueOk(Len(s) + 1, q) BY <1>1 DEF RefsOk
  <1>3. PICK x : x = [parent |-> p, tree |-> tree] OBVIOUS
  <1>4. /\ TreesOk(r) /\ Len(r) = Len(s) + 1 /\ Extends(r, s)
        /\ r[Len(r)].tree = tree /\ Len(s) \in Nat
    <2>1. x.tree = tree /\ TreeOk(x.tree) /\ r = Append(s, x) BY <1>1, <1>3
    <2>2. /\ TreesOk(r) /\ Len(r) = Len(s) + 1 /\ Extends(r, s)
          /\ r[Len(r)] = x
      BY <1>2, <2>1, TreesGrow
    <2> QED BY <1>2, <2>1, <2>2, LenOfTrees
  <1>5. HeadsOk(Len(r), d, b) /\ \A u : QueueOk(Len(s), u) => QueueOk(Len(r), u)
    BY <1>2, <1>4, MoreSnapshots
  <1>6. PICK c : c = [Idle EXCEPT !.step = "write", !.todo = q, !.ack = ack] OBVIOUS
  <1>7. c.step = "write" /\ c.todo = q /\ c \in Commands BY <1>6, IdleIsCommand DEF Commands
  <1>8. op' = [op EXCEPT ![i] = c] BY <1>6 DEF Begin
  <1>9. op' \in [Procs -> Commands] /\ op'[i] = c /\ \A j \in Procs \ {i} : op'[j] = op[j]
    BY <1>7, <1>8 DEF RefsOk
  <1>10. \A j \in Procs : QueueOk(Len(r), op'[j].todo)
    BY <1>1, <1>2, <1>4, <1>5, <1>7, <1>9 DEF RefsOk
  <1>11. RefsOk' BY <1>1, <1>4, <1>5, <1>9, <1>10 DEF RefsOk
  <1>12. Kept BY <1>1, <1>4 DEF Kept
  <1> QED BY <1>1, <1>4, <1>7, <1>9, <1>11, <1>12

LEMMA CommandEnds ==
  ASSUME RefsOk, NEW i \in Procs, op' = [op EXCEPT ![i] = Idle],
         UNCHANGED <<snaps, default, branch>>
  PROVE  RefsOk' /\ Kept
  <1>1. op' \in [Procs -> Commands] /\ op'[i] = Idle /\ \A j \in Procs \ {i} : op'[j] = op[j]
    BY IdleIsCommand DEF RefsOk
  <1>2. QueueOk(Len(snaps), Idle.todo) BY IdleIsCommand DEF QueueOk
  <1>3. \A j \in Procs : QueueOk(Len(snaps), op'[j].todo) BY <1>1, <1>2 DEF RefsOk
  <1>4. RefsOk' BY <1>1, <1>3 DEF RefsOk
  <1>5. Len(snaps) \in Nat BY LenOfTrees DEF RefsOk
  <1> QED BY <1>4, <1>5 DEF Kept, Extends

LEMMA SameRefs ==
  ASSUME RefsOk, UNCHANGED repoVars
  PROVE  RefsOk' /\ Kept
  <1>1. Len(snaps) \in Nat BY LenOfTrees DEF RefsOk
  <1> QED BY <1>1 DEF RefsOk, Kept, Extends, repoVars

\* A ref file: the default file of Main, or a branch file.
FileWritten(w, d, b, d2, b2) ==
  \/ w.file = "default" /\ d2 = [token |-> w.token, head |-> w.head] /\ b2 = b
  \/ w.file = "branch" /\ d2 = d /\ b2 = [b EXCEPT ![w.token] = w.head]

LEMMA OneRef ==
  ASSUME NEW n \in Nat, NEW d, NEW b, HeadsOk(n, d, b), NEW w \in RefFile, w.head \in 0..n,
         w.file = "default" => w.token = Main, NEW d2, NEW b2, FileWritten(w, d, b, d2, b2)
  PROVE  HeadsOk(n, d2, b2) /\ \A t \in Tokens : b[t] # None => b2[t] # None
  <1>1. /\ w.token \in Tokens /\ w.head \in Int /\ w.file \in {"default", "branch"}
        /\ b \in [Tokens -> Int] /\ w.head \in -1..n /\ w.head # None /\ Main \in Tokens
    BY RepositoryAssumption DEF RefFile, HeadsOk, None
  <1>2. CASE w.file = "default"
    <2>1. d2 = [token |-> w.token, head |-> w.head] /\ b2 = b BY <1>2 DEF FileWritten
    <2>2. d2.token = w.token /\ d2.head = w.head BY <2>1
    <2> QED BY <1>2, <2>1, <2>2 DEF HeadsOk
  <1>3. CASE w.file = "branch"
    <2>1. d2 = d /\ b2 = [b EXCEPT ![w.token] = w.head] BY <1>3 DEF FileWritten
    <2>2. b2 \in [Tokens -> Int] /\ \A t \in Tokens : b2[t] = IF t = w.token THEN w.head ELSE b[t]
      BY <1>1, <2>1
    <2> QED BY <1>1, <2>1, <2>2 DEF HeadsOk
  <1> QED BY <1>1, <1>2, <1>3

LEMMA RefKept ==
  ASSUME RefsOk, NEW i \in Procs, WriteRef(i)
  PROVE  /\ RefsOk' /\ Kept /\ snaps' = snaps
         /\ op'[i].step = op[i].step /\ op'[i].todo = Tail(op[i].todo)
         /\ op[i].todo \in Seq(RefFile) /\ op[i].todo # << >>
         /\ \A j \in Procs \ {i} : op'[j] = op[j]
         /\ FileWritten(Head(op[i].todo), default, branch, default', branch')
  <1>1. PICK o, q, w, rest : o = op[i] /\ q = o.todo /\ w = Head(q) /\ rest = Tail(q) OBVIOUS
  <1>2. o \in Commands /\ q \in Seq(RefFile) /\ q # << >> /\ QueueOk(Len(snaps), q)
    BY <1>1 DEF RefsOk, Commands, WriteRef
  <1>3. rest \in Seq(RefFile) /\ w \in RefFile /\ Range(q) = {w} \cup Range(rest)
    BY <1>1, <1>2, FirstOfQueue
  <1>4. PICK o2 : o2 = [o EXCEPT !.todo = rest] OBVIOUS
  <1>5. o2 \in Commands /\ o2.todo = rest /\ o2.step = o.step BY <1>2, <1>3, <1>4 DEF Commands
  <1>6. op' = [op EXCEPT ![i] = o2]
    <2>1. op \in [Procs -> Commands] BY DEF RefsOk
    <2>2. op' = [op EXCEPT ![i].todo = Tail(@)] BY DEF WriteRef
    <2> QED BY <1>1, <1>4, <2>1, <2>2
  <1>7. op' \in [Procs -> Commands] /\ op'[i] = o2 /\ \A j \in Procs \ {i} : op'[j] = op[j]
    BY <1>5, <1>6 DEF RefsOk
  <1>8. snaps' = snaps BY DEF WriteRef
  <1>9. PICK n, d, b, d2, b2 : /\ n = Len(snaps) /\ d = default /\ b = branch
                               /\ d2 = default' /\ b2 = branch'
    OBVIOUS
  <1>10. FileWritten(w, d, b, d2, b2)
    <2>1. w.file \in {"default", "branch"} BY <1>3 DEF RefFile
    <2> QED BY <1>1, <1>9, <2>1 DEF WriteRef, FileWritten
  <1>11. w.head \in 0..n /\ (w.file = "default" => w.token = Main) /\ QueueOk(n, rest)
    BY <1>2, <1>3, <1>9 DEF QueueOk
  <1>12. n \in Nat /\ HeadsOk(n, d, b) BY <1>9, LenOfTrees DEF RefsOk
  <1>13. HeadsOk(n, d2, b2) /\ \A t \in Tokens : b[t] # None => b2[t] # None
    BY <1>3, <1>10, <1>11, <1>12, OneRef
  <1>14. \A j \in Procs : QueueOk(n, op'[j].todo) BY <1>5, <1>7, <1>9, <1>11 DEF RefsOk
  <1>15. RefsOk' BY <1>7, <1>8, <1>9, <1>13, <1>14 DEF RefsOk
  <1>16. Kept BY <1>8, <1>9, <1>12, <1>13 DEF Kept, Extends
  <1> QED BY <1>1, <1>2, <1>5, <1>7, <1>8, <1>9, <1>10, <1>15, <1>16

LEMMA CommitGrows ==
  ASSUME RefsOk, NEW i \in Procs, NEW tree, TreeOk(tree), Commit(i, tree)
  PROVE  RefsOk' /\ Kept
  <1>1. PICK n, t, p : n = Len(snaps) + 1 /\ t = default.token /\ p = default.head OBVIOUS
  <1>2. t = Main /\ t \in Tokens /\ n \in Nat /\ n # 0
    BY <1>1, LenOfTrees, RepositoryAssumption DEF RefsOk, HeadsOk
  <1>3. PICK x, y : x = DefaultFile(t, n) /\ y = BranchFile(t, n) OBVIOUS
  <1>4. /\ x \in RefFile /\ y \in RefFile /\ x.head = n /\ y.head = n
        /\ x.token = Main /\ y.file = "branch"
    BY <1>2, <1>3 DEF DefaultFile, BranchFile, RefFile
  <1>5. PICK q, ack : q = <<x, y>> /\ ack = {<<t, n>>} OBVIOUS
  <1>6. q \in Seq(RefFile) /\ Range(q) = {x, y} /\ ack \in SUBSET (Tokens \X Int)
    BY <1>2, <1>4, <1>5, Queues
  <1>7. QueueOk(Len(snaps) + 1, q) BY <1>1, <1>2, <1>4, <1>6 DEF QueueOk
  <1>8. /\ snaps' = Append(snaps, [parent |-> p, tree |-> tree])
        /\ Begin(i, q, ack) /\ UNCHANGED <<default, branch>>
    BY <1>1, <1>3, <1>5 DEF Commit, NewSnapshot, NextId
  <1> QED BY <1>6, <1>7, <1>8, NewCommand

LEMMA FilesOfBranch ==
  ASSUME RefsOk, NEW t \in Tokens, NEW n, n = Len(snaps) + 1
  PROVE  /\ RefFiles(t, n) \in {<<BranchFile(t, n), DefaultFile(t, n)>>, <<BranchFile(t, n)>>}
         /\ RefFiles(t, n) \in Seq(RefFile) /\ QueueOk(n, RefFiles(t, n))
         /\ {<<t, n>>} \in SUBSET (Tokens \X Int)
  <1>1. n \in Nat BY LenOfTrees DEF RefsOk
  <1>2. PICK x, y : x = BranchFile(t, n) /\ y = DefaultFile(t, n) OBVIOUS
  <1>3. /\ x \in RefFile /\ y \in RefFile /\ x.head = n /\ y.head = n
        /\ y.token = t /\ x.file = "branch"
    BY <1>1, <1>2 DEF DefaultFile, BranchFile, RefFile
  <1>4. CASE default.token = t
    <2>1. t = Main BY <1>4 DEF RefsOk, HeadsOk
    <2>2. RefFiles(t, n) = <<x, y>> BY <1>2, <1>3, <1>4, LongerQueues DEF RefFiles
    <2>3. <<x, y>> \in Seq(RefFile) /\ Range(<<x, y>>) = {x, y} BY <1>3, Queues
    <2>4. QueueOk(n, <<x, y>>) BY <1>1, <1>3, <2>1, <2>3 DEF QueueOk
    <2>5. PICK q : q = <<x, y>> OBVIOUS
    <2>6. q = RefFiles(t, n) /\ q = <<BranchFile(t, n), DefaultFile(t, n)>> BY <1>2, <2>2, <2>5
    <2>7. q \in Seq(RefFile) /\ QueueOk(n, q) BY <2>3, <2>4, <2>5
    <2> QED BY <1>1, <2>6, <2>7
  <1>5. CASE default.token # t
    <2>1. RefFiles(t, n) = <<x>> \o << >> BY <1>2, <1>5 DEF RefFiles
    <2>2. <<x>> \in Seq(RefFile) /\ Range(<<x>>) = {x} BY <1>3, Queues
    <2>3. <<x>> \o << >> = <<x>> BY <2>2, ConcatEmptySeq
    <2>4. QueueOk(n, <<x>>) BY <1>1, <1>3, <2>2 DEF QueueOk
    <2> QED BY <1>1, <1>2, <2>1, <2>2, <2>3, <2>4
  <1> QED BY <1>4, <1>5

\* What a writeback of an overlay leaves.
Overwrites(i, t, base, cs, tree) ==
  /\ RefsOk' /\ Kept
  /\ Len(snaps') = Len(snaps) + 1 /\ snaps'[Len(snaps')].tree = tree
  /\ op'[i].step = "write"
  /\ LET n == Len(snaps')
     IN op'[i].todo \in {<<BranchFile(t, n), DefaultFile(t, n)>>, <<BranchFile(t, n)>>}
  /\ \A j \in Procs \ {i} : op'[j] = op[j]
  /\ LET h == WritableHead(t)
     IN /\ h \in 0..Len(snaps) /\ tree \in Overlaid(Tree(h), cs)
        /\ h = base \/ ~Conflicts(Tree(base), Tree(h), cs)

LEMMA OverlayWritten ==
  ASSUME RefsOk, NEW i \in Procs, NEW t \in Tokens, NEW base, NEW cs, Len(cs) \in Nat,
         \A k \in 1..Len(cs) : EditOk(cs[k]), WriteOverlay(i, t, base, cs)
  PROVE  \E tree : Overwrites(i, t, base, cs, tree)
  <1>1. PICK tree \in Rebase(t, base, cs) :
           /\ NewSnapshot(WritableHead(t), tree)
           /\ Begin(i, RefFiles(t, NextId), {<<t, NextId>>})
           /\ UNCHANGED <<default, branch, remote, acked>>
    BY DEF WriteOverlay
  <1>2. PICK h : h = WritableHead(t) OBVIOUS
  <1>3. h # None /\ tree \in Overlaid(Tree(h), cs) /\ (h = base \/ ~Conflicts(Tree(base), Tree(h), cs))
    BY <1>1, <1>2 DEF Rebase
  <1>4. h \in 0..Len(snaps)
    <2>1. default.head \in 0..Len(snaps) /\ branch[t] \in -1..Len(snaps) BY DEF RefsOk, HeadsOk
    <2>2. Len(snaps) \in Nat BY LenOfTrees DEF RefsOk
    <2>3. h = default.head \/ h = branch[t] BY <1>2 DEF WritableHead
    <2> QED BY <1>3, <2>1, <2>2, <2>3 DEF None
  <1>5. TreeOk(Tree(h)) BY <1>4, TreeOfHead DEF RefsOk
  <1>6. TreeOk(tree)
    <2>1. PICK s : s = Tree(h) OBVIOUS
    <2>2. \A x \in Overlaid(s, cs) : TreeOk(x) BY <1>5, <2>1, OverlaidAreTrees
    <2> QED BY <1>3, <2>1, <2>2
  <1>7. PICK n, q, ack : n = Len(snaps) + 1 /\ q = RefFiles(t, n) /\ ack = {<<t, n>>} OBVIOUS
  <1>8. /\ q \in {<<BranchFile(t, n), DefaultFile(t, n)>>, <<BranchFile(t, n)>>}
        /\ q \in Seq(RefFile) /\ QueueOk(n, q) /\ ack \in SUBSET (Tokens \X Int)
    BY <1>7, FilesOfBranch
  <1>9. /\ snaps' = Append(snaps, [parent |-> h, tree |-> tree])
        /\ Begin(i, q, ack) /\ UNCHANGED <<default, branch>>
    BY <1>1, <1>2, <1>7 DEF NewSnapshot, NextId
  <1>10. /\ RefsOk' /\ Kept
         /\ Len(snaps') = Len(snaps) + 1 /\ snaps'[Len(snaps')].tree = tree
         /\ op'[i].step = "write" /\ op'[i].todo = q
         /\ \A j \in Procs \ {i} : op'[j] = op[j]
    BY <1>6, <1>7, <1>8, <1>9, NewCommand
  <1> QED BY <1>2, <1>3, <1>4, <1>7, <1>8, <1>10 DEF Overwrites

----------------------------------------------------------------------------
(* The views over the refs, with any overlap of commands.                  *)

LEMMA HandlesAre ==
  /\ Closed \in Opens /\ ~Closed.open /\ Closed.path = << >> /\ ~Closed.dir
  /\ Closed.pending = 0 /\ Closed.opened = 0 /\ ~Closed.writable
  BY DEF Closed, Opens, Names

FileOpened(y, p, w, x) ==
  y = [Closed EXCEPT !.open = TRUE, !.path = p, !.writable = w, !.opened = x]

LEMMA OpenedFile ==
  ASSUME NEW p \in Names, NEW w \in BOOLEAN, NEW x \in Nat, NEW y, FileOpened(y, p, w, x)
  PROVE  y \in Opens /\ y.open /\ y.path = p /\ y.opened = x /\ ~y.dir
  <1>1. PICK c : c = Closed OBVIOUS
  <1>2. c \in Opens /\ ~c.dir BY <1>1, HandlesAre
  <1> QED BY <1>1, <1>2 DEF Opens, FileOpened

FileCreated(y, p, w, x) ==
  y = [Closed EXCEPT !.open = TRUE, !.path = p, !.writable = w, !.pending = x]

LEMMA CreatedFile ==
  ASSUME NEW p \in Names, NEW w \in BOOLEAN, NEW x \in Nat, NEW y, FileCreated(y, p, w, x)
  PROVE  y \in Opens /\ y.open /\ y.path = p /\ y.opened = 0 /\ ~y.dir
  <1>1. PICK c : c = Closed OBVIOUS
  <1>2. c \in Opens /\ ~c.dir /\ c.opened = 0 BY <1>1, HandlesAre
  <1> QED BY <1>1, <1>2 DEF Opens, FileCreated

LEMMA OpenedDirectory ==
  ASSUME NEW p \in Names, NEW y, y = [Closed EXCEPT !.open = TRUE, !.path = p, !.dir = TRUE]
  PROVE  y \in Opens /\ y.open /\ y.dir /\ ~y.writable
  <1>1. PICK c : c = Closed OBVIOUS
  <1>2. c \in Opens /\ ~c.writable BY <1>1, HandlesAre
  <1> QED BY <1>1, <1>2 DEF Opens

LEMMA PathsAreNames ==
  /\ << >> \in Names /\ \A p \in Paths : p \in Names /\ p # << >>
  /\ \A r \in Renames : r[1] \in Paths /\ r[2] \in Paths
  BY RepositoryAssumption, MountAssumption DEF Names

LEMMA CallsAre ==
  /\ NoCallback \in Calls /\ NoCallback.kind = "none"
  /\ \A c \in Calls : /\ c = NoCallback <=> c.kind = "none"
                      /\ c.kind \in {"none", "mkdir", "flush", "close", "delete", "rename"}
                      /\ c.kind \in {"flush", "close", "delete", "rename"} => c.h \in Handles
                      /\ c.kind = "rename" => c.to \in Names
  /\ \A h \in Handles, k \in {"flush", "close", "delete"} :
       [kind |-> k, h |-> h] \in Calls /\ [kind |-> k, h |-> h].kind = k
         /\ [kind |-> k, h |-> h].h = h
  /\ [kind |-> "mkdir", h |-> 0] \in Calls
  /\ \A h \in Handles, p \in Names :
       LET c == [kind |-> "rename", h |-> h, to |-> p]
       IN c \in Calls /\ c.kind = "rename" /\ c.h = h /\ c.to = p
  BY DEF Calls, NoCallback

ViewIs(u, up, base, dirs, files, call) ==
  IsView(u) /\ u.up = up /\ u.base = base /\ u.dirs = dirs /\ u.files = files /\ u.call = call

LEMMA ViewsAre ==
  ASSUME NEW v, IsView(v), NEW u, NEW f, NEW c, NEW d
  PROVE  /\ u = [v EXCEPT !.files = f, !.call = c] => ViewIs(u, v.up, v.base, v.dirs, f, c)
         /\ u = [v EXCEPT !.call = c] => ViewIs(u, v.up, v.base, v.dirs, v.files, c)
         /\ u = [v EXCEPT !.dirs = d] =>
              ViewIs(u, v.up, v.base, d, v.files, v.call)
  <1>1. DOMAIN v = {"up", "base", "dirs", "files", "call"} BY DEF IsView
  <1>2. ASSUME u = [v EXCEPT !.files = f, !.call = c] PROVE ViewIs(u, v.up, v.base, v.dirs, f, c)
    BY <1>2, <1>1 DEF IsView, ViewIs
  <1>3. ASSUME u = [v EXCEPT !.call = c] PROVE ViewIs(u, v.up, v.base, v.dirs, v.files, c)
    BY <1>3, <1>1 DEF IsView, ViewIs
  <1>4. ASSUME u = [v EXCEPT !.dirs = d]
        PROVE  ViewIs(u, v.up, v.base, d, v.files, v.call)
    BY <1>4, <1>1 DEF IsView, ViewIs
  <1> QED BY <1>2, <1>3, <1>4

LEMMA FreshView ==
  ASSUME NEW b, NEW u, u = [Unmounted EXCEPT !.up = TRUE, !.base = b]
  PROVE  ViewIs(u, TRUE, b, << >>, << >>, NoCallback)
  BY DEF Unmounted, IsView, ViewIs

LEMMA NoView ==
  /\ IsView(Unmounted) /\ ~Unmounted.up /\ Unmounted.base = 0 /\ Unmounted.dirs = << >>
  /\ Unmounted.files = << >> /\ Unmounted.call = NoCallback
  BY DEF Unmounted, IsView

LEMMA ViewStays ==
  ASSUME NEW n \in Nat, NEW k \in Nat, n <= k, NEW there, NEW then, there => then,
         NEW v, NEW hs, ViewOk(n, there, v, hs)
  PROVE  ViewOk(k, then, v, hs)
  <1>1. v.base \in 0..k BY DEF ViewOk
  <1> QED BY <1>1 DEF ViewOk

\* A step of one mount over refs that are kept.
LEMMA ViewsMove ==
  ASSUME ViewsOk, RefsOk', Kept, NEW m \in Mounts, NEW u, NEW hs \in [Handles -> Opens],
         mount' = [mount EXCEPT ![m] = u], handle' = [handle EXCEPT ![m] = hs], writes' \in Nat,
         ViewOk(Len(snaps'), branch'[Mounted[m]] # None, u, hs)
  PROVE  ViewsOk' /\ mount'[m] = u /\ handle'[m] = hs
         /\ \A k \in Mounts \ {m} : mount'[k] = mount[k] /\ handle'[k] = handle[k]
  <1>1. /\ mount' = [k \in Mounts |-> mount'[k]] /\ mount'[m] = u
        /\ \A k \in Mounts \ {m} : mount'[k] = mount[k]
    BY DEF ViewsOk
  <1>2. /\ handle' \in [Mounts -> [Handles -> Opens]] /\ handle'[m] = hs
        /\ \A k \in Mounts \ {m} : handle'[k] = handle[k]
    BY DEF ViewsOk
  <1>3. PICK n, r, b, b2 : n = Len(snaps) /\ r = Len(snaps') /\ b = branch /\ b2 = branch' OBVIOUS
  <1>4. n \in Nat /\ r \in Nat
    <2>1. TreesOk(snaps) /\ TreesOk(snaps') BY DEF ViewsOk, RefsOk
    <2> QED BY <1>3, <2>1, LenOfTrees
  <1>5. n <= r /\ \A t \in Tokens : b[t] # None => b2[t] # None BY <1>3 DEF Kept, Extends
  <1>6. ASSUME NEW k \in Mounts \ {m} PROVE ViewOk(r, b2[Mounted[k]] # None, mount'[k], handle'[k])
    <2>1. ViewOk(n, b[Mounted[k]] # None, mount[k], handle[k]) BY <1>3 DEF ViewsOk
    <2>2. Mounted[k] \in Tokens BY MountAssumption
    <2>3. PICK v, hk, there, then : /\ v = mount[k] /\ hk = handle[k]
                                    /\ there = (b[Mounted[k]] # None)
                                    /\ then = (b2[Mounted[k]] # None)
      OBVIOUS
    <2>4. there => then BY <1>5, <2>2, <2>3
    <2>5. ViewOk(r, then, v, hk) BY <1>4, <1>5, <2>1, <2>3, <2>4, ViewStays
    <2> QED BY <1>1, <1>2, <2>3, <2>5
  <1>7. ViewOk(r, b2[Mounted[m]] # None, mount'[m], handle'[m]) BY <1>1, <1>2, <1>3
  <1>8. \A k \in Mounts : ViewOk(r, b2[Mounted[k]] # None, mount'[k], handle'[k]) BY <1>6, <1>7
  <1>9. ViewsOk' BY <1>1, <1>2, <1>3, <1>8 DEF ViewsOk
  <1> QED BY <1>1, <1>2, <1>9

\* A step of a shell or of a ref file.
LEMMA ViewsRest ==
  ASSUME ViewsOk, RefsOk', Kept, UNCHANGED mountVars
  PROVE  ViewsOk'
  <1>1. PICK n, r, b, b2 : n = Len(snaps) /\ r = Len(snaps') /\ b = branch /\ b2 = branch' OBVIOUS
  <1>2. n \in Nat /\ r \in Nat
    <2>1. TreesOk(snaps) /\ TreesOk(snaps') BY DEF ViewsOk, RefsOk
    <2> QED BY <1>1, <2>1, LenOfTrees
  <1>3. n <= r /\ \A t \in Tokens : b[t] # None => b2[t] # None BY <1>1 DEF Kept, Extends
  <1>4. ASSUME NEW k \in Mounts PROVE ViewOk(r, b2[Mounted[k]] # None, mount[k], handle[k])
    <2>1. ViewOk(n, b[Mounted[k]] # None, mount[k], handle[k]) BY <1>1 DEF ViewsOk
    <2>2. Mounted[k] \in Tokens BY MountAssumption
    <2>3. PICK v, hk, there, then : /\ v = mount[k] /\ hk = handle[k]
                                    /\ there = (b[Mounted[k]] # None)
                                    /\ then = (b2[Mounted[k]] # None)
      OBVIOUS
    <2>4. there => then BY <1>3, <2>2, <2>3
    <2>5. ViewOk(r, then, v, hk) BY <1>2, <1>3, <2>1, <2>3, <2>4, ViewStays
    <2> QED BY <2>3, <2>5
  <1> QED BY <1>1, <1>4 DEF ViewsOk, mountVars

LEMMA ShellKeepsViews ==
  ASSUME ViewsOk, NEW i \in Procs, \/ \E tree \in WorkTrees : Commit(i, tree)
                                   \/ Finish(i) \/ CrashCommand(i) \/ WriteRef(i),
         UNCHANGED mountVars
  PROVE  ViewsOk'
  <1>0. RefsOk BY DEF ViewsOk
  <1>1. ASSUME NEW tree \in WorkTrees, Commit(i, tree) PROVE RefsOk' /\ Kept
    BY <1>0, <1>1, MountAssumption, CommitGrows
  <1>2. ASSUME Finish(i) \/ CrashCommand(i) PROVE RefsOk' /\ Kept
    BY <1>0, <1>2, CommandEnds DEF Finish, CrashCommand
  <1>3. ASSUME WriteRef(i) PROVE RefsOk' /\ Kept BY <1>0, <1>3, RefKept
  <1> QED BY <1>1, <1>2, <1>3, ViewsRest

----------------------------------------------------------------------------
(* The steps of a handle, of a callback and of a mount.                    *)

\* The view of a mount in whose handles nothing is staged.
LEMMA ReadyView ==
  ASSUME ViewsOk, NEW m \in Mounts, Ready(m)
  PROVE  /\ IsView(mount[m]) /\ mount[m].up /\ mount[m].files = << >>
         /\ mount[m].base \in 0..Len(snaps) /\ TreeOk(Base(m))
         /\ mount[m].dirs \in Seq(Names) /\ mount[m].call = NoCallback
         /\ op[m] = Idle /\ handle[m] \in [Handles -> Opens]
         /\ branch[Mounted[m]] # None
  <1>1. ViewOk(Len(snaps), branch[Mounted[m]] # None, mount[m], handle[m]) BY DEF ViewsOk
  <1>2. /\ IsView(mount[m]) /\ mount[m].up /\ mount[m].files = << >>
        /\ mount[m].base \in 0..Len(snaps)
        /\ mount[m].dirs \in Seq(Names) /\ mount[m].call = NoCallback
        /\ branch[Mounted[m]] # None
    BY <1>1 DEF ViewOk, Ready
  <1>3. TreeOk(Tree(mount[m].base)) BY <1>2, TreeOfHead DEF ViewsOk, RefsOk
  <1> QED BY <1>2, <1>3 DEF Ready, Free, ViewsOk, Base

\* A handle that is opened, changed or closed.
HandleMoved(m, h, y) ==
  /\ Ready(m) /\ y \in Opens /\ handle' = [handle EXCEPT ![m][h] = y]
  /\ UNCHANGED <<repoVars, mount>> /\ writes' \in Nat
  /\ \/ /\ Alone(m, h) /\ y.open /\ (y.writable => ~y.dir)
        /\ ~y.dir => y.opened = Content(Base(m), y.path)
     \/ /\ handle[m][h].open /\ y.path = handle[m][h].path /\ y.dir = handle[m][h].dir
        /\ y.writable = handle[m][h].writable /\ y.opened = handle[m][h].opened
     \/ ~y.open /\ ~y.writable

LEMMA HandleOpens ==
  ASSUME ViewsOk, NEW m \in Mounts, NEW h \in Handles, NEW p \in Names, NEW w \in BOOLEAN,
         \/ OpenFile(m, h, p, w) \/ CreateFile(m, h, p, w) \/ OpenDirectory(m, h, p)
  PROVE  \E y : HandleMoved(m, h, y)
  <1>0. Ready(m) BY DEF OpenFile, CreateFile, OpenDirectory
  <1>1. mount[m].files = << >> /\ TreeOk(Base(m)) BY <1>0, ReadyView
  <1>2. writes \in Nat /\ handle \in [Mounts -> [Handles -> Opens]] BY DEF ViewsOk
  <1>3. PICK t : t = Base(m) OBVIOUS
  <1>4. p \notin DOMAIN mount[m].files BY <1>1
  <1>5. CASE OpenFile(m, h, p, w)
    <2>1. p # << >> /\ p \in DOMAIN t /\ ViewFile(m, p) = t[p]
      BY <1>3, <1>4, <1>5 DEF OpenFile, ViewKind, ViewFile, Kind
    <2>2. PICK x : x = t[p] OBVIOUS
    <2>3. x \in Nat /\ x = Content(t, p) BY <1>1, <1>3, <2>1, <2>2 DEF TreeOk, Content
    <2>4. PICK y : y = [Closed EXCEPT !.open = TRUE, !.path = p, !.writable = w, !.opened = x]
      OBVIOUS
    <2>5. y \in Opens /\ y.open /\ y.path = p /\ y.opened = x /\ ~y.dir
      <3>1. FileOpened(y, p, w, x) BY <2>4 DEF FileOpened
      <3> QED BY <2>3, <3>1, OpenedFile
    <2>6. handle' = [handle EXCEPT ![m][h] = y]
      BY <1>5, <2>1, <2>2, <2>4 DEF OpenFile
    <2>7. HandleMoved(m, h, y)
      BY <1>0, <1>2, <1>3, <1>5, <2>3, <2>5, <2>6 DEF HandleMoved, OpenFile
    <2> QED BY <2>7
  <1>6. CASE CreateFile(m, h, p, w)
    <2>1. p \notin DOMAIN t BY <1>3, <1>4, <1>6 DEF CreateFile, ViewKind, Kind
    <2>2. PICK x : x = writes + 1 OBVIOUS
    <2>3. x \in Nat /\ Content(t, p) = 0 /\ writes' = x
      BY <1>2, <1>6, <2>1, <2>2 DEF Content, CreateFile
    <2>4. PICK y : y = [Closed EXCEPT !.open = TRUE, !.path = p, !.writable = w, !.pending = x]
      OBVIOUS
    <2>5. y \in Opens /\ y.open /\ y.path = p /\ y.opened = 0 /\ ~y.dir
      <3>1. FileCreated(y, p, w, x) BY <2>4 DEF FileCreated
      <3> QED BY <2>3, <3>1, CreatedFile
    <2>6. handle' = [handle EXCEPT ![m][h] = y] BY <1>6, <2>3, <2>4 DEF CreateFile
    <2>7. HandleMoved(m, h, y)
      BY <1>0, <1>3, <1>6, <2>3, <2>5, <2>6 DEF HandleMoved, CreateFile
    <2> QED BY <2>7
  <1>7. CASE OpenDirectory(m, h, p)
    <2>1. PICK y : y = [Closed EXCEPT !.open = TRUE, !.path = p, !.dir = TRUE] OBVIOUS
    <2>2. y \in Opens /\ y.open /\ y.dir /\ ~y.writable BY <2>1, OpenedDirectory
    <2>3. HandleMoved(m, h, y) BY <1>0, <1>2, <1>7, <2>1, <2>2 DEF HandleMoved, OpenDirectory
    <2> QED BY <2>3
  <1> QED BY <1>5, <1>6, <1>7

LEMMA HandleChanges ==
  ASSUME ViewsOk, NEW m \in Mounts, NEW h \in Handles,
         Write(m, h) \/ FlushFails(m, h) \/ Close(m, h)
  PROVE  \E y : HandleMoved(m, h, y)
  <1>0. Ready(m) /\ handle[m][h].open BY DEF Write, FlushFails, Close, Dirty
  <1>1. writes \in Nat /\ handle \in [Mounts -> [Handles -> Opens]] BY DEF ViewsOk
  <1>2. PICK o : o = handle[m][h] OBVIOUS
  <1>3. o \in Opens BY <1>1, <1>2
  <1>4. ASSUME NEW x \in Nat, handle' = [handle EXCEPT ![m][h].pending = x],
               UNCHANGED <<repoVars, mount>>, writes' \in Nat
        PROVE  \E y : HandleMoved(m, h, y)
    <2>1. PICK y : y = [o EXCEPT !.pending = x] OBVIOUS
    <2>2. /\ y \in Opens /\ y.path = o.path /\ y.dir = o.dir /\ y.writable = o.writable
          /\ y.opened = o.opened
      BY <1>3, <2>1 DEF Opens
    <2>3. handle' = [handle EXCEPT ![m][h] = y] BY <1>1, <1>2, <1>4, <2>1
    <2>4. HandleMoved(m, h, y) BY <1>0, <1>2, <1>4, <2>2, <2>3 DEF HandleMoved
    <2> QED BY <2>4
  <1>5. CASE Write(m, h)
    <2>1. PICK x : x = writes' OBVIOUS
    <2>2. handle' = [handle EXCEPT ![m][h].pending = x] BY <1>5, <2>1 DEF Write
    <2>3. UNCHANGED <<repoVars, mount>> /\ writes' \in Nat BY <1>1, <1>5 DEF Write
    <2>4. x \in Nat BY <2>1, <2>3
    <2> QED BY <1>4, <2>2, <2>3, <2>4
  <1>6. CASE FlushFails(m, h)
    <2>1. PICK x : x = IF Stageable(m, handle[m][h].path) THEN o.pending ELSE 0 OBVIOUS
    <2>2. x \in Nat BY <1>3, <2>1 DEF Opens
    <2>3. handle' = [handle EXCEPT ![m][h].pending = x] BY <1>1, <1>2, <1>6, <2>1 DEF FlushFails
    <2> QED BY <1>1, <1>4, <1>6, <2>2, <2>3 DEF FlushFails
  <1>7. CASE Close(m, h)
    <2>1. PICK y : y = Closed OBVIOUS
    <2>2. HandleMoved(m, h, y)
      BY <1>0, <1>1, <1>7, <2>1, HandlesAre DEF HandleMoved, Close
    <2> QED BY <2>2
  <1> QED BY <1>5, <1>6, <1>7

LEMMA HandleMovedKeepsViews ==
  ASSUME ViewsOk, NEW m \in Mounts, NEW h \in Handles, NEW y, HandleMoved(m, h, y)
  PROVE  /\ ViewsOk' /\ mount' = mount /\ snaps' = snaps /\ op' = op /\ branch' = branch
         /\ handle'[m][h] = y /\ \A k \in Handles \ {h} : handle'[m][k] = handle[m][k]
         /\ \A k \in Mounts \ {m} : handle'[k] = handle[k]
  <1>1. Ready(m) /\ y \in Opens BY DEF HandleMoved
  <1>2. handle \in [Mounts -> [Handles -> Opens]] BY DEF ViewsOk
  <1>3. PICK hs : hs = [handle[m] EXCEPT ![h] = y] OBVIOUS
  <1>4. /\ hs \in [Handles -> Opens] /\ hs[h] = y
        /\ \A k \in Handles \ {h} : hs[k] = handle[m][k]
    BY <1>1, <1>2, <1>3
  <1>5. handle' = [handle EXCEPT ![m] = hs] BY <1>2, <1>3 DEF HandleMoved
  <1>6. RefsOk' /\ Kept BY SameRefs DEF HandleMoved, ViewsOk
  <1>7. PICK u : u = mount[m] OBVIOUS
  <1>8. mount' = [mount EXCEPT ![m] = u]
    <2>1. mount = [k \in Mounts |-> mount[k]] /\ mount' = mount BY DEF ViewsOk, HandleMoved
    <2> QED BY <1>7, <2>1
  <1>9. ViewOk(Len(snaps'), branch'[Mounted[m]] # None, u, hs)
    <2>1. ViewOk(Len(snaps), branch[Mounted[m]] # None, mount[m], handle[m]) BY DEF ViewsOk
    <2>2. snaps' = snaps /\ branch' = branch BY DEF HandleMoved, repoVars
    <2>3. mount[m].up BY <1>1 DEF Ready
    <2> QED BY <1>7, <2>1, <2>2, <2>3 DEF ViewOk
  <1>10. /\ ViewsOk' /\ handle'[m] = hs
         /\ \A k \in Mounts \ {m} : handle'[k] = handle[k]
    <2>1. hs \in [Handles -> Opens] /\ writes' \in Nat BY <1>4 DEF HandleMoved
    <2> QED BY <1>5, <1>6, <1>8, <1>9, <2>1, ViewsMove
  <1> QED BY <1>4, <1>10 DEF HandleMoved, repoVars

\* What a callback c commits on top of the staged directories.
Does(m, c, cs) ==
  LET file == handle[m][c.h]
      Adds(kind, to, id) == OneMore(cs, mount[m].dirs, Change(kind, file.path, to, id))
  IN \/ c.kind = "mkdir" /\ (OneHandle => \A h \in Handles : ~handle[m][h].open)
     \/ c.kind \in {"flush", "close"} /\ Dirty(m, c.h) /\ Adds("upsert", file.path, file.pending)
     \/ c.kind = "delete" /\ file.open /\ Adds(IF file.dir THEN "rmdir" ELSE "rm", file.path, 0)
     \/ c.kind = "rename" /\ file.open /\ Adds("rename", c.to, 0)

Called(m, u, c, cs) ==
  /\ Ready(m) /\ mount' = [mount EXCEPT ![m] = u] /\ UNCHANGED <<handle, writes>>
  /\ IsView(u) /\ u.up /\ u.base = mount[m].base /\ u.dirs \in Seq(Names)
  /\ u.call = c /\ c \in Calls /\ c # NoCallback
  /\ Len(cs) \in Nat /\ \A k \in 1..Len(cs) : EditOk(cs[k])
  /\ WriteOverlay(m, Mounted[m], mount[m].base, cs)
  /\ Does(m, c, cs)

LEMMA StageBegins ==
  ASSUME ViewsOk, NEW m \in Mounts, NEW h \in Handles, NEW kind \in {"flush", "close"},
         Ready(m), Dirty(m, h), Stage(m, h, kind), UNCHANGED <<handle, writes>>
  PROVE  \E u, c, cs : Called(m, u, c, cs)
  <1>1. /\ IsView(mount[m]) /\ mount[m].up /\ mount[m].files = << >> /\ mount[m].dirs \in Seq(Names)
        /\ handle[m] \in [Handles -> Opens]
    BY ReadyView
  <1>2. PICK v, p, x, c : /\ v = mount[m] /\ p = handle[m][h].path /\ x = handle[m][h].pending
                          /\ c = [kind |-> kind, h |-> h]
    OBVIOUS
  <1>3. p \in Names /\ x \in Nat BY <1>1, <1>2 DEF Opens
  <1>4. c \in Calls /\ c.kind = kind /\ c.h = h BY <1>2, CallsAre
  <1>5. PICK files, cs, u : /\ files = Put(<< >>, p, x) /\ cs = Changes(m, files, << >>)
                            /\ u = [v EXCEPT !.files = files, !.call = c]
    OBVIOUS
  <1>6. ViewIs(u, v.up, v.base, v.dirs, files, c) BY <1>1, <1>2, <1>5, ViewsAre
  <1>7. OneMore(cs, v.dirs, Change("upsert", p, p, x)) BY <1>1, <1>2, <1>3, <1>5, ChangesAre
  <1>8. Len(cs) \in Nat /\ \A k \in 1..Len(cs) : EditOk(cs[k])
    BY <1>1, <1>2, <1>7, LenProperties DEF OneMore
  <1>9. /\ WriteOverlay(m, Mounted[m], mount[m].base, cs) /\ mount' = [mount EXCEPT ![m] = u]
    BY <1>1, <1>2, <1>5 DEF Stage, Writeback
  <1>10. Does(m, c, cs) BY <1>2, <1>4, <1>7 DEF Does
  <1>11. c # NoCallback BY <1>4, CallsAre
  <1>12. Called(m, u, c, cs)
    BY <1>1, <1>2, <1>4, <1>6, <1>8, <1>9, <1>10, <1>11 DEF Called, ViewIs
  <1> QED BY <1>12

LEMMA DeleteBegins ==
  ASSUME ViewsOk, NEW m \in Mounts, NEW h \in Handles, Delete(m, h)
  PROVE  \E u, c, cs : Called(m, u, c, cs)
  <1>0. Ready(m) BY DEF Delete
  <1>1. /\ IsView(mount[m]) /\ mount[m].up /\ mount[m].files = << >> /\ mount[m].dirs \in Seq(Names)
        /\ handle[m] \in [Handles -> Opens]
    BY <1>0, ReadyView
  <1>2. PICK v, p, k, c : /\ v = mount[m] /\ p = handle[m][h].path
                          /\ k = (IF handle[m][h].dir THEN "rmdir" ELSE "rm")
                          /\ c = [kind |-> "delete", h |-> h]
    OBVIOUS
  <1>3. p \in Names /\ k \in {"rm", "rmdir"} BY <1>1, <1>2 DEF Opens
  <1>4. c \in Calls /\ c.kind = "delete" /\ c.h = h BY <1>2, CallsAre
  <1>5. PICK ch, cs, u : /\ ch = Change(k, p, p, 0) /\ cs = Changes(m, << >>, <<ch>>)
                         /\ u = [v EXCEPT !.call = c]
    OBVIOUS
  <1>6. ViewIs(u, v.up, v.base, v.dirs, v.files, c) BY <1>1, <1>2, <1>5, ViewsAre
  <1>7. OneMore(cs, v.dirs, ch)
    <2>1. EditOk(ch) BY <1>3, <1>5, ChangeIsEdit
    <2> QED BY <1>1, <1>2, <1>5, <2>1, ChangesAre
  <1>8. Len(cs) \in Nat /\ \A j \in 1..Len(cs) : EditOk(cs[j])
    BY <1>1, <1>2, <1>7, LenProperties DEF OneMore
  <1>9. WriteOverlay(m, Mounted[m], mount[m].base, cs) /\ mount' = [mount EXCEPT ![m] = u]
    BY <1>1, <1>2, <1>5 DEF Delete, Writeback
  <1>10. Does(m, c, cs) BY <1>2, <1>4, <1>5, <1>7 DEF Does, Delete
  <1>11. c # NoCallback BY <1>4, CallsAre
  <1>12. Called(m, u, c, cs)
    BY <1>0, <1>1, <1>2, <1>4, <1>6, <1>8, <1>9, <1>10, <1>11 DEF Called, ViewIs, Delete
  <1> QED BY <1>12

LEMMA RenameBegins ==
  ASSUME ViewsOk, NEW m \in Mounts, NEW h \in Handles, NEW to, Rename(m, h, to)
  PROVE  \E u, c, cs : Called(m, u, c, cs)
  <1>0. Ready(m) BY DEF Rename
  <1>1. /\ IsView(mount[m]) /\ mount[m].up /\ mount[m].files = << >> /\ mount[m].dirs \in Seq(Names)
        /\ handle[m] \in [Handles -> Opens]
    BY <1>0, ReadyView
  <1>2. PICK v, p, c : /\ v = mount[m] /\ p = handle[m][h].path
                       /\ c = [kind |-> "rename", h |-> h, to |-> to]
    OBVIOUS
  <1>3. p \in Names /\ to \in Names /\ p # << >> /\ to # << >>
    <2>1. PICK r \in Renames : r = <<p, to>> BY <1>2 DEF Rename
    <2> QED BY <2>1, PathsAreNames
  <1>4. c \in Calls /\ c.kind = "rename" /\ c.h = h /\ c.to = to BY <1>2, <1>3, CallsAre
  <1>5. PICK ch, cs, u : /\ ch = Change("rename", p, to, 0) /\ cs = Changes(m, << >>, <<ch>>)
                         /\ u = [v EXCEPT !.call = c]
    OBVIOUS
  <1>6. ViewIs(u, v.up, v.base, v.dirs, v.files, c) BY <1>1, <1>2, <1>5, ViewsAre
  <1>7. OneMore(cs, v.dirs, ch)
    <2>1. EditOk(ch) BY <1>3, <1>5, ChangeIsEdit
    <2> QED BY <1>1, <1>2, <1>5, <2>1, ChangesAre
  <1>8. Len(cs) \in Nat /\ \A j \in 1..Len(cs) : EditOk(cs[j])
    BY <1>1, <1>2, <1>7, LenProperties DEF OneMore
  <1>9. WriteOverlay(m, Mounted[m], mount[m].base, cs) /\ mount' = [mount EXCEPT ![m] = u]
    BY <1>1, <1>2, <1>5 DEF Rename, Writeback
  <1>10. Does(m, c, cs) BY <1>2, <1>4, <1>5, <1>7 DEF Does, Rename
  <1>11. c # NoCallback BY <1>4, CallsAre
  <1>12. Called(m, u, c, cs)
    BY <1>0, <1>1, <1>2, <1>4, <1>6, <1>8, <1>9, <1>10, <1>11 DEF Called, ViewIs, Rename
  <1> QED BY <1>12

LEMMA MkdirBegins ==
  ASSUME ViewsOk, NEW m \in Mounts, NEW p \in Names, Mkdir(m, p)
  PROVE  \E u, c, cs : Called(m, u, c, cs)
  <1>0. Ready(m) BY DEF Mkdir, MakesDirectory
  <1>1. IsView(mount[m]) /\ mount[m].up /\ mount[m].dirs \in Seq(Names)
    BY <1>0, ReadyView
  <1>2. PICK v, d, s, c : /\ v = mount[m] /\ d = Append(v.dirs, p) /\ s = [v EXCEPT !.dirs = d]
                          /\ c = [kind |-> "mkdir", h |-> 0]
    OBVIOUS
  <1>3. ViewIs(s, v.up, v.base, d, v.files, v.call) BY <1>1, <1>2, ViewsAre
  <1>4. c \in Calls /\ c.kind = "mkdir" BY <1>2, CallsAre
  <1>5. PICK u, cs : u = [s EXCEPT !.call = c] /\ cs = Mkdirs(s.dirs) OBVIOUS
  <1>6. ViewIs(u, s.up, s.base, s.dirs, s.files, c)
    <2>1. IsView(s) BY <1>3 DEF ViewIs
    <2> QED BY <1>5, <2>1, ViewsAre
  <1>7. s.dirs \in Seq(Names) BY <1>1, <1>2, <1>3, AppendProperties DEF ViewIs
  <1>8. Len(cs) \in Nat /\ \A j \in 1..Len(cs) : EditOk(cs[j])
    BY <1>5, <1>7, MkdirsAre, LenProperties
  <1>9. WriteOverlay(m, Mounted[m], mount[m].base, cs) /\ mount' = [mount EXCEPT ![m] = u]
    BY <1>2, <1>5 DEF Mkdir, Writeback, StagedDirectory, MkdirChanges
  <1>10. Does(m, c, cs) BY <1>4 DEF Does, Mkdir, MakesDirectory
  <1>11. c # NoCallback BY <1>4, CallsAre
  <1>12. Called(m, u, c, cs)
    BY <1>0, <1>1, <1>2, <1>3, <1>4, <1>6, <1>7, <1>8, <1>9, <1>10, <1>11 DEF Called, ViewIs, Mkdir
  <1> QED BY <1>12

LEMMA CalledKeepsViews ==
  ASSUME ViewsOk, NEW m \in Mounts, NEW u, NEW c, NEW cs, Called(m, u, c, cs)
  PROVE  /\ ViewsOk' /\ mount'[m] = u /\ handle' = handle
         /\ \A k \in Mounts \ {m} : mount'[k] = mount[k]
         /\ \E tree : Overwrites(m, Mounted[m], mount[m].base, cs, tree)
  <1>1. m \in Procs /\ Mounted[m] \in Tokens BY MountAssumption
  <1>2. Len(cs) \in Nat /\ \A k \in 1..Len(cs) : EditOk(cs[k]) BY DEF Called
  <1>3. PICK tree : Overwrites(m, Mounted[m], mount[m].base, cs, tree)
    BY <1>1, <1>2, OverlayWritten DEF Called, ViewsOk
  <1>4. RefsOk' /\ Kept BY <1>3 DEF Overwrites
  <1>5. PICK hs : hs = handle[m] OBVIOUS
  <1>6. hs \in [Handles -> Opens] /\ handle' = [handle EXCEPT ![m] = hs]
    BY <1>5 DEF Called, ViewsOk
  <1>7. mount' = [mount EXCEPT ![m] = u] /\ writes' \in Nat BY DEF Called, ViewsOk
  <1>8. ViewOk(Len(snaps'), branch'[Mounted[m]] # None, u, hs)
    <2>1. /\ mount[m].base \in 0..Len(snaps) /\ branch[Mounted[m]] # None
      BY ReadyView DEF Called
    <2>2. Len(snaps') = Len(snaps) + 1 /\ Len(snaps) \in Nat
      BY <1>3, LenOfTrees DEF Overwrites, ViewsOk, RefsOk
    <2>3. branch'[Mounted[m]] # None BY <1>1, <1>4, <2>1 DEF Kept
    <2>4. u.base \in 0..Len(snaps') BY <2>1, <2>2 DEF Called
    <2> QED BY <2>3, <2>4 DEF Called, ViewOk
  <1>9. /\ ViewsOk' /\ mount'[m] = u
        /\ \A k \in Mounts \ {m} : mount'[k] = mount[k]
    BY <1>4, <1>6, <1>7, <1>8, ViewsMove
  <1> QED BY <1>3, <1>9 DEF Called

\* A mount, or a directory that stays staged.
Rebased(m, u) ==
  /\ Free(m) /\ mount[m].call = NoCallback
  /\ mount' = [mount EXCEPT ![m] = u] /\ UNCHANGED <<repoVars, handle, writes>>
  /\ IsView(u) /\ u.up /\ u.call = NoCallback /\ u.files = << >> /\ u.dirs \in Seq(Names)
  /\ u.base \in 0..Len(snaps) /\ branch[Mounted[m]] # None
  /\ mount[m].up => u.base = mount[m].base

\* A branch that can be mounted has a branch file.
LEMMA HeadOfBranch ==
  ASSUME RefsOk, NEW t \in Tokens, ResolvedHead(t) # None
  PROVE  branch[t] # None /\ ResolvedHead(t) = branch[t] /\ branch[t] \in 0..Len(snaps)
  <1>1. /\ default.token = Main /\ branch[Main] # None /\ branch[t] \in -1..Len(snaps)
    BY DEF RefsOk, HeadsOk
  <1>2. Len(snaps) \in Nat BY LenOfTrees DEF RefsOk
  <1>3. branch[t] # None BY <1>1 DEF ResolvedHead
  <1> QED BY <1>1, <1>2, <1>3 DEF ResolvedHead, None

LEMMA MountBegins ==
  ASSUME ViewsOk, NEW m \in Mounts, Mount(m)
  PROVE  \E u : Rebased(m, u)
  <1>1. Mounted[m] \in Tokens /\ RefsOk BY MountAssumption DEF ViewsOk
  <1>2. ViewOk(Len(snaps), branch[Mounted[m]] # None, mount[m], handle[m]) BY DEF ViewsOk
  <1>3. ~mount[m].up /\ mount[m].call = NoCallback BY <1>2 DEF ViewOk, Mount
  <1>4. ResolvedHead(Mounted[m]) # None BY DEF Mount
  <1>5. PICK b : b = ResolvedHead(Mounted[m]) OBVIOUS
  <1>6. b \in 0..Len(snaps) /\ branch[Mounted[m]] # None BY <1>1, <1>4, <1>5, HeadOfBranch
  <1>7. PICK u : u = [Unmounted EXCEPT !.up = TRUE, !.base = b] OBVIOUS
  <1>8. ViewIs(u, TRUE, b, << >>, << >>, NoCallback) BY <1>7, FreshView
  <1>9. << >> \in Seq(Names) OBVIOUS
  <1>10. Rebased(m, u) BY <1>3, <1>5, <1>6, <1>7, <1>8, <1>9 DEF Rebased, ViewIs, Mount
  <1> QED BY <1>10

LEMMA StagedStays ==
  ASSUME ViewsOk, NEW m \in Mounts, NEW p \in Names, MkdirFails(m, p)
  PROVE  \E u : Rebased(m, u)
  <1>0. Ready(m) BY DEF MkdirFails, MakesDirectory
  <1>1. /\ IsView(mount[m]) /\ mount[m].up /\ mount[m].dirs \in Seq(Names)
        /\ mount[m].files = << >> /\ mount[m].base \in 0..Len(snaps)
        /\ mount[m].call = NoCallback /\ branch[Mounted[m]] # None
    BY <1>0, ReadyView
  <1>2. PICK v, d, u : v = mount[m] /\ d = Append(v.dirs, p) /\ u = [v EXCEPT !.dirs = d] OBVIOUS
  <1>3. ViewIs(u, v.up, v.base, d, v.files, v.call) BY <1>1, <1>2, ViewsAre
  <1>4. d \in Seq(Names) BY <1>1, <1>2, AppendProperties
  <1>5. mount' = [mount EXCEPT ![m] = u] /\ UNCHANGED <<repoVars, handle, writes>>
    BY <1>2 DEF MkdirFails, StagedDirectory
  <1>6. Rebased(m, u) BY <1>0, <1>1, <1>2, <1>3, <1>4, <1>5 DEF Rebased, ViewIs, Ready
  <1> QED BY <1>6

LEMMA RebasedKeepsViews ==
  ASSUME ViewsOk, NEW m \in Mounts, NEW u, Rebased(m, u)
  PROVE  /\ ViewsOk' /\ mount'[m] = u /\ handle' = handle
         /\ \A k \in Mounts \ {m} : mount'[k] = mount[k]
         /\ snaps' = snaps /\ branch' = branch /\ op' = op
  <1>1. RefsOk' /\ Kept BY SameRefs DEF Rebased, ViewsOk
  <1>2. PICK hs : hs = handle[m] OBVIOUS
  <1>3. hs \in [Handles -> Opens] /\ handle' = [handle EXCEPT ![m] = hs]
    BY <1>2 DEF Rebased, ViewsOk
  <1>4. mount' = [mount EXCEPT ![m] = u] /\ writes' \in Nat BY DEF Rebased, ViewsOk
  <1>5. snaps' = snaps /\ branch' = branch /\ op' = op BY DEF Rebased, repoVars
  <1>6. ViewOk(Len(snaps'), branch'[Mounted[m]] # None, u, hs)
    BY <1>5, CallsAre DEF Rebased, ViewOk
  <1>7. /\ ViewsOk' /\ mount'[m] = u
        /\ \A k \in Mounts \ {m} : mount'[k] = mount[k]
    BY <1>1, <1>3, <1>4, <1>6, ViewsMove
  <1> QED BY <1>5, <1>7 DEF Rebased

\* The file of a handle o when its callback c returned over a tree.
Returned(o, c, tree, y) ==
  /\ y \in Opens /\ y.dir = o.dir /\ y.open = o.open /\ y.writable = o.writable
  /\ y.path = IF c.kind = "rename" THEN c.to ELSE o.path
  /\ y.opened = CASE c.kind = "flush"  -> Content(tree, o.path)
                  [] c.kind = "delete" -> 0
                  [] c.kind = "rename" -> o.opened

LEMMA AfterIs ==
  ASSUME NEW m, NEW h, NEW c \in Calls, NEW tree, TreeOk(tree), NEW o \in Opens,
         o = handle[m][h], NEW y, y = After(m, h, c, tree)
  PROVE  /\ c.kind = "close" => y = Closed
         /\ c.kind \in {"flush", "delete", "rename"} => Returned(o, c, tree, y)
  <1>0. o \in Opens OBVIOUS
  <1>1. ASSUME c.kind = "close" PROVE y = Closed BY <1>1 DEF After
  <1>2. ASSUME c.kind = "flush" PROVE Returned(o, c, tree, y)
    <2>1. PICK x : x = Content(tree, o.path) OBVIOUS
    <2>2. x \in Nat BY <2>1 DEF Content, TreeOk
    <2>3. y = [o EXCEPT !.pending = 0, !.opened = x] BY <1>2, <2>1 DEF After, Content
    <2>4. /\ y \in Opens /\ y.path = o.path /\ y.dir = o.dir /\ y.open = o.open
          /\ y.writable = o.writable /\ y.opened = x
      BY ONLY <1>0, <2>2, <2>3 DEF Opens
    <2> QED BY <1>2, <2>1, <2>4 DEF Returned
  <1>3. ASSUME c.kind = "delete" PROVE Returned(o, c, tree, y)
    <2>1. y = [o EXCEPT !.opened = 0, !.pending = 0] BY <1>3 DEF After
    <2>2. /\ y \in Opens /\ y.path = o.path /\ y.dir = o.dir /\ y.open = o.open
          /\ y.writable = o.writable /\ y.opened = 0
      BY ONLY <1>0, <2>1 DEF Opens
    <2> QED BY <1>3, <2>2 DEF Returned
  <1>4. ASSUME c.kind = "rename" PROVE Returned(o, c, tree, y)
    <2>1. PICK p : p = c.to OBVIOUS
    <2>2. p \in Names BY <1>4, <2>1, CallsAre
    <2>3. y = [o EXCEPT !.path = p, !.pending = 0] BY <1>4, <2>1 DEF After
    <2>4. /\ y \in Opens /\ y.path = p /\ y.dir = o.dir /\ y.open = o.open
          /\ y.writable = o.writable /\ y.opened = o.opened
      BY ONLY <1>0, <2>2, <2>3 DEF Opens
    <2> QED BY <1>4, <2>1, <2>4 DEF Returned
  <1> QED BY <1>1, <1>2, <1>3, <1>4

\* The end of a callback: the view is at the branch's file.
Done(m, u, hs) ==
  LET c == mount[m].call
      b == branch[Mounted[m]]
  IN /\ c # NoCallback /\ Finish(m) /\ b # None /\ b \in 0..Len(snaps)
     /\ mount' = [mount EXCEPT ![m] = u] /\ ViewIs(u, TRUE, b, << >>, << >>, NoCallback)
     /\ handle' = [handle EXCEPT ![m] = hs] /\ hs \in [Handles -> Opens] /\ writes' = writes
     /\ \/ c.kind = "mkdir" /\ hs = handle[m]
        \/ /\ c.kind \in {"flush", "close", "delete", "rename"} /\ c.h \in Handles
           /\ \A k \in Handles \ {c.h} : hs[k] = handle[m][k]
           /\ IF c.kind = "close" THEN hs[c.h] = Closed
              ELSE Returned(handle[m][c.h], c, Tree(b), hs[c.h])

LEMMA CallbackReturns ==
  ASSUME ViewsOk, NEW m \in Mounts, CallbackDone(m)
  PROVE  \E u, hs : Done(m, u, hs)
  <1>1. Mounted[m] \in Tokens /\ RefsOk BY MountAssumption DEF ViewsOk
  <1>2. ViewOk(Len(snaps), branch[Mounted[m]] # None, mount[m], handle[m]) BY DEF ViewsOk
  <1>3. PICK c, b : c = mount[m].call /\ b = branch[Mounted[m]] OBVIOUS
  <1>4. c \in Calls /\ c # NoCallback /\ Finish(m) BY <1>2, <1>3 DEF ViewOk, CallbackDone
  <1>5. b # None BY <1>2, <1>3, <1>4 DEF ViewOk
  <1>6. ResolvedHead(Mounted[m]) = b BY <1>3, <1>5 DEF ResolvedHead
  <1>7. b \in 0..Len(snaps)
    <2>1. b \in -1..Len(snaps) /\ Len(snaps) \in Nat
      BY <1>1, <1>3, LenOfTrees DEF RefsOk, HeadsOk
    <2> QED BY <1>5, <2>1 DEF None
  <1>8. PICK u : u = [Unmounted EXCEPT !.up = TRUE, !.base = b] OBVIOUS
  <1>9. mount' = [mount EXCEPT ![m] = u] BY <1>6, <1>8 DEF CallbackDone, NextBase
  <1>10. ViewIs(u, TRUE, b, << >>, << >>, NoCallback) BY <1>8, FreshView
  <1>11. handle \in [Mounts -> [Handles -> Opens]] BY DEF ViewsOk
  <1>12. CASE c.kind = "mkdir"
    <2>1. PICK hs : hs = handle[m] OBVIOUS
    <2>2. hs \in [Handles -> Opens] /\ handle' = [handle EXCEPT ![m] = hs]
      BY <1>3, <1>11, <1>12, <2>1 DEF CallbackDone
    <2>3. Done(m, u, hs)
      BY <1>3, <1>4, <1>5, <1>7, <1>9, <1>10, <1>12, <2>1, <2>2 DEF Done, CallbackDone
    <2> QED BY <2>3
  <1>13. CASE c.kind \in {"flush", "close", "delete", "rename"}
    <2>1. c.h \in Handles BY <1>4, <1>13, CallsAre
    <2>2. PICK tree, o : tree = Tree(b) /\ o = handle[m][c.h] OBVIOUS
    <2>3. TreeOk(tree)
      <3>1. TreeOk(Tree(b)) BY <1>1, <1>7, TreeOfHead DEF RefsOk
      <3> QED BY <2>2, <3>1
    <2>4. o \in Opens BY <1>11, <2>1, <2>2
    <2>5. PICK y : y = After(m, c.h, c, tree) OBVIOUS
    <2>6. /\ c.kind = "close" => y = Closed
          /\ c.kind \in {"flush", "delete", "rename"} => Returned(o, c, tree, y)
      BY <1>4, <2>2, <2>3, <2>4, <2>5, AfterIs
    <2>7. y \in Opens BY <1>13, <2>6, HandlesAre DEF Returned
    <2>8. PICK hs : hs = [handle[m] EXCEPT ![c.h] = y] OBVIOUS
    <2>9. /\ hs \in [Handles -> Opens] /\ hs[c.h] = y
          /\ \A k \in Handles \ {c.h} : hs[k] = handle[m][k]
      BY <1>11, <2>1, <2>7, <2>8
    <2>10. handle' = [handle EXCEPT ![m] = hs]
      <3>1. c.kind # "mkdir" BY <1>13
      <3>2. handle' = [handle EXCEPT ![m][c.h] = After(m, c.h, c, Tree(b))]
        BY <1>3, <1>6, <3>1 DEF CallbackDone, NextBase
      <3>3. handle' = [handle EXCEPT ![m][c.h] = y] BY <2>2, <2>5, <3>2
      <3> QED BY <1>11, <2>8, <3>3
    <2>11. IF c.kind = "close" THEN hs[c.h] = Closed ELSE Returned(o, c, tree, hs[c.h])
      BY <1>13, <2>6, <2>9
    <2>12. writes' = writes BY DEF CallbackDone
    <2>13. Done(m, u, hs)
      BY <1>3, <1>4, <1>5, <1>7, <1>9, <1>10, <1>13, <2>1, <2>2, <2>9, <2>10, <2>11, <2>12 DEF Done
    <2> QED BY <2>13
  <1> QED BY <1>4, <1>12, <1>13, CallsAre

LEMMA DoneKeepsViews ==
  ASSUME ViewsOk, NEW m \in Mounts, NEW u, NEW hs, Done(m, u, hs)
  PROVE  /\ ViewsOk' /\ mount'[m] = u /\ handle'[m] = hs
         /\ \A k \in Mounts \ {m} : mount'[k] = mount[k] /\ handle'[k] = handle[k]
         /\ snaps' = snaps /\ branch' = branch
         /\ op'[m] = Idle /\ \A j \in Procs \ {m} : op'[j] = op[j]
  <1>1. m \in Procs BY MountAssumption
  <1>2. /\ op' = [op EXCEPT ![m] = Idle]
        /\ snaps' = snaps /\ branch' = branch /\ default' = default
    BY DEF Done, Finish
  <1>3. RefsOk' /\ Kept BY <1>1, <1>2, CommandEnds DEF ViewsOk
  <1>4. /\ hs \in [Handles -> Opens] /\ handle' = [handle EXCEPT ![m] = hs]
        /\ mount' = [mount EXCEPT ![m] = u] /\ writes' \in Nat
    BY DEF Done, ViewsOk
  <1>5. ViewOk(Len(snaps'), branch'[Mounted[m]] # None, u, hs)
    <2>1. << >> \in Seq(Names) OBVIOUS
    <2>2. NoCallback \in Calls BY CallsAre
    <2>3. PICK b, c : b = branch[Mounted[m]] /\ c = NoCallback OBVIOUS
    <2>4. IsView(u) /\ u.up = TRUE /\ u.base = b /\ u.dirs = << >> /\ u.files = << >> /\ u.call = c
      BY <2>3 DEF Done, ViewIs
    <2>5. b \in 0..Len(snaps) /\ b # None BY <2>3 DEF Done
    <2> QED BY <1>2, <2>1, <2>2, <2>3, <2>4, <2>5 DEF ViewOk
  <1>6. /\ ViewsOk' /\ mount'[m] = u /\ handle'[m] = hs
        /\ \A k \in Mounts \ {m} : mount'[k] = mount[k] /\ handle'[k] = handle[k]
    BY <1>3, <1>4, <1>5, ViewsMove
  <1>7. op \in [Procs -> Commands] BY DEF ViewsOk, RefsOk
  <1> QED BY <1>1, <1>2, <1>6, <1>7

LEMMA UnmountKeepsViews ==
  ASSUME ViewsOk, NEW m \in Mounts, Unmount(m)
  PROVE  /\ ViewsOk' /\ mount'[m] = Unmounted /\ handle'[m] = [h \in Handles |-> Closed]
         /\ \A k \in Mounts \ {m} : mount'[k] = mount[k] /\ handle'[k] = handle[k]
         /\ snaps' = snaps /\ branch' = branch
         /\ op'[m] = Idle /\ \A j \in Procs \ {m} : op'[j] = op[j]
  <1>1. m \in Procs BY MountAssumption
  <1>2. /\ op' = [op EXCEPT ![m] = Idle]
        /\ snaps' = snaps /\ branch' = branch /\ default' = default
    BY DEF Unmount
  <1>3. RefsOk' /\ Kept BY <1>1, <1>2, CommandEnds DEF ViewsOk
  <1>4. PICK u, hs : u = Unmounted /\ hs = [h \in Handles |-> Closed] OBVIOUS
  <1>5. /\ hs \in [Handles -> Opens] /\ handle' = [handle EXCEPT ![m] = hs]
        /\ mount' = [mount EXCEPT ![m] = u] /\ writes' \in Nat
        /\ \A h \in Handles : ~hs[h].open
    BY <1>4, HandlesAre DEF Unmount, ViewsOk
  <1>6. ViewOk(Len(snaps'), branch'[Mounted[m]] # None, u, hs)
    <2>1. Len(snaps') \in Nat BY <1>2, LenOfTrees DEF ViewsOk, RefsOk
    <2>2. << >> \in Seq(Names) OBVIOUS
    <2>3. PICK c : c = NoCallback /\ c \in Calls BY CallsAre
    <2>4. IsView(u) /\ u.up = FALSE /\ u.base = 0 /\ u.dirs = << >> /\ u.files = << >> /\ u.call = c
      BY <1>4, <2>3, NoView, Zenon DEF Unmounted
    <2>5. 0 \in 0..Len(snaps') BY <2>1
    <2> QED BY <1>5, <2>2, <2>3, <2>4, <2>5 DEF ViewOk
  <1>7. /\ ViewsOk' /\ mount'[m] = u /\ handle'[m] = hs
        /\ \A k \in Mounts \ {m} : mount'[k] = mount[k] /\ handle'[k] = handle[k]
    BY <1>3, <1>5, <1>6, ViewsMove
  <1>8. op \in [Procs -> Commands] BY DEF ViewsOk, RefsOk
  <1> QED BY <1>1, <1>2, <1>4, <1>7, <1>8

----------------------------------------------------------------------------
(* Well-formed trees, with any overlap of commands.                        *)

MountStep(m) ==
  \/ \E h \in Handles : \E y : HandleMoved(m, h, y)
  \/ \E u, c, cs : Called(m, u, c, cs)
  \/ \E u : Rebased(m, u)
  \/ \E u, hs : Done(m, u, hs)
  \/ Unmount(m)

LEMMA StepsAre ==
  ASSUME ViewsOk, Next
  PROVE  \/ \E i \in Shells : Shell(i)
         \/ WriteRefFile
         \/ \E m \in Mounts : MountStep(m)
  <1>1. ASSUME NEW m \in Mounts, NEW h \in Handles, HandleCall(m, h) PROVE MountStep(m)
    <2>1. ASSUME NEW p \in Paths, NEW w \in BOOLEAN, OpenFile(m, h, p, w) \/ CreateFile(m, h, p, w)
          PROVE  MountStep(m)
      <3>1. p \in Names BY PathsAreNames
      <3> QED BY <2>1, <3>1, HandleOpens DEF MountStep
    <2>2. ASSUME NEW p \in Paths \cup {<< >>}, OpenDirectory(m, h, p) PROVE MountStep(m)
      <3>1. p \in Names BY PathsAreNames
      <3>2. TRUE \in BOOLEAN OBVIOUS
      <3> QED BY <2>2, <3>1, <3>2, HandleOpens DEF MountStep
    <2>3. ASSUME Write(m, h) \/ FlushFails(m, h) \/ Close(m, h) PROVE MountStep(m)
      BY <2>3, HandleChanges DEF MountStep
    <2>4. ASSUME Flush(m, h) PROVE MountStep(m)
      BY <2>4, StageBegins DEF MountStep, Flush
    <2>5. ASSUME CloseDirty(m, h) PROVE MountStep(m)
      BY <2>5, StageBegins DEF MountStep, CloseDirty
    <2>6. ASSUME Delete(m, h) PROVE MountStep(m) BY <2>6, DeleteBegins DEF MountStep
    <2>7. ASSUME NEW r \in Renames, Rename(m, h, r[2]) PROVE MountStep(m)
      BY <2>7, RenameBegins DEF MountStep
    <2> QED BY <1>1, <2>1, <2>2, <2>3, <2>4, <2>5, <2>6, <2>7 DEF HandleCall
  <1>2. ASSUME NEW m \in Mounts, NEW p \in Paths, Mkdir(m, p) \/ MkdirFails(m, p) PROVE MountStep(m)
    <2>1. p \in Names BY PathsAreNames
    <2> QED BY <1>2, <2>1, MkdirBegins, StagedStays DEF MountStep
  <1>3. ASSUME NEW m \in Mounts, Mount(m) \/ CallbackDone(m) \/ Unmount(m) PROVE MountStep(m)
    BY <1>3, MountBegins, CallbackReturns DEF MountStep
  <1> QED BY <1>1, <1>2, <1>3 DEF Next

LEMMA ViewsInit == Init => ViewsOk
  <1> SUFFICES ASSUME Init PROVE ViewsOk OBVIOUS
  <1>1. /\ snaps = << >> /\ default = [token |-> Main, head |-> 0]
        /\ branch = [t \in Tokens |-> IF t = Main THEN 0 ELSE None]
        /\ op = [i \in Procs |-> Idle]
        /\ mount = [m \in Mounts |-> Unmounted]
        /\ handle = [m \in Mounts |-> [h \in Handles |-> Closed]] /\ writes = 0
    BY DEF Init, RepositoryInit
  <1>2. Main \in Tokens BY RepositoryAssumption
  <1>3. TreesOk(snaps)
    <2>1. << >> \in Seq({}) /\ Len(<< >>) = 0 OBVIOUS
    <2> QED BY <1>1, <2>1 DEF TreesOk
  <1>4. Len(snaps) = 0 BY <1>1
  <1>5. HeadsOk(Len(snaps), default, branch)
    <2>1. default.token = Main /\ default.head = 0 BY <1>1
    <2>2. /\ branch \in [Tokens -> Int] /\ \A t \in Tokens : branch[t] \in -1..0
          /\ branch[Main] # None
      BY <1>1, <1>2 DEF None
    <2> QED BY <1>4, <2>1, <2>2 DEF HeadsOk
  <1>6. op \in [Procs -> Commands] /\ \A i \in Procs : QueueOk(Len(snaps), op[i].todo)
    <2>1. PICK c : c = Idle OBVIOUS
    <2>2. c \in Commands /\ Range(c.todo) = {} BY <2>1, IdleIsCommand
    <2>3. QueueOk(Len(snaps), c.todo) BY <2>2 DEF QueueOk
    <2> QED BY <1>1, <2>1, <2>2, <2>3
  <1>7. PICK u, y : u = Unmounted /\ y = Closed OBVIOUS
  <1>8. y \in Opens /\ ~y.open BY <1>7, HandlesAre
  <1>9. mount = [m \in Mounts |-> mount[m]] /\ handle \in [Mounts -> [Handles -> Opens]]
    BY <1>1, <1>8, <1>7
  <1>10. ASSUME NEW m \in Mounts
         PROVE  ViewOk(Len(snaps), branch[Mounted[m]] # None, mount[m], handle[m])
    <2>1. mount[m] = u /\ \A h \in Handles : ~handle[m][h].open BY <1>1, <1>7, <1>8
    <2>2. PICK c : c = NoCallback /\ c \in Calls BY CallsAre
    <2>3. IsView(u) /\ u.up = FALSE /\ u.base = 0 /\ u.dirs = << >> /\ u.files = << >> /\ u.call = c
      BY <1>7, <2>2, NoView, Zenon DEF Unmounted
    <2>4. 0 \in 0..Len(snaps) /\ << >> \in Seq(Names) BY <1>4
    <2> QED BY <2>1, <2>2, <2>3, <2>4 DEF ViewOk
  <1> QED BY <1>1, <1>3, <1>5, <1>6, <1>9, <1>10 DEF ViewsOk, RefsOk

LEMMA ViewsNext ==
  ASSUME ViewsOk, [Next]_vars
  PROVE  ViewsOk'
  <1>1. ASSUME NEW i \in Shells, Shell(i) PROVE ViewsOk'
    <2>1. i \in Procs BY MountAssumption
    <2> QED BY <1>1, <2>1, ShellKeepsViews DEF Shell
  <1>2. ASSUME WriteRefFile PROVE ViewsOk' BY <1>2, ShellKeepsViews DEF WriteRefFile
  <1>3. ASSUME NEW m \in Mounts, MountStep(m) PROVE ViewsOk'
    <2>1. ASSUME NEW h \in Handles, NEW y, HandleMoved(m, h, y) PROVE ViewsOk'
      BY <2>1, HandleMovedKeepsViews
    <2>2. ASSUME NEW u, NEW c, NEW cs, Called(m, u, c, cs) PROVE ViewsOk'
      BY <2>2, CalledKeepsViews
    <2>3. ASSUME NEW u, Rebased(m, u) PROVE ViewsOk' BY <2>3, RebasedKeepsViews
    <2>4. ASSUME NEW u, NEW hs, Done(m, u, hs) PROVE ViewsOk' BY <2>4, DoneKeepsViews
    <2>5. ASSUME Unmount(m) PROVE ViewsOk' BY <2>5, UnmountKeepsViews
    <2> QED BY <1>3, <2>1, <2>2, <2>3, <2>4, <2>5 DEF MountStep
  <1>4. ASSUME UNCHANGED vars PROVE ViewsOk'
    <2>1. RefsOk' /\ Kept BY <1>4, SameRefs DEF ViewsOk, vars
    <2> QED BY <1>4, <2>1, ViewsRest DEF vars
  <1> QED BY <1>1, <1>2, <1>3, <1>4, StepsAre

(* Whatever mounts and shells commit, and however their commands overlap,   *)
(* a snapshot has a directory above every entry: a rename, or a writeback   *)
(* that is rebased onto another commit, leaves no entry without its parent  *)
(* (facade.rs 912-995, 3482-3616).                                          *)
THEOREM MountedTreesAreWellFormed == Spec => []TreesAreWellFormed
  <1>1. Init => ViewsOk BY ViewsInit
  <1>2. ViewsOk /\ [Next]_vars => ViewsOk' BY ViewsNext
  <1>3. ViewsOk => TreesAreWellFormed
    <2> SUFFICES ASSUME ViewsOk, NEW h \in DOMAIN snaps PROVE TreeOk(snaps[h].tree)
      BY DEF TreesAreWellFormed, TreeOk
    <2>1. TreesOk(snaps) BY DEF ViewsOk, RefsOk
    <2>2. DOMAIN snaps = 1..Len(snaps) BY <2>1, LenProperties DEF TreesOk
    <2> QED BY <2>1, <2>2 DEF TreesOk
  <1> QED BY <1>1, <1>2, <1>3, PTL DEF Spec

----------------------------------------------------------------------------
(* Callbacks, with commands that take turns.                               *)

\* Whoever begins is alone: no callback runs.
LEMMA NobodyCalls ==
  ASSUME ViewsOk, CallsOk, \A j \in Procs : op[j] = Idle
  PROVE  \A k \in Mounts : mount[k].call = NoCallback
  <1> SUFFICES ASSUME NEW k \in Mounts PROVE mount[k].call = NoCallback OBVIOUS
  <1>1. k \in Procs BY MountAssumption
  <1>2. op[k].step = "idle" BY <1>1, IdleIsCommand
  <1>3. Committing(snaps, branch, Mounted[k], op[k], mount[k], handle[k]) BY DEF CallsOk
  <1>4. mount[k].call # NoCallback => op[k].step = "write" BY <1>3 DEF Committing
  <1> QED BY <1>2, <1>4

LEMMA AllAreIdle ==
  ASSUME ~Concurrent, NEW i, Free(i)
  PROVE  \A j \in Procs : op[j] = Idle
  BY DEF Free

\* Steps after which nobody is in a callback.
LEMMA QuietStep ==
  ASSUME NEW i \in Procs, \A j \in Procs \ {i} : op'[j] = Idle,
         \A k \in Mounts : mount'[k].call = NoCallback
  PROVE  CallsOk'
  BY DEF CallsOk, Committing

LEMMA ShellKeepsCalls ==
  ASSUME ~Concurrent, ViewsOk, CallsOk, NEW i \in Shells, Shell(i)
  PROVE  CallsOk'
  <1>1. i \in Procs /\ mount' = mount /\ handle' = handle BY MountAssumption DEF Shell, mountVars
  <1>2. op \in [Procs -> Commands] BY DEF ViewsOk, RefsOk
  <1>3. ASSUME NEW tree \in WorkTrees, Commit(i, tree) PROVE CallsOk'
    <2>1. \A j \in Procs : op[j] = Idle BY <1>3, AllAreIdle DEF Commit
    <2>2. \A k \in Mounts : mount[k].call = NoCallback BY <2>1, NobodyCalls
    <2>3. \A j \in Procs \ {i} : op'[j] = op[j]
      <3>1. PICK c : op' = [op EXCEPT ![i] = c] BY <1>3 DEF Commit, Begin
      <3> QED BY <1>2, <3>1
    <2>4. \A j \in Procs \ {i} : op'[j] = Idle BY <2>1, <2>3
    <2> QED BY <1>1, <2>2, <2>4, QuietStep
  <1>4. ASSUME Finish(i) \/ CrashCommand(i) PROVE CallsOk'
    <2>1. op' = [op EXCEPT ![i] = Idle] /\ op[i] # Idle
      <3>1. Written(i) => op[i] # Idle BY IdleIsCommand DEF Written
      <3> QED BY <1>4, <3>1 DEF Finish, CrashCommand
    <2>2. \A j \in Procs \ {i} : op[j] = Idle BY <1>1, <2>1 DEF CallsOk
    <2>3. \A j \in Procs \ {i} : op'[j] = Idle BY <1>2, <2>1, <2>2
    <2>4. ASSUME NEW k \in Mounts PROVE mount[k].call = NoCallback
      <3>1. k \in Procs /\ k # i BY MountAssumption
      <3>2. op[k].step = "idle" BY <2>2, <3>1, IdleIsCommand
      <3>3. Committing(snaps, branch, Mounted[k], op[k], mount[k], handle[k]) BY DEF CallsOk
      <3>4. mount[k].call # NoCallback => op[k].step = "write" BY <3>3 DEF Committing
      <3> QED BY <3>2, <3>4
    <2> QED BY <1>1, <2>3, <2>4, QuietStep
  <1> QED BY <1>3, <1>4 DEF Shell

\* The next ref file of a callback's commit.
LEMMA NextFile ==
  ASSUME NEW n, NEW t, NEW q, NEW w, w = Head(q), NEW rest, rest = Tail(q), q # << >>,
         NEW d, NEW b, NEW d2, NEW b2, FileWritten(w, d, b, d2, b2), t \in DOMAIN b,
         ToWrite(t, n, b, q)
  PROVE  ToWrite(t, n, b2, rest)
  <1>1. PICK x, y : x = BranchFile(t, n) /\ y = DefaultFile(t, n) OBVIOUS
  <1>2. x.file = "branch" /\ x.token = t /\ x.head = n /\ y.file = "default"
    BY <1>1 DEF BranchFile, DefaultFile
  <1>3. CASE q = <<x, y>>
    <2>1. w = x /\ rest = <<y>> BY <1>3
    <2> QED BY <1>1, <1>2, <2>1 DEF FileWritten, ToWrite
  <1>4. CASE q = <<x>>
    <2>1. w = x /\ rest = << >> BY <1>4
    <2> QED BY <1>1, <1>2, <2>1 DEF FileWritten, ToWrite
  <1>5. CASE q = <<y>> /\ b[t] = n
    <2>1. w = y /\ rest = << >> BY <1>5
    <2> QED BY <1>1, <1>2, <1>5, <2>1 DEF FileWritten, ToWrite
  <1>6. q = <<x, y>> \/ q = <<x>> \/ (q = <<y>> /\ b[t] = n) BY <1>1 DEF ToWrite
  <1> QED BY <1>3, <1>4, <1>5, <1>6

LEMMA WriteRefKeepsCalls ==
  ASSUME ViewsOk, CallsOk, WriteRefFile
  PROVE  CallsOk'
  <1>1. PICK i \in Procs : WriteRef(i) BY DEF WriteRefFile
  <1>2. mount' = mount /\ handle' = handle BY DEF WriteRefFile, mountVars
  <1>3. /\ snaps' = snaps /\ op'[i].step = op[i].step /\ op'[i].todo = Tail(op[i].todo)
        /\ op[i].todo \in Seq(RefFile) /\ op[i].todo # << >>
        /\ \A j \in Procs \ {i} : op'[j] = op[j]
        /\ FileWritten(Head(op[i].todo), default, branch, default', branch')
    BY <1>1, RefKept DEF ViewsOk
  <1>4. op[i] # Idle BY <1>3, IdleIsCommand
  <1>5. \A j \in Procs \ {i} : op[j] = Idle BY <1>4 DEF CallsOk
  <1>6. \A j \in Procs \ {i} : op'[j] = Idle BY <1>3, <1>5
  <1>7. ASSUME NEW k \in Mounts
        PROVE  Committing(snaps, branch', Mounted[k], op'[k], mount[k], handle[k])
    <2>1. k \in Procs /\ Mounted[k] \in Tokens BY MountAssumption
    <2>2. Committing(snaps, branch, Mounted[k], op[k], mount[k], handle[k]) BY DEF CallsOk
    <2>3. CASE k # i
      <3>1. op[k].step = "idle" BY <1>5, <2>1, <2>3, IdleIsCommand
      <3> QED BY <2>2, <3>1 DEF Committing
    <2>4. CASE k = i
      <3>1. PICK n, t, q, w, rest, d, b, d2, b2 :
               /\ n = Len(snaps) /\ t = Mounted[k] /\ q = op[i].todo /\ w = Head(q)
               /\ rest = Tail(q) /\ d = default /\ b = branch /\ d2 = default' /\ b2 = branch'
        OBVIOUS
      <3>2. t \in DOMAIN b BY <2>1, <3>1 DEF ViewsOk, RefsOk, HeadsOk
      <3>3. FileWritten(w, d, b, d2, b2) /\ q # << >> BY <1>3, <3>1
      <3>4. CASE mount[k].call = NoCallback BY <3>4 DEF Committing
      <3>5. CASE mount[k].call # NoCallback
        <4>1. ToWrite(t, n, b, q) BY <2>2, <2>4, <3>1, <3>5 DEF Committing
        <4>2. ToWrite(t, n, b2, rest)
          BY <3>1, <3>2, <3>3, <4>1, NextFile
        <4>3. op'[k].step = op[k].step /\ op'[k].todo = rest BY <1>3, <2>4, <3>1
        <4> QED BY <2>2, <3>1, <3>5, <4>2, <4>3 DEF Committing
      <3> QED BY <3>4, <3>5
    <2> QED BY <2>3, <2>4
  <1> QED BY <1>2, <1>3, <1>6, <1>7 DEF CallsOk

\* What a callback c leaves in the tree it commits.
Left(m, c, tree) ==
  LET file == handle[m][c.h]
  IN /\ c.kind = "flush" => file.path \in DOMAIN tree /\ tree[file.path] = file.pending
     /\ c.kind = "delete" /\ ~file.dir => Content(tree, file.path) = 0
     /\ c.kind = "rename" =>
          Content(tree, c.to) = Content(Tree(WritableHead(Mounted[m])), file.path)

LEMMA CalledLeaves ==
  ASSUME ViewsOk, NEW m \in Mounts, NEW u, NEW c, NEW cs, Called(m, u, c, cs), NEW tree,
         Overwrites(m, Mounted[m], mount[m].base, cs, tree)
  PROVE  Left(m, c, tree)
  <1>1. PICK h, t, file : /\ h = WritableHead(Mounted[m]) /\ t = Tree(h) /\ file = handle[m][c.h]
    OBVIOUS
  <1>2. h \in 0..Len(snaps) /\ tree \in Overlaid(t, cs) BY <1>1 DEF Overwrites
  <1>3. TreeOk(t)
    <2>1. TreeOk(Tree(h)) BY <1>2, TreeOfHead DEF ViewsOk, RefsOk
    <2> QED BY <1>1, <2>1
  <1>4. Len(cs) \in Nat /\ \A k \in 1..Len(cs) : EditOk(cs[k]) /\ Does(m, c, cs)
    BY DEF Called
  <1>5. mount[m].dirs \in Seq(Names) BY ReadyView DEF Called
  <1>6. ASSUME NEW ch, OneMore(cs, mount[m].dirs, ch)
        PROVE  /\ ch.kind = "upsert" => ch.path \in DOMAIN tree /\ tree[ch.path] = ch.id
               /\ ch.kind = "rm" => ch.path \notin DOMAIN tree
               /\ ch.kind = "rename" => Content(tree, ch.to) = Content(t, ch.path)
    <2>1. Len(cs) = Len(mount[m].dirs) + 1 /\ Len(mount[m].dirs) \in Nat
      BY <1>5, <1>6, LenProperties DEF OneMore
    <2>2. Len(cs) \in Nat \ {0} BY <2>1
    <2>3. /\ ch = cs[Len(cs)] /\ \A k \in 1..Len(cs) : EditOk(cs[k])
          /\ \A k \in 1..Len(cs) - 1 : cs[k].kind = "mkdir"
      BY <1>6 DEF OneMore
    <2> QED BY <1>2, <1>3, <2>2, <2>3, LastChange
  <1>7. ASSUME c.kind = "flush"
        PROVE  file.path \in DOMAIN tree /\ tree[file.path] = file.pending
    <2>1. PICK ch : ch = Change("upsert", file.path, file.path, file.pending) OBVIOUS
    <2>2. ch.kind = "upsert" /\ ch.path = file.path /\ ch.id = file.pending BY <2>1 DEF Change
    <2>3. OneMore(cs, mount[m].dirs, ch) BY <1>1, <1>4, <1>7, <2>1 DEF Does, Called
    <2> QED BY <1>6, <2>2, <2>3
  <1>8. ASSUME c.kind = "delete", ~file.dir PROVE Content(tree, file.path) = 0
    <2>1. PICK ch : ch = Change("rm", file.path, file.path, 0) OBVIOUS
    <2>2. ch.kind = "rm" /\ ch.path = file.path BY <2>1 DEF Change
    <2>3. OneMore(cs, mount[m].dirs, ch) BY <1>1, <1>4, <1>8, <2>1 DEF Does, Called
    <2> QED BY <1>6, <2>2, <2>3 DEF Content
  <1>9. ASSUME c.kind = "rename" PROVE Content(tree, c.to) = Content(t, file.path)
    <2>1. PICK ch : ch = Change("rename", file.path, c.to, 0) OBVIOUS
    <2>2. ch.kind = "rename" /\ ch.path = file.path /\ ch.to = c.to BY <2>1 DEF Change
    <2>3. OneMore(cs, mount[m].dirs, ch) BY <1>1, <1>4, <1>9, <2>1 DEF Does, Called
    <2> QED BY <1>6, <2>2, <2>3
  <1> QED BY <1>1, <1>7, <1>8, <1>9 DEF Left

LEMMA CalledKeepsCalls ==
  ASSUME ~Concurrent, ViewsOk, CallsOk, NEW m \in Mounts, NEW u, NEW c, NEW cs, Called(m, u, c, cs)
  PROVE  CallsOk'
  <1>1. /\ mount'[m] = u /\ handle' = handle
        /\ \A k \in Mounts \ {m} : mount'[k] = mount[k]
    BY CalledKeepsViews
  <1>2. PICK tree : Overwrites(m, Mounted[m], mount[m].base, cs, tree) BY CalledKeepsViews
  <1>3. \A j \in Procs : op[j] = Idle BY AllAreIdle DEF Called, Ready
  <1>4. \A k \in Mounts : mount[k].call = NoCallback BY <1>3, NobodyCalls
  <1>5. \A j \in Procs \ {m} : op'[j] = Idle BY <1>2, <1>3 DEF Overwrites
  <1>6. Left(m, c, tree) BY <1>2, CalledLeaves
  <1>7. Committing(snaps', branch', Mounted[m], op'[m], mount'[m], handle'[m])
    <2>1. u.call = c /\ c # NoCallback BY DEF Called
    <2>2. op'[m].step = "write" /\ ToWrite(Mounted[m], Len(snaps'), branch', op'[m].todo)
      BY <1>2 DEF Overwrites, ToWrite
    <2>3. Len(snaps') # 0
      <3>1. Len(snaps) \in Nat BY LenOfTrees DEF ViewsOk, RefsOk
      <3> QED BY <1>2, <3>1 DEF Overwrites
    <2>4. snaps'[Len(snaps')].tree = tree BY <1>2 DEF Overwrites
    <2> QED BY <1>1, <1>6, <2>1, <2>2, <2>3, <2>4 DEF Committing, Left
  <1>8. ASSUME NEW k \in Mounts \ {m}
        PROVE  Committing(snaps', branch', Mounted[k], op'[k], mount'[k], handle'[k])
    BY <1>1, <1>4 DEF Committing
  <1> QED BY <1>5, <1>7, <1>8 DEF CallsOk

LEMMA QuietMountKeepsCalls ==
  ASSUME ~Concurrent, ViewsOk, CallsOk, NEW m \in Mounts,
         \/ \E h \in Handles : \E y : HandleMoved(m, h, y)
         \/ \E u : Rebased(m, u)
  PROVE  CallsOk'
  <1>1. CASE \E h \in Handles : \E y : HandleMoved(m, h, y)
    <2>1. PICK h \in Handles : \E y : HandleMoved(m, h, y) BY <1>1
    <2>2. PICK y : HandleMoved(m, h, y) BY <2>1
    <2>3. mount' = mount /\ op' = op BY <2>2, HandleMovedKeepsViews
    <2>4. \A j \in Procs : op[j] = Idle BY <2>2, AllAreIdle DEF HandleMoved, Ready
    <2>5. \A k \in Mounts : mount[k].call = NoCallback BY <2>4, NobodyCalls
    <2> QED BY <2>3, <2>4, <2>5, QuietStep, MountAssumption
  <1>2. CASE \E u : Rebased(m, u)
    <2>1. PICK u : Rebased(m, u) BY <1>2
    <2>2. /\ mount'[m] = u /\ \A k \in Mounts \ {m} : mount'[k] = mount[k]
          /\ op' = op
      BY <2>1, RebasedKeepsViews
    <2>3. \A j \in Procs : op[j] = Idle BY <2>1, AllAreIdle DEF Rebased
    <2>4. \A k \in Mounts : mount[k].call = NoCallback BY <2>3, NobodyCalls
    <2>5. u.call = NoCallback BY <2>1 DEF Rebased
    <2>6. \A k \in Mounts : mount'[k].call = NoCallback BY <2>2, <2>4, <2>5
    <2> QED BY <2>2, <2>3, <2>6, QuietStep, MountAssumption
  <1> QED BY <1>1, <1>2

LEMMA EndKeepsCalls ==
  ASSUME ViewsOk, CallsOk, NEW m \in Mounts, Unmount(m) \/ \E u, hs : Done(m, u, hs)
  PROVE  CallsOk'
  <1>1. /\ mount'[m].call = NoCallback
        /\ \A k \in Mounts \ {m} : mount'[k] = mount[k] /\ handle'[k] = handle[k]
        /\ snaps' = snaps /\ branch' = branch
        /\ op'[m] = Idle /\ \A j \in Procs \ {m} : op'[j] = op[j]
    <2>1. CASE Unmount(m) BY <2>1, UnmountKeepsViews, NoView
    <2>2. CASE \E u, hs : Done(m, u, hs)
      <3>1. PICK u, hs : Done(m, u, hs) BY <2>2
      <3>2. u.call = NoCallback BY <3>1 DEF Done, ViewIs
      <3> QED BY <3>1, <3>2, DoneKeepsViews
    <2> QED BY <2>1, <2>2
  <1>2. ASSUME NEW k \in Mounts
        PROVE  Committing(snaps, branch, Mounted[k], op'[k], mount'[k], handle'[k])
    <2>1. CASE k = m BY <1>1, <2>1 DEF Committing
    <2>2. CASE k # m
      <3>1. k \in Procs BY MountAssumption
      <3>2. Committing(snaps, branch, Mounted[k], op[k], mount[k], handle[k]) BY DEF CallsOk
      <3> QED BY <1>1, <2>2, <3>1, <3>2
    <2> QED BY <2>1, <2>2
  <1>3. ASSUME NEW i \in Procs, NEW j \in Procs, op'[i] # Idle, op'[j] # Idle PROVE i = j
    <2>1. i # m /\ j # m BY <1>1, <1>3
    <2>2. op[i] # Idle /\ op[j] # Idle BY <1>1, <1>3, <2>1
    <2> QED BY <2>2 DEF CallsOk
  <1> QED BY <1>1, <1>2, <1>3 DEF CallsOk

LEMMA CallsInit == Init => CallsOk
  <1> SUFFICES ASSUME Init PROVE CallsOk OBVIOUS
  <1>1. op = [i \in Procs |-> Idle] /\ mount = [m \in Mounts |-> Unmounted]
    BY DEF Init, RepositoryInit
  <1>2. \A m \in Mounts : mount[m].call = NoCallback BY <1>1, NoView
  <1>3. \A i \in Procs : op[i] = Idle BY <1>1
  <1> QED BY <1>2, <1>3 DEF CallsOk, Committing

LEMMA CallsNext ==
  ASSUME ~Concurrent, ViewsOk, CallsOk, [Next]_vars
  PROVE  CallsOk'
  <1>1. ASSUME NEW m \in Mounts, MountStep(m) PROVE CallsOk'
    BY <1>1, CalledKeepsCalls, QuietMountKeepsCalls, EndKeepsCalls DEF MountStep
  <1>2. ASSUME UNCHANGED vars PROVE CallsOk'
    BY <1>2 DEF vars, repoVars, mountVars, CallsOk
  <1> QED BY <1>1, <1>2, StepsAre, ShellKeepsCalls, WriteRefKeepsCalls

LEMMA CallsAlways ==
  ASSUME ~Concurrent
  PROVE  Spec => [](ViewsOk /\ CallsOk)
  <1>1. Init => ViewsOk /\ CallsOk BY ViewsInit, CallsInit
  <1>2. ViewsOk /\ CallsOk /\ [Next]_vars => (ViewsOk /\ CallsOk)' BY ViewsNext, CallsNext
  <1> QED BY <1>1, <1>2, PTL DEF Spec

\* The mounts that a step of one mount leaves alone.
LEMMA OthersStay ==
  ASSUME ViewsOk, NEW m \in Mounts, MountStep(m)
  PROVE  \A k \in Mounts \ {m} : mount'[k] = mount[k] /\ handle'[k] = handle[k]
  <1>1. CASE \E h \in Handles : \E y : HandleMoved(m, h, y) BY <1>1, HandleMovedKeepsViews
  <1>2. CASE \E u, c, cs : Called(m, u, c, cs) BY <1>2, CalledKeepsViews
  <1>3. CASE \E u : Rebased(m, u) BY <1>3, RebasedKeepsViews
  <1>4. CASE \E u, hs : Done(m, u, hs) BY <1>4, DoneKeepsViews
  <1>5. CASE Unmount(m) BY <1>5, UnmountKeepsViews
  <1> QED BY <1>1, <1>2, <1>3, <1>4, <1>5 DEF MountStep

(* Once a flush reports success, its handle and every later open of the     *)
(* path read the bytes that were written: the view moves to the head that   *)
(* the flush committed, which no other command has moved (windows.rs        *)
(* 1796-1816, 2544-2572; lib.rs of e2v-vfs 871-959).                        *)
THEOREM FlushesAreVisible ==
  ASSUME ~Concurrent
  PROVE  Spec => FlushIsVisible
  <1>1. ASSUME ViewsOk, CallsOk, Next, NEW m \in Mounts,
               mount[m].call.kind = "flush", mount'[m].call = NoCallback, mount'[m].up
        PROVE  LET h == mount[m].call.h
               IN /\ handle'[m][h].opened = handle[m][h].pending
                  /\ Tree(mount'[m].base)[handle[m][h].path] = handle[m][h].pending
    <2>1. PICK c : c = mount[m].call OBVIOUS
    <2>2. ViewOk(Len(snaps), branch[Mounted[m]] # None, mount[m], handle[m]) BY <1>1 DEF ViewsOk
    <2>3. c \in Calls /\ c # NoCallback /\ c.kind = "flush" BY <1>1, <2>1, <2>2, CallsAre DEF ViewOk
    <2>4. mount'[m] # mount[m] BY <1>1, <2>1, <2>3
    <2>5. PICK k \in Mounts : MountStep(k)
      BY <1>1, <2>4, StepsAre DEF Shell, WriteRefFile, mountVars
    <2>6. k = m BY <1>1, <2>4, <2>5, OthersStay
    <2>7. PICK u, hs : Done(m, u, hs)
      <3>1. ~\E h \in Handles : \E y : HandleMoved(m, h, y)
        BY <1>1, <2>4, HandleMovedKeepsViews
      <3>2. ~\E v, e, cs : Called(m, v, e, cs)
        BY <1>1, CalledKeepsViews DEF Called
      <3>3. ~\E v : Rebased(m, v) BY <2>1, <2>3 DEF Rebased
      <3>4. ~Unmount(m) BY <1>1, UnmountKeepsViews, NoView
      <3> QED BY <2>5, <2>6, <3>1, <3>2, <3>3, <3>4 DEF MountStep
    <2>8. PICK b, h, o, y : /\ b = branch[Mounted[m]] /\ h = c.h /\ o = handle[m][h]
                            /\ y = hs[h]
      OBVIOUS
    <2>9. Returned(o, c, Tree(b), y) BY <2>1, <2>3, <2>7, <2>8 DEF Done
    <2>10. mount'[m] = u /\ handle'[m] = hs BY <1>1, <2>7, DoneKeepsViews
    <2>11. u.base = b BY <2>7, <2>8 DEF Done, ViewIs
    <2>12. Committing(snaps, branch, Mounted[m], op[m], mount[m], handle[m]) BY <1>1 DEF CallsOk
    <2>13. op[m].todo = << >> BY <2>7 DEF Done, Finish, Written
    <2>14. b = Len(snaps) /\ Len(snaps) # 0
      BY <2>1, <2>3, <2>8, <2>12, <2>13 DEF Committing, ToWrite
    <2>15. PICK t : t = Tree(b) OBVIOUS
    <2>16. o.path \in DOMAIN t /\ t[o.path] = o.pending
      BY <2>1, <2>3, <2>8, <2>12, <2>14, <2>15 DEF Committing, Tree
    <2>17. y.opened = o.pending BY <2>3, <2>9, <2>15, <2>16 DEF Returned, Content
    <2> QED BY <2>1, <2>8, <2>10, <2>15, <2>16, <2>17, <2>11
  <1>2. ViewsOk /\ CallsOk /\ [Next]_vars =>
          [\A m \in Mounts :
             mount[m].call.kind = "flush" /\ mount'[m].call = NoCallback /\ mount'[m].up =>
             LET h == mount[m].call.h
             IN /\ handle'[m][h].opened = handle[m][h].pending
                /\ Tree(mount'[m].base)[handle[m][h].path] = handle[m][h].pending]_vars
    BY <1>1
  <1>3. Spec => []([Next]_vars) BY PTL DEF Spec
  <1> QED BY <1>2, <1>3, CallsAlways, PTL DEF FlushIsVisible

----------------------------------------------------------------------------
(* What a handle has read, with one handle at a time.                      *)

\* Without a conflict a changed path holds what it held.
LEMMA NoConflict ==
  ASSUME NEW base, NEW cur, NEW cs \in Seq(Edits), ~Conflicts(base, cur, cs), Len(cs) # 0,
         NEW ch, ch = cs[Len(cs)]
  PROVE  Content(base, ch.path) = Content(cur, ch.path)
  <1>1. Len(cs) \in DOMAIN cs /\ ch \in Edits BY LenProperties, ElementOfSeq
  <1>2. ch \in Range(cs) BY <1>1 DEF Range
  <1>3. PICK p : p = ch.path OBVIOUS
  <1>4. p \in Names BY <1>1, <1>3 DEF Edits
  <1>5. PathState(base, p) = PathState(cur, p) BY <1>2, <1>3 DEF Conflicts, Exact
  <1>6. IsPrefix(p, p) BY <1>4, PathsBeneath
  <1>7. ASSUME NEW t
        PROVE  /\ p \in DOMAIN PathState(t, p) <=> p \in DOMAIN t
               /\ p \in DOMAIN t => PathState(t, p)[p] = t[p]
    BY <1>6 DEF PathState, Restrict
  <1>8. Content(base, p) = Content(cur, p) BY <1>5, <1>7 DEF Content
  <1> QED BY <1>3, <1>8

LEMMA SeenStays ==
  ASSUME NEW s, NEW r, Len(s) \in Nat, Extends(r, s), NEW v, v.base \in 0..Len(s),
         NEW hs, Seen(s, v, hs), v.call = NoCallback \/ r = s
  PROVE  Seen(r, v, hs)
  <1>1. CASE r = s BY <1>1
  <1>2. CASE v.call = NoCallback
    <2>1. v.call.kind = "none" BY <1>2, CallsAre
    <2>2. v.base # 0 => r[v.base] = s[v.base] BY DEF Extends
    <2>3. PICK t, z : /\ t = (IF v.base = 0 THEN << >> ELSE s[v.base].tree)
                      /\ z = (IF v.base = 0 THEN << >> ELSE r[v.base].tree)
      OBVIOUS
    <2>4. t = z BY <2>2, <2>3
    <2>5. ASSUME NEW h \in Handles, hs[h].open, ~hs[h].dir
          PROVE  hs[h].opened = Content(z, hs[h].path)
      BY <1>2, <2>3, <2>4, <2>5 DEF Seen
    <2> QED BY <1>2, <2>1, <2>3, <2>5 DEF Seen
  <1> QED BY <1>1, <1>2

\* A step of one mount, or of none.
LEMMA OthersSeen ==
  ASSUME ViewsOk, HandlesOk, Extends(snaps', snaps), NEW k \in Mounts,
         mount'[k] = mount[k], handle'[k] = handle[k],
         mount[k].call = NoCallback \/ snaps' = snaps
  PROVE  Seen(snaps', mount'[k], handle'[k])
  <1>1. PICK s, r, v, hs : s = snaps /\ r = snaps' /\ v = mount[k] /\ hs = handle[k] OBVIOUS
  <1>2. Seen(s, v, hs) BY <1>1 DEF HandlesOk
  <1>3. v.base \in 0..Len(s) BY <1>1 DEF ViewsOk, ViewOk
  <1>4. Len(s) \in Nat BY <1>1, LenOfTrees DEF ViewsOk, RefsOk
  <1>5. Seen(r, v, hs) BY <1>1, <1>2, <1>3, <1>4, SeenStays
  <1> QED BY <1>1, <1>5

LEMMA ShellKeepsHandles ==
  ASSUME ~Concurrent, ViewsOk, CallsOk, HandlesOk, UNCHANGED mountVars,
         NEW i \in Procs, \/ \E tree \in WorkTrees : Commit(i, tree)
                          \/ Finish(i) \/ CrashCommand(i) \/ WriteRef(i)
  PROVE  HandlesOk'
  <1>1. mount' = mount /\ handle' = handle BY DEF mountVars
  <1>2. RefsOk /\ Len(snaps) \in Nat BY LenOfTrees DEF ViewsOk, RefsOk
  <1>3. ASSUME NEW tree \in WorkTrees, Commit(i, tree)
        PROVE  Extends(snaps', snaps) /\ \A k \in Mounts : mount[k].call = NoCallback
    <2>1. \A j \in Procs : op[j] = Idle BY <1>3, AllAreIdle DEF Commit
    <2>2. Kept BY <1>2, <1>3, MountAssumption, CommitGrows
    <2> QED BY <2>1, <2>2, NobodyCalls DEF Kept
  <1>4. ASSUME Finish(i) \/ CrashCommand(i) \/ WriteRef(i)
        PROVE  Extends(snaps', snaps) /\ snaps' = snaps
    BY <1>2, <1>4 DEF Finish, CrashCommand, WriteRef, Extends
  <1> QED BY <1>1, <1>3, <1>4, OthersSeen DEF HandlesOk

LEMMA ClosedSeen ==
  ASSUME NEW s, NEW v, v.call = NoCallback, NEW hs,
         \A h \in Handles : ~hs[h].open /\ (hs[h].writable => ~hs[h].dir)
  PROVE  Seen(s, v, hs)
  <1>1. v.call.kind = "none" BY CallsAre
  <1> QED BY <1>1 DEF Seen

LEMMA MovedKeepsHandles ==
  ASSUME OneHandle, ViewsOk, HandlesOk, NEW m \in Mounts, NEW h \in Handles, NEW y,
         HandleMoved(m, h, y)
  PROVE  HandlesOk'
  <1>1. /\ mount' = mount /\ snaps' = snaps
        /\ handle'[m][h] = y /\ \A k \in Handles \ {h} : handle'[m][k] = handle[m][k]
        /\ \A k \in Mounts \ {m} : handle'[k] = handle[k]
    BY HandleMovedKeepsViews
  <1>2. PICK s, v, hs, gs, t : /\ s = snaps /\ v = mount[m] /\ hs = handle[m] /\ gs = handle'[m]
                               /\ t = Base(m)
    OBVIOUS
  <1>3. gs[h] = y /\ \A k \in Handles \ {h} : gs[k] = hs[k] BY <1>1, <1>2
  <1>4. v.call = NoCallback /\ v.call.kind = "none" BY <1>2, CallsAre DEF HandleMoved, Ready
  <1>5. t = IF v.base = 0 THEN << >> ELSE s[v.base].tree BY <1>2 DEF Base, Tree
  <1>6. Seen(s, v, hs) BY <1>2 DEF HandlesOk
  <1>7. /\ \A j, k \in Handles : hs[j].open /\ hs[k].open => j = k
        /\ \A k \in Handles : hs[k].writable => ~hs[k].dir
        /\ \A k \in Handles : hs[k].open /\ ~hs[k].dir => hs[k].opened = Content(t, hs[k].path)
    BY <1>4, <1>5, <1>6 DEF Seen
  <1>8. /\ y.open => \A k \in Handles \ {h} : ~hs[k].open
        /\ y.writable => ~y.dir
        /\ y.open /\ ~y.dir => y.opened = Content(t, y.path)
    <2>1. CASE /\ Alone(m, h) /\ y.open /\ (y.writable => ~y.dir)
               /\ ~y.dir => y.opened = Content(Base(m), y.path)
      BY <1>2, <2>1 DEF Alone
    <2>2. CASE /\ hs[h].open /\ y.path = hs[h].path /\ y.dir = hs[h].dir
               /\ y.writable = hs[h].writable /\ y.opened = hs[h].opened
      BY <1>7, <2>2
    <2>3. CASE ~y.open /\ ~y.writable BY <2>3
    <2> QED BY <1>2, <2>1, <2>2, <2>3 DEF HandleMoved
  <1>9. /\ \A j, k \in Handles : gs[j].open /\ gs[k].open => j = k
        /\ \A k \in Handles : gs[k].writable => ~gs[k].dir
        /\ \A k \in Handles : gs[k].open /\ ~gs[k].dir => gs[k].opened = Content(t, gs[k].path)
    BY <1>3, <1>7, <1>8
  <1>10. Seen(s, v, gs) BY <1>4, <1>5, <1>9 DEF Seen
  <1>11. Len(snaps) \in Nat BY LenOfTrees DEF ViewsOk, RefsOk
  <1>12. ASSUME NEW k \in Mounts \ {m} PROVE Seen(snaps', mount'[k], handle'[k])
    BY <1>1, <1>11, OthersSeen DEF Extends
  <1> QED BY <1>1, <1>2, <1>10, <1>12 DEF HandlesOk

\* A file that a callback commits is in the branch's head as the view has it:
\* the view is at the head, or the changes do not conflict with it.
LEMMA SeesTheHead ==
  ASSUME ViewsOk, NEW m \in Mounts, NEW u, NEW c, NEW cs, Called(m, u, c, cs),
         NEW tree, Overwrites(m, Mounted[m], mount[m].base, cs, tree),
         c.kind \in {"flush", "close", "rename"}
  PROVE  LET p == handle[m][c.h].path
         IN Content(Base(m), p) = Content(Tree(WritableHead(Mounted[m])), p)
  <1>1. PICK v, file, t, b, z : /\ v = mount[m] /\ file = handle[m][c.h] /\ t = Base(m)
                                /\ b = WritableHead(Mounted[m]) /\ z = Tree(b)
    OBVIOUS
  <1>2. c \in Calls /\ Does(m, c, cs) BY DEF Called
  <1>8. b = v.base \/ ~Conflicts(t, z, cs) BY <1>1 DEF Overwrites, Base
  <1>9. CASE b = v.base
    <2>1. t = z BY <1>1, <1>9 DEF Base
    <2> QED BY <1>1, <2>1
  <1>10. CASE ~Conflicts(t, z, cs)
    <2>1. \E kind, to, id : OneMore(cs, v.dirs, Change(kind, file.path, to, id))
      BY <1>1, <1>2 DEF Does
    <2>2. PICK kind, to, id : OneMore(cs, v.dirs, Change(kind, file.path, to, id)) BY <2>1
    <2>3. PICK ch : ch = Change(kind, file.path, to, id) OBVIOUS
    <2>4. ch.path = file.path BY <2>3 DEF Change
    <2>5. v.dirs \in Seq(Names) BY <1>1, ReadyView DEF Called
    <2>6. cs \in Seq(Edits) /\ Len(cs) # 0 /\ ch = cs[Len(cs)]
      BY <2>2, <2>3, <2>5, LenProperties DEF OneMore
    <2>7. Content(t, ch.path) = Content(z, ch.path) BY <1>10, <2>6, NoConflict
    <2> QED BY <1>1, <2>4, <2>7
  <1> QED BY <1>8, <1>9, <1>10

\* What the one handle of a mount read is what its view shows.
LEMMA SeesTheBase ==
  ASSUME HandlesOk, NEW m \in Mounts, NEW u, NEW c, NEW cs, Called(m, u, c, cs),
         c.kind \in {"flush", "close", "rename"}, ~handle[m][c.h].dir
  PROVE  handle[m][c.h].opened = Content(Base(m), handle[m][c.h].path)
  <1>1. PICK v, file, t : v = mount[m] /\ file = handle[m][c.h] /\ t = Base(m)
    OBVIOUS
  <1>2. c \in Calls /\ Does(m, c, cs) BY DEF Called
  <1>3. c.h \in Handles BY <1>2, CallsAre
  <1>4. file.open BY <1>1, <1>2 DEF Does, Dirty
  <1>5. Seen(snaps, v, handle[m]) /\ v.call = NoCallback
    BY <1>1 DEF HandlesOk, Called, Ready
  <1>6. t = IF v.base = 0 THEN << >> ELSE snaps[v.base].tree BY <1>1 DEF Base, Tree
  <1> QED BY <1>1, <1>3, <1>4, <1>5, <1>6 DEF Seen

LEMMA CalledKeepsHandles ==
  ASSUME ~Concurrent, OneHandle, ViewsOk, CallsOk, HandlesOk,
         NEW m \in Mounts, NEW u, NEW c, NEW cs, Called(m, u, c, cs)
  PROVE  HandlesOk'
  <1>1. /\ mount'[m] = u /\ handle' = handle
        /\ \A k \in Mounts \ {m} : mount'[k] = mount[k]
    BY CalledKeepsViews
  <1>2. PICK tree : Overwrites(m, Mounted[m], mount[m].base, cs, tree) BY CalledKeepsViews
  <1>3. Left(m, c, tree) BY <1>2, CalledLeaves
  <1>4. PICK r, hs, file : r = snaps' /\ hs = handle[m] /\ file = handle[m][c.h] OBVIOUS
  <1>5. r[Len(r)].tree = tree BY <1>2, <1>4 DEF Overwrites
  <1>6. Seen(snaps, mount[m], hs) BY <1>4 DEF HandlesOk
  <1>7. u.call = c /\ c \in Calls /\ c # NoCallback /\ Does(m, c, cs) BY DEF Called
  <1>8. c.kind = "mkdir" => \A h \in Handles : ~hs[h].open
    BY <1>4, <1>7 DEF Does
  <1>9. c.kind \in {"flush", "close", "delete", "rename"} => hs[c.h].open
    BY <1>4, <1>7 DEF Does, Dirty
  <1>10. c.kind = "delete" /\ ~hs[c.h].dir => Content(r[Len(r)].tree, hs[c.h].path) = 0
    BY <1>3, <1>4, <1>5 DEF Left
  <1>11. c.kind = "rename" /\ ~hs[c.h].dir => Content(r[Len(r)].tree, c.to) = hs[c.h].opened
    BY <1>2, <1>3, <1>4, <1>5, SeesTheHead, SeesTheBase DEF Left
  <1>12. /\ \A h, k \in Handles : hs[h].open /\ hs[k].open => h = k
         /\ \A h \in Handles : hs[h].writable => ~hs[h].dir
    BY <1>6 DEF Seen
  <1>13. Seen(r, u, hs) BY <1>7, <1>8, <1>9, <1>10, <1>11, <1>12 DEF Seen
  <1>14. \A j \in Procs : op[j] = Idle BY AllAreIdle DEF Called, Ready
  <1>15. \A k \in Mounts : mount[k].call = NoCallback BY <1>14, NobodyCalls
  <1>16. ASSUME NEW k \in Mounts \ {m} PROVE Seen(snaps', mount'[k], handle'[k])
    <2>1. Extends(snaps', snaps) BY <1>2 DEF Overwrites, Kept
    <2> QED BY <1>1, <1>15, <2>1, OthersSeen
  <1> QED BY <1>1, <1>4, <1>13, <1>16 DEF HandlesOk

LEMMA RebasedKeepsHandles ==
  ASSUME ViewsOk, HandlesOk, NEW m \in Mounts, NEW u, Rebased(m, u)
  PROVE  HandlesOk'
  <1>1. /\ mount'[m] = u /\ handle' = handle /\ snaps' = snaps
        /\ \A k \in Mounts \ {m} : mount'[k] = mount[k]
    BY RebasedKeepsViews
  <1>2. PICK s, v, hs : s = snaps /\ v = mount[m] /\ hs = handle[m] OBVIOUS
  <1>3. Seen(s, v, hs) BY <1>2 DEF HandlesOk
  <1>4. /\ u.call = NoCallback /\ v.call = NoCallback /\ NoCallback.kind = "none"
        /\ v.up => u.base = v.base
    BY <1>2, CallsAre DEF Rebased
  <1>5. Seen(s, u, hs)
    <2>1. CASE v.up
      <3>1. u.base = v.base BY <1>4, <2>1
      <3> QED BY <1>3, <1>4, <3>1 DEF Seen
    <2>2. CASE ~v.up
      <3>1. \A h \in Handles : ~hs[h].open BY <1>2, <2>2 DEF ViewsOk, ViewOk
      <3>2. \A h \in Handles : hs[h].writable => ~hs[h].dir BY <1>3 DEF Seen
      <3> QED BY <1>4, <3>1, <3>2, ClosedSeen
    <2> QED BY <2>1, <2>2
  <1>6. Len(snaps) \in Nat BY LenOfTrees DEF ViewsOk, RefsOk
  <1>7. ASSUME NEW k \in Mounts \ {m} PROVE Seen(snaps', mount'[k], handle'[k])
    BY <1>1, <1>6, OthersSeen DEF Extends
  <1> QED BY <1>1, <1>2, <1>5, <1>7 DEF HandlesOk

LEMMA UnmountKeepsHandles ==
  ASSUME ViewsOk, HandlesOk, NEW m \in Mounts, Unmount(m)
  PROVE  HandlesOk'
  <1>1. /\ mount'[m] = Unmounted /\ handle'[m] = [h \in Handles |-> Closed] /\ snaps' = snaps
        /\ \A k \in Mounts \ {m} : mount'[k] = mount[k] /\ handle'[k] = handle[k]
    BY UnmountKeepsViews
  <1>2. \A h \in Handles : ~handle'[m][h].open /\ ~handle'[m][h].writable BY <1>1, HandlesAre
  <1>3. mount'[m].call = NoCallback BY <1>1, NoView
  <1>4. Seen(snaps', mount'[m], handle'[m])
    <2>1. PICK s, v, hs : s = snaps' /\ v = mount'[m] /\ hs = handle'[m] OBVIOUS
    <2>2. Seen(s, v, hs) BY <1>2, <1>3, <2>1, ClosedSeen
    <2> QED BY <2>1, <2>2
  <1>5. Len(snaps) \in Nat BY LenOfTrees DEF ViewsOk, RefsOk
  <1>6. ASSUME NEW k \in Mounts \ {m} PROVE Seen(snaps', mount'[k], handle'[k])
    BY <1>1, <1>5, OthersSeen DEF Extends
  <1> QED BY <1>4, <1>6 DEF HandlesOk

LEMMA DoneKeepsHandles ==
  ASSUME ViewsOk, CallsOk, HandlesOk, NEW m \in Mounts, NEW u, NEW hs, Done(m, u, hs)
  PROVE  HandlesOk'
  <1>1. /\ mount'[m] = u /\ handle'[m] = hs /\ snaps' = snaps
        /\ \A k \in Mounts \ {m} : mount'[k] = mount[k] /\ handle'[k] = handle[k]
    BY DoneKeepsViews
  <1>2. PICK s, v, c, b, t, old : /\ s = snaps /\ v = mount[m] /\ c = v.call
                                  /\ b = branch[Mounted[m]] /\ t = Tree(b) /\ old = handle[m]
    OBVIOUS
  <1>3. c \in Calls /\ c # NoCallback BY <1>2 DEF Done, ViewsOk, ViewOk
  <1>4. b = Len(s) /\ Len(s) # 0
    <2>1. Committing(snaps, branch, Mounted[m], op[m], mount[m], handle[m]) BY DEF CallsOk
    <2>2. op[m].todo = << >> BY DEF Done, Finish, Written
    <2> QED BY <1>2, <1>3, <2>1, <2>2 DEF Committing, ToWrite
  <1>5. t = s[Len(s)].tree BY <1>2, <1>4 DEF Tree
  <1>6. u.call = NoCallback /\ u.base = b /\ NoCallback.kind = "none"
    BY <1>2, CallsAre DEF Done, ViewIs
  <1>7. Seen(s, v, old) BY <1>2 DEF HandlesOk
  <1>8. /\ \A h, k \in Handles : old[h].open /\ old[k].open => h = k
        /\ \A h \in Handles : old[h].writable => ~old[h].dir
    BY <1>7 DEF Seen
  <1>9. ASSUME c.kind = "mkdir" PROVE Seen(s, u, hs)
    <2>1. hs = old BY <1>2, <1>9 DEF Done
    <2>2. \A h \in Handles : ~hs[h].open BY <1>2, <1>7, <1>9, <2>1 DEF Seen
    <2>3. Seen(s, u, hs) BY <1>6, <1>8, <2>1, <2>2, ClosedSeen
    <2> QED BY <2>3
  <1>10. ASSUME c.kind \in {"flush", "close", "delete", "rename"} PROVE Seen(s, u, hs)
    <2>1. PICK h, o, y : h = c.h /\ o = old[h] /\ y = hs[h] OBVIOUS
    <2>2. /\ h \in Handles /\ \A k \in Handles \ {h} : hs[k] = old[k]
          /\ IF c.kind = "close" THEN y = Closed ELSE Returned(o, c, t, y)
      BY <1>2, <1>10, <2>1 DEF Done
    <2>3. o.open BY <1>2, <1>7, <1>10, <2>1 DEF Seen
    <2>4. \A k \in Handles \ {h} : ~hs[k].open BY <1>8, <2>1, <2>2, <2>3
    <2>5. o.writable => ~o.dir BY <1>8, <2>1, <2>2
    <2>6. CASE c.kind = "close"
      <3>1. \A k \in Handles : ~hs[k].open /\ (hs[k].writable => ~hs[k].dir)
        BY <1>8, <2>1, <2>2, <2>4, <2>6, HandlesAre
      <3>2. Seen(s, u, hs) BY <1>6, <3>1, ClosedSeen
      <3> QED BY <3>2
    <2>7. CASE c.kind \in {"flush", "delete", "rename"}
      <3>1. Returned(o, c, t, y) BY <2>2, <2>7
      <3>2. y.dir = o.dir /\ y.writable = o.writable BY <3>1 DEF Returned
      <3>3. ~o.dir => y.opened = Content(t, y.path)
        <4>1. CASE c.kind = "flush" BY <3>1, <4>1 DEF Returned
        <4>2. CASE c.kind = "delete"
          <5>1. ~o.dir => Content(t, o.path) = 0
            BY <1>2, <1>5, <1>7, <2>1, <4>2 DEF Seen
          <5> QED BY <3>1, <4>2, <5>1 DEF Returned
        <4>3. CASE c.kind = "rename"
          <5>1. ~o.dir => Content(t, c.to) = o.opened
            BY <1>2, <1>5, <1>7, <2>1, <4>3 DEF Seen
          <5> QED BY <3>1, <4>3, <5>1 DEF Returned
        <4> QED BY <2>7, <4>1, <4>2, <4>3
      <3>4. /\ \A j, k \in Handles : hs[j].open /\ hs[k].open => j = k
            /\ \A k \in Handles : hs[k].writable => ~hs[k].dir
            /\ \A k \in Handles : hs[k].open /\ ~hs[k].dir => hs[k].opened = Content(t, hs[k].path)
        BY <1>8, <2>1, <2>2, <2>4, <2>5, <3>2, <3>3
      <3>5. t = IF u.base = 0 THEN << >> ELSE s[u.base].tree BY <1>4, <1>5, <1>6
      <3>6. Seen(s, u, hs) BY <1>6, <3>4, <3>5 DEF Seen
      <3> QED BY <3>6
    <2> QED BY <1>10, <2>6, <2>7
  <1>11. Seen(s, u, hs) BY <1>3, <1>9, <1>10, CallsAre
  <1>12. Len(snaps) \in Nat BY LenOfTrees DEF ViewsOk, RefsOk
  <1>13. ASSUME NEW k \in Mounts \ {m} PROVE Seen(snaps', mount'[k], handle'[k])
    BY <1>1, <1>12, OthersSeen DEF Extends
  <1> QED BY <1>1, <1>2, <1>11, <1>13 DEF HandlesOk

LEMMA HandlesInit == Init => HandlesOk
  <1> SUFFICES ASSUME Init, NEW m \in Mounts PROVE Seen(snaps, mount[m], handle[m])
    BY DEF HandlesOk
  <1>1. mount[m] = Unmounted /\ handle[m] = [h \in Handles |-> Closed] BY DEF Init
  <1>2. PICK s, v, hs : s = snaps /\ v = mount[m] /\ hs = handle[m] OBVIOUS
  <1>3. v.call = NoCallback /\ \A h \in Handles : ~hs[h].open /\ ~hs[h].writable
    BY <1>1, <1>2, NoView, HandlesAre
  <1>4. Seen(s, v, hs) BY <1>3, ClosedSeen
  <1> QED BY <1>2, <1>4

LEMMA HandlesNext ==
  ASSUME ~Concurrent, OneHandle, ViewsOk, CallsOk, HandlesOk, [Next]_vars
  PROVE  HandlesOk'
  <1>1. ASSUME NEW i \in Shells, Shell(i) PROVE HandlesOk'
    <2>1. i \in Procs BY MountAssumption
    <2> QED BY <1>1, <2>1, ShellKeepsHandles DEF Shell
  <1>2. ASSUME WriteRefFile PROVE HandlesOk' BY <1>2, ShellKeepsHandles DEF WriteRefFile
  <1>3. ASSUME NEW m \in Mounts, MountStep(m) PROVE HandlesOk'
    <2>1. ASSUME NEW h \in Handles, NEW y, HandleMoved(m, h, y) PROVE HandlesOk'
      BY <2>1, MovedKeepsHandles
    <2>2. ASSUME NEW u, NEW c, NEW cs, Called(m, u, c, cs) PROVE HandlesOk'
      BY <2>2, CalledKeepsHandles
    <2>3. ASSUME NEW u, Rebased(m, u) PROVE HandlesOk' BY <2>3, RebasedKeepsHandles
    <2>4. ASSUME NEW u, NEW hs, Done(m, u, hs) PROVE HandlesOk' BY <2>4, DoneKeepsHandles
    <2>5. ASSUME Unmount(m) PROVE HandlesOk' BY <2>5, UnmountKeepsHandles
    <2> QED BY <1>3, <2>1, <2>2, <2>3, <2>4, <2>5 DEF MountStep
  <1>4. ASSUME UNCHANGED vars PROVE HandlesOk'
    BY <1>4 DEF vars, repoVars, mountVars, HandlesOk
  <1> QED BY <1>1, <1>2, <1>3, <1>4, StepsAre

(* A flush never writes over a change that its mount has not shown: with    *)
(* one handle at a time the branch's head has at the path what the handle   *)
(* read, and with many what the view shows; a change in between is a        *)
(* conflict (facade.rs 912-995, 3633-3680; windows.rs 1715-1816).           *)
THEOREM NoUpdateIsLost ==
  ASSUME ~Concurrent
  PROVE  Spec => NoLostUpdate
  <1>1. ASSUME ViewsOk, CallsOk, OneHandle => HandlesOk, Next,
               NEW m \in Mounts, NEW h \in Handles,
               mount'[m].call # mount[m].call, mount'[m].call.h = h,
               mount'[m].call.kind \in {"flush", "close"}
        PROVE  LET p == handle[m][h].path
               IN Content(Tree(WritableHead(Mounted[m])), p) =
                    IF OneHandle THEN handle[m][h].opened ELSE Content(Base(m), p)
    <2>1. PICK k \in Mounts : MountStep(k)
      BY <1>1, StepsAre DEF Shell, WriteRefFile, mountVars
    <2>2. k = m BY <1>1, <2>1, OthersStay
    <2>3. mount'[m].call # NoCallback BY <1>1, CallsAre
    <2>4. PICK u, c, cs : Called(m, u, c, cs)
      <3>1. ~\E g \in Handles : \E y : HandleMoved(m, g, y) BY <1>1, HandleMovedKeepsViews
      <3>2. ~\E v : Rebased(m, v) BY <1>1, <2>3, RebasedKeepsViews DEF Rebased
      <3>3. ~\E v, hs : Done(m, v, hs) BY <1>1, <2>3, DoneKeepsViews DEF Done, ViewIs
      <3>4. ~Unmount(m) BY <1>1, <2>3, UnmountKeepsViews, NoView
      <3> QED BY <2>1, <2>2, <3>1, <3>2, <3>3, <3>4 DEF MountStep
    <2>5. mount'[m].call = c BY <1>1, <2>4, CalledKeepsViews DEF Called
    <2>6. c.kind \in {"flush", "close"} /\ c.h = h BY <1>1, <2>5
    <2>7. PICK tree : Overwrites(m, Mounted[m], mount[m].base, cs, tree)
      BY <1>1, <2>4, CalledKeepsViews
    <2>8. Content(Base(m), handle[m][h].path)
            = Content(Tree(WritableHead(Mounted[m])), handle[m][h].path)
      BY <1>1, <2>4, <2>6, <2>7, SeesTheHead
    <2>9. ASSUME OneHandle
          PROVE  handle[m][h].opened = Content(Base(m), handle[m][h].path)
      <3>1. handle[m][h].writable BY <2>4, <2>6 DEF Called, Does, Dirty
      <3>2. ~handle[m][h].dir BY <1>1, <2>9, <3>1 DEF HandlesOk, Seen
      <3> QED BY <1>1, <2>4, <2>6, <2>9, <3>2, SeesTheBase
    <2> QED BY <2>8, <2>9
  <1>2. ViewsOk /\ CallsOk /\ (OneHandle => HandlesOk) /\ [Next]_vars =>
          [\A m \in Mounts, h \in Handles :
             mount'[m].call # mount[m].call /\ mount'[m].call.h = h
               /\ mount'[m].call.kind \in {"flush", "close"} =>
             LET p == handle[m][h].path
             IN Content(Tree(WritableHead(Mounted[m])), p) =
                  IF OneHandle THEN handle[m][h].opened ELSE Content(Base(m), p)]_vars
    BY <1>1
  <1>3. (OneHandle => HandlesOk) /\ ViewsOk /\ CallsOk /\ [Next]_vars => (OneHandle => HandlesOk)'
    BY HandlesNext
  <1>4. Init => (OneHandle => HandlesOk) BY HandlesInit
  <1> QED BY <1>2, <1>3, <1>4, CallsAlways, PTL DEF Spec, NoLostUpdate
=============================================================================
