------------------------------ MODULE ReadProofs ------------------------------
EXTENDS ReadPath, FiniteSetTheorems, WellFoundedInduction, SequenceTheorems, TLAPS

----------------------------------------------------------------------------
(* Recursion over numbers.                                                 *)

\* A set of numbers that is not empty has a least one.
LEMMA LeastNat ==
  ASSUME NEW S, S \subseteq Nat, S # {}
  PROVE  \E n \in S : \A m \in S : n <= m
  <1> DEFINE R == {ss \in Nat \X Nat : ss[1] < ss[2]}
  <1>1. OpToRel(<, Nat) = R BY DEF OpToRel
  <1>2. IsWellFoundedOn(R, Nat) BY <1>1, NatLessThanWellFounded
  <1> HIDE DEF R
  <1>3. \E x \in S : \A y \in S : <<y, x>> \notin R BY <1>2, WFMin
  <1>4. PICK n \in S : \A m \in S : ~(m < n) BY <1>3 DEF R
  <1> QED BY <1>4

\* A set of numbers with 0 and every successor has them all.
LEMMA SetInduction ==
  ASSUME NEW S, 0 \in S, \A n \in Nat : n \in S => n + 1 \in S
  PROVE  Nat \subseteq S
  <1> SUFFICES ASSUME Nat \ S # {} PROVE FALSE OBVIOUS
  <1>1. PICK n \in Nat \ S : \A m \in Nat \ S : n <= m BY LeastNat
  <1>2. n - 1 \in Nat /\ n - 1 < n BY <1>1
  <1>3. n - 1 \in S BY <1>1, <1>2
  <1> QED BY <1>2, <1>3

\* What is true at the first number of a range, and of each next one.
LEMMA UpTo ==
  ASSUME NEW N \in Nat, NEW S, 0 \in S, \A k \in 1..N : k - 1 \in S => k \in S
  PROVE  0..N \subseteq S
  <1> DEFINE T == {n \in Nat : n <= N => n \in S}
  <1>1. 0 \in T OBVIOUS
  <1>2. ASSUME NEW n \in Nat, n \in T PROVE n + 1 \in T
    <2> SUFFICES ASSUME n + 1 <= N PROVE n + 1 \in S OBVIOUS
    <2>1. n + 1 \in 1..N /\ n + 1 - 1 = n OBVIOUS
    <2>2. n \in S BY <1>2
    <2> QED BY <2>1, <2>2
  <1> HIDE DEF T
  <1>3. Nat \subseteq T BY <1>1, <1>2, SetInduction
  <1> QED BY <1>3 DEF T

\* A function whose every value is made of the one before exists.
Iterates(base, N, F, f) == f[0] = base /\ \A k \in 1..N : f[k] = F[k][f[k - 1]]
Iterated(D, base, N, F) == CHOOSE f \in [0..N -> D] : Iterates(base, N, F, f)

LEMMA Recursion ==
  ASSUME NEW D, NEW base \in D, NEW N \in Nat, NEW F,
         \A k \in 1..N : \A x \in D : F[k][x] \in D
  PROVE  Iterates(base, N, F, Iterated(D, base, N, F)) /\ Iterated(D, base, N, F) \in [0..N -> D]
  <1> DEFINE Good(n, f) == /\ f \in [0..n -> D] /\ f[0] = base
                           /\ \A k \in 1..n : f[k] = F[k][f[k - 1]]
             S == {n \in Nat : \E f : Good(n, f)}
  <1>1. 0 \in S
    <2>1. Good(0, [k \in 0..0 |-> base]) OBVIOUS
    <2> QED BY <2>1
  <1>2. ASSUME NEW k \in 1..N, k - 1 \in S PROVE k \in S
    <2>1. PICK f : Good(k - 1, f) BY <1>2
    <2> DEFINE x == F[k][f[k - 1]]
               g == [i \in 0..k |-> IF i = k THEN x ELSE f[i]]
    <2>2. k - 1 \in 0..k - 1 /\ f[k - 1] \in D BY <2>1
    <2>3. x \in D BY <2>2
    <2> HIDE DEF x
    <2>4. g \in [0..k -> D] BY <2>1, <2>3
    <2>5. g[0] = base BY <2>1
    <2>6. \A i \in 0..k - 1 : g[i] = f[i] OBVIOUS
    <2>7. g[k] = x OBVIOUS
    <2> HIDE DEF g
    <2>8. ASSUME NEW i \in 1..k PROVE g[i] = F[i][g[i - 1]]
      <3>1. i - 1 \in 0..k - 1 BY <2>8
      <3>2. CASE i = k BY <2>6, <2>7, <3>1, <3>2 DEF x
      <3>3. CASE i # k
        <4>1. i \in 1..k - 1 /\ i \in 0..k - 1 BY <3>3
        <4> QED BY <2>1, <2>6, <3>1, <4>1
      <3> QED BY <3>2, <3>3
    <2>9. Good(k, g) BY <2>4, <2>5, <2>8
    <2> QED BY <2>9
  <1> HIDE DEF S
  <1>3. N \in S BY <1>1, <1>2, UpTo
  <1>4. \E f \in [0..N -> D] : Iterates(base, N, F, f) BY <1>3 DEF S, Iterates
  <1> QED BY <1>4 DEF Iterated

----------------------------------------------------------------------------
(* Sums.                                                                   *)

SumTo(s, f) == f = [n \in 0..Len(s) |-> IF n = 0 THEN 0 ELSE f[n - 1] + s[n]]
Sums(s) == CHOOSE f : SumTo(s, f)

LEMMA SumsDef ==
  ASSUME NEW s \in Seq(Nat)
  PROVE  /\ Len(s) \in Nat /\ Sums(s)[0] = 0
         /\ \A k \in 0..Len(s) : Sums(s)[k] \in Nat
         /\ \A k \in 1..Len(s) : s[k] \in Nat /\ Sums(s)[k] = Sums(s)[k - 1] + s[k]
         /\ Total(s) = Sums(s)[Len(s)]
  <1> Len(s) \in Nat BY LenProperties
  <1> DEFINE F == [k \in 1..Len(s) |-> [x \in Nat |-> x + s[k]]]
  <1>2. \A k \in 1..Len(s) : \A x \in Nat : F[k][x] = x + s[k] OBVIOUS
  <1>1. \A k \in 1..Len(s) : \A x \in Nat : F[k][x] \in Nat OBVIOUS
  <1> HIDE DEF F
  <1> 0 \in Nat OBVIOUS
  <1> DEFINE f == Iterated(Nat, 0, Len(s), F)
  <1>3a. Iterates(0, Len(s), F, f) /\ f \in [0..Len(s) -> Nat] BY <1>1, Recursion
  <1> HIDE DEF f
  <1>3. f \in [0..Len(s) -> Nat] /\ f[0] = 0 /\ \A k \in 1..Len(s) : f[k] = F[k][f[k - 1]]
    BY <1>3a DEF Iterates
  <1>4. ASSUME NEW k \in 1..Len(s) PROVE f[k] = f[k - 1] + s[k]
    <2>1. k - 1 \in 0..Len(s) OBVIOUS
    <2> QED BY <1>2, <1>3, <2>1
  <1>5. SumTo(s, f) BY <1>3, <1>4 DEF SumTo
  <1>6. SumTo(s, Sums(s)) BY <1>5 DEF Sums
  <1> DEFINE g == Sums(s)
  <1>7. Total(s) = g[Len(s)] BY DEF Total, Sums, SumTo
  <1>8. g = [n \in 0..Len(s) |-> IF n = 0 THEN 0 ELSE g[n - 1] + s[n]] BY <1>6 DEF SumTo
  <1> HIDE DEF g
  <1>9. g[0] = 0 /\ \A k \in 1..Len(s) : g[k] = g[k - 1] + s[k] BY <1>8
  <1>10. \A k \in 0..Len(s) : g[k] \in Nat
    <2> DEFINE S == {k \in Nat : g[k] \in Nat}
    <2>1. 0 \in S BY <1>9
    <2>2. ASSUME NEW k \in 1..Len(s), k - 1 \in S PROVE k \in S
      BY <1>9, <2>2
    <2> HIDE DEF S
    <2>3. 0..Len(s) \subseteq S BY <2>1, <2>2, UpTo
    <2> QED BY <2>3 DEF S
  <1>11. \A k \in 1..Len(s) : s[k] \in Nat OBVIOUS
  <1> QED BY <1>7, <1>9, <1>10, <1>11 DEF g

LEMMA SumsGrow ==
  ASSUME NEW s \in Seq(Nat), NEW m \in 0..Len(s), NEW n \in m..Len(s)
  PROVE  Sums(s)[m] <= Sums(s)[n]
  <1> Len(s) \in Nat BY LenProperties
  <1> DEFINE S == {k \in Nat : m <= k => Sums(s)[m] <= Sums(s)[k]}
  <1>1. 0 \in S
    <2>1. 0 = m \/ ~(m <= 0) OBVIOUS
    <2>2. Sums(s)[0] = 0 BY SumsDef
    <2> QED BY <2>1, <2>2
  <1>2. ASSUME NEW k \in 1..Len(s), k - 1 \in S PROVE k \in S
    <2>1. k \in Nat /\ k - 1 \in 0..Len(s) /\ k \in 0..Len(s) OBVIOUS
    <2>2. Sums(s)[k] = Sums(s)[k - 1] + s[k] /\ s[k] \in Nat BY SumsDef
    <2>3. Sums(s)[k - 1] \in Nat /\ Sums(s)[m] \in Nat BY <2>1, SumsDef
    <2>4. k = m \/ m <= k - 1 \/ ~(m <= k) OBVIOUS
    <2>5. m <= k - 1 => Sums(s)[m] <= Sums(s)[k - 1] BY <1>2
    <2> QED BY <2>1, <2>2, <2>3, <2>4, <2>5
  <1> HIDE DEF S
  <1>3. 0..Len(s) \subseteq S BY <1>1, <1>2, UpTo
  <1> QED BY <1>3 DEF S

\* The sums of a part are those of the whole from there on.
LEMMA SumsOfPart ==
  ASSUME NEW s \in Seq(Nat), NEW a \in 0..Len(s), NEW b \in a..Len(s)
  PROVE  /\ SubSeq(s, a + 1, b) \in Seq(Nat) /\ Len(SubSeq(s, a + 1, b)) = b - a
         /\ \A k \in 0..b - a : Sums(SubSeq(s, a + 1, b))[k] = Sums(s)[a + k] - Sums(s)[a]
         /\ Total(SubSeq(s, a + 1, b)) = Sums(s)[b] - Sums(s)[a]
  <1> Len(s) \in Nat BY LenProperties
  <1> DEFINE t == SubSeq(s, a + 1, b)
  <1>1. t \in Seq(Nat) /\ Len(t) = b - a /\ \A k \in 1..b - a : t[k] = s[a + k]
    <2>1. \A i \in a + 1 .. b : s[i] \in Nat OBVIOUS
    <2> QED BY <2>1, SubSeqProperties
  <1> HIDE DEF t
  <1> DEFINE S == {k \in Nat : Sums(t)[k] = Sums(s)[a + k] - Sums(s)[a]}
  <1>2. 0 \in S
    <2>1. Sums(t)[0] = 0 /\ Sums(s)[a] \in Nat /\ a + 0 = a BY <1>1, SumsDef
    <2> QED BY <2>1
  <1>3. ASSUME NEW k \in 1..b - a, k - 1 \in S PROVE k \in S
    <2>1. Sums(t)[k] = Sums(t)[k - 1] + t[k] BY <1>1, SumsDef
    <2>2. a + k \in 1..Len(s) /\ (a + k) - 1 = a + (k - 1) OBVIOUS
    <2>3. Sums(s)[a + k] = Sums(s)[a + (k - 1)] + s[a + k] BY <2>2, SumsDef
    <2>3a. a + (k - 1) \in 0..Len(s) BY <2>2
    <2>3b. t[k] = s[a + k] BY <1>1
    <2>4. a + (k - 1) \in 0..Len(s) /\ t[k] = s[a + k] BY <2>3a, <2>3b
    <2>5. Sums(s)[a + (k - 1)] \in Nat /\ Sums(s)[a] \in Nat /\ s[a + k] \in Nat
      BY <2>2, <2>4, SumsDef
    <2>6. Sums(t)[k - 1] = Sums(s)[a + (k - 1)] - Sums(s)[a] BY <1>3
    <2>7. Sums(t)[k] = Sums(s)[a + k] - Sums(s)[a] BY <2>1, <2>3, <2>4, <2>5, <2>6
    <2> QED BY <2>7
  <1> HIDE DEF S
  <1>4. b - a \in Nat OBVIOUS
  <1>5. 0..b - a \subseteq S BY <1>2, <1>3, <1>4, UpTo
  <1>6. \A k \in 0..b - a : Sums(t)[k] = Sums(s)[a + k] - Sums(s)[a] BY <1>5 DEF S
  <1>7a. b - a \in 0..b - a /\ a + (b - a) = b OBVIOUS
  <1>7b. Total(t) = Sums(t)[Len(t)] BY <1>1, SumsDef
  <1>7. Total(t) = Sums(t)[b - a] /\ b - a \in 0..b - a /\ a + (b - a) = b BY <1>1, <1>7a, <1>7b
  <1> QED BY <1>1, <1>6, <1>7 DEF t

----------------------------------------------------------------------------
(* Sequences one after the other.                                          *)

Lengths(parts) == [i \in 1..Len(parts) |-> Len(parts[i])]

JoinTo(s, f) == f = [n \in 0..Len(s) |-> IF n = 0 THEN << >> ELSE f[n - 1] \o s[n]]
Joins(s) == CHOOSE f : JoinTo(s, f)

LEMMA JoinsDef ==
  ASSUME NEW s \in Seq(Seq(Nat))
  PROVE  /\ Len(s) \in Nat /\ Joins(s)[0] = << >>
         /\ \A k \in 0..Len(s) : Joins(s)[k] \in Seq(Nat)
         /\ \A k \in 1..Len(s) : s[k] \in Seq(Nat) /\ Joins(s)[k] = Joins(s)[k - 1] \o s[k]
         /\ Joined(s) = Joins(s)[Len(s)]
  <1> Len(s) \in Nat BY LenProperties
  <1> DEFINE F == [k \in 1..Len(s) |-> [x \in Seq(Nat) |-> x \o s[k]]]
  <1>2. \A k \in 1..Len(s) : \A x \in Seq(Nat) : F[k][x] = x \o s[k] OBVIOUS
  <1>1. \A k \in 1..Len(s) : \A x \in Seq(Nat) : F[k][x] \in Seq(Nat)
    <2> TAKE k \in 1..Len(s)
    <2> TAKE x \in Seq(Nat)
    <2>1. s[k] \in Seq(Nat) OBVIOUS
    <2> HIDE DEF F
    <2>2. F[k][x] = x \o s[k] BY <1>2
    <2> QED BY <2>1, <2>2, ConcatProperties
  <1> HIDE DEF F
  <1> << >> \in Seq(Nat) OBVIOUS
  <1> DEFINE f == Iterated(Seq(Nat), << >>, Len(s), F)
  <1>3a. Iterates(<< >>, Len(s), F, f) /\ f \in [0..Len(s) -> Seq(Nat)] BY <1>1, Recursion
  <1> HIDE DEF f
  <1>3. f \in [0..Len(s) -> Seq(Nat)] /\ f[0] = << >> /\ \A k \in 1..Len(s) : f[k] = F[k][f[k - 1]]
    BY <1>3a DEF Iterates
  <1>4. ASSUME NEW k \in 1..Len(s) PROVE f[k] = f[k - 1] \o s[k]
    <2>1. k - 1 \in 0..Len(s) OBVIOUS
    <2> QED BY <1>2, <1>3, <2>1
  <1>5. JoinTo(s, f)
    <2> DEFINE h == [n \in 0..Len(s) |-> IF n = 0 THEN << >> ELSE f[n - 1] \o s[n]]
    <2>1. \A n \in 0..Len(s) : f[n] = h[n]
      <3> TAKE n \in 0..Len(s)
      <3>1. CASE n = 0 BY <1>3, <3>1
      <3>2. CASE n \in 1..Len(s)
        <4>1. f[n] = f[n - 1] \o s[n] BY <1>4, <3>2
        <4>2. n \in 0..Len(s) /\ n # 0 BY <3>2
        <4>3. h[n] = f[n - 1] \o s[n] BY <4>2, Zenon
        <4> QED BY <4>1, <4>3, Zenon
      <3>3. n = 0 \/ n \in 1..Len(s) OBVIOUS
      <3> QED BY <3>1, <3>2, <3>3
    <2> HIDE DEF h
    <2>2. f = h
      <3>1. DOMAIN f = 0..Len(s) /\ f = [n \in 0..Len(s) |-> f[n]] BY <1>3
      <3>2. h = [n \in 0..Len(s) |-> h[n]] BY DEF h
      <3> QED BY <2>1, <3>1, <3>2
    <2> QED BY <2>2 DEF JoinTo, h
  <1>6. JoinTo(s, Joins(s)) BY <1>5 DEF Joins
  <1> DEFINE g == Joins(s)
  <1>7. Joined(s) = g[Len(s)] BY DEF Joined, Joins, JoinTo
  <1>8. g = [n \in 0..Len(s) |-> IF n = 0 THEN << >> ELSE g[n - 1] \o s[n]] BY <1>6 DEF JoinTo
  <1> HIDE DEF g
  <1>9a. g[0] = << >>
    <2>1. 0 \in 0..Len(s) OBVIOUS
    <2> QED BY <1>8, <2>1, Zenon
  <1>9b. ASSUME NEW k \in 1..Len(s) PROVE g[k] = g[k - 1] \o s[k]
    <2>1. k \in 0..Len(s) /\ k # 0 OBVIOUS
    <2> QED BY <1>8, <2>1, Zenon
  <1>9. g[0] = << >> /\ \A k \in 1..Len(s) : g[k] = g[k - 1] \o s[k] BY <1>9a, <1>9b
  <1>10. \A k \in 0..Len(s) : g[k] \in Seq(Nat)
    <2> DEFINE S == {k \in Nat : g[k] \in Seq(Nat)}
    <2>1. 0 \in S BY <1>9
    <2>2. ASSUME NEW k \in 1..Len(s), k - 1 \in S PROVE k \in S
      <3>1. g[k] = g[k - 1] \o s[k] /\ g[k - 1] \in Seq(Nat) BY <1>9, <2>2
      <3>2. s[k] \in Seq(Nat) OBVIOUS
      <3>3. g[k] \in Seq(Nat) BY <3>1, <3>2, ConcatProperties
      <3> QED BY <3>3
    <2> HIDE DEF S
    <2>3. 0..Len(s) \subseteq S BY <2>1, <2>2, UpTo
    <2> QED BY <2>3 DEF S
  <1>11. \A k \in 1..Len(s) : s[k] \in Seq(Nat) OBVIOUS
  <1> QED BY <1>7, <1>9, <1>10, <1>11 DEF g

\* Where the second of two parts lies.
LEMMA ConcatAt ==
  ASSUME NEW x \in Seq(Nat), NEW y \in Seq(Nat)
  PROVE  /\ Len(x \o y) = Len(x) + Len(y)
         /\ \A j \in 1..Len(x) : (x \o y)[j] = x[j]
         /\ \A j \in 1..Len(y) : (x \o y)[Len(x) + j] = y[j]
  <1>1. Len(x) \in Nat /\ Len(y) \in Nat BY LenProperties
  <1>2. Len(x \o y) = Len(x) + Len(y) BY ConcatProperties
  <1>3. \A i \in 1..Len(x) + Len(y) : (x \o y)[i] = IF i <= Len(x) THEN x[i] ELSE y[i - Len(x)]
    BY ConcatProperties
  <1>4. ASSUME NEW j \in 1..Len(x) PROVE (x \o y)[j] = x[j]
    <2>1. j \in 1..Len(x) + Len(y) /\ j <= Len(x) BY <1>1
    <2> QED BY <1>3, <2>1
  <1>5. ASSUME NEW j \in 1..Len(y) PROVE (x \o y)[Len(x) + j] = y[j]
    <2>1. /\ Len(x) + j \in 1..Len(x) + Len(y) /\ ~(Len(x) + j <= Len(x))
          /\ Len(x) + j - Len(x) = j BY <1>1
    <2> DEFINE i == Len(x) + j
    <2>2. (x \o y)[i] = IF i <= Len(x) THEN x[i] ELSE y[i - Len(x)] BY <1>3, <2>1
    <2>3. (x \o y)[i] = y[i - Len(x)] BY <2>1, <2>2
    <2> QED BY <2>1, <2>3
  <1> QED BY <1>2, <1>4, <1>5

\* The first parts are as long as the sum of their lengths, and the whole
\* begins with them.
LEMMA JoinsGrow ==
  ASSUME NEW s \in Seq(Seq(Nat))
  PROVE  /\ Lengths(s) \in Seq(Nat) /\ Len(Lengths(s)) = Len(s)
         /\ \A k \in 0..Len(s) : Len(Joins(s)[k]) = Sums(Lengths(s))[k]
         /\ \A k \in 0..Len(s) : \A n \in k..Len(s) : \A j \in 1..Len(Joins(s)[k]) :
              Joins(s)[n][j] = Joins(s)[k][j]
  <1> DEFINE L == Lengths(s)
  <1> Len(s) \in Nat BY LenProperties
  <1>1. L \in Seq(Nat) /\ Len(L) = Len(s) /\ \A k \in 1..Len(s) : L[k] = Len(s[k])
    <2>1. \A k \in 1..Len(s) : Len(s[k]) \in Nat BY LenProperties, ElementOfSeq
    <2> QED BY <2>1 DEF Lengths
  <1> HIDE DEF L
  <1>2. ASSUME NEW k \in 1..Len(s)
        PROVE  /\ k - 1 \in 0..Len(s) /\ s[k] \in Seq(Nat) /\ Joins(s)[k - 1] \in Seq(Nat)
               /\ Joins(s)[k] = Joins(s)[k - 1] \o s[k]
               /\ Len(Joins(s)[k]) = Len(Joins(s)[k - 1]) + Len(s[k])
               /\ \A j \in 1..Len(Joins(s)[k - 1]) : Joins(s)[k][j] = Joins(s)[k - 1][j]
    <2>1. k - 1 \in 0..Len(s) OBVIOUS
    <2>2. s[k] \in Seq(Nat) /\ Joins(s)[k - 1] \in Seq(Nat) /\ Joins(s)[k] = Joins(s)[k - 1] \o s[k]
      BY <2>1, JoinsDef
    <2> DEFINE x == Joins(s)[k - 1]  y == s[k]
    <2> HIDE DEF x, y
    <2>3. x \in Seq(Nat) /\ y \in Seq(Nat) BY <2>2 DEF x, y
    <2>4. Len(x \o y) = Len(x) + Len(y) /\ \A j \in 1..Len(x) : (x \o y)[j] = x[j]
      BY <2>3, ConcatProperties
    <2> QED BY <2>1, <2>2, <2>4 DEF x, y
  <1>3. \A k \in 0..Len(s) : Len(Joins(s)[k]) = Sums(L)[k]
    <2> DEFINE S == {k \in Nat : Len(Joins(s)[k]) = Sums(L)[k]}
    <2>1. 0 \in S
      <3>1. Joins(s)[0] = << >> /\ Sums(L)[0] = 0 BY <1>1, JoinsDef, SumsDef
      <3> QED BY <3>1
    <2>2. ASSUME NEW k \in 1..Len(s), k - 1 \in S PROVE k \in S
      <3>1. Sums(L)[k] = Sums(L)[k - 1] + L[k] BY <1>1, SumsDef
      <3>2. L[k] = Len(s[k]) BY <1>1
      <3>3. Len(Joins(s)[k]) = Len(Joins(s)[k - 1]) + Len(s[k]) BY <1>2
      <3>4. Len(Joins(s)[k - 1]) = Sums(L)[k - 1] BY <2>2
      <3>5. Len(Joins(s)[k]) = Sums(L)[k] BY <3>1, <3>2, <3>3, <3>4
      <3> QED BY <3>5
    <2> HIDE DEF S
    <2>3. 0..Len(s) \subseteq S BY <2>1, <2>2, UpTo
    <2> QED BY <2>3 DEF S
  <1>4. ASSUME NEW k \in 0..Len(s), NEW n \in k..Len(s), NEW j \in 1..Len(Joins(s)[k])
        PROVE  Joins(s)[n][j] = Joins(s)[k][j]
    <2> DEFINE S == {i \in Nat : k <= i => /\ Joins(s)[i][j] = Joins(s)[k][j]
                                          /\ Len(Joins(s)[k]) <= Len(Joins(s)[i])}
    <2>0. Len(Joins(s)[k]) \in Nat BY JoinsDef, LenProperties
    <2>1. 0 \in S
      <3>1. k = 0 \/ ~(k <= 0) OBVIOUS
      <3> QED BY <2>0, <3>1
    <2>2. ASSUME NEW i \in 1..Len(s), i - 1 \in S PROVE i \in S
      <3> SUFFICES ASSUME k <= i PROVE /\ Joins(s)[i][j] = Joins(s)[k][j]
                                       /\ Len(Joins(s)[k]) <= Len(Joins(s)[i]) OBVIOUS
      <3>1. CASE i = k BY <2>0, <3>1
      <3>2. CASE i # k
        <4>1. k <= i - 1 BY <3>2
        <4>2. Joins(s)[i - 1][j] = Joins(s)[k][j] /\ Len(Joins(s)[k]) <= Len(Joins(s)[i - 1])
          BY <2>2, <4>1
        <4>3a. Joins(s)[i - 1] \in Seq(Nat) /\ s[i] \in Seq(Nat) BY <1>2
        <4>3. Len(Joins(s)[i - 1]) \in Nat /\ Len(s[i]) \in Nat BY <4>3a, LenProperties
        <4>4. j \in 1..Len(Joins(s)[i - 1]) BY <2>0, <4>2, <4>3
        <4>5. Joins(s)[i][j] = Joins(s)[i - 1][j] BY <1>2, <4>4
        <4>6. Len(Joins(s)[i]) = Len(Joins(s)[i - 1]) + Len(s[i]) BY <1>2
        <4>7. Joins(s)[i][j] = Joins(s)[k][j] BY <4>2, <4>5
        <4>8. Len(Joins(s)[k]) <= Len(Joins(s)[i])
          <5> DEFINE a == Len(Joins(s)[k])  b == Len(Joins(s)[i - 1])  c == Len(s[i])
          <5>1. a \in Nat /\ b \in Nat /\ c \in Nat /\ a <= b BY <2>0, <4>2, <4>3
          <5>2. Len(Joins(s)[i]) = b + c BY <4>6
          <5> HIDE DEF a, b, c
          <5>3. a <= b + c BY <5>1
          <5> QED BY <5>2, <5>3 DEF a
        <4> QED BY <4>7, <4>8
      <3> QED BY <3>1, <3>2
    <2> HIDE DEF S
    <2>3. 0..Len(s) \subseteq S BY <2>1, <2>2, UpTo
    <2>4. n \in 0..Len(s) /\ k <= n OBVIOUS
    <2> QED BY <2>3, <2>4 DEF S
  <1> QED BY <1>1, <1>3, <1>4 DEF L

\* Where each part lies in the whole.
LEMMA JoinedAt ==
  ASSUME NEW s \in Seq(Seq(Nat))
  PROVE  /\ Joined(s) \in Seq(Nat) /\ Len(Joined(s)) = Sums(Lengths(s))[Len(s)]
         /\ \A k \in 1..Len(s) : \A j \in 1..Len(s[k]) :
              Joined(s)[Sums(Lengths(s))[k - 1] + j] = s[k][j]
  <1> Len(s) \in Nat BY LenProperties
  <1>0. Len(s) \in 0..Len(s) OBVIOUS
  <1>1. Joined(s) = Joins(s)[Len(s)] /\ Joined(s) \in Seq(Nat) BY <1>0, JoinsDef
  <1>2a. \A k \in 0..Len(s) : Len(Joins(s)[k]) = Sums(Lengths(s))[k] BY JoinsGrow
  <1>2b. \A k \in 0..Len(s) : \A n \in k..Len(s) : \A j \in 1..Len(Joins(s)[k]) :
           Joins(s)[n][j] = Joins(s)[k][j] BY JoinsGrow
  <1>2. Len(Joined(s)) = Sums(Lengths(s))[Len(s)] BY <1>0, <1>1, <1>2a
  <1>3. ASSUME NEW k \in 1..Len(s), NEW j \in 1..Len(s[k])
        PROVE  Joined(s)[Sums(Lengths(s))[k - 1] + j] = s[k][j]
    <2>1. k - 1 \in 0..Len(s) /\ k \in 0..Len(s) /\ Len(s) \in k..Len(s) OBVIOUS
    <2> DEFINE x == Joins(s)[k - 1]  y == s[k]
    <2>2. x \in Seq(Nat) /\ y \in Seq(Nat) /\ Joins(s)[k] = x \o y BY <2>1, JoinsDef
    <2>3. Len(x) = Sums(Lengths(s))[k - 1] BY <2>1, JoinsGrow
    <2> HIDE DEF x, y
    <2>4. Len(x) \in Nat /\ Len(y) \in Nat /\ j \in 1..Len(y) BY <2>2, LenProperties DEF y
    <2>5. (x \o y)[Len(x) + j] = y[j] /\ Len(x \o y) = Len(x) + Len(y) BY <2>2, <2>4, ConcatAt
    <2> DEFINE z == x \o y
    <2>6. z[Len(x) + j] = y[j] /\ Len(z) = Len(x) + Len(y) BY <2>5
    <2> HIDE DEF z
    <2>7. Len(x) + j \in 1..Len(z) /\ Joins(s)[k] = z BY <2>2, <2>4, <2>6 DEF z
    <2>8. Joins(s)[Len(s)][Len(x) + j] = z[Len(x) + j] BY <1>2b, <2>1, <2>7
    <2> QED BY <1>1, <2>3, <2>6, <2>8 DEF y
  <1> QED BY <1>1, <1>2, <1>3

----------------------------------------------------------------------------
(* Chunks appended one after the other.                                    *)

LEMMA LeastOf ==
  ASSUME NEW a \in Nat, NEW b \in Nat
  PROVE  /\ Least(a, b) \in Nat /\ Least(a, b) <= a /\ Least(a, b) <= b
         /\ (a <= b => Least(a, b) = a) /\ (b <= a => Least(a, b) = b)
         /\ Monus(a, b) \in Nat /\ (a <= b => Monus(a, b) = 0) /\ (b <= a => Monus(a, b) = a - b)
  BY DEF Least, Monus

LEMMA Part ==
  ASSUME NEW w \in Seq(Nat), NEW a \in Nat, NEW b \in Nat, b <= Len(w)
  PROVE  /\ SubSeq(w, a + 1, b) \in Seq(Nat)
         /\ b <= a => SubSeq(w, a + 1, b) = << >>
         /\ Len(SubSeq(w, a + 1, b)) = Monus(b, a)
         /\ a <= b => Len(SubSeq(w, a + 1, b)) = b - a
         /\ \A j \in 1..b - a : SubSeq(w, a + 1, b)[j] = w[a + j]
  <1> Len(w) \in Nat BY LenProperties
  <1>1. \A i \in a + 1 .. b : w[i] \in Nat OBVIOUS
  <1> DEFINE t == SubSeq(w, a + 1, b)
  <1>2. /\ t \in Seq(Nat)
        /\ Len(t) = IF a + 1 <= b THEN b - (a + 1) + 1 ELSE 0
        /\ \A i \in 1 .. b - (a + 1) + 1 : t[i] = w[a + 1 + i - 1]
    BY <1>1, SubSeqProperties
  <1>3. b <= a => t = << >>
    <2> SUFFICES ASSUME b <= a PROVE t = << >> OBVIOUS
    <2>1. b < a + 1 OBVIOUS
    <2> QED BY <2>1, SubSeqEmpty
  <1> HIDE DEF t
  <1>4. Len(t) = Monus(b, a) BY <1>2 DEF Monus
  <1>4a. a <= b => Len(t) = b - a BY <1>2
  <1>5. \A j \in 1..b - a : t[j] = w[a + j]
    <2> TAKE j \in 1..b - a
    <2>1. j \in 1..b - (a + 1) + 1 /\ a + 1 + j - 1 = a + j OBVIOUS
    <2> QED BY <1>2, <2>1
  <1> QED BY <1>2, <1>3, <1>4, <1>4a, <1>5 DEF t

\* What has been read of w up to p, of the range from o to e.
Got(acc, w, p, o, e) ==
  /\ acc.output = SubSeq(w, o + 1, Least(p, e))
  /\ acc.start \in Nat /\ (acc.start = p \/ p >= e)

\* c lies in w from p on.
LiesAt(c, w, p) == p + Len(c) <= Len(w) /\ \A j \in 1..Len(c) : w[p + j] = c[j]

\* The bytes of the chunk that lies at p.
Spliced(c, w, p, o, e) ==
  SubSeq(w, o + 1, Least(p, e)) \o SubSeq(c, Monus(o, p) + 1, Least(e - p, Len(c)))
    = SubSeq(w, o + 1, Least(p + Len(c), e))

LEMMA ChunkAppended ==
  ASSUME NEW w \in Seq(Nat), NEW c \in Seq(Nat), NEW p \in Nat, NEW o \in Nat, NEW e \in Nat,
         o < e, e <= Len(w), p < e, o < p + Len(c), LiesAt(c, w, p)
  PROVE  Spliced(c, w, p, o, e)
  <1> DEFINE n == Len(c)  to == Least(e - p, n)  q == Least(p + n, e)  from == Monus(o, p)
             x == SubSeq(w, o + 1, p)  y == SubSeq(c, from + 1, to)  z == SubSeq(w, o + 1, q)
  <1> Len(w) \in Nat /\ Len(c) \in Nat /\ e - p \in Nat /\ p + n \in Nat BY LenProperties
  <1>0. p + Len(c) <= Len(w) /\ \A j \in 1..Len(c) : w[p + j] = c[j] BY DEF LiesAt
  <1>1. Least(p, e) = p BY LeastOf
  <1>2. to \in Nat /\ to <= n /\ q = p + to /\ q <= e
    <2> DEFINE d == e - p
    <2>1. d \in Nat /\ n \in Nat /\ e = p + d OBVIOUS
    <2>2. to = (IF d <= n THEN d ELSE n) /\ q = (IF p + n <= e THEN p + n ELSE e) BY DEF Least
    <2> HIDE DEF d, n, to, q
    <2>3. CASE d <= n
      <3>1. p + n >= e /\ to = d BY <2>1, <2>2, <2>3
      <3>2. q = e BY <2>1, <2>2, <3>1
      <3> QED BY <2>1, <2>3, <3>1, <3>2
    <2>4. CASE ~(d <= n)
      <3>1. p + n <= e /\ to = n BY <2>1, <2>2, <2>4
      <3>2. q = p + n BY <2>2, <3>1
      <3> QED BY <2>1, <3>1, <3>2
    <2> QED BY <2>3, <2>4
  <1>3. from \in Nat /\ from <= to /\ (o <= p => from = 0) /\ (p <= o => p + from = o)
    BY <1>2 DEF Least, Monus
  <1> HIDE DEF n, to, q, from
  <1>4a. p <= Len(w) OBVIOUS
  <1>4. x \in Seq(Nat) /\ Len(x) = Monus(p, o) /\ \A j \in 1..p - o : x[j] = w[o + j]
    BY <1>4a, Part
  <1>5. y \in Seq(Nat) /\ Len(y) = to - from /\ \A j \in 1..to - from : y[j] = c[from + j]
    BY <1>2, <1>3, Part DEF n
  <1>6a. o <= q /\ q <= Len(w) /\ q \in Nat BY <1>0, <1>2, <1>3
  <1>6. z \in Seq(Nat) /\ Len(z) = q - o /\ \A j \in 1..q - o : z[j] = w[o + j]
    BY <1>6a, Part
  <1> HIDE DEF x, y, z
  <1>7. Len(x) \in Nat /\ Len(x) + Len(y) = q - o
    <2>1. CASE o <= p
      <3>1. Len(x) = p - o BY <1>4, <2>1 DEF Monus
      <3> QED BY <1>2, <1>3, <1>5, <2>1, <3>1
    <2>2. CASE ~(o <= p)
      <3>1. Len(x) = 0 BY <1>4, <2>2 DEF Monus
      <3> QED BY <1>2, <1>3, <1>5, <2>2, <3>1
    <2> QED BY <2>1, <2>2
  <1>8. Len(x \o y) = Len(x) + Len(y) /\ x \o y \in Seq(Nat) BY <1>4, <1>5, ConcatAt, ConcatProperties
  <1>9. ASSUME NEW i \in 1..q - o PROVE (x \o y)[i] = z[i]
    <2>1. z[i] = w[o + i] BY <1>6
    <2>2. CASE i <= Len(x)
      <3>1. Len(x) = p - o BY <1>4, <2>2 DEF Monus
      <3>2. i \in 1..p - o /\ i \in 1..Len(x) BY <2>2, <3>1
      <3>3. (x \o y)[i] = x[i] BY <1>4, <1>5, <3>2, ConcatAt
      <3> QED BY <1>4, <2>1, <3>2, <3>3
    <2>3. CASE ~(i <= Len(x))
      <3> DEFINE j == i - Len(x)
      <3>1. j \in 1..to - from /\ Len(x) + j = i /\ j \in Nat BY <1>5, <1>6a, <1>7, <2>3
      <3> HIDE DEF j
      <3>2. from + j \in 1..n /\ p + (from + j) = o + i
        <4>1. from + j \in 1..n
          <5>1. n \in Nat BY DEF n
          <5> QED BY <1>2, <1>3, <3>1, <5>1
        <4>2. p + from = o + Len(x)
          <5>1. CASE o <= p
            <6>1. Len(x) = p - o
              <7>1. p = o \/ ~(p <= o) BY <5>1
              <7> QED BY <1>4, <7>1 DEF Monus
            <6>2. from = 0 BY <1>3, <5>1
            <6> QED BY <6>1, <6>2
          <5>2. CASE ~(o <= p)
            <6>1. p <= o BY <5>2
            <6>2. Len(x) = 0 BY <1>4, <6>1 DEF Monus
            <6>3. p + from = o BY <1>3, <6>1
            <6> QED BY <6>2, <6>3
          <5> QED BY <5>1, <5>2
        <4>3. p + from + j = o + Len(x) + j BY <4>2
        <4> QED BY <1>3, <1>7, <3>1, <4>1, <4>3
      <3>2a. j \in 1..Len(y) BY <1>5, <3>1
      <3>3. (x \o y)[Len(x) + j] = y[j] BY <1>4, <1>5, <3>2a, ConcatAt
      <3>4. y[j] = c[from + j] BY <1>5, <3>1
      <3>5. w[p + (from + j)] = c[from + j] BY <1>0, <3>2 DEF n
      <3> QED BY <2>1, <3>1, <3>2, <3>3, <3>4, <3>5
    <2> QED BY <2>2, <2>3
  <1> DEFINE u == x \o y
  <1>10a. u \in Seq(Nat) /\ Len(u) = q - o BY <1>7, <1>8
  <1>10b. \A i \in 1..q - o : u[i] = z[i] BY <1>9
  <1> HIDE DEF u
  <1>10. u \in Seq(Nat) /\ Len(u) = Len(z) /\ \A i \in 1..Len(u) : u[i] = z[i]
    BY <1>6, <1>10a, <1>10b
  <1>11. u = z BY <1>6, <1>10, SeqEqual
  <1> QED BY <1>1, <1>11 DEF x, y, z, u, n, to, q, from, Spliced

Accs == [output : Seq(Nat), start : Nat, read : Seq(DOMAIN Data)]

\* How long what was read is, and what that says of p.
LEMMA GotLength ==
  ASSUME NEW w \in Seq(Nat), NEW acc, NEW p \in Nat, NEW o \in Nat, NEW e \in Nat,
         o < e, e <= Len(w), Got(acc, w, p, o, e)
  PROVE  /\ Len(acc.output) \in Nat /\ (Len(acc.output) >= e - o <=> p >= e)
         /\ p < e => acc.start = p
         /\ p <= o => acc.output = << >>
  <1> Len(w) \in Nat BY LenProperties
  <1> DEFINE q == Least(p, e)
  <1>1. q \in Nat /\ q <= p /\ q <= e /\ (p <= e => q = p) /\ (e <= p => q = e) BY LeastOf
  <1> HIDE DEF q
  <1>2a. q <= Len(w) BY <1>1
  <1>2. /\ Len(SubSeq(w, o + 1, q)) = Monus(q, o) /\ (q <= o => SubSeq(w, o + 1, q) = << >>)
    BY <1>1, <1>2a, Part
  <1>3. acc.output = SubSeq(w, o + 1, q) BY DEF Got, q
  <1>4. Len(acc.output) = Monus(q, o) BY <1>2, <1>3
  <1>5. Monus(q, o) \in Nat /\ (q <= o => Monus(q, o) = 0) /\ (o <= q => Monus(q, o) = q - o)
    BY <1>1, LeastOf
  <1>6. Len(acc.output) >= e - o <=> p >= e
    <2>1. Monus(q, o) >= e - o <=> p >= e BY <1>1, <1>5
    <2> QED BY <1>4, <2>1
  <1>7. p <= o => acc.output = << >>
    <2>1. p <= o => q <= o BY <1>1
    <2> QED BY <1>2, <1>3, <2>1
  <1>8. p < e => acc.start = p BY DEF Got
  <1> QED BY <1>4, <1>5, <1>6, <1>7, <1>8

\* Past the end, more bytes change nothing.
LEMMA GotPastEnd ==
  ASSUME NEW w, NEW acc, NEW p \in Nat, NEW n \in Nat, NEW o, NEW e \in Nat, p >= e,
         Got(acc, w, p, o, e)
  PROVE  Got(acc, w, p + n, o, e)
  <1>0. p + n \in Nat /\ e <= p /\ e <= p + n OBVIOUS
  <1>1. Least(p, e) = e /\ Least(p + n, e) = e /\ p + n >= e BY <1>0, LeastOf
  <1> QED BY <1>1 DEF Got

\* Before the beginning, nothing is read.
LEMMA GotBefore ==
  ASSUME NEW w \in Seq(Nat), NEW acc, NEW p \in Nat, NEW o \in Nat, NEW e \in Nat,
         o < e, e <= Len(w), p <= o, acc.output = << >>, acc.start = p
  PROVE  Got(acc, w, p, o, e)
  <1> Len(w) \in Nat BY LenProperties
  <1>0. p <= e /\ p <= Len(w) OBVIOUS
  <1>1. Least(p, e) = p /\ p <= Len(w) BY <1>0, LeastOf
  <1>2. SubSeq(w, o + 1, p) = << >> BY <1>1, Part
  <1> QED BY <1>1, <1>2 DEF Got

LEMMA ChunkStep ==
  ASSUME NEW w \in Seq(Nat), NEW c \in DOMAIN Data, NEW p \in Nat, NEW o \in Nat, NEW e \in Nat,
         o < e, e <= Len(w), LiesAt(Data[c], w, p),
         NEW acc \in Accs, Got(acc, w, p, o, e)
  PROVE  /\ AppendChunk(acc, c, o, e) \in Accs
         /\ Got(AppendChunk(acc, c, o, e), w, p + Length(c), o, e)
  <1> DEFINE n == Length(c)
             stop == acc.start + n
             more == [output |-> acc.output \o Slice(Data[c], Monus(o, acc.start), Least(e - acc.start, n)),
                      start |-> stop, read |-> Append(acc.read, c)]
             next == AppendChunk(acc, c, o, e)
  <1>0. Data[c] \in Seq(Nat) /\ n \in Nat /\ Len(w) \in Nat BY RangesAssumption, LenProperties DEF Length
  <1>0a. acc.output \in Seq(Nat) /\ acc.start \in Nat /\ acc.read \in Seq(DOMAIN Data) BY DEF Accs
  <1>1. /\ Len(acc.output) \in Nat /\ (Len(acc.output) >= e - o <=> p >= e)
        /\ p < e => acc.start = p
        /\ p <= o => acc.output = << >> BY GotLength
  <1>2. next = IF Len(acc.output) >= e - o THEN acc
               ELSE IF stop <= o THEN [acc EXCEPT !.start = stop]
               ELSE IF acc.start >= e THEN acc
               ELSE more BY DEF AppendChunk
  <1> HIDE DEF next, n
  <1>3. CASE p >= e
    <2>1. next = acc BY <1>1, <1>2, <1>3
    <2> QED BY <1>0, <1>3, <2>1, GotPastEnd DEF next, n
  <1>4. CASE p < e
    <2>1. acc.start = p /\ stop = p + n /\ ~(Len(acc.output) >= e - o) /\ ~(acc.start >= e)
      BY <1>1, <1>4
    <2>2. CASE stop <= o
      <3>1. next = [acc EXCEPT !.start = stop] BY <1>2, <2>1, <2>2
      <3>2. stop \in Nat /\ p <= o BY <1>0, <2>1, <2>2
      <3>3. next \in Accs /\ next.start = stop /\ next.output = acc.output BY <3>1, <3>2 DEF Accs
      <3>4. next.output = << >> BY <1>1, <3>2, <3>3
      <3>5. Got(next, w, stop, o, e) BY <2>2, <3>2, <3>3, <3>4, GotBefore
      <3> QED BY <2>1, <3>3, <3>5 DEF next, n
    <2>3. CASE ~(stop <= o)
      <3>1. next = more BY <1>2, <2>1, <2>3
      <3>2. stop \in Nat /\ o < p + n BY <1>0, <2>1, <2>3
      <3> DEFINE out == acc.output \o Slice(Data[c], Monus(o, p), Least(e - p, n))
      <3>3. next.output = out /\ next.start = stop /\ next.read = Append(acc.read, c)
            /\ next = [output |-> out, start |-> stop, read |-> Append(acc.read, c)] BY <2>1, <3>1
      <3>4. acc.output = SubSeq(w, o + 1, Least(p, e)) BY DEF Got
      <3>5. out = SubSeq(w, o + 1, Least(p + n, e))
        <4> DEFINE d == Data[c]
        <4>1. d \in Seq(Nat) /\ Len(d) = n /\ LiesAt(d, w, p)
          BY <1>0 DEF n, Length
        <4> HIDE DEF d
        <4>2. Spliced(d, w, p, o, e)
          <5>1. o < p + Len(d) BY <3>2, <4>1 DEF n
          <5>2. LiesAt(d, w, p) BY <4>1
          <5>3. d \in Seq(Nat) BY <4>1
          <5> QED BY <1>4, <5>1, <5>2, <5>3, ChunkAppended
        <4> QED BY <3>4, <4>1, <4>2 DEF Slice, d, Spliced
      <3> HIDE DEF out
      <3>6. out \in Seq(Nat)
        <4>0. p + n \in Nat BY <1>0
        <4>1a. Least(p + n, e) \in Nat /\ Least(p + n, e) <= e BY <4>0, LeastOf
        <4>1. Least(p + n, e) \in Nat /\ Least(p + n, e) <= Len(w) BY <1>0, <4>1a
        <4> QED BY <3>5, <4>1, Part
      <3>7. Append(acc.read, c) \in Seq(DOMAIN Data) BY <1>0a, AppendProperties
      <3>8. next \in Accs BY <3>2, <3>3, <3>6, <3>7 DEF Accs
      <3>9. Got(next, w, p + n, o, e) BY <2>1, <3>2, <3>3, <3>5 DEF Got
      <3> QED BY <3>8, <3>9 DEF next, n
    <2> QED BY <2>2, <2>3
  <1> QED BY <1>3, <1>4

LEMMA ChunkTyped ==
  ASSUME NEW c \in DOMAIN Data, NEW o \in Nat, NEW e \in Nat, NEW acc \in Accs
  PROVE  AppendChunk(acc, c, o, e) \in Accs
  <1> DEFINE n == Length(c)
             stop == acc.start + n
             from == Monus(o, acc.start)
             to == Least(e - acc.start, n)
             out == acc.output \o SubSeq(Data[c], from + 1, to)
             more == [output |-> out, start |-> stop, read |-> Append(acc.read, c)]
             next == AppendChunk(acc, c, o, e)
  <1>1. Data[c] \in Seq(Nat) /\ n \in Nat /\ n = Len(Data[c]) BY RangesAssumption, LenProperties DEF Length
  <1>2. acc.output \in Seq(Nat) /\ acc.start \in Nat /\ acc.read \in Seq(DOMAIN Data) BY DEF Accs
  <1>3. next = IF Len(acc.output) >= e - o THEN acc
               ELSE IF stop <= o THEN [acc EXCEPT !.start = stop]
               ELSE IF acc.start >= e THEN acc
               ELSE more BY DEF AppendChunk, Slice
  <1>4. stop \in Nat BY <1>1, <1>2
  <1> HIDE DEF n, next, stop, more
  <1>5. [acc EXCEPT !.start = stop] \in Accs BY <1>4 DEF Accs
  <1>6. ASSUME ~(acc.start >= e) PROVE more \in Accs
    <2>1. from \in Nat /\ to \in Nat /\ to <= Len(Data[c])
      <3>1. e - acc.start \in Nat BY <1>2, <1>6
      <3> QED BY <1>1, <1>2, <3>1, LeastOf
    <2>2. SubSeq(Data[c], from + 1, to) \in Seq(Nat) BY <1>1, <2>1, Part
    <2>3. out \in Seq(Nat) BY <1>2, <2>2, ConcatProperties
    <2>4. Append(acc.read, c) \in Seq(DOMAIN Data) BY <1>2, AppendProperties
    <2> HIDE DEF out
    <2> QED BY <1>4, <2>3, <2>4 DEF Accs, more
  <1>7. next \in Accs BY <1>3, <1>5, <1>6
  <1> QED BY <1>7 DEF next

AppendTo(acc, cs, o, e, f) ==
  f = [n \in 0..Len(cs) |-> IF n = 0 THEN acc ELSE AppendChunk(f[n - 1], cs[n], o, e)]
Appends(acc, cs, o, e) == CHOOSE f : AppendTo(acc, cs, o, e, f)

LEMMA AppendsDef ==
  ASSUME NEW acc \in Accs, NEW cs \in Seq(DOMAIN Data), NEW o \in Nat, NEW e \in Nat
  PROVE  /\ Len(cs) \in Nat /\ Appends(acc, cs, o, e)[0] = acc
         /\ \A k \in 1..Len(cs) :
              Appends(acc, cs, o, e)[k] = AppendChunk(Appends(acc, cs, o, e)[k - 1], cs[k], o, e)
         /\ AppendChunks(acc, cs, o, e) = Appends(acc, cs, o, e)[Len(cs)]
  <1> Len(cs) \in Nat BY LenProperties
  <1> DEFINE F == [k \in 1..Len(cs) |-> [x \in Accs |-> AppendChunk(x, cs[k], o, e)]]
  <1>2. \A k \in 1..Len(cs) : \A x \in Accs : F[k][x] = AppendChunk(x, cs[k], o, e) OBVIOUS
  <1> HIDE DEF F
  <1>1. \A k \in 1..Len(cs) : \A x \in Accs : F[k][x] \in Accs
    <2> TAKE k \in 1..Len(cs)
    <2> TAKE x \in Accs
    <2>1. cs[k] \in DOMAIN Data BY ElementOfSeq
    <2>2. AppendChunk(x, cs[k], o, e) \in Accs BY <2>1, ChunkTyped
    <2> QED BY <1>2, <2>2
  <1> DEFINE f == Iterated(Accs, acc, Len(cs), F)
  <1>3a. Iterates(acc, Len(cs), F, f) /\ f \in [0..Len(cs) -> Accs] BY <1>1, Recursion
  <1> HIDE DEF f
  <1>3. f \in [0..Len(cs) -> Accs] /\ f[0] = acc /\ \A k \in 1..Len(cs) : f[k] = F[k][f[k - 1]]
    BY <1>3a DEF Iterates
  <1>4. ASSUME NEW k \in 1..Len(cs) PROVE f[k] = AppendChunk(f[k - 1], cs[k], o, e)
    <2>1. k - 1 \in 0..Len(cs) OBVIOUS
    <2> QED BY <1>2, <1>3, <2>1
  <1>5. AppendTo(acc, cs, o, e, f)
    <2> DEFINE h == [n \in 0..Len(cs) |-> IF n = 0 THEN acc ELSE AppendChunk(f[n - 1], cs[n], o, e)]
    <2>1. \A n \in 0..Len(cs) : f[n] = h[n]
      <3> TAKE n \in 0..Len(cs)
      <3>1. CASE n = 0 BY <1>3, <3>1
      <3>2. CASE n \in 1..Len(cs)
        <4>1. n \in 0..Len(cs) /\ n # 0 BY <3>2
        <4> QED BY <1>4, <3>2, <4>1, Zenon
      <3>3. n = 0 \/ n \in 1..Len(cs) OBVIOUS
      <3> QED BY <3>1, <3>2, <3>3
    <2> HIDE DEF h
    <2>2. f = h
      <3>1. DOMAIN f = 0..Len(cs) /\ f = [n \in 0..Len(cs) |-> f[n]] BY <1>3
      <3>2. h = [n \in 0..Len(cs) |-> h[n]] BY DEF h
      <3> QED BY <2>1, <3>1, <3>2
    <2> QED BY <2>2 DEF AppendTo, h
  <1>6. AppendTo(acc, cs, o, e, Appends(acc, cs, o, e)) BY <1>5 DEF Appends
  <1> DEFINE g == Appends(acc, cs, o, e)
  <1>7. AppendChunks(acc, cs, o, e) = g[Len(cs)] BY DEF AppendChunks, Appends, AppendTo
  <1>8. g = [n \in 0..Len(cs) |-> IF n = 0 THEN acc ELSE AppendChunk(g[n - 1], cs[n], o, e)]
    BY <1>6 DEF AppendTo
  <1> HIDE DEF g
  <1>9. g[0] = acc
    <2>1. 0 \in 0..Len(cs) OBVIOUS
    <2> QED BY <1>8, <2>1, Zenon
  <1>10. ASSUME NEW k \in 1..Len(cs) PROVE g[k] = AppendChunk(g[k - 1], cs[k], o, e)
    <2>1. k \in 0..Len(cs) /\ k # 0 OBVIOUS
    <2> QED BY <1>8, <2>1, Zenon
  <1> QED BY <1>7, <1>9, <1>10 DEF g

ChunkSizes(cs) == [i \in 1..Len(cs) |-> Length(cs[i])]

\* The chunks cs lie in w one after the other from p on.
LieAt(cs, w, p) ==
  \A k \in 1..Len(cs) : LiesAt(Data[cs[k]], w, p + Sums(ChunkSizes(cs))[k - 1])

LEMMA SizesOfChunks ==
  ASSUME NEW cs \in Seq(DOMAIN Data)
  PROVE  /\ ChunkSizes(cs) \in Seq(Nat) /\ Len(ChunkSizes(cs)) = Len(cs)
         /\ \A k \in 1..Len(cs) : cs[k] \in DOMAIN Data /\ ChunkSizes(cs)[k] = Len(Data[cs[k]])
         /\ ByteLength(cs) = Sums(ChunkSizes(cs))[Len(cs)] /\ ByteLength(cs) \in Nat
  <1> Len(cs) \in Nat BY LenProperties
  <1>1. ASSUME NEW k \in 1..Len(cs) PROVE cs[k] \in DOMAIN Data /\ Length(cs[k]) \in Nat
    <2>1. cs[k] \in DOMAIN Data BY ElementOfSeq
    <2>2. Data[cs[k]] \in Seq(Nat) BY <2>1, RangesAssumption
    <2> QED BY <2>1, <2>2, LenProperties DEF Length
  <1> DEFINE s == ChunkSizes(cs)
  <1>2. s \in Seq(Nat) /\ Len(s) = Len(cs) /\ \A k \in 1..Len(cs) : s[k] = Length(cs[k])
    BY <1>1 DEF ChunkSizes
  <1>3. ByteLength(cs) = Total(s) BY DEF ByteLength, ChunkSizes
  <1> HIDE DEF s
  <1>4. Total(s) = Sums(s)[Len(s)] /\ Len(s) \in 0..Len(s) /\ \A k \in 0..Len(s) : Sums(s)[k] \in Nat
    BY <1>2, SumsDef
  <1>5. ByteLength(cs) = Sums(s)[Len(cs)] /\ ByteLength(cs) \in Nat BY <1>2, <1>3, <1>4
  <1>6. \A k \in 1..Len(cs) : cs[k] \in DOMAIN Data /\ s[k] = Len(Data[cs[k]]) BY <1>1, <1>2 DEF Length
  <1> QED BY <1>2, <1>5, <1>6 DEF s

LEMMA ChunksAppended ==
  ASSUME NEW w \in Seq(Nat), NEW cs \in Seq(DOMAIN Data), NEW p \in Nat, NEW o \in Nat, NEW e \in Nat,
         o < e, e <= Len(w), LieAt(cs, w, p),
         NEW acc \in Accs, Got(acc, w, p, o, e)
  PROVE  /\ AppendChunks(acc, cs, o, e) \in Accs
         /\ Got(AppendChunks(acc, cs, o, e), w, p + ByteLength(cs), o, e)
  <1> Len(cs) \in Nat BY LenProperties
  <1> DEFINE f == Appends(acc, cs, o, e)
             s == ChunkSizes(cs)
             S == {k \in Nat : f[k] \in Accs /\ Got(f[k], w, p + Sums(s)[k], o, e)}
  <1>1. f[0] = acc /\ \A k \in 1..Len(cs) : f[k] = AppendChunk(f[k - 1], cs[k], o, e) BY AppendsDef
  <1>2. AppendChunks(acc, cs, o, e) = f[Len(cs)] BY AppendsDef
  <1> HIDE DEF f
  <1>3. s \in Seq(Nat) /\ Len(s) = Len(cs) /\ \A k \in 1..Len(cs) :
          cs[k] \in DOMAIN Data /\ s[k] = Len(Data[cs[k]]) BY SizesOfChunks
  <1>4. ByteLength(cs) = Sums(s)[Len(cs)] BY SizesOfChunks
  <1>5. LieAt(cs, w, p) => \A k \in 1..Len(cs) : LiesAt(Data[cs[k]], w, p + Sums(s)[k - 1]) BY DEF LieAt
  <1> HIDE DEF s
  <1>6. /\ Sums(s)[0] = 0 /\ \A k \in 0..Len(s) : Sums(s)[k] \in Nat
        /\ \A k \in 1..Len(s) : Sums(s)[k] = Sums(s)[k - 1] + s[k] BY <1>3, SumsDef
  <1>7. 0 \in S
    <2>1. p + Sums(s)[0] = p BY <1>6
    <2> QED BY <1>1, <2>1
  <1>8. ASSUME NEW k \in 1..Len(cs), k - 1 \in S PROVE k \in S
    <2> DEFINE at == p + Sums(s)[k - 1]
    <2>1. k - 1 \in 0..Len(s) /\ k \in Nat BY <1>3
    <2>2. Sums(s)[k - 1] \in Nat BY <1>6, <2>1
    <2>3. at \in Nat BY <2>2
    <2>4. LiesAt(Data[cs[k]], w, at) /\ cs[k] \in DOMAIN Data BY <1>3, <1>5
    <2>5. f[k - 1] \in Accs /\ Got(f[k - 1], w, at, o, e) BY <1>8
    <2>6. s[k] = Length(cs[k]) /\ Sums(s)[k] = Sums(s)[k - 1] + s[k] BY <1>3, <1>6 DEF Length
    <2>6a. s[k] \in Nat BY <1>3
    <2>7. p + Sums(s)[k] = at + Length(cs[k]) BY <2>2, <2>6, <2>6a
    <2> HIDE DEF at
    <2>8. /\ AppendChunk(f[k - 1], cs[k], o, e) \in Accs
          /\ Got(AppendChunk(f[k - 1], cs[k], o, e), w, at + Length(cs[k]), o, e)
      BY <2>3, <2>4, <2>5, ChunkStep
    <2>9. f[k] = AppendChunk(f[k - 1], cs[k], o, e) BY <1>1
    <2> QED BY <2>1, <2>7, <2>8, <2>9
  <1> HIDE DEF S
  <1>9. 0..Len(cs) \subseteq S BY <1>7, <1>8, UpTo
  <1>10. Len(cs) \in S BY <1>9
  <1> QED BY <1>2, <1>4, <1>10 DEF S

----------------------------------------------------------------------------
(* Shards of chunks.                                                       *)

ShardAccs == [bytes : Accs, shard : Nat]
GotShard(acc, w, p, o, e) == Got(acc.bytes, w, p, o, e) /\ (acc.shard = p \/ p >= e)

LEMMA ShardTyped ==
  ASSUME NEW cs \in Seq(DOMAIN Data), NEW o \in Nat, NEW e \in Nat, NEW acc \in ShardAccs
  PROVE  AppendShard(acc, cs, o, e) \in ShardAccs
  <1> DEFINE stop == acc.shard + ByteLength(cs)
             early == [bytes |-> [acc.bytes EXCEPT !.start = stop], shard |-> stop]
             more == [bytes |-> AppendChunks(acc.bytes, cs, o, e), shard |-> stop]
             next == AppendShard(acc, cs, o, e)
  <1>1. acc.bytes \in Accs /\ acc.shard \in Nat /\ ByteLength(cs) \in Nat BY SizesOfChunks DEF ShardAccs
  <1>2. stop \in Nat BY <1>1
  <1>3. next \in {acc, early, more} BY DEF AppendShard
  <1> HIDE DEF stop, next
  <1>4. early \in ShardAccs
    <2>1. [acc.bytes EXCEPT !.start = stop] \in Accs BY <1>1, <1>2 DEF Accs
    <2> QED BY <1>2, <2>1 DEF ShardAccs
  <1>5. more \in ShardAccs
    <2>1. AppendChunks(acc.bytes, cs, o, e) \in Accs
      <3> DEFINE a == acc.bytes  f == Appends(a, cs, o, e)
                 S == {k \in Nat : f[k] \in Accs}
      <3> Len(cs) \in Nat BY LenProperties
      <3>1. /\ f[0] = a /\ \A k \in 1..Len(cs) : f[k] = AppendChunk(f[k - 1], cs[k], o, e)
            /\ AppendChunks(a, cs, o, e) = f[Len(cs)] BY <1>1, AppendsDef
      <3>2. a \in Accs BY <1>1
      <3> HIDE DEF a, f
      <3>3. 0 \in S BY <3>1, <3>2
      <3>4. ASSUME NEW k \in 1..Len(cs), k - 1 \in S PROVE k \in S
        <4>1. cs[k] \in DOMAIN Data BY ElementOfSeq
        <4>2. f[k - 1] \in Accs BY <3>4
        <4>3. AppendChunk(f[k - 1], cs[k], o, e) \in Accs BY <4>1, <4>2, ChunkTyped
        <4> QED BY <3>1, <4>3
      <3> HIDE DEF S
      <3>5. 0..Len(cs) \subseteq S BY <3>3, <3>4, UpTo
      <3>6. Len(cs) \in S BY <3>5
      <3> QED BY <3>1, <3>6 DEF S, a
    <2> QED BY <1>2, <2>1 DEF ShardAccs
  <1> HIDE DEF early, more
  <1> QED BY <1>3, <1>4, <1>5 DEF next

LEMMA ShardStep ==
  ASSUME NEW w \in Seq(Nat), NEW cs \in Seq(DOMAIN Data), NEW p \in Nat, NEW o \in Nat, NEW e \in Nat,
         o < e, e <= Len(w), LieAt(cs, w, p),
         NEW acc \in ShardAccs, GotShard(acc, w, p, o, e)
  PROVE  GotShard(AppendShard(acc, cs, o, e), w, p + ByteLength(cs), o, e)
  <1> DEFINE n == ByteLength(cs)
             stop == acc.shard + n
             early == [bytes |-> [acc.bytes EXCEPT !.start = stop], shard |-> stop]
             more == [bytes |-> AppendChunks(acc.bytes, cs, o, e), shard |-> stop]
             next == AppendShard(acc, cs, o, e)
             b == acc.bytes
  <1>1. b \in Accs /\ acc.shard \in Nat /\ n \in Nat BY SizesOfChunks DEF ShardAccs
  <1>2. Got(b, w, p, o, e) /\ (acc.shard = p \/ p >= e) BY DEF GotShard
  <1>3. next = IF Len(b.output) >= e - o \/ (stop > o /\ acc.shard >= e) THEN acc
               ELSE IF stop <= o THEN early ELSE more BY DEF AppendShard
  <1>4. /\ Len(b.output) \in Nat /\ (Len(b.output) >= e - o <=> p >= e)
        /\ p < e => b.start = p
        /\ p <= o => b.output = << >> BY <1>2, GotLength
  <1> HIDE DEF next, n
  <1>5. CASE p >= e
    <2>1. next = acc BY <1>3, <1>4, <1>5
    <2>2a. p + n >= e BY <1>1, <1>5
    <2>2b. Got(b, w, p + n, o, e) BY <1>1, <1>2, <1>5, GotPastEnd
    <2>2. Got(b, w, p + n, o, e) /\ p + n >= e BY <2>2a, <2>2b
    <2> QED BY <2>1, <2>2 DEF GotShard, next, n
  <1>6. CASE p < e
    <2>1. acc.shard = p /\ stop = p + n /\ b.start = p BY <1>2, <1>4, <1>6
    <2>2. ~(Len(b.output) >= e - o) /\ ~(acc.shard >= e) BY <1>4, <1>6, <2>1
    <2>3. CASE stop <= o
      <3> DEFINE c == [b EXCEPT !.start = stop]
      <3>1. next = early /\ early.bytes = c /\ early.shard = stop BY <1>3, <2>2, <2>3
      <3>2. p <= o /\ stop \in Nat BY <1>1, <2>1, <2>3
      <3>3. c.start = stop /\ c.output = b.output BY <1>1 DEF Accs
      <3>4. c.output = << >> BY <1>4, <3>2, <3>3
      <3> HIDE DEF c
      <3>5. Got(c, w, stop, o, e) BY <2>3, <3>2, <3>3, <3>4, GotBefore
      <3> QED BY <2>1, <3>1, <3>5 DEF GotShard, next, n
    <2>4. CASE ~(stop <= o)
      <3>1. next = more /\ more.bytes = AppendChunks(b, cs, o, e) /\ more.shard = stop
        BY <1>3, <2>2, <2>4
      <3>2. Got(AppendChunks(b, cs, o, e), w, p + ByteLength(cs), o, e) BY <1>1, <1>2, ChunksAppended
      <3> QED BY <2>1, <3>1, <3>2 DEF GotShard, next, n
    <2> QED BY <2>3, <2>4
  <1> QED BY <1>5, <1>6

AppendShardsTo(acc, shards, o, e, f) ==
  f = [n \in 0..Len(shards) |-> IF n = 0 THEN acc ELSE AppendShard(f[n - 1], shards[n], o, e)]
ShardAppends(acc, shards, o, e) == CHOOSE f : AppendShardsTo(acc, shards, o, e, f)

LEMMA ShardAppendsDef ==
  ASSUME NEW acc \in ShardAccs, NEW cs \in Seq(Seq(DOMAIN Data)), NEW o \in Nat, NEW e \in Nat
  PROVE  /\ Len(cs) \in Nat /\ ShardAppends(acc, cs, o, e)[0] = acc
         /\ \A k \in 1..Len(cs) :
              ShardAppends(acc, cs, o, e)[k] = AppendShard(ShardAppends(acc, cs, o, e)[k - 1], cs[k], o, e)
         /\ AppendShards(acc, cs, o, e) = ShardAppends(acc, cs, o, e)[Len(cs)]
  <1> Len(cs) \in Nat BY LenProperties
  <1> DEFINE F == [k \in 1..Len(cs) |-> [x \in ShardAccs |-> AppendShard(x, cs[k], o, e)]]
  <1>2. \A k \in 1..Len(cs) : \A x \in ShardAccs : F[k][x] = AppendShard(x, cs[k], o, e) OBVIOUS
  <1> HIDE DEF F
  <1>1. \A k \in 1..Len(cs) : \A x \in ShardAccs : F[k][x] \in ShardAccs
    <2> TAKE k \in 1..Len(cs)
    <2> TAKE x \in ShardAccs
    <2>1. cs[k] \in Seq(DOMAIN Data) BY ElementOfSeq
    <2>2. AppendShard(x, cs[k], o, e) \in ShardAccs BY <2>1, ShardTyped
    <2> QED BY <1>2, <2>2
  <1> DEFINE f == Iterated(ShardAccs, acc, Len(cs), F)
  <1>3a. Iterates(acc, Len(cs), F, f) /\ f \in [0..Len(cs) -> ShardAccs] BY <1>1, Recursion
  <1> HIDE DEF f
  <1>3. f \in [0..Len(cs) -> ShardAccs] /\ f[0] = acc /\ \A k \in 1..Len(cs) : f[k] = F[k][f[k - 1]]
    BY <1>3a DEF Iterates
  <1>4. ASSUME NEW k \in 1..Len(cs) PROVE f[k] = AppendShard(f[k - 1], cs[k], o, e)
    <2>1. k - 1 \in 0..Len(cs) OBVIOUS
    <2> QED BY <1>2, <1>3, <2>1
  <1>5. AppendShardsTo(acc, cs, o, e, f)
    <2> DEFINE h == [n \in 0..Len(cs) |-> IF n = 0 THEN acc ELSE AppendShard(f[n - 1], cs[n], o, e)]
    <2>1. \A n \in 0..Len(cs) : f[n] = h[n]
      <3> TAKE n \in 0..Len(cs)
      <3>1. CASE n = 0 BY <1>3, <3>1
      <3>2. CASE n \in 1..Len(cs)
        <4>1. n \in 0..Len(cs) /\ n # 0 BY <3>2
        <4> QED BY <1>4, <3>2, <4>1, Zenon
      <3>3. n = 0 \/ n \in 1..Len(cs) OBVIOUS
      <3> QED BY <3>1, <3>2, <3>3
    <2> HIDE DEF h
    <2>2. f = h
      <3>1. DOMAIN f = 0..Len(cs) /\ f = [n \in 0..Len(cs) |-> f[n]] BY <1>3
      <3>2. h = [n \in 0..Len(cs) |-> h[n]] BY DEF h
      <3> QED BY <2>1, <3>1, <3>2
    <2> QED BY <2>2 DEF AppendShardsTo, h
  <1>6. AppendShardsTo(acc, cs, o, e, ShardAppends(acc, cs, o, e)) BY <1>5 DEF ShardAppends
  <1> DEFINE g == ShardAppends(acc, cs, o, e)
  <1>7. AppendShards(acc, cs, o, e) = g[Len(cs)] BY DEF AppendShards, ShardAppends, AppendShardsTo
  <1>8. g = [n \in 0..Len(cs) |-> IF n = 0 THEN acc ELSE AppendShard(g[n - 1], cs[n], o, e)]
    BY <1>6 DEF AppendShardsTo
  <1> HIDE DEF g
  <1>9. g[0] = acc
    <2>1. 0 \in 0..Len(cs) OBVIOUS
    <2> QED BY <1>8, <2>1, Zenon
  <1>10. ASSUME NEW k \in 1..Len(cs) PROVE g[k] = AppendShard(g[k - 1], cs[k], o, e)
    <2>1. k \in 0..Len(cs) /\ k # 0 OBVIOUS
    <2> QED BY <1>8, <2>1, Zenon
  <1> QED BY <1>7, <1>9, <1>10 DEF g

LEMMA Quotient ==
  ASSUME NEW x \in Nat, NEW m \in Nat \ {0}
  PROVE  x \div m \in Nat /\ (x \div m) * m <= x /\ x < (x \div m) * m + m
  <1> DEFINE q == x \div m  r == x % m
  <1>1. q \in Int /\ r \in 0..m - 1 /\ x = m * q + r OBVIOUS
  <1>2. q \in Nat
    <2> SUFFICES ASSUME ~(q >= 0) PROVE FALSE BY <1>1
    <2>1. q <= -1 BY <1>1
    <2>2. m * q <= -m BY <1>1, <2>1
    <2> QED BY <1>1, <2>2
  <1>3. m * q = q * m /\ q * m \in Int BY <1>1
  <1> HIDE DEF q, r
  <1>4. q * m <= x /\ x < q * m + m BY <1>1, <1>3
  <1> QED BY <1>2, <1>4 DEF q

LEMMA Multiples ==
  ASSUME NEW i \in Nat, NEW n \in Nat, NEW m \in Nat, i <= n
  PROVE  i * m \in Nat /\ n * m \in Nat /\ i * m <= n * m /\ (i - 1) * m = i * m - m
  OBVIOUS

\* The shards of a list of chunks, and where they lie.
LEMMA ShardsLie ==
  ASSUME NEW w, NEW cs \in Seq(DOMAIN Data), LieAt(cs, w, 0)
  PROVE  \E at \in [0..Len(Shards(cs)) -> Nat] :
           /\ Shards(cs) \in Seq(Seq(DOMAIN Data))
           /\ at[0] = 0 /\ at[Len(Shards(cs))] = ByteLength(cs)
           /\ \A k \in 1..Len(Shards(cs)) :
                /\ LieAt(Shards(cs)[k], w, at[k - 1])
                /\ at[k] = at[k - 1] + ByteLength(Shards(cs)[k])
  <1> DEFINE M == MaxChunksPerObject
             n == Len(cs)
             N == (n + M - 1) \div M
             t == Shards(cs)
             s == ChunkSizes(cs)
             End(i) == Least(i * M, n)
             at == [i \in 0..N |-> Sums(s)[End(i)]]
  <1> n \in Nat /\ M \in Nat \ {0} BY LenProperties, RangesAssumption
  <1>1. /\ s \in Seq(Nat) /\ Len(s) = n /\ \A k \in 1..n : cs[k] \in DOMAIN Data /\ s[k] = Len(Data[cs[k]])
        /\ ByteLength(cs) = Sums(s)[n] BY SizesOfChunks
  <1>2. t = [i \in 1..N |-> SubSeq(cs, (i - 1) * M + 1, End(i))] BY DEF Shards
  <1>3. \A k \in 1..n : LiesAt(Data[cs[k]], w, 0 + Sums(s)[k - 1]) BY DEF LieAt
  <1>4. n + M - 1 \in Nat OBVIOUS
  <1>5. N \in Nat /\ N * M <= n + M - 1 /\ n + M - 1 < N * M + M BY <1>4, Quotient
  <1> HIDE DEF N, t, s, n, M
  <1>6. ASSUME NEW i \in 0..N PROVE End(i) \in 0..n /\ i * M \in Nat
    <2>1. i * M \in Nat BY <1>5, Multiples
    <2> DEFINE x == i * M
    <2>2. x \in Nat BY <2>1
    <2> HIDE DEF x
    <2>3. Least(x, n) \in 0..n BY <2>2 DEF Least
    <2> QED BY <2>1, <2>3 DEF x
  <1>7. ASSUME NEW i \in 1..N PROVE i - 1 \in 0..N /\ End(i - 1) = (i - 1) * M /\ End(i) \in End(i - 1)..n
    <2>1. i - 1 \in Nat /\ i \in Nat BY <1>5
    <2>2. i * M \in Nat /\ N * M \in Nat /\ i * M <= N * M /\ (i - 1) * M = i * M - M BY <1>5, <2>1, Multiples
    <2>3. (i - 1) * M \in Nat BY <2>1, Multiples
    <2>4. (i - 1) * M <= n /\ (i - 1) * M <= i * M BY <1>5, <2>2
    <2>5. End(i - 1) = (i - 1) * M BY <2>3, <2>4, LeastOf
    <2>6. End(i) \in (i - 1) * M .. n BY <2>2, <2>3, <2>4 DEF Least
    <2> QED BY <1>5, <2>5, <2>6
  <1>8. End(0) = 0 /\ End(N) = n
    <2>1. 0 * M = 0 OBVIOUS
    <2>2. N * M \in Nat BY <1>5, Multiples
    <2>3. n <= N * M BY <1>5, <2>2
    <2> QED BY <2>1, <2>2, <2>3, LeastOf
  <1> HIDE DEF End
  <1>9. Len(t) = N /\ t \in Seq(Seq(DOMAIN Data))
        /\ \A k \in 1..N : t[k] = SubSeq(cs, End(k - 1) + 1, End(k)) /\ t[k] \in Seq(DOMAIN Data)
    <2>1. ASSUME NEW k \in 1..N
          PROVE  SubSeq(cs, (k - 1) * M + 1, End(k)) = SubSeq(cs, End(k - 1) + 1, End(k))
      BY <1>7
    <2>2. ASSUME NEW k \in 1..N
          PROVE  SubSeq(cs, End(k - 1) + 1, End(k)) \in Seq(DOMAIN Data)
      <3>1. End(k - 1) \in 0..n /\ End(k) \in 0..n BY <1>6, <1>7
      <3>2. \A j \in End(k - 1) + 1 .. End(k) : cs[j] \in DOMAIN Data BY <1>1, <3>1
      <3>3. End(k - 1) + 1 \in Int /\ End(k) \in Int BY <3>1
      <3> QED BY <3>2, <3>3, SubSeqProperties
    <2>3. t = [i \in 1..N |-> SubSeq(cs, End(i - 1) + 1, End(i))] BY <1>2, <2>1
    <2> HIDE DEF at
    <2>4. \A k \in 1..N : t[k] = SubSeq(cs, End(k - 1) + 1, End(k)) BY <2>3
    <2>5. t \in [1..N -> Seq(DOMAIN Data)] BY <2>2, <2>3
    <2> QED BY <1>5, <2>2, <2>4, <2>5
  <1>10. \A i \in 0..n : Sums(s)[i] \in Nat BY <1>1, SumsDef
  <1>11. at \in [0..N -> Nat] /\ at[0] = Sums(s)[0] /\ at[N] = Sums(s)[n]
    <2>1. \A i \in 0..N : Sums(s)[End(i)] \in Nat BY <1>6, <1>10
    <2>2. 0 \in 0..N /\ N \in 0..N BY <1>5
    <2> QED BY <1>8, <2>1, <2>2
  <1>12. Sums(s)[0] = 0 BY <1>1, SumsDef
  <1>13. ASSUME NEW k \in 1..N
         PROVE  LieAt(t[k], w, at[k - 1]) /\ at[k] = at[k - 1] + ByteLength(t[k])
    <2> DEFINE a == End(k - 1)  b == End(k)  u == t[k]  r == ChunkSizes(u)
    <2>1. a \in 0..n /\ b \in a..n /\ k - 1 \in 0..N /\ k \in 0..N BY <1>6, <1>7
    <2>2. at[k - 1] = Sums(s)[a] /\ at[k] = Sums(s)[b] BY <2>1
    <2>3. u = SubSeq(cs, a + 1, b) /\ u \in Seq(DOMAIN Data) BY <1>9
    <2> HIDE DEF at, a, b, u
    <2>4. Len(u) = b - a /\ \A j \in 1..b - a : u[j] = cs[a + j]
      <3>1. \A j \in a + 1 .. b : cs[j] \in DOMAIN Data BY <1>1, <2>1
      <3>2. a + 1 \in Int /\ b \in Int BY <2>1
      <3>3. Len(u) = IF a + 1 <= b THEN b - (a + 1) + 1 ELSE 0 BY <2>3, <3>1, <3>2, SubSeqProperties
      <3>4. \A j \in 1 .. b - (a + 1) + 1 : u[j] = cs[a + 1 + j - 1] BY <2>3, <3>1, <3>2, SubSeqProperties
      <3>5. Len(u) = b - a BY <2>1, <3>3
      <3>6. ASSUME NEW j \in 1..b - a PROVE u[j] = cs[a + j]
        <4>1. j \in 1 .. b - (a + 1) + 1 /\ a + 1 + j - 1 = a + j BY <2>1
        <4> QED BY <3>4, <4>1
      <3> QED BY <3>5, <3>6
    <2>5. /\ SubSeq(s, a + 1, b) \in Seq(Nat) /\ Len(SubSeq(s, a + 1, b)) = b - a
          /\ \A j \in 0..b - a : Sums(SubSeq(s, a + 1, b))[j] = Sums(s)[a + j] - Sums(s)[a]
          /\ Total(SubSeq(s, a + 1, b)) = Sums(s)[b] - Sums(s)[a]
      BY <1>1, <2>1, SumsOfPart
    <2>6. r = SubSeq(s, a + 1, b)
      <3> DEFINE v == SubSeq(s, a + 1, b)
      <3>1. r \in Seq(Nat) /\ Len(r) = b - a /\ \A j \in 1..b - a : r[j] = Len(Data[u[j]])
        BY <2>3, <2>4, SizesOfChunks
      <3>2. \A j \in 1..b - a : v[j] = s[a + j]
        <4>1. a \in Nat /\ b \in Nat /\ b <= Len(s) BY <1>1, <2>1
        <4> QED BY <1>1, <4>1, Part
      <3>3. v \in Seq(Nat) /\ Len(v) = b - a BY <2>5
      <3> HIDE DEF r, v
      <3>4. ASSUME NEW j \in 1..b - a PROVE r[j] = v[j]
        <4>1. a + j \in 1..n BY <2>1
        <4> QED BY <1>1, <2>4, <3>1, <3>2, <4>1
      <3>5. r = v BY <3>1, <3>3, <3>4, SeqEqual
      <3> QED BY <3>5 DEF r, v
    <2>7. ByteLength(u) = Total(r) BY DEF ByteLength, ChunkSizes
    <2> DEFINE v == SubSeq(s, a + 1, b)
    <2>8. ByteLength(u) = Sums(s)[b] - Sums(s)[a] BY <2>5, <2>6, <2>7
    <2>9. Sums(s)[a] \in Nat /\ Sums(s)[b] \in Nat BY <1>10, <2>1
    <2>10. at[k] = at[k - 1] + ByteLength(u) BY <2>2, <2>8, <2>9
    <2>11. LieAt(u, w, Sums(s)[a])
      <3>1. ASSUME NEW j \in 1..Len(u) PROVE LiesAt(Data[u[j]], w, Sums(s)[a] + Sums(r)[j - 1])
        <4>1. j \in 1..b - a /\ j - 1 \in 0..b - a BY <2>1, <2>4
        <4>2. u[j] = cs[a + j] BY <2>4, <4>1
        <4>3. Sums(r)[j - 1] = Sums(s)[a + (j - 1)] - Sums(s)[a] BY <2>5, <2>6, <4>1
        <4>4. a + j \in 1..n /\ a + j - 1 = a + (j - 1) /\ a + (j - 1) \in 0..n BY <2>1, <4>1
        <4>5. Sums(s)[a + (j - 1)] \in Nat BY <1>10, <4>4
        <4>6. Sums(s)[a] + Sums(r)[j - 1] = 0 + Sums(s)[a + j - 1] BY <2>9, <4>3, <4>4, <4>5
        <4> DEFINE i == a + j
        <4>7a. i \in 1..n BY <4>4
        <4> HIDE DEF i
        <4>7b. LiesAt(Data[cs[i]], w, 0 + Sums(s)[i - 1]) BY <1>3, <4>7a
        <4>7c. (a + j) - 1 = a + (j - 1) BY <2>1
        <4>7. LiesAt(Data[cs[a + j]], w, 0 + Sums(s)[a + j - 1]) BY <4>7b, <4>7c DEF i
        <4> QED BY <4>2, <4>6, <4>7
      <3> QED BY <3>1 DEF LieAt
    <2> QED BY <2>2, <2>10, <2>11 DEF u
  <1> HIDE DEF at
  <1>14. /\ at \in [0..Len(t) -> Nat] /\ t \in Seq(Seq(DOMAIN Data))
         /\ at[0] = 0 /\ at[Len(t)] = ByteLength(cs)
         /\ \A k \in 1..Len(t) : LieAt(t[k], w, at[k - 1]) /\ at[k] = at[k - 1] + ByteLength(t[k])
    BY <1>1, <1>9, <1>11, <1>12, <1>13
  <1> QED BY <1>14 DEF t

LEMMA ShardsAppended ==
  ASSUME NEW w \in Seq(Nat), NEW cs \in Seq(DOMAIN Data), NEW o \in Nat, NEW e \in Nat,
         o < e, e <= Len(w), LieAt(cs, w, 0),
         NEW acc \in ShardAccs, GotShard(acc, w, 0, o, e)
  PROVE  GotShard(AppendShards(acc, Shards(cs), o, e), w, ByteLength(cs), o, e)
  <1> DEFINE t == Shards(cs)
             f == ShardAppends(acc, t, o, e)
  <1>1. PICK at \in [0..Len(t) -> Nat] :
           /\ t \in Seq(Seq(DOMAIN Data))
           /\ at[0] = 0 /\ at[Len(t)] = ByteLength(cs)
           /\ \A k \in 1..Len(t) :
                LieAt(t[k], w, at[k - 1]) /\ at[k] = at[k - 1] + ByteLength(t[k])
    BY ShardsLie
  <1> HIDE DEF t
  <1> Len(t) \in Nat BY <1>1, LenProperties
  <1> DEFINE S == {k \in Nat : f[k] \in ShardAccs /\ GotShard(f[k], w, at[k], o, e)}
  <1>2. /\ f[0] = acc /\ \A k \in 1..Len(t) : f[k] = AppendShard(f[k - 1], t[k], o, e)
        /\ AppendShards(acc, t, o, e) = f[Len(t)] BY <1>1, ShardAppendsDef
  <1> HIDE DEF f
  <1>3. 0 \in S BY <1>1, <1>2
  <1>4. ASSUME NEW k \in 1..Len(t), k - 1 \in S PROVE k \in S
    <2>1. t[k] \in Seq(DOMAIN Data) BY <1>1, ElementOfSeq
    <2>2. f[k - 1] \in ShardAccs /\ GotShard(f[k - 1], w, at[k - 1], o, e) BY <1>4
    <2>3. LieAt(t[k], w, at[k - 1]) /\ at[k] = at[k - 1] + ByteLength(t[k]) BY <1>1
    <2>4. at[k - 1] \in Nat
      <3>1. k - 1 \in 0..Len(t) OBVIOUS
      <3> QED BY <1>1, <3>1
    <2> DEFINE x == f[k - 1]  y == AppendShard(x, t[k], o, e)
    <2>5. f[k] = y BY <1>2
    <2>6. y \in ShardAccs BY <2>1, <2>2, ShardTyped
    <2>7. GotShard(y, w, at[k - 1] + ByteLength(t[k]), o, e) BY <2>1, <2>2, <2>3, <2>4, ShardStep
    <2> HIDE DEF y
    <2> QED BY <2>3, <2>5, <2>6, <2>7
  <1> HIDE DEF S
  <1>5. 0..Len(t) \subseteq S BY <1>3, <1>4, UpTo
  <1>6. Len(t) \in S BY <1>5
  <1>7. GotShard(f[Len(t)], w, at[Len(t)], o, e) BY <1>6 DEF S
  <1> QED BY <1>1, <1>2, <1>7 DEF t

\* The chunks of a file lie in its content.
LEMMA ContentLies ==
  ASSUME NEW f \in DOMAIN ChunksOf
  PROVE  /\ ChunksOf[f] \in Seq(DOMAIN Data) /\ Content(f) \in Seq(Nat)
         /\ FileSize(f) \in Nat /\ FileSize(f) = ByteLength(ChunksOf[f])
         /\ LieAt(ChunksOf[f], Content(f), 0)
  <1> DEFINE cs == ChunksOf[f]
             d == [i \in 1..Len(cs) |-> Data[cs[i]]]
             s == ChunkSizes(cs)
             w == Content(f)
  <1>1. cs \in Seq(DOMAIN Data) /\ Len(cs) \in Nat BY RangesAssumption, LenProperties
  <1>1a. w = Joined(d) BY DEF Content
  <1> HIDE DEF cs, w
  <1>2. ASSUME NEW i \in 1..Len(cs) PROVE Data[cs[i]] \in Seq(Nat)
    <2>1. cs[i] \in DOMAIN Data BY <1>1, ElementOfSeq
    <2> QED BY <2>1, RangesAssumption
  <1>3. d \in Seq(Seq(Nat)) /\ Len(d) = Len(cs) /\ \A i \in 1..Len(cs) : d[i] = Data[cs[i]]
    BY <1>1, <1>2
  <1> HIDE DEF d
  <1>4. /\ s \in Seq(Nat) /\ Len(s) = Len(cs) /\ \A k \in 1..Len(cs) : s[k] = Len(Data[cs[k]])
        /\ ByteLength(cs) = Sums(s)[Len(cs)] BY <1>1, SizesOfChunks
  <1>5. Lengths(d) = s
    <2>1. Lengths(d) = [i \in 1..Len(cs) |-> Len(Data[cs[i]])]
      <3>1. Lengths(d) = [i \in 1..Len(cs) |-> Len(d[i])] BY <1>3 DEF Lengths
      <3> QED BY <1>3, <3>1
    <2> QED BY <2>1 DEF ChunkSizes, Length
  <1>6. /\ w \in Seq(Nat) /\ Len(w) = Sums(s)[Len(cs)]
        /\ \A k \in 1..Len(d) : \A j \in 1..Len(d[k]) : w[Sums(Lengths(d))[k - 1] + j] = d[k][j]
    BY <1>1a, <1>3, <1>5, JoinedAt
  <1> HIDE DEF s
  <1>7. ASSUME NEW k \in 1..Len(cs) PROVE LiesAt(Data[cs[k]], w, 0 + Sums(s)[k - 1])
    <2>1. k - 1 \in 0..Len(s) /\ k \in 0..Len(s) /\ k \in 1..Len(s) /\ Len(s) \in k..Len(s) BY <1>1, <1>4
    <2>2. Sums(s)[k - 1] \in Nat /\ Sums(s)[k] = Sums(s)[k - 1] + s[k] BY <1>4, <2>1, SumsDef
    <2>3. Sums(s)[k] <= Sums(s)[Len(s)] BY <1>4, <2>1, SumsGrow
    <2>4. \A j \in 1..Len(d[k]) : w[Sums(s)[k - 1] + j] = d[k][j] BY <1>3, <1>5, <1>6
    <2>5. d[k] = Data[cs[k]] /\ s[k] = Len(Data[cs[k]]) /\ 0 + Sums(s)[k - 1] = Sums(s)[k - 1]
      BY <1>3, <1>4, <2>2
    <2>6. Sums(s)[k - 1] + Len(Data[cs[k]]) <= Len(w) BY <1>4, <1>6, <2>2, <2>3, <2>5
    <2> QED BY <2>4, <2>5, <2>6 DEF LiesAt
  <1>8. LieAt(cs, w, 0) BY <1>7 DEF LieAt, s
  <1>9. Len(w) = ByteLength(cs) /\ Len(w) \in Nat BY <1>4, <1>6, LenProperties
  <1>10. FileSize(f) = Len(w) BY DEF FileSize, w
  <1> QED BY <1>1, <1>6, <1>8, <1>9, <1>10 DEF cs, w

\* Reading a range gives the requested part of the content, for every file,
\* however it is cut into chunks and shards.
THEOREM ReadRangeIsExact ==
  ASSUME NEW f \in DOMAIN ChunksOf, NEW o \in Nat, NEW l \in Nat, o <= FileSize(f)
  PROVE  ReadRange(f, o, l).output = Requested(Content(f), o, l)
  <1> DEFINE w == Content(f)  cs == ChunksOf[f]
             e == Least(o + l, FileSize(f))
             none == [output |-> << >>, start |-> 0, read |-> << >>]
             sh == [bytes |-> none, shard |-> 0]
             x == AppendChunks(none, cs, o, e)
             y == AppendShards(sh, Shards(cs), o, e)
  <1>1. /\ cs \in Seq(DOMAIN Data) /\ w \in Seq(Nat) /\ FileSize(f) \in Nat
        /\ FileSize(f) = ByteLength(cs) /\ LieAt(cs, w, 0) /\ FileSize(f) = Len(w)
    BY ContentLies DEF FileSize
  <1>2. e \in Nat /\ o <= e /\ e <= Len(w) BY <1>1 DEF Least
  <1>3. Requested(w, o, l) = SubSeq(w, o + 1, e) BY <1>1 DEF Requested, Slice
  <1>4. ReadRange(f, o, l) = IF o = e THEN none ELSE IF Len(cs) <= MaxChunksPerObject THEN x ELSE y.bytes
    BY DEF ReadRange
  <1> HIDE DEF w, cs, e
  <1>5. CASE o = e
    <2>1. SubSeq(w, o + 1, e) = << >> BY <1>1, <1>2, <1>5, Part
    <2> QED BY <1>3, <1>4, <1>5, <2>1 DEF w
  <1>6. CASE o # e
    <2>1. o < e BY <1>2, <1>6
    <2>2. none \in Accs /\ sh \in ShardAccs BY DEF Accs, ShardAccs
    <2>3. none.output = << >> /\ none.start = 0 /\ sh.bytes = none /\ sh.shard = 0 /\ 0 <= o OBVIOUS
    <2> HIDE DEF none, sh
    <2>4. Got(none, w, 0, o, e) BY <1>1, <1>2, <2>1, <2>3, GotBefore
    <2>5. GotShard(sh, w, 0, o, e) BY <2>3, <2>4 DEF GotShard
    <2>6. Got(x, w, 0 + ByteLength(cs), o, e) BY <1>1, <1>2, <2>1, <2>2, <2>4, ChunksAppended
    <2>7. GotShard(y, w, ByteLength(cs), o, e) BY <1>1, <1>2, <2>1, <2>2, <2>5, ShardsAppended
    <2> HIDE DEF x, y
    <2>8. 0 + ByteLength(cs) = Len(w) /\ ByteLength(cs) = Len(w) /\ Least(Len(w), e) = e
      BY <1>1, <1>2, LeastOf
    <2>9. x.output = SubSeq(w, o + 1, e) BY <2>6, <2>8 DEF Got
    <2>10. y.bytes.output = SubSeq(w, o + 1, e) BY <2>7, <2>8 DEF GotShard, Got
    <2> QED BY <1>3, <1>4, <1>6, <2>9, <2>10 DEF w
  <1> QED BY <1>5, <1>6

----------------------------------------------------------------------------
(* The plaintext cache.                                                    *)

\* What the cache may hold of a file object: its content.
Exacts == {[key |-> k, bytes |-> Content(FileOf(k))] : k \in (DOMAIN Versions) \X (DOMAIN ChunksOf)}

LEMMA ExactEntries ==
  ASSUME NEW x \in Exacts
  PROVE  x.bytes = Content(FileOf(x.key)) /\ x.bytes \in Seq(Nat) /\ Len(x.bytes) \in Nat
  <1>1. PICK k \in (DOMAIN Versions) \X (DOMAIN ChunksOf) : x = [key |-> k, bytes |-> Content(FileOf(k))]
    BY DEF Exacts
  <1>2. x.key = k /\ x.bytes = Content(FileOf(k)) BY <1>1
  <1>3. FileOf(k) \in DOMAIN ChunksOf BY DEF FileOf
  <1>4. x.bytes \in Seq(Nat) BY <1>2, <1>3, ContentLies
  <1> QED BY <1>2, <1>4, LenProperties

LEMMA TotalOfConcat ==
  ASSUME NEW a \in Seq(Nat), NEW b \in Seq(Nat)
  PROVE  Total(a \o b) = Total(a) + Total(b) /\ Total(a) \in Nat /\ Total(b) \in Nat
  <1> DEFINE s == a \o b  m == Len(a)  n == Len(b)
  <1>1. m \in Nat /\ n \in Nat BY LenProperties
  <1>2. s \in Seq(Nat) /\ Len(s) = m + n BY ConcatProperties
  <1>3. \A j \in 1..m : s[j] = a[j] BY ConcatAt
  <1>4. \A j \in 1..n : s[m + j] = b[j] BY ConcatAt
  <1> HIDE DEF s, m, n
  <1>5. m \in 0..Len(s) /\ m \in 0..m + n /\ Len(s) \in m..Len(s) /\ 0 \in 0..Len(s) /\ m \in 0..Len(s)
    BY <1>1, <1>2
  <1>6. SubSeq(s, 0 + 1, m) = a
    <2> DEFINE t == SubSeq(s, 0 + 1, m)
    <2>1. m <= Len(s) /\ 0 \in Nat /\ 0 <= m BY <1>1, <1>2
    <2>2. t \in Seq(Nat) /\ Len(t) = Monus(m, 0) /\ \A j \in 1..m - 0 : t[j] = s[0 + j]
      BY <1>1, <1>2, <2>1, Part
    <2> HIDE DEF t
    <2>3. Monus(m, 0) = m /\ m - 0 = m /\ \A j \in 1..m : 0 + j = j BY <1>1 DEF Monus
    <2>4. Len(t) = m /\ \A j \in 1..m : t[j] = s[j] BY <2>2, <2>3
    <2>5. \A j \in 1..m : t[j] = a[j] BY <1>3, <2>4
    <2>6. t = a BY <2>2, <2>4, <2>5, SeqEqual DEF m
    <2> QED BY <2>6 DEF t
  <1>7. SubSeq(s, m + 1, Len(s)) = b
    <2> DEFINE t == SubSeq(s, m + 1, Len(s))
    <2>1. Len(s) <= Len(s) /\ Len(s) \in Nat /\ m <= Len(s) /\ Len(s) - m = n BY <1>1, <1>2
    <2>2. t \in Seq(Nat) /\ Len(t) = Len(s) - m /\ \A j \in 1..Len(s) - m : t[j] = s[m + j]
      BY <1>1, <1>2, <2>1, Part
    <2> HIDE DEF t
    <2>3. Len(t) = n /\ \A j \in 1..n : t[j] = b[j] BY <1>4, <2>1, <2>2
    <2>4. t = b BY <2>2, <2>3, SeqEqual DEF n
    <2> QED BY <2>4 DEF t
  <1>8. Total(a) = Sums(s)[m] - Sums(s)[0]
    <2>1. Total(SubSeq(s, 0 + 1, m)) = Sums(s)[m] - Sums(s)[0] BY <1>1, <1>2, <1>5, SumsOfPart
    <2> QED BY <1>6, <2>1
  <1>9. Total(b) = Sums(s)[Len(s)] - Sums(s)[m]
    <2>1. Total(SubSeq(s, m + 1, Len(s))) = Sums(s)[Len(s)] - Sums(s)[m] BY <1>2, <1>5, SumsOfPart
    <2> QED BY <1>7, <2>1
  <1>10. Total(s) = Sums(s)[Len(s)] /\ Sums(s)[0] = 0 BY <1>2, SumsDef
  <1>11. Sums(s)[m] \in Nat /\ Sums(s)[Len(s)] \in Nat /\ Sums(s)[m] <= Sums(s)[Len(s)]
    <2>1. \A k \in 0..Len(s) : Sums(s)[k] \in Nat BY <1>2, SumsDef
    <2>2. Len(s) \in 0..Len(s) BY <1>1, <1>2
    <2>3. Sums(s)[m] <= Sums(s)[Len(s)] BY <1>2, <1>5, SumsGrow
    <2> QED BY <1>5, <2>1, <2>2, <2>3
  <1>12. Total(s) = Total(a) + Total(b) /\ Total(a) \in Nat /\ Total(b) \in Nat
    BY <1>8, <1>9, <1>10, <1>11
  <1> QED BY <1>12 DEF s

LEMMA TotalOfOne ==
  ASSUME NEW n \in Nat
  PROVE  Total(<<n>>) = n /\ Total(<< >>) = 0
  <1> DEFINE s == <<n>>
  <1>1. s \in Seq(Nat) /\ Len(s) = 1 /\ s[1] = n OBVIOUS
  <1>2. << >> \in Seq(Nat) /\ Len(<< >>) = 0 OBVIOUS
  <1> HIDE DEF s
  <1>3. Sums(s)[0] = 0 /\ Sums(s)[1] = Sums(s)[1 - 1] + s[1] /\ Total(s) = Sums(s)[1]
    <2>1. 1 \in 1..Len(s) BY <1>1
    <2>2. Sums(s)[0] = 0 /\ Total(s) = Sums(s)[Len(s)] BY <1>1, SumsDef
    <2>3. \A k \in 1..Len(s) : Sums(s)[k] = Sums(s)[k - 1] + s[k] BY <1>1, SumsDef
    <2> QED BY <1>1, <2>1, <2>2, <2>3
  <1>4. Total(<< >>) = 0 BY <1>2, SumsDef
  <1> QED BY <1>1, <1>3, <1>4 DEF s

LEMMA SizesOf ==
  ASSUME NEW x \in Seq(Exacts)
  PROVE  /\ Sizes(x) \in Seq(Nat) /\ Len(Sizes(x)) = Len(x) /\ Len(x) \in Nat
         /\ \A i \in 1..Len(x) : x[i] \in Exacts /\ Sizes(x)[i] = Len(x[i].bytes)
         /\ Total(Sizes(x)) \in Nat
  <1> Len(x) \in Nat BY LenProperties
  <1>1. ASSUME NEW i \in 1..Len(x) PROVE x[i] \in Exacts /\ Len(x[i].bytes) \in Nat
    BY ElementOfSeq, ExactEntries
  <1>2. /\ Sizes(x) \in Seq(Nat) /\ Len(Sizes(x)) = Len(x)
        /\ \A i \in 1..Len(x) : Sizes(x)[i] = Len(x[i].bytes) BY <1>1 DEF Sizes
  <1>3. Total(Sizes(x)) \in Nat BY <1>2, TotalOfConcat
  <1> QED BY <1>1, <1>2, <1>3

LEMMA SizesOfConcat ==
  ASSUME NEW x \in Seq(Exacts), NEW y \in Seq(Exacts)
  PROVE  x \o y \in Seq(Exacts) /\ Total(Sizes(x \o y)) = Total(Sizes(x)) + Total(Sizes(y))
  <1> DEFINE z == x \o y
  <1>1. Len(x) \in Nat /\ Len(y) \in Nat BY LenProperties
  <1>2. z \in Seq(Exacts) /\ Len(z) = Len(x) + Len(y)
        /\ \A i \in 1..Len(x) + Len(y) : z[i] = IF i <= Len(x) THEN x[i] ELSE y[i - Len(x)]
    BY ConcatProperties
  <1> HIDE DEF z
  <1> DEFINE a == Sizes(x)  b == Sizes(y)  c == Sizes(z)  d == a \o b
  <1>3. a \in Seq(Nat) /\ Len(a) = Len(x) /\ \A i \in 1..Len(x) : a[i] = Len(x[i].bytes) BY SizesOf
  <1>4. b \in Seq(Nat) /\ Len(b) = Len(y) /\ \A i \in 1..Len(y) : b[i] = Len(y[i].bytes) BY SizesOf
  <1>5. c \in Seq(Nat) /\ Len(c) = Len(z) /\ \A i \in 1..Len(z) : c[i] = Len(z[i].bytes) BY <1>2, SizesOf
  <1> HIDE DEF a, b, c
  <1>6. d \in Seq(Nat) /\ Len(d) = Len(a) + Len(b)
        /\ \A i \in 1..Len(a) + Len(b) : d[i] = IF i <= Len(a) THEN a[i] ELSE b[i - Len(a)]
    BY <1>3, <1>4, ConcatProperties
  <1> HIDE DEF d
  <1>7. ASSUME NEW i \in 1..Len(c) PROVE c[i] = d[i]
    <2>1. i \in 1..Len(x) + Len(y) /\ c[i] = Len(z[i].bytes) BY <1>2, <1>5
    <2>2. CASE i <= Len(x)
      <3>1. z[i] = x[i] /\ d[i] = a[i] /\ i \in 1..Len(x) BY <1>1, <1>2, <1>3, <1>4, <1>6, <2>1, <2>2
      <3> QED BY <1>3, <2>1, <3>1
    <2>3. CASE ~(i <= Len(x))
      <3>1. z[i] = y[i - Len(x)] /\ d[i] = b[i - Len(x)] /\ i - Len(x) \in 1..Len(y)
        BY <1>1, <1>2, <1>3, <1>4, <1>6, <2>1, <2>3
      <3> QED BY <1>4, <2>1, <3>1
    <2> QED BY <2>2, <2>3
  <1>8. Len(c) = Len(d) BY <1>2, <1>3, <1>4, <1>5, <1>6
  <1>9. c = d BY <1>5, <1>6, <1>7, <1>8, SeqEqual
  <1>10. Total(d) = Total(a) + Total(b) BY <1>3, <1>4, TotalOfConcat DEF d
  <1> QED BY <1>2, <1>9, <1>10 DEF a, b, c, z

LEMMA SizesOfAppend ==
  ASSUME NEW x \in Seq(Exacts), NEW e \in Exacts
  PROVE  Append(x, e) \in Seq(Exacts) /\ Total(Sizes(Append(x, e))) = Total(Sizes(x)) + Len(e.bytes)
  <1>1. <<e>> \in Seq(Exacts) /\ Append(x, e) = x \o <<e>>
    <2>1. <<e>> \in Seq(Exacts) OBVIOUS
    <2>2. Append(x, e) = x \o <<e>> BY AppendIsConcat
    <2> QED BY <2>1, <2>2
  <1> DEFINE y == <<e>>
  <1>2. Sizes(y) = <<Len(e.bytes)>>
    <2>1. Len(y) = 1 /\ y[1] = e OBVIOUS
    <2> HIDE DEF y
    <2>2. Sizes(y) = [i \in 1..1 |-> Len(y[i].bytes)] BY <2>1 DEF Sizes
    <2>3. [i \in 1..1 |-> Len(y[i].bytes)] = [i \in 1..1 |-> Len(e.bytes)] BY <2>1
    <2>4. [i \in 1..1 |-> Len(e.bytes)] = <<Len(e.bytes)>> OBVIOUS
    <2> QED BY <2>2, <2>3, <2>4
  <1>3. Total(Sizes(y)) = Len(e.bytes) BY <1>2, ExactEntries, TotalOfOne
  <1> HIDE DEF y
  <1>4. y \in Seq(Exacts) /\ Append(x, e) = x \o y BY <1>1 DEF y
  <1> QED BY <1>3, <1>4, SizesOfConcat

StrikeTo(list, gone, f) ==
  f = [n \in 0..Len(list) |-> IF n = 0 THEN << >> ELSE IF list[n] \in gone THEN f[n - 1] ELSE Append(f[n - 1], list[n])]
Strikes(list, gone) == CHOOSE f : StrikeTo(list, gone, f)

LEMMA StrikesDef ==
  ASSUME NEW E, NEW list \in Seq(E), NEW gone
  PROVE  /\ Len(list) \in Nat /\ Strikes(list, gone)[0] = << >>
         /\ \A k \in 0..Len(list) : Strikes(list, gone)[k] \in Seq(E)
         /\ \A k \in 1..Len(list) :
              /\ list[k] \in gone => Strikes(list, gone)[k] = Strikes(list, gone)[k - 1]
              /\ list[k] \notin gone => Strikes(list, gone)[k] = Append(Strikes(list, gone)[k - 1], list[k])
         /\ Strike(list, gone) = Strikes(list, gone)[Len(list)]
  <1> Len(list) \in Nat BY LenProperties
  <1> DEFINE Next1(x, k) == IF list[k] \in gone THEN x ELSE Append(x, list[k])
             F == [k \in 1..Len(list) |-> [x \in Seq(E) |-> Next1(x, k)]]
  <1> HIDE DEF Next1
  <1>2. \A k \in 1..Len(list) : \A x \in Seq(E) : F[k][x] = Next1(x, k) OBVIOUS
  <1> HIDE DEF F
  <1>1a. \A k \in 1..Len(list) : \A x \in Seq(E) : Next1(x, k) \in Seq(E)
    <2> TAKE k \in 1..Len(list)
    <2> TAKE x \in Seq(E)
    <2>1. list[k] \in E BY ElementOfSeq
    <2>2. Append(x, list[k]) \in Seq(E) BY <2>1, AppendProperties
    <2> QED BY <2>2 DEF Next1
  <1>1. \A k \in 1..Len(list) : \A x \in Seq(E) : F[k][x] \in Seq(E) BY <1>1a, <1>2
  <1> << >> \in Seq(E) OBVIOUS
  <1> DEFINE f == Iterated(Seq(E), << >>, Len(list), F)
  <1>3a. Iterates(<< >>, Len(list), F, f) /\ f \in [0..Len(list) -> Seq(E)] BY <1>1, Recursion
  <1> HIDE DEF f
  <1>3. f \in [0..Len(list) -> Seq(E)] /\ f[0] = << >> /\ \A k \in 1..Len(list) : f[k] = F[k][f[k - 1]]
    BY <1>3a DEF Iterates
  <1>4. ASSUME NEW k \in 1..Len(list) PROVE f[k] = Next1(f[k - 1], k)
    <2>1. k - 1 \in 0..Len(list) OBVIOUS
    <2> QED BY <1>2, <1>3, <2>1
  <1>5. StrikeTo(list, gone, f)
    <2> DEFINE h == [n \in 0..Len(list) |-> IF n = 0 THEN << >> ELSE Next1(f[n - 1], n)]
    <2>1. \A n \in 0..Len(list) : f[n] = h[n]
      <3> TAKE n \in 0..Len(list)
      <3>1. CASE n = 0 BY <1>3, <3>1
      <3>2. CASE n \in 1..Len(list)
        <4>1. n \in 0..Len(list) /\ n # 0 BY <3>2
        <4> QED BY <1>4, <3>2, <4>1, Zenon
      <3>3. n = 0 \/ n \in 1..Len(list) OBVIOUS
      <3> QED BY <3>1, <3>2, <3>3
    <2> HIDE DEF h
    <2>2. f = h
      <3>1. DOMAIN f = 0..Len(list) /\ f = [n \in 0..Len(list) |-> f[n]] BY <1>3
      <3>2. h = [n \in 0..Len(list) |-> h[n]] BY DEF h
      <3> QED BY <2>1, <3>1, <3>2
    <2> QED BY <2>2 DEF StrikeTo, h, Next1
  <1>6. StrikeTo(list, gone, Strikes(list, gone)) BY <1>5 DEF Strikes
  <1> DEFINE g == Strikes(list, gone)
  <1>7. Strike(list, gone) = g[Len(list)] BY DEF Strike, Strikes, StrikeTo
  <1>8. g = [n \in 0..Len(list) |-> IF n = 0 THEN << >> ELSE Next1(g[n - 1], n)]
    BY <1>6 DEF StrikeTo, Next1
  <1> HIDE DEF g
  <1>9. g[0] = << >>
    <2>1. 0 \in 0..Len(list) OBVIOUS
    <2> QED BY <1>8, <2>1, Zenon
  <1>10. ASSUME NEW k \in 1..Len(list) PROVE g[k] = Next1(g[k - 1], k)
    <2>1. k \in 0..Len(list) /\ k # 0 OBVIOUS
    <2> QED BY <1>8, <2>1, Zenon
  <1>11. \A k \in 0..Len(list) : g[k] \in Seq(E)
    <2> DEFINE S == {k \in Nat : g[k] \in Seq(E)}
    <2>1. 0 \in S BY <1>9
    <2>2. ASSUME NEW k \in 1..Len(list), k - 1 \in S PROVE k \in S
      <3>1. g[k - 1] \in Seq(E) BY <2>2
      <3> QED BY <1>1a, <1>10, <3>1
    <2> HIDE DEF S
    <2>3. 0..Len(list) \subseteq S BY <2>1, <2>2, UpTo
    <2> QED BY <2>3 DEF S
  <1>12. \A k \in 1..Len(list) :
           /\ list[k] \in gone => g[k] = g[k - 1]
           /\ list[k] \notin gone => g[k] = Append(g[k - 1], list[k])
    BY <1>10 DEF Next1
  <1> QED BY <1>7, <1>9, <1>11, <1>12 DEF g

LEMMA StrikeIsSeq ==
  ASSUME NEW E, NEW list \in Seq(E), NEW gone
  PROVE  Strike(list, gone) \in Seq(E)
  <1>1. Len(list) \in 0..Len(list) BY LenProperties
  <1> QED BY <1>1, StrikesDef

\* What is struck in one copy and left in the other adds up to the whole.
LEMMA StrikesAddUp ==
  ASSUME NEW list \in Seq(Exacts), NEW a, NEW b,
         \A k \in 1..Len(list) : list[k] \in a <=> list[k] \notin b
  PROVE  Total(Sizes(list)) = Total(Sizes(Strike(list, a))) + Total(Sizes(Strike(list, b)))
  <1> DEFINE f == Strikes(list, a)  g == Strikes(list, b)  s == Sizes(list)
             S == {k \in Nat : Sums(s)[k] = Total(Sizes(f[k])) + Total(Sizes(g[k]))}
  <1> Len(list) \in Nat BY LenProperties
  <1>1a. f[0] = << >> /\ Strike(list, a) = f[Len(list)] BY StrikesDef
  <1>1b. \A k \in 0..Len(list) : f[k] \in Seq(Exacts) BY StrikesDef
  <1>1c. \A k \in 1..Len(list) :
           /\ list[k] \in a => f[k] = f[k - 1]
           /\ list[k] \notin a => f[k] = Append(f[k - 1], list[k]) BY StrikesDef
  <1>2a. g[0] = << >> /\ Strike(list, b) = g[Len(list)] BY StrikesDef
  <1>2b. \A k \in 0..Len(list) : g[k] \in Seq(Exacts) BY StrikesDef
  <1>2c. \A k \in 1..Len(list) :
           /\ list[k] \in b => g[k] = g[k - 1]
           /\ list[k] \notin b => g[k] = Append(g[k - 1], list[k]) BY StrikesDef
  <1>3. /\ s \in Seq(Nat) /\ Len(s) = Len(list)
        /\ \A i \in 1..Len(list) : list[i] \in Exacts /\ s[i] = Len(list[i].bytes) BY SizesOf
  <1> HIDE DEF f, g, s
  <1>4. /\ Sums(s)[0] = 0 /\ Total(s) = Sums(s)[Len(s)]
        /\ \A k \in 1..Len(s) : Sums(s)[k] = Sums(s)[k - 1] + s[k] BY <1>3, SumsDef
  <1>5. 0 \in S
    <2>1. Sizes(<< >>) = << >> BY DEF Sizes
    <2>2. Total(<< >>) = 0 BY TotalOfOne
    <2> QED BY <1>1a, <1>2a, <1>4, <2>1, <2>2
  <1>6. ASSUME NEW k \in 1..Len(list), k - 1 \in S PROVE k \in S
    <2> DEFINE x == f[k - 1]  y == g[k - 1]  e == list[k]
    <2>1. k - 1 \in 0..Len(list) /\ k \in Nat OBVIOUS
    <2>2. x \in Seq(Exacts) /\ y \in Seq(Exacts) /\ e \in Exacts /\ s[k] = Len(e.bytes)
      BY <1>1b, <1>2b, <1>3, <2>1
    <2>3. Sums(s)[k] = Sums(s)[k - 1] + s[k] BY <1>3, <1>4
    <2>4. Sums(s)[k - 1] = Total(Sizes(x)) + Total(Sizes(y)) BY <1>6
    <2>5. /\ e \in a => f[k] = x /\ g[k] = Append(y, e)
          /\ e \notin a => f[k] = Append(x, e) /\ g[k] = y BY <1>1c, <1>2c
    <2> HIDE DEF x, y, e
    <2>6. /\ Total(Sizes(x)) \in Nat /\ Total(Sizes(y)) \in Nat /\ s[k] \in Nat
          /\ Total(Sizes(Append(x, e))) = Total(Sizes(x)) + s[k]
          /\ Total(Sizes(Append(y, e))) = Total(Sizes(y)) + s[k]
      BY <2>2, SizesOf, SizesOfAppend, ExactEntries
    <2>7. Sums(s)[k] = Total(Sizes(f[k])) + Total(Sizes(g[k]))
      <3> DEFINE tx == Total(Sizes(x))  ty == Total(Sizes(y))
      <3>0. tx \in Nat /\ ty \in Nat /\ s[k] \in Nat /\ Sums(s)[k] = (tx + ty) + s[k] BY <2>3, <2>4, <2>6
      <3>1. CASE e \in a
        <4>1. f[k] = x /\ g[k] = Append(y, e) BY <2>5, <3>1
        <4>2. Total(Sizes(f[k])) = tx /\ Total(Sizes(g[k])) = ty + s[k] BY <2>6, <4>1
        <4> HIDE DEF tx, ty
        <4> QED BY <3>0, <4>2
      <3>2. CASE e \notin a
        <4>1. f[k] = Append(x, e) /\ g[k] = y BY <2>5, <3>2
        <4>2. Total(Sizes(f[k])) = tx + s[k] /\ Total(Sizes(g[k])) = ty BY <2>6, <4>1
        <4> HIDE DEF tx, ty
        <4> QED BY <3>0, <4>2
      <3> QED BY <3>1, <3>2
    <2> QED BY <2>1, <2>7
  <1> HIDE DEF S
  <1>7. 0..Len(list) \subseteq S BY <1>5, <1>6, UpTo
  <1>8. Len(list) \in S BY <1>7
  <1> QED BY <1>1a, <1>2a, <1>3, <1>4, <1>8 DEF S, s

\* A cache that is as its own total says, within the budget.
CacheOk(c) ==
  /\ c \in [entries : Seq(Exacts), total : Nat]
  /\ c.total = Total(Sizes(c.entries))

LEMMA OfKeyOrOthers ==
  ASSUME NEW list \in Seq(Exacts), NEW key, NEW k \in 1..Len(list)
  PROVE  list[k] \in OfKey(list, key) <=> list[k] \notin Others(list, key)
  <1>1. list[k] \in Range(list) BY LenProperties DEF Range
  <1> QED BY <1>1 DEF Others

LEMMA TouchedOk ==
  ASSUME NEW c, CacheOk(c), NEW key
  PROVE  CacheOk(Touched(c, key)) /\ Touched(c, key).total = c.total
  <1> DEFINE e == c.entries  x == Strike(e, OfKey(e, key))  y == Strike(e, Others(e, key))
  <1>1. e \in Seq(Exacts) /\ c.total \in Nat /\ c.total = Total(Sizes(e)) BY DEF CacheOk
  <1> DEFINE w == x \o y
  <1>2a. Touched(c, key) = [c EXCEPT !.entries = w] BY DEF Touched
  <1>2b. c = [entries |-> c.entries, total |-> c.total] BY DEF CacheOk
  <1> HIDE DEF w
  <1>2. Touched(c, key) = [entries |-> w, total |-> c.total] BY <1>2a, <1>2b
  <1>3. x \in Seq(Exacts) /\ y \in Seq(Exacts) BY <1>1, StrikeIsSeq
  <1>4. Total(Sizes(e)) = Total(Sizes(x)) + Total(Sizes(y)) BY <1>1, OfKeyOrOthers, StrikesAddUp
  <1> HIDE DEF e, x, y
  <1>5. x \o y \in Seq(Exacts) /\ Total(Sizes(x \o y)) = c.total BY <1>1, <1>3, <1>4, SizesOfConcat
  <1>6. w \in Seq(Exacts) /\ Total(Sizes(w)) = c.total BY <1>5 DEF w
  <1> QED BY <1>1, <1>2, <1>6 DEF CacheOk

LEMMA InsertedOk ==
  ASSUME NEW c, CacheOk(c), NEW key \in (DOMAIN Versions) \X (DOMAIN ChunksOf)
  PROVE  CacheOk(Inserted(c, key, Content(FileOf(key))))
  <1> DEFINE e == c.entries  x == Strike(e, OfKey(e, key))  y == Strike(e, Others(e, key))
             n == [key |-> key, bytes |-> Content(FileOf(key))]
             z == Append(x, n)
             left == Monus(c.total, Total(Sizes(y))) + Len(n.bytes)
  <1>1. e \in Seq(Exacts) /\ c.total \in Nat /\ c.total = Total(Sizes(e)) BY DEF CacheOk
  <1>2. Inserted(c, key, Content(FileOf(key))) = [entries |-> z, total |-> left] BY DEF Inserted
  <1>3. x \in Seq(Exacts) /\ y \in Seq(Exacts) BY <1>1, StrikeIsSeq
  <1>4. Total(Sizes(e)) = Total(Sizes(x)) + Total(Sizes(y)) BY <1>1, OfKeyOrOthers, StrikesAddUp
  <1>5. n \in Exacts BY DEF Exacts
  <1>6. Len(n.bytes) \in Nat BY <1>5, ExactEntries
  <1> HIDE DEF e, x, y, n
  <1>7. Total(Sizes(x)) \in Nat /\ Total(Sizes(y)) \in Nat BY <1>3, SizesOf
  <1>8. left = Total(Sizes(x)) + Len(n.bytes) /\ left \in Nat BY <1>1, <1>4, <1>6, <1>7 DEF Monus
  <1>9. z \in Seq(Exacts) /\ Total(Sizes(z)) = Total(Sizes(x)) + Len(n.bytes) BY <1>3, <1>5, SizesOfAppend
  <1> HIDE DEF z, left
  <1> QED BY <1>2, <1>8, <1>9 DEF CacheOk

LEMMA EvictedOk ==
  ASSUME NEW c, CacheOk(c), setup.budget \in Nat
  PROVE  CacheOk(Evicted(c)) /\ Evicted(c).total <= setup.budget
  <1> DEFINE e == c.entries  s == Sizes(e)  last == Len(e)
             Left(n) == Monus(c.total, Total(SubSeq(s, 1, n)))
             K == {k \in 0..last : k = last \/ Left(k) <= setup.budget}
             m == Min(K)
  <1>1. e \in Seq(Exacts) /\ c.total \in Nat /\ c.total = Total(s) BY DEF CacheOk
  <1>2. Evicted(c) = [entries |-> SubSeq(e, m + 1, last), total |-> Left(m)] BY DEF Evicted
  <1>3. /\ s \in Seq(Nat) /\ Len(s) = last /\ last \in Nat
        /\ \A i \in 1..last : e[i] \in Exacts /\ s[i] = Len(e[i].bytes) BY <1>1, SizesOf
  <1> HIDE DEF e, s, last
  <1>4. \A n \in 0..last : Sums(s)[n] \in Nat BY <1>3, SumsDef
  <1>5. ASSUME NEW n \in 0..last PROVE Left(n) = Sums(s)[last] - Sums(s)[n] /\ Left(n) \in Nat
    <2>1. 0 \in 0..Len(s) /\ n \in 0..Len(s) /\ Len(s) \in n..Len(s) BY <1>3
    <2>2. Total(SubSeq(s, 0 + 1, n)) = Sums(s)[n] - Sums(s)[0] BY <1>3, <2>1, SumsOfPart
    <2>3. Sums(s)[0] = 0 /\ Total(s) = Sums(s)[Len(s)] BY <1>3, SumsDef
    <2>4. Sums(s)[n] <= Sums(s)[Len(s)] BY <1>3, <2>1, SumsGrow
    <2>5. Sums(s)[n] \in Nat /\ Sums(s)[last] \in Nat BY <1>3, <1>4
    <2>6. Total(SubSeq(s, 1, n)) = Sums(s)[n] BY <2>2, <2>3, <2>5
    <2> QED BY <1>1, <1>3, <2>3, <2>4, <2>5, <2>6 DEF Monus
  <1>6. m \in K
    <2>1. last \in K /\ K \subseteq Nat BY <1>3
    <2> HIDE DEF K
    <2>2. \E x \in K : \A y \in K : x <= y BY <2>1, LeastNat
    <2> QED BY <2>2 DEF Min
  <1>7. m \in 0..last /\ (m = last \/ Left(m) <= setup.budget) BY <1>6
  <1> HIDE DEF m, K
  <1>8. Left(m) <= setup.budget
    <2>1. CASE m = last
      <3>1. Left(m) = 0 BY <1>4, <1>5, <1>7, <2>1
      <3> QED BY <3>1
    <2> QED BY <1>7, <2>1
  <1> DEFINE x == SubSeq(e, m + 1, last)
  <1>9. /\ x \in Seq(Exacts) /\ Len(x) = last - m /\ \A j \in 1..last - m : x[j] = e[m + j]
    <2>1. \A j \in m + 1 .. last : e[j] \in Exacts BY <1>3, <1>7
    <2>2. m + 1 \in Int /\ last \in Int BY <1>3, <1>7
    <2>3. Len(x) = IF m + 1 <= last THEN last - (m + 1) + 1 ELSE 0 BY <2>1, <2>2, SubSeqProperties
    <2>4. \A j \in 1 .. last - (m + 1) + 1 : x[j] = e[m + 1 + j - 1] BY <2>1, <2>2, SubSeqProperties
    <2>5. x \in Seq(Exacts) BY <2>1, <2>2, SubSeqProperties
    <2> HIDE DEF x
    <2>6. Len(x) = last - m BY <1>3, <1>7, <2>3
    <2>7. ASSUME NEW j \in 1..last - m PROVE x[j] = e[m + j]
      <3>1. j \in 1 .. last - (m + 1) + 1 /\ m + 1 + j - 1 = m + j BY <1>3, <1>7
      <3> QED BY <2>4, <3>1
    <2> QED BY <2>5, <2>6, <2>7
  <1> DEFINE y == SubSeq(s, m + 1, last)
  <1>10. y \in Seq(Nat) /\ Len(y) = last - m /\ Total(y) = Sums(s)[last] - Sums(s)[m]
    <2>1. m \in 0..Len(s) /\ last \in m..Len(s) BY <1>3, <1>7
    <2> QED BY <1>3, <2>1, SumsOfPart
  <1>11. \A j \in 1..last - m : y[j] = s[m + j]
    <2>1. m \in Nat /\ last \in Nat /\ last <= Len(s) BY <1>3, <1>7
    <2> QED BY <1>3, <2>1, Part
  <1> HIDE DEF x, y
  <1>12. Sizes(x) = y
    <2>1. Sizes(x) \in Seq(Nat) /\ Len(Sizes(x)) = last - m
          /\ \A j \in 1..last - m : Sizes(x)[j] = Len(x[j].bytes) BY <1>9, SizesOf
    <2>2. ASSUME NEW j \in 1..last - m PROVE Sizes(x)[j] = y[j]
      <3>1. m + j \in 1..last BY <1>3, <1>7
      <3> QED BY <1>3, <1>9, <1>11, <2>1, <3>1
    <2> QED BY <1>10, <2>1, <2>2, SeqEqual
  <1>13. Left(m) = Total(Sizes(x)) /\ Left(m) \in Nat BY <1>5, <1>7, <1>10, <1>12
  <1> HIDE DEF Left
  <1> QED BY <1>2, <1>8, <1>9, <1>13 DEF CacheOk, x

LEMMA PlainInsertOk ==
  ASSUME NEW c, CacheOk(c), c.total <= setup.budget, setup.budget \in Nat,
         NEW key \in (DOMAIN Versions) \X (DOMAIN ChunksOf)
  PROVE  /\ CacheOk(PlainInsert(c, key, Content(FileOf(key))))
         /\ PlainInsert(c, key, Content(FileOf(key))).total <= setup.budget
  <1> DEFINE i == Inserted(c, key, Content(FileOf(key)))
  <1>1. CacheOk(i) BY InsertedOk
  <1> HIDE DEF i
  <1>2. CacheOk(Evicted(i)) /\ Evicted(i).total <= setup.budget BY <1>1, EvictedOk
  <1>3. PlainInsert(c, key, Content(FileOf(key))) \in {c, Evicted(i)} BY DEF PlainInsert, i
  <1> QED BY <1>2, <1>3

----------------------------------------------------------------------------
(* Ranges and edits.                                                       *)

\* A part of a part.
LEMMA PartOfPart ==
  ASSUME NEW w \in Seq(Nat), NEW a \in Nat, NEW b \in Nat, a <= b, b <= Len(w),
         NEW c \in Nat, NEW d \in Nat, c <= d, d <= b - a
  PROVE  SubSeq(SubSeq(w, a + 1, b), c + 1, d) = SubSeq(w, a + c + 1, a + d)
  <1> DEFINE x == SubSeq(w, a + 1, b)  y == SubSeq(x, c + 1, d)  f == a + c  t == a + d
             z == SubSeq(w, f + 1, t)
  <1>0. Len(w) \in Nat BY LenProperties
  <1>1. x \in Seq(Nat) /\ Len(x) = b - a /\ \A j \in 1..b - a : x[j] = w[a + j] BY Part
  <1> HIDE DEF x
  <1>2. d <= Len(x) BY <1>1
  <1>3. y \in Seq(Nat) /\ Len(y) = d - c /\ \A j \in 1..d - c : y[j] = x[c + j] BY <1>1, <1>2, Part
  <1>4. f \in Nat /\ t \in Nat /\ t <= Len(w) /\ f <= t /\ t - f = d - c BY <1>0
  <1> HIDE DEF y, f, t
  <1>5. z \in Seq(Nat) /\ Len(z) = d - c /\ \A j \in 1..d - c : z[j] = w[f + j]
    <2>1. z \in Seq(Nat) /\ Len(z) = t - f /\ \A j \in 1..t - f : z[j] = w[f + j] BY <1>4, Part
    <2> QED BY <1>4, <2>1
  <1> HIDE DEF z
  <1>6. ASSUME NEW j \in 1..d - c PROVE y[j] = z[j]
    <2>1. c + j \in 1..b - a /\ a + (c + j) = f + j BY DEF f
    <2> QED BY <1>1, <1>3, <1>5, <2>1
  <1>7. y = z BY <1>3, <1>5, <1>6, SeqEqual
  <1>8. a + c + 1 = f + 1 BY DEF f
  <1> QED BY <1>7, <1>8 DEF x, y, z, t

Ranges == [offset : Nat, bytes : Seq(Nat)]
KeyOk(key) == FileOf(key) \in DOMAIN ChunksOf

\* A range that holds what its file has there.
RangeOk(key, r) ==
  /\ r.offset \in Nat /\ r.bytes \in Seq(Nat)
  /\ r.offset <= FileSize(FileOf(key)) /\ RangeIsExact(key, r)

\* What is asked for, as a part of the content.
LEMMA ExactIsPart ==
  ASSUME NEW key, KeyOk(key), NEW o \in Nat, NEW l \in Nat, o <= FileSize(FileOf(key))
  PROVE  /\ Exact(key, o, l) = SubSeq(Content(FileOf(key)), o + 1, Least(o + l, FileSize(FileOf(key))))
         /\ Exact(key, o, l) \in Seq(Nat)
         /\ Len(Exact(key, o, l)) = Least(o + l, FileSize(FileOf(key))) - o
         /\ Least(o + l, FileSize(FileOf(key))) \in o..FileSize(FileOf(key))
         /\ Content(FileOf(key)) \in Seq(Nat) /\ Len(Content(FileOf(key))) = FileSize(FileOf(key))
  <1> DEFINE w == Content(FileOf(key))  n == FileSize(FileOf(key))  e == Least(o + l, n)
  <1>1. w \in Seq(Nat) /\ n \in Nat /\ n = Len(w) BY ContentLies DEF KeyOk, FileSize
  <1>2. Exact(key, o, l) = SubSeq(w, o + 1, e) BY <1>1 DEF Exact, Requested, Slice
  <1> HIDE DEF w
  <1>3. n \in Nat BY <1>1
  <1> HIDE DEF n
  <1>4. o <= n BY DEF n
  <1>5. e \in o..n BY <1>3, <1>4 DEF Least
  <1> HIDE DEF e
  <1>6. e \in Nat /\ o <= e /\ e <= Len(w) BY <1>1, <1>3, <1>5
  <1>7. SubSeq(w, o + 1, e) \in Seq(Nat) /\ Len(SubSeq(w, o + 1, e)) = e - o BY <1>1, <1>6, Part
  <1> QED BY <1>1, <1>2, <1>5, <1>7 DEF w, n, e

\* What is read from a place is a range that may be kept.
LEMMA ExactIsRange ==
  ASSUME NEW key, KeyOk(key), NEW o \in Nat, NEW l \in Nat, o <= FileSize(FileOf(key))
  PROVE  RangeOk(key, [offset |-> o, bytes |-> Exact(key, o, l)])
  <1> DEFINE w == Content(FileOf(key))  n == FileSize(FileOf(key))  e == Least(o + l, n)
             x == Exact(key, o, l)  k == Len(x)  r == [offset |-> o, bytes |-> x]
  <1>1. x = SubSeq(w, o + 1, e) /\ x \in Seq(Nat) /\ k = e - o /\ e \in o..n /\ n = Len(w)
        /\ w \in Seq(Nat) BY ExactIsPart
  <1>2. n \in Nat /\ k \in Nat BY <1>1, LenProperties
  <1> HIDE DEF x, n, e
  <1>3. Least(o + k, n) = e BY <1>1, <1>2 DEF Least
  <1>4. Exact(key, o, k) = SubSeq(w, o + 1, Least(o + k, Len(w))) BY DEF Exact, Requested, Slice
  <1>5. Exact(key, o, k) = x BY <1>1, <1>3, <1>4
  <1>6. r.offset = o /\ r.bytes = x BY DEF x
  <1>7. o <= n BY DEF n
  <1> HIDE DEF r
  <1>8. RangeOk(key, r) BY <1>1, <1>5, <1>6, <1>7 DEF RangeOk, RangeIsExact, n
  <1> QED BY <1>8 DEF r, x

\* Where a range that may be kept lies.
LEMMA RangeIsPart ==
  ASSUME NEW key, KeyOk(key), NEW r, RangeOk(key, r)
  PROVE  /\ Len(r.bytes) \in Nat /\ r.offset \in Nat
         /\ RangeEnd(r) \in Nat /\ RangeEnd(r) <= FileSize(FileOf(key))
         /\ RangeEnd(r) = r.offset + Len(r.bytes)
         /\ r.bytes = SubSeq(Content(FileOf(key)), r.offset + 1, RangeEnd(r))
  <1> DEFINE w == Content(FileOf(key))  n == FileSize(FileOf(key))  o == r.offset  k == Len(r.bytes)
             e == Least(o + k, n)
  <1>1. r.bytes \in Seq(Nat) /\ o \in Nat /\ o <= n /\ r.bytes = Exact(key, o, k)
    BY DEF RangeOk, RangeIsExact
  <1>2. k \in Nat BY <1>1, LenProperties
  <1>3. Exact(key, o, k) = SubSeq(w, o + 1, e) /\ Len(Exact(key, o, k)) = e - o /\ e \in o..n /\ n = Len(w)
        /\ w \in Seq(Nat) BY <1>1, <1>2, ExactIsPart
  <1>4. n \in Nat BY <1>3, LenProperties
  <1>5. k = e - o BY <1>1, <1>3
  <1> HIDE DEF w, n, k, e, o
  <1>6. o + k = e /\ e \in Nat /\ e <= n BY <1>1, <1>2, <1>3, <1>4, <1>5
  <1>7. RangeEnd(r) = o + k BY DEF RangeEnd, o, k
  <1> QED BY <1>1, <1>2, <1>3, <1>6, <1>7 DEF w, n, k, o

\* The handle's range answers with what the file has there.
LEMMA CachedAnswer ==
  ASSUME NEW key, KeyOk(key), NEW r, RangeOk(key, r), NEW o \in Nat, NEW l \in Nat,
         MayAnswer(r, FileSize(FileOf(key)), o, l)
  PROVE  Requested(r.bytes, o - r.offset, l) = Exact(key, o, l) /\ o <= FileSize(FileOf(key))
  <1> DEFINE w == Content(FileOf(key))  n == FileSize(FileOf(key))  a == r.offset  b == RangeEnd(r)
             k == Len(r.bytes)  c == o - a  d == Least(c + l, k)
  <1>1. a \in Nat /\ k \in Nat /\ b \in Nat /\ b = a + k /\ b <= n /\ r.bytes = SubSeq(w, a + 1, b)
    BY RangeIsPart
  <1>2. w \in Seq(Nat) /\ n \in Nat /\ n = Len(w) BY ContentLies DEF KeyOk, FileSize
  <1>3. a <= o /\ o - a <= k /\ (o + l <= b \/ b = n) BY DEF MayAnswer
  <1>4. Requested(r.bytes, c, l) = SubSeq(r.bytes, c + 1, d) BY DEF Requested, Slice
  <1> HIDE DEF w, n, a, b, k
  <1>5. c \in Nat /\ d \in Nat /\ c <= d /\ d <= b - a /\ a + c = o BY <1>1, <1>3 DEF Least
  <1>6. a + d = Least(o + l, n)
    <2>1. CASE o + l <= b
      <3>1. c + l <= k /\ o + l <= n /\ c + l \in Nat /\ o + l \in Nat BY <1>1, <1>2, <1>3, <2>1
      <3>2. d = c + l /\ Least(o + l, n) = o + l BY <1>1, <1>2, <3>1 DEF Least
      <3> QED BY <1>1, <1>3, <3>2
    <2>2. CASE b = n /\ ~(o + l <= b)
      <3>1. ~(c + l <= k) /\ ~(o + l <= n) BY <1>1, <1>2, <1>3, <2>2
      <3>2. d = k /\ Least(o + l, n) = n BY <3>1 DEF Least
      <3> QED BY <1>1, <2>2, <3>2
    <2> QED BY <1>3, <2>1, <2>2
  <1>7. o <= n BY <1>1, <1>2, <1>3
  <1> HIDE DEF c, d
  <1>8. SubSeq(SubSeq(w, a + 1, b), c + 1, d) = SubSeq(w, a + c + 1, a + d)
    <2>1. a <= b /\ b <= Len(w) BY <1>1, <1>2
    <2> QED BY <1>1, <1>2, <1>5, <2>1, PartOfPart
  <1>9. a + c + 1 = o + 1 BY <1>1, <1>5
  <1>10. Requested(r.bytes, c, l) = SubSeq(w, o + 1, Least(o + l, n)) BY <1>1, <1>4, <1>6, <1>8, <1>9
  <1>11. Exact(key, o, l) = SubSeq(w, o + 1, Least(o + l, n)) BY <1>7, ExactIsPart DEF w, n
  <1> QED BY <1>7, <1>10, <1>11 DEF c, n, a

\* So does a range file of the disk cache that covers the request.
LEMMA CoveringAnswer ==
  ASSUME NEW key, KeyOk(key), NEW r, RangeOk(key, r), NEW o \in Nat, NEW l \in Nat, Covers(r, o, l)
  PROVE  Slice(r.bytes, o - r.offset, o - r.offset + l) = Exact(key, o, l)
  <1> DEFINE k == Len(r.bytes)
  <1>1. r.offset \in Nat /\ k \in Nat /\ RangeEnd(r) = r.offset + k BY RangeIsPart
  <1>2. r.offset <= o /\ RangeEnd(r) >= o + l BY DEF Covers
  <1> HIDE DEF k
  <1>3. o - r.offset + l <= k /\ o - r.offset <= k /\ o - r.offset + l \in Nat BY <1>1, <1>2
  <1>4. MayAnswer(r, FileSize(FileOf(key)), o, l) BY <1>2, <1>3 DEF MayAnswer, k
  <1>5. Least(o - r.offset + l, k) = o - r.offset + l BY <1>1, <1>3, LeastOf
  <1>6. Requested(r.bytes, o - r.offset, l) = Slice(r.bytes, o - r.offset, o - r.offset + l)
    BY <1>5 DEF Requested, k
  <1> QED BY <1>4, <1>6, CachedAnswer

IsEdit(e) == e.kind \in {"write", "append", "resize"} /\ e.offset \in Nat /\ e.bytes \in Seq(Nat)

\* Writing in place does what an edit is defined to do.
LEMMA EditsAgree ==
  ASSUME NEW bytes \in Seq(Nat), NEW edit, IsEdit(edit)
  PROVE  ApplyEdit(bytes, edit) = Edited(bytes, edit) /\ Edited(bytes, edit) \in Seq(Nat)
  <1> DEFINE n == Len(bytes)  d == edit.bytes  k == Len(d)
             from == IF edit.kind = "append" THEN n ELSE edit.offset
  <1>1. n \in Nat /\ k \in Nat /\ from \in Nat /\ d \in Seq(Nat) /\ edit.offset \in Nat
    BY LenProperties DEF IsEdit
  <1>2. \A i \in 1..n : bytes[i] \in Nat BY ElementOfSeq
  <1>3. \A i \in 1..k : d[i] \in Nat BY <1>1, ElementOfSeq
  <1>4. CASE edit.kind = "resize"
    <2> DEFINE z == edit.offset
               x == [i \in 1..z |-> IF i <= n THEN bytes[i] ELSE 0]
    <2>1. ApplyEdit(bytes, edit) = x BY <1>4 DEF ApplyEdit, Resize
    <2>2. Edited(bytes, edit) = x BY <1>4 DEF Edited
    <2>3. x \in Seq(Nat)
      <3>1. z \in Nat /\ \A i \in 1..z : (IF i <= n THEN bytes[i] ELSE 0) \in Nat BY <1>1, <1>2
      <3> QED BY <3>1
    <2> QED BY <2>1, <2>2, <2>3
  <1>5. CASE edit.kind # "resize"
    <2> DEFINE size == n + Monus(from + k, n)
               y == [i \in 1..size |-> IF i > from /\ i <= from + k THEN d[i - from]
                                       ELSE IF i <= n THEN bytes[i] ELSE 0]
               padded == IF from + k > n THEN Resize(bytes, from + k) ELSE bytes
               x == [i \in DOMAIN padded |-> IF i \in (from + 1)..(from + k) THEN d[i - from] ELSE padded[i]]
    <2>1. ApplyEdit(bytes, edit) = x BY <1>5 DEF ApplyEdit, WriteBytes
    <2>2. Edited(bytes, edit) = y BY <1>5 DEF Edited
    <2> HIDE DEF n, k, d, from
    <2>3. size \in Nat /\ (from + k > n => size = from + k) /\ (~(from + k > n) => size = n)
      BY <1>1 DEF Monus
    <2> HIDE DEF size
    <2>4. DOMAIN padded = 1..size /\ \A i \in 1..size : padded[i] = IF i <= n THEN bytes[i] ELSE 0
      <3>1. CASE from + k > n
        <4>1. padded = [i \in 1..from + k |-> IF i <= n THEN bytes[i] ELSE 0] BY <3>1 DEF Resize, n
        <4> QED BY <2>3, <3>1, <4>1
      <3>2. CASE ~(from + k > n)
        <4>1. padded = bytes /\ size = n /\ DOMAIN bytes = 1..n BY <2>3, <3>2, LenProperties DEF n
        <4>2. \A i \in 1..n : i <= n BY <1>1
        <4> QED BY <4>1, <4>2
      <3> QED BY <3>1, <3>2
    <2> HIDE DEF padded
    <2>5. x = [i \in 1..size |-> IF i \in (from + 1)..(from + k) THEN d[i - from]
                                 ELSE IF i <= n THEN bytes[i] ELSE 0] BY <2>4
    <2>6. \A i \in 1..size : i \in (from + 1)..(from + k) <=> (i > from /\ i <= from + k) BY <1>1, <2>3
    <2>7. x = y BY <2>5, <2>6
    <2>8. y \in Seq(Nat)
      <3>1. ASSUME NEW i \in 1..size
            PROVE  (IF i > from /\ i <= from + k THEN d[i - from] ELSE IF i <= n THEN bytes[i] ELSE 0) \in Nat
        <4>1. i > from /\ i <= from + k => i - from \in 1..k BY <1>1, <2>3
        <4>2. i <= n => i \in 1..n BY <1>1, <2>3
        <4> QED BY <1>2, <1>3, <4>1, <4>2 DEF n, k, d
      <3> QED BY <2>3, <3>1
    <2> QED BY <2>1, <2>2, <2>7, <2>8
  <1> QED BY <1>4, <1>5

----------------------------------------------------------------------------
(* The invariant.                                                          *)

SomeKeys == {<<0, 0>>} \cup ((DOMAIN Versions) \X (DOMAIN ChunksOf))
Answers == [offset : Nat, length : Nat, bytes : Seq(Nat)]
OpenFiles == [open : BOOLEAN, key : SomeKeys, cache : SUBSET Ranges, pending : SUBSET Seq(Nat),
              ideal : Seq(Nat), answer : SUBSET Answers]
EditRecords == [kind : {"read", "write", "append", "resize"}, offset : Nat, bytes : Seq(Nat)]
Stages == {"idle", "exact", "origin", "rewrite", "list", "cover", "hit", "store", "keep"}
Tasks == [pc : Stages, offset : Nat, length : Nat, edit : EditRecords, bytes : Seq(Nat),
          entries : Seq(Nat \X Nat), next : Stages]

\* An open file answers as it should, and without pending bytes it is as in
\* its snapshot.
FileOk(f) ==
  /\ f \in OpenFiles
  /\ f.open => KeyOk(f.key) /\ f.key \in (DOMAIN Versions) \X (DOMAIN ChunksOf)
  /\ f.open /\ f.pending = {} => f.ideal = Content(FileOf(f.key))
  /\ ~f.open => f.cache = {}
  /\ \A r \in f.cache : RangeOk(f.key, r)
  /\ \A a \in f.answer : a.bytes = Requested(f.ideal, a.offset, a.length)
  /\ \A bytes \in f.pending : bytes = f.ideal

\* A read has its bytes once it is here.
HasBytes(t) == t.pc \in {"hit", "store", "keep"} \/ (t.pc \in {"rewrite", "list"} /\ t.next \in {"hit", "keep"})

\* A read under way asks for a part of a file without pending bytes; for an
\* edit, for all of it.
TaskOk(f, t) ==
  /\ t \in Tasks
  /\ t.pc \in {"rewrite", "list"} => t.next \in {"cover", "origin", "hit", "keep"}
  /\ t.pc # "idle" =>
       /\ f.open /\ f.pending = {}
       /\ t.offset <= FileSize(FileOf(f.key))
       /\ t.edit.kind # "read" => t.offset = 0 /\ t.length = FileSize(FileOf(f.key))
       /\ HasBytes(t) => t.bytes = Exact(f.key, t.offset, t.length)

BlobOk(b, x) ==
  /\ x.torn \in BOOLEAN
  /\ ~x.torn => KeyOk(b[1]) /\ x.range \in Ranges /\ RangeOk(b[1], x.range)

SetupInv ==
  /\ setup \in Settings
  /\ head \in (1..setup.versions) \cup {1}
  /\ view \in [Mounts -> DOMAIN Versions]
  /\ put = [version |-> put.version, todo |-> put.todo, torn |-> put.torn]
  /\ put = NoPut \/ put.version \in 1..setup.versions

FilesInv == /\ DOMAIN handle = Handles /\ DOMAIN task = Handles
            /\ handle = [h \in Handles |-> handle[h]] /\ task = [h \in Handles |-> task[h]]
            /\ \A h \in Handles : FileOk(handle[h]) /\ TaskOk(handle[h], task[h])

PlainInv == /\ plain = [m \in Mounts |-> plain[m]]
            /\ \A m \in Mounts : CacheOk(plain[m]) /\ plain[m].total <= setup.budget

BlobsInv == \A b \in DOMAIN blobs : BlobOk(b, blobs[b])

IndexInv == \A k \in DOMAIN index : index[k].torn \in BOOLEAN /\ index[k].entries \in Seq(Nat \X Nat)

IInv == SetupInv /\ FilesInv /\ PlainInv /\ BlobsInv /\ IndexInv

LEMMA IInvImplies ==
  ASSUME IInv
  PROVE  ReadsAreExact /\ CachesAreExact
  <1>1. ReadsAreExact BY DEF IInv, FilesInv, FileOk, ReadsAreExact
  <1>2. \A h \in Handles : \A r \in handle[h].cache : RangeIsExact(Key(h), r)
    BY DEF IInv, FilesInv, FileOk, RangeOk, Key
  <1>3. ASSUME NEW b \in DOMAIN blobs PROVE blobs[b].torn \/ RangeIsExact(b[1], blobs[b].range)
    BY DEF IInv, BlobsInv, BlobOk, RangeOk
  <1>4. ASSUME NEW m \in Mounts
        PROVE  /\ \A e \in Range(plain[m].entries) : e.bytes = Content(FileOf(e.key))
               /\ plain[m].total = Total(Sizes(plain[m].entries))
               /\ plain[m].total <= setup.budget
    <2> DEFINE s == plain[m].entries
    <2>1. s \in Seq(Exacts) /\ plain[m].total = Total(Sizes(s)) /\ plain[m].total <= setup.budget
      BY DEF IInv, PlainInv, CacheOk
    <2> HIDE DEF s
    <2>2. ASSUME NEW e \in Range(s) PROVE e.bytes = Content(FileOf(e.key))
      <3>1. PICK i \in DOMAIN s : e = s[i] BY DEF Range
      <3>2. e \in Exacts BY <2>1, <3>1, LenProperties, ElementOfSeq
      <3> QED BY <3>2, ExactEntries
    <2> QED BY <2>1, <2>2 DEF s
  <1> QED BY <1>1, <1>2, <1>3, <1>4 DEF CachesAreExact

LEMMA ClosedOk ==
  FileOk(Closed) /\ TaskOk(Closed, Idle)
  <1>1. Closed \in OpenFiles
    <2>1. <<0, 0>> \in SomeKeys /\ << >> \in Seq(Nat) BY DEF SomeKeys
    <2> QED BY <2>1 DEF Closed, OpenFiles
  <1>2. FileOk(Closed) BY <1>1 DEF FileOk, Closed
  <1>3. Reading \in EditRecords BY DEF Reading, EditRecords
  <1>4. Idle \in Tasks
    <2>1. << >> \in Seq(Nat) /\ << >> \in Seq(Nat \X Nat) OBVIOUS
    <2> QED BY <1>3, <2>1 DEF Idle, Tasks, Stages
  <1>5. TaskOk(Closed, Idle) BY <1>4 DEF TaskOk, Idle
  <1> QED BY <1>2, <1>5

LEMMA IdleOk ==
  ASSUME NEW f
  PROVE  TaskOk(f, Idle) /\ Idle \in Tasks
  BY ClosedOk DEF TaskOk, Idle

LEMMA EmptyCacheOk ==
  CacheOk([entries |-> << >>, total |-> 0])
  <1>1. Sizes(<< >>) = << >> /\ << >> \in Seq(Exacts) BY DEF Sizes
  <1>2. Total(<< >>) = 0 BY TotalOfOne
  <1> QED BY <1>1, <1>2 DEF CacheOk

LEMMA InitIInv ==
  ASSUME Init
  PROVE  IInv
  <1>1. SetupInv BY ReadAssumption DEF Init, SetupInv, NoPut
  <1>2. FilesInv BY ClosedOk DEF Init, FilesInv
  <1>3. PlainInv
    <2>1. setup.budget \in Nat BY ReadAssumption DEF Init
    <2> QED BY <2>1, EmptyCacheOk DEF Init, PlainInv
  <1>4. BlobsInv /\ IndexInv
    <2>1. DOMAIN << >> = {} OBVIOUS
    <2> QED BY <2>1 DEF Init, BlobsInv, IndexInv
  <1> QED BY <1>1, <1>2, <1>3, <1>4 DEF IInv

----------------------------------------------------------------------------
(* Steps.                                                                  *)

LEMMA Unchanged ==
  ASSUME IInv
  PROVE  /\ setup' = setup /\ head' = head /\ view' = view /\ put' = put => SetupInv'
         /\ handle' = handle /\ task' = task => FilesInv'
         /\ setup' = setup /\ plain' = plain => PlainInv'
         /\ blobs' = blobs => BlobsInv'
         /\ index' = index => IndexInv'
  <1>1. setup' = setup /\ head' = head /\ view' = view /\ put' = put => SetupInv' BY DEF IInv, SetupInv
  <1>2. handle' = handle /\ task' = task => FilesInv' BY DEF IInv, FilesInv
  <1>3. setup' = setup /\ plain' = plain => PlainInv' BY DEF IInv, PlainInv
  <1>4. blobs' = blobs => BlobsInv' BY DEF IInv, BlobsInv
  <1>5. index' = index => IndexInv' BY DEF IInv, IndexInv
  <1> QED BY <1>1, <1>2, <1>3, <1>4, <1>5

LEMMA FilesStep ==
  ASSUME IInv, NEW h \in Handles, NEW f, NEW t, FileOk(f), TaskOk(f, t),
         handle' = [handle EXCEPT ![h] = f], task' = [task EXCEPT ![h] = t]
  PROVE  FilesInv'
  <1>1. /\ DOMAIN handle = Handles /\ DOMAIN task = Handles
        /\ \A g \in Handles : FileOk(handle[g]) /\ TaskOk(handle[g], task[g]) BY DEF IInv, FilesInv
  <1>2. DOMAIN handle' = Handles /\ DOMAIN task' = Handles
        /\ handle' = [g \in Handles |-> handle'[g]] /\ task' = [g \in Handles |-> task'[g]]
    BY <1>1
  <1>3. ASSUME NEW g \in Handles PROVE FileOk(handle'[g]) /\ TaskOk(handle'[g], task'[g])
    <2>1. CASE g = h BY <1>1, <2>1
    <2>2. CASE g # h BY <1>1, <2>2
    <2> QED BY <2>1, <2>2
  <1> QED BY <1>2, <1>3 DEF FilesInv

\* A handle and its read.
LEMMA OfHandle ==
  ASSUME IInv, NEW h \in Handles
  PROVE  /\ FileOk(handle[h]) /\ TaskOk(handle[h], task[h])
         /\ handle = [handle EXCEPT ![h] = handle[h]] /\ task = [task EXCEPT ![h] = task[h]]
         /\ MountOf(h) \in Mounts /\ setup.budget \in Nat
         /\ handle[h] \in OpenFiles /\ task[h] \in Tasks
         /\ task[h].pc # "idle" => handle[h].open /\ KeyOk(Key(h))
  <1>1. FileOk(handle[h]) /\ TaskOk(handle[h], task[h]) BY DEF IInv, FilesInv
  <1>2. handle = [handle EXCEPT ![h] = handle[h]] /\ task = [task EXCEPT ![h] = task[h]]
    BY DEF IInv, FilesInv
  <1>3. setup.host \in [Handles -> Mounts] /\ setup.budget \in Nat BY ReadAssumption DEF IInv, SetupInv
  <1>4. MountOf(h) \in Mounts BY <1>3 DEF MountOf
  <1> QED BY <1>1, <1>2, <1>3, <1>4 DEF FileOk, TaskOk, Key

LEMMA WithEditOk ==
  ASSUME NEW g, FileOk(g), NEW bytes, bytes = g.ideal, NEW edit, IsEdit(edit)
  PROVE  FileOk(WithEdit(g, bytes, edit)) /\ WithEdit(g, bytes, edit).pending # {}
         /\ WithEdit(g, bytes, edit).open = g.open
  <1> DEFINE x == ApplyEdit(bytes, edit)  y == Edited(g.ideal, edit)
             n == [g EXCEPT !.pending = {x}, !.ideal = y, !.answer = {}]
  <1>1. g \in OpenFiles /\ bytes \in Seq(Nat) BY DEF FileOk, OpenFiles
  <1>2. x = y /\ y \in Seq(Nat) BY <1>1, EditsAgree
  <1>3. WithEdit(g, bytes, edit) = n BY DEF WithEdit
  <1> HIDE DEF x, y
  <1>4. n \in OpenFiles BY <1>1, <1>2 DEF OpenFiles
  <1>5. n.pending = {x} /\ n.ideal = y /\ n.answer = {} /\ n.open = g.open /\ n.key = g.key /\ n.cache = g.cache
    BY <1>1 DEF OpenFiles
  <1> HIDE DEF n
  <1>6. FileOk(n) BY <1>2, <1>4, <1>5 DEF FileOk
  <1> QED BY <1>3, <1>5, <1>6

\* How a read ends.
LEMMA FinishOk ==
  ASSUME IInv, NEW h \in Handles, handle[h].open, handle[h].pending = {},
         NEW o \in Nat, NEW l \in Nat, o <= Size(h), NEW edit \in EditRecords,
         edit.kind # "read" => o = 0 /\ l = Size(h),
         NEW cache \in SUBSET Ranges, \A r \in cache : RangeOk(Key(h), r),
         NEW bytes, bytes = Exact(Key(h), o, l),
         Finish(h, o, l, edit, bytes, cache)
  PROVE  FilesInv'
  <1> DEFINE f == handle[h]  g == [f EXCEPT !.cache = cache]
             a == [g EXCEPT !.answer = Answer(o, l, bytes)]
             n == IF edit.kind = "read" THEN a ELSE WithEdit(g, bytes, edit)
  <1>1. FileOk(f) /\ f \in OpenFiles /\ KeyOk(f.key) /\ Key(h) = f.key BY OfHandle DEF FileOk, Key
  <1>2. handle' = [handle EXCEPT ![h] = n] /\ task' = [task EXCEPT ![h] = Idle] BY DEF Finish
  <1>3. f.ideal = Content(FileOf(f.key)) BY <1>1 DEF FileOk
  <1>3a. f.open /\ f.pending = {} OBVIOUS
  <1> HIDE DEF f
  <1>4. /\ g \in OpenFiles /\ g.key = f.key /\ g.open = f.open /\ g.pending = f.pending
        /\ g.ideal = f.ideal /\ g.answer = f.answer /\ g.cache = cache
    BY <1>1 DEF OpenFiles
  <1> HIDE DEF g
  <1>5. FileOk(g) BY <1>1, <1>3a, <1>4 DEF FileOk
  <1>6. CASE edit.kind = "read"
    <2>1. bytes \in Seq(Nat) BY <1>1, ExactIsPart DEF Size
    <2>2. bytes = Requested(g.ideal, o, l) BY <1>1, <1>3, <1>4 DEF Exact
    <2> DEFINE x == [offset |-> o, length |-> l, bytes |-> bytes]
    <2>3. x \in Answers /\ x.bytes = Requested(g.ideal, x.offset, x.length) BY <2>1, <2>2 DEF Answers
    <2>4. a = [g EXCEPT !.answer = {x}] BY DEF Answer
    <2> HIDE DEF x
    <2>5. /\ a \in OpenFiles /\ a.key = g.key /\ a.open = g.open /\ a.pending = g.pending
          /\ a.ideal = g.ideal /\ a.answer = {x} /\ a.cache = g.cache BY <1>4, <2>3, <2>4 DEF OpenFiles
    <2> HIDE DEF a
    <2>6. FileOk(a) BY <1>5, <2>3, <2>5 DEF FileOk
    <2>7. n = a BY <1>6
    <2> QED BY <1>2, <2>6, <2>7, IdleOk, FilesStep
  <1>7. CASE edit.kind # "read"
    <2>1. IsEdit(edit) BY <1>7 DEF EditRecords, IsEdit
    <2>2. o = 0 /\ l = Size(h) BY <1>7
    <2>3. bytes = g.ideal
      <3> DEFINE w == Content(FileOf(f.key))  z == Len(w)
      <3>1. w \in Seq(Nat) /\ z \in Nat /\ Size(h) = z BY <1>1, ContentLies DEF KeyOk, Size, FileSize
      <3>2. bytes = Requested(w, 0, z) BY <1>1, <2>2, <3>1 DEF Exact
      <3> HIDE DEF w
      <3>3. Requested(w, 0, z) = SubSeq(w, 1, z) BY <3>1 DEF Requested, Slice, Least
      <3>4. SubSeq(w, 1, z) = w BY <3>1, SubSeqFull
      <3> QED BY <1>3, <1>4, <3>2, <3>3, <3>4 DEF w
    <2>4. FileOk(WithEdit(g, bytes, edit)) BY <1>5, <2>1, <2>3, WithEditOk
    <2>5. n = WithEdit(g, bytes, edit) BY <1>7
    <2> QED BY <1>2, <2>4, <2>5, IdleOk, FilesStep
  <1> QED BY <1>6, <1>7

LEMMA CacheableOk ==
  ASSUME NEW key, KeyOk(key), NEW o \in Nat, NEW l \in Nat, o <= FileSize(FileOf(key)),
         NEW bytes, bytes = Exact(key, o, l)
  PROVE  Cacheable(o, bytes) \in SUBSET Ranges /\ \A r \in Cacheable(o, bytes) : RangeOk(key, r)
  <1> DEFINE x == [offset |-> o, bytes |-> bytes]
  <1>1. RangeOk(key, x) BY ExactIsRange
  <1>2. bytes \in Seq(Nat) BY ExactIsPart
  <1>3. x \in Ranges BY <1>2 DEF Ranges
  <1>4. Cacheable(o, bytes) \subseteq {x} BY DEF Cacheable
  <1> HIDE DEF x
  <1> QED BY <1>1, <1>3, <1>4

LEMMA OpenFileStep ==
  ASSUME IInv, NEW h \in Handles, NEW p, OpenFile(h, p)
  PROVE  IInv'
  <1> DEFINE v == view[MountOf(h)]  c == Versions[v][p]  k == <<v, c>>  w == Content(c)
             f == [Closed EXCEPT !.open = TRUE, !.key = k, !.ideal = w]
  <1>1. /\ ~handle[h].open /\ p \in DOMAIN Versions[v] /\ handle' = [handle EXCEPT ![h] = f]
        /\ setup' = setup /\ head' = head /\ view' = view /\ task' = task /\ plain' = plain
        /\ blobs' = blobs /\ index' = index /\ put' = put
    BY DEF OpenFile, mountFiles, objects
  <1>2. v \in DOMAIN Versions BY OfHandle DEF IInv, SetupInv
  <1>3. c \in DOMAIN ChunksOf BY <1>1, <1>2, ReadAssumption
  <1>4. Content(c) \in Seq(Nat) BY <1>3, ContentLies
  <1>5. k \in (DOMAIN Versions) \X (DOMAIN ChunksOf) /\ k \in SomeKeys /\ FileOf(k) = c
    BY <1>2, <1>3 DEF SomeKeys, FileOf
  <1> HIDE DEF k, w
  <1>6. Closed \in OpenFiles /\ Closed.cache = {} /\ Closed.pending = {} /\ Closed.answer = {}
    BY ClosedOk DEF FileOk, Closed
  <1>7. /\ f \in OpenFiles /\ f.open = TRUE /\ f.key = k /\ f.ideal = w /\ f.cache = {} /\ f.pending = {}
        /\ f.answer = {} BY <1>4, <1>5, <1>6 DEF OpenFiles, w
  <1> HIDE DEF f
  <1>8. KeyOk(k) BY <1>3, <1>5 DEF KeyOk
  <1>9. FileOk(f) BY <1>5, <1>7, <1>8 DEF FileOk, w
  <1>10. TaskOk(f, task[h])
    <2>1. TaskOk(handle[h], task[h]) BY OfHandle
    <2>2. task[h].pc = "idle" BY <1>1, <2>1 DEF TaskOk
    <2> QED BY <2>1, <2>2 DEF TaskOk
  <1>11. task' = [task EXCEPT ![h] = task[h]] BY <1>1, OfHandle
  <1>12. FilesInv' BY <1>1, <1>9, <1>10, <1>11, FilesStep
  <1> QED BY <1>1, <1>12, Unchanged DEF IInv

LEMMA CloseFileStep ==
  ASSUME IInv, NEW h \in Handles, CloseFile(h)
  PROVE  IInv'
  <1>1. /\ task[h].pc = "idle" /\ handle' = [handle EXCEPT ![h] = Closed]
        /\ setup' = setup /\ head' = head /\ view' = view /\ task' = task /\ plain' = plain
        /\ blobs' = blobs /\ index' = index /\ put' = put
    BY DEF CloseFile, mountFiles, objects
  <1>2. TaskOk(Closed, task[h]) BY <1>1, OfHandle DEF TaskOk
  <1>3. task' = [task EXCEPT ![h] = task[h]] BY <1>1, OfHandle
  <1>4. FilesInv' BY <1>1, <1>2, <1>3, ClosedOk, FilesStep
  <1> QED BY <1>1, <1>4, Unchanged DEF IInv

LEMMA ReadPendingStep ==
  ASSUME IInv, NEW h \in Handles, NEW o \in Nat, NEW l \in Nat, ReadPending(h, o, l)
  PROVE  IInv'
  <1>1. PICK bytes \in handle[h].pending :
          /\ o <= Len(bytes)
          /\ handle' = [handle EXCEPT ![h].answer = Answer(o, l, Requested(bytes, o, l))]
    BY DEF ReadPending
  <1>2. /\ setup' = setup /\ head' = head /\ view' = view /\ task' = task /\ plain' = plain
        /\ blobs' = blobs /\ index' = index /\ put' = put /\ task[h].pc = "idle"
    BY DEF ReadPending, mountFiles, objects, Ready
  <1> DEFINE f == handle[h]  b == Requested(bytes, o, l)  x == [offset |-> o, length |-> l, bytes |-> b]
             n == [f EXCEPT !.answer = {x}]
  <1>3. FileOk(f) /\ f \in OpenFiles BY OfHandle
  <1>4. bytes = f.ideal /\ bytes \in Seq(Nat) BY <1>1, <1>3 DEF FileOk, OpenFiles
  <1>5. handle' = [handle EXCEPT ![h] = n] BY <1>1 DEF Answer
  <1>6. b \in Seq(Nat)
    <2> DEFINE z == Len(bytes)  e == Least(o + l, z)
    <2>1. z \in Nat BY <1>4, LenProperties
    <2> HIDE DEF z
    <2>2. e \in Nat /\ e <= z BY <2>1 DEF Least
    <2> HIDE DEF e
    <2>3. SubSeq(bytes, o + 1, e) \in Seq(Nat) BY <1>4, <2>1, <2>2, Part DEF z
    <2> QED BY <2>3 DEF Requested, Slice, e, z
  <1>7. x \in Answers BY <1>6 DEF Answers
  <1>8. x.bytes = Requested(f.ideal, x.offset, x.length) BY <1>4
  <1> HIDE DEF x, f
  <1>9. /\ n \in OpenFiles /\ n.key = f.key /\ n.open = f.open /\ n.pending = f.pending
        /\ n.ideal = f.ideal /\ n.answer = {x} /\ n.cache = f.cache BY <1>3, <1>7 DEF OpenFiles
  <1> HIDE DEF n
  <1>10. FileOk(n) BY <1>3, <1>8, <1>9 DEF FileOk
  <1>11. TaskOk(n, task[h]) BY <1>2, OfHandle DEF TaskOk
  <1>12. task' = [task EXCEPT ![h] = task[h]] BY <1>2, OfHandle
  <1>13. FilesInv' BY <1>5, <1>10, <1>11, <1>12, FilesStep
  <1> QED BY <1>2, <1>13, Unchanged DEF IInv

LEMMA EditPendingStep ==
  ASSUME IInv, NEW h \in Handles, NEW edit \in Edits, EditPending(h, edit)
  PROVE  IInv'
  <1>1. PICK bytes \in handle[h].pending : handle' = [handle EXCEPT ![h] = WithEdit(@, bytes, edit)]
    BY DEF EditPending
  <1>2. /\ setup' = setup /\ head' = head /\ view' = view /\ task' = task /\ plain' = plain
        /\ blobs' = blobs /\ index' = index /\ put' = put /\ task[h].pc = "idle"
    BY DEF EditPending, mountFiles, objects, Ready
  <1> DEFINE f == handle[h]  n == WithEdit(f, bytes, edit)
  <1>3. FileOk(f) BY OfHandle
  <1>4. bytes = f.ideal BY <1>1, <1>3 DEF FileOk
  <1>5. handle' = [handle EXCEPT ![h] = n] BY <1>1
  <1>6. IsEdit(edit) BY ReadAssumption DEF IsEdit
  <1> HIDE DEF f
  <1>7. FileOk(n) BY <1>3, <1>4, <1>6, WithEditOk
  <1> HIDE DEF n
  <1>8. TaskOk(n, task[h]) BY <1>2, OfHandle DEF TaskOk
  <1>9. task' = [task EXCEPT ![h] = task[h]] BY <1>2, OfHandle
  <1>10. FilesInv' BY <1>5, <1>7, <1>8, <1>9, FilesStep
  <1> QED BY <1>2, <1>10, Unchanged DEF IInv

\* A read that goes on where it is.
LEMMA TaskStep ==
  ASSUME IInv, NEW h \in Handles, NEW t \in Tasks, handle[h].open, handle[h].pending = {},
         t.pc \in {"rewrite", "list"} => t.next \in {"cover", "origin", "hit", "keep"},
         t.offset <= Size(h),
         t.edit.kind # "read" => t.offset = 0 /\ t.length = Size(h),
         HasBytes(t) => t.bytes = Exact(Key(h), t.offset, t.length),
         handle' = handle, task' = [task EXCEPT ![h] = t]
  PROVE  FilesInv'
  <1>1. TaskOk(handle[h], t) BY DEF TaskOk, Size, Key
  <1>2. FileOk(handle[h]) /\ handle' = [handle EXCEPT ![h] = handle[h]] BY OfHandle
  <1> QED BY <1>1, <1>2, FilesStep

\* One mount's plaintext cache changes.
LEMMA PlainStep ==
  ASSUME IInv, NEW m \in Mounts, NEW c, CacheOk(c), c.total <= setup.budget,
         setup' = setup, plain' = [plain EXCEPT ![m] = c]
  PROVE  PlainInv'
  <1>1. plain = [n \in Mounts |-> plain[n]] /\ \A n \in Mounts : CacheOk(plain[n]) /\ plain[n].total <= setup.budget
    BY DEF IInv, PlainInv
  <1>2. plain' = [n \in Mounts |-> plain'[n]] BY <1>1
  <1>3. \A n \in Mounts : plain'[n] = IF n = m THEN c ELSE plain[n] BY <1>1
  <1> QED BY <1>1, <1>2, <1>3 DEF PlainInv

LEMMA StartReadStep ==
  ASSUME IInv, NEW h \in Handles, NEW o \in Nat, NEW l \in Nat, NEW edit \in EditRecords,
         edit.kind # "read" => o = 0 /\ l = Size(h), StartRead(h, o, l, edit)
  PROVE  IInv'
  <1> DEFINE m == MountOf(h)
             mine == CachedRangeBytes(handle[h].cache, Size(h), o, l)
             shared == {Requested(e.bytes, o, l) : e \in OfKey(plain[m].entries, Key(h))}
             t == [Idle EXCEPT !.pc = IF setup.disk THEN "exact" ELSE "origin",
                               !.offset = o, !.length = l, !.edit = edit]
  <1>1. /\ handle[h].open /\ handle[h].pending = {} /\ o <= Size(h)
        /\ setup' = setup /\ head' = head /\ view' = view /\ blobs' = blobs /\ index' = index /\ put' = put
    BY DEF StartRead, mountFiles, objects, Ready
  <1>2. \/ \E bytes \in mine : Finish(h, o, l, edit, bytes, handle[h].cache) /\ plain' = plain
        \/ /\ \E bytes \in shared : Finish(h, o, l, edit, bytes, Cacheable(o, bytes))
           /\ plain' = [plain EXCEPT ![m] = Touched(@, Key(h))]
        \/ handle' = handle /\ plain' = plain /\ task' = [task EXCEPT ![h] = t]
    BY DEF StartRead
  <1>3. /\ FileOk(handle[h]) /\ handle[h] \in OpenFiles /\ m \in Mounts BY OfHandle
  <1>4. KeyOk(Key(h)) /\ Size(h) = FileSize(FileOf(Key(h))) /\ handle[h].cache \in SUBSET Ranges
        /\ \A r \in handle[h].cache : RangeOk(Key(h), r)
    BY <1>1, <1>3 DEF FileOk, Key, Size, OpenFiles
  <1> HIDE DEF m, mine, shared, t
  <1>5. CASE \E bytes \in mine : Finish(h, o, l, edit, bytes, handle[h].cache) /\ plain' = plain
    <2>1. PICK bytes \in mine : Finish(h, o, l, edit, bytes, handle[h].cache) /\ plain' = plain BY <1>5
    <2>2. PICK r \in handle[h].cache : MayAnswer(r, Size(h), o, l) /\ bytes = Requested(r.bytes, o - r.offset, l)
      BY DEF mine, CachedRangeBytes
    <2>3. RangeOk(Key(h), r) BY <1>4
    <2>4. bytes = Exact(Key(h), o, l) BY <1>4, <2>2, <2>3, CachedAnswer
    <2>5. FilesInv' BY <1>1, <1>4, <2>1, <2>4, FinishOk
    <2> QED BY <1>1, <2>1, <2>5, Unchanged DEF IInv
  <1>6. CASE /\ \E bytes \in shared : Finish(h, o, l, edit, bytes, Cacheable(o, bytes))
             /\ plain' = [plain EXCEPT ![m] = Touched(@, Key(h))]
    <2>1. PICK bytes \in shared : Finish(h, o, l, edit, bytes, Cacheable(o, bytes)) BY <1>6
    <2> DEFINE s == plain[m].entries
    <2>2. PICK e \in OfKey(s, Key(h)) : bytes = Requested(e.bytes, o, l) BY DEF shared
    <2>3. CacheOk(plain[m]) /\ plain[m].total <= setup.budget BY <1>3 DEF IInv, PlainInv
    <2>4. s \in Seq(Exacts) BY <2>3 DEF CacheOk
    <2> HIDE DEF s
    <2>5. e.key = Key(h) /\ e \in Exacts
      <3>1. e \in Range(s) /\ e.key = Key(h) BY DEF OfKey
      <3>2. PICK i \in DOMAIN s : e = s[i] BY <3>1 DEF Range
      <3>3. e \in Exacts BY <2>4, <3>2, LenProperties, ElementOfSeq
      <3> QED BY <3>1, <3>3
    <2>6. bytes = Exact(Key(h), o, l) BY <2>2, <2>5, ExactEntries DEF Exact
    <2>7. Cacheable(o, bytes) \in SUBSET Ranges /\ \A r \in Cacheable(o, bytes) : RangeOk(Key(h), r)
      BY <1>1, <1>4, <2>6, CacheableOk
    <2>8. FilesInv' BY <1>1, <2>1, <2>6, <2>7, FinishOk
    <2>9. PlainInv'
      <3> DEFINE c == Touched(plain[m], Key(h))
      <3>1. CacheOk(c) /\ c.total <= setup.budget BY <2>3, TouchedOk
      <3>2. plain' = [plain EXCEPT ![m] = c] BY <1>6
      <3> HIDE DEF c
      <3> QED BY <1>1, <1>3, <3>1, <3>2, PlainStep
    <2> QED BY <1>1, <2>8, <2>9, Unchanged DEF IInv
  <1>7. CASE handle' = handle /\ plain' = plain /\ task' = [task EXCEPT ![h] = t]
    <2>1. /\ t.pc \in {"exact", "origin"} /\ t.offset = o /\ t.length = l /\ t.edit = edit /\ t \in Tasks
      BY IdleOk DEF t, Idle, Tasks, Stages
    <2>2. ~HasBytes(t) BY <2>1 DEF HasBytes
    <2>3. FilesInv' BY <1>1, <1>7, <2>1, <2>2, TaskStep
    <2> QED BY <1>1, <1>7, <2>3, Unchanged DEF IInv
  <1> QED BY <1>2, <1>5, <1>6, <1>7

LEMMA ReadStep ==
  ASSUME IInv, NEW h \in Handles, Read(h)
  PROVE  IInv'
  <1>1. PICK r \in Requests : StartRead(h, r[1], r[2], Reading) BY DEF Read
  <1>2. r[1] \in Nat /\ r[2] \in Nat BY ReadAssumption
  <1>3. Reading \in EditRecords /\ Reading.kind = "read" BY DEF Reading, EditRecords
  <1> QED BY <1>1, <1>2, <1>3, StartReadStep

LEMMA EditStep ==
  ASSUME IInv, NEW h \in Handles, Edit(h)
  PROVE  IInv'
  <1>1. PICK e \in Edits : StartRead(h, 0, Size(h), e) BY DEF Edit
  <1>2. e \in EditRecords BY ReadAssumption DEF EditRecords
  <1>3. Size(h) \in Nat
    <2>1. handle[h].open BY <1>1 DEF StartRead, Ready
    <2>2. FileOf(Key(h)) \in DOMAIN ChunksOf BY <2>1, OfHandle DEF FileOk, KeyOk, Key
    <2> QED BY <2>2, ContentLies DEF Size
  <1> QED BY <1>1, <1>2, <1>3, StartReadStep

\* A read under way.
LEMMA UnderWay ==
  ASSUME IInv, NEW h \in Handles, task[h].pc # "idle"
  PROVE  /\ handle[h].open /\ handle[h].pending = {}
         /\ task[h].offset \in Nat /\ task[h].length \in Nat /\ task[h].offset <= Size(h)
         /\ task[h].edit \in EditRecords
         /\ task[h].edit.kind # "read" => task[h].offset = 0 /\ task[h].length = Size(h)
         /\ KeyOk(Key(h)) /\ Key(h) \in (DOMAIN Versions) \X (DOMAIN ChunksOf)
         /\ Size(h) = FileSize(FileOf(Key(h))) /\ Size(h) \in Nat
         /\ HasBytes(task[h]) => task[h].bytes = Exact(Key(h), task[h].offset, task[h].length)
         /\ task[h] \in Tasks /\ task[h].bytes \in Seq(Nat) /\ task[h].entries \in Seq(Nat \X Nat)
  <1>1. FileOk(handle[h]) /\ TaskOk(handle[h], task[h]) /\ task[h] \in Tasks BY OfHandle
  <1>2. handle[h].open /\ handle[h].pending = {} BY <1>1 DEF TaskOk
  <1>3. KeyOk(Key(h)) /\ Key(h) \in (DOMAIN Versions) \X (DOMAIN ChunksOf) BY <1>1, <1>2 DEF FileOk, Key
  <1>4. Size(h) = FileSize(FileOf(Key(h))) BY DEF Size
  <1>5. Size(h) \in Nat BY <1>3, <1>4, ContentLies DEF KeyOk
  <1>6. /\ task[h].offset \in Nat /\ task[h].length \in Nat /\ task[h].edit \in EditRecords
        /\ task[h].bytes \in Seq(Nat) /\ task[h].entries \in Seq(Nat \X Nat)
    BY <1>1 DEF Tasks
  <1>7. /\ task[h].offset <= Size(h)
        /\ task[h].edit.kind # "read" => task[h].offset = 0 /\ task[h].length = Size(h)
    BY <1>1 DEF TaskOk, Size, Key
  <1>8. HasBytes(task[h]) => task[h].bytes = Exact(Key(h), task[h].offset, task[h].length)
    BY <1>1 DEF TaskOk, Key
  <1> QED BY <1>1, <1>2, <1>3, <1>4, <1>5, <1>6, <1>7, <1>8

LEMMA IndexEntriesOk ==
  ASSUME IInv, NEW key
  PROVE  IndexEntries(key) \in Seq(Nat \X Nat)
  <1>1. << >> \in Seq(Nat \X Nat) OBVIOUS
  <1> QED BY <1>1 DEF IndexEntries, IInv, IndexInv

\* Files of the disk cache that are removed, and one that is written.
LEMMA BlobsRemoved ==
  ASSUME IInv, NEW K, blobs' = Without(blobs, K)
  PROVE  BlobsInv'
  <1>1. DOMAIN blobs' \subseteq DOMAIN blobs /\ \A b \in DOMAIN blobs' : blobs'[b] = blobs[b]
    BY DEF Without, Restrict
  <1> QED BY <1>1 DEF IInv, BlobsInv

LEMMA BlobIsPut ==
  ASSUME IInv, NEW b, NEW x, BlobOk(b, x), blobs' = Put(blobs, b, x)
  PROVE  BlobsInv'
  <1>1. \A c \in DOMAIN blobs' : blobs'[c] = (IF c = b THEN x ELSE blobs[c]) /\ (c = b \/ c \in DOMAIN blobs)
    BY DEF Put
  <1> QED BY <1>1 DEF IInv, BlobsInv

LEMMA IndexRemoved ==
  ASSUME IInv, NEW K, index' = Without(index, K)
  PROVE  IndexInv'
  <1>1. DOMAIN index' \subseteq DOMAIN index /\ \A k \in DOMAIN index' : index'[k] = index[k]
    BY DEF Without, Restrict
  <1> QED BY <1>1 DEF IInv, IndexInv

LEMMA IndexIsPut ==
  ASSUME IInv, NEW key, NEW x, x.torn \in BOOLEAN, x.entries \in Seq(Nat \X Nat), index' = Put(index, key, x)
  PROVE  IndexInv'
  <1>1. \A c \in DOMAIN index' : index'[c] = (IF c = key THEN x ELSE index[c]) /\ (c = key \/ c \in DOMAIN index)
    BY DEF Put
  <1> QED BY <1>1 DEF IInv, IndexInv

\* What a range file holds.
LEMMA WholeBlobIsExact ==
  ASSUME IInv, NEW key, NEW e, WholeBlob(key, e)
  PROVE  /\ KeyOk(key) /\ RangeOk(key, BlobAt(key, e)) /\ BlobAt(key, e) \in Ranges
         /\ BlobAt(key, e).offset = e[1] /\ Len(BlobAt(key, e).bytes) = e[2]
         /\ BlobAt(key, e).bytes = Exact(key, e[1], e[2])
  <1> DEFINE b == <<key, e[1], e[2]>>  r == blobs[b].range
  <1>1. b \in DOMAIN blobs /\ ~blobs[b].torn /\ r.offset = e[1] /\ Len(r.bytes) = e[2] BY DEF WholeBlob
  <1>2. b[1] = key OBVIOUS
  <1> HIDE DEF b
  <1>3. KeyOk(key) /\ RangeOk(key, r) /\ r \in Ranges BY <1>1, <1>2 DEF IInv, BlobsInv, BlobOk
  <1>4. BlobAt(key, e) = r BY DEF BlobAt, b
  <1>5. r.bytes = Exact(key, e[1], e[2]) BY <1>1, <1>3 DEF RangeOk, RangeIsExact
  <1> QED BY <1>1, <1>3, <1>4, <1>5 DEF b

\* The steps that only move a read on.
LEMMA GotoStep ==
  ASSUME IInv, NEW h \in Handles, NEW pc \in Stages, task[h].pc # "idle",
         pc \in {"rewrite", "list"} => task[h].next \in {"cover", "origin", "hit", "keep"},
         pc \in {"hit", "store", "keep"} \/ (pc \in {"rewrite", "list"} /\ task[h].next \in {"hit", "keep"})
           => HasBytes(task[h]),
         handle' = handle, Goto(h, pc)
  PROVE  FilesInv'
  <1> DEFINE s == task[h]  t == [s EXCEPT !.pc = pc]
  <1>1. s \in Tasks BY UnderWay
  <1>2. task' = [task EXCEPT ![h] = t] BY DEF Goto
  <1> HIDE DEF s
  <1>3. /\ t \in Tasks /\ t.pc = pc /\ t.offset = s.offset /\ t.length = s.length /\ t.edit = s.edit
        /\ t.bytes = s.bytes /\ t.next = s.next BY <1>1 DEF Tasks
  <1> HIDE DEF t
  <1>4. HasBytes(t) => t.bytes = Exact(Key(h), t.offset, t.length) BY <1>3, UnderWay DEF HasBytes, s
  <1>5. t.pc \in {"rewrite", "list"} => t.next \in {"cover", "origin", "hit", "keep"} BY <1>3 DEF s
  <1>6. t.offset <= Size(h) /\ (t.edit.kind # "read" => t.offset = 0 /\ t.length = Size(h))
    BY <1>3, UnderWay DEF s
  <1> QED BY <1>2, <1>3, <1>4, <1>5, <1>6, UnderWay, TaskStep

LEMMA RewriteStep ==
  ASSUME IInv, NEW h \in Handles, NEW entries \in Seq(Nat \X Nat), NEW next \in {"cover", "keep"},
         task[h].pc # "idle", next = "keep" => HasBytes(task[h]), handle' = handle, Rewrite(h, entries, next)
  PROVE  FilesInv'
  <1> DEFINE s == task[h]  t == [s EXCEPT !.pc = "rewrite", !.entries = entries, !.next = next]
  <1>1. s \in Tasks BY UnderWay
  <1>2. task' = [task EXCEPT ![h] = t] BY DEF Rewrite
  <1> HIDE DEF s
  <1>3. /\ t \in Tasks /\ t.pc = "rewrite" /\ t.offset = s.offset /\ t.length = s.length /\ t.edit = s.edit
        /\ t.bytes = s.bytes /\ t.next = next BY <1>1 DEF Tasks, Stages
  <1> HIDE DEF t
  <1>4. HasBytes(t) => t.bytes = Exact(Key(h), t.offset, t.length) BY <1>3, UnderWay DEF HasBytes, s
  <1>5. t.next \in {"cover", "origin", "hit", "keep"} BY <1>3
  <1>6. t.offset <= Size(h) /\ (t.edit.kind # "read" => t.offset = 0 /\ t.length = Size(h))
    BY <1>3, UnderWay DEF s
  <1> QED BY <1>2, <1>3, <1>4, <1>5, <1>6, UnderWay, TaskStep

LEMMA ReadExactStep ==
  ASSUME IInv, NEW h \in Handles, ReadExact(h)
  PROVE  IInv'
  <1> DEFINE e == Entry(task[h].offset, task[h].length)  r == BlobAt(Key(h), e)
  <1>1. /\ task[h].pc = "exact"
        /\ setup' = setup /\ head' = head /\ view' = view /\ plain' = plain /\ index' = index /\ put' = put
    BY DEF ReadExact, At, objects
  <1>2. \/ WholeBlob(Key(h), e) /\ FinishTask(h, r.bytes, {r}) /\ blobs' = blobs
        \/ /\ blobs' = Without(blobs, {<<Key(h), e[1], e[2]>>}) /\ handle' = handle
           /\ Rewrite(h, Strike(IndexEntries(Key(h)), {e}), "cover")
    BY DEF ReadExact
  <1>3. e[1] = task[h].offset /\ e[2] = task[h].length BY DEF Entry
  <1> HIDE DEF e
  <1>4. CASE WholeBlob(Key(h), e) /\ FinishTask(h, r.bytes, {r}) /\ blobs' = blobs
    <2>1. RangeOk(Key(h), r) /\ r \in Ranges /\ r.bytes = Exact(Key(h), task[h].offset, task[h].length)
      BY <1>3, <1>4, WholeBlobIsExact
    <2> HIDE DEF r
    <2>2. {r} \in SUBSET Ranges /\ \A x \in {r} : RangeOk(Key(h), x) BY <2>1
    <2>3. FilesInv' BY <1>1, <1>4, <2>1, <2>2, UnderWay, FinishOk DEF FinishTask
    <2> QED BY <1>1, <1>4, <2>3, Unchanged DEF IInv
  <1>5. CASE /\ blobs' = Without(blobs, {<<Key(h), e[1], e[2]>>}) /\ handle' = handle
             /\ Rewrite(h, Strike(IndexEntries(Key(h)), {e}), "cover")
    <2>1. Strike(IndexEntries(Key(h)), {e}) \in Seq(Nat \X Nat) BY IndexEntriesOk, StrikeIsSeq
    <2>2. FilesInv' BY <1>1, <1>5, <2>1, RewriteStep
    <2>3. BlobsInv' BY <1>5, BlobsRemoved
    <2> QED BY <1>1, <2>2, <2>3, Unchanged DEF IInv
  <1> QED BY <1>2, <1>4, <1>5

LEMMA RewriteIndexStep ==
  ASSUME IInv, NEW h \in Handles, RewriteIndex(h)
  PROVE  IInv'
  <1>1. /\ task[h].pc = "rewrite"
        /\ setup' = setup /\ head' = head /\ view' = view /\ handle' = handle /\ plain' = plain
        /\ blobs' = blobs /\ put' = put
    BY DEF RewriteIndex, At, objects
  <1>2. \/ index' = Without(index, {Key(h)}) /\ Goto(h, task[h].next)
        \/ index' = Put(index, Key(h), TornList) /\ Goto(h, "list")
    BY DEF RewriteIndex
  <1>3. task[h].next \in {"cover", "origin", "hit", "keep"} /\ task[h].next \in Stages
    BY <1>1, OfHandle DEF TaskOk, Stages
  <1>4. task[h].next \in {"hit", "keep"} => HasBytes(task[h]) BY <1>1 DEF HasBytes
  <1>5. CASE index' = Without(index, {Key(h)}) /\ Goto(h, task[h].next)
    <2>1. IndexInv' BY <1>5, IndexRemoved
    <2>2. FilesInv' BY <1>1, <1>3, <1>4, <1>5, GotoStep
    <2> QED BY <1>1, <2>1, <2>2, Unchanged DEF IInv
  <1>6. CASE index' = Put(index, Key(h), TornList) /\ Goto(h, "list")
    <2>1. TornList.torn \in BOOLEAN /\ TornList.entries \in Seq(Nat \X Nat) BY DEF TornList
    <2>2. IndexInv' BY <1>6, <2>1, IndexIsPut
    <2>3. "list" \in Stages BY DEF Stages
    <2>4. FilesInv' BY <1>1, <1>3, <1>4, <1>6, <2>3, GotoStep
    <2> QED BY <1>1, <2>2, <2>4, Unchanged DEF IInv
  <1> QED BY <1>2, <1>5, <1>6

LEMMA FillIndexStep ==
  ASSUME IInv, NEW h \in Handles, FillIndex(h)
  PROVE  IInv'
  <1>1. /\ task[h].pc = "list" /\ Goto(h, task[h].next)
        /\ setup' = setup /\ head' = head /\ view' = view /\ handle' = handle /\ plain' = plain
        /\ blobs' = blobs /\ put' = put
    BY DEF FillIndex, At, objects
  <1> DEFINE x == [torn |-> FALSE, entries |-> task[h].entries]
  <1>2. index' = Put(index, Key(h), x) BY DEF FillIndex
  <1>3. task[h].next \in {"cover", "origin", "hit", "keep"} /\ task[h].next \in Stages
    BY <1>1, OfHandle DEF TaskOk, Stages
  <1>4. task[h].next \in {"hit", "keep"} => HasBytes(task[h]) BY <1>1 DEF HasBytes
  <1>5. x.torn \in BOOLEAN /\ x.entries \in Seq(Nat \X Nat) BY <1>1, UnderWay
  <1> HIDE DEF x
  <1>6. IndexInv' BY <1>2, <1>5, IndexIsPut
  <1>7. FilesInv' BY <1>1, <1>3, <1>4, GotoStep
  <1> QED BY <1>1, <1>6, <1>7, Unchanged DEF IInv

LEMMA MinOf ==
  ASSUME NEW S, S \subseteq Nat, S # {}
  PROVE  Min(S) \in S
  <1>1. \E x \in S : \A y \in S : x <= y BY LeastNat
  <1> QED BY <1>1 DEF Min

LEMMA ReadCoveringStep ==
  ASSUME IInv, NEW h \in Handles, ReadCovering(h)
  PROVE  IInv'
  <1> DEFINE key == Key(h)  o == task[h].offset  n == task[h].length
             entries == IndexEntries(key)
             hits == {i \in DOMAIN entries : WholeBlob(key, entries[i]) /\ Covers(BlobAt(key, entries[i]), o, n)}
             seen == IF hits = {} THEN DOMAIN entries ELSE 1..Min(hits)
             stale == {entries[i] : i \in {j \in seen : ~WholeBlob(key, entries[j])}}
             found == {Slice(BlobAt(key, entries[i]).bytes, o - entries[i][1], o - entries[i][1] + n) :
                         i \in IF hits = {} THEN {} ELSE {Min(hits)}}
             gone == {<<key, e[1], e[2]>> : e \in stale}
             bytes == IF found = {} THEN << >> ELSE CHOOSE b \in found : TRUE
             kept == Strike(entries, stale)
             next == IF found = {} THEN "origin" ELSE "hit"
             pc == IF stale # {} THEN "rewrite" ELSE next
             s == task[h]
             t == [s EXCEPT !.bytes = bytes, !.entries = kept, !.next = next, !.pc = pc]
  <1>1. /\ s.pc = "cover" /\ blobs' = Without(blobs, gone)
        /\ setup' = setup /\ head' = head /\ view' = view /\ handle' = handle /\ plain' = plain
        /\ index' = index /\ put' = put
    BY DEF ReadCovering, At, objects
  <1>2. task' = [task EXCEPT ![h] = t] BY DEF ReadCovering
  <1>3. entries \in Seq(Nat \X Nat) BY IndexEntriesOk
  <1>4. kept \in Seq(Nat \X Nat) BY <1>3, StrikeIsSeq
  <1>5. ASSUME NEW b \in found PROVE b = Exact(key, o, n)
    <2>1. hits # {} OBVIOUS
    <2>2. hits \subseteq Nat BY <1>3, LenProperties
    <2>3. Min(hits) \in hits BY <2>1, <2>2, MinOf
    <2> DEFINE m == Min(hits)  e == entries[m]  r == BlobAt(key, e)
    <2>4. b = Slice(r.bytes, o - e[1], o - e[1] + n) OBVIOUS
    <2>5. WholeBlob(key, e) /\ Covers(r, o, n) BY <2>3
    <2>6. KeyOk(key) /\ RangeOk(key, r) /\ r.offset = e[1] BY <2>5, WholeBlobIsExact
    <2>7. o \in Nat /\ n \in Nat BY <1>1, UnderWay
    <2> HIDE DEF e, r, o, n, key
    <2>8. Slice(r.bytes, o - r.offset, o - r.offset + n) = Exact(key, o, n) BY <2>5, <2>6, <2>7, CoveringAnswer
    <2> QED BY <2>4, <2>6, <2>8
  <1>6. /\ o \in Nat /\ n \in Nat /\ KeyOk(key) /\ o <= FileSize(FileOf(key)) /\ s \in Tasks
        /\ o <= Size(h) /\ (s.edit.kind # "read" => o = 0 /\ n = Size(h))
        /\ handle[h].open /\ handle[h].pending = {}
    BY <1>1, UnderWay
  <1>7. s.offset = o /\ s.length = n OBVIOUS
  <1>8. Exact(key, o, n) \in Seq(Nat) BY <1>6, ExactIsPart
  <1>9. found # {} => bytes = Exact(key, o, n) BY <1>5
  <1>10. BlobsInv' BY <1>1, BlobsRemoved
  <1> HIDE DEF found, kept, stale
  <1>11. << >> \in Seq(Nat) OBVIOUS
  <1>12. bytes \in Seq(Nat) BY <1>8, <1>9, <1>11
  <1>13. next \in {"origin", "hit"} /\ pc \in {"rewrite", "origin", "hit"} OBVIOUS
  <1>14. (next = "hit" \/ pc = "hit") => bytes = Exact(key, o, n) BY <1>9
  <1> HIDE DEF bytes, next, pc, s, o, n, key
  <1>15. /\ t \in Tasks /\ t.pc = pc /\ t.offset = s.offset /\ t.length = s.length /\ t.edit = s.edit
         /\ t.bytes = bytes /\ t.next = next
    BY <1>4, <1>6, <1>12, <1>13 DEF Tasks, Stages
  <1> HIDE DEF t
  <1>16. HasBytes(t) => t.bytes = Exact(key, t.offset, t.length) BY <1>7, <1>13, <1>14, <1>15 DEF HasBytes
  <1>17. t.pc \in {"rewrite", "list"} => t.next \in {"cover", "origin", "hit", "keep"} BY <1>13, <1>15
  <1>18. t.offset <= Size(h) /\ (t.edit.kind # "read" => t.offset = 0 /\ t.length = Size(h)) BY <1>6, <1>7, <1>15
  <1>19. FilesInv' BY <1>1, <1>2, <1>6, <1>15, <1>16, <1>17, <1>18, TaskStep DEF key
  <1> QED BY <1>1, <1>10, <1>19, Unchanged DEF IInv

LEMMA CoveringHitStep ==
  ASSUME IInv, NEW h \in Handles, CoveringHit(h)
  PROVE  IInv'
  <1> DEFINE r == [offset |-> task[h].offset, bytes |-> task[h].bytes]
  <1>1. /\ task[h].pc = "hit" /\ FinishTask(h, task[h].bytes, {r})
        /\ setup' = setup /\ head' = head /\ view' = view /\ plain' = plain
        /\ blobs' = blobs /\ index' = index /\ put' = put
    BY DEF CoveringHit, At, objects, mountFiles
  <1>2. task[h].bytes = Exact(Key(h), task[h].offset, task[h].length) BY <1>1, UnderWay DEF HasBytes
  <1>3. RangeOk(Key(h), r) BY <1>1, <1>2, UnderWay, ExactIsRange
  <1>4. r \in Ranges BY <1>1, UnderWay DEF Ranges
  <1> HIDE DEF r
  <1>5. {r} \in SUBSET Ranges /\ \A x \in {r} : RangeOk(Key(h), x) BY <1>3, <1>4
  <1>6. FilesInv' BY <1>1, <1>2, <1>5, UnderWay, FinishOk DEF FinishTask
  <1> QED BY <1>1, <1>6, Unchanged DEF IInv

LEMMA ReadOriginStep ==
  ASSUME IInv, NEW h \in Handles, ReadOrigin(h)
  PROVE  IInv'
  <1> DEFINE key == Key(h)  o == task[h].offset  n == task[h].length  s == task[h]
             bytes == ReadRange(FileOf(key), o, n).output
             pc == IF setup.disk THEN "store" ELSE "keep"
             t == [s EXCEPT !.bytes = bytes, !.pc = pc]
             b == <<key, o, Len(bytes)>>
  <1>1. /\ s.pc = "origin" /\ (blobs' = Put(blobs, b, TornBlob) \/ blobs' = blobs)
        /\ setup' = setup /\ head' = head /\ view' = view /\ handle' = handle /\ plain' = plain
        /\ index' = index /\ put' = put
    BY DEF ReadOrigin, At, objects
  <1>2. task' = [task EXCEPT ![h] = t] BY DEF ReadOrigin
  <1>3. /\ o \in Nat /\ n \in Nat /\ KeyOk(key) /\ o <= FileSize(FileOf(key)) /\ s \in Tasks
        /\ o <= Size(h) /\ (s.edit.kind # "read" => o = 0 /\ n = Size(h))
        /\ handle[h].open /\ handle[h].pending = {}
    BY <1>1, UnderWay
  <1>4. bytes = Exact(key, o, n)
    <2>1. FileOf(key) \in DOMAIN ChunksOf BY <1>3 DEF KeyOk
    <2> DEFINE f == FileOf(key)
    <2> HIDE DEF o, n
    <2>2. ReadRange(f, o, n).output = Requested(Content(f), o, n) BY <1>3, <2>1, ReadRangeIsExact
    <2> QED BY <2>2 DEF Exact
  <1>5. Exact(key, o, n) \in Seq(Nat) BY <1>3, ExactIsPart
  <1>6. s.offset = o /\ s.length = n OBVIOUS
  <1>7. BlobsInv'
    <2>1. BlobOk(b, TornBlob) BY DEF BlobOk, TornBlob
    <2> HIDE DEF b
    <2>2. CASE blobs' = Put(blobs, b, TornBlob) BY <2>1, <2>2, BlobIsPut
    <2>3. CASE blobs' = blobs BY <2>3, Unchanged
    <2> QED BY <1>1, <2>2, <2>3
  <1>8. pc \in {"store", "keep"} OBVIOUS
  <1> HIDE DEF bytes, pc, s, o, n, key
  <1>9. /\ t \in Tasks /\ t.pc = pc /\ t.offset = s.offset /\ t.length = s.length /\ t.edit = s.edit
        /\ t.bytes = bytes
    BY <1>3, <1>4, <1>5, <1>8 DEF Tasks, Stages
  <1> HIDE DEF t
  <1>10. HasBytes(t) => t.bytes = Exact(key, t.offset, t.length) BY <1>4, <1>6, <1>9
  <1>11. t.pc \in {"rewrite", "list"} => t.next \in {"cover", "origin", "hit", "keep"} BY <1>8, <1>9
  <1>12. t.offset <= Size(h) /\ (t.edit.kind # "read" => t.offset = 0 /\ t.length = Size(h)) BY <1>3, <1>6, <1>9
  <1>13. FilesInv' BY <1>1, <1>2, <1>3, <1>9, <1>10, <1>11, <1>12, TaskStep DEF key
  <1> QED BY <1>1, <1>7, <1>13, Unchanged DEF IInv

LEMMA ReadFailsStep ==
  ASSUME IInv, NEW h \in Handles, ReadFails(h)
  PROVE  IInv'
  <1> DEFINE f == handle[h]  n == [f EXCEPT !.answer = {}]
  <1>1. /\ task' = [task EXCEPT ![h] = Idle] /\ handle' = [handle EXCEPT ![h] = n]
        /\ setup' = setup /\ head' = head /\ view' = view /\ plain' = plain
        /\ blobs' = blobs /\ index' = index /\ put' = put
    BY DEF ReadFails, mountFiles
  <1>2. FileOk(f) /\ f \in OpenFiles BY OfHandle
  <1> HIDE DEF f
  <1>3. /\ n \in OpenFiles /\ n.key = f.key /\ n.open = f.open /\ n.pending = f.pending
        /\ n.ideal = f.ideal /\ n.answer = {} /\ n.cache = f.cache BY <1>2 DEF OpenFiles
  <1> HIDE DEF n
  <1>4. FileOk(n) BY <1>2, <1>3 DEF FileOk
  <1>5. FilesInv' BY <1>1, <1>4, IdleOk, FilesStep
  <1> QED BY <1>1, <1>5, Unchanged DEF IInv

LEMMA StoreRangeStep ==
  ASSUME IInv, NEW h \in Handles, StoreRange(h)
  PROVE  IInv'
  <1> DEFINE key == Key(h)  o == task[h].offset  bytes == task[h].bytes  e == Entry(o, Len(bytes))
             entries == IndexEntries(key)
             more == IF e \in Range(entries) THEN entries ELSE Append(entries, e)
             r == [offset |-> o, bytes |-> bytes]
             x == [torn |-> FALSE, range |-> [offset |-> e[1], bytes |-> bytes]]
             b == <<key, e[1], e[2]>>
  <1>1. /\ task[h].pc = "store" /\ blobs' = Put(blobs, b, x) /\ Rewrite(h, more, "keep")
        /\ setup' = setup /\ head' = head /\ view' = view /\ handle' = handle /\ plain' = plain
        /\ index' = index /\ put' = put
    BY DEF StoreRange, At, objects
  <1>2. bytes = Exact(key, o, task[h].length) /\ HasBytes(task[h]) BY <1>1, UnderWay DEF HasBytes
  <1>3. RangeOk(key, r) BY <1>1, <1>2, UnderWay, ExactIsRange
  <1>4. o \in Nat /\ bytes \in Seq(Nat) /\ KeyOk(key) /\ Len(bytes) \in Nat BY <1>1, UnderWay, LenProperties
  <1>5. r \in Ranges BY <1>4 DEF Ranges
  <1>6. e[1] = o /\ e \in Nat \X Nat BY <1>4 DEF Entry
  <1>7. x.torn = FALSE /\ x.range = r BY <1>6
  <1>8. b[1] = key OBVIOUS
  <1> HIDE DEF r, x, e, b
  <1>9. BlobOk(b, x) BY <1>3, <1>4, <1>5, <1>7, <1>8 DEF BlobOk
  <1>10. BlobsInv' BY <1>1, <1>9, BlobIsPut
  <1>11. entries \in Seq(Nat \X Nat) BY IndexEntriesOk
  <1> HIDE DEF entries
  <1>12. more \in Seq(Nat \X Nat) BY <1>6, <1>11, AppendProperties
  <1> HIDE DEF more
  <1>13. FilesInv' BY <1>1, <1>2, <1>12, RewriteStep
  <1> QED BY <1>1, <1>10, <1>13, Unchanged DEF IInv

LEMMA KeepRangeStep ==
  ASSUME IInv, NEW h \in Handles, KeepRange(h)
  PROVE  IInv'
  <1> DEFINE key == Key(h)  o == task[h].offset  l == task[h].length  bytes == task[h].bytes  m == MountOf(h)
  <1>1. /\ task[h].pc = "keep" /\ FinishTask(h, bytes, Cacheable(o, bytes))
        /\ setup' = setup /\ head' = head /\ view' = view /\ blobs' = blobs /\ index' = index /\ put' = put
    BY DEF KeepRange, At, objects, mountFiles
  <1>2. \/ plain' = plain
        \/ o = 0 /\ Len(bytes) >= Size(h) /\ plain' = [plain EXCEPT ![m] = PlainInsert(plain[m], key, bytes)]
    BY DEF KeepRange
  <1>3. bytes = Exact(key, o, l) BY <1>1, UnderWay DEF HasBytes
  <1>4. /\ o \in Nat /\ l \in Nat /\ KeyOk(key) /\ key \in (DOMAIN Versions) \X (DOMAIN ChunksOf)
        /\ Size(h) = FileSize(FileOf(key)) /\ o <= Size(h)
    BY <1>1, UnderWay
  <1>5. Cacheable(o, bytes) \in SUBSET Ranges /\ \A r \in Cacheable(o, bytes) : RangeOk(key, r)
    BY <1>3, <1>4, CacheableOk
  <1>6. FilesInv' BY <1>1, <1>3, <1>5, UnderWay, FinishOk DEF FinishTask
  <1>7. CASE plain' = plain BY <1>1, <1>6, <1>7, Unchanged DEF IInv
  <1>8. CASE o = 0 /\ Len(bytes) >= Size(h) /\ plain' = [plain EXCEPT ![m] = PlainInsert(plain[m], key, bytes)]
    <2> DEFINE w == Content(FileOf(key))  z == FileSize(FileOf(key))  e == Least(o + l, z)
    <2>1. Exact(key, o, l) = SubSeq(w, o + 1, e) /\ Len(Exact(key, o, l)) = e - o /\ e \in o..z
          /\ w \in Seq(Nat) /\ Len(w) = z
      BY <1>4, ExactIsPart
    <2>2. z \in Nat BY <2>1, LenProperties
    <2>3. e - o >= z BY <1>3, <1>4, <1>8, <2>1
    <2> HIDE DEF e, z
    <2>4. e = z BY <1>8, <2>1, <2>2, <2>3
    <2>5. SubSeq(w, 1, z) = w BY <2>1, SubSeqFull
    <2>6. o + 1 = 1 BY <1>8
    <2>7. bytes = w BY <1>3, <2>1, <2>4, <2>5, <2>6
    <2> DEFINE c == PlainInsert(plain[m], key, w)
    <2>8. m \in Mounts /\ setup.budget \in Nat BY OfHandle
    <2>9. CacheOk(plain[m]) /\ plain[m].total <= setup.budget BY <2>8 DEF IInv, PlainInv
    <2>10. CacheOk(c) /\ c.total <= setup.budget BY <1>4, <2>8, <2>9, PlainInsertOk
    <2>11. plain' = [plain EXCEPT ![m] = c] BY <1>8, <2>7
    <2> HIDE DEF c, m
    <2>12. PlainInv' BY <1>1, <2>8, <2>10, <2>11, PlainStep
    <2> QED BY <1>1, <1>6, <2>12, Unchanged DEF IInv
  <1> QED BY <1>2, <1>7, <1>8

\* The version a mount turns to.
LEMMA HeadIsAVersion ==
  ASSUME IInv
  PROVE  head \in DOMAIN Versions
  <1>1. setup \in Settings /\ head \in (1..setup.versions) \cup {1} BY DEF IInv, SetupInv
  <1>2. 1..setup.versions \subseteq DOMAIN Versions /\ 1 \in DOMAIN Versions BY <1>1, ReadAssumption
  <1> QED BY <1>1, <1>2

LEMMA RefreshLiveBranchStep ==
  ASSUME IInv, NEW m \in Mounts, RefreshLiveBranch(m)
  PROVE  IInv'
  <1>1. /\ view' = [view EXCEPT ![m] = head]
        /\ setup' = setup /\ head' = head /\ handle' = handle /\ task' = task /\ plain' = plain
        /\ blobs' = blobs /\ index' = index /\ put' = put
    BY DEF RefreshLiveBranch, mountFiles, objects
  <1>2. view' \in [Mounts -> DOMAIN Versions] BY <1>1, HeadIsAVersion DEF IInv, SetupInv
  <1>3. SetupInv' BY <1>1, <1>2 DEF IInv, SetupInv
  <1> QED BY <1>1, <1>3, Unchanged DEF IInv

LEMMA MountCrashesStep ==
  ASSUME IInv, NEW m \in Mounts, MountCrashes(m)
  PROVE  IInv'
  <1> DEFINE c == [entries |-> << >>, total |-> 0]
  <1>1. /\ view' = [view EXCEPT ![m] = head] /\ plain' = [plain EXCEPT ![m] = c]
        /\ handle' = [h \in Handles |-> IF MountOf(h) = m THEN Closed ELSE handle[h]]
        /\ task' = [h \in Handles |-> IF MountOf(h) = m THEN Idle ELSE task[h]]
        /\ setup' = setup /\ head' = head /\ blobs' = blobs /\ index' = index /\ put' = put
    BY DEF MountCrashes, mountFiles, objects
  <1>2. view' \in [Mounts -> DOMAIN Versions] BY <1>1, HeadIsAVersion DEF IInv, SetupInv
  <1>3. SetupInv' BY <1>1, <1>2 DEF IInv, SetupInv
  <1>4. PlainInv'
    <2>1. setup.budget \in Nat BY ReadAssumption DEF IInv, SetupInv
    <2>2. CacheOk(c) /\ c.total <= setup.budget BY <2>1, EmptyCacheOk
    <2> HIDE DEF c
    <2> QED BY <1>1, <2>2, PlainStep
  <1>5. FilesInv'
    <2>1. ASSUME NEW h \in Handles PROVE FileOk(handle'[h]) /\ TaskOk(handle'[h], task'[h])
      <3>1. FileOk(handle[h]) /\ TaskOk(handle[h], task[h]) BY OfHandle
      <3>2. CASE MountOf(h) = m BY <1>1, <3>2, ClosedOk
      <3>3. CASE MountOf(h) # m BY <1>1, <3>1, <3>3
      <3> QED BY <3>2, <3>3
    <2>2. /\ DOMAIN handle' = Handles /\ DOMAIN task' = Handles
          /\ handle' = [h \in Handles |-> handle'[h]] /\ task' = [h \in Handles |-> task'[h]] BY <1>1
    <2> QED BY <2>1, <2>2 DEF FilesInv
  <1> QED BY <1>1, <1>3, <1>4, <1>5, Unchanged DEF IInv

\* The commit: what it has under way is of a version that exists.
LEMMA PutStep ==
  ASSUME IInv, \/ BeginCommit \/ PutChunk \/ ChunkIsPut \/ Publish \/ CommitterCrashes
  PROVE  IInv'
  <1> DEFINE P(p) == /\ p = [version |-> p.version, todo |-> p.todo, torn |-> p.torn]
                     /\ p = NoPut \/ p.version \in 1..setup.versions
  <1>1. /\ setup' = setup /\ view' = view /\ handle' = handle /\ task' = task /\ plain' = plain
        /\ blobs' = blobs /\ index' = index
    BY DEF BeginCommit, PutChunk, ChunkIsPut, Publish, CommitterCrashes, mountFiles
  <1>2. P(put) /\ head \in (1..setup.versions) \cup {1} BY DEF IInv, SetupInv
  <1>3. P(NoPut) BY DEF NoPut
  <1>4. P(put') /\ head' \in (1..setup.versions) \cup {1}
    <2>1. CASE BeginCommit
      <3> DEFINE q == FlattenSeq([i \in 1..Cardinality(DOMAIN Versions[head + 1]) |->
                        ChunksOf[Versions[head + 1][SetToSeq(DOMAIN Versions[head + 1])[i]]]])
      <3>1. head < setup.versions /\ head' = head /\ put' = [NoPut EXCEPT !.version = head + 1, !.todo = q]
        BY <2>1 DEF BeginCommit
      <3>2. setup.versions \in Nat BY ReadAssumption DEF IInv, SetupInv
      <3>3. head + 1 \in 1..setup.versions BY <1>2, <3>1, <3>2
      <3> DEFINE v == head + 1
      <3> HIDE DEF q, v
      <3>4. put' = [version |-> v, todo |-> q, torn |-> FALSE] BY <3>1 DEF NoPut, v
      <3>5. P(put') BY <3>3, <3>4 DEF v
      <3> QED BY <1>2, <3>1, <3>5
    <2>2. CASE PutChunk
      <3>1. put # NoPut BY <2>2 DEF PutChunk, NoPut
      <3>2. head' = head /\ put' = [put EXCEPT !.torn = TRUE] BY <2>2 DEF PutChunk
      <3>3. put' = [version |-> put.version, todo |-> put.todo, torn |-> TRUE] BY <1>2, <3>2
      <3> QED BY <1>2, <3>1, <3>2, <3>3
    <2>3. CASE ChunkIsPut
      <3>1. put # NoPut BY <2>3 DEF ChunkIsPut, NoPut
      <3> DEFINE q == Tail(put.todo)
      <3>2. head' = head /\ put' = [put EXCEPT !.todo = q, !.torn = FALSE] BY <2>3 DEF ChunkIsPut
      <3> HIDE DEF q
      <3>3. put' = [version |-> put.version, todo |-> q, torn |-> FALSE] BY <1>2, <3>2
      <3> QED BY <1>2, <3>1, <3>2, <3>3
    <2>4. CASE Publish BY <1>2, <1>3, <2>4 DEF Publish
    <2>5. CASE CommitterCrashes BY <1>2, <1>3, <2>5 DEF CommitterCrashes
    <2> QED BY <2>1, <2>2, <2>3, <2>4, <2>5
  <1>5. SetupInv' BY <1>1, <1>4 DEF IInv, SetupInv
  <1> QED BY <1>1, <1>5, Unchanged DEF IInv

\* Packs are not what the invariant is about.
LEMMA PackStep ==
  ASSUME IInv, (\E p \in Range(PackOf) : CachePack(p)) \/ CachePackIndex \/ UNCHANGED vars
  PROVE  IInv'
  <1>1. /\ setup' = setup /\ head' = head /\ view' = view /\ handle' = handle /\ task' = task
        /\ plain' = plain /\ blobs' = blobs /\ index' = index /\ put' = put
    BY DEF CachePack, CachePackIndex, vars, mountFiles
  <1> QED BY <1>1, Unchanged DEF IInv

LEMMA NextIInv ==
  ASSUME IInv, [Next]_vars
  PROVE  IInv'
  <1>1. CASE \E h \in Handles :
               \/ \E p \in UNION {DOMAIN Versions[v] : v \in DOMAIN Versions} : OpenFile(h, p)
               \/ CloseFile(h) \/ Read(h) \/ Edit(h)
               \/ \E r \in Requests : ReadPending(h, r[1], r[2])
               \/ \E e \in Edits : EditPending(h, e)
               \/ ReadExact(h) \/ RewriteIndex(h) \/ FillIndex(h) \/ ReadCovering(h) \/ CoveringHit(h)
               \/ ReadOrigin(h) \/ ReadFails(h) \/ StoreRange(h) \/ KeepRange(h)
    <2> PICK h \in Handles :
               \/ \E p \in UNION {DOMAIN Versions[v] : v \in DOMAIN Versions} : OpenFile(h, p)
               \/ CloseFile(h) \/ Read(h) \/ Edit(h)
               \/ \E r \in Requests : ReadPending(h, r[1], r[2])
               \/ \E e \in Edits : EditPending(h, e)
               \/ ReadExact(h) \/ RewriteIndex(h) \/ FillIndex(h) \/ ReadCovering(h) \/ CoveringHit(h)
               \/ ReadOrigin(h) \/ ReadFails(h) \/ StoreRange(h) \/ KeepRange(h)
      BY <1>1
    <2>1. CASE \E p \in UNION {DOMAIN Versions[v] : v \in DOMAIN Versions} : OpenFile(h, p) BY <2>1, OpenFileStep
    <2>2. CASE CloseFile(h) BY <2>2, CloseFileStep
    <2>3. CASE Read(h) BY <2>3, ReadStep
    <2>4. CASE Edit(h) BY <2>4, EditStep
    <2>5. CASE \E r \in Requests : ReadPending(h, r[1], r[2])
      <3>1. PICK r \in Requests : ReadPending(h, r[1], r[2]) BY <2>5
      <3>2. r[1] \in Nat /\ r[2] \in Nat BY ReadAssumption
      <3> QED BY <3>1, <3>2, ReadPendingStep
    <2>6. CASE \E e \in Edits : EditPending(h, e) BY <2>6, EditPendingStep
    <2>7. CASE ReadExact(h) BY <2>7, ReadExactStep
    <2>8. CASE RewriteIndex(h) BY <2>8, RewriteIndexStep
    <2>9. CASE FillIndex(h) BY <2>9, FillIndexStep
    <2>10. CASE ReadCovering(h) BY <2>10, ReadCoveringStep
    <2>11. CASE CoveringHit(h) BY <2>11, CoveringHitStep
    <2>12. CASE ReadOrigin(h) BY <2>12, ReadOriginStep
    <2>13. CASE ReadFails(h) BY <2>13, ReadFailsStep
    <2>14. CASE StoreRange(h) BY <2>14, StoreRangeStep
    <2>15. CASE KeepRange(h) BY <2>15, KeepRangeStep
    <2> QED BY <2>1, <2>2, <2>3, <2>4, <2>5, <2>6, <2>7, <2>8, <2>9, <2>10, <2>11, <2>12, <2>13, <2>14, <2>15
  <1>2. CASE \E m \in Mounts : RefreshLiveBranch(m) \/ MountCrashes(m)
    BY <1>2, RefreshLiveBranchStep, MountCrashesStep
  <1>3. CASE (\E p \in Range(PackOf) : CachePack(p)) \/ CachePackIndex \/ UNCHANGED vars BY <1>3, PackStep
  <1>4. CASE BeginCommit \/ PutChunk \/ ChunkIsPut \/ Publish \/ CommitterCrashes BY <1>4, PutStep
  <1> QED BY <1>1, <1>2, <1>3, <1>4 DEF Next

LEMMA SpecIInv ==
  Spec => []IInv
  <1>1. Init => IInv BY InitIInv
  <1>2. IInv /\ [Next]_vars => IInv' BY NextIInv
  <1> QED BY <1>1, <1>2, PTL DEF Spec

----------------------------------------------------------------------------
(* The theorems.                                                           *)

\* A read returns exactly the bytes of the file as its handle sees it, through
\* whichever cache or object it was answered, and after any crash; the bytes
\* a handle holds for writing are the file with all its edits.
\* (ReadOnlyVfs::read, read_handle, write_handle_bytes.)
THEOREM ReadsExact ==
  Spec => []ReadsAreExact
  <1>1. IInv => ReadsAreExact BY IInvImplies
  <1> QED BY <1>1, SpecIInv, PTL

\* The caches of handles, mounts and the disk hold what the snapshot they are
\* keyed by holds there, and the plaintext cache keeps its books and its
\* budget.  (OpenedFile, PlaintextCache, EncryptedRangeCache.)
THEOREM CachesExact ==
  Spec => []CachesAreExact
  <1>1. IInv => CachesAreExact BY IInvImplies
  <1> QED BY <1>1, SpecIInv, PTL

=============================================================================
