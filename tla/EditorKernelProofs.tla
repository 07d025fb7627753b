-------------------------- MODULE EditorKernelProofs --------------------------
(***************************************************************************)
(* For any packages, plans and bounds: undo, redo and saves keep the       *)
(* timeline, no sequence of edits makes a layer worse than it was opened,  *)
(* and the order of the grips can always be placed.                        *)
(***************************************************************************)
EXTENDS EditorKernel, FiniteSetTheorems, SequenceTheorems,
        WellFoundedInduction, TLAPS

-----------------------------------------------------------------------------
(* Least elements.                                                         *)

LEMMA LeastNumber ==
  ASSUME NEW T, T \subseteq Nat, T # {}
  PROVE  \E n \in T : \A m \in T : n <= m
<1>1. PICK n \in T : \A m \in T : <<m, n>> \notin OpToRel(<, Nat)
  BY NatLessThanWellFounded, WFMin
<1>2. \A m \in T : ~(m < n)
  BY <1>1 DEF OpToRel
<1> QED
  BY <1>2

\* A strict or reflexive total order of S, and the first element in it.
Orders(R, S) ==
  /\ \A x, y, z \in S : <<x, y>> \in R /\ <<y, z>> \in R => <<x, z>> \in R
  /\ \A x, y \in S : x # y => <<x, y>> \in R \/ <<y, x>> \in R

HasFirst(R, S) == \E s \in S : \A t \in S \ {s} : <<s, t>> \in R

\* A finite set has a first element in any total order.
LEMMA FiniteFirst ==
  ASSUME NEW S, IsFiniteSet(S), S # {}, NEW R, Orders(R, S)
  PROVE  HasFirst(R, S)
<1> USE DEF Orders, HasFirst
<1> DEFINE without == {n \in Nat : \E T \in SUBSET S :
                         T # {} /\ Cardinality(T) = n /\ ~HasFirst(R, T)}
<1>1. without = {}
  <2> SUFFICES ASSUME without # {} PROVE FALSE
    OBVIOUS
  <2>1. PICK n \in without : \A m \in without : n <= m
    BY LeastNumber
  <2>2. PICK T \in SUBSET S : T # {} /\ Cardinality(T) = n /\ ~HasFirst(R, T)
    OBVIOUS
  <2>3. PICK x \in T : TRUE
    BY <2>2
  <2>4. IsFiniteSet(T)
    BY FS_Subset
  <2>5. IsFiniteSet(T \ {x}) /\ Cardinality(T \ {x}) = n - 1
    BY <2>2, <2>3, <2>4, FS_RemoveElement
  <2>6. n - 1 \in Nat /\ n \in Nat
    BY <2>5, FS_CardinalityType
  <2>7. n - 1 \notin without
    BY <2>1, <2>6
  <2>8. CASE T = {x}
    <3>1. HasFirst(R, T)
      BY <2>8
    <3> QED
      BY <2>2, <3>1
  <2>9. CASE T # {x}
    <3>1. T \ {x} \in SUBSET S /\ T \ {x} # {}
      BY <2>2, <2>3, <2>9
    <3>2. HasFirst(R, T \ {x})
      BY <2>5, <2>6, <2>7, <3>1
    <3>3. PICK s \in T \ {x} : \A t \in (T \ {x}) \ {s} : <<s, t>> \in R
      BY <3>2
    <3>4. CASE <<s, x>> \in R
      <4>1. \A t \in T \ {s} : <<s, t>> \in R
        BY <3>3, <3>4
      <4> QED
        BY <2>2, <3>3, <4>1
    <3>5. CASE <<x, s>> \in R
      <4>1. \A t \in T \ {x} : <<x, t>> \in R
        BY <2>3, <3>3, <3>5
      <4> QED
        BY <2>2, <2>3, <4>1
    <3>6. <<s, x>> \in R \/ <<x, s>> \in R
      BY <2>3, <3>3
    <3> QED
      BY <3>4, <3>5, <3>6
  <2> QED
    BY <2>8, <2>9
<1>2. Cardinality(S) \in Nat
  BY FS_CardinalityType
<1>3. HasFirst(R, S)
  BY <1>1, <1>2
<1> QED
  BY <1>3

LEMMA MinOf ==
  ASSUME NEW S, IsFiniteSet(S), S # {}, S \subseteq Int
  PROVE  Min(S) \in S /\ \A n \in S : Min(S) <= n
<1>1. PICK R : R = {p \in S \X S : p[1] <= p[2]}
  OBVIOUS
<1>2. \A x, y \in S : <<x, y>> \in R <=> x <= y
  BY <1>1
<1>3. Orders(R, S)
  BY <1>2 DEF Orders
<1>4. HasFirst(R, S)
  BY <1>3, FiniteFirst
<1>5. PICK s \in S : \A t \in S \ {s} : <<s, t>> \in R
  BY <1>4 DEF HasFirst
<1>6. ASSUME NEW t \in S PROVE s <= t
  <2>1. CASE t = s
    BY <2>1
  <2>2. CASE t # s
    <3>1. <<s, t>> \in R
      BY <1>5, <2>2
    <3> QED
      BY <1>2, <3>1
  <2> QED
    BY <2>1, <2>2
<1> QED
  BY <1>6 DEF Min

LEMMA MinOfSome ==
  ASSUME NEW n \in Nat, NEW S \in SUBSET (1 .. n), S # {}
  PROVE  Min(S) \in S /\ \A m \in S : Min(S) <= m
<1>1. IsFiniteSet(1 .. n)
  BY FS_Interval
<1>2. IsFiniteSet(S)
  BY <1>1, FS_Subset
<1>3. S \subseteq Int
  OBVIOUS
<1> QED
  BY <1>2, <1>3, MinOf

LEMMA MaxOf ==
  ASSUME NEW S, IsFiniteSet(S), S # {}, S \subseteq Int
  PROVE  Max(S) \in S /\ \A n \in S : n <= Max(S)
<1>1. PICK R : R = {p \in S \X S : p[2] <= p[1]}
  OBVIOUS
<1>2. \A x, y \in S : <<x, y>> \in R <=> y <= x
  BY <1>1
<1>3. Orders(R, S)
  BY <1>2 DEF Orders
<1>4. HasFirst(R, S)
  BY <1>3, FiniteFirst
<1>5. PICK s \in S : \A t \in S \ {s} : <<s, t>> \in R
  BY <1>4 DEF HasFirst
<1>6. ASSUME NEW t \in S PROVE t <= s
  <2>1. CASE t = s
    BY <2>1
  <2>2. CASE t # s
    <3>1. <<s, t>> \in R
      BY <1>5, <2>2
    <3> QED
      BY <1>2, <3>1
  <2> QED
    BY <2>1, <2>2
<1> QED
  BY <1>6 DEF Max

-----------------------------------------------------------------------------
(* Sequences and recursive functions.                                      *)

IsSeq(s) == s \in Seq({s[i] : i \in DOMAIN s})

LEMMA SeqIsSeq ==
  ASSUME NEW U, NEW s \in Seq(U)
  PROVE  IsSeq(s)
  BY DEF IsSeq

LEMMA IsSeqFacts ==
  ASSUME NEW s, IsSeq(s)
  PROVE  /\ Len(s) \in Nat
         /\ DOMAIN s = 1 .. Len(s)
         /\ s = [i \in 1 .. Len(s) |-> s[i]]
  BY DEF IsSeq

LEMMA Appended ==
  ASSUME NEW s, IsSeq(s), NEW x
  PROVE  /\ IsSeq(Append(s, x))
         /\ Len(Append(s, x)) = Len(s) + 1
         /\ \A i \in 1 .. Len(s) : Append(s, x)[i] = s[i]
         /\ Append(s, x)[Len(s) + 1] = x
<1> DEFINE U == {s[i] : i \in DOMAIN s} \cup {x}
<1>1. s \in Seq(U)
  BY DEF IsSeq
<1>2. x \in U
  OBVIOUS
<1> HIDE DEF U
<1>3. /\ Append(s, x) \in Seq(U)
      /\ Len(Append(s, x)) = Len(s) + 1
      /\ Append(s, x)[Len(s) + 1] = x
  BY <1>1, <1>2
<1>4. \A i \in 1 .. Len(s) : Append(s, x)[i] = s[i]
  BY <1>1, <1>2
<1> QED
  BY <1>3, <1>4, SeqIsSeq

LEMMA Shortened ==
  ASSUME NEW s, IsSeq(s), s # <<>>
  PROVE  /\ Len(s) > 0
         /\ IsSeq(SubSeq(s, 1, Len(s) - 1))
         /\ Len(SubSeq(s, 1, Len(s) - 1)) = Len(s) - 1
         /\ \A i \in 1 .. Len(s) - 1 : SubSeq(s, 1, Len(s) - 1)[i] = s[i]
         /\ IsSeq(Tail(s))
         /\ Len(Tail(s)) = Len(s) - 1
         /\ \A i \in 1 .. Len(s) - 1 : Tail(s)[i] = s[i + 1]
<1> DEFINE U == {s[i] : i \in DOMAIN s}
<1>1. s \in Seq(U)
  BY DEF IsSeq
<1> HIDE DEF U
<1>2. Len(s) \in Nat /\ Len(s) > 0
  BY <1>1
<1>3. /\ SubSeq(s, 1, Len(s) - 1) \in Seq(U)
      /\ Len(SubSeq(s, 1, Len(s) - 1)) = Len(s) - 1
      /\ \A i \in 1 .. Len(s) - 1 : SubSeq(s, 1, Len(s) - 1)[i] = s[i]
  <2> DEFINE n == Len(s) - 1
  <2>1. n \in Nat /\ \A i \in 1 .. n : s[i] \in U
    BY <1>1, <1>2
  <2> HIDE DEF n
  <2>2. /\ SubSeq(s, 1, n) \in Seq(U)
        /\ Len(SubSeq(s, 1, n)) = IF 1 <= n THEN n - 1 + 1 ELSE 0
        /\ \A i \in 1 .. n - 1 + 1 : SubSeq(s, 1, n)[i] = s[1 + i - 1]
    BY <2>1, SubSeqProperties
  <2>3. Len(SubSeq(s, 1, n)) = n /\ \A i \in 1 .. n : SubSeq(s, 1, n)[i] = s[i]
    BY <2>1, <2>2
  <2> QED
    BY <2>2, <2>3 DEF n
<1>4. /\ Tail(s) \in Seq(U) /\ Len(Tail(s)) = Len(s) - 1
      /\ \A i \in 1 .. Len(s) - 1 : Tail(s)[i] = s[i + 1]
  BY <1>1, <1>2
<1> QED
  BY <1>2, <1>3, <1>4, SeqIsSeq

LEMMA Mapped ==
  ASSUME NEW n \in Nat, NEW t, t = [i \in 1 .. n |-> t[i]]
  PROVE  IsSeq(t) /\ Len(t) = n
<1> DEFINE U == {t[i] : i \in 1 .. n}
<1>1. t \in [1 .. n -> U]
  OBVIOUS
<1> HIDE DEF U
<1>2. t \in Seq(U)
  BY <1>1, SeqDef
<1>3. DOMAIN t = 1 .. Len(t) /\ Len(t) \in Nat
  BY <1>2, LenProperties
<1>4. 1 .. Len(t) = 1 .. n
  BY <1>1, <1>3
<1> QED
  BY <1>2, <1>3, <1>4, SeqIsSeq

LEMMA MappedOver ==
  ASSUME NEW s, IsSeq(s), NEW t, t = [i \in DOMAIN s |-> t[i]]
  PROVE  IsSeq(t) /\ Len(t) = Len(s) /\ DOMAIN t = DOMAIN s
<1>1. Len(s) \in Nat /\ DOMAIN s = 1 .. Len(s)
  BY IsSeqFacts
<1> QED
  BY <1>1, Mapped

LEMMA StretchIsSeq ==
  ASSUME NEW s, NEW m \in Int, NEW n \in Int
  PROVE  IsSeq(SubSeq(s, m, n))
<1> DEFINE U == {s[i] : i \in m .. n}
<1>1. \A i \in m .. n : s[i] \in U
  OBVIOUS
<1> HIDE DEF U
<1>2. SubSeq(s, m, n) \in Seq(U)
  BY <1>1, SubSeqProperties
<1> QED
  BY <1>2, SeqIsSeq

LEMMA JoinedIsSeq ==
  ASSUME NEW s, IsSeq(s), NEW t, IsSeq(t)
  PROVE  IsSeq(s \o t)
<1> DEFINE U == {s[i] : i \in DOMAIN s} \cup {t[i] : i \in DOMAIN t}
<1>1. s \in Seq(U) /\ t \in Seq(U)
  BY DEF IsSeq
<1> HIDE DEF U
<1>2. s \o t \in Seq(U)
  BY <1>1
<1> QED
  BY <1>2, SeqIsSeq

LEMMA OneIsSeq ==
  ASSUME NEW x
  PROVE  IsSeq(<<x>>)
<1>1. <<x>> \in Seq({x})
  OBVIOUS
<1> QED
  BY <1>1, SeqIsSeq

LEMMA NoneIsSeq == IsSeq(<<>>)
<1>1. <<>> \in Seq({})
  OBVIOUS
<1> QED
  BY <1>1, SeqIsSeq

LEMMA SameSeq ==
  ASSUME NEW s, NEW t, IsSeq(s), IsSeq(t), Len(s) = Len(t),
         \A i \in 1 .. Len(s) : s[i] = t[i]
  PROVE  s = t
<1>1. s = [i \in 1 .. Len(s) |-> s[i]] /\ t = [i \in 1 .. Len(t) |-> t[i]]
  BY IsSeqFacts
<1> QED
  BY <1>1

\* Induction for a set of numbers.
LEMMA Counting ==
  ASSUME NEW N \in Nat, NEW W, 0 \in W, \A n \in 1 .. N : n - 1 \in W => n \in W
  PROVE  0 .. N \subseteq W
<1> DEFINE without == {n \in 0 .. N : n \notin W}
<1> SUFFICES ASSUME without # {} PROVE FALSE
  OBVIOUS
<1>1. PICK n \in without : \A m \in without : n <= m
  <2>1. without \subseteq Nat
    OBVIOUS
  <2> HIDE DEF without
  <2> QED
    BY <2>1, LeastNumber
<1>2. n \in 1 .. N /\ n - 1 \in 0 .. N /\ n - 1 \notin without
  BY <1>1
<1> QED
  BY <1>1, <1>2

\* A function that takes one step after another exists.
AreSteps(N, V, a, G) == N \in Nat /\ a \in V /\ G \in [1 .. N -> [V -> V]]
Takes(f, N, V, a, G) ==
  /\ f \in [0 .. N -> V] /\ f[0] = a
  /\ \A n \in 1 .. N : f[n] = G[n][f[n - 1]]

LEMMA StepByStep ==
  ASSUME NEW N, NEW V, NEW a, NEW G, AreSteps(N, V, a, G)
  PROVE  \E f : Takes(f, N, V, a, G)
<1> USE DEF AreSteps, Takes
<1> DEFINE Upto(n, f) == /\ f \in [0 .. n -> V] /\ f[0] = a
                         /\ \A m \in 1 .. n : f[m] = G[m][f[m - 1]]
           Reaches(n) == \E f : Upto(n, f)
           W == {n \in 0 .. N : Reaches(n)}
<1>1. 0 \in W
  <2>1. Upto(0, [i \in 0 .. 0 |-> a])
    OBVIOUS
  <2>2. Reaches(0)
    BY <2>1, Zenon
  <2> HIDE DEF Reaches
  <2> QED
    BY <2>2
<1>2. ASSUME NEW n \in 1 .. N, n - 1 \in W PROVE n \in W
  <2>1. PICK f : Upto(n - 1, f)
    <3>1. Reaches(n - 1)
      <4> HIDE DEF Reaches
      <4> QED
        BY <1>2
    <3> HIDE DEF Upto
    <3> QED
      BY <3>1
  <2> DEFINE g == [i \in 0 .. n |-> IF i = n THEN G[n][f[n - 1]] ELSE f[i]]
  <2>2. g \in [0 .. n -> V]
    <3>1. G[n][f[n - 1]] \in V
      BY <2>1
    <3>2. \A i \in 0 .. n : i = n \/ i \in 0 .. n - 1
      OBVIOUS
    <3> QED
      BY <2>1, <3>1, <3>2
  <2>3. g[0] = a
    BY <2>1
  <2>4. ASSUME NEW m \in 1 .. n PROVE g[m] = G[m][g[m - 1]]
    <3>1. CASE m = n
      BY <3>1
    <3>2. CASE m # n
      <4>1. m \in 1 .. n - 1 /\ m \in 0 .. n /\ m - 1 \in 0 .. n /\ m - 1 # n
        BY <3>2
      <4> QED
        BY <2>1, <3>2, <4>1
    <3> QED
      BY <3>1, <3>2
  <2>5. Upto(n, g)
    BY <2>2, <2>3, <2>4
  <2>6. Reaches(n)
    <3> HIDE DEF Upto, g
    <3> QED
      BY <2>5
  <2> HIDE DEF Reaches
  <2> QED
    BY <2>6
<1>3. N \in W
  <2> HIDE DEF W
  <2>1. 0 .. N \subseteq W
    BY <1>1, <1>2, Counting, Zenon
  <2> QED
    BY <2>1
<1>4. Reaches(N)
  <2> HIDE DEF Reaches
  <2> QED
    BY <1>3
<1> QED
  BY <1>4

\* The elements at some positions, one position after another.
LEMMA SublistSteps ==
  ASSUME NEW s, IsSeq(s), NEW positions
  PROVE  \E c : /\ c[0] = <<>>
                /\ \A n \in 1 .. Len(s) :
                     c[n] = IF n \in positions THEN Append(c[n - 1], s[n]) ELSE c[n - 1]
                /\ \A n \in 0 .. Len(s) : IsSeq(c[n])
                /\ Sublist(s, positions) = c[Len(s)]
<1> DEFINE N == Len(s)
           U == {s[i] : i \in DOMAIN s}
           V == Seq(U)
           G == [n \in 1 .. N |-> [v \in V |-> IF n \in positions THEN Append(v, s[n]) ELSE v]]
           Body(f) == [n \in 0 .. N |->
                         IF n = 0 THEN <<>>
                         ELSE IF n \in positions THEN Append(f[n - 1], s[n])
                         ELSE f[n - 1]]
           c == CHOOSE f : f = Body(f)
<1>1. Sublist(s, positions) = c[N]
  BY DEF Sublist
<1>2. N \in Nat /\ DOMAIN s = 1 .. N
  BY DEF IsSeq
<1>3. \A n \in 1 .. N : s[n] \in U
  BY <1>2
<1> HIDE DEF N, U
<1>4. <<>> \in V /\ \A v \in V, n \in 1 .. N : Append(v, s[n]) \in V
  BY <1>3
<1> HIDE DEF V
<1>5. G \in [1 .. N -> [V -> V]]
  BY <1>4
<1>6. PICK f : Takes(f, N, V, <<>>, G)
  <2>1. AreSteps(N, V, <<>>, G)
    BY <1>2, <1>4, <1>5 DEF AreSteps
  <2> HIDE DEF G
  <2> QED
    BY <2>1, StepByStep
<1>7. f = Body(f)
  <2>1. ASSUME NEW n \in 0 .. N
        PROVE  f[n] = IF n = 0 THEN <<>>
                      ELSE IF n \in positions THEN Append(f[n - 1], s[n])
                      ELSE f[n - 1]
    <3>1. CASE n = 0
      BY <1>6, <3>1 DEF Takes
    <3>2. CASE n # 0
      <4>1. n \in 1 .. N /\ n - 1 \in 0 .. N
        BY <1>2, <3>2
      <4> QED
        BY <1>6, <3>2, <4>1 DEF Takes
    <3> QED
      BY <3>1, <3>2
  <2> QED
    BY <1>6, <2>1 DEF Takes
<1>8. c = Body(c)
  BY <1>7
<1> HIDE DEF c
<1>9. /\ c[0] = <<>>
      /\ \A n \in 1 .. N : c[n] = IF n \in positions THEN Append(c[n - 1], s[n]) ELSE c[n - 1]
  <2>1. c[0] = <<>>
    BY <1>2, <1>8
  <2>2. ASSUME NEW n \in 1 .. N
        PROVE  c[n] = IF n \in positions THEN Append(c[n - 1], s[n]) ELSE c[n - 1]
    <3>1. n \in 0 .. N /\ n # 0
      BY <1>2
    <3> QED
      BY <1>8, <3>1
  <2> QED
    BY <2>1, <2>2
<1>10. \A n \in 0 .. N : c[n] \in V
  <2> DEFINE W == {n \in 0 .. N : c[n] \in V}
  <2>1. 0 \in W
    BY <1>2, <1>4, <1>9
  <2>2. ASSUME NEW n \in 1 .. N, n - 1 \in W PROVE n \in W
    <3>1. n \in 0 .. N /\ c[n - 1] \in V
      BY <1>2, <2>2
    <3> QED
      BY <1>4, <1>9, <3>1
  <2> HIDE DEF W
  <2>3. 0 .. N \subseteq W
    BY <1>2, <2>1, <2>2, Counting, Zenon
  <2> QED
    BY <2>3 DEF W
<1>11. \A n \in 0 .. N : IsSeq(c[n])
  BY <1>10, SeqIsSeq DEF V
<1> QED
  BY <1>1, <1>9, <1>11 DEF N

LEMMA SublistIsSeq ==
  ASSUME NEW s, IsSeq(s), NEW positions
  PROVE  IsSeq(Sublist(s, positions))
<1>1. PICK c : /\ \A n \in 0 .. Len(s) : IsSeq(c[n])
               /\ Sublist(s, positions) = c[Len(s)]
  BY SublistSteps
<1>2. Len(s) \in 0 .. Len(s)
  BY IsSeqFacts
<1> QED
  BY <1>1, <1>2

\* Sorting by keys, one first element after another.
Foremost(key, done) == FirstBy([s \in (DOMAIN key) \ ToSet(done) |-> key[s]])

LEMMA SortedSteps ==
  ASSUME NEW key, Cardinality(DOMAIN key) \in Nat
  PROVE  \E c : /\ c[0] = <<>>
                /\ \A n \in 1 .. Cardinality(DOMAIN key) :
                     c[n] = Append(c[n - 1], Foremost(key, c[n - 1]))
                /\ \A n \in 0 .. Cardinality(DOMAIN key) : IsSeq(c[n])
                /\ SortedBy(key) = c[Cardinality(DOMAIN key)]
<1> DEFINE N == Cardinality(DOMAIN key)
           First(v) == Foremost(key, v)
           U == {FirstBy([s \in R |-> key[s]]) : R \in SUBSET DOMAIN key}
           V == Seq(U)
           G == [n \in 1 .. N |-> [v \in V |-> Append(v, First(v))]]
           Body(f) == [n \in 0 .. N |->
                         IF n = 0 THEN <<>> ELSE Append(f[n - 1], First(f[n - 1]))]
           c == CHOOSE f : f = Body(f)
<1>1. SortedBy(key) = c[N]
  BY DEF SortedBy, Foremost
<1>2. \A v : First(v) \in U
  BY DEF Foremost
<1>3. N \in Nat
  OBVIOUS
<1> HIDE DEF N, U, First
<1>4. <<>> \in V /\ \A v \in V : Append(v, First(v)) \in V
  BY <1>2
<1> HIDE DEF V
<1>5. G \in [1 .. N -> [V -> V]]
  BY <1>4
<1>6. PICK f : Takes(f, N, V, <<>>, G)
  <2>1. AreSteps(N, V, <<>>, G)
    BY <1>3, <1>4, <1>5 DEF AreSteps
  <2> HIDE DEF G
  <2> QED
    BY <2>1, StepByStep
<1>7. f = Body(f)
  <2>1. ASSUME NEW n \in 0 .. N
        PROVE  f[n] = IF n = 0 THEN <<>> ELSE Append(f[n - 1], First(f[n - 1]))
    <3>1. CASE n = 0
      BY <1>6, <3>1 DEF Takes
    <3>2. CASE n # 0
      <4>1. n \in 1 .. N /\ n - 1 \in 0 .. N
        BY <1>3, <3>2
      <4> QED
        BY <1>6, <3>2, <4>1 DEF Takes
    <3> QED
      BY <3>1, <3>2
  <2> QED
    BY <1>6, <2>1 DEF Takes
<1>8. c = Body(c)
  BY <1>7
<1> HIDE DEF c
<1>9. c[0] = <<>> /\ \A n \in 1 .. N : c[n] = Append(c[n - 1], First(c[n - 1]))
  <2>1. c[0] = <<>>
    BY <1>3, <1>8
  <2>2. ASSUME NEW n \in 1 .. N PROVE c[n] = Append(c[n - 1], First(c[n - 1]))
    <3>1. n \in 0 .. N /\ n # 0
      BY <1>3
    <3> QED
      BY <1>8, <3>1
  <2> QED
    BY <2>1, <2>2
<1>10. \A n \in 0 .. N : c[n] \in V
  <2> DEFINE W == {n \in 0 .. N : c[n] \in V}
  <2>1. 0 \in W
    BY <1>3, <1>4, <1>9
  <2>2. ASSUME NEW n \in 1 .. N, n - 1 \in W PROVE n \in W
    <3>1. n \in 0 .. N /\ c[n - 1] \in V
      BY <1>3, <2>2
    <3> QED
      BY <1>4, <1>9, <3>1
  <2> HIDE DEF W
  <2>3. 0 .. N \subseteq W
    BY <1>3, <2>1, <2>2, Counting, Zenon
  <2> QED
    BY <2>3 DEF W
<1>11. \A n \in 0 .. N : IsSeq(c[n])
  BY <1>10, SeqIsSeq DEF V
<1> QED
  BY <1>1, <1>9, <1>11 DEF N, First

LEMMA SortedIsSeq ==
  ASSUME NEW key, Cardinality(DOMAIN key) \in Nat
  PROVE  IsSeq(SortedBy(key))
<1>1. PICK c : /\ \A n \in 0 .. Cardinality(DOMAIN key) : IsSeq(c[n])
               /\ SortedBy(key) = c[Cardinality(DOMAIN key)]
  BY SortedSteps
<1>2. Cardinality(DOMAIN key) \in 0 .. Cardinality(DOMAIN key)
  OBVIOUS
<1> QED
  BY <1>1, <1>2

\* orderGripsByDependencies, step by step.
Following(preferred, deps, done) == preferred[Min(Ready(preferred, deps, done))]

LEMMA OrderSteps ==
  ASSUME NEW preferred, IsSeq(preferred), NEW deps
  PROVE  \E c : /\ c[0] = <<>>
                /\ \A n \in 1 .. Len(preferred) :
                     c[n] = Append(c[n - 1], Following(preferred, deps, c[n - 1]))
                /\ \A n \in 0 .. Len(preferred) : IsSeq(c[n])
                /\ OrderByDependencies(preferred, deps) = c[Len(preferred)]
<1> DEFINE N == Len(preferred)
           Next(v) == Following(preferred, deps, v)
           U == {preferred[Min(R)] : R \in SUBSET DOMAIN preferred}
           V == Seq(U)
           G == [n \in 1 .. N |-> [v \in V |-> Append(v, Next(v))]]
           Body(f) == [n \in 0 .. N |->
                         IF n = 0 THEN <<>> ELSE Append(f[n - 1], Next(f[n - 1]))]
           c == CHOOSE f : f = Body(f)
<1>1. OrderByDependencies(preferred, deps) = c[N]
  BY DEF OrderByDependencies, Following
<1>2. \A v : Next(v) \in U
  BY DEF Following, Ready
<1>3. N \in Nat
  BY DEF IsSeq
<1> HIDE DEF N, U, Next
<1>4. <<>> \in V /\ \A v \in V : Append(v, Next(v)) \in V
  BY <1>2
<1> HIDE DEF V
<1>5. G \in [1 .. N -> [V -> V]]
  BY <1>4
<1>6. PICK f : Takes(f, N, V, <<>>, G)
  <2>1. AreSteps(N, V, <<>>, G)
    BY <1>3, <1>4, <1>5 DEF AreSteps
  <2> HIDE DEF G
  <2> QED
    BY <2>1, StepByStep
<1>7. f = Body(f)
  <2>1. ASSUME NEW n \in 0 .. N
        PROVE  f[n] = IF n = 0 THEN <<>> ELSE Append(f[n - 1], Next(f[n - 1]))
    <3>1. CASE n = 0
      BY <1>6, <3>1 DEF Takes
    <3>2. CASE n # 0
      <4>1. n \in 1 .. N /\ n - 1 \in 0 .. N
        BY <1>3, <3>2
      <4> QED
        BY <1>6, <3>2, <4>1 DEF Takes
    <3> QED
      BY <3>1, <3>2
  <2> QED
    BY <1>6, <2>1 DEF Takes
<1>8. c = Body(c)
  BY <1>7
<1> HIDE DEF c
<1>9. c[0] = <<>> /\ \A n \in 1 .. N : c[n] = Append(c[n - 1], Next(c[n - 1]))
  <2>1. c[0] = <<>>
    BY <1>3, <1>8
  <2>2. ASSUME NEW n \in 1 .. N PROVE c[n] = Append(c[n - 1], Next(c[n - 1]))
    <3>1. n \in 0 .. N /\ n # 0
      BY <1>3
    <3> QED
      BY <1>8, <3>1
  <2> QED
    BY <2>1, <2>2
<1>10. \A n \in 0 .. N : c[n] \in V
  <2> DEFINE W == {n \in 0 .. N : c[n] \in V}
  <2>1. 0 \in W
    BY <1>3, <1>4, <1>9
  <2>2. ASSUME NEW n \in 1 .. N, n - 1 \in W PROVE n \in W
    <3>1. n \in 0 .. N /\ c[n - 1] \in V
      BY <1>3, <2>2
    <3> QED
      BY <1>4, <1>9, <3>1
  <2> HIDE DEF W
  <2>3. 0 .. N \subseteq W
    BY <1>3, <2>1, <2>2, Counting, Zenon
  <2> QED
    BY <2>3 DEF W
<1>11. \A n \in 0 .. N : IsSeq(c[n])
  BY <1>10, SeqIsSeq DEF V
<1> QED
  BY <1>1, <1>9, <1>11 DEF N, Next

LEMMA OrderIsSeq ==
  ASSUME NEW preferred, IsSeq(preferred), NEW deps
  PROVE  IsSeq(OrderByDependencies(preferred, deps))
<1>1. PICK c : /\ \A n \in 0 .. Len(preferred) : IsSeq(c[n])
               /\ OrderByDependencies(preferred, deps) = c[Len(preferred)]
  BY OrderSteps
<1>2. Len(preferred) \in 0 .. Len(preferred)
  BY IsSeqFacts
<1> QED
  BY <1>1, <1>2

LEMMA ImageFinite ==
  ASSUME NEW S, IsFiniteSet(S), NEW f
  PROVE  IsFiniteSet({f[i] : i \in S})
<1> DEFINE T == {f[i] : i \in S}
           g == [i \in S |-> f[i]]
<1>1. g \in Surjection(S, T)
  BY DEF Surjection
<1> HIDE DEF g, T
<1>2. IsFiniteSet(T)
  BY <1>1, FS_Surjection
<1> QED
  BY <1>2 DEF T

-----------------------------------------------------------------------------
(* Grips in a sequence.                                                    *)

\* No element stands twice.
Distinct(s) == \A i, j \in DOMAIN s : s[i] = s[j] => i = j

LEMMA RangeOf ==
  ASSUME NEW s, IsSeq(s)
  PROVE  /\ IsFiniteSet(ToSet(s)) /\ Cardinality(ToSet(s)) \in Nat
         /\ Cardinality(ToSet(s)) <= Len(s)
         /\ Cardinality(ToSet(s)) = Len(s) <=> Distinct(s)
<1> DEFINE n == Len(s)  f == [i \in 1 .. n |-> s[i]]
<1>1. n \in Nat /\ DOMAIN s = 1 .. n
  BY IsSeqFacts
<1> HIDE DEF n
<1>2. IsFiniteSet(1 .. n) /\ Cardinality(1 .. n) = n
  BY <1>1, FS_Interval
<1>3. f \in Surjection(1 .. n, ToSet(s))
  BY <1>1 DEF Surjection, ToSet
<1>4. f \in Injection(1 .. n, ToSet(s)) <=> Distinct(s)
  <2>1. f \in [1 .. n -> ToSet(s)]
    BY <1>1 DEF ToSet
  <2>2. \A i \in 1 .. n : f[i] = s[i]
    OBVIOUS
  <2> HIDE DEF f
  <2>3. f \in Injection(1 .. n, ToSet(s)) <=> (\A i, j \in 1 .. n : f[i] = f[j] => i = j)
    BY <2>1 DEF Injection, IsInjective
  <2> QED
    BY <1>1, <2>2, <2>3 DEF Distinct
<1> HIDE DEF f
<1>5. /\ IsFiniteSet(ToSet(s)) /\ Cardinality(ToSet(s)) <= n
      /\ Cardinality(ToSet(s)) = n <=> f \in Injection(1 .. n, ToSet(s))
  BY <1>2, <1>3, FS_Surjection
<1>6. Cardinality(ToSet(s)) \in Nat
  BY <1>5, FS_CardinalityType
<1> QED
  BY <1>4, <1>5, <1>6 DEF n

\* What orderGripsByDependencies has placed after some of its steps.
IsBeginning(v, n, ids, deps) ==
  /\ Len(v) = n /\ ToSet(v) \subseteq ids /\ Distinct(v)
  /\ \A i \in DOMAIN v : \A h \in ids :
       <<h, v[i]>> \in deps => \E k \in DOMAIN v : k < i /\ v[k] = h

\* While grips are left, one of them has all its prerequisites placed.
LEMMA SomeReady ==
  ASSUME NEW preferred, IsSeq(preferred), Distinct(preferred), NEW deps,
         Acyclic(ToSet(preferred), deps),
         NEW v, IsSeq(v), Len(v) < Len(preferred), ToSet(v) \subseteq ToSet(preferred)
  PROVE  Min(Ready(preferred, deps, v)) \in Ready(preferred, deps, v)
<1> DEFINE rest == ToSet(preferred) \ ToSet(v)
           R == Ready(preferred, deps, v)
<1>1. rest # {}
  <2>1. Cardinality(ToSet(preferred)) = Len(preferred) /\ Cardinality(ToSet(v)) <= Len(v)
    BY RangeOf
  <2>2. Len(v) \in Nat /\ Len(preferred) \in Nat /\ Cardinality(ToSet(v)) \in Nat
    BY IsSeqFacts, RangeOf
  <2>3. ToSet(v) # ToSet(preferred)
    BY <2>1, <2>2
  <2> QED
    BY <2>3
<1>2. PICK g \in rest : \A h \in rest : <<h, g>> \notin deps
  <2>1. rest \in (SUBSET ToSet(preferred)) \ {{}}
    BY <1>1
  <2> HIDE DEF rest
  <2> QED
    BY <2>1 DEF Acyclic
<1>3. PICK i \in DOMAIN preferred : preferred[i] = g
  BY DEF ToSet
<1>4. i \in R
  BY <1>2, <1>3 DEF Ready
<1>5. DOMAIN preferred = 1 .. Len(preferred) /\ Len(preferred) \in Nat
  BY IsSeqFacts
<1>6. R \in SUBSET (1 .. Len(preferred))
  BY <1>5 DEF Ready
<1> HIDE DEF R
<1>7. Min(R) \in R
  BY <1>4, <1>5, <1>6, MinOfSome
<1> QED
  BY <1>7 DEF R

LEMMA OneMore ==
  ASSUME NEW preferred, IsSeq(preferred), Distinct(preferred), NEW deps,
         Acyclic(ToSet(preferred), deps),
         NEW v, IsSeq(v), NEW n \in Nat, n < Len(preferred),
         IsBeginning(v, n, ToSet(preferred), deps),
         NEW w, w = Append(v, Following(preferred, deps, v))
  PROVE  IsBeginning(w, n + 1, ToSet(preferred), deps)
<1> DEFINE g == Following(preferred, deps, v)
<1>1. /\ Len(w) = n + 1 /\ DOMAIN w = 1 .. n + 1 /\ w[n + 1] = g
      /\ \A i \in 1 .. n : w[i] = v[i]
      /\ DOMAIN v = 1 .. n
  BY Appended, IsSeqFacts DEF IsBeginning
<1>2. Min(Ready(preferred, deps, v)) \in Ready(preferred, deps, v)
  BY SomeReady DEF IsBeginning
<1>3. /\ g \in ToSet(preferred) /\ g \notin ToSet(v)
      /\ \A h \in ToSet(preferred) : <<h, g>> \in deps => h \in ToSet(v)
  BY <1>2 DEF Following, Ready, ToSet
<1> HIDE DEF g
<1>4. \A i \in 1 .. n + 1 : i \in 1 .. n \/ i = n + 1
  OBVIOUS
<1>5. ToSet(w) \subseteq ToSet(preferred)
  BY <1>1, <1>3, <1>4 DEF IsBeginning, ToSet
<1>6. Distinct(w)
  BY <1>1, <1>3, <1>4 DEF IsBeginning, ToSet, Distinct
<1>7. ASSUME NEW i \in DOMAIN w, NEW h \in ToSet(preferred), <<h, w[i]>> \in deps
      PROVE  \E k \in DOMAIN w : k < i /\ w[k] = h
  <2>1. CASE i \in 1 .. n
    <3>1. PICK k \in DOMAIN v : k < i /\ v[k] = h
      BY <1>1, <1>7, <2>1 DEF IsBeginning
    <3>2. k \in DOMAIN w /\ w[k] = h
      BY <1>1, <3>1
    <3> QED
      BY <3>1, <3>2
  <2>2. CASE i = n + 1
    <3>1. PICK k \in DOMAIN v : v[k] = h
      BY <1>1, <1>3, <1>7, <2>2 DEF ToSet
    <3>2. k \in DOMAIN w /\ w[k] = h /\ k < i
      BY <1>1, <2>2, <3>1
    <3> QED
      BY <3>2
  <2> QED
    BY <1>1, <1>4, <2>1, <2>2
<1> QED
  BY <1>1, <1>5, <1>6, <1>7 DEF IsBeginning

\* orderGripsByDependencies places every grip, once, after those it needs.
LEMMA OrderedAll ==
  ASSUME NEW preferred, IsSeq(preferred), Distinct(preferred), NEW deps,
         Acyclic(ToSet(preferred), deps)
  PROVE  LET order == OrderByDependencies(preferred, deps)
         IN /\ IsSeq(order) /\ Len(order) = Len(preferred) /\ Distinct(order)
            /\ ToSet(order) = ToSet(preferred)
            /\ IsLinearExtension(order, deps)
<1> DEFINE N == Len(preferred)
           order == OrderByDependencies(preferred, deps)
<1>1. N \in Nat
  BY IsSeqFacts
<1>2. PICK c : /\ c[0] = <<>>
               /\ \A n \in 1 .. N : c[n] = Append(c[n - 1], Following(preferred, deps, c[n - 1]))
               /\ \A n \in 0 .. N : IsSeq(c[n])
               /\ order = c[N]
  BY OrderSteps
<1> HIDE DEF order
<1> DEFINE W == {n \in 0 .. N : IsBeginning(c[n], n, ToSet(preferred), deps)}
<1>3. 0 \in W
  <2>1. Len(c[0]) = 0 /\ DOMAIN c[0] = {}
    BY <1>2, EmptySeq
  <2>2. IsBeginning(c[0], 0, ToSet(preferred), deps)
    BY <2>1 DEF IsBeginning, ToSet, Distinct
  <2> QED
    BY <1>1, <2>2
<1>4. ASSUME NEW n \in 1 .. N, n - 1 \in W PROVE n \in W
  <2>1. /\ n - 1 \in Nat /\ n - 1 < N /\ n - 1 \in 0 .. N /\ n \in 0 .. N /\ n - 1 + 1 = n
        /\ IsBeginning(c[n - 1], n - 1, ToSet(preferred), deps)
    BY <1>1, <1>4
  <2>2. IsSeq(c[n - 1]) /\ c[n] = Append(c[n - 1], Following(preferred, deps, c[n - 1]))
    BY <1>2, <2>1
  <2>3. IsBeginning(c[n], n - 1 + 1, ToSet(preferred), deps)
    BY <2>1, <2>2, OneMore
  <2> QED
    BY <2>1, <2>3
<1>5. IsBeginning(order, N, ToSet(preferred), deps) /\ IsSeq(order)
  <2> HIDE DEF W
  <2>1. 0 .. N \subseteq W
    BY <1>1, <1>3, <1>4, Counting, Zenon
  <2>2. N \in W /\ N \in 0 .. N
    BY <1>1, <2>1
  <2> QED
    BY <1>2, <2>2 DEF W
<1>6. ToSet(order) = ToSet(preferred)
  <2>1. /\ Cardinality(ToSet(order)) = N /\ Cardinality(ToSet(preferred)) = N
        /\ IsFiniteSet(ToSet(preferred)) /\ ToSet(order) \in SUBSET ToSet(preferred)
    BY <1>5, RangeOf DEF IsBeginning
  <2> QED
    BY <2>1, FS_Subset
<1>7. IsLinearExtension(order, deps)
  <2>1. ASSUME NEW i \in DOMAIN order, NEW j \in DOMAIN order, <<order[i], order[j]>> \in deps
        PROVE  i < j
    <3>1. order[i] \in ToSet(preferred)
      BY <1>5 DEF IsBeginning, ToSet
    <3>2. PICK k \in DOMAIN order : k < j /\ order[k] = order[i]
      BY <1>5, <2>1, <3>1 DEF IsBeginning
    <3>3. k = i
      BY <1>5, <3>2 DEF IsBeginning, Distinct
    <3> QED
      BY <3>2, <3>3
  <2> QED
    BY <2>1 DEF IsLinearExtension
<1> QED
  BY <1>5, <1>6, <1>7 DEF IsBeginning, order

-----------------------------------------------------------------------------
(* The stacks of the history.                                              *)

\* The stacks are sequences, and together within the limit.
StacksInv == IsSeq(past) /\ IsSeq(future) /\ StacksBounded

LEMMA Pushed ==
  ASSUME HistoryAssumption, NEW s, IsSeq(s), Len(s) <= MaxHistory, NEW x
  PROVE  /\ IsSeq(Push(s, x))
         /\ Len(s) < MaxHistory =>
              Push(s, x) = Append(s, x)
         /\ Len(s) = MaxHistory =>
              Push(s, x) = Tail(Append(s, x)) /\ Len(Push(s, x)) = MaxHistory
<1> DEFINE all == Append(s, x)
<1>1. IsSeq(all) /\ Len(all) = Len(s) + 1 /\ Len(s) \in Nat
  BY Appended, IsSeqFacts
<1> HIDE DEF all
<1>2. all # <<>>
  BY <1>1
<1>3. IsSeq(Tail(all)) /\ Len(Tail(all)) = Len(all) - 1
  BY <1>1, <1>2, Shortened
<1> QED
  BY <1>1, <1>3 DEF all, Push, HistoryAssumption

LEMMA HistoryBegins == HistoryAssumption /\ HistoryInit => StacksInv
<1>1. IsSeq(<<>>) /\ Len(<<>>) = 0
  BY EmptySeq, SeqIsSeq
<1> QED
  BY <1>1 DEF HistoryInit, StacksInv, StacksBounded, HistoryAssumption

LEMMA PushedOrFull ==
  ASSUME HistoryAssumption, StacksInv
  PROVE  /\ IsSeq(Push(past, present))
         /\ Len(Push(past, present)) <= MaxHistory
  BY Pushed, IsSeqFacts, Appended DEF StacksInv, StacksBounded, HistoryAssumption

LEMMA HistoryStep ==
  ASSUME HistoryAssumption, StacksInv, [HistoryNext]_historyVars
  PROVE  StacksInv'
<1> USE DEF StacksInv, StacksBounded
<1>1. IsSeq(<<>>) /\ Len(<<>>) = 0
  BY EmptySeq, SeqIsSeq
<1>2. /\ Len(past) \in Nat /\ Len(future) \in Nat
      /\ MaxHistory \in Nat
  BY IsSeqFacts DEF HistoryAssumption
<1>3. CASE Execute \/ ResetToOriginal
  BY <1>1, <1>2, <1>3, PushedOrFull DEF Execute, ResetToOriginal
<1>4. CASE UndoEdit
  <2>1. IsSeq(past') /\ Len(past') = Len(past) - 1
    BY <1>4, Shortened DEF UndoEdit
  <2>2. IsSeq(future') /\ Len(future') = Len(future) + 1
    BY <1>4, Appended DEF UndoEdit
  <2> QED
    BY <1>2, <2>1, <2>2
<1>5. CASE Redo
  <2>1. IsSeq(future') /\ Len(future') = Len(future) - 1 /\ Len(future) > 0
    BY <1>5, Shortened DEF Redo
  <2>2. Len(past) < MaxHistory
    BY <1>2, <2>1
  <2>3. past' = Append(past, present)
    BY <1>2, <1>5, <2>2, Pushed DEF Redo
  <2>4. IsSeq(past') /\ Len(past') = Len(past) + 1
    BY <2>3, Appended
  <2> QED
    BY <1>2, <2>1, <2>4
<1>6. CASE DiscardEdits \/ ReplaceProject
  BY <1>1, <1>2, <1>6 DEF DiscardEdits, ReplaceProject
<1>7. CASE MarkSaved
  <2>1. DOMAIN past = 1 .. Len(past) /\ DOMAIN future = 1 .. Len(future)
    BY IsSeqFacts
  <2>2. /\ past' = [i \in 1 .. Len(past) |-> past'[i]]
        /\ future' = [i \in 1 .. Len(future) |-> future'[i]]
    BY <1>7, <2>1 DEF MarkSaved
  <2>3. /\ IsSeq(past') /\ Len(past') = Len(past)
        /\ IsSeq(future') /\ Len(future') = Len(future)
    BY <1>2, <2>2, Mapped
  <2> QED
    BY <2>2, <2>3
<1>8. CASE StartSave \/ SaveFails \/ UNCHANGED historyVars
  BY <1>8 DEF StartSave, SaveFails, historyVars
<1> QED
  BY <1>3, <1>4, <1>5, <1>6, <1>7, <1>8 DEF HistoryNext

LEMMA TimelineFacts ==
  ASSUME StacksInv
  PROVE  /\ IsSeq(Timeline)
         /\ Len(Timeline) = Len(past) + 1 + Len(future)
         /\ Len(past) \in Nat /\ Len(future) \in Nat
<1>1. Len(past) \in Nat /\ Len(future) \in Nat
  BY IsSeqFacts DEF StacksInv
<1>2. Len(past) + 1 + Len(future) \in Nat
  BY <1>1
<1>3. Timeline = [i \in 1 .. Len(past) + 1 + Len(future) |-> Timeline[i]]
  BY DEF Timeline
<1> QED
  BY <1>1, <1>2, <1>3, Mapped

\* What stands where on the timeline.
LEMMA TimelineAt ==
  ASSUME StacksInv, NEW i \in 1 .. Len(past) + 1 + Len(future)
  PROVE  Timeline[i] = IF i <= Len(past) THEN past[i].content
                       ELSE IF i = Len(past) + 1 THEN present.content
                       ELSE future[Len(past) + 2 + Len(future) - i].content
  BY DEF Timeline

LEMMA UndoKeeps ==
  ASSUME StacksInv, StacksInv', UndoEdit
  PROVE  KeepsTimeline
<1> DEFINE n == Len(past)  m == Len(future)
<1>1. /\ n \in Nat /\ m \in Nat /\ n > 0
      /\ Len(past') = n - 1 /\ \A i \in 1 .. n - 1 : past'[i] = past[i]
      /\ Len(future') = m + 1 /\ \A i \in 1 .. m : future'[i] = future[i]
      /\ future'[m + 1] = present /\ present' = past[n]
  BY Shortened, Appended, IsSeqFacts DEF UndoEdit, StacksInv
<1> HIDE DEF n, m
<1>2. Timeline = [i \in 1 .. n + 1 + m |->
                    IF i <= n THEN past[i].content
                    ELSE IF i = n + 1 THEN present.content
                    ELSE future[n + 2 + m - i].content]
  BY DEF Timeline, n, m
<1>3. Timeline' = [i \in 1 .. n - 1 + 1 + (m + 1) |->
                    IF i <= n - 1 THEN past'[i].content
                    ELSE IF i = n - 1 + 1 THEN present'.content
                    ELSE future'[n - 1 + 2 + (m + 1) - i].content]
  BY <1>1 DEF Timeline
<1>4. 1 .. n - 1 + 1 + (m + 1) = 1 .. n + 1 + m
  BY <1>1
<1>5. ASSUME NEW i \in 1 .. n + 1 + m
      PROVE  (IF i <= n THEN past[i].content
              ELSE IF i = n + 1 THEN present.content
              ELSE future[n + 2 + m - i].content)
             = (IF i <= n - 1 THEN past'[i].content
                ELSE IF i = n - 1 + 1 THEN present'.content
                ELSE future'[n - 1 + 2 + (m + 1) - i].content)
  <2>1. CASE i <= n - 1
    BY <1>1, <2>1
  <2>2. CASE i = n
    BY <1>1, <2>2
  <2>3. CASE i = n + 1
    BY <1>1, <2>3
  <2>4. CASE i > n + 1
    <3>1. n - 1 + 2 + (m + 1) - i = n + 2 + m - i /\ n + 2 + m - i \in 1 .. m
      BY <1>1, <2>4
    <3> QED
      BY <1>1, <2>4, <3>1
  <2> QED
    BY <1>1, <2>1, <2>2, <2>3, <2>4
<1>6. Timeline' = Timeline
  BY <1>2, <1>3, <1>4, <1>5
<1>7. Here' = n /\ Here = n + 1
  BY <1>1 DEF Here, n
<1> QED
  BY <1>1, <1>6, <1>7 DEF KeepsTimeline

LEMMA RedoKeeps ==
  ASSUME HistoryAssumption, StacksInv, StacksInv', Redo
  PROVE  KeepsTimeline
<1> DEFINE n == Len(past)  m == Len(future)
<1>1. /\ n \in Nat /\ m \in Nat /\ m > 0
      /\ Len(future') = m - 1 /\ \A i \in 1 .. m - 1 : future'[i] = future[i]
      /\ present' = future[m]
  BY Shortened, IsSeqFacts DEF Redo, StacksInv
<1>2. n < MaxHistory
  BY <1>1 DEF StacksInv, StacksBounded, HistoryAssumption
<1>3. past' = Append(past, present)
  BY <1>1, <1>2, Pushed DEF Redo, StacksInv, HistoryAssumption
<1>4. /\ Len(past') = n + 1 /\ \A i \in 1 .. n : past'[i] = past[i]
      /\ past'[n + 1] = present
  BY <1>3, Appended DEF StacksInv
<1> HIDE DEF n, m
<1>5. Timeline = [i \in 1 .. n + 1 + m |->
                    IF i <= n THEN past[i].content
                    ELSE IF i = n + 1 THEN present.content
                    ELSE future[n + 2 + m - i].content]
  BY DEF Timeline, n, m
<1>6. Timeline' = [i \in 1 .. n + 1 + 1 + (m - 1) |->
                    IF i <= n + 1 THEN past'[i].content
                    ELSE IF i = n + 1 + 1 THEN present'.content
                    ELSE future'[n + 1 + 2 + (m - 1) - i].content]
  BY <1>1, <1>4 DEF Timeline
<1>7. 1 .. n + 1 + 1 + (m - 1) = 1 .. n + 1 + m
  BY <1>1
<1>8. ASSUME NEW i \in 1 .. n + 1 + m
      PROVE  (IF i <= n THEN past[i].content
              ELSE IF i = n + 1 THEN present.content
              ELSE future[n + 2 + m - i].content)
             = (IF i <= n + 1 THEN past'[i].content
                ELSE IF i = n + 1 + 1 THEN present'.content
                ELSE future'[n + 1 + 2 + (m - 1) - i].content)
  <2>1. CASE i <= n
    BY <1>1, <1>4, <2>1
  <2>2. CASE i = n + 1
    BY <1>1, <1>4, <2>2
  <2>3. CASE i = n + 2
    BY <1>1, <1>4, <2>3
  <2>4. CASE i > n + 2
    <3>1. n + 1 + 2 + (m - 1) - i = n + 2 + m - i /\ n + 2 + m - i \in 1 .. m - 1
      BY <1>1, <2>4
    <3> QED
      BY <1>1, <2>4, <3>1
  <2> QED
    BY <1>1, <2>1, <2>2, <2>3, <2>4
<1>9. Timeline' = Timeline
  BY <1>5, <1>6, <1>7, <1>8
<1>10. Here' = n + 2 /\ Here = n + 1
  BY <1>1, <1>4 DEF Here, n
<1> QED
  BY <1>1, <1>9, <1>10 DEF KeepsTimeline

\* A command cuts the future off and pushes the present.
LEMMA CommandKeeps ==
  ASSUME HistoryAssumption, StacksInv, StacksInv',
         past' = Push(past, present), future' = <<>>
  PROVE  KeepsTimeline
<1> DEFINE n == Len(past)  m == Len(future)
           kept == SubSeq(Timeline, 1, Here)
           c == present'.content
<1>1. n \in Nat /\ m \in Nat /\ n <= MaxHistory
  BY IsSeqFacts DEF StacksInv, StacksBounded, HistoryAssumption
<1>2. Len(future') = 0
  BY EmptySeq
<1>3. IsSeq(Timeline) /\ Len(Timeline) = n + 1 + m
  BY TimelineFacts
<1>4. /\ IsSeq(Timeline') /\ Len(Timeline') = Len(past') + 1
      /\ Len(past') \in Nat
      /\ \A i \in 1 .. Len(past') + 1 :
           Timeline'[i] = IF i <= Len(past') THEN past'[i].content ELSE c
  <2>1. Len(past') \in Nat
    BY IsSeqFacts DEF StacksInv
  <2>2. Timeline' = [i \in 1 .. Len(past') + 1 |->
                       IF i <= Len(past') THEN past'[i].content ELSE c]
    BY <1>2, <2>1 DEF Timeline
  <2>3. Len(past') + 1 \in Nat
    BY <2>1
  <2> QED
    BY <2>1, <2>2, <2>3, Mapped
<1>5. /\ IsSeq(kept) /\ Len(kept) = n + 1
      /\ \A i \in 1 .. n + 1 : kept[i] = Timeline[i]
  <2> DEFINE U == {Timeline[i] : i \in 1 .. n + 1 + m}
  <2>1. \A i \in 1 .. n + 1 : Timeline[i] \in U
    BY <1>1
  <2>2. Here = n + 1 /\ n + 1 \in Nat
    BY <1>1 DEF Here
  <2> HIDE DEF U
  <2>3. /\ kept \in Seq(U) /\ Len(kept) = IF 1 <= Here THEN Here - 1 + 1 ELSE 0
        /\ \A i \in 1 .. Here - 1 + 1 : kept[i] = Timeline[1 + i - 1]
    BY <2>1, <2>2, SubSeqProperties
  <2> HIDE DEF kept, n
  <2>4. Len(kept) = n + 1
    BY <1>1, <2>2, <2>3
  <2>5. \A i \in 1 .. n + 1 : kept[i] = Timeline[i]
    BY <1>1, <2>2, <2>3
  <2> QED
    BY <2>3, <2>4, <2>5, SeqIsSeq
<1>6. \A i \in 1 .. n + 1 :
        kept[i] = IF i <= n THEN past[i].content ELSE present.content
  <2> SUFFICES ASSUME NEW i \in 1 .. n + 1
               PROVE  kept[i] = IF i <= n THEN past[i].content ELSE present.content
    OBVIOUS
  <2>1. i \in 1 .. n + 1 + m /\ (i <= n \/ i = n + 1)
    BY <1>1
  <2> QED
    BY <1>5, <2>1, TimelineAt
<1>7. Here' = Len(Timeline')
  BY <1>4 DEF Here
<1> HIDE DEF c, kept
<1>8. CASE n < MaxHistory
  <2>1. past' = Append(past, present)
    BY <1>8, Pushed, <1>1 DEF StacksInv, HistoryAssumption
  <2>2. /\ Len(past') = n + 1 /\ past'[n + 1] = present
        /\ \A i \in 1 .. n : past'[i] = past[i]
    BY <2>1, Appended DEF StacksInv
  <2>3. /\ IsSeq(Append(kept, c)) /\ Len(Append(kept, c)) = n + 2
        /\ \A i \in 1 .. n + 1 : Append(kept, c)[i] = kept[i]
        /\ Append(kept, c)[n + 2] = c
    BY <1>1, <1>5, Appended
  <2> HIDE DEF n
  <2>4. ASSUME NEW i \in 1 .. n + 2 PROVE Timeline'[i] = Append(kept, c)[i]
    <3>1. CASE i <= n
      BY <1>1, <1>4, <1>6, <2>2, <2>3, <3>1
    <3>2. CASE i = n + 1
      BY <1>1, <1>4, <1>6, <2>2, <2>3, <3>2
    <3>3. CASE i = n + 2
      BY <1>1, <1>4, <2>2, <2>3, <3>3
    <3>4. i <= n \/ i = n + 1 \/ i = n + 2
      BY <1>1
    <3> QED
      BY <3>1, <3>2, <3>3, <3>4
  <2>5. Len(Timeline') = n + 2
    BY <1>1, <1>4, <2>2
  <2>6. Timeline' = Append(kept, c)
    BY <1>4, <2>3, <2>4, <2>5, SameSeq
  <2>7. ~(Here' < Len(kept) + 1)
    BY <1>1, <1>5, <1>7, <2>5
  <2> QED
    BY <1>7, <2>6, <2>7 DEF KeepsTimeline, kept, c
<1>9. CASE n = MaxHistory
  <2> DEFINE all == Append(past, present)
  <2>1. past' = Tail(all) /\ Len(past') = n
    BY <1>9, <1>1, Pushed DEF StacksInv
  <2>2. /\ IsSeq(all) /\ Len(all) = n + 1 /\ all[n + 1] = present
        /\ \A i \in 1 .. n : all[i] = past[i]
    BY Appended DEF StacksInv
  <2> HIDE DEF all, n
  <2>3. all # <<>> /\ kept # <<>>
    BY <1>1, <1>5, <2>2
  <2>4. \A i \in 1 .. n + 1 - 1 : past'[i] = all[i + 1]
    BY <2>1, <2>2, <2>3, Shortened
  <2>5. /\ IsSeq(Tail(kept)) /\ Len(Tail(kept)) = n
        /\ \A i \in 1 .. n : Tail(kept)[i] = kept[i + 1]
    <3> DEFINE l == Len(kept)
    <3>1. IsSeq(kept) /\ l = n + 1
      BY <1>5
    <3>2. /\ IsSeq(Tail(kept)) /\ Len(Tail(kept)) = l - 1
          /\ \A i \in 1 .. l - 1 : Tail(kept)[i] = kept[i + 1]
      BY <2>3, <3>1, Shortened
    <3>3. l - 1 = n
      BY <1>1, <3>1
    <3> HIDE DEF l
    <3> QED
      BY <3>2, <3>3
  <2>6. /\ IsSeq(Append(Tail(kept), c)) /\ Len(Append(Tail(kept), c)) = n + 1
        /\ \A i \in 1 .. n : Append(Tail(kept), c)[i] = kept[i + 1]
        /\ Append(Tail(kept), c)[n + 1] = c
    BY <2>5, Appended
  <2>7. ASSUME NEW i \in 1 .. n + 1 PROVE Timeline'[i] = Append(Tail(kept), c)[i]
    <3>1. CASE i < n
      <4>1. i + 1 \in 1 .. n /\ i \in 1 .. n + 1 - 1 /\ i \in 1 .. n
            /\ i + 1 \in 1 .. n + 1
        BY <1>1, <3>1
      <4>2. Timeline'[i] = past[i + 1].content
        BY <1>4, <2>1, <2>2, <2>4, <3>1, <4>1
      <4> QED
        BY <1>6, <2>6, <4>1, <4>2
    <3>2. CASE i = n
      <4>1. i \in 1 .. n + 1 - 1 /\ i \in 1 .. n /\ i <= n
            /\ i + 1 \in 1 .. n + 1 /\ ~(i + 1 <= n)
        BY <1>1, <3>2
      <4>2. Timeline'[i] = present.content
        BY <1>4, <2>1, <2>2, <2>4, <3>2, <4>1
      <4> QED
        BY <1>6, <2>6, <4>1, <4>2
    <3>3. CASE i = n + 1
      BY <1>1, <1>4, <2>1, <2>6, <3>3
    <3>4. i < n \/ i = n \/ i = n + 1
      BY <1>1
    <3> QED
      BY <3>1, <3>2, <3>3, <3>4
  <2>8. Len(Timeline') = n + 1
    BY <1>4, <2>1
  <2>9. Timeline' = Append(Tail(kept), c)
    BY <1>4, <2>6, <2>7, <2>8, SameSeq
  <2> QED
    BY <1>7, <1>9, <2>9 DEF KeepsTimeline, kept, c, n
<1> QED
  BY <1>1, <1>8, <1>9 DEF HistoryAssumption

LEMMA RebasedContent ==
  ASSUME NEW project
  PROVE  Rebased(project).content = project.content
  BY DEF Rebased, Project

LEMMA SavedKeeps ==
  ASSUME StacksInv, MarkSaved
  PROVE  KeepsTimeline
<1> DEFINE n == Len(past)  m == Len(future)
<1>1. /\ n \in Nat /\ m \in Nat
      /\ DOMAIN past = 1 .. n /\ DOMAIN future = 1 .. m
  BY IsSeqFacts DEF StacksInv
<1>2. /\ past' = [i \in 1 .. n |-> past'[i]] /\ future' = [i \in 1 .. m |-> future'[i]]
      /\ \A i \in 1 .. n : past'[i].content = past[i].content
      /\ \A i \in 1 .. m : future'[i].content = future[i].content
      /\ present'.content = present.content
  BY <1>1, RebasedContent DEF MarkSaved
<1>3. Len(past') = n /\ Len(future') = m
  BY <1>1, <1>2, Mapped
<1> HIDE DEF n, m
<1>4. Timeline = [i \in 1 .. n + 1 + m |->
                    IF i <= n THEN past[i].content
                    ELSE IF i = n + 1 THEN present.content
                    ELSE future[n + 2 + m - i].content]
  BY DEF Timeline, n, m
<1>5. Timeline' = [i \in 1 .. n + 1 + m |->
                    IF i <= n THEN past'[i].content
                    ELSE IF i = n + 1 THEN present'.content
                    ELSE future'[n + 2 + m - i].content]
  BY <1>3 DEF Timeline
<1>6. ASSUME NEW i \in 1 .. n + 1 + m
      PROVE  /\ i <= n => past'[i].content = past[i].content
             /\ ~(i <= n) /\ i # n + 1 =>
                  future'[n + 2 + m - i].content = future[n + 2 + m - i].content
  <2>1. ~(i <= n) /\ i # n + 1 => n + 2 + m - i \in 1 .. m
    BY <1>1
  <2>2. i <= n => i \in 1 .. n
    BY <1>1
  <2> QED
    BY <1>2, <2>1, <2>2
<1>7. Timeline' = Timeline
  BY <1>2, <1>4, <1>5, <1>6
<1>8. Here' = Here /\ Here \in Int
  BY <1>1, <1>3 DEF Here, n
<1> QED
  BY <1>7, <1>8 DEF KeepsTimeline

LEMMA StepKeeps ==
  ASSUME HistoryAssumption, StacksInv, [HistoryNext]_historyVars
  PROVE  [KeepsTimeline]_historyVars
<1>1. StacksInv'
  BY HistoryStep
<1>2. CASE Execute \/ ResetToOriginal
  BY <1>1, <1>2, CommandKeeps DEF Execute, ResetToOriginal
<1>3. CASE DiscardEdits \/ ReplaceProject
  BY <1>3 DEF DiscardEdits, ReplaceProject, KeepsTimeline
<1>4. CASE StartSave \/ SaveFails
  <2>1. Timeline' = Timeline /\ Here' = Here
    BY <1>4 DEF StartSave, SaveFails, Timeline, Here
  <2>2. Here \in Int
    BY IsSeqFacts DEF StacksInv, Here
  <2> QED
    BY <2>1, <2>2 DEF KeepsTimeline
<1>5. CASE UNCHANGED historyVars
  BY <1>5
<1> QED
  BY <1>1, <1>2, <1>3, <1>4, <1>5, UndoKeeps, RedoKeeps, SavedKeeps DEF HistoryNext

\* The stacks never exceed their limit, so no redo pushes an entry out.
THEOREM HistoryBounded == HistorySpec => []StacksBounded
<1>1. StacksInv => StacksBounded
  BY DEF StacksInv
<1>2. HistorySpec => []StacksInv
  BY KernelAssumption, HistoryBegins, HistoryStep, PTL DEF HistorySpec
<1> QED
  BY <1>1, <1>2, PTL

\* For any limit and any commands, undo, redo and the end of a save move along
\* the timeline and change nothing on it.
THEOREM HistoryKept == HistorySpec => TimelineKept
<1>1. HistorySpec => []StacksInv
  BY KernelAssumption, HistoryBegins, HistoryStep, PTL DEF HistorySpec
<1> QED
  BY KernelAssumption, <1>1, StepKeeps, PTL DEF HistorySpec, TimelineKept

-----------------------------------------------------------------------------
(* The sequences of grips that the commands and their ends make.           *)

LEMMA SynchronizedIsSeq ==
  ASSUME NEW before, NEW at, NEW grips, IsSeq(grips), NEW derive
  PROVE  IsSeq(SynchronizedGrips(before, at, grips, derive))
<1> DEFINE kept == Sublist(grips, {i \in DOMAIN grips : Members(at, grips[i].id) # {}})
           t == SynchronizedGrips(before, at, grips, derive)
<1>1. IsSeq(kept)
  BY SublistIsSeq
<1>2. t = [i \in DOMAIN kept |-> t[i]]
  BY DEF SynchronizedGrips
<1> HIDE DEF kept, t
<1>3. IsSeq(t)
  BY <1>1, <1>2, MappedOver
<1> QED
  BY <1>3 DEF t

LEMMA ReplaceIsSeq ==
  ASSUME NEW grips, IsSeq(grips), NEW removed, NEW inserted, IsSeq(inserted)
  PROVE  IsSeq(Replace(grips, removed, inserted))
<1> DEFINE kept == Sublist(grips, {i \in DOMAIN grips : grips[i].id \notin removed})
           first == {i \in DOMAIN grips : grips[i].id \in removed}
           cut == IF first = {} THEN Len(kept) ELSE Min(first) - 1
<1>1. IsSeq(kept)
  BY SublistIsSeq
<1>2. DOMAIN grips = 1 .. Len(grips) /\ Len(grips) \in Nat
  BY IsSeqFacts
<1>3. first \in SUBSET (1 .. Len(grips))
  BY <1>2
<1>4. Replace(grips, removed, inserted)
        = SubSeq(kept, 1, cut) \o inserted \o SubSeq(kept, cut + 1, Len(kept))
  BY DEF Replace
<1> HIDE DEF kept, first
<1>5. ASSUME first # {} PROVE Min(first) \in Int
  <2>1. Min(first) \in first
    BY <1>2, <1>3, <1>5, MinOfSome
  <2>2. first \subseteq Int
    BY <1>2, <1>3
  <2> QED
    BY <2>1, <2>2
<1>6. Len(kept) \in Int /\ cut \in Int
  BY <1>1, <1>5, IsSeqFacts
<1> HIDE DEF cut
<1>7. IsSeq(SubSeq(kept, 1, cut)) /\ IsSeq(SubSeq(kept, cut + 1, Len(kept)))
  BY <1>6, StretchIsSeq
<1>8. IsSeq(SubSeq(kept, 1, cut) \o inserted)
  BY <1>7, JoinedIsSeq
<1> QED
  BY <1>4, <1>7, <1>8, JoinedIsSeq

LEMMA RowsAreSeq ==
  ASSUME NEW Boxes, IsFiniteSet(DOMAIN Boxes), NEW packages, NEW place
  PROVE  IsSeq(LayerRowOrder(Boxes, packages, place))
<1> DEFINE key == [g \in DOMAIN Boxes |-> LayerRowKey(Boxes[g], packages, place[g])]
<1>1. Cardinality(DOMAIN key) \in Nat
  BY FS_CardinalityType
<1>2. LayerRowOrder(Boxes, packages, place) = SortedBy(key)
  BY DEF LayerRowOrder
<1> HIDE DEF key
<1> QED
  BY <1>1, <1>2, SortedIsSeq

LEMMA IdSeqIsSeq ==
  ASSUME NEW grips, IsSeq(grips)
  PROVE  /\ IsSeq(IdSeq(grips)) /\ DOMAIN IdSeq(grips) = DOMAIN grips
         /\ Len(IdSeq(grips)) = Len(grips)
         /\ ToSet(IdSeq(grips)) = Ids(grips)
<1> DEFINE t == IdSeq(grips)
<1>1. t = [i \in DOMAIN grips |-> t[i]]
  BY DEF IdSeq
<1> HIDE DEF t
<1>2. IsSeq(t) /\ Len(t) = Len(grips) /\ DOMAIN t = DOMAIN grips
  BY <1>1, MappedOver
<1> QED
  BY <1>2 DEF t, IdSeq, Ids, ToSet

-----------------------------------------------------------------------------
(* The places of packages.                                                 *)

IsPlaced(pl) ==
  /\ pl = [field \in DOMAIN pl |-> pl[field]]
  /\ DOMAIN pl = {"x", "y", "turn", "label", "grip"}
  /\ pl.x \in Int /\ pl.y \in Int

IsLying(at) ==
  /\ at = [i \in DOMAIN at |-> at[i]]
  /\ DOMAIN at \subseteq Packages
  /\ \A i \in DOMAIN at : IsPlaced(at[i])

IsRecord(p) ==
  /\ p = [field \in DOMAIN p |-> p[field]]
  /\ DOMAIN p = {"at", "grips", "explicit", "inferred", "cycles"}

IsLayer(p) == IsRecord(p) /\ IsSeq(p.grips) /\ IsLying(p.at)

SamePlaces(at, bt) ==
  /\ DOMAIN bt = DOMAIN at
  /\ \A i \in DOMAIN at :
       bt[i].x = at[i].x /\ bt[i].y = at[i].y /\ bt[i].turn = at[i].turn

LEMMA Halves ==
  ASSUME NEW turn
  PROVE  /\ HalfX(turn) \in Int /\ HalfY(turn) \in Int
         /\ Clearance \div 2 \in Int
         /\ PalletLength \in Int /\ PalletWidth \in Int
<1>1. ASSUME NEW n \in 0 .. 50 PROVE (2 * n) \div 2 = n
  OBVIOUS
<1>2. ASSUME NEW l \in {2 * n : n \in 0 .. 50} PROVE l \in Int /\ l \div 2 \in Int
  BY <1>1
<1>3. {Length, Width, Clearance, PalletLength, PalletWidth}
        \subseteq {2 * n : n \in 0 .. 50}
  <2>1. {2 * n : n \in 1 .. 50} \subseteq {2 * n : n \in 0 .. 50}
    OBVIOUS
  <2> QED
    BY <2>1, PatternAssumption
<1> QED
  BY <1>2, <1>3 DEF HalfX, HalfY

LEMMA TwoOf ==
  ASSUME NEW a \in Int, NEW b \in Int
  PROVE  Min({a, b}) \in Int /\ Max({a, b}) \in Int
<1>1. IsFiniteSet({a, b})
  <2>1. IsFiniteSet({a})
    BY FS_Singleton
  <2>2. IsFiniteSet({a} \cup {b})
    BY <2>1, FS_AddElement
  <2>3. {a, b} = {a} \cup {b}
    OBVIOUS
  <2> QED
    BY <2>2, <2>3
<1>2. {a, b} \subseteq Int /\ {a, b} # {}
  OBVIOUS
<1> QED
  BY <1>1, <1>2, MinOf, MaxOf

IsBox(box) ==
  /\ box.left \in Int /\ box.right \in Int
  /\ box.bottom \in Int /\ box.top \in Int

LEMMA BoxInt ==
  ASSUME NEW pl, IsPlaced(pl)
  PROVE  IsBox(Box(pl)) /\ IsBox(ClearanceBox(pl))
  BY Halves DEF IsPlaced, IsBox, Box, ClearanceBox, Inflated

LEMMA MeasureInt ==
  ASSUME NEW at, NEW i, NEW j, IsPlaced(at[i]), IsPlaced(at[j])
  PROVE  Measure(at, i, j) \in Int
<1>1. ASSUME NEW n \in Int PROVE Positive(n) \in Int
  BY DEF Positive
<1>2. ASSUME NEW a, NEW b, IsBox(a), IsBox(b) PROVE OverlapMeasure(a, b) \in Int
  <2>1. ASSUME NEW axis \in {"x", "y"}
        PROVE  /\ Along(a, axis).lo \in Int /\ Along(a, axis).hi \in Int
               /\ Along(b, axis).lo \in Int /\ Along(b, axis).hi \in Int
    BY <1>2 DEF Along, IsBox
  <2>2. ASSUME NEW axis \in {"x", "y"}
        PROVE  Positive(Min({Along(a, axis).hi, Along(b, axis).hi})
                        - Max({Along(a, axis).lo, Along(b, axis).lo})) \in Int
    <3>1. Min({Along(a, axis).hi, Along(b, axis).hi}) \in Int
      BY <2>1, TwoOf
    <3>2. Max({Along(a, axis).lo, Along(b, axis).lo}) \in Int
      BY <2>1, TwoOf
    <3> QED
      BY <1>1, <3>1, <3>2
  <2> QED
    BY <2>2 DEF OverlapMeasure
<1>3. ASSUME NEW b, IsBox(b) PROVE ProtrusionMeasure(b) \in Int
  <2>1. PalletLength \in Int /\ PalletWidth \in Int
    BY Halves
  <2>2. /\ -b.left \in Int /\ -b.bottom \in Int
        /\ b.right - PalletLength \in Int /\ b.top - PalletWidth \in Int
    BY <1>3, <2>1 DEF IsBox
  <2>3. /\ Positive(-b.left) \in Int /\ Positive(-b.bottom) \in Int
        /\ Positive(b.right - PalletLength) \in Int
        /\ Positive(b.top - PalletWidth) \in Int
    BY <1>1, <2>2
  <2> QED
    BY <2>3 DEF ProtrusionMeasure
<1> QED
  BY <1>2, <1>3, BoxInt DEF Measure

\* Of a set of one or two packages, the first and the last are in it.
LEMMA EndsOfPair ==
  ASSUME NEW at, IsLying(at), NEW S \in SUBSET DOMAIN at, Cardinality(S) \in 1 .. 2
  PROVE  Min(S) \in DOMAIN at /\ Max(S) \in DOMAIN at
<1>1. IsFiniteSet(S) /\ S \subseteq Int
  BY PatternAssumption, FS_Subset DEF IsLying
<1>2. S # {}
  BY FS_EmptySet
<1> QED
  BY <1>1, <1>2, MinOf, MaxOf

LEMMA ViolationsInt ==
  ASSUME NEW at, IsLying(at), NEW k \in DOMAIN Violations(at)
  PROVE  Violations(at)[k] \in Int
<1> DEFINE measures == [S \in {T \in SUBSET DOMAIN at : Cardinality(T) \in 1 .. 2} |->
                          Measure(at, Min(S), Max(S))]
<1>1. Violations(at) = Violated(measures)
  BY DEF Violations
<1>2. k \in DOMAIN measures /\ Violations(at)[k] = measures[k]
  BY <1>1 DEF Violated
<1>3. k \in SUBSET DOMAIN at /\ Cardinality(k) \in 1 .. 2
  BY <1>2
<1>4. IsPlaced(at[Min(k)]) /\ IsPlaced(at[Max(k)])
  BY <1>3, EndsOfPair DEF IsLying
<1> QED
  BY <1>2, <1>3, <1>4, MeasureInt

LEMMA SameViolations ==
  ASSUME NEW at, NEW bt, IsLying(at), IsLying(bt), SamePlaces(at, bt)
  PROVE  Violations(bt) = Violations(at)
<1> DEFINE pairs == {T \in SUBSET DOMAIN at : Cardinality(T) \in 1 .. 2}
<1>1. ASSUME NEW i \in DOMAIN at
      PROVE  Box(bt[i]) = Box(at[i]) /\ ClearanceBox(bt[i]) = ClearanceBox(at[i])
  BY DEF SamePlaces, Box, ClearanceBox, Inflated
<1>2. ASSUME NEW S \in pairs
      PROVE  Measure(bt, Min(S), Max(S)) = Measure(at, Min(S), Max(S))
  <2>1. Min(S) \in DOMAIN at /\ Max(S) \in DOMAIN at
    BY EndsOfPair
  <2> QED
    BY <1>1, <2>1 DEF Measure
<1>3. [S \in pairs |-> Measure(bt, Min(S), Max(S))]
        = [S \in pairs |-> Measure(at, Min(S), Max(S))]
  BY <1>2
<1>4. DOMAIN bt = DOMAIN at
  BY DEF SamePlaces
<1> QED
  BY <1>3, <1>4 DEF Violations

\* Worsen compares with what was there before; not to worsen is transitive.
LEMMA NeverWorse ==
  ASSUME NEW at, NEW bt, NEW ct, IsLying(at), IsLying(bt), IsLying(ct),
         ~Worsen(Violations(at), Violations(bt)),
         ~Worsen(Violations(bt), Violations(ct))
  PROVE  ~Worsen(Violations(at), Violations(ct))
  BY ViolationsInt DEF Worsen

LEMMA NotWorseThanSelf ==
  ASSUME NEW at, IsLying(at)
  PROVE  ~Worsen(Violations(at), Violations(at))
  BY ViolationsInt DEF Worsen

-----------------------------------------------------------------------------
(* What the commands do to the places of packages.                         *)

\* A change lays packages somewhere, and is compared if it moves them.
IsChange(p, c) ==
  /\ IsLayer(c.next)
  /\ c.moves = TRUE \/ SamePlaces(p.at, c.next.at)

LEMMA RecordWith ==
  ASSUME NEW p, IsRecord(p), NEW q, NEW g, NEW e, q = [p EXCEPT !.grips = g, !.explicit = e]
  PROVE  IsRecord(q) /\ q.at = p.at /\ q.grips = g
  BY DEF IsRecord

LEMMA RecordOrdered ==
  ASSUME NEW p, IsRecord(p), NEW q, NEW g, NEW i, NEW c,
         q = [p EXCEPT !.grips = g, !.inferred = i, !.cycles = c]
  PROVE  /\ IsRecord(q) /\ q.at = p.at /\ q.explicit = p.explicit
         /\ q.grips = g /\ q.inferred = i /\ q.cycles = c
  BY DEF IsRecord

\* The grip of an id stands first where the id does.
LEMMA GripHasId ==
  ASSUME NEW grips, IsSeq(grips), NEW id \in Ids(grips)
  PROVE  \E i \in DOMAIN grips : GripOf(grips, id) = grips[i] /\ grips[i].id = id
<1> DEFINE S == {i \in DOMAIN grips : grips[i].id = id}
<1>1. DOMAIN grips = 1 .. Len(grips) /\ Len(grips) \in Nat
  BY IsSeqFacts
<1>2. S # {} /\ S \in SUBSET (1 .. Len(grips))
  BY <1>1 DEF Ids
<1>3. GripOf(grips, id) = grips[Min(S)]
  BY DEF GripOf
<1> HIDE DEF S
<1>4. Min(S) \in S
  BY <1>1, <1>2, MinOfSome
<1> QED
  BY <1>3, <1>4 DEF S

\* Grips that are put in another order are the same grips.
LEMMA SameGrips ==
  ASSUME NEW grips, IsSeq(grips), NEW order, IsSeq(order), Distinct(order),
         ToSet(order) = Ids(grips),
         NEW g, g = [i \in DOMAIN order |-> GripOf(grips, order[i])]
  PROVE  /\ IsSeq(g) /\ DOMAIN g = DOMAIN order /\ Len(g) = Len(order)
         /\ IdSeq(g) = order /\ Ids(g) = Ids(grips)
         /\ \A id \in Ids(g) : GripOf(g, id) = GripOf(grips, id)
<1>1. IsSeq(g) /\ DOMAIN g = DOMAIN order /\ Len(g) = Len(order)
  <2>1. g = [i \in DOMAIN order |-> g[i]]
    OBVIOUS
  <2> QED
    BY <2>1, MappedOver
<1>2. \A i \in DOMAIN order : g[i] = GripOf(grips, order[i]) /\ g[i].id = order[i]
  <2>1. ASSUME NEW i \in DOMAIN order PROVE order[i] \in Ids(grips)
    BY DEF ToSet
  <2> QED
    BY <2>1, GripHasId
<1>3. IdSeq(g) = order
  <2>1. order = [i \in DOMAIN order |-> order[i]]
    BY IsSeqFacts
  <2>2. IdSeq(g) = [i \in DOMAIN order |-> g[i].id]
    BY <1>1 DEF IdSeq
  <2> QED
    BY <1>2, <2>1, <2>2
<1>4. Ids(g) = Ids(grips)
  <2>1. Ids(g) = {order[i] : i \in DOMAIN order}
    BY <1>1, <1>2 DEF Ids
  <2> QED
    BY <2>1 DEF ToSet
<1>5. ASSUME NEW id \in Ids(g) PROVE GripOf(g, id) = GripOf(grips, id)
  <2>1. \E i \in DOMAIN g : GripOf(g, id) = g[i] /\ g[i].id = id
    BY <1>1, GripHasId, Zenon
  <2>2. PICK i \in DOMAIN g : GripOf(g, id) = g[i] /\ g[i].id = id
    BY <2>1
  <2> QED
    BY <1>1, <1>2, <2>2
<1> QED
  BY <1>1, <1>3, <1>4, <1>5

\* What every command ends with leaves a pattern that can be placed.
LEMMA RecalculatedPlaceable ==
  ASSUME NEW r, IsRecord(r), IsSeq(r.grips),
         NEW inferred, inferred = Inferred(r.at, r.grips),
         NEW q \in Recalculated(r, inferred), q # Broken
  PROVE  /\ IsRecord(q) /\ q.at = r.at /\ IsSeq(q.grips) /\ Placeable(q)
         /\ q.explicit = r.explicit
         /\ q.inferred = inferred \ r.explicit
         /\ q.cycles = SynchronizedCycles(r.cycles, r.at, q.grips)
         /\ Ids(q.grips) = Ids(r.grips)
         /\ ToSet(q.grips) \subseteq ToSet(r.grips)
<1> DEFINE deps == r.explicit \cup inferred
           ids == IdSeq(r.grips)
           order == OrderByDependencies(ids, deps)
           twice == {id \in Ids(r.grips) :
                       \E i, j \in DOMAIN r.grips :
                         i # j /\ r.grips[i].id = id /\ r.grips[j].id = id}
           g == [i \in DOMAIN order |-> GripOf(r.grips, order[i])]
           cs == SynchronizedCycles(r.cycles, r.at, g)
           rest == inferred \ r.explicit
<1>1. /\ \A id \in Ids(r.grips) : GroupFits(r.at, Members(r.at, id))
      /\ Acyclic(Ids(r.grips), deps) /\ twice = {}
      /\ q = Ordered(r, order, inferred)
  BY DEF Recalculated
<1>2. /\ IsSeq(ids) /\ Len(ids) = Len(r.grips) /\ DOMAIN ids = DOMAIN r.grips
      /\ ToSet(ids) = Ids(r.grips)
  BY IdSeqIsSeq
<1>3. Distinct(ids)
  <2>1. ASSUME NEW i \in DOMAIN ids, NEW j \in DOMAIN ids, ids[i] = ids[j], i # j
        PROVE  FALSE
    <3>1. r.grips[i].id = ids[i] /\ r.grips[j].id = ids[i] /\ ids[i] \in Ids(r.grips)
      BY <1>2, <2>1 DEF IdSeq, Ids
    <3>2. ids[i] \in twice
      BY <1>2, <2>1, <3>1
    <3> QED
      BY <1>1, <3>2
  <2> QED
    BY <2>1 DEF Distinct
<1>4. q = [r EXCEPT !.grips = g, !.inferred = rest, !.cycles = cs]
  BY <1>1 DEF Ordered
<1> HIDE DEF ids, deps, twice
<1>5. /\ IsSeq(order) /\ Distinct(order) /\ ToSet(order) = Ids(r.grips)
      /\ Len(order) = Len(r.grips) /\ IsLinearExtension(order, deps)
  BY <1>1, <1>2, <1>3, OrderedAll
<1> HIDE DEF order
<1>6. /\ IsSeq(g) /\ DOMAIN g = DOMAIN order /\ Len(g) = Len(order)
      /\ IdSeq(g) = order /\ Ids(g) = Ids(r.grips)
      /\ \A id \in Ids(g) : GripOf(g, id) = GripOf(r.grips, id)
  BY <1>5, SameGrips
<1>7. ToSet(g) \subseteq ToSet(r.grips)
  <2>1. ASSUME NEW i \in DOMAIN g PROVE g[i] \in ToSet(r.grips)
    <3>1. order[i] \in Ids(r.grips)
      BY <1>5, <1>6, <2>1 DEF ToSet
    <3>2. \E k \in DOMAIN r.grips : GripOf(r.grips, order[i]) = r.grips[k]
      BY <3>1, GripHasId
    <3> QED
      BY <2>1, <3>2 DEF ToSet
  <2> HIDE DEF g
  <2> QED
    BY <2>1 DEF ToSet
<1> HIDE DEF g
<1>8. cs # <<>> => cs = SynchronizedCycles(cs, r.at, g)
  BY DEF SynchronizedCycles
<1>9. cs = SynchronizedCycles(r.cycles, r.at, g)
  OBVIOUS
<1> HIDE DEF cs, rest
<1>10. /\ IsRecord(q) /\ q.at = r.at /\ q.explicit = r.explicit
       /\ q.grips = g /\ q.inferred = rest /\ q.cycles = cs
  BY <1>4 DEF IsRecord
<1>11. Inferred(q.at, q.grips) = inferred
  <2>1. [id \in Ids(g) |-> GripOf(g, id).delta]
          = [id \in Ids(r.grips) |-> GripOf(r.grips, id).delta]
    BY <1>6
  <2>2. Inferred(r.at, g) = Inferred(r.at, r.grips)
    BY <1>6, <2>1 DEF Inferred
  <2> QED
    BY <1>10, <2>2
<1>12. \A i \in DOMAIN q.grips : GroupFits(q.at, Members(q.at, q.grips[i].id))
  <2>1. \A i \in DOMAIN g : g[i].id \in Ids(r.grips)
    BY <1>6 DEF Ids
  <2> QED
    BY <1>1, <1>10, <2>1
<1>13. Cardinality(Ids(q.grips)) = Len(q.grips)
  BY <1>5, <1>6, <1>10, RangeOf
<1>14. IsLinearExtension(IdSeq(q.grips), q.explicit \cup inferred)
  BY <1>5, <1>6, <1>10 DEF deps
<1> QED
  BY <1>6, <1>7, <1>8, <1>9, <1>10, <1>11, <1>12, <1>13, <1>14 DEF Placeable, rest

\* replacePattern adds grips and what follows from them.
LEMMA ReplacedLeavesPlaces ==
  ASSUME NEW p, NEW c, IsLayer(c.next), NEW q \in Replaced(p, c), q # Broken
  PROVE  IsLayer(q) /\ Placeable(q) /\ q.at = c.next.at
<1> DEFINE grips == SynchronizedGrips(IF c.anew THEN <<>> ELSE p.grips,
                                      c.next.at, c.next.grips, c.derive)
           start == [c.next EXCEPT !.cycles = p.cycles]
           r == WithGrips(start, grips)
<1>1. IsRecord(start) /\ start.at = c.next.at
  BY DEF IsLayer, IsRecord
<1>2. IsSeq(grips)
  <2>1. IsSeq(c.next.grips)
    BY DEF IsLayer
  <2> QED
    BY <2>1, SynchronizedIsSeq
<1>3. q \in Recalculated(r, Inferred(r.at, r.grips))
  BY DEF Replaced, Placed
<1> HIDE DEF start, grips
<1>4. IsRecord(r) /\ r.at = c.next.at /\ IsSeq(r.grips)
  <2> DEFINE e == {d \in start.explicit : {d[1], d[2]} \subseteq Ids(grips)}
  <2>1. r = [start EXCEPT !.grips = grips, !.explicit = e]
    BY DEF WithGrips
  <2> HIDE DEF e, r
  <2>2. IsRecord(r) /\ r.at = start.at /\ r.grips = grips
    BY <1>1, <2>1, RecordWith, Zenon
  <2> QED
    BY <1>1, <1>2, <2>2
<1> HIDE DEF r
<1>5. IsRecord(q) /\ q.at = r.at /\ IsSeq(q.grips) /\ Placeable(q)
  BY <1>3, <1>4, RecalculatedPlaceable
<1> QED
  BY <1>4, <1>5 DEF IsLayer

LEMMA OutcomeNotWorse ==
  ASSUME NEW p, IsLayer(p), NEW changes, \A c \in changes : IsChange(p, c),
         NEW q \in Outcomes(p, changes), q # Broken
  PROVE  /\ IsLayer(q) /\ Placeable(q)
         /\ ~Worsen(Violations(p.at), Violations(q.at))
<1>1. PICK c \in changes : /\ ~(c.moves /\ Worsen(Violations(p.at), Violations(c.next.at)))
                           /\ q \in Replaced(p, c)
  BY DEF Outcomes
<1>2. IsLayer(q) /\ Placeable(q) /\ q.at = c.next.at /\ IsLying(p.at) /\ IsLying(c.next.at)
  BY <1>1, ReplacedLeavesPlaces DEF IsChange, IsLayer
<1>3. CASE c.moves = TRUE
  BY <1>1, <1>2, <1>3
<1>4. CASE SamePlaces(p.at, c.next.at)
  <2>1. Violations(q.at) = Violations(p.at)
    BY <1>2, <1>4, SameViolations
  <2> QED
    BY <1>2, <2>1, NotWorseThanSelf
<1> QED
  BY <1>1, <1>3, <1>4 DEF IsChange

\* Packages that only get another label or grip stay where they are.
LEMMA Untouched ==
  ASSUME NEW at, IsLying(at), NEW bt,
         bt = [i \in DOMAIN at |-> bt[i]],
         \A i \in DOMAIN at :
           \/ bt[i] = at[i]
           \/ \E g : bt[i] = [at[i] EXCEPT !.grip = g]
           \/ \E l : bt[i] = [at[i] EXCEPT !.label = l]
  PROVE  IsLying(bt) /\ SamePlaces(at, bt)
<1>1. ASSUME NEW i \in DOMAIN at
      PROVE  /\ IsPlaced(bt[i])
             /\ bt[i].x = at[i].x /\ bt[i].y = at[i].y /\ bt[i].turn = at[i].turn
  <2>1. IsPlaced(at[i])
    BY DEF IsLying
  <2>2. ASSUME NEW g, bt[i] = [at[i] EXCEPT !.grip = g]
        PROVE  /\ IsPlaced(bt[i])
               /\ bt[i].x = at[i].x /\ bt[i].y = at[i].y /\ bt[i].turn = at[i].turn
    BY <2>1, <2>2 DEF IsPlaced
  <2>3. ASSUME NEW l, bt[i] = [at[i] EXCEPT !.label = l]
        PROVE  /\ IsPlaced(bt[i])
               /\ bt[i].x = at[i].x /\ bt[i].y = at[i].y /\ bt[i].turn = at[i].turn
    BY <2>1, <2>3 DEF IsPlaced
  <2> QED
    BY <2>1, <2>2, <2>3
<1> QED
  BY <1>1 DEF IsLying, SamePlaces

\* Patterns that differ in one or two fields besides the packages.
LEMMA LayerWith ==
  ASSUME NEW p, IsLayer(p), NEW q, NEW at, NEW g, NEW e, IsLying(at),
         \/ q = [p EXCEPT !.at = at]
         \/ q = [p EXCEPT !.explicit = e, !.at = at]
         \/ IsSeq(g) /\ q = [p EXCEPT !.at = at, !.grips = g, !.explicit = e]
         \/ IsSeq(g) /\ q = [p EXCEPT !.grips = g, !.explicit = e, !.at = at]
  PROVE  IsLayer(q) /\ q.at = at
  BY DEF IsLayer, IsRecord

LEMMA LayerBesides ==
  ASSUME NEW p, IsLayer(p), NEW q, NEW g, NEW e,
         \/ IsSeq(g) /\ q = [p EXCEPT !.grips = g]
         \/ q = [p EXCEPT !.explicit = e]
         \/ IsSeq(g) /\ q = [p EXCEPT !.grips = g, !.explicit = e]
  PROVE  IsLayer(q) /\ q.at = p.at
  BY DEF IsLayer, IsRecord

LEMMA SameTwice ==
  ASSUME NEW at, NEW bt, NEW ct, SamePlaces(at, bt), SamePlaces(bt, ct)
  PROVE  SamePlaces(at, ct)
  BY DEF SamePlaces

LEMMA StillChange ==
  ASSUME NEW p, NEW next, IsLayer(next), SamePlaces(p.at, next.at), NEW d, NEW c,
         \/ c = Change(next)
         \/ c = [Change(next) EXCEPT !.derive = d]
  PROVE  IsChange(p, c)
  BY DEF Change, IsChange

LEMMA MoveChange ==
  ASSUME NEW p, NEW next, IsLayer(next), NEW d, NEW c,
         \/ c = Move(next)
         \/ c = [Move(next) EXCEPT !.derive = d]
         \/ c = [Move(next) EXCEPT !.anew = d]
  PROVE  IsChange(p, c)
  BY DEF Change, Move, IsChange

\* A layer with its packages where they are in another.
Still(p, q) == IsLayer(q) /\ SamePlaces(p.at, q.at)

LEMMA StillItself ==
  ASSUME NEW p, IsLayer(p)
  PROVE  Still(p, p)
  BY DEF Still, SamePlaces, IsLayer

\* ensurePatternGroups moves nothing.
LEMMA GroupsStill ==
  ASSUME NEW p, IsLayer(p)
  PROVE  Still(p, EnsureGroups(p))
<1> DEFINE groups == AutomaticGroups(p.at)
           at == [i \in DOMAIN p.at |->
                    [p.at[i] EXCEPT !.grip = FreshId({}, CHOOSE S \in groups : i \in S)]]
           q == GroupedAs(p, groups)
           r == InLayerRows(q, AllGripBoxes(q))
<1>1. IsLying(at) /\ SamePlaces(p.at, at)
  <2>1. ASSUME NEW i \in DOMAIN p.at PROVE \E g : at[i] = [p.at[i] EXCEPT !.grip = g]
    OBVIOUS
  <2>2. at = [i \in DOMAIN p.at |-> at[i]] /\ IsLying(p.at)
    BY DEF IsLayer
  <2> HIDE DEF at
  <2> QED
    BY <2>1, <2>2, Untouched
<1>2. q = [p EXCEPT !.explicit = {}, !.at = at]
  BY DEF GroupedAs
<1> HIDE DEF at, q, groups
<1>3. IsLayer(q) /\ q.at = at
  BY <1>1, <1>2, LayerWith, Zenon
<1>4. ASSUME NEW Boxes, NEW order, IsSeq(order), NEW t, t = WithDerivedGrips(q, Boxes, order)
      PROVE  IsLayer(t) /\ t.at = at
  <2> DEFINE g == [i \in DOMAIN order |->
                     [id |-> order[i], delta |-> DerivedDelta(Boxes, order, i)]]
  <2>1. t = [q EXCEPT !.grips = g]
    BY <1>4 DEF WithDerivedGrips
  <2>2. g = [i \in DOMAIN order |-> g[i]]
    OBVIOUS
  <2> HIDE DEF g
  <2>3. IsSeq(g)
    BY <1>4, <2>2, MappedOver
  <2>4. IsLayer(t) /\ t.at = q.at
    BY <1>3, <2>1, <2>3, LayerBesides, Zenon
  <2> QED
    BY <1>3, <2>4
<1>5. IsLayer(r) /\ r.at = at
  <2> DEFINE Boxes == AllGripBoxes(q)
             rows == LayerRowOrder(Boxes, [i \in DOMAIN q.at |-> Box(q.at[i])],
                                   [g \in DOMAIN Boxes |-> 0])
  <2>1. IsFiniteSet(DOMAIN Boxes)
    <3> DEFINE f == [i \in DOMAIN q.at |-> q.at[i].grip]
    <3>1. DOMAIN Boxes = {f[i] : i \in DOMAIN q.at}
      BY DEF AllGripBoxes, GripBoxes
    <3>2. IsFiniteSet(DOMAIN q.at)
      BY <1>3, PatternAssumption, FS_Subset DEF IsLayer, IsLying
    <3> HIDE DEF f, Boxes
    <3> QED
      BY <3>1, <3>2, ImageFinite
  <2>2. IsSeq(rows)
    BY <2>1, RowsAreSeq
  <2>3. r = WithDerivedGrips(q, Boxes, OrderByDependencies(rows, VerticalDependencies(Boxes)))
    BY DEF InLayerRows
  <2> HIDE DEF Boxes, rows, r
  <2> QED
    BY <1>4, <2>2, <2>3, OrderIsSeq
<1> HIDE DEF r
<1>6. EnsureGroups(p) = p \/ EnsureGroups(p) = r
  BY DEF EnsureGroups, r, q, groups
<1> QED
  BY <1>1, <1>5, <1>6, StillItself DEF Still

LEMMA PlacedWith ==
  ASSUME NEW pl, IsPlaced(pl), NEW x \in Int, NEW y \in Int, NEW t, NEW l, NEW new,
         \/ new = [pl EXCEPT !.x = x, !.y = y]
         \/ new = [pl EXCEPT !.x = x, !.y = y, !.turn = t, !.label = l]
  PROVE  IsPlaced(new)
  BY DEF IsPlaced

\* The commands of the pattern view.
LEMMA MovePlacementsLays ==
  ASSUME NEW p, IsLayer(p), NEW S, NEW step, step[1] \in Int, step[2] \in Int
  PROVE  IsChange(p, MovePlacements(p, S, step))
<1> DEFINE New(pl) == [pl EXCEPT !.x = @ + step[1], !.y = @ + step[2]]
           at == [i \in DOMAIN p.at |-> IF i \in S THEN New(p.at[i]) ELSE p.at[i]]
           next == [p EXCEPT !.at = at]
<1>1. ASSUME NEW pl, IsPlaced(pl) PROVE IsPlaced(New(pl))
  <2> DEFINE a == pl.x + step[1]
             b == pl.y + step[2]
  <2>1. a \in Int /\ b \in Int
    BY <1>1 DEF IsPlaced
  <2>2. New(pl) = [pl EXCEPT !.x = a, !.y = b]
    OBVIOUS
  <2> HIDE DEF a, b, New
  <2> QED
    BY <1>1, <2>1, <2>2, PlacedWith, Zenon
<1>2. MovePlacements(p, S, step) = Move(next)
  BY DEF MovePlacements, WithPlacements
<1> HIDE DEF New
<1>3. IsLying(at)
  BY <1>1 DEF IsLying, IsLayer
<1> HIDE DEF at
<1>4. IsLayer(next)
  BY <1>3, LayerWith, Zenon
<1> QED
  BY <1>2, <1>4, MoveChange, Zenon

LEMMA TurnedPlaced ==
  ASSUME NEW pl, IsPlaced(pl), NEW x \in Int, NEW y \in Int
  PROVE  IsPlaced(TurnedAbout(pl, [x |-> x, y |-> y], 1))
<1> DEFINE off == Turned([x |-> pl.x - x, y |-> pl.y - y], 1)
           a == x + off.x
           b == y + off.y
           t == (pl.turn + 1) % 4
           l == Turned(pl.label, 1)
           new == TurnedAbout(pl, [x |-> x, y |-> y], 1)
<1>1. off = [x |-> -(pl.y - y), y |-> pl.x - x]
  BY DEF Turned
<1>2. a \in Int /\ b \in Int
  BY <1>1 DEF IsPlaced
<1>3. new = [pl EXCEPT !.x = a, !.y = b, !.turn = t, !.label = l]
  BY DEF TurnedAbout
<1> HIDE DEF a, b, t, l, new
<1>4. IsPlaced(new)
  BY <1>2, <1>3, PlacedWith
<1> QED
  BY <1>4 DEF new

LEMMA RotatePlacementsLays ==
  ASSUME NEW p, IsLayer(p), NEW S, NEW x \in Int, NEW y \in Int
  PROVE  IsChange(p, RotatePlacements(p, S, [x |-> x, y |-> y], 1))
<1> DEFINE New(pl) == TurnedAbout(pl, [x |-> x, y |-> y], 1)
           at == [i \in DOMAIN p.at |-> IF i \in S THEN New(p.at[i]) ELSE p.at[i]]
           next == [p EXCEPT !.at = at]
           derive == {p.at[i].grip : i \in {j \in S : 1 # 0 /\ p.at[j].label # NoLabel}}
           c == RotatePlacements(p, S, [x |-> x, y |-> y], 1)
<1>1. ASSUME NEW pl, IsPlaced(pl) PROVE IsPlaced(New(pl))
  BY <1>1, TurnedPlaced
<1>2. c = [Move(next) EXCEPT !.derive = derive]
  BY DEF RotatePlacements, WithPlacements
<1> HIDE DEF New, derive, c
<1>3. IsLying(at)
  BY <1>1 DEF IsLying, IsLayer
<1> HIDE DEF at
<1>4. IsLayer(next)
  BY <1>3, LayerWith, Zenon
<1>5. IsChange(p, c)
  BY <1>2, <1>4, MoveChange, Zenon
<1> QED
  BY <1>5 DEF c

LEMMA SetLabelSideStays ==
  ASSUME NEW p, IsLayer(p), NEW S, NEW label
  PROVE  IsChange(p, SetLabelSide(p, S, label))
<1> DEFINE at == [i \in DOMAIN p.at |-> IF i \in S THEN [p.at[i] EXCEPT !.label = label]
                                                   ELSE p.at[i]]
           next == [p EXCEPT !.at = at]
           derive == {p.at[i].grip : i \in S}
           c == SetLabelSide(p, S, label)
<1>1. c = [Change(next) EXCEPT !.derive = derive]
  BY DEF SetLabelSide, WithPlacements
<1>2. IsLying(p.at) /\ at = [i \in DOMAIN p.at |-> at[i]]
  BY DEF IsLayer
<1>3. \A i \in DOMAIN p.at : at[i] = p.at[i] \/ \E l : at[i] = [p.at[i] EXCEPT !.label = l]
  OBVIOUS
<1> HIDE DEF at, derive, c
<1>4. IsLying(at) /\ SamePlaces(p.at, at)
  BY <1>2, <1>3, Untouched
<1>5. IsLayer(next) /\ next.at = at
  BY <1>4, LayerWith, Zenon
<1>6. IsChange(p, c)
  BY <1>1, <1>4, <1>5, StillChange, Zenon
<1> QED
  BY <1>6 DEF c

LEMMA DeletePlacementsLays ==
  ASSUME NEW p, IsLayer(p), NEW S
  PROVE  IsChange(p, DeletePlacements(p, S))
<1> DEFINE at == [i \in (DOMAIN p.at) \ S |-> p.at[i]]
           next == [p EXCEPT !.at = at]
<1>1. DeletePlacements(p, S) = Move(next)
  BY DEF DeletePlacements
<1>2. IsLying(at)
  BY DEF IsLying, IsLayer
<1> HIDE DEF at
<1>3. IsLayer(next)
  BY <1>2, LayerWith, Zenon
<1> QED
  BY <1>1, <1>3, MoveChange, Zenon

LEMMA SetPatternNameStays ==
  ASSUME NEW p, IsLayer(p)
  PROVE  IsChange(p, SetPatternName(p))
  BY StillItself, StillChange, Zenon DEF Still, SetPatternName

\* The boxes of packages, of which there are finitely many.
LEMMA BoxesFinite ==
  ASSUME NEW at, IsLying(at), NEW S \in SUBSET DOMAIN at
  PROVE  /\ IsFiniteSet({Box(at[i]) : i \in S})
         /\ \A b \in {Box(at[i]) : i \in S} : IsBox(b)
<1>1. IsFiniteSet(S)
  BY PatternAssumption, FS_Subset DEF IsLying
<1>2. IsFiniteSet({Box(at[i]) : i \in S})
  <2> DEFINE f == [i \in S |-> Box(at[i])]
  <2>1. IsFiniteSet({f[i] : i \in S})
    BY <1>1, ImageFinite
  <2>2. {f[i] : i \in S} = {Box(at[i]) : i \in S}
    OBVIOUS
  <2> QED
    BY <2>1, <2>2
<1> QED
  BY <1>2, BoxInt DEF IsLying

LEMMA CentreInt ==
  ASSUME NEW boxes, IsFiniteSet(boxes), boxes # {}, \A b \in boxes : IsBox(b),
         NEW axis \in {"x", "y"}
  PROVE  Centre2(boxes, axis) \in Int
<1> DEFINE lows == {Along(b, axis).lo : b \in boxes}
           highs == {Along(b, axis).hi : b \in boxes}
<1>1. IsFiniteSet(lows) /\ IsFiniteSet(highs)
  <2> DEFINE lo == [b \in boxes |-> Along(b, axis).lo]
             hi == [b \in boxes |-> Along(b, axis).hi]
  <2>1. IsFiniteSet({lo[b] : b \in boxes}) /\ IsFiniteSet({hi[b] : b \in boxes})
    BY ImageFinite, Zenon
  <2>2. {lo[b] : b \in boxes} = lows /\ {hi[b] : b \in boxes} = highs
    OBVIOUS
  <2> QED
    BY <2>1, <2>2
<1>2. lows # {} /\ highs # {} /\ lows \subseteq Int /\ highs \subseteq Int
  BY DEF Along, IsBox
<1>3. Min(lows) \in Int /\ Max(highs) \in Int
  BY <1>1, <1>2, MinOf, MaxOf
<1> QED
  BY <1>3 DEF Centre2

LEMMA CenterPlacementsLays ==
  ASSUME NEW p, IsLayer(p), NEW S \in SUBSET DOMAIN p.at, S # {}
  PROVE  IsChange(p, CenterPlacements(p, S))
<1> DEFINE boxes == {Box(p.at[i]) : i \in S}
           step == CenteringStep2(p, S)
           half == [k \in 1 .. 2 |-> step[k] \div 2]
<1>1. IsFiniteSet(boxes) /\ boxes # {} /\ \A b \in boxes : IsBox(b)
  BY BoxesFinite DEF IsLayer
<1>2. Centre2(boxes, "x") \in Int /\ Centre2(boxes, "y") \in Int
  BY <1>1, CentreInt
<1>3. step[1] \in Int /\ step[2] \in Int
  BY <1>2, Halves DEF CenteringStep2
<1> HIDE DEF step
<1>4. half[1] \in Int /\ half[2] \in Int
  BY <1>3
<1>5. CenterPlacements(p, S) = MovePlacements(p, S, half)
  BY DEF CenterPlacements, step
<1> HIDE DEF half
<1> QED
  BY <1>4, <1>5, MovePlacementsLays

-----------------------------------------------------------------------------
(* First elements by keys, and the place of an inserted package.           *)

IsKey(k, n) == DOMAIN k = 1 .. n /\ \A i \in 1 .. n : k[i] \in Int

Differ(s, t, n) == \E i \in 1 .. n : s[i] # t[i]

LEMMA LexTransitive ==
  ASSUME NEW n \in Nat, NEW s, NEW t, NEW u, IsKey(s, n), IsKey(t, n), IsKey(u, n),
         LexLess(s, t), LexLess(t, u)
  PROVE  LexLess(s, u)
<1>1. PICK i \in 1 .. n : s[i] < t[i] /\ \A j \in 1 .. i - 1 : s[j] = t[j]
  BY DEF LexLess, IsKey
<1>2. PICK k \in 1 .. n : t[k] < u[k] /\ \A j \in 1 .. k - 1 : t[j] = u[j]
  BY DEF LexLess, IsKey
<1>3. /\ s[i] \in Int /\ t[i] \in Int /\ u[i] \in Int
      /\ s[k] \in Int /\ t[k] \in Int /\ u[k] \in Int
  BY DEF IsKey
<1>4. CASE i <= k
  <2>1. s[i] < u[i]
    BY <1>1, <1>2, <1>3, <1>4
  <2>2. \A j \in 1 .. i - 1 : s[j] = u[j]
    BY <1>1, <1>2, <1>4
  <2> QED
    BY <2>1, <2>2 DEF LexLess, IsKey
<1>5. CASE k < i
  <2>1. s[k] < u[k]
    BY <1>1, <1>2, <1>3, <1>5
  <2>2. \A j \in 1 .. k - 1 : s[j] = u[j]
    BY <1>1, <1>2, <1>5
  <2> QED
    BY <2>1, <2>2 DEF LexLess, IsKey
<1> QED
  BY <1>4, <1>5

LEMMA LexTotal ==
  ASSUME NEW n \in Nat, NEW s, NEW t, IsKey(s, n), IsKey(t, n), Differ(s, t, n)
  PROVE  LexLess(s, t) \/ LexLess(t, s)
<1> DEFINE T == {i \in 1 .. n : s[i] # t[i]}
<1>1. T \subseteq Nat /\ T # {}
  BY DEF Differ
<1>2. PICK i \in T : \A j \in T : i <= j
  BY <1>1, LeastNumber
<1>3. i \in 1 .. n /\ s[i] # t[i] /\ \A j \in 1 .. i - 1 : s[j] = t[j]
  BY <1>2
<1>4. s[i] \in Int /\ t[i] \in Int
  BY <1>3 DEF IsKey
<1>5. s[i] < t[i] \/ t[i] < s[i]
  BY <1>3, <1>4
<1> QED
  BY <1>3, <1>5 DEF LexLess, IsKey

LEMMA LexSelf ==
  ASSUME NEW n \in Nat, NEW s, IsKey(s, n)
  PROVE  ~LexLess(s, s)
  BY DEF LexLess, IsKey

LEMMA LexNotLess ==
  ASSUME NEW n \in Nat, NEW s, NEW t, NEW u, IsKey(s, n), IsKey(t, n), IsKey(u, n),
         ~LexLess(t, s), ~LexLess(u, t)
  PROVE  ~LexLess(u, s)
<1> SUFFICES ASSUME LexLess(u, s) PROVE FALSE
  OBVIOUS
<1>1. CASE Differ(s, t, n)
  <2>1. LexLess(s, t)
    BY <1>1, LexTotal
  <2> QED
    BY <2>1, LexTransitive
<1>2. CASE ~Differ(s, t, n)
  <2>1. \A i \in 1 .. n : s[i] = t[i]
    BY <1>2 DEF Differ
  <2>2. PICK i \in 1 .. n : u[i] < s[i] /\ \A j \in 1 .. i - 1 : u[j] = s[j]
    BY DEF LexLess, IsKey
  <2>3. u[i] < t[i] /\ \A j \in 1 .. i - 1 : u[j] = t[j]
    BY <2>1, <2>2
  <2> QED
    BY <2>2, <2>3 DEF LexLess, IsKey
<1> QED
  BY <1>1, <1>2

LEMMA FirstOf ==
  ASSUME NEW key, NEW n \in Nat, IsFiniteSet(DOMAIN key), DOMAIN key # {},
         \A c \in DOMAIN key : IsKey(key[c], n)
  PROVE  /\ FirstBy(key) \in DOMAIN key
         /\ \A c \in DOMAIN key : ~LexLess(key[c], key[FirstBy(key)])
<1> DEFINE S == DOMAIN key
<1>1. PICK R : R = {p \in S \X S : ~LexLess(key[p[2]], key[p[1]])}
  OBVIOUS
<1>2. \A c, d \in S : <<c, d>> \in R <=> ~LexLess(key[d], key[c])
  BY <1>1
<1> HIDE DEF S
<1>3. ASSUME NEW c \in S, NEW d \in S, NEW e \in S, <<c, d>> \in R, <<d, e>> \in R
      PROVE  <<c, e>> \in R
  <2>1. ~LexLess(key[d], key[c]) /\ ~LexLess(key[e], key[d])
    BY <1>2, <1>3
  <2>2. ~LexLess(key[e], key[c])
    BY <2>1, LexNotLess DEF S
  <2> QED
    BY <1>2, <2>2
<1>4. ASSUME NEW c \in S, NEW d \in S, c # d
      PROVE  <<c, d>> \in R \/ <<d, c>> \in R
  <2>1. ~(LexLess(key[c], key[d]) /\ LexLess(key[d], key[c]))
    BY LexTransitive, LexSelf DEF S
  <2> QED
    BY <1>2, <2>1
<1>5. Orders(R, S)
  BY <1>3, <1>4 DEF Orders
<1>6. HasFirst(R, S)
  BY <1>5, FiniteFirst DEF S
<1>7. PICK c \in S : \A d \in S \ {c} : <<c, d>> \in R
  BY <1>6 DEF HasFirst
<1>8. \A d \in S : ~LexLess(key[d], key[c])
  BY <1>2, <1>7, LexSelf DEF S
<1> QED
  BY <1>8 DEF FirstBy, S

LEMMA InsertionPlaced ==
  ASSUME NEW p, IsLayer(p), NEW turn, NEW pl \in InsertionPosition(p, turn)
  PROVE  IsPlaced(pl)
<1> DEFINE cx == PalletLength \div 2
           cy == PalletWidth \div 2
           boxes == {Box(p.at[i]) : i \in DOMAIN p.at}
           lefts == {b.left - Clearance - HalfX(turn) : b \in boxes}
           rights == {b.right + Clearance + HalfX(turn) : b \in boxes}
           bottoms == {b.bottom - Clearance - HalfY(turn) : b \in boxes}
           tops == {b.top + Clearance + HalfY(turn) : b \in boxes}
           xs == {cx, HalfX(turn), PalletLength - HalfX(turn)} \cup lefts \cup rights
           ys == {cy, HalfY(turn), PalletWidth - HalfY(turn)} \cup bottoms \cup tops
           At(c) == [x |-> c[1], y |-> c[2], turn |-> turn, label |-> NoLabel, grip |-> NoGrip]
           free == {c \in xs \X ys :
                      /\ ProtrusionMeasure(Box(At(c))) = 0
                      /\ \A i \in DOMAIN p.at :
                           ~BoxesMeet(ClearanceBox(At(c)), ClearanceBox(p.at[i]))}
           key == [c \in free |->
                     <<(c[1] - cx) * (c[1] - cx) + (c[2] - cy) * (c[2] - cy), c[2], c[1]>>]
<1>1. free # {} /\ pl = At(FirstBy(key))
  BY DEF InsertionPosition
<1>2. IsFiniteSet(boxes) /\ \A b \in boxes : IsBox(b)
  BY BoxesFinite DEF IsLayer
<1> HIDE DEF boxes
<1>3. Clearance \in Int /\ cx \in Int /\ cy \in Int
  BY PatternAssumption
<1>4. xs \subseteq Int /\ ys \subseteq Int
  BY <1>2, <1>3, Halves DEF IsBox
<1>5. IsFiniteSet(lefts) /\ IsFiniteSet(rights) /\ IsFiniteSet(bottoms) /\ IsFiniteSet(tops)
  <2> DEFINE l == [b \in boxes |-> b.left - Clearance - HalfX(turn)]
             r == [b \in boxes |-> b.right + Clearance + HalfX(turn)]
             d == [b \in boxes |-> b.bottom - Clearance - HalfY(turn)]
             u == [b \in boxes |-> b.top + Clearance + HalfY(turn)]
  <2>1. /\ IsFiniteSet({l[b] : b \in boxes}) /\ IsFiniteSet({r[b] : b \in boxes})
        /\ IsFiniteSet({d[b] : b \in boxes}) /\ IsFiniteSet({u[b] : b \in boxes})
    BY <1>2, ImageFinite, Zenon
  <2>2. /\ {l[b] : b \in boxes} = lefts /\ {r[b] : b \in boxes} = rights
        /\ {d[b] : b \in boxes} = bottoms /\ {u[b] : b \in boxes} = tops
    OBVIOUS
  <2> QED
    BY <2>1, <2>2
<1> HIDE DEF lefts, rights, bottoms, tops, cx, cy
<1>6. IsFiniteSet(xs) /\ IsFiniteSet(ys)
  <2>1. ASSUME NEW a, NEW b, NEW c PROVE IsFiniteSet({a, b, c})
    <3>1. IsFiniteSet({} \cup {a}) 
      BY FS_EmptySet, FS_AddElement
    <3>2. IsFiniteSet({} \cup {a} \cup {b})
      BY <3>1, FS_AddElement
    <3>3. IsFiniteSet({} \cup {a} \cup {b} \cup {c})
      BY <3>2, FS_AddElement
    <3>4. {} \cup {a} \cup {b} \cup {c} = {a, b, c}
      OBVIOUS
    <3> QED
      BY <3>3, <3>4
  <2>2. /\ IsFiniteSet({cx, HalfX(turn), PalletLength - HalfX(turn)})
        /\ IsFiniteSet({cy, HalfY(turn), PalletWidth - HalfY(turn)})
    BY <2>1
  <2> QED
    BY <1>5, <2>2, FS_Union
<1> HIDE DEF xs, ys
<1>7. IsFiniteSet(free)
  <2>1. IsFiniteSet(xs \X ys)
    BY <1>6, FS_Product
  <2> QED
    BY <2>1, FS_Subset
<1>8. ASSUME NEW c \in free
      PROVE  c[1] \in Int /\ c[2] \in Int /\ c = <<c[1], c[2]>>
  <2>1. c \in xs \X ys
    OBVIOUS
  <2>2. c[1] \in xs /\ c[2] \in ys /\ c = <<c[1], c[2]>>
    BY <2>1
  <2> QED
    BY <1>4, <2>2
<1> HIDE DEF free, At
<1>9. ASSUME NEW c \in free PROVE IsKey(key[c], 3)
  <2>1. /\ (c[1] - cx) * (c[1] - cx) + (c[2] - cy) * (c[2] - cy) \in Int
        /\ c[1] \in Int /\ c[2] \in Int
    BY <1>3, <1>8
  <2> QED
    BY <2>1 DEF IsKey
<1>10. DOMAIN key = free
  OBVIOUS
<1> HIDE DEF key
<1>11. FirstBy(key) \in free
  BY <1>1, <1>7, <1>9, <1>10, FirstOf
<1> QED
  BY <1>1, <1>8, <1>11 DEF At, IsPlaced

-----------------------------------------------------------------------------
(* Offsets derived for an order lean on grips placed before.               *)

LEMMA NearestGapInt ==
  ASSUME NEW Boxes, NEW g, NEW axis, NEW d, NearestInDirection(Boxes, g, axis, d) # {}
  PROVE  NearestGap(Boxes, g, axis, d) \in Int
<1> DEFINE gaps == [h \in (DOMAIN Boxes) \ {g} |-> Gaps(Boxes, g, h, axis, d)]
           all == UNION {Gaps(Boxes, g, h, axis, d) : h \in (DOMAIN Boxes) \ {g}}
<1>1. \A h : Gaps(Boxes, g, h, axis, d) \subseteq Nat
  BY DEF Gaps
<1>2. NearestInDirection(Boxes, g, axis, d) = Nearest(gaps)
  BY DEF NearestInDirection
<1>3. PICK h \in DOMAIN gaps : \E n \in gaps[h] : TRUE
  <2> HIDE DEF gaps
  <2> QED
    BY <1>2 DEF Nearest
<1>4. all # {} /\ all \subseteq Nat
  BY <1>1, <1>3
<1>5. NearestGap(Boxes, g, axis, d) = Min(all)
  BY DEF NearestGap
<1> HIDE DEF all
<1>6. \E n \in all : \A m \in all : n <= m
  BY <1>4, LeastNumber
<1>7. Min(all) \in all
  BY <1>6 DEF Min
<1>8. \A n \in all : n \in Int
  BY <1>4
<1> QED
  BY <1>5, <1>7, <1>8

\* The sides s that the grip at i leans on have nothing but grips before it.
LeansOnEarlier(Boxes, order, i, s) ==
  LET earlier == {order[k] : k \in 1 .. i - 1}
  IN /\ s[1] \in {-1, 0, 1} /\ s[2] \in {-1, 0, 1}
     /\ s[1] # 0 => NearestInDirection(Boxes, order[i], "x", s[1]) \subseteq earlier
     /\ s[2] # 0 => NearestInDirection(Boxes, order[i], "y", s[2]) \subseteq earlier

LEMMA DerivedLeansOnEarlier ==
  ASSUME NEW Boxes, NEW order, NEW i
  PROVE  \E s : /\ DerivedDelta(Boxes, order, i) = Away(s)
               /\ LeansOnEarlier(Boxes, order, i, s)
<1> DEFINE g == order[i]
           earlier == {order[k] : k \in 1 .. i - 1}
           placed == UNION {Boxes[h] : h \in earlier}
           Usable(axis) ==
             {d \in Directions :
                NearestInDirection(Boxes, g, axis, d) \in (SUBSET earlier) \ {{}}} \cup {0}
           Gap(axis, d) == IF d = 0 THEN 0 ELSE NearestGap(Boxes, g, axis, d)
           Key(s) == <<Cardinality({k \in DOMAIN s : s[k] = 0}),
                       Gap("x", s[1]) + Gap("y", s[2]), -s[1], s[2]>>
           clear == {s \in Usable("x") \X Usable("y") :
                       \/ s = <<0, 0>>
                       \/ ApproachIsClear(Boxes[g], placed, [x |-> s[1], y |-> s[2]])}
           key == [s \in clear |-> Key(s)]
<1>1. DerivedDelta(Boxes, order, i) = Away(FirstBy(key))
  BY DEF DerivedDelta
<1>2. ASSUME NEW axis, NEW d \in Usable(axis)
      PROVE  /\ d \in {-1, 0, 1} /\ Gap(axis, d) \in Int
             /\ d # 0 => NearestInDirection(Boxes, g, axis, d) \subseteq earlier
  <2> HIDE DEF g, earlier
  <2>1. CASE d = 0
    BY <2>1
  <2>2. CASE d # 0
    <3>1. /\ d \in Directions
          /\ NearestInDirection(Boxes, g, axis, d) \in (SUBSET earlier) \ {{}}
      BY <2>2
    <3>2. NearestGap(Boxes, g, axis, d) \in Int
      BY <3>1, NearestGapInt
    <3> QED
      BY <2>2, <3>1, <3>2 DEF Directions
  <2> QED
    BY <2>1, <2>2
<1>3. 0 \in Usable("x") /\ 0 \in Usable("y")
  OBVIOUS
<1> HIDE DEF g, earlier, placed, Usable, Gap
<1>4. IsFiniteSet(clear)
  <2>1. IsFiniteSet({-1, 0, 1})
    <3>1. {-1, 0, 1} = (({} \cup {-1}) \cup {0}) \cup {1}
      OBVIOUS
    <3>2. IsFiniteSet((({} \cup {-1}) \cup {0}) \cup {1})
      BY FS_EmptySet, FS_AddElement, Zenon
    <3> QED
      BY <3>1, <3>2
  <2>2. IsFiniteSet({-1, 0, 1} \X {-1, 0, 1})
    BY <2>1, FS_Product
  <2>3. clear \in SUBSET ({-1, 0, 1} \X {-1, 0, 1})
    BY <1>2
  <2> HIDE DEF clear
  <2> QED
    BY <2>2, <2>3, FS_Subset
<1>5. clear # {}
  BY <1>3
<1>6. ASSUME NEW s \in clear
      PROVE  /\ IsKey(Key(s), 4) /\ s = <<s[1], s[2]>>
             /\ s[1] \in Usable("x") /\ s[2] \in Usable("y")
  <2>1. s = <<s[1], s[2]>> /\ s[1] \in Usable("x") /\ s[2] \in Usable("y")
    OBVIOUS
  <2>2. /\ s[1] \in {-1, 0, 1} /\ Gap("x", s[1]) \in Int
        /\ s[2] \in {-1, 0, 1} /\ Gap("y", s[2]) \in Int
    BY <1>2, <2>1
  <2>3. Cardinality({k \in DOMAIN s : s[k] = 0}) \in Int
    <3>1. {k \in DOMAIN s : s[k] = 0} \in SUBSET (({} \cup {1}) \cup {2})
      BY <2>1
    <3>2. IsFiniteSet(({} \cup {1}) \cup {2})
      BY FS_EmptySet, FS_AddElement, Zenon
    <3>3. IsFiniteSet({k \in DOMAIN s : s[k] = 0})
      BY <3>1, <3>2, FS_Subset
    <3> QED
      BY <3>3, FS_CardinalityType
  <2>4. ASSUME NEW a \in Int, NEW b \in Int, NEW c \in Int, NEW d \in Int
        PROVE  IsKey(<<a, b, c, d>>, 4)
    <3>1. DOMAIN <<a, b, c, d>> = 1 .. 4
      OBVIOUS
    <3>2. \A k \in 1 .. 4 : k = 1 \/ k = 2 \/ k = 3 \/ k = 4
      OBVIOUS
    <3> QED
      BY <3>1, <3>2 DEF IsKey
  <2>5. Gap("x", s[1]) + Gap("y", s[2]) \in Int /\ -s[1] \in Int /\ s[2] \in Int
    BY <2>2
  <2>6. IsKey(Key(s), 4)
    BY <2>3, <2>4, <2>5
  <2> QED
    BY <2>1, <2>6
<1>7. FirstBy(key) \in clear
  <2>1. DOMAIN key = clear /\ \A s \in clear : key[s] = Key(s)
    OBVIOUS
  <2> HIDE DEF key, clear, Key
  <2> QED
    BY <1>4, <1>5, <1>6, <2>1, FirstOf
<1> DEFINE s == FirstBy(key)
<1>8. s[1] \in Usable("x") /\ s[2] \in Usable("y")
  BY <1>6, <1>7
<1> HIDE DEF key, s
<1>9. /\ s[1] \in {-1, 0, 1} /\ s[2] \in {-1, 0, 1}
      /\ s[1] # 0 => NearestInDirection(Boxes, g, "x", s[1]) \subseteq earlier
      /\ s[2] # 0 => NearestInDirection(Boxes, g, "y", s[2]) \subseteq earlier
  BY <1>2, <1>8
<1> QED
  BY <1>1, <1>9 DEF s, g, earlier, LeansOnEarlier

\* deriveGripDeltasForPlacementOrder and the dependencies inferred from what it
\* derives agree: on any layer, in any order in which each grip stands once.
LEMMA DerivedAgree ==
  ASSUME NEW Boxes, NEW order, IsSeq(order), Distinct(order), DOMAIN Boxes = ToSet(order)
  PROVE  IsLinearExtension(order, DeltaDependencies(Boxes, DerivedDeltas(Boxes, order)))
<1> DEFINE D == DerivedDeltas(Boxes, order)
<1> SUFFICES ASSUME NEW i \in DOMAIN order, NEW j \in DOMAIN order,
                    <<order[i], order[j]>> \in DeltaDependencies(Boxes, D)
             PROVE  i < j
  BY DEF IsLinearExtension
<1>1. DOMAIN order = 1 .. Len(order) /\ Len(order) \in Nat
  BY IsSeqFacts
<1>2. order[i] \in References(Boxes, order[j], D[order[j]])
  BY DEF DeltaDependencies
<1>3. D[order[j]] = DerivedDelta(Boxes, order, j)
  <2>1. order[j] \in ToSet(order)
    BY DEF ToSet
  <2>2. (CHOOSE k \in DOMAIN order : order[k] = order[j]) = j
    BY DEF Distinct
  <2> QED
    BY <2>1, <2>2 DEF DerivedDeltas
<1>4. PICK s : DerivedDelta(Boxes, order, j) = Away(s) /\ LeansOnEarlier(Boxes, order, j, s)
  BY DerivedLeansOnEarlier
<1> HIDE DEF D
<1>5. D[order[j]]["x"] = -s[1] /\ D[order[j]]["y"] = -s[2]
  BY <1>3, <1>4 DEF Away
<1>6. PICK axis \in Axes : /\ D[order[j]][axis] # 0
                           /\ order[i] \in NearestInDirection(Boxes, order[j], axis,
                                                              -D[order[j]][axis])
  BY <1>2 DEF References
<1>7. order[i] \in {order[k] : k \in 1 .. j - 1}
  <2>1. CASE axis = "x"
    <3>1. s[1] # 0 /\ -(-s[1]) = s[1]
      BY <1>4, <1>5, <1>6, <2>1 DEF LeansOnEarlier
    <3> QED
      BY <1>4, <1>5, <1>6, <2>1, <3>1 DEF LeansOnEarlier
  <2>2. CASE axis = "y"
    <3>1. s[2] # 0 /\ -(-s[2]) = s[2]
      BY <1>4, <1>5, <1>6, <2>2 DEF LeansOnEarlier
    <3> QED
      BY <1>4, <1>5, <1>6, <2>2, <3>1 DEF LeansOnEarlier
  <2> QED
    BY <1>6, <2>1, <2>2 DEF Axes
<1>8. PICK k \in 1 .. j - 1 : order[k] = order[i]
  BY <1>7
<1>9. k \in DOMAIN order /\ k < j
  BY <1>1
<1>10. k = i
  BY <1>8, <1>9 DEF Distinct
<1> QED
  BY <1>9, <1>10

\* So they agree in every pattern that can be placed.
LEMMA PlaceableAgrees ==
  ASSUME IsSeq(pattern.grips), OrderPlaceable
  PROVE  DeltasAgree
<1> DEFINE order == IdSeq(pattern.grips)
           Boxes == GripBoxes(pattern.at, Ids(pattern.grips))
<1>1. /\ IsSeq(order) /\ Len(order) = Len(pattern.grips)
      /\ ToSet(order) = Ids(pattern.grips)
  BY IdSeqIsSeq
<1>2. Distinct(order)
  BY <1>1, RangeOf DEF OrderPlaceable, Placeable
<1>3. DOMAIN Boxes = ToSet(order)
  BY <1>1 DEF GripBoxes
<1> HIDE DEF order, Boxes
<1>4. IsLinearExtension(order, DeltaDependencies(Boxes, DerivedDeltas(Boxes, order)))
  BY <1>1, <1>2, <1>3, DerivedAgree
<1> QED
  BY <1>4 DEF DeltasAgree, order, Boxes

-----------------------------------------------------------------------------
(* Grips are made, split, merged and ordered where the packages are.       *)

LEMMA Regripped ==
  ASSUME NEW p, IsLayer(p), NEW at,
         at = [i \in DOMAIN p.at |-> at[i]],
         \A i \in DOMAIN p.at : at[i] = p.at[i] \/ \E g : at[i] = [p.at[i] EXCEPT !.grip = g]
  PROVE  Still(p, [p EXCEPT !.at = at])
<1>1. IsLying(p.at)
  BY DEF IsLayer
<1>2. IsLying(at) /\ SamePlaces(p.at, at)
  BY <1>1, Untouched
<1>3. ASSUME NEW q, q = [p EXCEPT !.at = at] PROVE IsLayer(q) /\ q.at = at
  BY <1>2, <1>3 DEF IsLayer, IsRecord
<1> QED
  BY <1>2, <1>3 DEF Still

LEMMA StillTwice ==
  ASSUME NEW p, NEW q, NEW r, Still(p, q), Still(q, r)
  PROVE  Still(p, r)
  BY SameTwice DEF Still

LEMMA StillBesides ==
  ASSUME NEW p, NEW q, NEW r, Still(p, q), NEW g, NEW e,
         \/ IsSeq(g) /\ r = [q EXCEPT !.grips = g]
         \/ r = [q EXCEPT !.explicit = e]
         \/ IsSeq(g) /\ r = [q EXCEPT !.grips = g, !.explicit = e]
  PROVE  Still(p, r)
<1>1. IsLayer(r) /\ r.at = q.at
  BY LayerBesides DEF Still
<1> QED
  BY <1>1 DEF Still

LEMMA CreatedGroupStill ==
  ASSUME NEW p, IsLayer(p), NEW S, NEW affected
  PROVE  Still(p, CreatedGroup(p, S, affected))
<1> DEFINE id == FreshId(Ids(p.grips) \ affected, S)
           removed == {g \in affected : Members(p.at, g) \subseteq S}
           at == [i \in DOMAIN p.at |-> IF i \in S THEN [p.at[i] EXCEPT !.grip = id]
                                                   ELSE p.at[i]]
           q == [p EXCEPT !.at = at]
           g == Replace(q.grips, removed, <<NewGrip(p.at, id, S)>>)
           e == {d \in {<<IF b[1] \in removed THEN id ELSE b[1],
                          IF b[2] \in removed THEN id ELSE b[2]>> : b \in q.explicit} :
                   d[1] # d[2]}
           r == CreatedGroup(p, S, affected)
<1>1. r = p \/ r = [q EXCEPT !.grips = g, !.explicit = e]
  BY DEF CreatedGroup, WithPlacements, Remap
<1>2. at = [i \in DOMAIN p.at |-> at[i]]
  OBVIOUS
<1>3. \A i \in DOMAIN p.at : at[i] = p.at[i] \/ \E h : at[i] = [p.at[i] EXCEPT !.grip = h]
  OBVIOUS
<1> HIDE DEF id, removed, at, e, r
<1>4. Still(p, q)
  BY <1>2, <1>3, Regripped
<1> HIDE DEF q
<1>5. IsSeq(g)
  <2>1. IsSeq(q.grips)
    BY <1>4 DEF Still, IsLayer
  <2> QED
    BY <2>1, OneIsSeq, ReplaceIsSeq
<1> HIDE DEF g
<1>6. Still(p, r)
  BY <1>1, <1>4, <1>5, StillItself, StillBesides
<1> QED
  BY <1>6 DEF r

LEMMA CreateGroupStays ==
  ASSUME NEW p, IsLayer(p), NEW S, NEW c \in CreateGroup(p, S)
  PROVE  IsChange(p, c)
<1>1. c = Change(CreatedGroup(p, S, Affected(p, S)))
  BY DEF CreateGroup
<1>2. Still(p, CreatedGroup(p, S, Affected(p, S)))
  BY CreatedGroupStill
<1> QED
  BY <1>1, <1>2, StillChange, Zenon DEF Still

LEMMA InsertPlacementLays ==
  ASSUME NEW p, IsLayer(p), NEW i \in Packages, NEW turn,
         NEW c \in InsertPlacement(p, i, turn)
  PROVE  IsChange(p, c)
<1>1. PICK pl \in InsertionPosition(p, turn) :
        LET With == [p EXCEPT !.at = [j \in {i} \cup DOMAIN p.at |->
                                        IF j = i THEN pl ELSE p.at[j]]]
        IN c = Move(IF p.grips = <<>> THEN With ELSE CreatedGroup(With, {i}, {}))
  BY DEF InsertPlacement
<1> DEFINE at == [j \in {i} \cup DOMAIN p.at |-> IF j = i THEN pl ELSE p.at[j]]
           q == [p EXCEPT !.at = at]
<1>2. IsPlaced(pl)
  BY InsertionPlaced
<1>3. IsLying(at)
  BY <1>2 DEF IsLying, IsLayer
<1>4. c = Move(q) \/ c = Move(CreatedGroup(q, {i}, {}))
  BY <1>1
<1> HIDE DEF at
<1>5. IsLayer(q)
  BY <1>3, LayerWith, Zenon
<1> HIDE DEF q
<1>6. IsLayer(CreatedGroup(q, {i}, {}))
  BY <1>5, CreatedGroupStill DEF Still
<1> QED
  BY <1>4, <1>5, <1>6, MoveChange, Zenon

LEMMA RemoveGroupStays ==
  ASSUME NEW p, IsLayer(p), NEW id
  PROVE  IsChange(p, RemoveGroup(p, id))
<1> DEFINE S == Members(p.at, id)
           at == [i \in DOMAIN p.at |-> IF i \in S THEN [p.at[i] EXCEPT !.grip = NoGrip]
                                                   ELSE p.at[i]]
           q == [p EXCEPT !.at = at]
           g == Sublist(q.grips, {i \in DOMAIN q.grips : q.grips[i].id # id})
           e == {d \in q.explicit : id \notin {d[1], d[2]}}
           r == [q EXCEPT !.grips = g, !.explicit = e]
<1>1. RemoveGroup(p, id) = Change(r)
  BY DEF RemoveGroup, WithPlacements
<1>2. at = [i \in DOMAIN p.at |-> at[i]]
  OBVIOUS
<1>3. \A i \in DOMAIN p.at : at[i] = p.at[i] \/ \E h : at[i] = [p.at[i] EXCEPT !.grip = h]
  OBVIOUS
<1> HIDE DEF S, at, e
<1>4. Still(p, q)
  BY <1>2, <1>3, Regripped
<1> HIDE DEF q
<1>5. IsSeq(g)
  <2>1. IsSeq(q.grips)
    BY <1>4 DEF Still, IsLayer
  <2> QED
    BY <2>1, SublistIsSeq
<1> HIDE DEF g
<1>6. Still(p, r)
  BY <1>4, <1>5, StillBesides
<1> QED
  BY <1>1, <1>6, StillChange, Zenon DEF Still

LEMMA SplitGroupStays ==
  ASSUME NEW p, IsLayer(p), NEW id
  PROVE  IsChange(p, SplitGroup(p, id))
<1>1. ASSUME NEW parts, IsSeq(parts) PROVE Still(p, SplitInto(p, id, parts))
  <2> DEFINE Part(i) == CHOOSE h \in Ids(parts) : h.of = {i}
             at == [i \in DOMAIN p.at |-> IF p.at[i].grip = id
                                          THEN [p.at[i] EXCEPT !.grip = Part(i)]
                                          ELSE p.at[i]]
             g == Replace(p.grips, {id}, parts)
             e == Inherited(p.explicit, id, IdSeq(parts))
             q == SplitInto(p, id, parts)
             r == [p EXCEPT !.at = at]
  <2>1. q = [r EXCEPT !.grips = g, !.explicit = e]
    BY DEF SplitInto
  <2> HIDE DEF Part
  <2>2. at = [i \in DOMAIN p.at |-> at[i]]
    OBVIOUS
  <2>3. \A i \in DOMAIN p.at : at[i] = p.at[i] \/ \E h : at[i] = [p.at[i] EXCEPT !.grip = h]
    OBVIOUS
  <2>4. IsSeq(g)
    <3>1. IsSeq(p.grips)
      BY DEF IsLayer
    <3> QED
      BY <1>1, <3>1, ReplaceIsSeq
  <2> HIDE DEF at, g, e, q
  <2>5. Still(p, r)
    BY <2>2, <2>3, Regripped
  <2> HIDE DEF r
  <2>6. Still(p, q)
    BY <2>1, <2>4, <2>5, StillBesides
  <2> QED
    BY <2>6 DEF q
<1>2. \E parts : /\ IsSeq(parts)
                  /\ SplitGroup(p, id) \in {Change(p), Change(SplitInto(p, id, parts))}
  <2> DEFINE key == [i \in Members(p.at, id) |-> <<i>>]
             alone == SortedBy(key)
             Fresh(i) == FreshId(Ids(p.grips) \ {id}, {i})
             parts == [k \in DOMAIN alone |->
                         IF k = 1 THEN [id |-> Fresh(alone[1]), delta |-> GripOf(p.grips, id).delta]
                         ELSE NewGrip(p.at, Fresh(alone[k]), {alone[k]})]
  <2>1. SplitGroup(p, id) \in {Change(p), Change(SplitInto(p, id, parts))}
    BY DEF SplitGroup
  <2>2. IsFiniteSet(DOMAIN key)
    <3>1. DOMAIN key \in SUBSET DOMAIN p.at
      BY DEF Members
    <3>2. IsFiniteSet(DOMAIN p.at)
      BY PatternAssumption, FS_Subset DEF IsLayer, IsLying
    <3> QED
      BY <3>1, <3>2, FS_Subset
  <2> HIDE DEF key
  <2>3. IsSeq(alone)
    BY <2>2, FS_CardinalityType, SortedIsSeq
  <2>4. parts = [k \in DOMAIN alone |-> parts[k]]
    OBVIOUS
  <2> HIDE DEF alone, parts
  <2>5. IsSeq(parts)
    BY <2>3, <2>4, MappedOver
  <2> QED
    BY <2>1, <2>5
<1>3. PICK parts : /\ IsSeq(parts)
                   /\ SplitGroup(p, id) \in {Change(p), Change(SplitInto(p, id, parts))}
  BY <1>2
<1> QED
  BY <1>1, <1>3, StillItself, StillChange, Zenon DEF Still

LEMMA MergeGroupsStays ==
  ASSUME NEW p, IsLayer(p), NEW ids, NEW c \in MergeGroups(p, ids)
  PROVE  IsChange(p, c)
<1>1. ASSUME NEW S, NEW first PROVE Still(p, MergedInto(p, ids, S, first))
  <2> DEFINE at == [i \in DOMAIN p.at |-> IF i \in S THEN [p.at[i] EXCEPT !.grip = first.id]
                                                     ELSE p.at[i]]
             q == [p EXCEPT !.at = at]
             g == Replace(q.grips, ids, <<first>>)
             e == {d \in {<<IF b[1] \in ids THEN first.id ELSE b[1],
                            IF b[2] \in ids THEN first.id ELSE b[2]>> : b \in q.explicit} :
                     d[1] # d[2]}
             r == MergedInto(p, ids, S, first)
  <2>1. r = [q EXCEPT !.grips = g, !.explicit = e]
    BY DEF MergedInto, WithPlacements, Remap
  <2>2. at = [i \in DOMAIN p.at |-> at[i]]
    OBVIOUS
  <2>3. \A i \in DOMAIN p.at : at[i] = p.at[i] \/ \E h : at[i] = [p.at[i] EXCEPT !.grip = h]
    OBVIOUS
  <2> HIDE DEF at, e, r
  <2>4. Still(p, q)
    BY <2>2, <2>3, Regripped
  <2> HIDE DEF q
  <2>5. IsSeq(g)
    <3>1. IsSeq(q.grips)
      BY <2>4 DEF Still, IsLayer
    <3> QED
      BY <3>1, OneIsSeq, ReplaceIsSeq
  <2> HIDE DEF g
  <2>6. Still(p, r)
    BY <2>1, <2>4, <2>5, StillBesides
  <2> QED
    BY <2>6 DEF r
<1>2. \E S, first : c = Change(MergedInto(p, ids, S, first))
  BY DEF MergeGroups
<1>3. PICK S, first : c = Change(MergedInto(p, ids, S, first))
  BY <1>2
<1> QED
  BY <1>1, <1>3, StillChange, Zenon DEF Still

LEMMA InOrderStays ==
  ASSUME NEW p, IsLayer(p), NEW order, IsSeq(order), NEW c \in InOrder(p, order)
  PROVE  IsChange(p, c)
<1> DEFINE g == [i \in DOMAIN order |-> GripOf(p.grips, order[i])]
           q == [p EXCEPT !.grips = g]
<1>1. c = Change(q)
  BY DEF InOrder
<1>2. g = [i \in DOMAIN order |-> g[i]]
  OBVIOUS
<1> HIDE DEF g
<1>3. IsSeq(g)
  BY <1>2, MappedOver
<1>4. Still(p, q)
  BY <1>3, StillItself, StillBesides, Zenon
<1> QED
  BY <1>1, <1>4, StillChange, Zenon DEF Still

LEMMA ReorderedIsSeq ==
  ASSUME NEW order, IsSeq(order), NEW id, NEW k \in Int
  PROVE  IsSeq(Reordered(order, id, k))
<1> DEFINE others == Sublist(order, {i \in DOMAIN order : order[i] # id})
<1>1. Reordered(order, id, k)
        = SubSeq(others, 1, k - 1) \o <<id>> \o SubSeq(others, k, Len(others))
  BY DEF Reordered
<1>2. IsSeq(others)
  BY SublistIsSeq
<1> HIDE DEF others
<1>3. Len(others) \in Int
  BY <1>2, IsSeqFacts
<1>4. IsSeq(SubSeq(others, 1, k - 1)) /\ IsSeq(SubSeq(others, k, Len(others)))
  BY <1>3, StretchIsSeq
<1>5. IsSeq(SubSeq(others, 1, k - 1) \o <<id>>)
  BY <1>4, OneIsSeq, JoinedIsSeq
<1> QED
  BY <1>1, <1>4, <1>5, JoinedIsSeq

LEMMA SuggestedIsSeq ==
  ASSUME NEW p, IsLayer(p)
  PROVE  IsSeq(SuggestedOrder(p))
<1> DEFINE Boxes == GripBoxes(p.at, Ids(p.grips))
           place == [g \in Ids(p.grips) |-> Min({i \in DOMAIN p.grips : p.grips[i].id = g})]
           rows == LayerRowOrder(Boxes, [i \in DOMAIN p.at |-> Box(p.at[i])], place)
<1>1. IsFiniteSet(DOMAIN Boxes)
  <2>1. DOMAIN Boxes = ToSet(IdSeq(p.grips)) /\ IsSeq(IdSeq(p.grips))
    BY IdSeqIsSeq DEF GripBoxes, IsLayer
  <2> HIDE DEF Boxes
  <2> QED
    BY <2>1, RangeOf
<1>2. SuggestedOrder(p) = OrderByDependencies(rows, p.explicit \cup Inferred(p.at, p.grips))
  BY DEF SuggestedOrder
<1> HIDE DEF Boxes, place
<1>3. IsSeq(rows)
  BY <1>1, RowsAreSeq
<1> HIDE DEF rows
<1> QED
  BY <1>2, <1>3, OrderIsSeq

LEMMA DependenciesStay ==
  ASSUME NEW p, IsLayer(p), NEW g, NEW h,
         NEW c \in AddOrderDependency(p, g, h) \cup RemoveOrderDependency(p, g, h)
  PROVE  IsChange(p, c)
<1>1. \E e : c = Change([p EXCEPT !.explicit = e])
  BY DEF AddOrderDependency, RemoveOrderDependency
<1>2. PICK e : c = Change([p EXCEPT !.explicit = e])
  BY <1>1
<1>3. Still(p, [p EXCEPT !.explicit = e])
  BY StillItself, StillBesides, Zenon
<1> QED
  BY <1>2, <1>3, StillChange, Zenon DEF Still

LEMMA RecalculateGroupsLays ==
  ASSUME NEW p, IsLayer(p), NEW c \in RecalculateGroups(p)
  PROVE  IsChange(p, c)
<1> DEFINE Bare(at) == [p EXCEPT !.grips = <<>>, !.explicit = {},
                                 !.at = [i \in DOMAIN at |-> [at[i] EXCEPT !.grip = NoGrip]]]
<1>1. PICK at \in Slid(p.at) : c = [Move(EnsureGroups(Bare(at))) EXCEPT !.anew = TRUE]
  BY DEF RecalculateGroups
<1>2. IsLying(at)
  <2>1. IsLying(p.at) /\ Length \in Int
    BY PatternAssumption DEF IsLayer
  <2>2. ASSUME NEW i \in DOMAIN p.at, NEW d \in (-Length) .. Length,
               \/ at = [p.at EXCEPT ![i].x = @ + d]
               \/ at = [p.at EXCEPT ![i].y = @ + d]
        PROVE  IsLying(at)
    <3> DEFINE right == [p.at[i] EXCEPT !.x = @ + d]
               up == [p.at[i] EXCEPT !.y = @ + d]
    <3>1. IsPlaced(p.at[i]) /\ d \in Int
      BY <2>1 DEF IsLying
    <3>2. IsPlaced(right) /\ IsPlaced(up)
      BY <3>1 DEF IsPlaced
    <3> HIDE DEF Bare
    <3>3. \/ at = [p.at EXCEPT ![i] = right]
          \/ at = [p.at EXCEPT ![i] = up]
      BY <2>2
    <3> HIDE DEF right, up
    <3> QED
      BY <2>1, <3>2, <3>3 DEF IsLying
  <2> QED
    BY <2>1, <2>2 DEF Slid
<1> DEFINE bt == [i \in DOMAIN at |-> [at[i] EXCEPT !.grip = NoGrip]]
           q == Bare(at)
<1>3. IsLying(bt)
  <2>1. bt = [i \in DOMAIN at |-> bt[i]]
    OBVIOUS
  <2>2. \A i \in DOMAIN at : \E h : bt[i] = [at[i] EXCEPT !.grip = h]
    OBVIOUS
  <2> HIDE DEF bt
  <2> QED
    BY <1>2, <2>1, <2>2, Untouched
<1>4. q = [p EXCEPT !.grips = <<>>, !.explicit = {}, !.at = bt]
  OBVIOUS
<1> HIDE DEF bt, q
<1>5. IsLayer(q)
  BY <1>3, <1>4, NoneIsSeq, LayerWith, Zenon
<1>6. IsLayer(EnsureGroups(q))
  BY <1>5, GroupsStill DEF Still
<1>7. c = [Move(EnsureGroups(q)) EXCEPT !.anew = TRUE]
  BY <1>1 DEF q
<1> QED
  BY <1>6, <1>7, MoveChange, Zenon

LEMMA AverageInt ==
  ASSUME NEW p, IsLayer(p), NEW S \in Selections(p), NEW axis \in {"x", "y"}
  PROVE  Average(p, S, axis) \subseteq Int
<1> DEFINE f == [i \in S |-> p.at[i][axis]]
           values == {p.at[i][axis] : i \in S}
<1>1. S \in SUBSET DOMAIN p.at /\ S # {}
  BY DEF Selections
<1>2. IsFiniteSet(S)
  BY <1>1, PatternAssumption, FS_Subset DEF IsLying, IsLayer
<1>3. IsFiniteSet(values)
  <2>1. IsFiniteSet({f[i] : i \in S})
    BY <1>2, ImageFinite, Zenon
  <2>2. {f[i] : i \in S} = values
    OBVIOUS
  <2> QED
    BY <2>1, <2>2
<1>4. values # {} /\ values \subseteq Int
  <2>1. ASSUME NEW i \in S PROVE p.at[i].x \in Int /\ p.at[i].y \in Int
    BY <1>1 DEF IsLayer, IsLying, IsPlaced
  <2>2. ASSUME NEW i \in S PROVE p.at[i][axis] \in Int
    BY <2>1
  <2> QED
    BY <1>1, <2>2
<1>5. Min(values) \in Int /\ Max(values) \in Int
  BY <1>3, <1>4, MinOf, MaxOf
<1> QED
  BY <1>5 DEF Average

LEMMA PatternViewLays ==
  ASSUME NEW p, IsLayer(p), NEW c \in PatternViewEdits(p)
  PROVE  IsChange(p, c)
<1> DEFINE moved == {MovePlacements(p, S, step) : S \in Selections(p), step \in Steps}
           About(S) == {RotatePlacements(p, S, [x |-> x, y |-> y], 1) :
                          x \in Average(p, S, "x"), y \in Average(p, S, "y")}
           turned == UNION {About(S) : S \in Selections(p)}
           centred == {CenterPlacements(p, S) :
                         S \in {T \in Selections(p) :
                                  \A k \in 1 .. 2 : CenteringStep2(p, T)[k] % 2 = 0}}
           labelled == {SetLabelSide(p, S, label) : S \in Selections(p), label \in Labels}
           deleted == {DeletePlacements(p, S) : S \in Selections(p)}
           new == Packages \cap {Max(DOMAIN p.at \cup {0}) + 1}
           inserted == UNION {InsertPlacement(p, i, turn) : i \in new, turn \in 0 .. 1}
<1>1. ASSUME c \in moved PROVE IsChange(p, c)
  <2>1. PICK S \in Selections(p), step \in Steps : c = MovePlacements(p, S, step)
    BY <1>1
  <2>2. step[1] \in Int /\ step[2] \in Int
    BY PatternAssumption
  <2> QED
    BY <2>1, <2>2, MovePlacementsLays
<1>2. ASSUME c \in turned PROVE IsChange(p, c)
  <2>1. PICK S \in Selections(p) : c \in About(S)
    BY <1>2
  <2>2. PICK x \in Average(p, S, "x"), y \in Average(p, S, "y") :
          c = RotatePlacements(p, S, [x |-> x, y |-> y], 1)
    BY <2>1
  <2>3. x \in Int /\ y \in Int
    BY AverageInt
  <2> QED
    BY <2>2, <2>3, RotatePlacementsLays
<1>3. ASSUME c \in centred PROVE IsChange(p, c)
  <2>1. PICK S \in Selections(p) : c = CenterPlacements(p, S)
    BY <1>3
  <2>2. S \in SUBSET DOMAIN p.at /\ S # {}
    BY DEF Selections
  <2> QED
    BY <2>1, <2>2, CenterPlacementsLays
<1>4. ASSUME c \in labelled PROVE IsChange(p, c)
  BY <1>4, SetLabelSideStays
<1>5. ASSUME c \in deleted PROVE IsChange(p, c)
  BY <1>5, DeletePlacementsLays
<1>6. ASSUME c \in inserted PROVE IsChange(p, c)
  <2> HIDE DEF new
  <2>1. PICK i \in new, turn \in 0 .. 1 : c \in InsertPlacement(p, i, turn)
    BY <1>6
  <2>2. i \in Packages
    BY DEF new
  <2> QED
    BY <2>1, <2>2, InsertPlacementLays
<1>7. PatternViewEdits(p) = moved \cup turned \cup centred \cup labelled \cup deleted
                            \cup inserted \cup {SetPatternName(p)}
  BY DEF PatternViewEdits
<1> HIDE DEF moved, turned, centred, labelled, deleted, inserted
<1> QED
  BY <1>1, <1>2, <1>3, <1>4, <1>5, <1>6, <1>7, SetPatternNameStays

LEMMA OrderViewStays ==
  ASSUME NEW p, IsLayer(p), NEW c \in OrderViewEdits(p)
  PROVE  IsChange(p, c)
<1> DEFINE ids == Ids(p.grips)
           created == UNION {CreateGroup(p, S) : S \in (SUBSET DOMAIN p.at) \ {{}}}
           split == {SplitGroup(p, id) : id \in ids}
           merged == UNION {MergeGroups(p, some) : some \in SUBSET ids}
           removed == {RemoveGroup(p, id) : id \in ids}
           reordered == UNION {ReorderGroup(p, id, k) : id \in ids, k \in DOMAIN p.grips}
           added == UNION {AddOrderDependency(p, g, h) : g \in ids, h \in ids}
           dropped == UNION {RemoveOrderDependency(p, g, h) : g \in ids, h \in ids}
<1>1. ASSUME c \in created PROVE IsChange(p, c)
  BY <1>1, CreateGroupStays
<1>2. ASSUME c \in split PROVE IsChange(p, c)
  BY <1>2, SplitGroupStays
<1>3. ASSUME c \in merged PROVE IsChange(p, c)
  BY <1>3, MergeGroupsStays
<1>4. ASSUME c \in removed PROVE IsChange(p, c)
  BY <1>4, RemoveGroupStays
<1>5. ASSUME c \in reordered PROVE IsChange(p, c)
  <2>1. PICK id \in ids, k \in DOMAIN p.grips : c \in ReorderGroup(p, id, k)
    BY <1>5
  <2>2. IsSeq(IdSeq(p.grips)) /\ k \in Int
    BY IdSeqIsSeq, IsSeqFacts DEF IsLayer
  <2>3. IsSeq(Reordered(IdSeq(p.grips), id, k))
    BY <2>2, ReorderedIsSeq
  <2> QED
    BY <2>1, <2>3, InOrderStays DEF ReorderGroup
<1>6. ASSUME c \in InOrder(p, SuggestedOrder(p)) PROVE IsChange(p, c)
  BY <1>6, SuggestedIsSeq, InOrderStays
<1>7. ASSUME c \in added PROVE IsChange(p, c)
  <2>1. PICK g \in ids, h \in ids : c \in AddOrderDependency(p, g, h)
    BY <1>7
  <2> QED
    BY <2>1, DependenciesStay
<1>8. ASSUME c \in dropped PROVE IsChange(p, c)
  <2>1. PICK g \in ids, h \in ids : c \in RemoveOrderDependency(p, g, h)
    BY <1>8
  <2> QED
    BY <2>1, DependenciesStay
<1>9. OrderViewEdits(p) = created \cup split \cup merged \cup removed \cup reordered
                          \cup InOrder(p, SuggestedOrder(p)) \cup added \cup dropped
  BY DEF OrderViewEdits, GroupingEdits
<1> HIDE DEF created, split, merged, removed, reordered, added, dropped
<1> QED
  BY <1>1, <1>2, <1>3, <1>4, <1>5, <1>6, <1>7, <1>8, <1>9

LEMMA EditNotWorse ==
  ASSUME NEW p, IsLayer(p), NEW q \in Edits(p)
  PROVE  /\ IsLayer(q) /\ Placeable(q)
         /\ ~Worsen(Violations(p.at), Violations(q.at))
<1> DEFINE changes == PatternViewEdits(p) \cup OrderViewEdits(EnsureGroups(p))
                      \cup RecalculateGroups(p)
<1>1. Still(p, EnsureGroups(p))
  BY GroupsStill
<1>2. ASSUME NEW c \in OrderViewEdits(EnsureGroups(p)) PROVE IsChange(p, c)
  <2>1. IsChange(EnsureGroups(p), c)
    BY <1>1, OrderViewStays DEF Still
  <2> QED
    BY <1>1, <2>1, SameTwice DEF IsChange, Still
<1>3. \A c \in changes : IsChange(p, c)
  BY <1>2, PatternViewLays, RecalculateGroupsLays
<1>4. q \in Outcomes(p, changes) /\ q # Broken
  BY DEF Edits
<1> HIDE DEF changes
<1> QED
  BY <1>3, <1>4, OutcomeNotWorse

-----------------------------------------------------------------------------
(* Every version of the plan that can come back.                           *)

IsProject(project) ==
  /\ project = [content |-> project.content, save |-> project.save]
  /\ IsLayer(project.content)

ComesFrom(first, project) ==
  /\ IsProject(project)
  /\ ~Worsen(Violations(first.content.at), Violations(project.content.at))
  /\ project.content = first.content \/ Placeable(project.content)

VersionsInv ==
  /\ StacksInv
  /\ ComesFrom(original, original) /\ ComesFrom(original, persisted) /\ ComesFrom(original, present)
  /\ \A i \in DOMAIN past : ComesFrom(original, past[i])
  /\ \A i \in DOMAIN future : ComesFrom(original, future[i])
  /\ saving # NoSnapshot => ComesFrom(original, saving)

LEMMA StartsAreLayers ==
  ASSUME NEW p \in Starts
  PROVE  IsLayer(p)
<1>1. IsPattern(p)
  BY StartsAssumption
<1>2. IsRecord(p)
  BY <1>1 DEF IsPattern, IsRecord
<1>3. p.at \in [DOMAIN p.at -> Placements] /\ DOMAIN p.at \subseteq Packages
  BY <1>1 DEF IsPattern
<1>4. ASSUME NEW pl \in Placements PROVE IsPlaced(pl)
  BY DEF Placements, IsPlaced
<1>5. IsSeq(p.grips)
  BY <1>1, SeqIsSeq DEF IsPattern
<1> QED
  BY <1>2, <1>3, <1>4, <1>5 DEF IsLayer, IsLying

LEMMA SelfNotWorse ==
  ASSUME NEW project, IsProject(project)
  PROVE  ComesFrom(project, project)
  BY NotWorseThanSelf DEF ComesFrom, IsProject, IsLayer

LEMMA VersionsBegin == HistoryAssumption /\ HistoryInit => VersionsInv
<1> SUFFICES ASSUME HistoryAssumption, HistoryInit PROVE VersionsInv
  OBVIOUS
<1>1. StacksInv
  BY HistoryBegins
<1>2. IsProject(original)
  BY StartsAreLayers DEF HistoryInit, Project, IsProject
<1>3. ComesFrom(original, original)
  BY <1>2, SelfNotWorse
<1> QED
  BY <1>1, <1>3 DEF HistoryInit, VersionsInv

\* Edits go on from what is not worse.
LEMMA EditedNotWorse ==
  ASSUME VersionsInv, NEW content \in Edits(present.content), NEW project,
         project = [present EXCEPT !.content = content]
  PROVE  ComesFrom(original, project)
<1>1. IsProject(present) /\ IsProject(original)
      /\ ~Worsen(Violations(original.content.at), Violations(present.content.at))
  BY DEF VersionsInv, ComesFrom
<1>2. IsLayer(content) /\ Placeable(content)
      /\ ~Worsen(Violations(present.content.at), Violations(content.at))
  BY <1>1, EditNotWorse DEF IsProject
<1>3. ~Worsen(Violations(original.content.at), Violations(content.at))
  BY <1>1, <1>2, NeverWorse DEF IsProject, IsLayer
<1>4. project = [content |-> content, save |-> present.save]
  BY <1>1 DEF IsProject
<1> QED
  BY <1>2, <1>3, <1>4 DEF ComesFrom, IsProject

\* What is pushed on a stack is on it, besides what was there before.
LEMMA PushedEntries ==
  ASSUME HistoryAssumption, NEW s, IsSeq(s), Len(s) <= MaxHistory, NEW x,
         NEW i \in DOMAIN Push(s, x)
  PROVE  Push(s, x)[i] = x \/ \E j \in DOMAIN s : Push(s, x)[i] = s[j]
<1> DEFINE n == Len(s)  all == Append(s, x)
<1>1. /\ IsSeq(all) /\ Len(all) = n + 1 /\ n \in Nat /\ all[n + 1] = x
      /\ \A k \in 1 .. n : all[k] = s[k]
      /\ DOMAIN s = 1 .. n
  BY Appended, IsSeqFacts
<1>2. IsSeq(Push(s, x)) /\ DOMAIN Push(s, x) = 1 .. Len(Push(s, x))
  BY Pushed, IsSeqFacts
<1> HIDE DEF n, all
<1>3. CASE Push(s, x) = all
  <2>1. i \in 1 .. n + 1
    BY <1>1, <1>2, <1>3
  <2>2. i = n + 1 \/ i \in 1 .. n
    BY <1>1, <2>1
  <2> QED
    BY <1>1, <1>3, <2>2
<1>4. CASE Push(s, x) = Tail(all)
  <2>1. /\ Len(Tail(all)) = n + 1 - 1
        /\ \A k \in 1 .. n + 1 - 1 : Tail(all)[k] = all[k + 1]
    BY <1>1, Shortened
  <2>2. i \in 1 .. n + 1 - 1 /\ (i + 1 = n + 1 \/ i + 1 \in 1 .. n)
    BY <1>1, <1>2, <1>4, <2>1
  <2> QED
    BY <1>1, <1>4, <2>1, <2>2
<1> QED
  BY <1>3, <1>4 DEF Push, all

LEMMA VersionsStep ==
  ASSUME HistoryAssumption, VersionsInv, [HistoryNext]_historyVars
  PROVE  VersionsInv'
<1> USE DEF VersionsInv
<1>1. StacksInv'
  BY HistoryStep
<1>2. DOMAIN <<>> = {}
  OBVIOUS
<1>3. Len(past) \in Nat /\ Len(future) \in Nat /\ Len(past) <= MaxHistory
  BY IsSeqFacts DEF StacksInv, StacksBounded, HistoryAssumption
<1>4. \A i \in DOMAIN Push(past, present) : ComesFrom(original, Push(past, present)[i])
  BY <1>3, PushedEntries DEF StacksInv
<1>5. CASE Execute
  <2>1. PICK content \in Edits(present.content) : present' = [present EXCEPT !.content = content]
    BY <1>5 DEF Execute
  <2>2. ComesFrom(original, present')
    BY <2>1, EditedNotWorse
  <2> QED
    BY <1>1, <1>2, <1>4, <1>5, <2>2 DEF Execute
<1>6. CASE ResetToOriginal
  BY <1>1, <1>2, <1>4, <1>6 DEF ResetToOriginal
<1>7. CASE UndoEdit
  <2>1. /\ \A i \in 1 .. Len(past) - 1 : past'[i] = past[i]
        /\ Len(past') = Len(past) - 1 /\ DOMAIN past' = 1 .. Len(past')
        /\ DOMAIN past = 1 .. Len(past) /\ Len(past) > 0
    BY <1>1, <1>7, Shortened, IsSeqFacts DEF UndoEdit, StacksInv
  <2>2. /\ \A i \in 1 .. Len(future) : future'[i] = future[i]
        /\ future'[Len(future) + 1] = present
        /\ Len(future') = Len(future) + 1 /\ DOMAIN future' = 1 .. Len(future')
        /\ DOMAIN future = 1 .. Len(future)
    BY <1>1, <1>7, Appended, IsSeqFacts DEF UndoEdit, StacksInv
  <2>3. \A i \in DOMAIN past' : ComesFrom(original, past'[i])
    BY <1>3, <2>1
  <2>4. \A i \in DOMAIN future' : ComesFrom(original, future'[i])
    BY <1>3, <2>2
  <2>5. ComesFrom(original, present')
    BY <1>3, <1>7, <2>1 DEF UndoEdit
  <2> QED
    BY <1>1, <1>7, <2>3, <2>4, <2>5 DEF UndoEdit
<1>8. CASE Redo
  <2>1. /\ \A i \in 1 .. Len(future) - 1 : future'[i] = future[i]
        /\ Len(future') = Len(future) - 1 /\ DOMAIN future' = 1 .. Len(future')
        /\ DOMAIN future = 1 .. Len(future) /\ Len(future) > 0
    BY <1>1, <1>8, Shortened, IsSeqFacts DEF Redo, StacksInv
  <2>2. \A i \in DOMAIN future' : ComesFrom(original, future'[i])
    BY <1>3, <2>1
  <2>3. ComesFrom(original, present')
    BY <1>3, <1>8, <2>1 DEF Redo
  <2> QED
    BY <1>1, <1>4, <1>8, <2>2, <2>3 DEF Redo
<1>9. CASE DiscardEdits
  BY <1>1, <1>2, <1>9 DEF DiscardEdits
<1>10. CASE ReplaceProject
  <2>1. PICK content \in Starts : original' = Project(content, saveCount + 1)
    BY <1>10 DEF ReplaceProject
  <2>2. IsProject(original')
    BY <2>1, StartsAreLayers DEF Project, IsProject
  <2>3. ComesFrom(original', original')
    BY <2>2, SelfNotWorse
  <2> QED
    BY <1>1, <1>2, <1>10, <2>3 DEF ReplaceProject
<1>11. CASE MarkSaved
  <2>1. ASSUME NEW project, ComesFrom(original, project)
        PROVE  ComesFrom(original, Rebased(project))
    BY <2>1 DEF ComesFrom, IsProject, Rebased, Project
  <2>2. /\ past' = [i \in DOMAIN past |-> Rebased(past[i])]
        /\ future' = [i \in DOMAIN future |-> Rebased(future[i])]
        /\ persisted' = Rebased(saving) /\ present' = Rebased(present)
        /\ saving # NoSnapshot /\ saving' = NoSnapshot /\ original' = original
    BY <1>11 DEF MarkSaved
  <2>3. \A i \in DOMAIN past' : ComesFrom(original, past'[i])
    BY <2>1, <2>2
  <2>4. \A i \in DOMAIN future' : ComesFrom(original, future'[i])
    BY <2>1, <2>2
  <2>5. ComesFrom(original, persisted') /\ ComesFrom(original, present')
    BY <2>1, <2>2
  <2> QED
    BY <1>1, <2>2, <2>3, <2>4, <2>5
<1>12. CASE StartSave \/ SaveFails \/ UNCHANGED historyVars
  BY <1>1, <1>12 DEF StartSave, SaveFails, historyVars
<1> QED
  BY <1>5, <1>6, <1>7, <1>8, <1>9, <1>10, <1>11, <1>12 DEF HistoryNext

LEMMA OpenedIsStart == HistorySpec => [](original.content \in Starts)
<1>1. HistoryInit => original.content \in Starts
  BY DEF HistoryInit, Project
<1>2. original.content \in Starts /\ [HistoryNext]_historyVars => (original.content \in Starts)'
  BY DEF HistoryNext, Execute, UndoEdit, Redo, ResetToOriginal, DiscardEdits, StartSave,
         MarkSaved, SaveFails, ReplaceProject, Project, historyVars
<1> QED
  BY <1>1, <1>2, PTL DEF HistorySpec

\* For any pallet, packages and commands, whatever is edited, undone and
\* saved: no package ends up further outside the pallet or deeper in another
\* one than in the project that was opened.
THEOREM NotWorseThanOpened == HistorySpec => []NeverWorseThanOpened
<1>1. VersionsInv => NeverWorseThanOpened
  BY DEF VersionsInv, ComesFrom, NeverWorseThanOpened, pattern
<1>2. HistorySpec => []VersionsInv
  BY KernelAssumption, VersionsBegin, VersionsStep, PTL DEF HistorySpec
<1> QED
  BY <1>1, <1>2, PTL

\* And every version but the one that was opened can be placed: each grip has
\* packages and stands once in the order, after all it depends on, with the
\* dependencies and robot cycles stored that belong to it (replacePattern).
THEOREM EditedPlaceable == HistorySpec => [](pattern = original.content \/ OrderPlaceable)
<1>1. VersionsInv => pattern = original.content \/ OrderPlaceable
  BY DEF VersionsInv, ComesFrom, OrderPlaceable, pattern
<1>2. HistorySpec => []VersionsInv
  BY KernelAssumption, VersionsBegin, VersionsStep, PTL DEF HistorySpec
<1> QED
  BY <1>1, <1>2, PTL

\* So if the plans that are opened can be placed, such as a plan without grips
\* and one the editor left, what is on screen always can.
THEOREM OrderKept ==
  ASSUME \A p \in Starts : Placeable(p)
  PROVE  HistorySpec => []OrderPlaceable
<1>1. VersionsInv /\ original.content \in Starts => OrderPlaceable
  BY DEF VersionsInv, ComesFrom, OrderPlaceable, pattern
<1>2. HistorySpec => []VersionsInv
  BY KernelAssumption, VersionsBegin, VersionsStep, PTL DEF HistorySpec
<1>3. HistorySpec => [](original.content \in Starts)
  BY OpenedIsStart, PTL
<1> QED
  BY <1>1, <1>2, <1>3, PTL

\* Deriving blue lines for the order the grips stand in and inferring
\* dependencies back out of them agree, whatever was edited before.
THEOREM DeltasAlwaysAgree ==
  ASSUME \A p \in Starts : Placeable(p)
  PROVE  HistorySpec => []DeltasAgree
<1>1. HistorySpec => []OrderPlaceable
  BY OrderKept
<1>2. HistorySpec => []VersionsInv
  BY KernelAssumption, VersionsBegin, VersionsStep, PTL DEF HistorySpec
<1>3. VersionsInv => IsSeq(pattern.grips)
  BY DEF VersionsInv, ComesFrom, IsProject, IsLayer, pattern
<1>4. VersionsInv /\ OrderPlaceable => DeltasAgree
  BY <1>3, PlaceableAgrees
<1> QED
  BY <1>1, <1>2, <1>4, PTL
====
