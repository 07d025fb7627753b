---------------------------- MODULE EditingProofs ----------------------------
(***************************************************************************)
(* What the commands of the layer editor make of a pattern, for any        *)
(* pallet, packages and commands: it has its type, and grips made of grips *)
(* keep the user's order.                                                  *)
(*                                                                         *)
(* A command hands a draft to replacePattern: the packages lie where they  *)
(* may, refer to grips of the draft, and the grips have ids of their own,  *)
(* but some may be empty and dependencies may be of grips that went.       *)
(* replacePattern makes a pattern of every draft (ReplacedTyped), so it is *)
(* enough that each command makes a draft.  For the commands of the order  *)
(* view, which work on automatic grips where the pattern has none, and for *)
(* recalculate-groups that needs the order those grips are put in, layer   *)
(* rows after what stands beneath them (EnsuredStands): automatic grips    *)
(* are lines of packages, and lines that lie above each other do so in no  *)
(* circle.                                                                 *)
(***************************************************************************)
EXTENDS Editing, EditorKernelProofs, OpenEditorProofs

-----------------------------------------------------------------------------
(* What sequences hold.                                                    *)

LEMMA InSeq ==
  ASSUME NEW s, IsSeq(s), NEW U, ToSet(s) \subseteq U
  PROVE  s \in Seq(U)
<1>1. Len(s) \in Nat /\ s = [i \in 1 .. Len(s) |-> s[i]] /\ DOMAIN s = 1 .. Len(s)
  BY IsSeqFacts
<1>2. s \in [1 .. Len(s) -> U]
  BY <1>1 DEF ToSet
<1> QED
  BY <1>1, <1>2, SeqDef

LEMMA NoneHolds == ToSet(<<>>) = {}
  BY DEF ToSet

LEMMA OneHolds ==
  ASSUME NEW x
  PROVE  ToSet(<<x>>) = {x}
  BY DEF ToSet

LEMMA AppendHolds ==
  ASSUME NEW s, IsSeq(s), NEW x
  PROVE  ToSet(Append(s, x)) = ToSet(s) \cup {x}
<1> DEFINE t == Append(s, x)  n == Len(s)
<1>1. /\ IsSeq(t) /\ Len(t) = n + 1 /\ t[n + 1] = x /\ \A i \in 1 .. n : t[i] = s[i]
      /\ n \in Nat /\ DOMAIN s = 1 .. n
  BY Appended, IsSeqFacts
<1>2. DOMAIN t = 1 .. n + 1
  BY <1>1, IsSeqFacts
<1> HIDE DEF t, n
<1>3. \A i \in 1 .. n + 1 : i \in 1 .. n \/ i = n + 1
  BY <1>1
<1>4. \A i \in 1 .. n : i \in 1 .. n + 1
  BY <1>1
<1>5. n + 1 \in 1 .. n + 1
  BY <1>1
<1>6. ToSet(t) \subseteq ToSet(s) \cup {x}
  BY <1>1, <1>2, <1>3 DEF ToSet
<1>7. ToSet(s) \cup {x} \subseteq ToSet(t)
  BY <1>1, <1>2, <1>4, <1>5 DEF ToSet
<1> QED
  BY <1>6, <1>7 DEF t

LEMMA JoinHolds ==
  ASSUME NEW s, IsSeq(s), NEW t, IsSeq(t)
  PROVE  ToSet(s \o t) = ToSet(s) \cup ToSet(t)
<1> DEFINE U == {s[i] : i \in DOMAIN s} \cup {t[i] : i \in DOMAIN t}
           m == Len(s)  n == Len(t)
<1>1. s \in Seq(U) /\ t \in Seq(U)
  BY DEF IsSeq
<1> HIDE DEF U
<1>2. /\ DOMAIN s = 1 .. m /\ DOMAIN t = 1 .. n /\ m \in Nat /\ n \in Nat
      /\ DOMAIN (s \o t) = 1 .. m + n
  BY <1>1, JoinedIsSeq, IsSeqFacts, ConcatProperties
<1>3. \A i \in 1 .. m + n : (s \o t)[i] = IF i <= m THEN s[i] ELSE t[i - m]
  BY <1>1, ConcatProperties
<1> HIDE DEF m, n
<1>4. ToSet(s \o t) \subseteq ToSet(s) \cup ToSet(t)
  <2>1. \A i \in 1 .. m + n : i \in 1 .. m \/ (~(i <= m) /\ i - m \in 1 .. n)
    BY <1>2
  <2>2. \A i \in 1 .. m : i <= m
    BY <1>2
  <2> QED
    BY <1>2, <1>3, <2>1, <2>2 DEF ToSet
<1>5. ASSUME NEW i \in DOMAIN s PROVE s[i] \in ToSet(s \o t)
  <2>1. i \in 1 .. m + n /\ i <= m
    BY <1>2
  <2> QED
    BY <1>2, <1>3, <2>1 DEF ToSet
<1>6. ASSUME NEW i \in DOMAIN t PROVE t[i] \in ToSet(s \o t)
  <2>1. m + i \in 1 .. m + n /\ ~(m + i <= m) /\ m + i - m = i
    BY <1>2
  <2> QED
    BY <1>2, <1>3, <2>1 DEF ToSet
<1> QED
  BY <1>4, <1>5, <1>6 DEF ToSet

LEMMA StretchHolds ==
  ASSUME NEW s, IsSeq(s), NEW m \in 1 .. Len(s) + 1, NEW n \in 0 .. Len(s)
  PROVE  ToSet(SubSeq(s, m, n)) = {s[i] : i \in m .. n}
<1> DEFINE U == {s[i] : i \in DOMAIN s}
           t == SubSeq(s, m, n)
<1>1. Len(s) \in Nat /\ DOMAIN s = 1 .. Len(s)
  BY IsSeqFacts
<1>2. m \in Int /\ n \in Int /\ m .. n \subseteq DOMAIN s
  BY <1>1
<1>3. \A i \in m .. n : s[i] \in U
  BY <1>2
<1> HIDE DEF U
<1>4. /\ t \in Seq(U) /\ Len(t) = IF m <= n THEN n - m + 1 ELSE 0
      /\ \A i \in 1 .. n - m + 1 : t[i] = s[m + i - 1]
  BY <1>2, <1>3, SubSeqProperties
<1> HIDE DEF t
<1>5. DOMAIN t = 1 .. n - m + 1
  <2>1. DOMAIN t = 1 .. Len(t)
    BY <1>4, LenProperties
  <2> QED
    BY <1>2, <1>4, <2>1
<1>6. ASSUME NEW i \in m .. n PROVE s[i] \in ToSet(t)
  <2>1. i - m + 1 \in 1 .. n - m + 1 /\ m + (i - m + 1) - 1 = i
    BY <1>2
  <2> QED
    BY <1>4, <1>5, <2>1 DEF ToSet
<1>7. ASSUME NEW i \in DOMAIN t PROVE t[i] \in {s[k] : k \in m .. n}
  <2>1. m + i - 1 \in m .. n
    BY <1>2, <1>5
  <2> QED
    BY <1>4, <1>5, <2>1
<1> QED
  BY <1>6, <1>7 DEF ToSet, t

\* A sequence put between the halves of another.
LEMMA CutIn ==
  ASSUME NEW s, IsSeq(s), NEW t, IsSeq(t), NEW cut \in 0 .. Len(s)
  PROVE  LET all == SubSeq(s, 1, cut) \o t \o SubSeq(s, cut + 1, Len(s))
         IN IsSeq(all) /\ ToSet(all) = ToSet(s) \cup ToSet(t)
<1> DEFINE a == SubSeq(s, 1, cut)  b == SubSeq(s, cut + 1, Len(s))
<1>1. Len(s) \in Nat /\ DOMAIN s = 1 .. Len(s) /\ cut \in Nat /\ cut <= Len(s)
  BY IsSeqFacts
<1>2. /\ 1 \in 1 .. Len(s) + 1 /\ cut \in 0 .. Len(s) /\ 1 \in Int /\ cut \in Int
      /\ cut + 1 \in 1 .. Len(s) + 1 /\ Len(s) \in 0 .. Len(s) /\ cut + 1 \in Int
      /\ Len(s) \in Int
  BY <1>1
<1>3. IsSeq(a) /\ IsSeq(b)
  BY <1>2, StretchIsSeq
<1>4. ToSet(a) = {s[i] : i \in 1 .. cut} /\ ToSet(b) = {s[i] : i \in cut + 1 .. Len(s)}
  BY <1>2, StretchHolds
<1> HIDE DEF a, b
<1>5. ToSet(a) \cup ToSet(b) = ToSet(s)
  <2>1. \A i \in 1 .. Len(s) : i \in 1 .. cut \/ i \in cut + 1 .. Len(s)
    BY <1>1
  <2>2. 1 .. cut \subseteq 1 .. Len(s) /\ cut + 1 .. Len(s) \subseteq 1 .. Len(s)
    BY <1>1
  <2> QED
    BY <1>1, <1>4, <2>1, <2>2 DEF ToSet
<1>6. IsSeq(a \o t) /\ ToSet(a \o t) = ToSet(a) \cup ToSet(t)
  BY <1>3, JoinedIsSeq, JoinHolds
<1> DEFINE c == a \o t
<1>7. IsSeq(c) /\ ToSet(c) = ToSet(a) \cup ToSet(t)
  BY <1>6
<1> HIDE DEF c
<1>8. IsSeq(c \o b) /\ ToSet(c \o b) = ToSet(c) \cup ToSet(b)
  BY <1>3, <1>7, JoinedIsSeq, JoinHolds
<1> QED
  BY <1>5, <1>7, <1>8 DEF a, b, c

LEMMA SublistHolds ==
  ASSUME NEW s, IsSeq(s), NEW positions
  PROVE  ToSet(Sublist(s, positions)) = {s[i] : i \in positions \cap DOMAIN s}
<1> DEFINE N == Len(s)
<1>1. N \in Nat /\ DOMAIN s = 1 .. N
  BY IsSeqFacts
<1>2. PICK c : /\ c[0] = <<>>
               /\ \A n \in 1 .. N :
                    c[n] = IF n \in positions THEN Append(c[n - 1], s[n]) ELSE c[n - 1]
               /\ \A n \in 0 .. N : IsSeq(c[n])
               /\ Sublist(s, positions) = c[N]
  BY SublistSteps
<1> HIDE DEF N
<1> DEFINE Upto(n) == {s[i] : i \in positions \cap (1 .. n)}
           W == {n \in 0 .. N : ToSet(c[n]) = Upto(n)}
<1>3. 0 \in W
  <2>1. Upto(0) = {} /\ 0 \in 0 .. N
    BY <1>1
  <2> HIDE DEF Upto
  <2> QED
    BY <1>2, <2>1, NoneHolds
<1>4. ASSUME NEW n \in 1 .. N, n - 1 \in W PROVE n \in W
  <2>1. n \in 0 .. N /\ n - 1 \in 0 .. N /\ ToSet(c[n - 1]) = Upto(n - 1) /\ IsSeq(c[n - 1])
    BY <1>1, <1>2, <1>4
  <2>2. 1 .. n = (1 .. n - 1) \cup {n}
    BY <1>1
  <2>3. CASE n \in positions
    <3>1. ToSet(c[n]) = Upto(n - 1) \cup {s[n]}
      <4> HIDE DEF Upto
      <4> QED
        BY <1>2, <2>1, <2>3, AppendHolds
    <3>2. Upto(n) = Upto(n - 1) \cup {s[n]}
      BY <2>2, <2>3
    <3> QED
      BY <2>1, <3>1, <3>2
  <2>4. CASE n \notin positions
    <3>1. Upto(n) = Upto(n - 1)
      BY <2>2, <2>4
    <3> QED
      BY <1>2, <2>1, <2>4, <3>1
  <2> QED
    BY <2>3, <2>4
<1>5. ToSet(c[N]) = Upto(N)
  <2> HIDE DEF W
  <2>1. 0 .. N \subseteq W
    BY <1>1, <1>3, <1>4, Counting, Zenon
  <2>2. N \in W
    BY <1>1, <2>1
  <2> QED
    BY <2>2 DEF W
<1> QED
  BY <1>1, <1>2, <1>5

\* It is as long as the stretch of it that is taken whole.
LEMMA SublistLong ==
  ASSUME NEW s, IsSeq(s), NEW positions, NEW m \in 0 .. Len(s), 1 .. m \subseteq positions
  PROVE  m <= Len(Sublist(s, positions))
<1> DEFINE N == Len(s)
<1>1. N \in Nat
  BY IsSeqFacts
<1>2. PICK c : /\ c[0] = <<>>
               /\ \A n \in 1 .. N :
                    c[n] = IF n \in positions THEN Append(c[n - 1], s[n]) ELSE c[n - 1]
               /\ \A n \in 0 .. N : IsSeq(c[n])
               /\ Sublist(s, positions) = c[N]
  BY SublistSteps
<1>3. m \in 0 .. N
  OBVIOUS
<1> HIDE DEF N
<1> DEFINE Least(n) == IF n <= m THEN n ELSE m
           W == {n \in 0 .. N : Least(n) <= Len(c[n])}
<1>4. 0 \in W
  <2>1. Least(0) = 0 /\ 0 \in 0 .. N
    BY <1>1, <1>3
  <2>2. Len(c[0]) = 0
    BY <1>2, EmptySeq
  <2> HIDE DEF Least
  <2> QED
    BY <2>1, <2>2
<1>5. ASSUME NEW n \in 1 .. N, n - 1 \in W PROVE n \in W
  <2>1. n \in 0 .. N /\ n - 1 \in 0 .. N /\ Least(n - 1) <= Len(c[n - 1]) /\ IsSeq(c[n - 1])
    BY <1>1, <1>2, <1>5
  <2>2. Len(c[n - 1]) \in Nat
    BY <2>1, IsSeqFacts
  <2>3. CASE n \in positions
    <3>1. c[n] = Append(c[n - 1], s[n])
      BY <1>2, <2>3
    <3>2. Len(c[n]) = Len(c[n - 1]) + 1
      BY <2>1, <3>1, Appended
    <3>3. Least(n) <= Least(n - 1) + 1 /\ Least(n) \in Int /\ Least(n - 1) \in Int
      BY <1>1, <1>3, <2>1
    <3> HIDE DEF Least
    <3>4. Least(n) <= Len(c[n])
      BY <2>1, <2>2, <3>2, <3>3
    <3> QED
      BY <2>1, <3>4
  <2>4. CASE n \notin positions
    <3>1. ~(n <= m)
      BY <1>1, <1>3, <2>4
    <3>2. c[n] = c[n - 1] /\ Least(n) = Least(n - 1)
      BY <1>1, <1>2, <1>3, <2>4, <3>1
    <3> QED
      BY <2>1, <3>2
  <2> QED
    BY <2>3, <2>4
<1>6. Least(N) <= Len(c[N])
  <2> HIDE DEF W
  <2>1. 0 .. N \subseteq W
    BY <1>1, <1>4, <1>5, Counting, Zenon
  <2>2. N \in W
    BY <1>1, <2>1
  <2> QED
    BY <2>2 DEF W
<1>7. Least(N) = m
  BY <1>1, <1>3
<1> QED
  BY <1>2, <1>6, <1>7

\* Sorted by keys, every element stands once.
LEMMA SortedAll ==
  ASSUME NEW key, NEW n \in Nat, IsFiniteSet(DOMAIN key),
         \A c \in DOMAIN key : IsKey(key[c], n)
  PROVE  /\ IsSeq(SortedBy(key)) /\ Distinct(SortedBy(key))
         /\ ToSet(SortedBy(key)) = DOMAIN key
         /\ Len(SortedBy(key)) = Cardinality(DOMAIN key)
<1> DEFINE N == Cardinality(DOMAIN key)
           All == DOMAIN key
<1>1. N \in Nat
  BY FS_CardinalityType
<1>2. PICK c : /\ c[0] = <<>>
               /\ \A k \in 1 .. N : c[k] = Append(c[k - 1], Foremost(key, c[k - 1]))
               /\ \A k \in 0 .. N : IsSeq(c[k])
               /\ SortedBy(key) = c[N]
  BY <1>1, SortedSteps
<1>3. ASSUME NEW v, IsSeq(v), Len(v) < N
      PROVE  Foremost(key, v) \in All \ ToSet(v)
  <2> DEFINE rest == [s \in All \ ToSet(v) |-> key[s]]
  <2>1. Cardinality(ToSet(v)) <= Len(v) /\ Cardinality(ToSet(v)) \in Nat /\ Len(v) \in Nat
        /\ IsFiniteSet(ToSet(v))
    BY <1>3, RangeOf, IsSeqFacts
  <2>2. ~(All \subseteq ToSet(v))
    <3>1. All \subseteq ToSet(v) => Cardinality(All) <= Cardinality(ToSet(v))
      BY <2>1, FS_Subset
    <3> QED
      BY <1>1, <1>3, <2>1, <3>1
  <2>3. DOMAIN rest = All \ ToSet(v) /\ \A s \in DOMAIN rest : rest[s] = key[s]
    OBVIOUS
  <2>4. IsFiniteSet(All \ ToSet(v))
    BY FS_Difference
  <2>5. Foremost(key, v) = FirstBy(rest)
    BY DEF Foremost
  <2> HIDE DEF rest
  <2>6. FirstBy(rest) \in DOMAIN rest
    BY <2>2, <2>3, <2>4, FirstOf
  <2> QED
    BY <2>3, <2>5, <2>6
<1> HIDE DEF N, All
<1> DEFINE Good(k) == Len(c[k]) = k /\ ToSet(c[k]) \subseteq All /\ Distinct(c[k])
           W == {k \in 0 .. N : Good(k)}
<1>4. 0 \in W
  <2>1. Len(<<>>) = 0 /\ ToSet(<<>>) = {} /\ Distinct(<<>>)
    BY EmptySeq, NoneHolds DEF Distinct
  <2> QED
    BY <1>1, <1>2, <2>1
<1>5. ASSUME NEW k \in 1 .. N, k - 1 \in W PROVE k \in W
  <2>1. /\ k \in 0 .. N /\ k - 1 \in 0 .. N /\ k - 1 < N /\ IsSeq(c[k - 1])
        /\ Len(c[k - 1]) = k - 1 /\ ToSet(c[k - 1]) \subseteq All /\ Distinct(c[k - 1])
    BY <1>1, <1>2, <1>5
  <2> DEFINE x == Foremost(key, c[k - 1])
  <2>2. x \in All \ ToSet(c[k - 1])
    BY <1>3, <2>1
  <2>3. c[k] = Append(c[k - 1], x)
    BY <1>2
  <2> HIDE DEF x
  <2>4. /\ Len(c[k]) = k /\ IsSeq(c[k]) /\ c[k][k] = x
        /\ \A i \in 1 .. k - 1 : c[k][i] = c[k - 1][i]
    BY <2>1, <2>3, Appended
  <2>5. ToSet(c[k]) = ToSet(c[k - 1]) \cup {x}
    BY <2>1, <2>3, AppendHolds
  <2>6. DOMAIN c[k] = 1 .. k /\ DOMAIN c[k - 1] = 1 .. k - 1
    BY <2>1, <2>4, IsSeqFacts
  <2>7. ASSUME NEW i \in 1 .. k, NEW j \in 1 .. k, c[k][i] = c[k][j] PROVE i = j
    <3>1. \A h \in 1 .. k - 1 : c[k][h] # x
      BY <2>2, <2>4, <2>6 DEF ToSet
    <3>2. (i \in 1 .. k - 1 \/ i = k) /\ (j \in 1 .. k - 1 \/ j = k)
      OBVIOUS
    <3> QED
      BY <2>1, <2>4, <2>6, <2>7, <3>1, <3>2 DEF Distinct
  <2>8. Distinct(c[k])
    BY <2>6, <2>7 DEF Distinct
  <2> QED
    BY <2>1, <2>2, <2>4, <2>5, <2>8
<1>6. Len(c[N]) = N /\ ToSet(c[N]) \subseteq All /\ Distinct(c[N]) /\ IsSeq(c[N])
  <2> HIDE DEF W
  <2>1. 0 .. N \subseteq W
    BY <1>1, <1>4, <1>5, Counting, Zenon
  <2>2. N \in W /\ N \in 0 .. N
    BY <1>1, <2>1
  <2> QED
    BY <1>2, <2>2 DEF W
<1>7. ToSet(c[N]) = All
  <2>1. Cardinality(ToSet(c[N])) = N /\ ToSet(c[N]) \in SUBSET All
    BY <1>6, RangeOf
  <2> QED
    BY <2>1, FS_Subset DEF N, All
<1> QED
  BY <1>2, <1>6, <1>7 DEF N, All

LEMMA IdsOf ==
  ASSUME NEW grips
  PROVE  Ids(grips) = {g.id : g \in ToSet(grips)}
  BY DEF Ids, ToSet

\* groupOrderAfterReplacement keeps the other grips and adds the new ones.
LEMMA ReplaceHolds ==
  ASSUME NEW grips, IsSeq(grips), NEW removed, NEW inserted, IsSeq(inserted)
  PROVE  ToSet(Replace(grips, removed, inserted))
           = {g \in ToSet(grips) : g.id \notin removed} \cup ToSet(inserted)
<1> DEFINE positions == {i \in DOMAIN grips : grips[i].id \notin removed}
           kept == Sublist(grips, positions)
           first == {i \in DOMAIN grips : grips[i].id \in removed}
           cut == IF first = {} THEN Len(kept) ELSE Min(first) - 1
<1>1. DOMAIN grips = 1 .. Len(grips) /\ Len(grips) \in Nat
  BY IsSeqFacts
<1>2. Replace(grips, removed, inserted)
        = SubSeq(kept, 1, cut) \o inserted \o SubSeq(kept, cut + 1, Len(kept))
  BY DEF Replace
<1>3. IsSeq(kept) /\ ToSet(kept) = {grips[i] : i \in positions \cap DOMAIN grips}
  BY SublistIsSeq, SublistHolds
<1>4. Len(kept) \in Nat
  BY <1>3, IsSeqFacts
<1>5. ASSUME first # {} PROVE Min(first) - 1 \in 0 .. Len(kept)
  <2> DEFINE m == Min(first) - 1
  <2>1. first \in SUBSET (1 .. Len(grips))
    BY <1>1
  <2>2. Min(first) \in first /\ \A i \in first : Min(first) <= i
    <3> HIDE DEF first
    <3> QED
      BY <1>1, <1>5, <2>1, MinOfSome
  <2>3. Min(first) \in 1 .. Len(grips)
    BY <2>1, <2>2
  <2>4. m \in 0 .. Len(grips) /\ \A i \in 1 .. m : i \in DOMAIN grips /\ ~(Min(first) <= i)
    <3> HIDE DEF first
    <3> QED
      BY <1>1, <2>3
  <2>5. 1 .. m \subseteq positions
    BY <2>2, <2>4
  <2> HIDE DEF m, positions
  <2>6. m <= Len(kept)
    BY <2>4, <2>5, SublistLong
  <2>7. m \in 0 .. Len(kept)
    BY <1>4, <2>4, <2>6
  <2> QED
    BY <2>7 DEF m
<1>6. cut \in 0 .. Len(kept)
  <2> HIDE DEF first, kept
  <2> QED
    BY <1>4, <1>5
<1>7. ToSet(kept) = {g \in ToSet(grips) : g.id \notin removed}
  BY <1>3 DEF ToSet
<1> HIDE DEF positions, kept, first, cut
<1>8. ToSet(SubSeq(kept, 1, cut) \o inserted \o SubSeq(kept, cut + 1, Len(kept)))
        = ToSet(kept) \cup ToSet(inserted)
  BY <1>3, <1>6, CutIn
<1> QED
  BY <1>2, <1>7, <1>8

LEMMA ReplacedIds ==
  ASSUME NEW grips, IsSeq(grips), NEW removed, NEW inserted, IsSeq(inserted)
  PROVE  Ids(Replace(grips, removed, inserted)) = (Ids(grips) \ removed) \cup Ids(inserted)
<1>1. ToSet(Replace(grips, removed, inserted))
        = {g \in ToSet(grips) : g.id \notin removed} \cup ToSet(inserted)
  BY ReplaceHolds
<1> QED
  BY <1>1, IdsOf

\* Putting one element elsewhere loses none.
LEMMA ReorderedHolds ==
  ASSUME NEW order, IsSeq(order), Distinct(order), NEW id \in ToSet(order),
         NEW k \in DOMAIN order
  PROVE  ToSet(Reordered(order, id, k)) = ToSet(order)
<1> DEFINE positions == {i \in DOMAIN order : order[i] # id}
           others == Sublist(order, positions)
<1>1. DOMAIN order = 1 .. Len(order) /\ Len(order) \in Nat /\ k \in 1 .. Len(order)
  BY IsSeqFacts
<1>2. IsSeq(others) /\ ToSet(others) = {order[i] : i \in positions \cap DOMAIN order}
  BY SublistIsSeq, SublistHolds
<1>3. ToSet(others) = ToSet(order) \ {id}
  BY <1>2 DEF ToSet
<1>4. Reordered(order, id, k)
        = SubSeq(others, 1, k - 1) \o <<id>> \o SubSeq(others, k, Len(others))
  BY DEF Reordered
<1> HIDE DEF positions, others
<1>5. k - 1 <= Len(others) /\ Len(others) \in Nat
  <2>1. /\ IsFiniteSet(ToSet(order)) /\ Cardinality(ToSet(order)) = Len(order)
        /\ Cardinality(ToSet(others)) <= Len(others) /\ Len(others) \in Nat
        /\ Cardinality(ToSet(others)) \in Nat
    BY <1>2, RangeOf, IsSeqFacts
  <2>2. Cardinality(ToSet(order) \ {id}) = Len(order) - 1
    BY <2>1, FS_RemoveElement
  <2> QED
    BY <1>1, <1>3, <2>1, <2>2
<1> DEFINE cut == k - 1
<1>6. cut \in 0 .. Len(others) /\ cut + 1 = k
  BY <1>1, <1>5
<1> HIDE DEF cut
<1>7. ToSet(SubSeq(others, 1, cut) \o <<id>> \o SubSeq(others, cut + 1, Len(others)))
        = ToSet(others) \cup ToSet(<<id>>)
  BY <1>2, <1>6, OneIsSeq, CutIn
<1>8. SubSeq(others, 1, k - 1) \o <<id>> \o SubSeq(others, k, Len(others))
        = SubSeq(others, 1, cut) \o <<id>> \o SubSeq(others, cut + 1, Len(others))
  BY <1>6 DEF cut
<1> QED
  BY <1>3, <1>4, <1>7, <1>8, OneHolds

-----------------------------------------------------------------------------
(* What a pattern is made of.                                              *)

GripRecords == [id : Grips, delta : LabelSides]

GripList(grips) == IsSeq(grips) /\ ToSet(grips) \subseteq GripRecords

WellPlaced(at) == at \in [DOMAIN at -> Placements] /\ DOMAIN at \subseteq Packages

\* Each package is in no grip or in one of these.
Linked(at, grips) == \A i \in DOMAIN at : at[i].grip \in Ids(grips) \cup {NoGrip}

IsPairs(deps) == \A d \in deps : d = <<d[1], d[2]>>

\* What a command hands to replacePattern, which restores the rest of IsPattern.
IsDraft(p) ==
  /\ IsRecord(p) /\ WellPlaced(p.at) /\ GripList(p.grips)
  /\ IsPairs(p.explicit) /\ Linked(p.at, p.grips)

LEMMA PatternIsDraft ==
  ASSUME NEW p, IsPattern(p)
  PROVE  /\ IsDraft(p) /\ IsLayer(p)
         /\ p.explicit \subseteq Ids(p.grips) \X Ids(p.grips)
         /\ p.cycles \in Seq(Cycles)
<1>1. /\ IsRecord(p) /\ p.at \in [DOMAIN p.at -> Placements]
      /\ p.grips \in Seq(GripRecords)
      /\ p.explicit \subseteq Ids(p.grips) \X Ids(p.grips)
      /\ p.cycles \in Seq(Cycles)
  BY DEF IsPattern, IsRecord, GripRecords
<1>2. GripList(p.grips)
  <2>1. IsSeq(p.grips)
    BY <1>1, SeqIsSeq
  <2>2. \A i \in DOMAIN p.grips : p.grips[i] \in GripRecords
    BY <1>1
  <2> QED
    BY <2>1, <2>2 DEF GripList, ToSet
<1>3. IsPairs(p.explicit)
  BY <1>1 DEF IsPairs
<1>4. WellPlaced(p.at) /\ Linked(p.at, p.grips)
  BY <1>1 DEF IsPattern, WellPlaced, Linked
<1>5. IsLying(p.at)
  <2>1. ASSUME NEW pl \in Placements PROVE IsPlaced(pl)
    BY DEF Placements, IsPlaced
  <2> QED
    BY <1>4, <2>1 DEF WellPlaced, IsLying
<1> QED
  BY <1>1, <1>2, <1>3, <1>4, <1>5 DEF IsDraft, IsLayer, GripList

LEMMA IdsAreGrips ==
  ASSUME NEW grips, GripList(grips)
  PROVE  Ids(grips) \subseteq Grips /\ NoGrip \notin Ids(grips) /\ IsFiniteSet(Ids(grips))
<1>1. Ids(grips) \subseteq Grips
  BY IdsOf DEF GripList, GripRecords
<1>2. NoGrip \notin Grips
  BY DEF NoGrip, Grips
<1>3. IsFiniteSet(Ids(grips))
  BY IdSeqIsSeq, RangeOf DEF GripList
<1> QED
  BY <1>1, <1>2, <1>3

\* The first free suffix is one of the first Cardinality(taken) + 1.
LEMMA FreshIdTyped ==
  ASSUME NEW taken, IsFiniteSet(taken), NEW S \in SUBSET Packages
  PROVE  /\ FreshId(taken, S) \in Grips /\ FreshId(taken, S) \notin taken
         /\ FreshId(taken, S).of = S
<1> DEFINE m == Cardinality(taken)
           free == {n \in 1 .. m + 1 : [of |-> S, n |-> n] \notin taken}
           f == [n \in 1 .. m + 1 |-> [of |-> S, n |-> n]]
<1>1. m \in Nat
  BY FS_CardinalityType
<1>2. free # {}
  <2> SUFFICES ASSUME free = {} PROVE FALSE
    OBVIOUS
  <2>1. \A n \in 1 .. m + 1 : f[n] \in taken
    OBVIOUS
  <2>2. \A j, k \in 1 .. m + 1 : f[j] = f[k] => j = k
    <3>1. \A k \in 1 .. m + 1 : f[k].n = k
      OBVIOUS
    <3> HIDE DEF f
    <3> QED
      BY <3>1
  <2>3. f \in [1 .. m + 1 -> taken]
    BY <2>1
  <2> HIDE DEF f, m, free
  <2>4. IsFiniteSet(1 .. m + 1) /\ Cardinality(1 .. m + 1) = m + 1
    BY <1>1, FS_Interval
  <2>5. f \in Injection(1 .. m + 1, taken)
    BY <2>2, <2>3 DEF Injection, IsInjective
  <2>6. Cardinality(1 .. m + 1) <= Cardinality(taken)
    BY <2>5, FS_Injection
  <2> QED
    BY <1>1, <2>4, <2>6 DEF m
<1>3. free \in SUBSET (1 .. m + 1) /\ m + 1 \in Nat
  BY <1>1
<1>4. Min(free) \in free
  <2> HIDE DEF free, m
  <2> QED
    BY <1>2, <1>3, MinOfSome
<1>5. FreshId(taken, S) = [of |-> S, n |-> Min(free)]
  BY DEF FreshId
<1>6. Min(free) \in Nat \ {0} /\ [of |-> S, n |-> Min(free)] \notin taken
  BY <1>1, <1>4
<1> HIDE DEF free
<1> QED
  BY <1>5, <1>6 DEF Grips

\* The label shared by some packages is theirs.
LEMMA NewGripTyped ==
  ASSUME NEW at, WellPlaced(at), NEW S \in SUBSET DOMAIN at, NEW id \in Grips
  PROVE  NewGrip(at, id, S) \in GripRecords /\ NewGrip(at, id, S).id = id
<1>1. NoLabel \in LabelSides
  BY DEF NoLabel, LabelSides
<1>2. ASSUME SharedLabel(at, S) # {} PROVE at[CHOOSE i \in S : TRUE].label \in LabelSides
  <2>1. S # {}
    <3>1. ASSUME S = {} PROVE {at[i].label : i \in S} = {}
      BY <3>1
    <3> QED
      BY <1>2, <3>1 DEF SharedLabel
  <2>2. (CHOOSE i \in S : TRUE) \in DOMAIN at
    BY <2>1
  <2> QED
    BY <2>2 DEF WellPlaced, Placements
<1> QED
  BY <1>1, <1>2 DEF NewGrip, GripRecords

LEMMA GripOfTyped ==
  ASSUME NEW grips, GripList(grips), NEW id \in Ids(grips)
  PROVE  /\ GripOf(grips, id) \in ToSet(grips) /\ GripOf(grips, id) \in GripRecords
         /\ GripOf(grips, id).id = id
  BY GripHasId DEF GripList, ToSet

\* synchronizePatternGrips keeps the ids of the grips that have packages.
LEMMA SynchronizedTyped ==
  ASSUME NEW before, before = <<>> \/ GripList(before), NEW at, WellPlaced(at),
         NEW grips, GripList(grips), NEW derive
  PROVE  /\ GripList(SynchronizedGrips(before, at, grips, derive))
         /\ Ids(SynchronizedGrips(before, at, grips, derive))
              = {id \in Ids(grips) : Members(at, id) # {}}
<1> DEFINE Old(g) == IF g.id \in Ids(before) THEN GripOf(before, g.id) ELSE g
           Sync(g) == LET S == Members(at, g.id)
                      IN IF g.id \in derive /\ SharedLabel(at, S) # {}
                         THEN NewGrip(at, g.id, S) ELSE Old(g)
           positions == {i \in DOMAIN grips : Members(at, grips[i].id) # {}}
           kept == Sublist(grips, positions)
           t == SynchronizedGrips(before, at, grips, derive)
<1>1. t = [i \in DOMAIN kept |-> Sync(kept[i])]
  BY DEF SynchronizedGrips
<1>2. IsSeq(kept) /\ ToSet(kept) = {grips[i] : i \in positions \cap DOMAIN grips}
  BY SublistIsSeq, SublistHolds DEF GripList
<1>3. ToSet(kept) = {g \in ToSet(grips) : Members(at, g.id) # {}}
  BY <1>2 DEF ToSet
<1>4. ASSUME NEW g \in GripRecords PROVE Sync(g) \in GripRecords /\ Sync(g).id = g.id
  <2>1. g.id \in Grips /\ Members(at, g.id) \in SUBSET DOMAIN at
    BY DEF GripRecords, Members
  <2>2. /\ NewGrip(at, g.id, Members(at, g.id)) \in GripRecords
        /\ NewGrip(at, g.id, Members(at, g.id)).id = g.id
    BY <2>1, NewGripTyped
  <2>3. Old(g) \in GripRecords /\ Old(g).id = g.id
    <3>1. CASE g.id \in Ids(before)
      <4>1. before # <<>>
        BY <3>1 DEF Ids
      <4> QED
        BY <3>1, <4>1, GripOfTyped
    <3>2. CASE g.id \notin Ids(before)
      BY <3>2
    <3> QED
      BY <3>1, <3>2
  <2> HIDE DEF Old
  <2> QED
    BY <2>2, <2>3
<1> HIDE DEF positions, kept, Sync, t
<1>5. \A i \in DOMAIN kept : kept[i] \in GripRecords
  BY <1>3 DEF GripList, ToSet
<1>6. IsSeq(t) /\ DOMAIN t = DOMAIN kept
  BY <1>1, <1>2, MappedOver
<1>7. \A i \in DOMAIN kept : t[i] \in GripRecords /\ t[i].id = kept[i].id
  BY <1>1, <1>4, <1>5
<1>8. ToSet(t) \subseteq GripRecords /\ Ids(t) = Ids(kept)
  BY <1>6, <1>7 DEF ToSet, Ids
<1>9. Ids(kept) = {id \in Ids(grips) : Members(at, id) # {}}
  BY <1>3, IdsOf
<1> QED
  BY <1>6, <1>8, <1>9 DEF GripList, t

\* Dependencies by places and blue lines are between grips.
LEMMA InferredPairs ==
  ASSUME NEW at, NEW grips
  PROVE  Inferred(at, grips) \subseteq Ids(grips) \X Ids(grips)
<1> DEFINE Boxes == GripBoxes(at, Ids(grips))
<1>1. DOMAIN Boxes = Ids(grips)
  BY DEF GripBoxes
<1> HIDE DEF Boxes
<1>2. ASSUME NEW g, NEW axis, NEW d
      PROVE  NearestInDirection(Boxes, g, axis, d) \subseteq DOMAIN Boxes
  BY DEF NearestInDirection, Nearest
<1>3. ASSUME NEW g, NEW d PROVE References(Boxes, g, d) \subseteq DOMAIN Boxes
  BY <1>2 DEF References
<1>4. ASSUME NEW delta
      PROVE  DeltaDependencies(Boxes, delta) \subseteq (DOMAIN Boxes) \X (DOMAIN Boxes)
  BY <1>3 DEF DeltaDependencies
<1>5. VerticalDependencies(Boxes) \subseteq (DOMAIN Boxes) \X (DOMAIN Boxes)
  BY DEF VerticalDependencies
<1>6. Inferred(at, grips)
        = DeltaDependencies(Boxes, [id \in Ids(grips) |-> GripOf(grips, id).delta])
            \cup VerticalDependencies(Boxes)
  BY DEF Inferred, Boxes
<1> QED
  BY <1>1, <1>4, <1>5, <1>6

LEMMA CyclesTyped ==
  ASSUME NEW cycles, NEW at, WellPlaced(at), NEW grips, GripList(grips)
  PROVE  SynchronizedCycles(cycles, at, grips) \in Seq(Cycles)
<1>1. <<>> \in Seq(Cycles)
  OBVIOUS
<1> DEFINE t == [i \in DOMAIN grips |->
                   [grip |-> grips[i].id, packages |-> Members(at, grips[i].id),
                    delta |-> grips[i].delta]]
<1>2. \A i \in DOMAIN grips : t[i] \in Cycles
  <2>1. ASSUME NEW i \in DOMAIN grips PROVE grips[i] \in GripRecords
    BY DEF GripList, ToSet
  <2>2. \A id : Members(at, id) \subseteq Packages
    BY DEF Members, WellPlaced
  <2> QED
    BY <2>1, <2>2 DEF GripRecords, Cycles
<1>3. t = [i \in DOMAIN grips |-> t[i]]
  OBVIOUS
<1>4. SynchronizedCycles(cycles, at, grips) = <<>> \/ SynchronizedCycles(cycles, at, grips) = t
  BY DEF SynchronizedCycles
<1> HIDE DEF t
<1>5. IsSeq(t) /\ DOMAIN t = DOMAIN grips
  BY <1>3, MappedOver DEF GripList
<1>6. t \in Seq(Cycles)
  BY <1>2, <1>5, InSeq DEF ToSet
<1> QED
  BY <1>1, <1>4, <1>6

LEMMA IsPatternFrom ==
  ASSUME NEW q, IsRecord(q), WellPlaced(q.at), GripList(q.grips), Linked(q.at, q.grips),
         q.explicit \subseteq Ids(q.grips) \X Ids(q.grips),
         q.inferred \subseteq Ids(q.grips) \X Ids(q.grips),
         q.cycles \in Seq(Cycles)
  PROVE  IsPattern(q)
<1>1. q = [at |-> q.at, grips |-> q.grips, explicit |-> q.explicit,
           inferred |-> q.inferred, cycles |-> q.cycles]
  BY DEF IsRecord
<1>2. q.grips \in Seq([id : Grips, delta : LabelSides])
  BY InSeq DEF GripList, GripRecords
<1>3. q.at \in [DOMAIN q.at -> Placements] /\ DOMAIN q.at \subseteq Packages
  BY DEF WellPlaced
<1>4. \A i \in DOMAIN q.at : q.at[i].grip \in Ids(q.grips) \cup {NoGrip}
  BY DEF Linked
<1>5. q \in [at : [DOMAIN q.at -> Placements],
             grips : Seq([id : Grips, delta : LabelSides]),
             explicit : SUBSET (Ids(q.grips) \X Ids(q.grips)),
             inferred : SUBSET (Ids(q.grips) \X Ids(q.grips)),
             cycles : Seq(Cycles)]
  BY <1>1, <1>2, <1>3
<1> QED
  BY <1>3, <1>4, <1>5 DEF IsPattern

\* The grips a command leaves packages in.
Gripped(p) == {id \in Ids(p.grips) : Members(p.at, id) # {}}

\* replacePattern makes a pattern of what a command hands to it.
LEMMA ReplacedTyped ==
  ASSUME NEW p, IsPattern(p), NEW c, IsDraft(c.next), NEW q \in Replaced(p, c), q # Broken
  PROVE  /\ IsPattern(q) /\ q.at = c.next.at
         /\ q.explicit = {d \in c.next.explicit : {d[1], d[2]} \subseteq Gripped(c.next)}
<1> DEFINE before == IF c.anew THEN <<>> ELSE p.grips
           at == c.next.at
           grips == SynchronizedGrips(before, at, c.next.grips, c.derive)
           start == [c.next EXCEPT !.cycles = p.cycles]
           e == {d \in start.explicit : {d[1], d[2]} \subseteq Ids(grips)}
           r == WithGrips(start, grips)
<1>1. IsDraft(p) /\ p.cycles \in Seq(Cycles)
  BY PatternIsDraft
<1>2. GripList(grips) /\ Ids(grips) = Gripped(c.next)
  <2>1. before = <<>> \/ GripList(before)
    BY <1>1 DEF IsDraft
  <2>2. WellPlaced(at) /\ GripList(c.next.grips)
    BY DEF IsDraft
  <2> HIDE DEF before
  <2> QED
    BY <2>1, <2>2, SynchronizedTyped DEF Gripped
<1>3. /\ IsRecord(start) /\ start.at = at /\ start.explicit = c.next.explicit
      /\ start.cycles = p.cycles
  BY DEF IsDraft, IsRecord
<1>4. q \in Recalculated(r, Inferred(r.at, r.grips))
  BY DEF Replaced, Placed
<1>5. r = [start EXCEPT !.grips = grips, !.explicit = e]
  BY DEF WithGrips
<1> HIDE DEF before, grips, start, e, r
<1>6. /\ IsRecord(r) /\ r.at = at /\ r.grips = grips /\ r.explicit = e
      /\ r.cycles = p.cycles
  BY <1>3, <1>5 DEF IsRecord
<1>7. /\ IsRecord(q) /\ q.at = r.at /\ IsSeq(q.grips)
      /\ q.explicit = r.explicit
      /\ q.inferred = Inferred(r.at, r.grips) \ r.explicit
      /\ q.cycles = SynchronizedCycles(r.cycles, r.at, q.grips)
      /\ Ids(q.grips) = Ids(r.grips)
      /\ ToSet(q.grips) \subseteq ToSet(r.grips)
  <2>1. IsSeq(r.grips)
    BY <1>2, <1>6 DEF GripList
  <2> QED
    BY <1>4, <1>6, <2>1, RecalculatedPlaceable
<1>8. GripList(q.grips) /\ Ids(q.grips) = Gripped(c.next)
  BY <1>2, <1>6, <1>7 DEF GripList
<1>9. WellPlaced(q.at)
  BY <1>6, <1>7 DEF IsDraft
<1>10. Linked(q.at, q.grips)
  BY <1>6, <1>7, <1>8 DEF IsDraft, Linked, Gripped, Members
<1>11. q.explicit \subseteq Ids(q.grips) \X Ids(q.grips)
  <2>1. \A d \in e : d = <<d[1], d[2]>> /\ d[1] \in Ids(grips) /\ d[2] \in Ids(grips)
    BY <1>3 DEF IsDraft, IsPairs, e
  <2>2. e \subseteq Ids(grips) \X Ids(grips)
    BY <2>1
  <2> QED
    BY <1>6, <1>7, <2>2
<1>12. q.inferred \subseteq Ids(q.grips) \X Ids(q.grips)
  BY <1>7, InferredPairs
<1>13. q.cycles \in Seq(Cycles)
  BY <1>7, <1>8, <1>9, CyclesTyped
<1>14. IsPattern(q)
  BY <1>7, <1>8, <1>9, <1>10, <1>11, <1>12, <1>13, IsPatternFrom
<1>15. q.explicit = {d \in c.next.explicit : {d[1], d[2]} \subseteq Gripped(c.next)}
  BY <1>2, <1>3, <1>6, <1>7 DEF e
<1> QED
  BY <1>6, <1>7, <1>14, <1>15

\* A record with other packages, grips or dependencies.
Amended(p, q, a, g, e) ==
  \/ q = [p EXCEPT !.at = a] /\ g = p.grips /\ e = p.explicit
  \/ q = [p EXCEPT !.grips = g] /\ a = p.at /\ e = p.explicit
  \/ q = [p EXCEPT !.explicit = e] /\ a = p.at /\ g = p.grips
  \/ q = [p EXCEPT !.grips = g, !.explicit = e] /\ a = p.at
  \/ q = [p EXCEPT !.explicit = e, !.at = a] /\ g = p.grips
  \/ q = [p EXCEPT !.at = a, !.grips = g, !.explicit = e]
  \/ q = [p EXCEPT !.grips = g, !.explicit = e, !.at = a]

LEMMA RecordBut ==
  ASSUME NEW p, IsRecord(p), NEW q, NEW a, NEW g, NEW e, Amended(p, q, a, g, e)
  PROVE  IsRecord(q) /\ q.at = a /\ q.grips = g /\ q.explicit = e
  BY DEF IsRecord, Amended

LEMMA PlacementLabelled ==
  ASSUME NEW pl \in Placements, NEW l \in LabelSides, NEW new, new = [pl EXCEPT !.label = l]
  PROVE  new \in Placements /\ new.grip = pl.grip
  BY DEF Placements

-----------------------------------------------------------------------------
(* What the commands hand to replacePattern.                               *)

\* Commands with some derivation.
LEMMA Changed ==
  ASSUME NEW next, NEW c, c = Change(next) \/ c = Move(next)
  PROVE  /\ c.next = next
         /\ \A d : [c EXCEPT !.derive = d].next = next
         /\ \A d : [c EXCEPT !.anew = d].next = next
<1>1. CASE c = Change(next)
  BY <1>1 DEF Change
<1>2. CASE c = Move(next)
  BY <1>2 DEF Change, Move
<1> QED
  BY <1>1, <1>2

LEMMA DraftWith ==
  ASSUME NEW p, IsDraft(p), NEW q, NEW a, NEW g, NEW e, Amended(p, q, a, g, e),
         WellPlaced(a), GripList(g), IsPairs(e), Linked(a, g)
  PROVE  IsDraft(q) /\ q.at = a /\ q.grips = g /\ q.explicit = e
<1>1. IsRecord(p)
  BY DEF IsDraft
<1>2. IsRecord(q) /\ q.at = a /\ q.grips = g /\ q.explicit = e
  BY <1>1, RecordBut
<1> QED
  BY <1>2 DEF IsDraft

\* Packages that are placed otherwise and stay in their grips.
LEMMA Replacing ==
  ASSUME NEW p, IsDraft(p), NEW a, a = [i \in DOMAIN p.at |-> a[i]],
         \A i \in DOMAIN p.at : a[i] \in Placements /\ a[i].grip = p.at[i].grip
  PROVE  IsDraft([p EXCEPT !.at = a])
<1> DEFINE q == [p EXCEPT !.at = a]
<1>1. WellPlaced(a)
  <2>1. DOMAIN a = DOMAIN p.at /\ DOMAIN p.at \subseteq Packages
    BY DEF IsDraft, WellPlaced
  <2> QED
    BY <2>1 DEF WellPlaced
<1>2. Linked(a, p.grips) /\ GripList(p.grips) /\ IsPairs(p.explicit)
  BY DEF IsDraft, Linked
<1>3. q = [p EXCEPT !.at = a]
  OBVIOUS
<1> HIDE DEF q
<1>4. IsDraft(q)
  BY <1>1, <1>2, <1>3, DraftWith DEF Amended
<1> QED
  BY <1>4 DEF q

LEMMA PlacementsOf ==
  ASSUME NEW p, IsDraft(p), NEW i \in DOMAIN p.at
  PROVE  /\ p.at[i] \in Placements
         /\ p.at[i].x \in Int /\ p.at[i].y \in Int /\ p.at[i].turn \in 0 .. 3
         /\ p.at[i].label \in LabelSides /\ p.at[i].grip \in Grips \cup {NoGrip}
<1>1. p.at[i] \in Placements
  BY DEF IsDraft, WellPlaced
<1> QED
  BY <1>1 DEF Placements

LEMMA MovedDraft ==
  ASSUME NEW p, IsDraft(p), NEW S, NEW step, step[1] \in Int, step[2] \in Int
  PROVE  IsDraft(MovePlacements(p, S, step).next)
<1> DEFINE New(pl) == [pl EXCEPT !.x = @ + step[1], !.y = @ + step[2]]
           at == [i \in DOMAIN p.at |-> IF i \in S THEN New(p.at[i]) ELSE p.at[i]]
           next == [p EXCEPT !.at = at]
<1>1. ASSUME NEW pl \in Placements PROVE New(pl) \in Placements /\ New(pl).grip = pl.grip
  <2> DEFINE a == pl.x + step[1]
             b == pl.y + step[2]
  <2>1. a \in Int /\ b \in Int /\ pl.turn \in 0 .. 3 /\ pl.label \in LabelSides
        /\ pl.grip \in Grips \cup {NoGrip}
    BY <1>1 DEF Placements
  <2> DEFINE new == New(pl)
  <2>2. new = [pl EXCEPT !.x = a, !.y = b]
    OBVIOUS
  <2> HIDE DEF a, b, new
  <2>3. new \in Placements /\ new.grip = pl.grip
    BY <2>1, <2>2 DEF Placements
  <2> QED
    BY <2>3 DEF new
<1>2. MovePlacements(p, S, step) = Move(next)
  BY DEF MovePlacements, WithPlacements
<1> HIDE DEF New
<1>3. \A i \in DOMAIN p.at : at[i] \in Placements /\ at[i].grip = p.at[i].grip
  BY <1>1, PlacementsOf
<1>4. at = [i \in DOMAIN p.at |-> at[i]]
  OBVIOUS
<1> HIDE DEF at
<1>5. IsDraft(next)
  BY <1>3, <1>4, Replacing
<1> QED
  BY <1>2, <1>5, Changed, Zenon

LEMMA TurnedLabel ==
  ASSUME NEW label \in LabelSides
  PROVE  Turned(label, 1) \in LabelSides
<1>1. label.x \in {-1, 0, 1} /\ label.y \in {-1, 0, 1}
  BY DEF LabelSides, Directions
<1>2. -label.y \in {-1, 0, 1}
  BY <1>1
<1> QED
  BY <1>1, <1>2 DEF LabelSides, Directions, Turned

LEMMA TurnedAboutTyped ==
  ASSUME NEW pl \in Placements, NEW x \in Int, NEW y \in Int
  PROVE  /\ TurnedAbout(pl, [x |-> x, y |-> y], 1) \in Placements
         /\ TurnedAbout(pl, [x |-> x, y |-> y], 1).grip = pl.grip
<1> DEFINE off == Turned([x |-> pl.x - x, y |-> pl.y - y], 1)
           a == x + off.x
           b == y + off.y
           t == (pl.turn + 1) % 4
           l == Turned(pl.label, 1)
           new == TurnedAbout(pl, [x |-> x, y |-> y], 1)
<1>1. off = [x |-> -(pl.y - y), y |-> pl.x - x]
  BY DEF Turned
<1>2. pl.x \in Int /\ pl.y \in Int /\ pl.turn \in 0 .. 3 /\ pl.label \in LabelSides
      /\ pl.grip \in Grips \cup {NoGrip}
  BY DEF Placements
<1>3. a \in Int /\ b \in Int
  BY <1>1, <1>2
<1>4. t \in 0 .. 3
  BY <1>2
<1>5. l \in LabelSides
  BY <1>2, TurnedLabel
<1>6. new = [pl EXCEPT !.x = a, !.y = b, !.turn = t, !.label = l]
  BY DEF TurnedAbout
<1> HIDE DEF a, b, t, l, new
<1>7. new \in Placements /\ new.grip = pl.grip
  BY <1>2, <1>3, <1>4, <1>5, <1>6 DEF Placements
<1> QED
  BY <1>7 DEF new

LEMMA RotatedDraft ==
  ASSUME NEW p, IsDraft(p), NEW S, NEW x \in Int, NEW y \in Int
  PROVE  IsDraft(RotatePlacements(p, S, [x |-> x, y |-> y], 1).next)
<1> DEFINE New(pl) == TurnedAbout(pl, [x |-> x, y |-> y], 1)
           at == [i \in DOMAIN p.at |-> IF i \in S THEN New(p.at[i]) ELSE p.at[i]]
           next == [p EXCEPT !.at = at]
           derive == {p.at[i].grip : i \in {j \in S : 1 # 0 /\ p.at[j].label # NoLabel}}
           c == RotatePlacements(p, S, [x |-> x, y |-> y], 1)
<1>1. ASSUME NEW pl \in Placements PROVE New(pl) \in Placements /\ New(pl).grip = pl.grip
  BY <1>1, TurnedAboutTyped
<1>2. c = [Move(next) EXCEPT !.derive = derive]
  BY DEF RotatePlacements, WithPlacements
<1> HIDE DEF New, derive, c
<1>3. \A i \in DOMAIN p.at : at[i] \in Placements /\ at[i].grip = p.at[i].grip
  BY <1>1, PlacementsOf
<1>4. at = [i \in DOMAIN p.at |-> at[i]]
  OBVIOUS
<1> HIDE DEF at
<1>5. IsDraft(next)
  BY <1>3, <1>4, Replacing
<1>6. c.next = next
  BY <1>2, Changed, Zenon
<1> QED
  BY <1>5, <1>6 DEF c

LEMMA LabelledDraft ==
  ASSUME NEW p, IsDraft(p), NEW S, NEW label \in LabelSides
  PROVE  IsDraft(SetLabelSide(p, S, label).next)
<1> DEFINE New(pl) == [pl EXCEPT !.label = label]
           at == [i \in DOMAIN p.at |-> IF i \in S THEN New(p.at[i]) ELSE p.at[i]]
           next == [p EXCEPT !.at = at]
           derive == {p.at[i].grip : i \in S}
           c == SetLabelSide(p, S, label)
<1>1. ASSUME NEW pl \in Placements PROVE New(pl) \in Placements /\ New(pl).grip = pl.grip
  <2>1. pl.x \in Int /\ pl.y \in Int /\ pl.turn \in 0 .. 3 /\ pl.grip \in Grips \cup {NoGrip}
    BY <1>1 DEF Placements
  <2>2. New(pl) = [pl EXCEPT !.label = label]
    OBVIOUS
  <2> HIDE DEF New
  <2> QED
    BY <1>1, <2>1, <2>2, PlacementLabelled
<1>2. c = [Change(next) EXCEPT !.derive = derive]
  BY DEF SetLabelSide, WithPlacements
<1> HIDE DEF New, derive, c
<1>3. \A i \in DOMAIN p.at : at[i] \in Placements /\ at[i].grip = p.at[i].grip
  BY <1>1, PlacementsOf
<1>4. at = [i \in DOMAIN p.at |-> at[i]]
  OBVIOUS
<1> HIDE DEF at
<1>5. IsDraft(next)
  BY <1>3, <1>4, Replacing
<1>6. c.next = next
  BY <1>2, Changed, Zenon
<1> QED
  BY <1>5, <1>6 DEF c

LEMMA DeletedDraft ==
  ASSUME NEW p, IsDraft(p), NEW S
  PROVE  IsDraft(DeletePlacements(p, S).next)
<1> DEFINE at == [i \in (DOMAIN p.at) \ S |-> p.at[i]]
           next == [p EXCEPT !.at = at]
<1>1. DeletePlacements(p, S) = Move(next)
  BY DEF DeletePlacements
<1>2. WellPlaced(at) /\ Linked(at, p.grips)
  BY DEF IsDraft, WellPlaced, Linked
<1>3. GripList(p.grips) /\ IsPairs(p.explicit)
  BY DEF IsDraft
<1>4. next = [p EXCEPT !.at = at]
  OBVIOUS
<1> HIDE DEF at, next
<1>5. IsDraft(next)
  BY <1>2, <1>3, <1>4, DraftWith DEF Amended
<1> QED
  BY <1>1, <1>5, Changed, Zenon

LEMMA CenteredDraft ==
  ASSUME NEW p, IsDraft(p), IsLayer(p), NEW S \in SUBSET DOMAIN p.at, S # {}
  PROVE  IsDraft(CenterPlacements(p, S).next)
<1> DEFINE boxes == {Box(p.at[i]) : i \in S}
           step == CenteringStep2(p, S)
           half == [k \in 1 .. 2 |-> step[k] \div 2]
<1>1. IsFiniteSet(boxes) /\ boxes # {} /\ \A b \in boxes : IsBox(b)
  BY BoxesFinite DEF IsLayer
<1>2. Centre2(boxes, "x") \in Int /\ Centre2(boxes, "y") \in Int
  BY <1>1, CentreInt
<1>3. step[1] \in Int /\ step[2] \in Int
  BY <1>2, Halves DEF CenteringStep2
<1> HIDE DEF step
<1>4. half[1] \in Int /\ half[2] \in Int
  BY <1>3
<1>5. CenterPlacements(p, S) = MovePlacements(p, S, half)
  BY DEF CenterPlacements, step
<1> HIDE DEF half
<1> QED
  BY <1>4, <1>5, MovedDraft

-----------------------------------------------------------------------------
(* Packages that change their grips.                                       *)

DraftFinite(p) == IsFiniteSet(DOMAIN p.at) /\ \A id : Members(p.at, id) \in SUBSET DOMAIN p.at

LEMMA DraftIsFinite ==
  ASSUME NEW p, IsDraft(p)
  PROVE  DraftFinite(p) /\ DOMAIN p.at \subseteq Packages
<1>1. DOMAIN p.at \subseteq Packages
  BY DEF IsDraft, WellPlaced
<1>2. IsFiniteSet(DOMAIN p.at)
  BY <1>1, PatternAssumption, FS_Subset
<1> QED
  BY <1>1, <1>2 DEF DraftFinite, Members

\* The packages of S go to grips of f.
Rehouses(at, S, f, bt) ==
  /\ bt = [i \in DOMAIN at |-> bt[i]]
  /\ \A i \in DOMAIN at : i \in S => bt[i] = [at[i] EXCEPT !.grip = f[i]]
  /\ \A i \in DOMAIN at : i \notin S => bt[i] = at[i]

LEMMA Rehoused ==
  ASSUME NEW at, WellPlaced(at), NEW S, NEW f,
         \A i \in (DOMAIN at) \cap S : f[i] \in Grips \cup {NoGrip},
         NEW bt, Rehouses(at, S, f, bt)
  PROVE  /\ WellPlaced(bt) /\ DOMAIN bt = DOMAIN at
         /\ \A i \in DOMAIN at : bt[i].grip = IF i \in S THEN f[i] ELSE at[i].grip
<1>1. ASSUME NEW i \in DOMAIN at
      PROVE  bt[i] \in Placements /\ bt[i].grip = IF i \in S THEN f[i] ELSE at[i].grip
  <2>1. at[i] \in Placements
    BY DEF WellPlaced
  <2>2. CASE i \in S
    <3>1. bt[i] = [at[i] EXCEPT !.grip = f[i]] /\ f[i] \in Grips \cup {NoGrip}
      BY <2>2 DEF Rehouses
    <3> QED
      BY <2>1, <2>2, <3>1 DEF Placements
  <2>3. CASE i \notin S
    BY <2>1, <2>3 DEF Rehouses
  <2> QED
    BY <2>2, <2>3
<1>2. DOMAIN bt = DOMAIN at /\ DOMAIN at \subseteq Packages
  BY DEF Rehouses, WellPlaced
<1> QED
  BY <1>1, <1>2 DEF WellPlaced, Rehouses

\* First the packages, then grips and dependencies.
Remade(p, a, q, g, e, r) ==
  q = [p EXCEPT !.at = a] /\ r = [q EXCEPT !.grips = g, !.explicit = e]

LEMMA DraftTwice ==
  ASSUME NEW p, IsRecord(p), NEW a, NEW q, NEW g, NEW e, NEW r, Remade(p, a, q, g, e, r),
         WellPlaced(a), GripList(g), IsPairs(e), Linked(a, g)
  PROVE  IsDraft(r) /\ r.at = a /\ r.grips = g /\ r.explicit = e
<1>1. IsRecord(q) /\ q.at = a
  BY DEF IsRecord, Remade
<1>2. IsRecord(r) /\ r.at = a /\ r.grips = g /\ r.explicit = e
  BY <1>1 DEF IsRecord, Remade
<1> QED
  BY <1>2 DEF IsDraft

LEMMA DraftFields ==
  ASSUME NEW p, IsRecord(p), NEW a, NEW q, q = [p EXCEPT !.at = a]
  PROVE  q.at = a /\ q.grips = p.grips /\ q.explicit = p.explicit /\ IsRecord(q)
  BY DEF IsRecord

LEMMA ReplaceTyped ==
  ASSUME NEW grips, GripList(grips), NEW removed, NEW inserted, GripList(inserted)
  PROVE  /\ GripList(Replace(grips, removed, inserted))
         /\ Ids(Replace(grips, removed, inserted)) = (Ids(grips) \ removed) \cup Ids(inserted)
<1>1. IsSeq(grips) /\ IsSeq(inserted) /\ ToSet(grips) \subseteq GripRecords
      /\ ToSet(inserted) \subseteq GripRecords
  BY DEF GripList
<1>2. IsSeq(Replace(grips, removed, inserted))
  BY <1>1, ReplaceIsSeq
<1>3. ToSet(Replace(grips, removed, inserted))
        = {g \in ToSet(grips) : g.id \notin removed} \cup ToSet(inserted)
  BY <1>1, ReplaceHolds
<1>4. Ids(Replace(grips, removed, inserted)) = (Ids(grips) \ removed) \cup Ids(inserted)
  BY <1>1, ReplacedIds
<1> QED
  BY <1>1, <1>2, <1>3, <1>4 DEF GripList

LEMMA OneGrip ==
  ASSUME NEW g \in GripRecords
  PROVE  GripList(<<g>>) /\ Ids(<<g>>) = {g.id}
<1>1. IsSeq(<<g>>) /\ ToSet(<<g>>) = {g}
  BY OneIsSeq, OneHolds
<1> QED
  BY <1>1, IdsOf DEF GripList

\* createGroup.
Created(p, S, affected, r) ==
  LET id == FreshId(Ids(p.grips) \ affected, S)
      removed == {g \in affected : Members(p.at, g) \subseteq S}
  IN /\ Ids(r.grips) = (Ids(p.grips) \ removed) \cup {id}
     /\ DOMAIN r.at = DOMAIN p.at
     /\ \A i \in DOMAIN p.at : r.at[i].grip = IF i \in S THEN id ELSE p.at[i].grip
     /\ r.explicit = Remap(p.explicit, LAMBDA g : IF g \in removed THEN id ELSE g)
     /\ id \in Grips

LEMMA CreatedDraft ==
  ASSUME NEW p, IsDraft(p), NEW S \in SUBSET DOMAIN p.at, NEW affected
  PROVE  LET r == CreatedGroup(p, S, affected)
         IN IsDraft(r) /\ ((r = p /\ Cardinality(affected) = 1) \/ Created(p, S, affected, r))
<1> DEFINE id == FreshId(Ids(p.grips) \ affected, S)
           removed == {g \in affected : Members(p.at, g) \subseteq S}
           at == [i \in DOMAIN p.at |-> IF i \in S THEN [p.at[i] EXCEPT !.grip = id]
                                                   ELSE p.at[i]]
           f == [i \in S |-> id]
           q == [p EXCEPT !.at = at]
           g == Replace(p.grips, removed, <<NewGrip(p.at, id, S)>>)
           e == Remap(p.explicit, LAMBDA h : IF h \in removed THEN id ELSE h)
           r == CreatedGroup(p, S, affected)
<1>1. /\ IsRecord(p) /\ WellPlaced(p.at) /\ GripList(p.grips) /\ Linked(p.at, p.grips)
  BY DEF IsDraft
<1>2. S \subseteq Packages
  BY DraftIsFinite
<1>3. id \in Grips
  <2>1. IsFiniteSet(Ids(p.grips) \ affected)
    BY <1>1, IdsAreGrips, FS_Subset
  <2> QED
    BY <1>2, <2>1, FreshIdTyped
<1>4. q.grips = p.grips /\ q.explicit = p.explicit
  <2> HIDE DEF at
  <2> QED
    BY <1>1, DraftFields
<1>5. (r = p /\ Cardinality(affected) = 1) \/ r = [q EXCEPT !.grips = g, !.explicit = e]
  <2>1. (r = p /\ Cardinality(affected) = 1)
        \/ r = [q EXCEPT !.grips = Replace(q.grips, removed, <<NewGrip(p.at, id, S)>>),
                         !.explicit = Remap(q.explicit, LAMBDA h : IF h \in removed THEN id ELSE h)]
    BY DEF CreatedGroup, WithPlacements
  <2> HIDE DEF q
  <2> QED
    BY <1>4, <2>1
<1>6. Rehouses(p.at, S, f, at)
  BY DEF Rehouses
<1>7. IsPairs(e)
  BY DEF IsPairs, Remap
<1>8. \A i \in (DOMAIN p.at) \ S : p.at[i].grip \notin removed
  BY DEF Members
<1>9. f = [i \in S |-> id]
  OBVIOUS
<1>10. q = [p EXCEPT !.at = at]
  OBVIOUS
<1> HIDE DEF at, f, e, removed, id
<1>11. /\ WellPlaced(at) /\ DOMAIN at = DOMAIN p.at
       /\ \A i \in DOMAIN p.at : at[i].grip = IF i \in S THEN id ELSE p.at[i].grip
  <2>1. \A i \in (DOMAIN p.at) \cap S : f[i] \in Grips \cup {NoGrip}
    BY <1>3, <1>9
  <2>2. /\ WellPlaced(at) /\ DOMAIN at = DOMAIN p.at
        /\ \A i \in DOMAIN p.at : at[i].grip = IF i \in S THEN f[i] ELSE p.at[i].grip
    BY <1>1, <1>6, <2>1, Rehoused
  <2> QED
    BY <1>9, <2>2
<1>12. GripList(g) /\ Ids(g) = (Ids(p.grips) \ removed) \cup {id}
  <2>1. NewGrip(p.at, id, S) \in GripRecords /\ NewGrip(p.at, id, S).id = id
    BY <1>1, <1>3, NewGripTyped
  <2>2. GripList(<<NewGrip(p.at, id, S)>>) /\ Ids(<<NewGrip(p.at, id, S)>>) = {id}
    BY <2>1, OneGrip
  <2> QED
    BY <1>1, <2>2, ReplaceTyped
<1>13. Linked(at, g)
  BY <1>1, <1>8, <1>11, <1>12 DEF Linked
<1> HIDE DEF g, r, q
<1>14. CASE r = p /\ Cardinality(affected) = 1
  BY <1>14 DEF r
<1>15. CASE r = [q EXCEPT !.grips = g, !.explicit = e]
  <2>1. Remade(p, at, q, g, e, r)
    BY <1>10, <1>15 DEF Remade
  <2>2. IsDraft(r) /\ r.at = at /\ r.grips = g /\ r.explicit = e
    BY <1>1, <1>7, <1>11, <1>12, <1>13, <2>1, DraftTwice
  <2>3. Created(p, S, affected, r)
    BY <1>3, <1>11, <1>12, <2>2 DEF Created, removed, id, e
  <2> QED
    BY <2>2, <2>3 DEF r
<1> QED
  BY <1>5, <1>14, <1>15

LEMMA CreateDraft ==
  ASSUME NEW p, IsDraft(p), NEW S \in SUBSET DOMAIN p.at, NEW c \in CreateGroup(p, S)
  PROVE  IsDraft(c.next)
<1>1. c = Change(CreatedGroup(p, S, Affected(p, S)))
  BY DEF CreateGroup
<1>2. IsDraft(CreatedGroup(p, S, Affected(p, S)))
  BY CreatedDraft
<1> QED
  BY <1>1, <1>2, Changed, Zenon

LEMMA InsertedDraft ==
  ASSUME NEW p, IsDraft(p), IsLayer(p), NEW i \in Packages, NEW turn \in 0 .. 1,
         NEW c \in InsertPlacement(p, i, turn)
  PROVE  IsDraft(c.next)
<1>1. PICK pl \in InsertionPosition(p, turn) :
        LET With == [p EXCEPT !.at = [j \in {i} \cup DOMAIN p.at |->
                                        IF j = i THEN pl ELSE p.at[j]]]
        IN c = Move(IF p.grips = <<>> THEN With ELSE CreatedGroup(With, {i}, {}))
  BY DEF InsertPlacement
<1> DEFINE at == [j \in {i} \cup DOMAIN p.at |-> IF j = i THEN pl ELSE p.at[j]]
           q == [p EXCEPT !.at = at]
<1>2. pl \in Placements /\ pl.grip = NoGrip
  <2>1. pl.x \in Int /\ pl.y \in Int
    BY InsertionPlaced DEF IsPlaced
  <2>2. pl = [x |-> pl.x, y |-> pl.y, turn |-> turn, label |-> NoLabel, grip |-> NoGrip]
    BY DEF InsertionPosition
  <2>3. NoLabel \in LabelSides /\ turn \in 0 .. 3
    BY DEF NoLabel, LabelSides
  <2> QED
    BY <2>1, <2>2, <2>3 DEF Placements
<1>3. /\ WellPlaced(p.at) /\ GripList(p.grips) /\ IsPairs(p.explicit) /\ Linked(p.at, p.grips)
  BY DEF IsDraft
<1>4. WellPlaced(at) /\ Linked(at, p.grips) /\ i \in DOMAIN at
  BY <1>2, <1>3 DEF WellPlaced, Linked
<1>5. c = Move(q) \/ c = Move(CreatedGroup(q, {i}, {}))
  BY <1>1
<1>6. Amended(p, q, at, p.grips, p.explicit)
  BY DEF Amended
<1> HIDE DEF at, q
<1>7. IsDraft(q) /\ q.at = at
  BY <1>3, <1>4, <1>6, DraftWith
<1>8. IsDraft(CreatedGroup(q, {i}, {}))
  <2>1. {i} \in SUBSET DOMAIN q.at
    BY <1>4, <1>7
  <2> QED
    BY <1>7, <2>1, CreatedDraft
<1> QED
  BY <1>5, <1>7, <1>8, Changed, Zenon

LEMMA RemovedDraft ==
  ASSUME NEW p, IsDraft(p), NEW id
  PROVE  IsDraft(RemoveGroup(p, id).next)
<1> DEFINE S == Members(p.at, id)
           f == [i \in S |-> NoGrip]
           at == [i \in DOMAIN p.at |-> IF i \in S THEN [p.at[i] EXCEPT !.grip = NoGrip]
                                                   ELSE p.at[i]]
           q == [p EXCEPT !.at = at]
           positions == {i \in DOMAIN p.grips : p.grips[i].id # id}
           g == Sublist(p.grips, positions)
           e == {d \in p.explicit : id \notin {d[1], d[2]}}
           r == [q EXCEPT !.grips = g, !.explicit = e]
<1>1. IsRecord(p) /\ WellPlaced(p.at) /\ GripList(p.grips) /\ Linked(p.at, p.grips)
      /\ IsPairs(p.explicit)
  BY DEF IsDraft
<1>2. q.grips = p.grips /\ q.explicit = p.explicit
  <2> HIDE DEF at
  <2> QED
    BY <1>1, DraftFields
<1>3. RemoveGroup(p, id) = Change(r)
  <2>1. RemoveGroup(p, id)
          = Change([q EXCEPT !.grips = Sublist(q.grips, {i \in DOMAIN q.grips : q.grips[i].id # id}),
                             !.explicit = {d \in q.explicit : id \notin {d[1], d[2]}}])
    BY DEF RemoveGroup, WithPlacements
  <2> HIDE DEF q
  <2> QED
    BY <1>2, <2>1
<1>4. Rehouses(p.at, S, f, at)
  BY DEF Rehouses
<1>5. IsPairs(e)
  BY <1>1 DEF IsPairs
<1>6. f = [i \in S |-> NoGrip] /\ S = {i \in DOMAIN p.at : p.at[i].grip = id}
  BY DEF Members
<1>7. Remade(p, at, q, g, e, r)
  BY DEF Remade
<1>8. GripList(g) /\ Ids(g) = Ids(p.grips) \ {id}
  <2>1. IsSeq(g) /\ ToSet(g) = {p.grips[i] : i \in positions \cap DOMAIN p.grips}
    BY <1>1, SublistIsSeq, SublistHolds DEF GripList
  <2>2. ToSet(g) = {h \in ToSet(p.grips) : h.id # id}
    BY <2>1 DEF ToSet
  <2> HIDE DEF g
  <2>3. Ids(g) = Ids(p.grips) \ {id}
    BY <2>2, IdsOf
  <2> QED
    BY <1>1, <2>1, <2>2, <2>3 DEF GripList
<1> HIDE DEF S, at, f, e, q, g, r
<1>9. /\ WellPlaced(at) /\ DOMAIN at = DOMAIN p.at
      /\ \A i \in DOMAIN p.at : at[i].grip = IF i \in S THEN NoGrip ELSE p.at[i].grip
  <2>1. \A i \in (DOMAIN p.at) \cap S : f[i] \in Grips \cup {NoGrip}
    BY <1>6
  <2>2. /\ WellPlaced(at) /\ DOMAIN at = DOMAIN p.at
        /\ \A i \in DOMAIN p.at : at[i].grip = IF i \in S THEN f[i] ELSE p.at[i].grip
    BY <1>1, <1>4, <2>1, Rehoused
  <2>3. \A i \in S : f[i] = NoGrip
    BY <1>6
  <2> QED
    BY <2>2, <2>3
<1>10. Linked(at, g)
  BY <1>1, <1>6, <1>8, <1>9 DEF Linked
<1>11. IsDraft(r)
  BY <1>1, <1>5, <1>7, <1>8, <1>9, <1>10, DraftTwice
<1> QED
  BY <1>3, <1>11, Changed, Zenon

\* splitGroup.
SplitFrom(p, id, r) ==
  \E heirs : /\ Ids(r.grips) = (Ids(p.grips) \ {id}) \cup ToSet(heirs)
             /\ DOMAIN r.at = DOMAIN p.at
             /\ \A i \in DOMAIN p.at : p.at[i].grip = id => r.at[i].grip \in ToSet(heirs)
             /\ \A i \in DOMAIN p.at : p.at[i].grip # id => r.at[i].grip = p.at[i].grip
             /\ r.explicit = Inherited(p.explicit, id, heirs)

\* The parts of a grip, one for each of its packages.
ArePartsOf(p, id, parts) ==
  /\ GripList(parts)
  /\ \A g \in Ids(parts) : \A h \in Ids(parts) : g.of = h.of => g = h
  /\ \A i \in Members(p.at, id) : \E g \in Ids(parts) : g.of = {i}

LEMMA SplitIntoDraft ==
  ASSUME NEW p, IsDraft(p), NEW id, NEW parts, ArePartsOf(p, id, parts)
  PROVE  IsDraft(SplitInto(p, id, parts)) /\ SplitFrom(p, id, SplitInto(p, id, parts))
<1> DEFINE Part(i) == CHOOSE g \in Ids(parts) : g.of = {i}
           S == Members(p.at, id)
           f == [i \in S |-> Part(i)]
           at == [i \in DOMAIN p.at |-> IF p.at[i].grip = id
                                        THEN [p.at[i] EXCEPT !.grip = Part(i)]
                                        ELSE p.at[i]]
           q == [p EXCEPT !.at = at]
           g == Replace(p.grips, {id}, parts)
           e == Inherited(p.explicit, id, IdSeq(parts))
           r == SplitInto(p, id, parts)
<1>1. IsRecord(p) /\ WellPlaced(p.at) /\ GripList(p.grips) /\ Linked(p.at, p.grips)
  BY DEF IsDraft
<1>2. r = [q EXCEPT !.grips = g, !.explicit = e]
  BY DEF SplitInto
<1>3. GripList(parts) /\ ToSet(IdSeq(parts)) = Ids(parts)
  BY IdSeqIsSeq DEF ArePartsOf, GripList
<1>4. ASSUME NEW i \in S PROVE Part(i) \in Ids(parts) /\ Part(i) \in Grips
  <2>1. Part(i) \in Ids(parts)
    BY DEF ArePartsOf
  <2> HIDE DEF Part
  <2> QED
    BY <1>3, <2>1, IdsAreGrips
<1> HIDE DEF Part
<1>5. S = {i \in DOMAIN p.at : p.at[i].grip = id} /\ S \in SUBSET DOMAIN p.at
  BY DEF Members
<1>6. Rehouses(p.at, S, f, at)
  BY <1>5 DEF Rehouses
<1>7. IsPairs(e)
  BY DEF IsPairs, Inherited
<1>8. f = [i \in S |-> Part(i)]
  OBVIOUS
<1>9. Remade(p, at, q, g, e, r)
  BY <1>2 DEF Remade
<1>10. GripList(g) /\ Ids(g) = (Ids(p.grips) \ {id}) \cup Ids(parts)
  BY <1>1, <1>3, ReplaceTyped
<1> HIDE DEF S, f, at, q, g, e, r
<1>11. /\ WellPlaced(at) /\ DOMAIN at = DOMAIN p.at
       /\ \A i \in DOMAIN p.at : at[i].grip = IF i \in S THEN Part(i) ELSE p.at[i].grip
  <2>1. \A i \in (DOMAIN p.at) \cap S : f[i] \in Grips \cup {NoGrip}
    BY <1>4, <1>8
  <2>2. /\ WellPlaced(at) /\ DOMAIN at = DOMAIN p.at
        /\ \A i \in DOMAIN p.at : at[i].grip = IF i \in S THEN f[i] ELSE p.at[i].grip
    BY <1>1, <1>6, <2>1, Rehoused
  <2>3. \A i \in S : f[i] = Part(i)
    BY <1>8
  <2> QED
    BY <2>2, <2>3
<1>12. Linked(at, g)
  BY <1>1, <1>4, <1>5, <1>10, <1>11 DEF Linked
<1>13. IsDraft(r) /\ r.at = at /\ r.grips = g /\ r.explicit = e
  BY <1>1, <1>7, <1>9, <1>10, <1>11, <1>12, DraftTwice
<1>14. SplitFrom(p, id, r)
  <2>1. \A i \in DOMAIN p.at : p.at[i].grip = id => at[i].grip \in ToSet(IdSeq(parts))
    BY <1>3, <1>4, <1>5, <1>11
  <2>2. \A i \in DOMAIN p.at : p.at[i].grip # id => at[i].grip = p.at[i].grip
    BY <1>5, <1>11
  <2> QED
    BY <1>3, <1>10, <1>11, <1>13, <2>1, <2>2 DEF SplitFrom, e
<1> QED
  BY <1>13, <1>14 DEF r

LEMMA SplitDraft ==
  ASSUME NEW p, IsDraft(p), NEW id \in Ids(p.grips)
  PROVE  LET r == SplitGroup(p, id).next
         IN IsDraft(r) /\ (r = p \/ SplitFrom(p, id, r))
<1> DEFINE M == Members(p.at, id)
           key == [i \in M |-> <<i>>]
           alone == SortedBy(key)
           taken == Ids(p.grips) \ {id}
           Fresh(i) == FreshId(taken, {i})
           Part(k) == IF k = 1 THEN [id |-> Fresh(alone[1]), delta |-> GripOf(p.grips, id).delta]
                      ELSE NewGrip(p.at, Fresh(alone[k]), {alone[k]})
           parts == [k \in DOMAIN alone |-> Part(k)]
           s == SplitInto(p, id, parts)
<1>1. WellPlaced(p.at) /\ GripList(p.grips) /\ DOMAIN p.at \subseteq Packages
      /\ M \in SUBSET DOMAIN p.at /\ IsFiniteSet(M)
  BY DraftIsFinite, FS_Subset DEF IsDraft, DraftFinite
<1>2. SplitGroup(p, id).next = p \/ SplitGroup(p, id).next = s
  <2>1. SplitGroup(p, id) = Change(p) \/ SplitGroup(p, id) = Change(s)
    BY DEF SplitGroup
  <2> HIDE DEF s
  <2> QED
    BY <2>1, Changed, Zenon
<1>3. IsSeq(alone) /\ ToSet(alone) = M
  <2>1. DOMAIN key = M /\ \A i \in DOMAIN key : IsKey(key[i], 1)
    BY <1>1, PatternAssumption DEF IsKey
  <2>2. 1 \in Nat
    OBVIOUS
  <2> HIDE DEF key
  <2> QED
    BY <1>1, <2>1, <2>2, SortedAll
<1>4. IsFiniteSet(taken)
  BY <1>1, IdsAreGrips, FS_Subset
<1> HIDE DEF M, alone, taken
<1>5. ASSUME NEW i \in M PROVE Fresh(i) \in Grips /\ Fresh(i).of = {i}
  <2>1. {i} \in SUBSET Packages
    BY <1>1
  <2> QED
    BY <1>4, <2>1, FreshIdTyped
<1> HIDE DEF Fresh
<1>6. ASSUME NEW k \in DOMAIN alone
      PROVE  parts[k] \in GripRecords /\ parts[k].id = Fresh(alone[k]) /\ alone[k] \in M
  <2>1. alone[k] \in M
    BY <1>3 DEF ToSet
  <2>2. Fresh(alone[k]) \in Grips /\ {alone[k]} \in SUBSET DOMAIN p.at
    BY <1>1, <1>5, <2>1
  <2>3. GripOf(p.grips, id).delta \in LabelSides
    BY <1>1, GripOfTyped DEF GripRecords
  <2>4. /\ NewGrip(p.at, Fresh(alone[k]), {alone[k]}) \in GripRecords
        /\ NewGrip(p.at, Fresh(alone[k]), {alone[k]}).id = Fresh(alone[k])
    BY <1>1, <2>2, NewGripTyped
  <2>5. Part(k) \in GripRecords /\ Part(k).id = Fresh(alone[k])
    BY <2>2, <2>3, <2>4 DEF GripRecords
  <2> HIDE DEF Part
  <2> QED
    BY <2>1, <2>5
<1>7. parts = [k \in DOMAIN alone |-> parts[k]]
  OBVIOUS
<1> HIDE DEF parts
<1>8. IsSeq(parts) /\ DOMAIN parts = DOMAIN alone
  BY <1>3, <1>7, MappedOver
<1>9. Ids(parts) = {Fresh(i) : i \in M}
  BY <1>3, <1>6, <1>8 DEF Ids, ToSet
<1>10. ArePartsOf(p, id, parts)
  <2>1. GripList(parts)
    BY <1>6, <1>8 DEF GripList, ToSet
  <2>2. \A g \in Ids(parts) : \A h \in Ids(parts) : g.of = h.of => g = h
    BY <1>5, <1>9
  <2>3. \A i \in M : \E g \in Ids(parts) : g.of = {i}
    BY <1>5, <1>9
  <2> QED
    BY <2>1, <2>2, <2>3 DEF ArePartsOf, M
<1>11. IsDraft(s) /\ SplitFrom(p, id, s)
  BY <1>10, SplitIntoDraft
<1> HIDE DEF s
<1> QED
  BY <1>2, <1>11

\* mergeGroups.
MergedFrom(p, ids, r) ==
  \E f \in ids : /\ Ids(r.grips) = (Ids(p.grips) \ ids) \cup {f}
                 /\ DOMAIN r.at = DOMAIN p.at
                 /\ \A i \in DOMAIN p.at :
                      r.at[i].grip = IF p.at[i].grip \in ids THEN f ELSE p.at[i].grip
                 /\ r.explicit = Remap(p.explicit, LAMBDA g : IF g \in ids THEN f ELSE g)

LEMMA MergedIntoDraft ==
  ASSUME NEW p, IsDraft(p), NEW ids, NEW first \in GripRecords, first.id \in ids,
         NEW S, S = {i \in DOMAIN p.at : p.at[i].grip \in ids}
  PROVE  /\ IsDraft(MergedInto(p, ids, S, first))
         /\ MergedFrom(p, ids, MergedInto(p, ids, S, first))
<1> DEFINE id == first.id
           f == [i \in S |-> id]
           at == [i \in DOMAIN p.at |-> IF i \in S THEN [p.at[i] EXCEPT !.grip = id]
                                                   ELSE p.at[i]]
           q == [p EXCEPT !.at = at]
           g == Replace(p.grips, ids, <<first>>)
           e == Remap(p.explicit, LAMBDA h : IF h \in ids THEN id ELSE h)
           r == MergedInto(p, ids, S, first)
<1>1. IsRecord(p) /\ WellPlaced(p.at) /\ GripList(p.grips) /\ Linked(p.at, p.grips)
  BY DEF IsDraft
<1>2. q.grips = p.grips /\ q.explicit = p.explicit
  <2> HIDE DEF at
  <2> QED
    BY <1>1, DraftFields
<1>3. r = [q EXCEPT !.grips = g, !.explicit = e]
  <2>1. r = [q EXCEPT !.grips = Replace(q.grips, ids, <<first>>),
                      !.explicit = Remap(q.explicit, LAMBDA h : IF h \in ids THEN id ELSE h)]
    BY DEF MergedInto, WithPlacements
  <2> HIDE DEF q
  <2> QED
    BY <1>2, <2>1
<1>4. Rehouses(p.at, S, f, at)
  BY DEF Rehouses
<1>5. IsPairs(e)
  BY DEF IsPairs, Remap
<1>6. id \in Grips
  BY DEF GripRecords
<1>7. Remade(p, at, q, g, e, r)
  BY <1>3 DEF Remade
<1>8. GripList(g) /\ Ids(g) = (Ids(p.grips) \ ids) \cup {id}
  <2>1. GripList(<<first>>) /\ Ids(<<first>>) = {id}
    BY OneGrip
  <2> QED
    BY <1>1, <2>1, ReplaceTyped
<1>9. f = [i \in S |-> id]
  OBVIOUS
<1> HIDE DEF f, at, q, g, e, r
<1>10. /\ WellPlaced(at) /\ DOMAIN at = DOMAIN p.at
       /\ \A i \in DOMAIN p.at : at[i].grip = IF i \in S THEN id ELSE p.at[i].grip
  <2>1. \A i \in (DOMAIN p.at) \cap S : f[i] \in Grips \cup {NoGrip}
    BY <1>6, <1>9
  <2>2. /\ WellPlaced(at) /\ DOMAIN at = DOMAIN p.at
        /\ \A i \in DOMAIN p.at : at[i].grip = IF i \in S THEN f[i] ELSE p.at[i].grip
    BY <1>1, <1>4, <2>1, Rehoused
  <2>3. \A i \in S : f[i] = id
    BY <1>9
  <2> QED
    BY <2>2, <2>3
<1>11. Linked(at, g)
  BY <1>1, <1>8, <1>10 DEF Linked
<1>12. IsDraft(r) /\ r.at = at /\ r.grips = g /\ r.explicit = e
  BY <1>1, <1>5, <1>7, <1>8, <1>10, <1>11, DraftTwice
<1>13. MergedFrom(p, ids, r)
  BY <1>8, <1>10, <1>12 DEF MergedFrom, e
<1> QED
  BY <1>12, <1>13 DEF r

LEMMA MergedDraft ==
  ASSUME NEW p, IsDraft(p), NEW ids \in SUBSET Ids(p.grips), NEW c \in MergeGroups(p, ids)
  PROVE  IsDraft(c.next) /\ MergedFrom(p, ids, c.next)
<1> DEFINE S == UNION {Members(p.at, g) : g \in ids}
           positions == {i \in DOMAIN p.grips : p.grips[i].id \in ids}
           first == p.grips[Min(positions)]
           r == MergedInto(p, ids, S, first)
<1>1. c = Change(r) /\ ~(Cardinality(ids) < 2)
  BY DEF MergeGroups
<1>2. GripList(p.grips)
  BY DEF IsDraft
<1>3. DOMAIN p.grips = 1 .. Len(p.grips) /\ Len(p.grips) \in Nat
  BY <1>2, IsSeqFacts DEF GripList
<1>4. positions # {}
  <2>1. ids # {}
    <3>1. Cardinality({}) = 0
      BY FS_EmptySet, Zenon
    <3> QED
      BY <1>1, <3>1
  <2> QED
    BY <2>1 DEF Ids
<1>5. Min(positions) \in positions
  <2>1. positions \in SUBSET (1 .. Len(p.grips))
    BY <1>3
  <2> HIDE DEF positions
  <2> QED
    BY <1>3, <1>4, <2>1, MinOfSome
<1>6. first \in GripRecords /\ first.id \in ids
  BY <1>2, <1>5 DEF GripList, ToSet
<1>7. S = {i \in DOMAIN p.at : p.at[i].grip \in ids}
  BY DEF Members
<1> HIDE DEF first, S
<1>8. IsDraft(r) /\ MergedFrom(p, ids, r)
  BY <1>6, <1>7, MergedIntoDraft
<1>9. c.next = r
  <2> HIDE DEF r
  <2> QED
    BY <1>1, Changed, Zenon
<1> QED
  BY <1>8, <1>9

LEMMA InOrderDraft ==
  ASSUME NEW p, IsDraft(p), NEW order, IsSeq(order), ToSet(order) = Ids(p.grips),
         NEW c \in InOrder(p, order)
  PROVE  IsDraft(c.next)
<1> DEFINE g == [i \in DOMAIN order |-> GripOf(p.grips, order[i])]
           q == [p EXCEPT !.grips = g]
<1>1. c = Change(q)
  BY DEF InOrder
<1>2. GripList(p.grips) /\ WellPlaced(p.at) /\ IsPairs(p.explicit) /\ Linked(p.at, p.grips)
  BY DEF IsDraft
<1>3. \A i \in DOMAIN order : g[i] \in GripRecords /\ g[i].id = order[i]
  <2>1. \A i \in DOMAIN order : order[i] \in Ids(p.grips)
    BY DEF ToSet
  <2> QED
    BY <1>2, <2>1, GripOfTyped
<1>4. g = [i \in DOMAIN order |-> g[i]] /\ Amended(p, q, p.at, g, p.explicit)
  BY DEF Amended
<1> HIDE DEF g, q
<1>5. IsSeq(g) /\ DOMAIN g = DOMAIN order
  BY <1>4, MappedOver
<1>6. GripList(g) /\ Ids(g) = Ids(p.grips)
  <2>1. ToSet(g) \subseteq GripRecords
    BY <1>3, <1>5 DEF ToSet
  <2>2. Ids(g) = {order[i] : i \in DOMAIN order}
    BY <1>3, <1>5 DEF Ids
  <2>3. {order[i] : i \in DOMAIN order} = ToSet(order)
    BY DEF ToSet
  <2> QED
    BY <1>5, <2>1, <2>2, <2>3 DEF GripList
<1>7. Linked(p.at, g)
  BY <1>2, <1>6 DEF Linked
<1>8. IsDraft(q)
  BY <1>2, <1>4, <1>6, <1>7, DraftWith
<1> QED
  BY <1>1, <1>8, Changed, Zenon

LEMMA ReorderDraft ==
  ASSUME NEW p, IsDraft(p), Distinct(IdSeq(p.grips)), NEW id \in Ids(p.grips),
         NEW k \in DOMAIN p.grips, NEW c \in ReorderGroup(p, id, k)
  PROVE  IsDraft(c.next)
<1> DEFINE ids == IdSeq(p.grips)
           order == Reordered(ids, id, k)
<1>1. IsSeq(ids) /\ DOMAIN ids = DOMAIN p.grips /\ ToSet(ids) = Ids(p.grips)
  BY IdSeqIsSeq DEF IsDraft, GripList
<1>2. k \in Int
  BY <1>1, IsSeqFacts
<1> HIDE DEF ids
<1>3. IsSeq(order) /\ ToSet(order) = Ids(p.grips)
  BY <1>1, <1>2, ReorderedIsSeq, ReorderedHolds DEF ids
<1>4. c \in InOrder(p, order)
  BY DEF ReorderGroup, ids
<1> HIDE DEF order
<1> QED
  BY <1>3, <1>4, InOrderDraft

LEMMA DependenciesDraft ==
  ASSUME NEW p, IsDraft(p), NEW g, NEW h,
         NEW c \in AddOrderDependency(p, g, h) \cup RemoveOrderDependency(p, g, h)
  PROVE  IsDraft(c.next)
<1> DEFINE more == p.explicit \cup {<<g, h>>}
           less == p.explicit \ {<<g, h>>}
           q == [p EXCEPT !.explicit = more]
           r == [p EXCEPT !.explicit = less]
<1>1. c = Change(q) \/ c = Change(r)
  BY DEF AddOrderDependency, RemoveOrderDependency
<1>2. GripList(p.grips) /\ WellPlaced(p.at) /\ IsPairs(p.explicit) /\ Linked(p.at, p.grips)
  BY DEF IsDraft
<1>3. IsPairs(more) /\ IsPairs(less)
  BY <1>2 DEF IsPairs
<1>4. Amended(p, q, p.at, p.grips, more) /\ Amended(p, r, p.at, p.grips, less)
  BY DEF Amended
<1> HIDE DEF more, less, q, r
<1>5. IsDraft(q) /\ IsDraft(r)
  BY <1>2, <1>3, <1>4, DraftWith
<1>6. c.next = q \/ c.next = r
  BY <1>1, Changed
<1> QED
  BY <1>5, <1>6

-----------------------------------------------------------------------------
(* Grips of packages in a line.                                            *)

LEMMA HalvesPositive ==
  ASSUME NEW turn
  PROVE  HalfX(turn) \in Nat \ {0} /\ HalfY(turn) \in Nat \ {0}
<1>1. ASSUME NEW n \in 1 .. 50 PROVE (2 * n) \div 2 = n
  OBVIOUS
<1>2. ASSUME NEW l \in {2 * n : n \in 1 .. 50} PROVE l \div 2 \in Nat \ {0}
  BY <1>1
<1> QED
  BY <1>2, PatternAssumption DEF HalfX, HalfY

IsRight(box) == IsBox(box) /\ box.left < box.right /\ box.bottom < box.top

LEMMA BoxRight ==
  ASSUME NEW pl \in Placements
  PROVE  IsRight(Box(pl))
<1>1. pl.x \in Int /\ pl.y \in Int
  BY DEF Placements
<1>2. HalfX(pl.turn) \in Nat \ {0} /\ HalfY(pl.turn) \in Nat \ {0}
  BY HalvesPositive
<1> QED
  BY <1>1, <1>2 DEF IsRight, IsBox, Box, Inflated

\* All as far up, or all as far right.
InRow(boxes) == \A a \in boxes : \A b \in boxes : a.bottom = b.bottom /\ a.top = b.top
InColumn(boxes) == \A a \in boxes : \A b \in boxes : a.left = b.left /\ a.right = b.right

IsLine(boxes) ==
  /\ boxes # {} /\ (InRow(boxes) \/ InColumn(boxes))
  /\ \A b \in boxes : IsRight(b)

BoxesOf(at, S) == {Box(at[i]) : i \in S}

LEMMA FitsInLine ==
  ASSUME NEW at, WellPlaced(at), NEW S \in SUBSET DOMAIN at, GroupFits(at, S)
  PROVE  S # {} /\ IsLine(BoxesOf(at, S))
<1> DEFINE turn == at[CHOOSE i \in S : TRUE].turn
           Cross(i) == IF turn % 2 = 0 THEN at[i].y ELSE at[i].x
           across == {Cross(i) : i \in S}
<1>1. IsFiniteSet(S)
  <2>1. DOMAIN at \subseteq Packages
    BY DEF WellPlaced
  <2> QED
    BY <2>1, PatternAssumption, FS_Subset
<1>2. \A i \in S : IsRight(Box(at[i]))
  BY BoxRight DEF WellPlaced
<1>3. CASE Cardinality(S) = 1
  <2>1. PICK i : S = {i}
    BY <1>1, <1>3, FS_Singleton
  <2>2. BoxesOf(at, S) = {Box(at[i])}
    BY <2>1 DEF BoxesOf
  <2> QED
    BY <1>2, <2>1, <2>2 DEF IsLine, InRow
<1>4. CASE Cardinality(S) # 1
  <2>1. S # {} /\ (\A i \in S : at[i].turn = turn) /\ Cardinality(across) = 1
    BY <1>4 DEF GroupFits
  <2>2. IsFiniteSet(across)
    <3> DEFINE f == [i \in S |-> Cross(i)]
    <3>1. IsFiniteSet({f[i] : i \in S})
      BY <1>1, ImageFinite
    <3>2. {f[i] : i \in S} = across
      OBVIOUS
    <3> QED
      BY <3>1, <3>2
  <2>3. PICK z : across = {z}
    BY <2>1, <2>2, FS_Singleton
  <2>4. \A i \in S : Cross(i) = z
    BY <2>3
  <2> HIDE DEF turn
  <2>5. CASE turn % 2 = 0
    <3>1. \A i \in S : at[i].y = z /\ at[i].turn = turn
      BY <2>1, <2>4, <2>5
    <3>2. \A i \in S : Box(at[i]).bottom = z - HalfY(turn) - 0
                       /\ Box(at[i]).top = z + HalfY(turn) + 0
      BY <3>1 DEF Box, Inflated
    <3>3. InRow(BoxesOf(at, S))
      BY <3>2 DEF InRow, BoxesOf
    <3> QED
      BY <1>2, <2>1, <3>3 DEF IsLine, BoxesOf
  <2>6. CASE turn % 2 # 0
    <3>1. \A i \in S : at[i].x = z /\ at[i].turn = turn
      BY <2>1, <2>4, <2>6
    <3>2. \A i \in S : Box(at[i]).left = z - HalfX(turn) - 0
                       /\ Box(at[i]).right = z + HalfX(turn) + 0
      BY <3>1 DEF Box, Inflated
    <3>3. InColumn(BoxesOf(at, S))
      BY <3>2 DEF InColumn, BoxesOf
    <3> QED
      BY <1>2, <2>1, <3>3 DEF IsLine, BoxesOf
  <2> QED
    BY <2>5, <2>6
<1> QED
  BY <1>3, <1>4

\* Of lines, one lies below another only as a whole.
LEMMA LinesBelow ==
  ASSUME NEW Boxes, NEW g, NEW h, IsLine(Boxes[g]), IsLine(Boxes[h]), LiesBelow(Boxes, g, h),
         NEW a \in Boxes[g], NEW b \in Boxes[h]
  PROVE  a.top <= b.bottom
<1> DEFINE facing == {p \in Boxes[g] \X Boxes[h] : Meet(Across(p[1], "y"), Across(p[2], "y"))}
<1>1. ASSUME NEW box PROVE Across(box, "y") = [lo |-> box.left, hi |-> box.right]
  <2>1. (CHOOSE other \in Axes : other # "y") = "x"
    BY DEF Axes
  <2> QED
    BY <2>1 DEF Across, Along
<1>2. PICK c \in Boxes[g], d \in Boxes[h] : <<c, d>> \in facing
  BY DEF LiesBelow
<1>3. \A p \in facing : p[1].top <= p[2].bottom
  BY DEF LiesBelow
<1>4. ASSUME NEW u \in Boxes[g], NEW v \in Boxes[h], u.left < v.right, v.left < u.right
      PROVE  u.top <= v.bottom
  <2>1. <<u, v>> \in facing
    BY <1>1, <1>4 DEF Meet
  <2> HIDE DEF facing
  <2> QED
    BY <1>3, <2>1
<1>5. c.left < d.right /\ d.left < c.right
  BY <1>1, <1>2 DEF Meet
<1> HIDE DEF facing
<1>6. CASE InRow(Boxes[g]) /\ InRow(Boxes[h])
  <2>1. c.top <= d.bottom
    BY <1>4, <1>5
  <2>2. a.top = c.top /\ b.bottom = d.bottom
    BY <1>6 DEF InRow
  <2> QED
    BY <2>1, <2>2
<1>7. CASE InRow(Boxes[g]) /\ InColumn(Boxes[h])
  <2>1. b.left = d.left /\ b.right = d.right /\ a.top = c.top
    BY <1>7 DEF InRow, InColumn
  <2>2. c.top <= b.bottom
    BY <1>4, <1>5, <2>1
  <2> QED
    BY <2>1, <2>2
<1>8. CASE InColumn(Boxes[g]) /\ InRow(Boxes[h])
  <2>1. a.left = c.left /\ a.right = c.right /\ b.bottom = d.bottom
    BY <1>8 DEF InRow, InColumn
  <2>2. a.top <= d.bottom
    BY <1>4, <1>5, <2>1
  <2> QED
    BY <2>1, <2>2
<1>9. CASE InColumn(Boxes[g]) /\ InColumn(Boxes[h])
  <2>1. a.left = c.left /\ a.right = c.right /\ b.left = d.left /\ b.right = d.right
    BY <1>9 DEF InColumn
  <2> QED
    BY <1>4, <1>5, <2>1
<1> QED
  BY <1>6, <1>7, <1>8, <1>9 DEF IsLine

\* The grips of a layer, each a line of finitely many packages.
AreLines(Boxes) ==
  \A g \in DOMAIN Boxes : IsLine(Boxes[g]) /\ IsFiniteSet(Boxes[g])

\* So the lowest of them lies above none of the others.
LEMMA VerticalAcyclic ==
  ASSUME NEW Boxes, IsFiniteSet(DOMAIN Boxes), AreLines(Boxes)
  PROVE  Acyclic(DOMAIN Boxes, VerticalDependencies(Boxes))
<1> SUFFICES ASSUME NEW T \in (SUBSET DOMAIN Boxes) \ {{}}
             PROVE  \E g \in T : \A h \in T : <<h, g>> \notin VerticalDependencies(Boxes)
  BY DEF Acyclic
<1> DEFINE all == UNION {Boxes[g] : g \in T}
           bottoms == {b.bottom : b \in all}
<1>1. IsFiniteSet(all)
  <2>1. IsFiniteSet(T)
    BY FS_Subset
  <2>2. IsFiniteSet({Boxes[g] : g \in T})
    BY <2>1, ImageFinite
  <2>3. \A B \in {Boxes[g] : g \in T} : IsFiniteSet(B)
    BY DEF AreLines
  <2> QED
    BY <2>2, <2>3, FS_UNION
<1>2. all # {} /\ \A b \in all : IsRight(b)
  BY DEF AreLines, IsLine
<1> HIDE DEF all
<1>3. IsFiniteSet(bottoms)
  <2> DEFINE f == [b \in all |-> b.bottom]
  <2>1. IsFiniteSet({f[b] : b \in all})
    BY <1>1, ImageFinite
  <2>2. {f[b] : b \in all} = bottoms
    OBVIOUS
  <2> QED
    BY <2>1, <2>2
<1>4. bottoms # {} /\ bottoms \subseteq Int
  BY <1>2 DEF IsRight, IsBox
<1>5. Min(bottoms) \in bottoms /\ \A n \in bottoms : Min(bottoms) <= n
  <2> HIDE DEF bottoms
  <2> QED
    BY <1>3, <1>4, MinOf
<1>6. PICK low \in all : \A b \in all : low.bottom <= b.bottom
  BY <1>5
<1>7. PICK g \in T : low \in Boxes[g]
  BY DEF all
<1>8. ASSUME NEW h \in T, <<h, g>> \in VerticalDependencies(Boxes) PROVE FALSE
  <2>1. LiesBelow(Boxes, h, g)
    BY <1>8 DEF VerticalDependencies
  <2>2. PICK a \in Boxes[h] : TRUE
    BY DEF AreLines, IsLine
  <2>3. a.top <= low.bottom
    BY <1>7, <2>1, LinesBelow DEF AreLines
  <2>4. a \in all
    BY DEF all
  <2>5. a.bottom < a.top /\ low.bottom <= a.bottom
        /\ a.bottom \in Int /\ a.top \in Int /\ low.bottom \in Int
    BY <1>2, <1>6, <2>4 DEF IsRight, IsBox
  <2> QED
    BY <2>3, <2>5
<1> QED
  BY <1>8

-----------------------------------------------------------------------------
(* Layer rows.                                                             *)

\* The packages of a layer, finitely many and at least one.
AreBoxes(packages) ==
  /\ IsFiniteSet(DOMAIN packages) /\ DOMAIN packages # {}
  /\ \A i \in DOMAIN packages : IsRight(packages[i])

LEMMA RowPitchPositive ==
  ASSUME NEW packages, AreBoxes(packages)
  PROVE  RowPitch(packages) \in Nat \ {0}
<1> DEFINE Height(i) == packages[i].top - packages[i].bottom
           Count(h) == Cardinality({i \in DOMAIN packages : Height(i) = h})
           heights == {Height(i) : i \in DOMAIN packages}
           most == {h \in heights : \A k \in heights : Count(k) <= Count(h)}
           counts == {Count(h) : h \in heights}
<1>1. RowPitch(packages) = Min(most)
  BY DEF RowPitch
<1>2. \A i \in DOMAIN packages : Height(i) \in Nat \ {0}
  BY DEF AreBoxes, IsRight, IsBox
<1>3. IsFiniteSet(DOMAIN packages) /\ DOMAIN packages # {}
  BY DEF AreBoxes
<1>4. ASSUME NEW h PROVE Count(h) \in Nat
  <2>1. {i \in DOMAIN packages : Height(i) = h} \in SUBSET DOMAIN packages
    OBVIOUS
  <2> QED
    BY <1>3, <2>1, FS_Subset, FS_CardinalityType
<1> HIDE DEF Height, Count
<1>5. IsFiniteSet(heights) /\ heights # {} /\ heights \subseteq Nat \ {0}
  <2> DEFINE f == [i \in DOMAIN packages |-> Height(i)]
  <2>1. IsFiniteSet({f[i] : i \in DOMAIN packages})
    BY <1>3, ImageFinite
  <2>2. {f[i] : i \in DOMAIN packages} = heights
    OBVIOUS
  <2> QED
    BY <1>2, <1>3, <2>1, <2>2
<1> HIDE DEF heights
<1>6. IsFiniteSet(counts) /\ counts # {} /\ counts \subseteq Int
  <2> DEFINE f == [h \in heights |-> Count(h)]
  <2>1. IsFiniteSet({f[h] : h \in heights})
    BY <1>5, ImageFinite
  <2>2. {f[h] : h \in heights} = counts
    OBVIOUS
  <2>3. counts # {}
    BY <1>5
  <2>4. counts \subseteq Int
    BY <1>4
  <2> QED
    BY <2>1, <2>2, <2>3, <2>4
<1>7. Max(counts) \in counts /\ \A n \in counts : n <= Max(counts)
  <2> HIDE DEF counts
  <2> QED
    BY <1>6, MaxOf
<1>8. most # {}
  <2>1. PICK h \in heights : Count(h) = Max(counts)
    BY <1>7
  <2>2. \A k \in heights : Count(k) <= Count(h)
    BY <1>7, <2>1
  <2> QED
    BY <2>2
<1>9. most \subseteq heights
  OBVIOUS
<1> HIDE DEF most
<1>10. IsFiniteSet(most) /\ most \subseteq Int
  <2>1. most \in SUBSET heights
    BY <1>9
  <2>2. IsFiniteSet(most)
    BY <1>5, <2>1, FS_Subset
  <2> QED
    BY <1>5, <1>9, <2>2
<1>11. Min(most) \in most
  BY <1>8, <1>10, MinOf
<1> QED
  BY <1>1, <1>5, <1>9, <1>11

LEMMA LowestOf ==
  ASSUME NEW boxes, IsFiniteSet(boxes), boxes # {}, \A b \in boxes : IsRight(b)
  PROVE  Min({b.bottom : b \in boxes}) \in Int
<1> DEFINE bottoms == {b.bottom : b \in boxes}
           f == [b \in boxes |-> b.bottom]
<1>1. IsFiniteSet({f[b] : b \in boxes})
  BY ImageFinite
<1>2. {f[b] : b \in boxes} = bottoms
  OBVIOUS
<1>3. bottoms # {} /\ bottoms \subseteq Int /\ IsFiniteSet(bottoms)
  BY <1>1, <1>2 DEF IsRight, IsBox
<1> HIDE DEF bottoms
<1>4. Min(bottoms) \in Int
  BY <1>3, MinOf
<1> QED
  BY <1>4 DEF bottoms

LEMMA RangeBoxes ==
  ASSUME NEW packages, AreBoxes(packages)
  PROVE  /\ IsFiniteSet(Range(packages)) /\ Range(packages) # {}
         /\ \A b \in Range(packages) : IsRight(b)
<1>1. Range(packages) = {packages[i] : i \in DOMAIN packages}
  BY DEF Range
<1>2. IsFiniteSet({packages[i] : i \in DOMAIN packages})
  BY ImageFinite DEF AreBoxes
<1> QED
  BY <1>1, <1>2 DEF AreBoxes

LEMMA LayerRowKeyTyped ==
  ASSUME NEW boxes, IsFiniteSet(boxes), boxes # {}, \A b \in boxes : IsRight(b),
         NEW packages, AreBoxes(packages), NEW place \in Int
  PROVE  IsKey(LayerRowKey(boxes, packages, place), 5)
<1> DEFINE half == IF Centre2(boxes, "y") <= Split2(packages) THEN 0 ELSE 1
           low == Min({b.bottom : b \in boxes})
           origin == Min({b.bottom : b \in Range(packages)})
           pitch == RowPitch(packages)
           k == LayerRowKey(boxes, packages, place)
<1>1. half \in Int
  OBVIOUS
<1>2. low \in Int /\ origin \in Int
  BY RangeBoxes, LowestOf
<1>3. pitch \in Nat \ {0}
  BY RowPitchPositive
<1>4. Centre2(boxes, "x") \in Int /\ Centre2(boxes, "y") \in Int
  <2>1. \A b \in boxes : IsBox(b)
    BY DEF IsRight
  <2> QED
    BY <2>1, CentreInt
<1>5. k = <<half, (low - origin) \div pitch, -Centre2(boxes, "x"), Centre2(boxes, "y"), place>>
  BY DEF LayerRowKey
<1> HIDE DEF half, low, origin, pitch, k
<1>6. (low - origin) \div pitch \in Int
  BY <1>2, <1>3
<1>7. -Centre2(boxes, "x") \in Int
  BY <1>4
<1>8. DOMAIN k = 1 .. 5
  BY <1>5
<1>9. k[1] \in Int /\ k[2] \in Int /\ k[3] \in Int /\ k[4] \in Int /\ k[5] \in Int
  BY <1>1, <1>4, <1>5, <1>6, <1>7
<1>10. \A i \in 1 .. 5 : i = 1 \/ i = 2 \/ i = 3 \/ i = 4 \/ i = 5
  OBVIOUS
<1>11. \A i \in 1 .. 5 : k[i] \in Int
  BY <1>9, <1>10
<1> QED
  BY <1>8, <1>11 DEF IsKey, k

\* The layer rows are an order of all grips.
LEMMA RowsHoldAll ==
  ASSUME NEW Boxes, IsFiniteSet(DOMAIN Boxes), AreLines(Boxes),
         NEW packages, DOMAIN Boxes # {} => AreBoxes(packages),
         NEW place, \A g \in DOMAIN Boxes : place[g] \in Int
  PROVE  /\ IsSeq(LayerRowOrder(Boxes, packages, place))
         /\ Distinct(LayerRowOrder(Boxes, packages, place))
         /\ ToSet(LayerRowOrder(Boxes, packages, place)) = DOMAIN Boxes
<1> DEFINE key == [g \in DOMAIN Boxes |-> LayerRowKey(Boxes[g], packages, place[g])]
<1>1. DOMAIN key = DOMAIN Boxes
  OBVIOUS
<1>2. \A g \in DOMAIN key : IsKey(key[g], 5)
  <2>1. ASSUME NEW g \in DOMAIN Boxes
        PROVE  IsKey(LayerRowKey(Boxes[g], packages, place[g]), 5)
    <3>1. /\ IsFiniteSet(Boxes[g]) /\ Boxes[g] # {} /\ AreBoxes(packages)
          /\ \A b \in Boxes[g] : IsRight(b)
      BY DEF AreLines, IsLine
    <3> QED
      BY <3>1, LayerRowKeyTyped
  <2> QED
    BY <2>1
<1>3. LayerRowOrder(Boxes, packages, place) = SortedBy(key)
  BY DEF LayerRowOrder
<1>4. 5 \in Nat
  OBVIOUS
<1> HIDE DEF key
<1> QED
  BY <1>1, <1>2, <1>3, <1>4, SortedAll

-----------------------------------------------------------------------------
(* Patterns whose grips can be ordered.                                    *)

LEMMA LinearAcyclic ==
  ASSUME NEW order, IsSeq(order), NEW deps, IsLinearExtension(order, deps)
  PROVE  Acyclic(ToSet(order), deps)
<1> SUFFICES ASSUME NEW T \in (SUBSET ToSet(order)) \ {{}}
             PROVE  \E g \in T : \A h \in T : <<h, g>> \notin deps
  BY DEF Acyclic
<1> DEFINE positions == {i \in DOMAIN order : order[i] \in T}
<1>1. DOMAIN order = 1 .. Len(order) /\ Len(order) \in Nat
  BY IsSeqFacts
<1>2. positions \in SUBSET (1 .. Len(order)) /\ positions # {}
  BY <1>1 DEF ToSet
<1>3. Min(positions) \in positions /\ \A i \in positions : Min(positions) <= i
  <2> HIDE DEF positions
  <2> QED
    BY <1>1, <1>2, MinOfSome
<1> DEFINE m == Min(positions)
<1>4. m \in DOMAIN order /\ order[m] \in T
  BY <1>3
<1>5. ASSUME NEW h \in T, <<h, order[m]>> \in deps PROVE FALSE
  <2>1. PICK j \in DOMAIN order : order[j] = h
    BY DEF ToSet
  <2>2. m <= j
    BY <1>3, <2>1
  <2>3. j < m
    BY <1>4, <1>5, <2>1 DEF IsLinearExtension
  <2> QED
    BY <1>1, <1>4, <2>1, <2>2, <2>3
<1> QED
  BY <1>4, <1>5

Standing(p) ==
  /\ IsDraft(p) /\ IsLayer(p) /\ Distinct(IdSeq(p.grips))
  /\ AreLines(GripBoxes(p.at, Ids(p.grips)))
  /\ Acyclic(Ids(p.grips), p.explicit \cup Inferred(p.at, p.grips))

LEMMA LayerBoxes ==
  ASSUME NEW at, WellPlaced(at), DOMAIN at # {}
  PROVE  AreBoxes([i \in DOMAIN at |-> Box(at[i])])
<1> DEFINE packages == [i \in DOMAIN at |-> Box(at[i])]
<1>1. DOMAIN packages = DOMAIN at /\ DOMAIN at \subseteq Packages
  BY DEF WellPlaced
<1>2. IsFiniteSet(DOMAIN at)
  BY <1>1, PatternAssumption, FS_Subset
<1>3. \A i \in DOMAIN packages : IsRight(packages[i])
  BY BoxRight DEF WellPlaced
<1> HIDE DEF packages
<1>4. AreBoxes(packages)
  BY <1>1, <1>2, <1>3 DEF AreBoxes
<1> QED
  BY <1>4 DEF packages

LEMMA GripBoxesFinite ==
  ASSUME NEW at, WellPlaced(at), NEW ids
  PROVE  /\ DOMAIN GripBoxes(at, ids) = ids
         /\ \A id \in ids : /\ IsFiniteSet(GripBoxes(at, ids)[id])
                            /\ GripBoxes(at, ids)[id] = BoxesOf(at, Members(at, id))
<1> SUFFICES ASSUME NEW id \in ids
             PROVE  /\ IsFiniteSet(GripBoxes(at, ids)[id])
                    /\ GripBoxes(at, ids)[id] = BoxesOf(at, Members(at, id))
  BY DEF GripBoxes
<1> DEFINE S == Members(at, id)
           f == [i \in S |-> Box(at[i])]
<1>1. DOMAIN at \subseteq Packages /\ S \in SUBSET DOMAIN at
  BY DEF WellPlaced, Members
<1>2. IsFiniteSet(S)
  BY <1>1, PatternAssumption, FS_Subset
<1>3. GripBoxes(at, ids)[id] = {Box(at[i]) : i \in S}
  BY DEF GripBoxes
<1> HIDE DEF S
<1>4. IsFiniteSet({f[i] : i \in S})
  BY <1>2, ImageFinite
<1>5. {f[i] : i \in S} = {Box(at[i]) : i \in S}
  OBVIOUS
<1> QED
  BY <1>3, <1>4, <1>5 DEF BoxesOf, S

\* A pattern that can be placed is one.
LEMMA PlaceableStands ==
  ASSUME NEW p, IsPattern(p), Placeable(p)
  PROVE  Standing(p)
<1> DEFINE Boxes == GripBoxes(p.at, Ids(p.grips))
           order == IdSeq(p.grips)
<1>1. IsDraft(p) /\ IsLayer(p) /\ WellPlaced(p.at)
  BY PatternIsDraft DEF IsDraft
<1>2. IsSeq(order) /\ Len(order) = Len(p.grips) /\ ToSet(order) = Ids(p.grips)
  BY <1>1, IdSeqIsSeq DEF IsLayer
<1>3. Distinct(order)
  BY <1>2, RangeOf DEF Placeable
<1>4. IsLinearExtension(order, p.explicit \cup Inferred(p.at, p.grips))
  BY DEF Placeable
<1>5. \A id \in Ids(p.grips) : GroupFits(p.at, Members(p.at, id))
  BY DEF Placeable, Ids
<1> HIDE DEF order, Boxes
<1>6. Acyclic(Ids(p.grips), p.explicit \cup Inferred(p.at, p.grips))
  BY <1>2, <1>4, LinearAcyclic
<1>7. AreLines(Boxes)
  <2>1. ASSUME NEW id \in Ids(p.grips) PROVE IsLine(BoxesOf(p.at, Members(p.at, id)))
    <3>1. Members(p.at, id) \in SUBSET DOMAIN p.at
      BY DEF Members
    <3> QED
      BY <1>1, <1>5, <3>1, FitsInLine
  <2>2. /\ DOMAIN Boxes = Ids(p.grips)
        /\ \A id \in Ids(p.grips) : /\ IsFiniteSet(Boxes[id])
                                    /\ Boxes[id] = BoxesOf(p.at, Members(p.at, id))
    BY <1>1, GripBoxesFinite DEF Boxes
  <2> QED
    BY <2>1, <2>2 DEF AreLines
<1> QED
  BY <1>1, <1>3, <1>6, <1>7 DEF Standing, Boxes, order

LEMMA SuggestedHolds ==
  ASSUME NEW p, Standing(p)
  PROVE  IsSeq(SuggestedOrder(p)) /\ ToSet(SuggestedOrder(p)) = Ids(p.grips)
<1> DEFINE Boxes == GripBoxes(p.at, Ids(p.grips))
           packages == [i \in DOMAIN p.at |-> Box(p.at[i])]
           place == [g \in Ids(p.grips) |-> Min({i \in DOMAIN p.grips : p.grips[i].id = g})]
           rows == LayerRowOrder(Boxes, packages, place)
           deps == p.explicit \cup Inferred(p.at, p.grips)
<1>1. SuggestedOrder(p) = OrderByDependencies(rows, deps)
  BY DEF SuggestedOrder
<1>2. GripList(p.grips) /\ WellPlaced(p.at) /\ AreLines(Boxes) /\ Acyclic(Ids(p.grips), deps)
  BY DEF Standing, IsDraft
<1>3. DOMAIN Boxes = Ids(p.grips) /\ IsFiniteSet(Ids(p.grips))
  BY <1>2, IdsAreGrips DEF GripBoxes
<1>4. \A g \in Ids(p.grips) : place[g] \in Int
  <2> SUFFICES ASSUME NEW g \in Ids(p.grips) PROVE place[g] \in Int
    OBVIOUS
  <2> DEFINE positions == {i \in DOMAIN p.grips : p.grips[i].id = g}
  <2>1. DOMAIN p.grips = 1 .. Len(p.grips) /\ Len(p.grips) \in Nat
    BY <1>2, IsSeqFacts DEF GripList
  <2>2. positions \in SUBSET (1 .. Len(p.grips)) /\ positions # {}
    BY <2>1 DEF Ids
  <2>3. place[g] = Min(positions)
    OBVIOUS
  <2> HIDE DEF positions, place
  <2>4. Min(positions) \in positions
    BY <2>1, <2>2, MinOfSome
  <2>5. Min(positions) \in 1 .. Len(p.grips)
    BY <2>2, <2>4
  <2>6. Min(positions) \in Int
    BY <2>1, <2>5
  <2> QED
    BY <2>3, <2>6
<1>5. ASSUME DOMAIN Boxes # {} PROVE AreBoxes(packages)
  <2>1. PICK g \in Ids(p.grips) : IsLine(Boxes[g])
    BY <1>2, <1>3, <1>5 DEF AreLines
  <2>2. DOMAIN p.at # {}
    BY <2>1 DEF IsLine, GripBoxes, Members
  <2> QED
    BY <1>2, <2>2, LayerBoxes
<1> HIDE DEF Boxes, packages, place, deps
<1>6. IsSeq(rows) /\ Distinct(rows) /\ ToSet(rows) = Ids(p.grips)
  BY <1>2, <1>3, <1>4, <1>5, RowsHoldAll
<1> HIDE DEF rows
<1>7. /\ IsSeq(OrderByDependencies(rows, deps))
      /\ ToSet(OrderByDependencies(rows, deps)) = ToSet(rows)
  BY <1>2, <1>6, OrderedAll
<1> QED
  BY <1>1, <1>6, <1>7

-----------------------------------------------------------------------------
(* Automatic grips.                                                        *)

\* Packages in grips that fit.
IsCut(at, C) ==
  /\ UNION C = DOMAIN at
  /\ \A S \in C : S # {} /\ S \in SUBSET DOMAIN at /\ GroupFits(at, S)
  /\ \A S \in C : \A T \in C : S # T => S \cap T = {}

LEMMA AutomaticCut ==
  ASSUME NEW at, WellPlaced(at)
  PROVE  IsCut(at, AutomaticGroups(at))
<1> DEFINE blocks == {S \in SUBSET DOMAIN at :
                        S # {} /\ Cardinality(S) <= MaxPerGrip /\ GroupFits(at, S)}
           cuts == {C \in SUBSET blocks :
                      /\ UNION C = DOMAIN at
                      /\ \A S, T \in C : S # T => S \cap T = {}}
           cost == [C \in cuts |->
                      <<Cardinality(C), Cardinality({S \in C : Cardinality(S) = 1})>>]
           single == {{i} : i \in DOMAIN at}
<1>1. AutomaticGroups(at) = FirstBy(cost)
  BY DEF AutomaticGroups
<1>2. IsFiniteSet(DOMAIN at)
  <2>1. DOMAIN at \subseteq Packages
    BY DEF WellPlaced
  <2> QED
    BY <2>1, PatternAssumption, FS_Subset
<1>3. IsFiniteSet(blocks)
  <2>1. IsFiniteSet(SUBSET DOMAIN at)
    BY <1>2, FS_SUBSET
  <2>2. blocks \in SUBSET (SUBSET DOMAIN at)
    OBVIOUS
  <2> QED
    BY <2>1, <2>2, FS_Subset
<1>4. single \in cuts
  <2>1. ASSUME NEW i \in DOMAIN at PROVE {i} \in blocks
    <3>1. Cardinality({i}) = 1
      BY FS_Singleton
    <3>2. 1 <= MaxPerGrip
      BY PatternAssumption
    <3>3. GroupFits(at, {i})
      BY <3>1 DEF GroupFits
    <3> HIDE DEF blocks
    <3>4. {i} \in SUBSET DOMAIN at /\ {i} # {} /\ Cardinality({i}) <= MaxPerGrip
      BY <3>1, <3>2
    <3> QED
      BY <3>3, <3>4 DEF blocks
  <2> HIDE DEF blocks
  <2>2. single \in SUBSET blocks
    BY <2>1
  <2>3. UNION single = DOMAIN at
    OBVIOUS
  <2>4. \A S, T \in single : S # T => S \cap T = {}
    OBVIOUS
  <2> QED
    BY <2>2, <2>3, <2>4
<1> HIDE DEF blocks
<1>5. IsFiniteSet(cuts)
  <2>1. IsFiniteSet(SUBSET blocks)
    BY <1>3, FS_SUBSET
  <2>2. cuts \in SUBSET (SUBSET blocks)
    OBVIOUS
  <2> HIDE DEF cuts
  <2> QED
    BY <2>1, <2>2, FS_Subset
<1>6. ASSUME NEW C \in cuts PROVE IsKey(cost[C], 2)
  <2> DEFINE ones == {S \in C : Cardinality(S) = 1}
  <2>1. C \in SUBSET blocks /\ ones \in SUBSET C
    OBVIOUS
  <2>2. cost[C] = <<Cardinality(C), Cardinality(ones)>>
    OBVIOUS
  <2> HIDE DEF cost, ones, cuts
  <2>3. IsFiniteSet(C)
    BY <1>3, <2>1, FS_Subset
  <2>4. IsFiniteSet(ones)
    BY <2>1, <2>3, FS_Subset
  <2>5. Cardinality(C) \in Nat /\ Cardinality(ones) \in Nat
    BY <2>3, <2>4, FS_CardinalityType
  <2>6. DOMAIN cost[C] = 1 .. 2 /\ cost[C][1] \in Int /\ cost[C][2] \in Int
    BY <2>2, <2>5
  <2>7. \A i \in 1 .. 2 : i = 1 \/ i = 2
    OBVIOUS
  <2>8. \A i \in 1 .. 2 : cost[C][i] \in Int
    BY <2>6, <2>7
  <2> QED
    BY <2>6, <2>8 DEF IsKey
<1>7. DOMAIN cost = cuts
  OBVIOUS
<1> HIDE DEF cuts, cost
<1>8. FirstBy(cost) \in cuts
  <2>1. 2 \in Nat
    OBVIOUS
  <2>2. DOMAIN cost # {} /\ IsFiniteSet(DOMAIN cost) /\ \A C \in DOMAIN cost : IsKey(cost[C], 2)
    BY <1>4, <1>5, <1>6, <1>7
  <2>3. FirstBy(cost) \in DOMAIN cost
    BY <2>1, <2>2, FirstOf
  <2> QED
    BY <1>7, <2>3
<1> QED
  BY <1>1, <1>8 DEF cuts, blocks, IsCut

\* GroupedAs gives each of them a grip of its own.
LEMMA GroupedDraft ==
  ASSUME NEW p, IsRecord(p), WellPlaced(p.at), NEW C, IsCut(p.at, C)
  PROVE  LET q == GroupedAs(p, C)
         IN /\ IsRecord(q) /\ WellPlaced(q.at) /\ DOMAIN q.at = DOMAIN p.at
            /\ q.explicit = {} /\ q.grips = p.grips
            /\ \A i \in DOMAIN p.at : q.at[i].grip \in Grips
            /\ \A i \in DOMAIN p.at : Box(q.at[i]) = Box(p.at[i])
            /\ \A i \in DOMAIN p.at : Members(q.at, q.at[i].grip) \in C
<1> DEFINE Its(i) == CHOOSE S \in C : i \in S
           f == [i \in DOMAIN p.at |-> FreshId({}, Its(i))]
           at == [i \in DOMAIN p.at |->
                    [p.at[i] EXCEPT !.grip = FreshId({}, CHOOSE S \in C : i \in S)]]
           q == GroupedAs(p, C)
<1>1. q = [p EXCEPT !.explicit = {}, !.at = at]
  BY DEF GroupedAs
<1>2. ASSUME NEW i \in DOMAIN p.at PROVE Its(i) \in C /\ i \in Its(i)
  BY DEF IsCut
<1>3. \A i \in DOMAIN p.at : at[i] = [p.at[i] EXCEPT !.grip = f[i]] /\ f[i] = FreshId({}, Its(i))
  OBVIOUS
<1>4. at = [i \in DOMAIN p.at |-> at[i]]
  OBVIOUS
<1> HIDE DEF Its, f, at, q
<1>5. ASSUME NEW i \in DOMAIN p.at PROVE f[i] \in Grips /\ f[i].of = Its(i)
  <2>1. Its(i) \in SUBSET Packages
    BY <1>2 DEF IsCut, WellPlaced
  <2>2. IsFiniteSet({})
    BY FS_EmptySet, Zenon
  <2>3. FreshId({}, Its(i)) \in Grips /\ FreshId({}, Its(i)).of = Its(i)
    BY <2>1, <2>2, FreshIdTyped
  <2> QED
    BY <1>3, <2>3
<1>6. Rehouses(p.at, DOMAIN p.at, f, at)
  BY <1>3, <1>4 DEF Rehouses
<1>7. /\ WellPlaced(at) /\ DOMAIN at = DOMAIN p.at
      /\ \A i \in DOMAIN p.at : at[i].grip = f[i]
  <2>1. \A i \in (DOMAIN p.at) \cap (DOMAIN p.at) : f[i] \in Grips \cup {NoGrip}
    BY <1>5
  <2>2. /\ WellPlaced(at) /\ DOMAIN at = DOMAIN p.at
        /\ \A i \in DOMAIN p.at :
             at[i].grip = IF i \in DOMAIN p.at THEN f[i] ELSE p.at[i].grip
    BY <1>6, <2>1, Rehoused
  <2> QED
    BY <2>2
<1>8. Amended(p, q, at, p.grips, {})
  BY <1>1 DEF Amended
<1>9. IsRecord(q) /\ q.at = at /\ q.grips = p.grips /\ q.explicit = {}
  BY <1>8, RecordBut
<1>10. \A i \in DOMAIN p.at : Box(at[i]) = Box(p.at[i])
  <2> SUFFICES ASSUME NEW i \in DOMAIN p.at PROVE Box(at[i]) = Box(p.at[i])
    OBVIOUS
  <2>1. p.at[i] \in Placements
    BY DEF WellPlaced
  <2>2. at[i].x = p.at[i].x /\ at[i].y = p.at[i].y /\ at[i].turn = p.at[i].turn
    BY <1>3, <2>1 DEF Placements
  <2> QED
    BY <2>2 DEF Box, Inflated
<1>11. ASSUME NEW i \in DOMAIN p.at PROVE Members(at, at[i].grip) = Its(i)
  <2>1. Its(i) \in SUBSET DOMAIN p.at
    BY <1>2 DEF IsCut
  <2>2. ASSUME NEW j \in DOMAIN p.at, at[j].grip = at[i].grip PROVE j \in Its(i)
    BY <1>2, <1>5, <1>7, <2>2
  <2>3. ASSUME NEW j \in Its(i) PROVE at[j].grip = at[i].grip
    <3>1. j \in DOMAIN p.at /\ j \in Its(j)
      BY <1>2, <2>1
    <3>2. Its(j) = Its(i)
      BY <1>2, <3>1 DEF IsCut
    <3>3. f[j] = FreshId({}, Its(j)) /\ f[i] = FreshId({}, Its(i))
      BY <1>3, <3>1
    <3>4. f[j] = f[i]
      BY <3>2, <3>3, Zenon
    <3> QED
      BY <1>7, <3>1, <3>4
  <2> QED
    BY <1>7, <2>1, <2>2, <2>3 DEF Members
<1>12. \A i \in DOMAIN p.at : Members(at, at[i].grip) \in C /\ at[i].grip \in Grips
  BY <1>2, <1>5, <1>7, <1>11
<1> QED
  BY <1>7, <1>9, <1>10, <1>12 DEF q

LinedUp(q) ==
  /\ AreLines(AllGripBoxes(q)) /\ IsFiniteSet(DOMAIN AllGripBoxes(q))
  /\ DOMAIN AllGripBoxes(q) = {q.at[i].grip : i \in DOMAIN q.at}

LEMMA GroupedLines ==
  ASSUME NEW p, IsRecord(p), WellPlaced(p.at), NEW q, q = GroupedAs(p, AutomaticGroups(p.at))
  PROVE  LinedUp(q)
<1> DEFINE C == AutomaticGroups(p.at)
           ids == {q.at[i].grip : i \in DOMAIN q.at}
           Boxes == GripBoxes(q.at, ids)
<1>1. IsCut(p.at, C)
  BY AutomaticCut
<1> HIDE DEF C
<1>2. /\ WellPlaced(q.at) /\ DOMAIN q.at = DOMAIN p.at
      /\ \A i \in DOMAIN p.at : Box(q.at[i]) = Box(p.at[i])
      /\ \A i \in DOMAIN p.at : Members(q.at, q.at[i].grip) \in C
  <2>1. q = GroupedAs(p, C)
    BY DEF C
  <2> QED
    BY <1>1, <2>1, GroupedDraft
<1>3. AllGripBoxes(q) = Boxes
  BY DEF AllGripBoxes
<1>4. /\ DOMAIN Boxes = ids
      /\ \A id \in ids : /\ IsFiniteSet(Boxes[id])
                         /\ Boxes[id] = BoxesOf(q.at, Members(q.at, id))
  <2> HIDE DEF ids
  <2> QED
    BY <1>2, GripBoxesFinite
<1>5. IsFiniteSet(ids)
  <2> DEFINE f == [i \in DOMAIN q.at |-> q.at[i].grip]
  <2>1. IsFiniteSet(DOMAIN q.at)
    <3>1. DOMAIN q.at \subseteq Packages
      BY <1>2 DEF WellPlaced
    <3> QED
      BY <3>1, PatternAssumption, FS_Subset
  <2> HIDE DEF f
  <2>2. IsFiniteSet({f[i] : i \in DOMAIN q.at})
    BY <2>1, ImageFinite
  <2>3. {f[i] : i \in DOMAIN q.at} = ids
    BY DEF f
  <2> QED
    BY <2>2, <2>3
<1>6. ASSUME NEW i \in DOMAIN p.at
      PROVE  IsLine(BoxesOf(q.at, Members(q.at, q.at[i].grip)))
  <2> DEFINE S == Members(q.at, q.at[i].grip)
  <2>1. S \in C
    BY <1>2
  <2> HIDE DEF S
  <2>2. S \in SUBSET DOMAIN p.at /\ GroupFits(p.at, S)
    BY <1>1, <2>1 DEF IsCut
  <2>3. IsLine(BoxesOf(p.at, S))
    BY <2>2, FitsInLine
  <2>4. BoxesOf(q.at, S) = BoxesOf(p.at, S)
    BY <1>2, <2>2 DEF BoxesOf
  <2> QED
    BY <2>3, <2>4 DEF S
<1>7. \A id \in ids : IsLine(Boxes[id]) /\ IsFiniteSet(Boxes[id])
  <2> SUFFICES ASSUME NEW id \in ids PROVE IsLine(Boxes[id]) /\ IsFiniteSet(Boxes[id])
    OBVIOUS
  <2>1. PICK i \in DOMAIN p.at : id = q.at[i].grip
    BY <1>2
  <2> HIDE DEF Boxes
  <2> QED
    BY <1>4, <1>6, <2>1
<1> HIDE DEF Boxes
<1>8. AreLines(Boxes)
  BY <1>4, <1>7 DEF AreLines
<1> QED
  BY <1>3, <1>4, <1>5, <1>8 DEF LinedUp

\* The grips derived for an order lean on grips before them in it.
LEMMA DerivedStands ==
  ASSUME NEW at, NEW Boxes, NEW order, IsSeq(order), Distinct(order),
         DOMAIN Boxes = ToSet(order), Boxes = GripBoxes(at, ToSet(order)),
         ToSet(order) \subseteq Grips,
         NEW g, g = [i \in DOMAIN order |->
                       [id |-> order[i], delta |-> DerivedDelta(Boxes, order, i)]],
         IsLinearExtension(order, VerticalDependencies(Boxes))
  PROVE  /\ GripList(g) /\ IdSeq(g) = order /\ Ids(g) = ToSet(order)
         /\ IsLinearExtension(order, Inferred(at, g))
<1> DEFINE delta == [id \in Ids(g) |-> GripOf(g, id).delta]
<1>1. \A i \in DOMAIN order : g[i].id = order[i] /\ g[i].delta = DerivedDelta(Boxes, order, i)
  OBVIOUS
<1>2. g = [i \in DOMAIN order |-> g[i]]
  OBVIOUS
<1>3. \A i \in DOMAIN order : g[i] = [id |-> g[i].id, delta |-> g[i].delta]
  OBVIOUS
<1>4. IsSeq(g) /\ DOMAIN g = DOMAIN order
  BY <1>2, MappedOver
<1>5. IdSeq(g) = order
  <2>1. IdSeq(g) = [i \in DOMAIN order |-> order[i]]
    BY <1>1, <1>4 DEF IdSeq
  <2>2. order = [i \in DOMAIN order |-> order[i]]
    BY IsSeqFacts
  <2> QED
    BY <2>1, <2>2
<1>6. Ids(g) = ToSet(order)
  BY <1>1, <1>4 DEF Ids, ToSet
<1>7. ASSUME NEW i \in DOMAIN order PROVE g[i] \in GripRecords
  <2>1. PICK s : DerivedDelta(Boxes, order, i) = Away(s) /\ LeansOnEarlier(Boxes, order, i, s)
    BY DerivedLeansOnEarlier
  <2>2. s[1] \in {-1, 0, 1} /\ s[2] \in {-1, 0, 1}
    BY <2>1 DEF LeansOnEarlier
  <2>3. -s[1] \in {-1, 0, 1} /\ -s[2] \in {-1, 0, 1}
    BY <2>2
  <2>4. Away(s) \in LabelSides
    BY <2>3 DEF Away, LabelSides, Directions
  <2>5. g[i].id \in Grips /\ g[i].delta \in LabelSides
    BY <1>1, <2>1, <2>4 DEF ToSet
  <2> QED
    BY <1>3, <2>5 DEF GripRecords
<1>8. GripList(g)
  BY <1>4, <1>7 DEF GripList, ToSet
<1>9. delta = DerivedDeltas(Boxes, order)
  <2>1. ASSUME NEW id \in ToSet(order)
        PROVE  GripOf(g, id).delta
                 = DerivedDelta(Boxes, order, CHOOSE i \in DOMAIN order : order[i] = id)
    <3>1. id \in Ids(g)
      BY <1>6
    <3> HIDE DEF delta
    <3>2. PICK i \in DOMAIN g : GripOf(g, id) = g[i] /\ g[i].id = id
      BY <1>4, <3>1, GripHasId
    <3>3. i \in DOMAIN order /\ order[i] = id
      BY <1>1, <1>4, <3>2
    <3>4. (CHOOSE k \in DOMAIN order : order[k] = id) = i
      BY <3>3 DEF Distinct
    <3> QED
      BY <1>1, <3>2, <3>3, <3>4
  <2> QED
    BY <1>6, <2>1 DEF DerivedDeltas
<1>10. Inferred(at, g) = DeltaDependencies(Boxes, delta) \cup VerticalDependencies(Boxes)
  BY <1>6 DEF Inferred
<1>11. IsLinearExtension(order, DeltaDependencies(Boxes, DerivedDeltas(Boxes, order)))
  BY DerivedAgree
<1>12. IsLinearExtension(order, Inferred(at, g))
  BY <1>9, <1>10, <1>11 DEF IsLinearExtension
<1> QED
  BY <1>5, <1>6, <1>8, <1>12

\* InLayerRows: grips in layer rows as far as they can be placed so.
LEMMA RowsStand ==
  ASSUME NEW p, IsRecord(p), WellPlaced(p.at), DOMAIN p.at # {},
         NEW q, q = GroupedAs(p, AutomaticGroups(p.at)),
         NEW r, r = InLayerRows(q, AllGripBoxes(q))
  PROVE  /\ IsDraft(r) /\ Distinct(IdSeq(r.grips))
         /\ AreLines(GripBoxes(r.at, Ids(r.grips)))
         /\ Acyclic(Ids(r.grips), r.explicit \cup Inferred(r.at, r.grips))
<1> DEFINE Boxes == AllGripBoxes(q)
           packages == [i \in DOMAIN q.at |-> Box(q.at[i])]
           place == [g \in DOMAIN Boxes |-> 0]
           rows == LayerRowOrder(Boxes, packages, place)
           order == OrderByDependencies(rows, VerticalDependencies(Boxes))
           g == [i \in DOMAIN order |-> [id |-> order[i], delta |-> DerivedDelta(Boxes, order, i)]]
<1>1. /\ IsRecord(q) /\ WellPlaced(q.at) /\ q.explicit = {} /\ DOMAIN q.at # {}
      /\ \A i \in DOMAIN q.at : q.at[i].grip \in Grips
  <2> DEFINE C == AutomaticGroups(p.at)
  <2>1. IsCut(p.at, C)
    BY AutomaticCut
  <2>2. q = GroupedAs(p, C)
    OBVIOUS
  <2> HIDE DEF C
  <2> QED
    BY <2>1, <2>2, GroupedDraft
<1>2. /\ AreLines(Boxes) /\ IsFiniteSet(DOMAIN Boxes)
      /\ DOMAIN Boxes = {q.at[i].grip : i \in DOMAIN q.at}
  <2>1. LinedUp(q)
    BY GroupedLines
  <2> QED
    BY <2>1 DEF LinedUp
<1>3. Boxes = GripBoxes(q.at, DOMAIN Boxes) /\ DOMAIN Boxes \subseteq Grips
  BY <1>1, <1>2 DEF AllGripBoxes
<1>4. r = [q EXCEPT !.grips = g]
  BY DEF InLayerRows, WithDerivedGrips
<1>5. AreBoxes(packages)
  BY <1>1, LayerBoxes
<1>6. \A h \in DOMAIN Boxes : place[h] \in Int
  OBVIOUS
<1>7. g = [i \in DOMAIN order |-> [id |-> order[i], delta |-> DerivedDelta(Boxes, order, i)]]
  OBVIOUS
<1> HIDE DEF Boxes, packages, place, g
<1>8. IsSeq(rows) /\ Distinct(rows) /\ ToSet(rows) = DOMAIN Boxes
  BY <1>2, <1>5, <1>6, RowsHoldAll
<1>9. Acyclic(DOMAIN Boxes, VerticalDependencies(Boxes))
  BY <1>2, VerticalAcyclic
<1> HIDE DEF rows
<1>10. /\ IsSeq(order) /\ Distinct(order) /\ ToSet(order) = DOMAIN Boxes
       /\ IsLinearExtension(order, VerticalDependencies(Boxes))
  BY <1>8, <1>9, OrderedAll
<1> HIDE DEF order
<1>11. /\ GripList(g) /\ IdSeq(g) = order /\ Ids(g) = DOMAIN Boxes
       /\ IsLinearExtension(order, Inferred(q.at, g))
  BY <1>3, <1>7, <1>10, DerivedStands
<1>12. Amended(q, r, q.at, g, q.explicit)
  BY <1>4 DEF Amended
<1>13. IsRecord(r) /\ r.at = q.at /\ r.grips = g /\ r.explicit = {}
  BY <1>1, <1>12, RecordBut
<1>14. Linked(q.at, g)
  BY <1>2, <1>11 DEF Linked
<1>15. IsDraft(r)
  BY <1>1, <1>11, <1>13, <1>14 DEF IsDraft, IsPairs
<1>16. Distinct(IdSeq(r.grips)) /\ AreLines(GripBoxes(r.at, Ids(r.grips)))
  BY <1>2, <1>3, <1>10, <1>11, <1>13
<1>17. Acyclic(DOMAIN Boxes, Inferred(q.at, g))
  BY <1>10, <1>11, LinearAcyclic
<1>18. r.explicit \cup Inferred(r.at, r.grips) = Inferred(q.at, g)
  BY <1>13
<1>19. Acyclic(Ids(r.grips), r.explicit \cup Inferred(r.at, r.grips))
  BY <1>11, <1>13, <1>17, <1>18
<1> QED
  BY <1>15, <1>16, <1>19

LEMMA EnsuredStands ==
  ASSUME NEW p, IsDraft(p), IsLayer(p), p.grips # <<>> => Standing(p)
  PROVE  Standing(EnsureGroups(p))
<1> DEFINE q == GroupedAs(p, AutomaticGroups(p.at))
           r == InLayerRows(q, AllGripBoxes(q))
<1>1. EnsureGroups(p) = IF p.grips # <<>> \/ DOMAIN p.at = {} THEN p ELSE r
  BY DEF EnsureGroups
<1>2. CASE p.grips # <<>>
  BY <1>1, <1>2
<1>3. CASE p.grips = <<>> /\ DOMAIN p.at = {}
  <2>1. Ids(p.grips) = {} /\ DOMAIN IdSeq(p.grips) = {}
    BY <1>3 DEF Ids, IdSeq
  <2>2. Distinct(IdSeq(p.grips)) /\ AreLines(GripBoxes(p.at, Ids(p.grips)))
    BY <2>1 DEF Distinct, AreLines, GripBoxes
  <2>3. \A deps : Acyclic(Ids(p.grips), deps)
    BY <2>1 DEF Acyclic
  <2> QED
    BY <1>1, <1>3, <2>2, <2>3 DEF Standing
<1>4. CASE p.grips = <<>> /\ DOMAIN p.at # {}
  <2>1. EnsureGroups(p) = r
    BY <1>1, <1>4
  <2>2. IsRecord(p) /\ WellPlaced(p.at)
    BY DEF IsDraft
  <2>3. /\ IsDraft(r) /\ Distinct(IdSeq(r.grips))
        /\ AreLines(GripBoxes(r.at, Ids(r.grips)))
        /\ Acyclic(Ids(r.grips), r.explicit \cup Inferred(r.at, r.grips))
    <3> DEFINE u == r
    <3>1. u = InLayerRows(q, AllGripBoxes(q)) /\ q = GroupedAs(p, AutomaticGroups(p.at))
      OBVIOUS
    <3> HIDE DEF q, u
    <3> QED
      BY <1>4, <2>2, <3>1, RowsStand
  <2>4. IsLayer(r)
    BY <2>1, GroupsStill DEF Still
  <2> QED
    BY <2>1, <2>3, <2>4 DEF Standing
<1> QED
  BY <1>2, <1>3, <1>4

-----------------------------------------------------------------------------
(* Every command.                                                          *)

\* Sliding packages leaves them packages.
LEMMA SlidPlaced ==
  ASSUME NEW at, WellPlaced(at), NEW bt \in Slid(at)
  PROVE  WellPlaced(bt)
<1>1. Length \in Int
  BY PatternAssumption
<1>2. bt = at \/ \E i \in DOMAIN at, d \in (-Length) .. Length :
                   bt = [at EXCEPT ![i].x = @ + d] \/ bt = [at EXCEPT ![i].y = @ + d]
  BY DEF Slid
<1>3. ASSUME NEW i \in DOMAIN at, NEW d \in (-Length) .. Length,
             bt = [at EXCEPT ![i].x = @ + d] \/ bt = [at EXCEPT ![i].y = @ + d]
      PROVE  WellPlaced(bt)
  <2> DEFINE right == [at[i] EXCEPT !.x = @ + d]
             up == [at[i] EXCEPT !.y = @ + d]
  <2>1. at[i] \in Placements /\ d \in Int
    BY <1>1 DEF WellPlaced
  <2>2. right \in Placements /\ up \in Placements
    BY <2>1 DEF Placements
  <2>3. bt = [at EXCEPT ![i] = right] \/ bt = [at EXCEPT ![i] = up]
    BY <1>3
  <2> HIDE DEF right, up
  <2> QED
    BY <2>2, <2>3 DEF WellPlaced
<1> QED
  BY <1>2, <1>3

LEMMA RecalculateDraft ==
  ASSUME NEW p, IsDraft(p), IsLayer(p), NEW c \in RecalculateGroups(p)
  PROVE  IsDraft(c.next)
<1> DEFINE Bare(at) == [p EXCEPT !.grips = <<>>, !.explicit = {},
                                 !.at = [i \in DOMAIN at |-> [at[i] EXCEPT !.grip = NoGrip]]]
<1>1. PICK at \in Slid(p.at) : c = [Move(EnsureGroups(Bare(at))) EXCEPT !.anew = TRUE]
  BY DEF RecalculateGroups
<1> DEFINE bt == [i \in DOMAIN at |-> [at[i] EXCEPT !.grip = NoGrip]]
           f == [i \in DOMAIN at |-> NoGrip]
           q == Bare(at)
<1>2. WellPlaced(p.at) /\ WellPlaced(at)
  BY SlidPlaced DEF IsDraft
<1>3. Rehouses(at, DOMAIN at, f, bt)
  BY DEF Rehouses
<1>4. \A i \in DOMAIN at : f[i] = NoGrip
  OBVIOUS
<1>5. Amended(p, q, bt, <<>>, {})
  BY DEF Amended
<1>6. c = [Move(EnsureGroups(q)) EXCEPT !.anew = TRUE]
  BY <1>1
<1> HIDE DEF f, bt, q
<1>7. WellPlaced(bt) /\ \A i \in DOMAIN bt : bt[i].grip = NoGrip
  <2>1. \A i \in (DOMAIN at) \cap (DOMAIN at) : f[i] \in Grips \cup {NoGrip}
    BY <1>4
  <2>2. /\ WellPlaced(bt) /\ DOMAIN bt = DOMAIN at
        /\ \A i \in DOMAIN at : bt[i].grip = IF i \in DOMAIN at THEN f[i] ELSE at[i].grip
    BY <1>2, <1>3, <2>1, Rehoused
  <2> QED
    BY <1>4, <2>2
<1>8. GripList(<<>>)
  BY NoneIsSeq, NoneHolds DEF GripList
<1>9. IsPairs({}) /\ Linked(bt, <<>>)
  BY <1>7 DEF IsPairs, Linked
<1>10. IsDraft(q) /\ q.grips = <<>> /\ q.at = bt
  BY <1>5, <1>7, <1>8, <1>9, DraftWith
<1>11. IsLayer(q)
  <2>1. IsLying(q.at)
    <3>1. ASSUME NEW pl \in Placements PROVE IsPlaced(pl)
      BY DEF Placements, IsPlaced
    <3> QED
      BY <1>7, <1>10, <3>1 DEF WellPlaced, IsLying
  <2> QED
    BY <1>10, <2>1, NoneIsSeq DEF IsLayer, IsDraft
<1>12. IsDraft(EnsureGroups(q))
  BY <1>10, <1>11, EnsuredStands DEF Standing
<1>13. c.next = EnsureGroups(q)
  BY <1>6, Changed, Zenon
<1> QED
  BY <1>12, <1>13

LEMMA PatternViewDrafts ==
  ASSUME NEW p, IsDraft(p), IsLayer(p), NEW c \in PatternViewEdits(p)
  PROVE  IsDraft(c.next)
<1> DEFINE moved == {MovePlacements(p, S, step) : S \in Selections(p), step \in Steps}
           About(S) == {RotatePlacements(p, S, [x |-> x, y |-> y], 1) :
                          x \in Average(p, S, "x"), y \in Average(p, S, "y")}
           turned == UNION {About(S) : S \in Selections(p)}
           centred == {CenterPlacements(p, S) :
                         S \in {T \in Selections(p) :
                                  \A k \in 1 .. 2 : CenteringStep2(p, T)[k] % 2 = 0}}
           labelled == {SetLabelSide(p, S, label) : S \in Selections(p), label \in Labels}
           deleted == {DeletePlacements(p, S) : S \in Selections(p)}
           new == Packages \cap {Max(DOMAIN p.at \cup {0}) + 1}
           inserted == UNION {InsertPlacement(p, i, turn) : i \in new, turn \in 0 .. 1}
<1>1. ASSUME c \in moved PROVE IsDraft(c.next)
  <2>1. PICK S \in Selections(p), step \in Steps : c = MovePlacements(p, S, step)
    BY <1>1
  <2>2. step[1] \in Int /\ step[2] \in Int
    BY PatternAssumption
  <2> QED
    BY <2>1, <2>2, MovedDraft
<1>2. ASSUME c \in turned PROVE IsDraft(c.next)
  <2>1. PICK S \in Selections(p) : c \in About(S)
    BY <1>2
  <2>2. PICK x \in Average(p, S, "x"), y \in Average(p, S, "y") :
          c = RotatePlacements(p, S, [x |-> x, y |-> y], 1)
    BY <2>1
  <2>3. x \in Int /\ y \in Int
    BY AverageInt
  <2> QED
    BY <2>2, <2>3, RotatedDraft
<1>3. ASSUME c \in centred PROVE IsDraft(c.next)
  <2>1. PICK S \in Selections(p) : c = CenterPlacements(p, S)
    BY <1>3
  <2>2. S \in SUBSET DOMAIN p.at /\ S # {}
    BY DEF Selections
  <2> QED
    BY <2>1, <2>2, CenteredDraft
<1>4. ASSUME c \in labelled PROVE IsDraft(c.next)
  <2>1. PICK S \in Selections(p), label \in Labels : c = SetLabelSide(p, S, label)
    BY <1>4
  <2>2. label \in LabelSides
    BY PatternAssumption
  <2> QED
    BY <2>1, <2>2, LabelledDraft
<1>5. ASSUME c \in deleted PROVE IsDraft(c.next)
  BY <1>5, DeletedDraft
<1>6. ASSUME c \in inserted PROVE IsDraft(c.next)
  <2> HIDE DEF new
  <2>1. PICK i \in new, turn \in 0 .. 1 : c \in InsertPlacement(p, i, turn)
    BY <1>6
  <2>2. i \in Packages
    BY DEF new
  <2> QED
    BY <2>1, <2>2, InsertedDraft
<1>7. PatternViewEdits(p) = moved \cup turned \cup centred \cup labelled \cup deleted
                            \cup inserted \cup {SetPatternName(p)}
  BY DEF PatternViewEdits
<1>8. IsDraft(SetPatternName(p).next)
  BY Changed, Zenon DEF SetPatternName
<1> HIDE DEF moved, turned, centred, labelled, deleted, inserted
<1> QED
  BY <1>1, <1>2, <1>3, <1>4, <1>5, <1>6, <1>7, <1>8

LEMMA OrderViewDrafts ==
  ASSUME NEW p, Standing(p), NEW c \in OrderViewEdits(p)
  PROVE  IsDraft(c.next)
<1> DEFINE ids == Ids(p.grips)
           created == UNION {CreateGroup(p, S) : S \in (SUBSET DOMAIN p.at) \ {{}}}
           split == {SplitGroup(p, id) : id \in ids}
           merged == UNION {MergeGroups(p, some) : some \in SUBSET ids}
           removed == {RemoveGroup(p, id) : id \in ids}
           reordered == UNION {ReorderGroup(p, id, k) : id \in ids, k \in DOMAIN p.grips}
           added == UNION {AddOrderDependency(p, g, h) : g \in ids, h \in ids}
           dropped == UNION {RemoveOrderDependency(p, g, h) : g \in ids, h \in ids}
<1> USE DEF Standing
<1>1. ASSUME c \in created PROVE IsDraft(c.next)
  BY <1>1, CreateDraft
<1>2. ASSUME c \in split PROVE IsDraft(c.next)
  BY <1>2, SplitDraft
<1>3. ASSUME c \in merged PROVE IsDraft(c.next)
  BY <1>3, MergedDraft
<1>4. ASSUME c \in removed PROVE IsDraft(c.next)
  BY <1>4, RemovedDraft
<1>5. ASSUME c \in reordered PROVE IsDraft(c.next)
  <2>1. PICK id \in ids, k \in DOMAIN p.grips : c \in ReorderGroup(p, id, k)
    BY <1>5
  <2> QED
    BY <2>1, ReorderDraft
<1>6. ASSUME c \in InOrder(p, SuggestedOrder(p)) PROVE IsDraft(c.next)
  <2>1. IsSeq(SuggestedOrder(p)) /\ ToSet(SuggestedOrder(p)) = Ids(p.grips)
    BY SuggestedHolds
  <2> QED
    BY <1>6, <2>1, InOrderDraft
<1>7. ASSUME c \in added PROVE IsDraft(c.next)
  <2>1. PICK g \in ids, h \in ids : c \in AddOrderDependency(p, g, h)
    BY <1>7
  <2> QED
    BY <2>1, DependenciesDraft
<1>8. ASSUME c \in dropped PROVE IsDraft(c.next)
  <2>1. PICK g \in ids, h \in ids : c \in RemoveOrderDependency(p, g, h)
    BY <1>8
  <2> QED
    BY <2>1, DependenciesDraft
<1>9. OrderViewEdits(p) = created \cup split \cup merged \cup removed \cup reordered
                          \cup InOrder(p, SuggestedOrder(p)) \cup added \cup dropped
  BY DEF OrderViewEdits, GroupingEdits
<1> HIDE DEF created, split, merged, removed, reordered, added, dropped
<1> QED
  BY <1>1, <1>2, <1>3, <1>4, <1>5, <1>6, <1>7, <1>8, <1>9

\* Whatever is done to a pattern that can be placed leaves one.
LEMMA EditTyped ==
  ASSUME NEW p, IsPattern(p), Placeable(p), NEW q \in Edits(p)
  PROVE  IsPattern(q)
<1> DEFINE changes == PatternViewEdits(p) \cup OrderViewEdits(EnsureGroups(p))
                        \cup RecalculateGroups(p)
<1>1. Standing(p) /\ IsDraft(p) /\ IsLayer(p)
  BY PlaceableStands DEF Standing
<1>2. Standing(EnsureGroups(p))
  BY <1>1, EnsuredStands
<1>3. \A c \in changes : IsDraft(c.next)
  BY <1>1, <1>2, PatternViewDrafts, OrderViewDrafts, RecalculateDraft
<1>4. q \in Outcomes(p, changes) /\ q # Broken
  BY DEF Edits
<1> HIDE DEF changes
<1>5. PICK c \in changes : q \in Replaced(p, c)
  BY <1>4 DEF Outcomes
<1> QED
  BY <1>3, <1>4, <1>5, ReplacedTyped

-----------------------------------------------------------------------------
(* Every version of the plan has its type.                                 *)

IsVersion(project) ==
  /\ project = [content |-> project.content, save |-> project.save]
  /\ IsPattern(project.content) /\ Placeable(project.content)
  /\ project.save \in 0 .. MaxSaves

TypedVersions ==
  /\ StacksInv
  /\ IsVersion(original) /\ IsVersion(persisted) /\ IsVersion(present)
  /\ \A i \in DOMAIN past : IsVersion(past[i])
  /\ \A i \in DOMAIN future : IsVersion(future[i])
  /\ saving # NoSnapshot => IsVersion(saving)
  /\ saveCount \in 0 .. MaxSaves

LEMMA StartIsVersion ==
  ASSUME \A p \in Starts : Placeable(p), NEW content \in Starts, NEW save \in 0 .. MaxSaves
  PROVE  IsVersion(Project(content, save))
  BY StartsAssumption DEF IsVersion, Project

LEMMA TypedBegin ==
  ASSUME HistoryAssumption, \A p \in Starts : Placeable(p), HistoryInit
  PROVE  TypedVersions
<1>1. 0 \in 0 .. MaxSaves
  BY DEF HistoryAssumption
<1>2. StacksInv
  BY HistoryBegins
<1>3. IsVersion(original)
  BY <1>1, StartIsVersion DEF HistoryInit
<1> QED
  BY <1>1, <1>2, <1>3 DEF HistoryInit, TypedVersions

LEMMA EditedIsVersion ==
  ASSUME NEW project, IsVersion(project), NEW content \in Edits(project.content), NEW edited,
         edited = [project EXCEPT !.content = content]
  PROVE  IsVersion(edited)
<1>1. IsPattern(content)
  BY EditTyped DEF IsVersion
<1>2. Placeable(content)
  BY PatternIsDraft, EditNotWorse DEF IsVersion
<1>3. edited = [content |-> content, save |-> project.save]
  BY DEF IsVersion
<1> QED
  BY <1>1, <1>2, <1>3 DEF IsVersion

LEMMA TypedStep ==
  ASSUME HistoryAssumption, \A p \in Starts : Placeable(p), TypedVersions,
         [HistoryNext]_historyVars
  PROVE  TypedVersions'
<1> USE DEF TypedVersions
<1>1. StacksInv'
  BY HistoryStep
<1>2. DOMAIN <<>> = {}
  OBVIOUS
<1>3. Len(past) \in Nat /\ Len(future) \in Nat /\ Len(past) <= MaxHistory
  BY IsSeqFacts DEF StacksInv, StacksBounded, HistoryAssumption
<1>4. \A i \in DOMAIN Push(past, present) : IsVersion(Push(past, present)[i])
  BY <1>3, PushedEntries DEF StacksInv
<1>5. CASE Execute
  <2>1. PICK content \in Edits(present.content) : present' = [present EXCEPT !.content = content]
    BY <1>5 DEF Execute
  <2>2. IsVersion(present')
    BY <2>1, EditedIsVersion
  <2> QED
    BY <1>1, <1>2, <1>4, <1>5, <2>2 DEF Execute
<1>6. CASE ResetToOriginal
  BY <1>1, <1>2, <1>4, <1>6 DEF ResetToOriginal
<1>7. CASE UndoEdit
  <2>1. /\ \A i \in 1 .. Len(past) - 1 : past'[i] = past[i]
        /\ Len(past') = Len(past) - 1 /\ DOMAIN past' = 1 .. Len(past')
        /\ DOMAIN past = 1 .. Len(past) /\ Len(past) > 0
    BY <1>1, <1>7, Shortened, IsSeqFacts DEF UndoEdit, StacksInv
  <2>2. /\ \A i \in 1 .. Len(future) : future'[i] = future[i]
        /\ future'[Len(future) + 1] = present
        /\ Len(future') = Len(future) + 1 /\ DOMAIN future' = 1 .. Len(future')
        /\ DOMAIN future = 1 .. Len(future)
    BY <1>1, <1>7, Appended, IsSeqFacts DEF UndoEdit, StacksInv
  <2>3. \A i \in DOMAIN past' : IsVersion(past'[i])
    BY <1>3, <2>1
  <2>4. \A i \in DOMAIN future' : IsVersion(future'[i])
    BY <1>3, <2>2
  <2>5. IsVersion(present')
    BY <1>3, <1>7, <2>1 DEF UndoEdit
  <2> QED
    BY <1>1, <1>7, <2>3, <2>4, <2>5 DEF UndoEdit
<1>8. CASE Redo
  <2>1. /\ \A i \in 1 .. Len(future) - 1 : future'[i] = future[i]
        /\ Len(future') = Len(future) - 1 /\ DOMAIN future' = 1 .. Len(future')
        /\ DOMAIN future = 1 .. Len(future) /\ Len(future) > 0
    BY <1>1, <1>8, Shortened, IsSeqFacts DEF Redo, StacksInv
  <2>2. \A i \in DOMAIN future' : IsVersion(future'[i])
    BY <1>3, <2>1
  <2>3. IsVersion(present')
    BY <1>3, <1>8, <2>1 DEF Redo
  <2> QED
    BY <1>1, <1>4, <1>8, <2>2, <2>3 DEF Redo
<1>9. CASE DiscardEdits
  BY <1>1, <1>2, <1>9 DEF DiscardEdits
<1>10. CASE ReplaceProject
  <2>1. PICK content \in Starts : original' = Project(content, saveCount + 1)
    BY <1>10 DEF ReplaceProject
  <2>2. saveCount + 1 \in 0 .. MaxSaves
    BY <1>10 DEF ReplaceProject, HistoryAssumption
  <2>3. IsVersion(original')
    BY <2>1, <2>2, StartIsVersion
  <2> QED
    BY <1>1, <1>2, <1>10, <2>2, <2>3 DEF ReplaceProject
<1>11. CASE MarkSaved
  <2>1. ASSUME NEW project, IsVersion(project)
        PROVE  IsVersion(Rebased(project))
    BY <2>1 DEF IsVersion, Rebased, Project
  <2>2. /\ past' = [i \in DOMAIN past |-> Rebased(past[i])]
        /\ future' = [i \in DOMAIN future |-> Rebased(future[i])]
        /\ persisted' = Rebased(saving) /\ present' = Rebased(present)
        /\ saving # NoSnapshot /\ saving' = NoSnapshot
        /\ original' = original /\ saveCount' = saveCount
    BY <1>11 DEF MarkSaved
  <2>3. \A i \in DOMAIN past' : IsVersion(past'[i])
    BY <2>1, <2>2
  <2>4. \A i \in DOMAIN future' : IsVersion(future'[i])
    BY <2>1, <2>2
  <2>5. IsVersion(persisted') /\ IsVersion(present')
    BY <2>1, <2>2
  <2> QED
    BY <1>1, <2>2, <2>3, <2>4, <2>5
<1>12. CASE StartSave
  <2>1. saveCount + 1 \in 0 .. MaxSaves
    BY <1>12 DEF StartSave, HistoryAssumption
  <2> QED
    BY <1>1, <1>12, <2>1 DEF StartSave
<1>13. CASE SaveFails \/ UNCHANGED historyVars
  BY <1>1, <1>13 DEF SaveFails, historyVars
<1> QED
  BY <1>5, <1>6, <1>7, <1>8, <1>9, <1>10, <1>11, <1>12, <1>13 DEF HistoryNext

LEMMA AllVersionsTyped ==
  ASSUME \A p \in Starts : Placeable(p)
  PROVE  HistorySpec => []TypedVersions
  BY KernelAssumption, TypedBegin, TypedStep, PTL DEF HistorySpec

LEMMA VersionsAreTyped == TypedVersions => KernelTypeOK
  BY DEF TypedVersions, IsVersion, KernelTypeOK, StacksInv

-----------------------------------------------------------------------------
(* Commands that make grips of grips keep the user's order.                *)

\* Packages that go to different grips are ordered as they were.
CarriesOrder(p, r) ==
  /\ DOMAIN r.at = DOMAIN p.at
  /\ \A d \in PackageOrder(p) :
       r.at[d[1]].grip # r.at[d[2]].grip =>
         /\ <<r.at[d[1]].grip, r.at[d[2]].grip>> \in r.explicit
         /\ {r.at[d[1]].grip, r.at[d[2]].grip} \subseteq Ids(r.grips)

LEMMA OrderOfGrips ==
  ASSUME NEW p, IsPattern(p), NEW d \in PackageOrder(p)
  PROVE  /\ d[1] \in DOMAIN p.at /\ d[2] \in DOMAIN p.at
         /\ <<p.at[d[1]].grip, p.at[d[2]].grip>> \in p.explicit
         /\ p.at[d[1]].grip \in Ids(p.grips) /\ p.at[d[2]].grip \in Ids(p.grips)
<1>1. p.explicit \subseteq Ids(p.grips) \X Ids(p.grips)
  BY DEF IsPattern
<1> QED
  BY <1>1 DEF PackageOrder

LEMMA SameCarries ==
  ASSUME NEW p, IsPattern(p)
  PROVE  CarriesOrder(p, p)
  BY OrderOfGrips DEF CarriesOrder

LEMMA SplitCarries ==
  ASSUME NEW p, IsPattern(p), NEW id, NEW r, SplitFrom(p, id, r)
  PROVE  CarriesOrder(p, r)
<1>1. PICK heirs :
        /\ Ids(r.grips) = (Ids(p.grips) \ {id}) \cup ToSet(heirs)
        /\ DOMAIN r.at = DOMAIN p.at
        /\ \A i \in DOMAIN p.at : p.at[i].grip = id => r.at[i].grip \in ToSet(heirs)
        /\ \A i \in DOMAIN p.at : p.at[i].grip # id => r.at[i].grip = p.at[i].grip
        /\ r.explicit = Inherited(p.explicit, id, heirs)
  BY DEF SplitFrom
<1> DEFINE Ends(g) == IF g = id THEN ToSet(heirs) ELSE {g}
<1>2. ASSUME NEW d \in PackageOrder(p)
      PROVE  /\ <<r.at[d[1]].grip, r.at[d[2]].grip>> \in r.explicit
             /\ {r.at[d[1]].grip, r.at[d[2]].grip} \subseteq Ids(r.grips)
  <2> DEFINE g == p.at[d[1]].grip  h == p.at[d[2]].grip
  <2>1. /\ d[1] \in DOMAIN p.at /\ d[2] \in DOMAIN p.at /\ <<g, h>> \in p.explicit
        /\ g \in Ids(p.grips) /\ h \in Ids(p.grips)
    BY OrderOfGrips
  <2>2. r.at[d[1]].grip \in Ends(g) /\ r.at[d[2]].grip \in Ends(h)
    BY <1>1, <2>1
  <2>3. Ends(g) \subseteq Ids(r.grips) /\ Ends(h) \subseteq Ids(r.grips)
    BY <1>1, <2>1
  <2>4. Ends(g) \X Ends(h) \subseteq Inherited(p.explicit, id, heirs)
    <3>1. <<g, h>>[1] = g /\ <<g, h>>[2] = h
      OBVIOUS
    <3> QED
      BY <2>1, <3>1 DEF Inherited
  <2> HIDE DEF g, h, Ends
  <2> QED
    BY <1>1, <2>2, <2>3, <2>4
<1> QED
  BY <1>1, <1>2 DEF CarriesOrder

\* Dependencies of the grips of S pass to the grip f.
Passes(S, f, g, a) == a = IF g \in S THEN f ELSE g
PassedTo(deps, S, f) == Remap(deps, LAMBDA g : IF g \in S THEN f ELSE g)

LEMMA PassedPair ==
  ASSUME NEW deps, NEW S, NEW f, NEW g, NEW h, <<g, h>> \in deps,
         NEW a, Passes(S, f, g, a), NEW b, Passes(S, f, h, b), a # b
  PROVE  <<a, b>> \in PassedTo(deps, S, f)
<1> DEFINE Image(x) == IF x \in S THEN f ELSE x
           all == {<<Image(d[1]), Image(d[2])>> : d \in deps}
<1>1. <<a, b>> \in all
  <2>1. <<Image(<<g, h>>[1]), Image(<<g, h>>[2])>> \in all
    OBVIOUS
  <2> QED
    BY <2>1 DEF Passes
<1>2. PassedTo(deps, S, f) = {x \in all : x[1] # x[2]}
  BY DEF Remap, PassedTo
<1> HIDE DEF all
<1> QED
  BY <1>1, <1>2

\* So do the packages of the grips of S, and no others.
HandsOver(p, S, f, r) ==
  /\ Ids(r.grips) = (Ids(p.grips) \ S) \cup {f}
  /\ DOMAIN r.at = DOMAIN p.at
  /\ \A i \in DOMAIN p.at : p.at[i].grip \in Ids(p.grips) =>
       r.at[i].grip = IF p.at[i].grip \in S THEN f ELSE p.at[i].grip
  /\ r.explicit = PassedTo(p.explicit, S, f)

LEMMA FollowedCarries ==
  ASSUME NEW p, IsPattern(p), NEW S, NEW f, NEW r, HandsOver(p, S, f, r)
  PROVE  CarriesOrder(p, r)
<1>1. /\ Ids(r.grips) = (Ids(p.grips) \ S) \cup {f}
      /\ DOMAIN r.at = DOMAIN p.at
      /\ \A i \in DOMAIN p.at : p.at[i].grip \in Ids(p.grips) =>
           r.at[i].grip = IF p.at[i].grip \in S THEN f ELSE p.at[i].grip
      /\ r.explicit = PassedTo(p.explicit, S, f)
  BY DEF HandsOver
<1>2. ASSUME NEW d \in PackageOrder(p), r.at[d[1]].grip # r.at[d[2]].grip
      PROVE  /\ <<r.at[d[1]].grip, r.at[d[2]].grip>> \in r.explicit
             /\ {r.at[d[1]].grip, r.at[d[2]].grip} \subseteq Ids(r.grips)
  <2> DEFINE g == p.at[d[1]].grip  h == p.at[d[2]].grip
  <2>1. /\ d[1] \in DOMAIN p.at /\ d[2] \in DOMAIN p.at /\ <<g, h>> \in p.explicit
        /\ g \in Ids(p.grips) /\ h \in Ids(p.grips)
    BY OrderOfGrips
  <2>2. /\ r.at[d[1]].grip = IF g \in S THEN f ELSE g
        /\ r.at[d[2]].grip = IF h \in S THEN f ELSE h
    BY <1>1, <2>1
  <2> HIDE DEF g, h
  <2>3. {r.at[d[1]].grip, r.at[d[2]].grip} \subseteq Ids(r.grips)
    BY <1>1, <2>1, <2>2
  <2>4. <<r.at[d[1]].grip, r.at[d[2]].grip>> \in r.explicit
    <3>1. r.explicit = PassedTo(p.explicit, S, f)
      BY <1>1
    <3>2. Passes(S, f, g, r.at[d[1]].grip) /\ Passes(S, f, h, r.at[d[2]].grip)
      BY <2>2 DEF Passes
    <3>3. <<g, h>> \in p.explicit /\ r.at[d[1]].grip # r.at[d[2]].grip
      BY <1>2, <2>1
    <3> QED
      BY <3>1, <3>2, <3>3, PassedPair
  <2> QED
    BY <2>3, <2>4
<1> QED
  BY <1>1, <1>2 DEF CarriesOrder

LEMMA MergedCarries ==
  ASSUME NEW p, IsPattern(p), NEW ids, NEW r, MergedFrom(p, ids, r)
  PROVE  CarriesOrder(p, r)
<1>1. PICK f \in ids :
        /\ Ids(r.grips) = (Ids(p.grips) \ ids) \cup {f}
        /\ DOMAIN r.at = DOMAIN p.at
        /\ \A i \in DOMAIN p.at :
             r.at[i].grip = IF p.at[i].grip \in ids THEN f ELSE p.at[i].grip
        /\ r.explicit = Remap(p.explicit, LAMBDA g : IF g \in ids THEN f ELSE g)
  BY DEF MergedFrom
<1>2. HandsOver(p, ids, f, r)
  BY <1>1 DEF HandsOver, PassedTo
<1> QED
  BY <1>2, FollowedCarries

\* Whole grips go into the new one or stay out of it.
LEMMA CreatedCarries ==
  ASSUME NEW p, IsPattern(p), NEW S \in SUBSET DOMAIN p.at,
         \A id \in Ids(p.grips) : Members(p.at, id) \cap S \in {{}, Members(p.at, id)},
         NEW r, Created(p, S, Affected(p, S), r)
  PROVE  CarriesOrder(p, r)
<1> DEFINE id == FreshId(Ids(p.grips) \ Affected(p, S), S)
           removed == {g \in Affected(p, S) : Members(p.at, g) \subseteq S}
<1>1. /\ Ids(r.grips) = (Ids(p.grips) \ removed) \cup {id}
      /\ DOMAIN r.at = DOMAIN p.at
      /\ \A i \in DOMAIN p.at : r.at[i].grip = IF i \in S THEN id ELSE p.at[i].grip
      /\ r.explicit = Remap(p.explicit, LAMBDA g : IF g \in removed THEN id ELSE g)
  BY DEF Created
<1>2. NoGrip \notin Ids(p.grips)
  BY PatternIsDraft, IdsAreGrips DEF IsDraft, Grips, NoGrip
<1>3. ASSUME NEW i \in DOMAIN p.at, p.at[i].grip \in Ids(p.grips)
      PROVE  i \in S <=> p.at[i].grip \in removed
  <2>1. i \in Members(p.at, p.at[i].grip)
    BY DEF Members
  <2>2. CASE i \in S
    <3>1. p.at[i].grip \in Affected(p, S)
      BY <1>2, <1>3, <2>2 DEF Affected
    <3>2. Members(p.at, p.at[i].grip) \subseteq S
      BY <1>3, <2>1, <2>2
    <3> QED
      BY <2>2, <3>1, <3>2
  <2>3. CASE i \notin S
    BY <2>1, <2>3
  <2> QED
    BY <2>2, <2>3
<1>4. r.explicit = PassedTo(p.explicit, removed, id)
  BY <1>1 DEF PassedTo
<1>5. HandsOver(p, removed, id, r)
  <2> HIDE DEF id, removed
  <2> QED
    BY <1>1, <1>3, <1>4 DEF HandsOver
<1> QED
  BY <1>5, FollowedCarries

\* What is carried over is not lost in what every command ends with.
LEMMA CarriedStays ==
  ASSUME NEW p, IsPattern(p), NEW c, IsDraft(c.next), CarriesOrder(p, c.next),
         NEW q \in Replaced(p, c), q # Broken
  PROVE  {d \in PackageOrder(p) : q.at[d[1]].grip # q.at[d[2]].grip} \subseteq PackageOrder(q)
<1> DEFINE r == c.next
<1>1. /\ q.at = r.at
      /\ q.explicit = {d \in r.explicit : {d[1], d[2]} \subseteq Gripped(r)}
  BY ReplacedTyped
<1>2. IsDraft(r) /\ CarriesOrder(p, r)
  OBVIOUS
<1> HIDE DEF r
<1>3. ASSUME NEW d \in PackageOrder(p), q.at[d[1]].grip # q.at[d[2]].grip
      PROVE  d \in PackageOrder(q)
  <2> DEFINE g == r.at[d[1]].grip  h == r.at[d[2]].grip
  <2>1. /\ d[1] \in DOMAIN r.at /\ d[2] \in DOMAIN r.at /\ d = <<d[1], d[2]>>
    BY <1>2 DEF CarriesOrder, PackageOrder
  <2>2. <<g, h>> \in r.explicit /\ g \in Ids(r.grips) /\ h \in Ids(r.grips)
    BY <1>1, <1>2, <1>3 DEF CarriesOrder
  <2>3. d[1] \in Members(r.at, g) /\ d[2] \in Members(r.at, h)
    BY <2>1 DEF Members
  <2>4. g \in Gripped(r) /\ h \in Gripped(r)
    BY <2>2, <2>3 DEF Gripped
  <2>5. <<g, h>> \in q.explicit
    BY <1>1, <2>2, <2>4
  <2> QED
    BY <1>1, <2>1, <2>5 DEF PackageOrder
<1> QED
  BY <1>3

LEMMA GroupingCarries ==
  ASSUME IsPattern(pattern)
  PROVE  GroupingKeepsExplicitOrder
<1> DEFINE p == pattern
           Whole(S) == \A id \in Ids(p.grips) : Members(p.at, id) \cap S \in {{}, Members(p.at, id)}
           split == {SplitGroup(p, id) : id \in Ids(p.grips)}
           merged == UNION {MergeGroups(p, S) : S \in SUBSET Ids(p.grips)}
           created == UNION {CreateGroup(p, S) :
                               S \in {T \in (SUBSET DOMAIN p.at) \ {{}} : Whole(T)}}
           Kept(q) == {d \in PackageOrder(p) : q.at[d[1]].grip # q.at[d[2]].grip}
                        \subseteq PackageOrder(q)
<1>1. IsPattern(p) /\ IsDraft(p)
  BY PatternIsDraft
<1> HIDE DEF p
<1>2. ASSUME NEW c \in split PROVE IsDraft(c.next) /\ CarriesOrder(p, c.next)
  <2>1. PICK id \in Ids(p.grips) : c = SplitGroup(p, id)
    BY <1>2
  <2>2. IsDraft(c.next) /\ (c.next = p \/ SplitFrom(p, id, c.next))
    BY <1>1, <2>1, SplitDraft
  <2> QED
    BY <1>1, <2>2, SameCarries, SplitCarries
<1>3. ASSUME NEW c \in merged PROVE IsDraft(c.next) /\ CarriesOrder(p, c.next)
  <2>1. PICK ids \in SUBSET Ids(p.grips) : c \in MergeGroups(p, ids)
    BY <1>3
  <2> QED
    BY <1>1, <2>1, MergedDraft, MergedCarries
<1>4. ASSUME NEW c \in created PROVE IsDraft(c.next) /\ CarriesOrder(p, c.next)
  <2>1. PICK S \in SUBSET DOMAIN p.at : Whole(S) /\ c \in CreateGroup(p, S)
    BY <1>4
  <2> DEFINE r == CreatedGroup(p, S, Affected(p, S))
  <2>2. c = Change(r)
    BY <2>1 DEF CreateGroup
  <2>3. IsDraft(r) /\ (r = p \/ Created(p, S, Affected(p, S), r))
    BY <1>1, CreatedDraft
  <2>4. CarriesOrder(p, r)
    BY <1>1, <2>1, <2>3, SameCarries, CreatedCarries
  <2> HIDE DEF r
  <2>5. c.next = r
    BY <2>2 DEF Change
  <2> QED
    BY <2>3, <2>4, <2>5
<1> HIDE DEF split, merged, created
<1>5. ASSUME NEW q \in Outcomes(p, split \cup merged \cup created), q # Broken
      PROVE  Kept(q)
  <2>1. PICK c \in split \cup merged \cup created : q \in Replaced(p, c)
    BY <1>5 DEF Outcomes
  <2>2. IsDraft(c.next) /\ CarriesOrder(p, c.next)
    BY <1>2, <1>3, <1>4
  <2> QED
    BY <1>1, <1>5, <2>1, <2>2, CarriedStays
<1> QED
  BY <1>5 DEF GroupingKeepsExplicitOrder, p, split, merged, created

THEOREM GroupingKeepsOrder ==
  ASSUME \A p \in Starts : Placeable(p)
  PROVE  HistorySpec => []GroupingKeepsExplicitOrder
<1>1. TypedVersions => IsPattern(pattern)
  BY DEF TypedVersions, IsVersion, pattern
<1>2. TypedVersions => GroupingKeepsExplicitOrder
  BY <1>1, GroupingCarries
<1> QED
  BY <1>2, AllVersionsTyped, PTL

-----------------------------------------------------------------------------
(* The pattern with its history, and the window.                           *)

LEMMA EditingSteps ==
  /\ EditingSpec => HistorySpec
  /\ EditingSpec => Spec
<1>1. EditingInit => HistoryInit /\ Init
  BY DEF EditingInit
<1>2. [EditingNext]_<<part, kernelVars, vars>> => [HistoryNext]_historyVars
  BY DEF EditingNext, kernelVars, historyVars
<1>3. [EditingNext]_<<part, kernelVars, vars>> => [Next]_vars
  BY DEF EditingNext
<1> QED
  BY <1>1, <1>2, <1>3, PTL DEF EditingSpec, HistorySpec, Spec

\* Whatever is edited, undone, drafted and saved, in the editor and in the
\* window it is open in: the pattern is one the project schema accepts, every
\* version of it that can come back is, and the window's drafts, saves and
\* backups have their types.
THEOREM EditingTyped ==
  ASSUME \A p \in Starts : Placeable(p)
  PROVE  EditingSpec => []EditingTypeOK
<1>1. HistorySpec => []KernelTypeOK
  BY VersionsAreTyped, AllVersionsTyped, PTL
<1>2. KernelTypeOK /\ TypeOK => EditingTypeOK
  BY DEF EditingTypeOK
<1> QED
  BY <1>1, <1>2, EditingSteps, EditorTyped, PTL
==============================================================================
