--------------------------- MODULE OrderedProofs ---------------------------
(***************************************************************************)
(* Lemmas about sets of indices taken in order.  They need induction over  *)
(* the natural numbers, which is done here by a least counterexample.      *)
(***************************************************************************)
EXTENDS Ordered, SequenceTheorems, FiniteSetTheorems, WellFoundedInduction, TLAPS

(* A set of numbers has a least one.                                       *)
LEMMA LeastNumber ==
  ASSUME NEW S \in SUBSET Nat, S # {}
  PROVE  \E x \in S : \A y \in S : x <= y
<1>1. PICK x \in S : \A y \in S : ~(<<y, x>> \in OpToRel(<, Nat))
  BY NatLessThanWellFounded, WFMin
<1>2. ASSUME NEW y \in S, ~(x <= y)
      PROVE  FALSE
  <2>1. x \in Nat /\ y \in Nat /\ y < x
    BY <1>2
  <2>2. <<y, x>> \in Nat \X Nat /\ <<y, x>>[1] < <<y, x>>[2]
    BY <2>1
  <2>3. <<y, x>> \in OpToRel(<, Nat)
    BY <2>2, Zenon DEF OpToRel
  <2> QED
    BY <1>1, <2>3
<1> QED
  BY <1>2

(* Sorting lists members of the set only: if some place had none, then the *)
(* least such place n had one before it, and the least index after that    *)
(* one belongs there.                                                      *)
LEMMA InOrderFacts ==
  ASSUME NEW S \in SUBSET Nat, IsFiniteSet(S)
  PROVE  /\ Cardinality(S) \in Nat /\ DOMAIN InOrder(S) = 1 .. Cardinality(S)
         /\ \A n \in 1 .. Cardinality(S) :
              /\ InOrder(S)[n] \in S
              /\ Cardinality({j \in S : j < InOrder(S)[n]}) = n - 1
<1> DEFINE Before(i) == {j \in S : j < i}
           Gaps == {n \in Nat : n < Cardinality(S) /\ \A i \in S : Cardinality(Before(i)) # n}
<1>1. Cardinality(S) \in Nat
  BY FS_CardinalityType
<1>2. Gaps = {}
  <2>1. SUFFICES ASSUME Gaps # {} PROVE FALSE
    OBVIOUS
  <2>2. PICK n \in Gaps : \A g \in Gaps : n <= g
    BY <2>1, LeastNumber
  <2>3. CASE n = 0
    <3>1. S # {}
      BY <2>2, <2>3, FS_EmptySet
    <3>2. PICK m \in S : \A y \in S : m <= y
      BY <3>1, LeastNumber
    <3>3. Before(m) = {}
      <4>1. ASSUME NEW j \in S PROVE ~(j < m)
        BY <3>2
      <4> QED
        BY <4>1
    <3> QED
      BY <2>2, <2>3, <3>3, FS_EmptySet
  <2>4. CASE n # 0
    <3>1. n - 1 \in Nat /\ n - 1 < Cardinality(S) /\ n - 1 \notin Gaps
      BY <1>1, <2>2, <2>4
    <3>2. PICK i \in S : Cardinality(Before(i)) = n - 1
      BY <3>1
    <3> DEFINE Upto == Before(i) \cup {i}
    <3>3. IsFiniteSet(Upto) /\ Cardinality(Upto) = n /\ Upto \subseteq S
      <4>1. IsFiniteSet(Before(i)) /\ i \notin Before(i)
        BY <3>2, FS_Subset
      <4> QED
        <5>1. /\ IsFiniteSet(Upto)
              /\ Cardinality(Upto) = IF i \in Before(i) THEN Cardinality(Before(i))
                                                        ELSE Cardinality(Before(i)) + 1
          BY <4>1, FS_AddElement, Zenon
        <5>2. n \in Nat
          BY <2>2
        <5>3. Upto \subseteq S
          BY <3>2
        <5> QED
          BY <3>2, <4>1, <5>1, <5>2, <5>3
    <3>4. S \ Upto # {}
      BY <1>1, <2>2, <3>3
    <3>5. PICK m \in S \ Upto : \A y \in S \ Upto : m <= y
      BY <3>4, LeastNumber
    <3>6. Before(m) = Upto
      <4>1. m > i /\ m \in Nat /\ i \in Nat
        BY <3>2, <3>5
      <4>2. ASSUME NEW j \in S PROVE j < m <=> j \in Upto
        BY <3>5, <4>1
      <4> QED
        BY <3>3, <4>2
    <3> QED
      BY <2>2, <3>3, <3>5, <3>6
  <2> QED
    BY <2>3, <2>4
<1>3. DOMAIN InOrder(S) = 1 .. Cardinality(S)
  BY DEF InOrder
<1>4. ASSUME NEW n \in 1 .. Cardinality(S)
      PROVE  InOrder(S)[n] \in S /\ Cardinality(Before(InOrder(S)[n])) = n - 1
  <2>1. n - 1 \in Nat /\ n - 1 < Cardinality(S)
    BY <1>1
  <2>2. PICK i \in S : Cardinality(Before(i)) = n - 1
    BY <1>2, <2>1
  <2>3. InOrder(S)[n] = CHOOSE k \in S : Cardinality(Before(k)) = n - 1
    BY DEF InOrder
  <2> QED
    BY <2>2, <2>3
<1> QED
  BY <1>1, <1>3, <1>4

(* What is listed grows with the place.                                    *)
LEMMA InOrderGrows ==
  ASSUME NEW S \in SUBSET Nat, IsFiniteSet(S),
         NEW m \in 1 .. Cardinality(S), NEW n \in 1 .. Cardinality(S), m < n
  PROVE  InOrder(S)[m] < InOrder(S)[n]
<1> DEFINE x == InOrder(S)[m]
           y == InOrder(S)[n]
           Before(i) == {j \in S : j < i}
<1>1. /\ x \in S /\ y \in S /\ Cardinality(S) \in Nat
      /\ Cardinality(Before(x)) = m - 1 /\ Cardinality(Before(y)) = n - 1
  BY InOrderFacts
<1> HIDE DEF x, y
<1>2. ASSUME ~(x < y)
      PROVE  FALSE
  <2>1. Before(y) \subseteq Before(x) /\ Before(x) \subseteq S
    <3>1. x \in Nat /\ y \in Nat /\ y <= x
      BY <1>1, <1>2
    <3>2. ASSUME NEW j \in S, j < y
          PROVE  j < x
      BY <3>1, <3>2
    <3> QED
      BY <3>2
  <2>2. Cardinality(Before(y)) <= Cardinality(Before(x))
    BY <2>1, FS_Subset
  <2> QED
    BY <1>1, <2>2
<1> QED
  BY <1>2 DEF x, y

(* All of the set is listed.                                               *)
LEMMA InOrderAll ==
  ASSUME NEW S \in SUBSET Nat, IsFiniteSet(S), NEW i \in S
  PROVE  \E n \in 1 .. Cardinality(S) : InOrder(S)[n] = i
<1> DEFINE Before(k) == {j \in S : j < k}
           n == Cardinality(Before(i)) + 1
           x == InOrder(S)[n]
<1>1. /\ IsFiniteSet(Before(i)) /\ Cardinality(Before(i)) \in Nat /\ Cardinality(S) \in Nat
      /\ Cardinality(Before(i)) < Cardinality(S)
  <2>1. Before(i) \subseteq S /\ Before(i) # S
    OBVIOUS
  <2> QED
    BY <2>1, FS_Subset, FS_CardinalityType
<1>2. n \in 1 .. Cardinality(S)
  BY <1>1
<1>3. x \in S /\ Cardinality(Before(x)) = Cardinality(Before(i))
  <2>1. x \in S /\ Cardinality(Before(x)) = n - 1
    BY <1>2, InOrderFacts
  <2> QED
    BY <1>1, <2>1
<1> HIDE DEF x
<1>4. ASSUME NEW j \in S, NEW k \in S, j < k
      PROVE  Cardinality(Before(j)) < Cardinality(Before(k))
  <2>1. Before(j) \subseteq Before(k) /\ Before(k) \subseteq S /\ Before(j) # Before(k)
    <3>1. j \in Nat /\ k \in Nat /\ j < k /\ j \in Before(k) /\ j \notin Before(j)
      BY <1>4
    <3>2. ASSUME NEW l \in S, l < j
          PROVE  l < k
      BY <3>1, <3>2
    <3> QED
      BY <3>1, <3>2
  <2>2. IsFiniteSet(Before(k)) /\ Cardinality(Before(k)) \in Nat
    BY <2>1, FS_Subset, FS_CardinalityType
  <2>3. Cardinality(Before(j)) <= Cardinality(Before(k)) /\ Cardinality(Before(j)) \in Nat
    BY <2>1, <2>2, FS_Subset, FS_CardinalityType
  <2>4. Cardinality(Before(j)) # Cardinality(Before(k))
    BY <2>1, <2>2, FS_Subset
  <2> QED
    BY <2>2, <2>3, <2>4
<1>5. x = i
  <2>1. ~(x < i) /\ ~(i < x)
    <3>1. Cardinality(Before(i)) \in Nat
      BY <1>1
    <3> QED
      BY <1>3, <1>4, <3>1
  <2> QED
    BY <1>3, <2>1
<1> QED
  BY <1>2, <1>5 DEF x

(* What is chosen, as a list.                                              *)
LEMMA ChosenFacts ==
  ASSUME NEW list, NEW S \in SUBSET Nat, IsFiniteSet(S)
  PROVE  /\ Cardinality(S) \in Nat
         /\ Chosen(list, S) = [n \in 1 .. Cardinality(S) |-> Chosen(list, S)[n]]
         /\ \A n \in 1 .. Cardinality(S) : Chosen(list, S)[n] = list[InOrder(S)[n]] /\ InOrder(S)[n] \in S
         /\ \A i \in S : \E n \in 1 .. Cardinality(S) : InOrder(S)[n] = i
BY InOrderFacts, InOrderAll DEF Chosen

(* No index of an interval is left out.                                    *)
LEMMA InOrderInterval ==
  ASSUME NEW a \in Nat, NEW b \in Nat, a <= b
  PROVE  LET S == (a + 1) .. b
         IN  IsFiniteSet(S) /\ Cardinality(S) = b - a /\ \A n \in 1 .. b - a : InOrder(S)[n] = a + n
<1> DEFINE S == (a + 1) .. b
<1>1. IsFiniteSet(S) /\ Cardinality(S) = b - a
  <2> DEFINE f == a + 1
  <2>1. f \in Int /\ b \in Int /\ S = f .. b
    OBVIOUS
  <2> HIDE DEF f, S
  <2>2. IsFiniteSet(S) /\ Cardinality(S) = IF f > b THEN 0 ELSE b - f + 1
    BY <2>1, FS_Interval
  <2> QED
    BY <2>2 DEF f
<1>2. S \in SUBSET Nat
  OBVIOUS
<1>3. ASSUME NEW n \in 1 .. b - a
      PROVE  InOrder(S)[n] = a + n
  <2> DEFINE x == InOrder(S)[n]
  <2> HIDE DEF x
  <2>1. x \in S /\ Cardinality({j \in S : j < x}) = n - 1
    <3> HIDE DEF S
    <3> QED
      BY <1>1, <1>2, InOrderFacts DEF x
  <2>2. {j \in S : j < x} = (a + 1) .. (x - 1) /\ x \in (a + 1) .. b
    BY <2>1
  <2> DEFINE f == a + 1
             g == x - 1
  <2>3. f \in Int /\ g \in Int /\ {j \in S : j < x} = f .. g
    BY <2>2
  <2> HIDE DEF f, g
  <2>6. Cardinality(f .. g) = IF f > g THEN 0 ELSE g - f + 1
    BY <2>3, FS_Interval
  <2>4. x - 1 - a = n - 1
    <3>1. n - 1 = IF f > g THEN 0 ELSE g - f + 1
      BY <2>1, <2>3, <2>6, Zenon
    <3> QED
      BY <2>2, <3>1 DEF f, g
  <2>5. x = a + n
    BY <2>2, <2>4
  <2> QED
    BY <2>5 DEF x
<1> QED
  BY <1>1, <1>3

-----------------------------------------------------------------------------
(* The lists from the first to the n-th, one after the other.              *)
Joined(ss) == CHOOSE f : f = [i \in 1 .. Len(ss) |-> IF i = 1 THEN ss[i] ELSE f[i - 1] \o ss[i]]

(* There is such a function.                                               *)
LEMMA JoinedExists ==
  ASSUME NEW T, NEW ss \in Seq(T)
  PROVE  Joined(ss) = [i \in 1 .. Len(ss) |-> IF i = 1 THEN ss[i] ELSE Joined(ss)[i - 1] \o ss[i]]
<1> DEFINE Good(f, k) == f = [i \in 1 .. k |-> IF i = 1 THEN ss[i] ELSE f[i - 1] \o ss[i]]
           Bad == {k \in 0 .. Len(ss) : \A f : ~Good(f, k)}
<1> HIDE DEF Good
<1>1. Len(ss) \in Nat
  BY LenProperties
<1>2. Bad = {}
  <2>1. SUFFICES ASSUME Bad # {} PROVE FALSE
    OBVIOUS
  <2>2. Bad \in SUBSET Nat
    BY <1>1
  <2>3. PICK k \in Bad : \A j \in Bad : k <= j
    BY <2>1, <2>2, LeastNumber
  <2>4. CASE k = 0
    <3>1. Good(<<>>, 0)
      BY DEF Good
    <3> QED
      BY <2>3, <2>4, <3>1
  <2>5. CASE k # 0
    <3>1. k \in Nat /\ k - 1 \in 0 .. Len(ss) /\ ~(k <= k - 1)
      BY <1>1, <2>3, <2>5
    <3>2. PICK f : Good(f, k - 1)
      BY <2>3, <3>1
    <3> DEFINE g == [i \in 1 .. k |-> IF i = 1 THEN ss[i] ELSE f[i - 1] \o ss[i]]
    <3>3. ASSUME NEW i \in 1 .. (k - 1) PROVE g[i] = f[i]
      <4>1. i \in 1 .. k
        BY <3>1
      <4>2. f[i] = IF i = 1 THEN ss[i] ELSE f[i - 1] \o ss[i]
        BY <3>2, Zenon DEF Good
      <4> QED
        BY <4>1, <4>2
    <3>4. ASSUME NEW i \in 1 .. k, i # 1 PROVE g[i - 1] = f[i - 1]
      <4>1. i - 1 \in 1 .. (k - 1)
        BY <3>1, <3>4
      <4> QED
        BY <3>3, <4>1
    <3>5. ASSUME NEW i \in 1 .. k
          PROVE  g[i] = IF i = 1 THEN ss[i] ELSE g[i - 1] \o ss[i]
      BY <3>4
    <3>6. Good(g, k)
      <4>1. g = [i \in 1 .. k |-> g[i]]
        OBVIOUS
      <4> HIDE DEF g
      <4> QED
        BY <3>5, <4>1, Zenon DEF Good
    <3> QED
      BY <2>3, <3>6
  <2> QED
    BY <2>4, <2>5
<1>3. \E f : Good(f, Len(ss))
  BY <1>1, <1>2
<1> QED
  BY <1>3 DEF Joined, Good

-----------------------------------------------------------------------------
(* Lists. *)

(* A function on the first numbers is a list.                              *)
LEMMA ListIntro ==
  ASSUME NEW n \in Nat, NEW s, s = [i \in 1 .. n |-> s[i]]
  PROVE  IsList(s) /\ Len(s) = n /\ DOMAIN s = 1 .. n
<1>1. s \in [1 .. n -> {s[i] : i \in DOMAIN s}]
  OBVIOUS
<1> QED
  BY <1>1 DEF IsList

(* And so a list is.                                                       *)
LEMMA ListFacts ==
  ASSUME NEW s, IsList(s)
  PROVE  /\ Len(s) \in Nat /\ DOMAIN s = 1 .. Len(s) /\ s = [i \in 1 .. Len(s) |-> s[i]]
         /\ s = <<>> <=> Len(s) = 0
BY DEF IsList

(* What Append adds comes last.                                            *)
LEMMA ListAppend ==
  ASSUME NEW s, IsList(s), NEW e
  PROVE  /\ IsList(Append(s, e)) /\ Len(Append(s, e)) = Len(s) + 1 /\ Append(s, e)[Len(s) + 1] = e
         /\ \A i \in 1 .. Len(s) : Append(s, e)[i] = s[i]
<1> DEFINE S == {s[i] : i \in DOMAIN s} \union {e}
           r == Append(s, e)
<1>1. s \in Seq(S) /\ e \in S
  BY SeqMonotonic DEF IsList
<1> HIDE DEF S
<1>2. /\ r \in Seq(S) /\ Len(r) = Len(s) + 1 /\ r[Len(s) + 1] = e
      /\ \A i \in 1 .. Len(s) : r[i] = s[i]
  BY <1>1, AppendProperties
<1>3. Len(r) \in Nat /\ r = [i \in 1 .. Len(r) |-> r[i]]
  <2> HIDE DEF r
  <2> QED
    BY <1>2
<1> QED
  BY <1>2, <1>3, ListIntro

(* The elements of a concatenation are those of its parts.                 *)
LEMMA ListConcat ==
  ASSUME NEW s, IsList(s), NEW t, IsList(t)
  PROVE  /\ IsList(s \o t) /\ Len(s \o t) = Len(s) + Len(t)
         /\ \A i \in 1 .. Len(s) + Len(t) : (s \o t)[i] = IF i <= Len(s) THEN s[i] ELSE t[i - Len(s)]
<1> DEFINE S == {s[i] : i \in DOMAIN s} \union {t[i] : i \in DOMAIN t}
           r == s \o t
<1>1. s \in Seq(S) /\ t \in Seq(S)
  BY SeqMonotonic DEF IsList
<1> HIDE DEF S
<1>2. /\ r \in Seq(S) /\ Len(r) = Len(s) + Len(t)
      /\ \A i \in 1 .. Len(s) + Len(t) : r[i] = IF i <= Len(s) THEN s[i] ELSE t[i - Len(s)]
  BY <1>1, ConcatProperties
<1>3. Len(r) \in Nat /\ r = [i \in 1 .. Len(r) |-> r[i]]
  <2> HIDE DEF r
  <2> QED
    BY <1>2
<1> QED
  BY <1>2, <1>3, ListIntro

(* What is left of a list from a place on.                                 *)
LEMMA ListSub ==
  ASSUME NEW s, IsList(s), NEW m \in Nat \ {0}, m <= Len(s) + 1
  PROVE  LET r == SubSeq(s, m, Len(s))
         IN  /\ IsList(r) /\ Len(r) = Len(s) - m + 1
             /\ \A i \in 1 .. Len(r) : r[i] = s[m + i - 1] /\ m + i - 1 \in 1 .. Len(s)
<1> DEFINE r == SubSeq(s, m, Len(s))
<1>1. Len(s) \in Nat /\ s \in Seq({s[i] : i \in DOMAIN s})
  BY ListFacts DEF IsList
<1>2. r = [i \in 1 .. Len(s) - m + 1 |-> s[m + i - 1]]
  BY <1>1
<1>3. Len(s) - m + 1 \in Nat
  BY <1>1
<1> HIDE DEF r
<1>4. IsList(r) /\ Len(r) = Len(s) - m + 1
  BY <1>2, <1>3, ListIntro
<1>5. \A i \in 1 .. Len(r) : r[i] = s[m + i - 1] /\ m + i - 1 \in 1 .. Len(s)
  BY <1>1, <1>2, <1>4
<1> QED
  BY <1>4, <1>5 DEF r

(* One element, as a list.                                                 *)
LEMMA ListOne ==
  ASSUME NEW e
  PROVE  IsList(<<e>>) /\ Len(<<e>>) = 1 /\ <<e>>[1] = e /\ \A s : IsList(s) => Append(s, e) = s \o <<e>>
<1> DEFINE r == <<e>>
<1>1. r = [i \in 1 .. 1 |-> r[i]] /\ r[1] = e /\ 1 \in Nat
  OBVIOUS
<1> HIDE DEF r
<1>2. IsList(r) /\ Len(r) = 1
  BY <1>1, ListIntro
<1>3. ASSUME NEW s, IsList(s)
      PROVE  Append(s, e) = s \o r
  <2> DEFINE S == {s[i] : i \in DOMAIN s} \union {e}
  <2>1. s \in Seq(S) /\ e \in S
    BY <1>3, SeqMonotonic DEF IsList
  <2> HIDE DEF S
  <2> QED
    BY <2>1, AppendIsConcat DEF r
<1> QED
  BY <1>1, <1>2, <1>3 DEF r

(* Two elements, as a list.                                                *)
LEMMA ListTwo ==
  ASSUME NEW a, NEW b
  PROVE  IsList(<<a, b>>) /\ Len(<<a, b>>) = 2 /\ <<a, b>>[1] = a /\ <<a, b>>[2] = b
<1> DEFINE r == <<a, b>>
<1>1. r = [i \in 1 .. 2 |-> r[i]] /\ r[1] = a /\ r[2] = b
  OBVIOUS
<1> HIDE DEF r
<1>2. IsList(r) /\ Len(r) = 2
  BY <1>1, ListIntro
<1> QED
  BY <1>1, <1>2 DEF r

(* Lists are appended in any grouping.                                     *)
LEMMA ListAssociative ==
  ASSUME NEW a, IsList(a), NEW b, IsList(b), NEW c, IsList(c)
  PROVE  (a \o b) \o c = a \o (b \o c)
<1> DEFINE S == {a[i] : i \in DOMAIN a} \union {b[i] : i \in DOMAIN b} \union {c[i] : i \in DOMAIN c}
<1>1. a \in Seq(S) /\ b \in Seq(S) /\ c \in Seq(S)
  BY SeqMonotonic DEF IsList
<1> HIDE DEF S
<1> QED
  BY <1>1, ConcatAssociative

(* The empty list, before another and behind it.                           *)
LEMMA EmptyList ==
  IsList(<<>>) /\ Len(<<>>) = 0
BY DEF IsList

LEMMA EmptyBefore ==
  ASSUME NEW s, IsList(s)
  PROVE  <<>> \o s = s /\ s \o <<>> = s
BY ConcatEmptySeq DEF IsList

(* Lists with the same elements are the same.                              *)
LEMMA ListEqual ==
  ASSUME NEW a, IsList(a), NEW b, IsList(b), Len(a) = Len(b), \A i \in 1 .. Len(a) : a[i] = b[i]
  PROVE  a = b
<1>1. a = [i \in 1 .. Len(a) |-> a[i]] /\ b = [i \in 1 .. Len(b) |-> b[i]]
  BY ListFacts
<1> QED
  BY <1>1

(* The first elements of a list.                                           *)
LEMMA ListFirst ==
  ASSUME NEW s, IsList(s), NEW m \in 0 .. Len(s)
  PROVE  LET r == SubSeq(s, 1, m)
         IN  IsList(r) /\ Len(r) = m /\ \A i \in 1 .. m : r[i] = s[i]
<1> DEFINE r == SubSeq(s, 1, m)
<1>1. Len(s) \in Nat /\ s \in Seq({s[i] : i \in DOMAIN s}) /\ m \in Nat
  BY ListFacts DEF IsList
<1>2. r = [i \in 1 .. m |-> s[i]]
  BY <1>1
<1> HIDE DEF r
<1>4. IsList(r) /\ Len(r) = m
  BY <1>1, <1>2, ListIntro
<1> QED
  BY <1>2, <1>4 DEF r

(* A list is its first elements and the rest.                              *)
LEMMA ListCut ==
  ASSUME NEW s, IsList(s), NEW m \in 0 .. Len(s)
  PROVE  /\ IsList(SubSeq(s, 1, m)) /\ Len(SubSeq(s, 1, m)) = m
         /\ IsList(SubSeq(s, m + 1, Len(s))) /\ Len(SubSeq(s, m + 1, Len(s))) = Len(s) - m
         /\ s = SubSeq(s, 1, m) \o SubSeq(s, m + 1, Len(s))
<1> DEFINE a == SubSeq(s, 1, m)
           b == SubSeq(s, m + 1, Len(s))
<1>1. Len(s) \in Nat /\ m \in Nat /\ m + 1 \in Nat \ {0} /\ m + 1 <= Len(s) + 1
  BY ListFacts
<1>2. IsList(a) /\ Len(a) = m /\ \A i \in 1 .. m : a[i] = s[i]
  BY ListFirst
<1>3. IsList(b) /\ Len(b) = Len(s) - (m + 1) + 1 /\ \A i \in 1 .. Len(b) : b[i] = s[m + 1 + i - 1]
  BY <1>1, ListSub
<1> HIDE DEF a, b
<1>4. /\ IsList(a \o b) /\ Len(a \o b) = Len(a) + Len(b)
      /\ \A i \in 1 .. Len(a) + Len(b) : (a \o b)[i] = IF i <= Len(a) THEN a[i] ELSE b[i - Len(a)]
  BY <1>2, <1>3, ListConcat
<1>5. Len(b) = Len(s) - m /\ Len(a \o b) = Len(s)
  BY <1>1, <1>2, <1>3, <1>4
<1>6. ASSUME NEW i \in 1 .. Len(s)
      PROVE  (a \o b)[i] = s[i]
  <2>1. CASE i <= m
    BY <1>1, <1>2, <1>4, <1>5, <2>1
  <2>2. CASE ~(i <= m)
    <3>1. i - m \in 1 .. Len(b) /\ m + 1 + (i - m) - 1 = i /\ i \in 1 .. Len(a) + Len(b)
      BY <1>1, <1>2, <1>5, <2>2
    <3>2. (a \o b)[i] = b[i - m]
      BY <1>2, <1>4, <2>2, <3>1
    <3>3. b[i - m] = s[m + 1 + (i - m) - 1]
      BY <1>3, <3>1
    <3> QED
      BY <3>1, <3>2, <3>3
  <2> QED
    BY <2>1, <2>2
<1>7. s = a \o b
  BY <1>4, <1>5, <1>6, ListEqual
<1> QED
  BY <1>2, <1>3, <1>5, <1>7 DEF a, b

(* A bounded, inhabited set of numbers has its greatest.                   *)
LEMMA GreatestNumber ==
  ASSUME NEW n \in Nat, NEW S \in SUBSET (0 .. n), S # {}
  PROVE  \E m \in S : \A y \in S : y <= m
<1> DEFINE T == {n - x : x \in S}
<1>1. T \in SUBSET Nat /\ T # {}
  <2>1. \A x \in S : n - x \in Nat
    OBVIOUS
  <2> QED
    BY <2>1
<1>2. PICK t \in T : \A y \in T : t <= y
  <2> HIDE DEF T
  <2> QED
    BY <1>1, LeastNumber
<1>3. PICK x \in S : t = n - x
  BY <1>2
<1>4. ASSUME NEW y \in S
      PROVE  y <= x
  <2>1. n - y \in T
    OBVIOUS
  <2>2. t <= n - y
    BY <1>2, <2>1
  <2> QED
    BY <1>3, <2>2
<1> QED
  BY <1>4
=============================================================================
