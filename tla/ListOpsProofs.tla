--------------------------- MODULE ListOpsProofs ---------------------------
(***************************************************************************)
(* What unlinking elements of a list leaves: Subsequence(s, K) holds the   *)
(* elements of s at the positions in K, each once and in their order.      *)
(*                                                                         *)
(* The rank of a position in K is a bijection from K to 1 .. Cardinality(K)*)
(* that increases, and Subsequence is s after the inverse of it.           *)
(*                                                                         *)
(* And facts about sequences of which only the length and the order are of *)
(* interest.                                                               *)
(***************************************************************************)
EXTENDS ListOps, FiniteSetTheorems, FunctionTheorems, SequenceTheorems,
        WellFoundedInduction, TLAPS

(* The positions of a list are finitely many.                              *)
LEMMA PositionsFinite ==
    ASSUME NEW n \in Nat, NEW K \in SUBSET (1 .. n)
    PROVE  IsFiniteSet(K)
  <1>1. 1 \in Int /\ n \in Int
    OBVIOUS
  <1>2. IsFiniteSet(1 .. n)
    BY <1>1, FS_Interval
  <1> QED
    BY <1>2, FS_Subset

(* Of two positions in K the later one has the greater rank.               *)
LEMMA RankIncreases ==
    ASSUME NEW n \in Nat, NEW K \in SUBSET (1 .. n),
           NEW i \in K, NEW j \in K, i < j
    PROVE  Rank(K, i) < Rank(K, j)
  <1> DEFINE A == {k \in K : k <= i}
             B == {k \in K : k <= j}
  <1>0. i \in Nat /\ j \in Nat /\ K \subseteq Nat
    OBVIOUS
  <1>1. IsFiniteSet(K)
    BY PositionsFinite
  <1>2. IsFiniteSet(A) /\ IsFiniteSet(B)
    BY <1>1, FS_Subset
  <1>3. A \in SUBSET (B \ {j}) /\ j \in B
    <2>1. ASSUME NEW k \in A
          PROVE  k \in B \ {j}
      <3>1. k \in K /\ k \in Nat /\ k <= i
        BY <1>0
      <3> QED
        BY <1>0, <3>1
    <2>2. j \in B
      BY <1>0
    <2> QED
      BY <2>1, <2>2
  <1>4. IsFiniteSet(B \ {j}) /\ Cardinality(B \ {j}) = Cardinality(B) - 1
    BY <1>2, <1>3, FS_RemoveElement
  <1>5. Cardinality(A) <= Cardinality(B \ {j})
    BY <1>3, <1>4, FS_Subset
  <1>6. Cardinality(A) \in Nat /\ Cardinality(B) \in Nat
    BY <1>2, FS_CardinalityType
  <1> QED
    BY <1>4, <1>5, <1>6 DEF Rank

(* The rank of a position is one of 1 .. Cardinality(K).                   *)
LEMMA RankRange ==
    ASSUME NEW n \in Nat, NEW K \in SUBSET (1 .. n), NEW i \in K
    PROVE  Rank(K, i) \in 1 .. Cardinality(K)
  <1> DEFINE A == {k \in K : k <= i}
  <1>1. IsFiniteSet(K)
    BY PositionsFinite
  <1>2. IsFiniteSet(A) /\ Cardinality(A) <= Cardinality(K)
    BY <1>1, FS_Subset
  <1>3. i \in A
    OBVIOUS
  <1>4. Cardinality(A) # 0
    BY <1>2, <1>3, FS_EmptySet
  <1>5. Cardinality(A) \in Nat /\ Cardinality(K) \in Nat
    BY <1>1, <1>2, FS_CardinalityType
  <1> QED
    BY <1>2, <1>4, <1>5 DEF Rank

(* Every rank is the rank of exactly one position.                         *)
LEMMA RankBijective ==
    ASSUME NEW n \in Nat, NEW K \in SUBSET (1 .. n)
    PROVE  /\ IsFiniteSet(K) /\ Cardinality(K) \in Nat
           /\ \A i, j \in K : Rank(K, i) = Rank(K, j) => i = j
           /\ \A k \in 1 .. Cardinality(K) : \E i \in K : Rank(K, i) = k
  <1> DEFINE T == 1 .. Cardinality(K)
             f == [i \in K |-> Rank(K, i)]
  <1>1. IsFiniteSet(K) /\ Cardinality(K) \in Nat
    BY PositionsFinite, FS_CardinalityType
  <1>2. f \in [K -> T]
    BY RankRange
  <1>3. ASSUME NEW i \in K, NEW j \in K, Rank(K, i) = Rank(K, j)
        PROVE  i = j
    <2>1. i \in Nat /\ j \in Nat
      OBVIOUS
    <2>2. Rank(K, i) \in T /\ Rank(K, j) \in T
      BY RankRange
    <2>3. Rank(K, i) \in Int /\ Rank(K, j) \in Int
      BY <1>1, <2>2
    <2>4. i < j => Rank(K, i) < Rank(K, j)
      BY RankIncreases
    <2>5. j < i => Rank(K, j) < Rank(K, i)
      BY RankIncreases
    <2> QED
      BY <1>3, <2>1, <2>3, <2>4, <2>5
  <1>4. f \in Injection(K, T)
    BY <1>2, <1>3 DEF Injection, IsInjective
  <1>5. IsFiniteSet(T) /\ Cardinality(T) = Cardinality(K)
    BY <1>1, FS_Interval
  <1>6. f \in Surjection(K, T)
    BY <1>4, <1>5, FS_Injection
  <1>7. \A k \in T : \E i \in K : f[i] = k
    BY <1>6 DEF Surjection
  <1> QED
    BY <1>1, <1>3, <1>7

(* Subsequence(s, K) is a list of the elements at K, as many as K has and  *)
(* in the order they have in s.                                            *)
LEMMA SubsequenceProperties ==
    ASSUME NEW S, NEW s \in Seq(S), NEW K \in SUBSET (DOMAIN s)
    PROVE  /\ Subsequence(s, K) \in Seq(S)
           /\ Len(Subsequence(s, K)) = Cardinality(K)
           /\ Elements(Subsequence(s, K)) = {s[i] : i \in K}
           /\ NoRepeats(s) => NoRepeats(Subsequence(s, K))
  <1> DEFINE n == Len(s)
             at(k) == CHOOSE i \in K : Rank(K, i) = k
             sub == Subsequence(s, K)
  <1>1. n \in Nat /\ DOMAIN s = 1 .. n /\ K \in SUBSET (1 .. n)
    OBVIOUS
  <1>2. /\ Cardinality(K) \in Nat
        /\ \A i, j \in K : Rank(K, i) = Rank(K, j) => i = j
        /\ \A k \in 1 .. Cardinality(K) : \E i \in K : Rank(K, i) = k
    BY <1>1, RankBijective
  <1>3. \A k \in 1 .. Cardinality(K) : at(k) \in K /\ Rank(K, at(k)) = k
    BY <1>2
  <1>4. sub = [k \in 1 .. Cardinality(K) |-> s[at(k)]]
    BY DEF Subsequence
  <1>5. \A i \in K : Rank(K, i) \in 1 .. Cardinality(K)
    BY <1>1, RankRange
  <1>6. \A i \in K : at(Rank(K, i)) = i
    BY <1>2, <1>3, <1>5
  <1> HIDE DEF at, sub
  <1>7. DOMAIN sub = 1 .. Cardinality(K)
        /\ \A k \in 1 .. Cardinality(K) : sub[k] = s[at(k)]
    BY <1>4
  <1>8. sub \in Seq(S) /\ Len(sub) = Cardinality(K)
    <2>1. \A k \in 1 .. Cardinality(K) : s[at(k)] \in S
      BY <1>1, <1>3
    <2> QED
      BY <1>2, <1>4, <2>1
  <1>9. Elements(sub) = {s[i] : i \in K}
    <2>1. ASSUME NEW v \in Elements(sub)
          PROVE  v \in {s[i] : i \in K}
      BY <1>3, <1>7 DEF Elements
    <2>2. ASSUME NEW i \in K
          PROVE  s[i] \in Elements(sub)
      BY <1>5, <1>6, <1>7 DEF Elements
    <2> QED
      BY <2>1, <2>2
  <1>10. ASSUME NoRepeats(s), NEW k \in DOMAIN sub, NEW l \in DOMAIN sub,
                sub[k] = sub[l]
         PROVE  k = l
    <2>1. at(k) = at(l)
      BY <1>1, <1>3, <1>7, <1>10 DEF NoRepeats
    <2> QED
      BY <1>3, <1>7, <2>1
  <1> QED
    BY <1>8, <1>9, <1>10 DEF NoRepeats, sub

----------------------------------------------------------------------------
(* Sequences of whatever there is in them.                                 *)
IsSeq(s) == s \in Seq(Elements(s))

LEMMA SeqOfAnything ==
    ASSUME NEW S, NEW s \in Seq(S)
    PROVE  IsSeq(s)
<1>1. s \in [1 .. Len(s) -> S] /\ Len(s) \in Nat
  BY LenProperties
<1>2. s \in [1 .. Len(s) -> Elements(s)]
  BY <1>1 DEF Elements
<1> QED BY <1>1, <1>2, SeqDef DEF IsSeq

LEMMA IsSeqProperties ==
    ASSUME NEW s, IsSeq(s)
    PROVE  Len(s) \in Nat /\ DOMAIN s = 1 .. Len(s)
<1> QED BY LenProperties DEF IsSeq

LEMMA AppendAnything ==
    ASSUME NEW s, IsSeq(s), NEW e
    PROVE  /\ IsSeq(Append(s, e))
           /\ Len(Append(s, e)) = Len(s) + 1
           /\ \A i \in 1 .. Len(s) : Append(s, e)[i] = s[i]
           /\ Append(s, e)[Len(s) + 1] = e
<1> DEFINE S == Elements(s) \cup {e}
<1>1. s \in Seq(S)
  BY SeqMonotonic DEF IsSeq
<1>2. e \in S
  OBVIOUS
<1> HIDE DEF S
<1>3. Append(s, e) \in Seq(S)
  BY <1>1, <1>2, AppendProperties
<1>4. IsSeq(Append(s, e))
  BY <1>3, SeqOfAnything
<1> QED BY <1>1, <1>2, <1>4, AppendProperties

(* Two lists of one element each.                                          *)
LEMMA TwoAre ==
    ASSUME NEW S, NEW a \in S, NEW b \in S
    PROVE  <<a>> \o <<b>> = <<a, b>>
  <1>1. ASSUME NEW one \in Seq(S), Len(one) = 1, one[1] = a,
               NEW two \in Seq(S), Len(two) = 2, two[1] = a, two[2] = b
        PROVE  one \o <<b>> = two
    <2> DEFINE both == Append(one, b)
    <2>1. both \in Seq(S) /\ Len(both) = 2
      BY <1>1, AppendProperties
    <2>2. both[Len(one) + 1] = b
      BY AppendProperties
    <2>4. \A i \in 1 .. 1 : both[i] = one[i]
      BY <1>1, AppendProperties
    <2> HIDE DEF both
    <2>3. both = two
      BY <1>1, <2>1, <2>2, <2>4, SeqEqual
    <2> QED BY <2>3, AppendIsConcat DEF both
  <1>2. /\ <<a>> \in Seq(S) /\ Len(<<a>>) = 1 /\ <<a>>[1] = a
        /\ <<a, b>> \in Seq(S) /\ Len(<<a, b>>) = 2
        /\ <<a, b>>[1] = a /\ <<a, b>>[2] = b
    OBVIOUS
  <1> QED BY <1>1, <1>2

LEMMA ConcatAnything ==
    ASSUME NEW s, IsSeq(s), NEW t, IsSeq(t)
    PROVE  /\ IsSeq(s \o t)
           /\ Len(s \o t) = Len(s) + Len(t)
           /\ \A i \in 1 .. Len(s) : (s \o t)[i] = s[i]
           /\ \A i \in 1 .. Len(t) : (s \o t)[Len(s) + i] = t[i]
<1> DEFINE S == Elements(s) \cup Elements(t)
<1>1. s \in Seq(S) /\ t \in Seq(S)
  BY SeqMonotonic DEF IsSeq
<1> HIDE DEF S
<1>2. s \o t \in Seq(S) /\ Len(s \o t) = Len(s) + Len(t)
  BY <1>1, ConcatProperties
<1>3. IsSeq(s \o t)
  BY <1>2, SeqOfAnything
<1>4. Len(s) \in Nat /\ Len(t) \in Nat
  BY <1>1, LenProperties
<1>5. \A i \in 1 .. Len(s) + Len(t) :
        (s \o t)[i] = IF i <= Len(s) THEN s[i] ELSE t[i - Len(s)]
  BY <1>1, ConcatProperties
<1>6. \A i \in 1 .. Len(s) : (s \o t)[i] = s[i]
  BY <1>4, <1>5
<1>7. ASSUME NEW i \in 1 .. Len(t) PROVE (s \o t)[Len(s) + i] = t[i]
  <2>1. /\ Len(s) + i \in 1 .. Len(s) + Len(t)
        /\ ~(Len(s) + i <= Len(s)) /\ Len(s) + i - Len(s) = i
    BY <1>4
  <2> QED BY <1>5, <2>1
<1> QED BY <1>2, <1>3, <1>6, <1>7

(* Every set of natural numbers that is not empty has a least one.         *)
LEMMA LeastNatural ==
    ASSUME NEW T \in SUBSET Nat, T # {}
    PROVE  \E x \in T : \A y \in T : x <= y
  <1> DEFINE R == OpToRel(<, Nat)
  <1>1. IsWellFoundedOn(R, Nat)
    BY NatLessThanWellFounded
  <1>2. PICK x \in T : \A y \in T : ~(<<y, x>> \in R)
    BY <1>1, WFMin
  <1>3. ASSUME NEW y \in T
        PROVE  x <= y
    <2>1. ~(y < x)
      BY <1>2 DEF OpToRel
    <2> QED
      BY <2>1
  <1> QED
    BY <1>3

----------------------------------------------------------------------------
(* The loop that adds up has a value after each turn.                      *)
LEMMA SumsAre ==
    ASSUME NEW a, NEW x, NEW n \in Nat
    PROVE  Sums(a, x, n) =
             [k \in 0 .. n |-> IF k = 0 THEN a ELSE Sums(a, x, n)[k - 1] + x[k]]
  <1> DEFINE Sum(g, j) ==
               g = [k \in 0 .. j |-> IF k = 0 THEN a ELSE g[k - 1] + x[k]]
             T == {j \in Nat : ~\E g : Sum(g, j)}
  <1>1. T = {}
    <2> SUFFICES ASSUME T # {} PROVE FALSE
      OBVIOUS
    <2>1. PICK j \in T : \A i \in T : j <= i
      BY LeastNatural
    <2>2. CASE j = 0
      <3> DEFINE g == [k \in 0 .. 0 |-> a]
      <3>1. Sum(g, 0)
        OBVIOUS
      <3> QED BY <2>1, <2>2, <3>1
    <2>3. CASE j > 0
      <3>1. j - 1 \in Nat /\ j - 1 \notin T
        BY <2>1, <2>3
      <3>2. PICK h : Sum(h, j - 1)
        BY <3>1
      <3> DEFINE g == [k \in 0 .. j |->
                         IF k = 0 THEN a ELSE h[k - 1] + x[k]]
      <3>3. DOMAIN h = 0 .. j - 1
        BY <3>2
      <3>4. \A k \in 0 .. j - 1 : g[k] = h[k]
        BY <3>1, <3>2
      <3>5. \A k \in 1 .. j : k - 1 \in 0 .. j - 1
        BY <3>1
      <3>6. Sum(g, j)
        <4>1. ASSUME NEW k \in 0 .. j
              PROVE  (IF k = 0 THEN a ELSE h[k - 1] + x[k])
                       = (IF k = 0 THEN a ELSE g[k - 1] + x[k])
          <5> HIDE DEF g
          <5> QED BY <3>4, <3>5
        <4> QED BY <4>1
      <3> QED BY <2>1, <3>6
    <2> QED BY <2>1, <2>2, <2>3
  <1>2. \E g : Sum(g, n)
    BY <1>1
  <1>3. Sums(a, x, n) = CHOOSE g : Sum(g, n)
    BY DEF Sums
  <1> HIDE DEF T
  <1>4. Sum(Sums(a, x, n), n)
    BY <1>2, <1>3
  <1> QED BY <1>4

LEMMA SumsSteps ==
    ASSUME NEW a \in Int, NEW n \in Nat, NEW x \in [1 .. n -> Int]
    PROVE  /\ Sums(a, x, n) \in [0 .. n -> Int]
           /\ Sums(a, x, n)[0] = a
           /\ \A k \in 1 .. n : Sums(a, x, n)[k] = Sums(a, x, n)[k - 1] + x[k]
  <1> DEFINE s == Sums(a, x, n)
             T == {k \in Nat : k <= n /\ s[k] \notin Int}
  <1>1. /\ s = [k \in 0 .. n |-> s[k]]
        /\ s[0] = a
        /\ \A k \in 1 .. n : s[k] = s[k - 1] + x[k]
    BY SumsAre
  <1> HIDE DEF s
  <1>2. T = {}
    <2> SUFFICES ASSUME T # {} PROVE FALSE
      OBVIOUS
    <2>1. PICK k \in T : \A i \in T : k <= i
      BY LeastNatural
    <2>2. k # 0 /\ k \in 1 .. n /\ k - 1 \in Nat
      BY <1>1, <2>1
    <2>3. s[k - 1] \in Int
      BY <2>1, <2>2
    <2>4. x[k] \in Int /\ s[k] = s[k - 1] + x[k]
      BY <1>1, <2>2
    <2>5. s[k] \in Int
      BY <2>3, <2>4
    <2> QED BY <2>5
  <1>3. \A k \in 0 .. n : s[k] \in Int
    BY <1>2
  <1> QED BY <1>1, <1>3 DEF s

(* The elements of C that m puts into class i, and into one other than 0.  *)
Class(C, m, i) == {c \in C : m[c] = i}

Classed(C, m) == {c \in C : m[c] # 0}

(* A loop that adds up how many elements of C are in each of n classes     *)
(* counts those that are in one.                                           *)
LEMMA SumsCount ==
    ASSUME NEW C, IsFiniteSet(C), NEW n \in Nat, NEW m \in [C -> 0 .. n],
           NEW x \in [1 .. n -> Int],
           \A i \in 1 .. n : x[i] = Cardinality(Class(C, m, i))
    PROVE  Sums(0, x, n)[n] = Cardinality(Classed(C, m))
  <1> DEFINE s == Sums(0, x, n)
             In(k) == {c \in C : m[c] \in 1 .. k}
             T == {k \in Nat : k <= n /\ s[k] # Cardinality(In(k))}
  <1>1. /\ s[0] = 0
        /\ \A k \in 1 .. n : s[k] = s[k - 1] + x[k]
    <2>1. 0 \in Int
      OBVIOUS
    <2> QED BY <2>1, SumsSteps
  <1> HIDE DEF s
  <1>2. T = {}
    <2> SUFFICES ASSUME T # {} PROVE FALSE
      OBVIOUS
    <2>1. PICK k \in T : \A i \in T : k <= i
      BY LeastNatural
    <2>2. k # 0
      <3>1. In(0) = {}
        OBVIOUS
      <3> QED BY <1>1, <2>1, <3>1, FS_EmptySet
    <2>3. k \in 1 .. n /\ k - 1 \in Nat
      BY <2>1, <2>2
    <2>4. s[k - 1] = Cardinality(In(k - 1))
      BY <2>1, <2>3
    <2> DEFINE A == In(k - 1)
               B == Class(C, m, k)
    <2>5. In(k) = A \cup B /\ A \cap B = {}
      BY <2>3 DEF Class
    <2>6. IsFiniteSet(A) /\ IsFiniteSet(B)
      BY FS_Subset DEF Class
    <2> HIDE DEF A, B
    <2>7. /\ Cardinality(A) \in Nat /\ Cardinality(B) \in Nat
          /\ Cardinality(A \cup B) = Cardinality(A) + Cardinality(B)
      <3>1. Cardinality(A) \in Nat /\ Cardinality(B) \in Nat
        BY <2>6, FS_CardinalityType
      <3>2. Cardinality(A \cup B)
              = Cardinality(A) + Cardinality(B) - Cardinality(A \cap B)
        BY <2>6, FS_Union
      <3>3. Cardinality(A \cap B) = 0
        BY <2>5, FS_EmptySet
      <3> QED BY <3>1, <3>2, <3>3
    <2> HIDE DEF In
    <2>8. Cardinality(In(k)) = s[k - 1] + x[k]
      BY <2>3, <2>4, <2>5, <2>7 DEF A, B
    <2> QED BY <1>1, <2>1, <2>3, <2>8
  <1>3. s[n] = Cardinality(In(n))
    <2> HIDE DEF In
    <2> QED BY <1>2
  <1>4. In(n) = Classed(C, m)
    BY DEF Classed
  <1> QED BY <1>3, <1>4 DEF s
=============================================================================
