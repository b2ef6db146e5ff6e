---------------------------- MODULE SequenceFacts ----------------------------
(***************************************************************************)
(* What is at which position of a sequence, after an append or a tail:     *)
(* lemmas for the proofs about queues, batches and logs.  That a loop has  *)
(* a function of the rounds done, and a set of numbers an ascending list:  *)
(* lemmas for the proofs about storage.                                    *)
(***************************************************************************)
EXTENDS Integers, SequencesExt, SequenceTheorems, FiniteSetTheorems, WellFoundedInduction, TLAPS

\* An element of a sequence over S is in S.
LEMMA Element == ASSUME NEW S, NEW s \in Seq(S), NEW i \in DOMAIN s PROVE s[i] \in S
  BY LenProperties, ElementOfSeq

\* What is a sequence over S is one over any set of its elements.
LEMMA Widened == ASSUME NEW S, NEW T, NEW s \in Seq(S), \A i \in DOMAIN s : s[i] \in T PROVE s \in Seq(T)
<1>1. Len(s) \in Nat /\ DOMAIN s = 1 .. Len(s) /\ s \in [1 .. Len(s) -> S]
  BY LenProperties
<1>2. s \in [1 .. Len(s) -> T]
  BY <1>1
<1> QED
  BY <1>1, <1>2

LEMMA MadeSeq == ASSUME NEW S, NEW n \in Nat, NEW s \in [1 .. n -> S] PROVE s \in Seq(S) /\ Len(s) = n
  OBVIOUS

\* Append adds one position, after the others.
LEMMA Appended ==
  ASSUME NEW S, NEW s \in Seq(S), NEW x \in S
  PROVE  /\ Append(s, x) \in Seq(S) /\ Len(s) \in Nat /\ Append(s, x) # <<>>
         /\ \A i, c : i \in DOMAIN Append(s, x) /\ Append(s, x)[i] = c <=>
              (i \in DOMAIN s /\ s[i] = c) \/ (i = Len(s) + 1 /\ x = c)
<1>1. /\ Append(s, x) \in Seq(S) /\ Len(Append(s, x)) = Len(s) + 1 /\ Append(s, x) # <<>>
      /\ \A i \in 1 .. Len(s) : Append(s, x)[i] = s[i]
      /\ Append(s, x)[Len(s) + 1] = x
  BY AppendProperties
<1>2. DOMAIN s = 1 .. Len(s) /\ Len(s) \in Nat /\ DOMAIN Append(s, x) = 1 .. Len(s) + 1
  BY <1>1, LenProperties
<1> QED
  BY <1>1, <1>2

\* Tail drops the first position and shifts the others.
LEMMA Tailed ==
  ASSUME NEW S, NEW s \in Seq(S), s # <<>>
  PROVE  /\ Head(s) \in S /\ Tail(s) \in Seq(S) /\ 1 \in DOMAIN s /\ s[1] = Head(s)
         /\ \A i, c : i \in DOMAIN Tail(s) /\ Tail(s)[i] = c <=> i \in Nat /\ i # 0 /\ i + 1 \in DOMAIN s /\ s[i + 1] = c
<1>1. /\ Head(s) \in S /\ Tail(s) \in Seq(S) /\ Len(Tail(s)) = Len(s) - 1
      /\ \A i \in 1 .. Len(Tail(s)) : Tail(s)[i] = s[i + 1]
  BY HeadTailProperties
<1>2. DOMAIN s = 1 .. Len(s) /\ Len(s) \in Nat \ {0} /\ DOMAIN Tail(s) = 1 .. Len(s) - 1
  BY <1>1, LenProperties, EmptySeq
<1>3. Head(s) = s[1]
  BY <1>2
<1> QED
  BY <1>1, <1>2, <1>3

\* \o puts the second sequence after the first.
LEMMA Joined ==
  ASSUME NEW S, NEW s \in Seq(S), NEW t \in Seq(S)
  PROVE  /\ s \o t \in Seq(S) /\ Len(s) \in Nat /\ Len(t) \in Nat /\ Len(s \o t) = Len(s) + Len(t)
         /\ \A k \in 1 .. Len(s) : (s \o t)[k] = s[k]
         /\ \A k \in 1 .. Len(t) : (s \o t)[Len(s) + k] = t[k]
<1>1. /\ s \o t \in Seq(S) /\ Len(s \o t) = Len(s) + Len(t)
      /\ \A k \in 1 .. Len(s) + Len(t) : (s \o t)[k] = IF k <= Len(s) THEN s[k] ELSE t[k - Len(s)]
  BY ConcatProperties
<1>2. Len(s) \in Nat /\ Len(t) \in Nat
  BY LenProperties
<1> QED
  BY <1>1, <1>2
-----------------------------------------------------------------------------
(* Numbers.                                                                 *)

LEMMA LeastNumber ==
  ASSUME NEW I \in SUBSET Nat, I # {}
  PROVE  Min(I) \in I /\ \A k \in I : Min(I) <= k
<1>1. PICK m \in I : \A k \in I : <<k, m>> \notin OpToRel(<, Nat)
  BY NatLessThanWellFounded, WFMin
<1>2. \A k \in I : ~(k < m)
  BY <1>1, Zenon DEF OpToRel
<1>3. \A k \in I : m <= k
  BY <1>2
<1> QED
  BY <1>3 DEF Min

\* What holds at the start of a loop, and after a round if it held before it.
LEMMA Induction ==
  ASSUME NEW n \in Nat, NEW I, 0 \in I, \A m \in 1 .. n : m - 1 \in I => m \in I
  PROVE  \A m \in 0 .. n : m \in I
<1> DEFINE J == {m \in 0 .. n : m \notin I}
<1> SUFFICES ASSUME J # {} PROVE FALSE
  OBVIOUS
<1>1. J \in SUBSET Nat
  OBVIOUS
<1> HIDE DEF J
<1>2. Min(J) \in J /\ \A k \in J : Min(J) <= k
  BY <1>1, LeastNumber
<1> DEFINE m == Min(J)
<1> HIDE DEF m
<1>3. m \in 0 .. n /\ m \notin I /\ \A k \in J : m <= k
  BY <1>2 DEF J, m
<1>4. m # 0 /\ m \in 1 .. n /\ m - 1 \in 0 .. n
  BY <1>3
<1>5. m - 1 \in I
  <2> SUFFICES ASSUME m - 1 \notin I PROVE FALSE
    OBVIOUS
  <2>1. m - 1 \in J
    BY <1>4 DEF J
  <2> QED
    BY <1>3, <1>4, <2>1
<1> QED
  BY <1>3, <1>4, <1>5

-----------------------------------------------------------------------------
(* Loops.                                                                   *)

\* The function f of the rounds done, for a loop of n rounds that starts with b and
\* goes on with F.
Passes(f, V, n, b, F) ==
  f \in [0 .. n -> V] /\ f[0] = b /\ \A m \in 1 .. n : f[m] = F[<<f[m - 1], m>>]
StaysIn(V, F, n) == \A x \in V, j \in 1 .. n : F[<<x, j>>] \in V

\* There is such a function, when the rounds stay in a set.
LEMMA LoopExists ==
  ASSUME NEW n \in Nat, NEW V, NEW b \in V, NEW F, StaysIn(V, F, n)
  PROVE  \E f : Passes(f, V, n, b, F)
<1> DEFINE I == {m \in 0 .. n : \E f : Passes(f, V, m, b, F)}
<1>1. 0 \in I
  <2>1. Passes([m \in 0 .. 0 |-> b], V, 0, b, F)
    BY DEF Passes
  <2> QED
    BY <2>1
<1>2. ASSUME NEW m \in 1 .. n, m - 1 \in I PROVE m \in I
  <2>1. PICK f : Passes(f, V, m - 1, b, F)
    BY <1>2
  <2> DEFINE g == [k \in 0 .. m |-> IF k = m THEN F[<<f[m - 1], m>>] ELSE f[k]]
  <2>2. m - 1 \in 0 .. m - 1 /\ \A k \in 0 .. m : k = m \/ k \in 0 .. m - 1
    OBVIOUS
  <2>3. f[m - 1] \in V
    BY <2>1, <2>2 DEF Passes
  <2>4. F[<<f[m - 1], m>>] \in V
    BY <2>3 DEF StaysIn
  <2>5. g \in [0 .. m -> V] /\ g[0] = b
    BY <2>1, <2>2, <2>4 DEF Passes
  <2>6. ASSUME NEW k \in 1 .. m PROVE g[k] = F[<<g[k - 1], k>>]
    <3>1. k - 1 \in 0 .. m /\ k - 1 # m /\ g[k - 1] = f[k - 1]
      OBVIOUS
    <3>2. CASE k = m
      BY <3>1, <3>2
    <3>3. CASE k # m
      <4>1. k \in 1 .. m - 1 /\ g[k] = f[k]
        BY <3>3
      <4>2. f[k] = F[<<f[k - 1], k>>]
        BY <2>1, <4>1 DEF Passes
      <4> QED
        BY <3>1, <4>1, <4>2
    <3> QED
      BY <3>2, <3>3
  <2> HIDE DEF g
  <2>7. Passes(g, V, m, b, F)
    BY <2>5, <2>6 DEF Passes
  <2> QED
    BY <2>7
<1> HIDE DEF I
<1>3. \A m \in 0 .. n : m \in I
  BY <1>1, <1>2, Induction
<1>4. n \in I
  BY <1>3
<1> QED
  BY <1>4 DEF I

-----------------------------------------------------------------------------
(* The elements of a set of numbers, in ascending order.                    *)

AscendsOver(q, S) == q \in [1 .. Cardinality(S) -> S] /\ \A i, k \in DOMAIN q : i < k => q[i] < q[k]

LEMMA ListExists ==
  ASSUME NEW n \in Nat, NEW S \in SUBSET (0 .. n)
  PROVE  \E q : AscendsOver(q, S)
<1> DEFINE I == {m \in 0 .. n + 1 : \A T \in SUBSET (0 .. m - 1) : \E q : AscendsOver(q, T)}
<1>1. 0 \in I
  <2>1. ASSUME NEW T \in SUBSET (0 .. 0 - 1) PROVE \E q : AscendsOver(q, T)
    <3>1. T = {}
      OBVIOUS
    <3>2. 1 .. Cardinality(T) = {}
      BY <3>1, FS_EmptySet
    <3>3. AscendsOver([i \in 1 .. Cardinality(T) |-> i], T)
      BY <3>2 DEF AscendsOver
    <3> QED
      BY <3>3
  <2> QED
    BY <2>1
<1>2. ASSUME NEW m \in 1 .. n + 1, m - 1 \in I PROVE m \in I
  <2> SUFFICES ASSUME NEW T \in SUBSET (0 .. m - 1) PROVE \E q : AscendsOver(q, T)
    OBVIOUS
  <2> DEFINE x == m - 1
             U == T \ {x}
  <2>1. x \in Nat /\ U \in SUBSET (0 .. x - 1) /\ x \notin U
    OBVIOUS
  <2>2. PICK q : AscendsOver(q, U)
    BY <1>2, <2>1
  <2>3. CASE x \notin T
    <3>1. U = T
      BY <2>3
    <3> QED
      BY <2>2, <3>1
  <2>4. CASE x \in T
    <3>1. T = U \cup {x}
      BY <2>4
    <3> HIDE DEF x, U
    <3>2. IsFiniteSet(U) /\ Cardinality(U) \in Nat
      <4>1. IsFiniteSet(0 .. x - 1)
        BY <2>1, FS_Interval
      <4> QED
        BY <2>1, <4>1, FS_Subset, FS_CardinalityType
    <3>3. Cardinality(T) = Cardinality(U) + 1
      BY <2>1, <3>1, <3>2, FS_AddElement
    <3> DEFINE p == [i \in 1 .. Cardinality(T) |-> IF i = Cardinality(T) THEN x ELSE q[i]]
    <3>4. \A i \in 1 .. Cardinality(T) : i = Cardinality(T) \/ i \in 1 .. Cardinality(U)
      BY <3>2, <3>3
    <3>5. \A i \in 1 .. Cardinality(U) : q[i] \in U /\ q[i] < x
      <4>1. \A u \in U : u < x
        BY <2>1
      <4> QED
        BY <2>2, <4>1 DEF AscendsOver
    <3>6. p \in [1 .. Cardinality(T) -> T]
      BY <3>1, <3>4, <3>5
    <3>7. ASSUME NEW i \in 1 .. Cardinality(T), NEW k \in 1 .. Cardinality(T), i < k PROVE p[i] < p[k]
      <4>1. i \in 1 .. Cardinality(U) /\ i # Cardinality(T)
        BY <3>2, <3>3, <3>4, <3>7
      <4>2. CASE k = Cardinality(T)
        BY <3>5, <4>1, <4>2
      <4>3. CASE k # Cardinality(T)
        <5>1. k \in 1 .. Cardinality(U) /\ DOMAIN q = 1 .. Cardinality(U)
          BY <2>2, <3>4, <4>3 DEF AscendsOver
        <5>2. q[i] < q[k]
          BY <2>2, <3>7, <4>1, <5>1 DEF AscendsOver
        <5> QED
          BY <4>1, <4>3, <5>2
      <4> QED
        BY <4>2, <4>3
    <3>8. AscendsOver(p, T)
      BY <3>6, <3>7 DEF AscendsOver
    <3> QED
      BY <3>8
  <2> QED
    BY <2>3, <2>4
<1> HIDE DEF I
<1>3. \A m \in 0 .. n + 1 : m \in I
  BY <1>1, <1>2, Induction
<1>4. n + 1 \in I /\ n = (n + 1) - 1
  BY <1>3
<1> QED
  BY <1>4 DEF I

\* Such a list has every element of the set.
LEMMA ListCovers ==
  ASSUME NEW n \in Nat, NEW S \in SUBSET (0 .. n), NEW q, AscendsOver(q, S)
  PROVE  Cardinality(S) \in Nat /\ q \in Seq(S) /\ Len(q) = Cardinality(S) /\ Range(q) = S
<1>1. IsFiniteSet(S) /\ Cardinality(S) \in Nat
  <2>1. IsFiniteSet(0 .. n)
    BY FS_Interval
  <2> QED
    BY <2>1, FS_Subset, FS_CardinalityType
<1> DEFINE D == 1 .. Cardinality(S)
<1>2. q \in [D -> S] /\ q \in Seq(S) /\ Len(q) = Cardinality(S)
  BY <1>1 DEF AscendsOver
<1>3. IsFiniteSet(D) /\ Cardinality(D) = Cardinality(S)
  <2>1. /\ IsFiniteSet(1 .. Cardinality(S))
        /\ Cardinality(1 .. Cardinality(S)) = IF 1 > Cardinality(S) THEN 0 ELSE Cardinality(S) - 1 + 1
    BY <1>1, FS_Interval
  <2> QED
    BY <1>1, <2>1
<1>4. q \in Injection(D, S)
  <2>1. \A i, k \in D : i # k => q[i] # q[k]
    <3>1. ASSUME NEW i \in D, NEW k \in D, i < k PROVE q[i] # q[k]
      <4>1. q[i] \in S /\ q[k] \in S /\ DOMAIN q = D
        BY <1>2
      <4>2. q[i] < q[k]
        BY <3>1, <4>1 DEF AscendsOver
      <4>3. \A x, y \in S : x < y => x # y
        OBVIOUS
      <4> QED
        BY <4>1, <4>2, <4>3
    <3>2. \A i, k \in D : i # k => i < k \/ k < i
      BY <1>1
    <3> QED
      BY <3>1, <3>2
  <2> QED
    BY <1>2, <2>1 DEF Injection, IsInjective
<1> HIDE DEF D
<1>5. q \in Surjection(D, S)
  BY <1>1, <1>3, <1>4, FS_Injection
<1>6. Range(q) = S
  BY <1>2, <1>5 DEF Surjection, Range
<1> QED
  BY <1>1, <1>2, <1>6
=============================================================================
