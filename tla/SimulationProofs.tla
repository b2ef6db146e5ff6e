--------------------------- MODULE SimulationProofs ---------------------------
(***************************************************************************)
(* What holds of Simulation for every network and program, whichever       *)
(* engine runs it, wherever CUDA fails and whatever the handlers do: the   *)
(* types; the logs and the calls of the handlers; what neurons are held    *)
(* at; and that a tick of the CPU is one synchronous step.                 *)
(***************************************************************************)
EXTENDS Simulation, SequenceFacts

-----------------------------------------------------------------------------
(* Sets in an order.                                                        *)

\* R puts any two of S in order.
Strict(R, S) ==
  /\ \A a \in S : <<a, a>> \notin R
  /\ \A a, b \in S : a # b => <<a, b>> \in R \/ <<b, a>> \in R
  /\ \A a, b, c \in S : <<a, b>> \in R /\ <<b, c>> \in R => <<a, c>> \in R
Before(S, R, k) == {j \in S : <<j, k>> \in R}

\* Each element has as many before it as its place says.
LEMMA RanksDiffer ==
  ASSUME NEW S, IsFiniteSet(S), NEW R, Strict(R, S)
  PROVE  /\ \A k \in S : Cardinality(Before(S, R, k)) \in 0 .. Cardinality(S) - 1
         /\ \A a, b \in S : <<a, b>> \in R => Cardinality(Before(S, R, a)) < Cardinality(Before(S, R, b))
<1>1. ASSUME NEW T \in SUBSET S, NEW U \in SUBSET T, T # U
      PROVE  Cardinality(U) \in Nat /\ Cardinality(T) \in Nat /\ Cardinality(U) < Cardinality(T)
  <2>1. IsFiniteSet(T) /\ Cardinality(T) \in Nat
    BY FS_Subset, FS_CardinalityType
  <2>2. IsFiniteSet(U) /\ Cardinality(U) <= Cardinality(T) /\ (Cardinality(T) = Cardinality(U) => T = U)
    BY <2>1, FS_Subset
  <2>3. Cardinality(U) \in Nat
    BY <2>2, FS_CardinalityType
  <2> QED
    BY <1>1, <2>1, <2>2, <2>3
<1>2. ASSUME NEW k \in S PROVE Cardinality(Before(S, R, k)) \in 0 .. Cardinality(S) - 1
  <2>1. Before(S, R, k) \in SUBSET S /\ S # Before(S, R, k)
    BY DEF Before, Strict
  <2> QED
    BY <1>1, <2>1
<1>3. ASSUME NEW a \in S, NEW b \in S, <<a, b>> \in R
      PROVE  Cardinality(Before(S, R, a)) < Cardinality(Before(S, R, b))
  <2>1. Before(S, R, b) \in SUBSET S
    BY DEF Before
  <2>2. Before(S, R, a) \in SUBSET Before(S, R, b)
    BY <1>3 DEF Before, Strict
  <2>3. a \in Before(S, R, b) /\ a \notin Before(S, R, a)
    BY <1>3 DEF Before, Strict
  <2> QED
    BY <1>1, <2>1, <2>2, <2>3
<1> QED
  BY <1>2, <1>3

\* Ordered has every element of S once, each after those before it.
LEMMA OrderedLists ==
  ASSUME NEW S, IsFiniteSet(S), NEW R, Strict(R, S)
  PROVE  /\ Cardinality(S) \in Nat /\ Ordered(S, R) \in [1 .. Cardinality(S) -> S]
         /\ \A a, b \in 1 .. Cardinality(S) : a < b => <<Ordered(S, R)[a], Ordered(S, R)[b]>> \in R
         /\ \A k \in S : \E r \in 1 .. Cardinality(S) : Ordered(S, R)[r] = k
<1> DEFINE n == Cardinality(S)
           rank == [k \in S |-> Cardinality(Before(S, R, k))]
           o == Ordered(S, R)
<1>1. n \in Nat
  BY FS_CardinalityType
<1>2. rank \in [S -> 0 .. n - 1] /\ \A a, b \in S : <<a, b>> \in R => rank[a] < rank[b]
  BY RanksDiffer
<1>3. o = [r \in 1 .. n |-> CHOOSE k \in S : rank[k] = r - 1]
  <2>1. \A k \in S : rank[k] = Cardinality({j \in S : <<j, k>> \in R})
    BY DEF Before
  <2>2. \A r \in 1 .. n : (CHOOSE k \in S : rank[k] = r - 1)
                          = (CHOOSE k \in S : Cardinality({j \in S : <<j, k>> \in R}) = r - 1)
    BY <2>1
  <2> QED
    BY <2>2 DEF Ordered
<1> HIDE DEF n, rank, o
<1>4. \A a, b \in S : rank[a] = rank[b] => a = b
  <2> SUFFICES ASSUME NEW a \in S, NEW b \in S, rank[a] = rank[b], a # b PROVE FALSE
    OBVIOUS
  <2>1. rank[a] < rank[b] \/ rank[b] < rank[a]
    BY <1>2 DEF Strict
  <2>2. rank[a] \in Int /\ rank[b] \in Int
    BY <1>2
  <2> QED
    BY <2>1, <2>2
<1>5. IsFiniteSet(0 .. n - 1) /\ Cardinality(0 .. n - 1) = n
  <2>1. IsFiniteSet(0 .. n - 1) /\ Cardinality(0 .. n - 1) = IF 0 > n - 1 THEN 0 ELSE n - 1 - 0 + 1
    BY <1>1, FS_Interval
  <2> QED
    BY <1>1, <2>1
<1>6. rank \in Injection(S, 0 .. n - 1)
  BY <1>2, <1>4 DEF Injection, IsInjective
<1>7. rank \in Surjection(S, 0 .. n - 1)
  BY <1>5, <1>6, FS_Injection DEF n
<1>8. ASSUME NEW r \in 1 .. n PROVE o[r] \in S /\ rank[o[r]] = r - 1
  <2>1. r - 1 \in 0 .. n - 1
    BY <1>1
  <2>2. \E k \in S : rank[k] = r - 1
    BY <1>7, <2>1 DEF Surjection
  <2> QED
    BY <1>3, <2>2
<1>9. o \in [1 .. n -> S]
  BY <1>3, <1>8
<1>10. ASSUME NEW a \in 1 .. n, NEW b \in 1 .. n, a < b PROVE <<o[a], o[b]>> \in R
  <2>1. o[a] \in S /\ o[b] \in S /\ rank[o[a]] = a - 1 /\ rank[o[b]] = b - 1
    BY <1>8
  <2>2. rank[o[a]] < rank[o[b]]
    BY <1>1, <1>10, <2>1
  <2>3. o[a] # o[b] /\ <<o[b], o[a]>> \notin R
    BY <1>1, <1>2, <1>10, <2>1
  <2> QED
    BY <2>1, <2>3 DEF Strict
<1>11. ASSUME NEW k \in S PROVE \E r \in 1 .. n : o[r] = k
  <2>1. rank[k] \in 0 .. n - 1 /\ rank[k] + 1 \in 1 .. n /\ rank[k] + 1 - 1 = rank[k]
    BY <1>1, <1>2
  <2>2. o[rank[k] + 1] \in S /\ rank[o[rank[k] + 1]] = rank[k]
    BY <1>8, <2>1
  <2> QED
    BY <1>4, <2>1, <2>2
<1> QED
  BY <1>1, <1>9, <1>10, <1>11 DEF n, o

-----------------------------------------------------------------------------
(* Sums.                                                                    *)

\* The function of the subsets of S by which a sum is defined.
Others(s) == s \ {CHOOSE y \in s : TRUE}
Sums(it, f, S) ==
  it = [s \in SUBSET S |-> IF s = {} THEN 0 ELSE f[CHOOSE y \in s : TRUE] + it[Others(s)]]

\* A sum is what that function has at the set.
LEMMA SumIs == ASSUME NEW f, NEW S PROVE Sum(f, S) = (CHOOSE it : Sums(it, f, S))[S]
  BY DEF Sum, MapThenSumSet, MapThenFoldSet, Sums, Others

\* Without the element taken next, a finite set is smaller by one.
LEMMA SmallerRest ==
  ASSUME NEW s, IsFiniteSet(s), s # {}
  PROVE  /\ (CHOOSE y \in s : TRUE) \in s /\ Others(s) \in SUBSET s /\ IsFiniteSet(Others(s))
         /\ Cardinality(s) \in Nat \ {0} /\ Cardinality(Others(s)) = Cardinality(s) - 1
<1>1. (CHOOSE y \in s : TRUE) \in s
  OBVIOUS
<1>2. IsFiniteSet(Others(s)) /\ Cardinality(Others(s)) = Cardinality(s) - 1
  BY <1>1, FS_RemoveElement DEF Others
<1>3. Cardinality(s) \in Nat \ {0}
  BY FS_CardinalityType, FS_EmptySet
<1> QED
  BY <1>1, <1>2, <1>3 DEF Others

\* Of a finite set there is such a function.
LEMMA SumsExist == ASSUME NEW f, NEW S, IsFiniteSet(S) PROVE \E it : Sums(it, f, S)
<1> DEFINE N == Cardinality(S)
           val(it, s) == IF s = {} THEN 0 ELSE f[CHOOSE y \in s : TRUE] + it[Others(s)]
           Upto(it, m) == /\ it = [s \in SUBSET S |-> it[s]]
                          /\ \A s \in SUBSET S : Cardinality(s) <= m => it[s] = val(it, s)
           I == {m \in 0 .. N : \E it : Upto(it, m)}
<1>1. N \in Nat /\ \A s \in SUBSET S : IsFiniteSet(s) /\ Cardinality(s) \in 0 .. N
  <2>1. N \in Nat
    BY FS_CardinalityType
  <2>2. ASSUME NEW s \in SUBSET S PROVE IsFiniteSet(s) /\ Cardinality(s) \in 0 .. N
    <3>1. IsFiniteSet(s) /\ Cardinality(s) <= N
      BY FS_Subset
    <3>2. Cardinality(s) \in Nat
      BY <3>1, FS_CardinalityType
    <3> QED
      BY <2>1, <3>1, <3>2
  <2> QED
    BY <2>1, <2>2
<1>2. 0 \in I
  <2> DEFINE it == [s \in SUBSET S |-> 0]
  <2>1. ASSUME NEW s \in SUBSET S, Cardinality(s) <= 0 PROVE s = {}
    <3>1. Cardinality(s) = 0
      BY <1>1, <2>1
    <3> QED
      BY <1>1, <3>1, FS_EmptySet
  <2>2. Upto(it, 0)
    BY <2>1
  <2> HIDE DEF it
  <2>3. \E i : Upto(i, 0)
    BY <2>2
  <2>4. 0 \in 0 .. N
    BY <1>1
  <2> QED
    BY <2>3, <2>4
<1>3. ASSUME NEW m \in 1 .. N, m - 1 \in I PROVE m \in I
  <2>1. PICK a : Upto(a, m - 1)
    BY <1>3
  <2> DEFINE b == [s \in SUBSET S |-> IF Cardinality(s) = m THEN val(a, s) ELSE a[s]]
  <2>2. ASSUME NEW s \in SUBSET S, Cardinality(s) <= m PROVE b[s] = val(b, s)
    <3>1. CASE s = {}
      <4>1. Cardinality(s) # m /\ Cardinality(s) <= m - 1
        <5>1. Cardinality(s) = 0
          BY <3>1, FS_EmptySet
        <5> QED
          BY <1>3, <5>1
      <4> QED
        BY <2>1, <3>1, <4>1
    <3>2. CASE s # {}
      <4>1. Others(s) \in SUBSET S /\ Cardinality(Others(s)) = Cardinality(s) - 1 /\ Cardinality(s) \in Nat
        BY <1>1, <3>2, SmallerRest
      <4>2. b[Others(s)] = a[Others(s)]
        BY <2>2, <4>1
      <4>3. val(b, s) = val(a, s)
        BY <4>2
      <4>4. Cardinality(s) = m \/ Cardinality(s) <= m - 1
        BY <2>2, <4>1
      <4> HIDE DEF val
      <4>5. b[s] = val(a, s)
        BY <2>1, <4>4
      <4> QED
        BY <4>3, <4>5
    <3> QED
      BY <3>1, <3>2
  <2>3. b = [s \in SUBSET S |-> b[s]]
    OBVIOUS
  <2> HIDE DEF b, val
  <2>4. Upto(b, m)
    BY <2>2, <2>3
  <2> QED
    BY <2>4
<1> HIDE DEF I
<1>4. \A m \in 0 .. N : m \in I
  BY <1>1, <1>2, <1>3, Induction
<1>5. PICK it : Upto(it, N)
  <2>1. N \in I
    BY <1>1, <1>4
  <2> QED
    BY <2>1 DEF I
<1>6. \A s \in SUBSET S : it[s] = val(it, s)
  <2> SUFFICES ASSUME NEW s \in SUBSET S PROVE it[s] = val(it, s)
    OBVIOUS
  <2> HIDE DEF val
  <2>1. Cardinality(s) <= N
    BY <1>1
  <2> QED
    BY <1>5, <2>1
<1>7. it = [s \in SUBSET S |-> val(it, s)]
  BY <1>5, <1>6
<1> QED
  BY <1>7 DEF Sums

\* A sum is a number, whichever element its definition takes next.
LEMMA SumsAdd ==
  ASSUME NEW f, NEW S, IsFiniteSet(S), \A x \in S : f[x] \in Int, NEW it, Sums(it, f, S)
  PROVE  /\ \A s \in SUBSET S : it[s] \in Int
         /\ \A s \in SUBSET S : \A y \in s : it[s] = f[y] + it[s \ {y}]
<1> DEFINE N == Cardinality(S)
           Adds(s) == it[s] \in Int /\ \A y \in s : it[s] = f[y] + it[s \ {y}]
           I == {m \in 0 .. N : \A s \in SUBSET S : Cardinality(s) = m => Adds(s)}
<1>1. N \in Nat /\ \A s \in SUBSET S : IsFiniteSet(s) /\ Cardinality(s) \in 0 .. N
  <2>1. N \in Nat
    BY FS_CardinalityType
  <2>2. ASSUME NEW s \in SUBSET S PROVE IsFiniteSet(s) /\ Cardinality(s) \in 0 .. N
    <3>1. IsFiniteSet(s) /\ Cardinality(s) <= N
      BY FS_Subset
    <3>2. Cardinality(s) \in Nat
      BY <3>1, FS_CardinalityType
    <3> QED
      BY <2>1, <3>1, <3>2
  <2> QED
    BY <2>1, <2>2
<1>2. /\ it[{}] = 0
      /\ \A s \in SUBSET S : s # {} => it[s] = f[CHOOSE y \in s : TRUE] + it[Others(s)]
  BY DEF Sums
<1>3. \A s \in SUBSET S : it[s] \in Int
  <2> DEFINE J == {m \in 0 .. N : \A s \in SUBSET S : Cardinality(s) = m => it[s] \in Int}
  <2>1. 0 \in J
    <3>1. ASSUME NEW s \in SUBSET S, Cardinality(s) = 0 PROVE it[s] \in Int
      <4>1. s = {}
        BY <1>1, <3>1, FS_EmptySet
      <4> QED
        BY <1>2, <4>1
    <3>2. 0 \in 0 .. N
      BY <1>1
    <3> QED
      BY <3>1, <3>2
  <2>2. ASSUME NEW m \in 1 .. N, m - 1 \in J PROVE m \in J
    <3>1. ASSUME NEW s \in SUBSET S, Cardinality(s) = m PROVE it[s] \in Int
      <4>1. s # {} /\ IsFiniteSet(s)
        BY <1>1, <3>1, FS_EmptySet
      <4>2. /\ (CHOOSE y \in s : TRUE) \in S /\ Others(s) \in SUBSET S
            /\ Cardinality(Others(s)) = m - 1
        BY <3>1, <4>1, SmallerRest
      <4>3. it[Others(s)] \in Int
        BY <2>2, <4>2
      <4> QED
        BY <1>2, <4>1, <4>2, <4>3
    <3> QED
      BY <3>1
  <2> HIDE DEF J
  <2>3. \A m \in 0 .. N : m \in J
    BY <1>1, <2>1, <2>2, Induction
  <2> QED
    BY <1>1, <2>3 DEF J
<1>4. 0 \in I
  <2>1. ASSUME NEW s \in SUBSET S, Cardinality(s) = 0 PROVE Adds(s)
    <3>1. s = {}
      BY <1>1, <2>1, FS_EmptySet
    <3> QED
      BY <1>2, <3>1
  <2> HIDE DEF Adds
  <2>2. 0 \in 0 .. N
    BY <1>1
  <2> QED
    BY <2>1, <2>2
<1>5. ASSUME NEW m \in 1 .. N, m - 1 \in I PROVE m \in I
  <2>1. ASSUME NEW s \in SUBSET S, Cardinality(s) = m - 1 PROVE Adds(s)
    BY <1>5, <2>1
  <2>2. ASSUME NEW s \in SUBSET S, Cardinality(s) = m PROVE Adds(s)
    <3> DEFINE x == CHOOSE y \in s : TRUE
    <3>1. s # {} /\ IsFiniteSet(s)
      BY <1>1, <2>2, FS_EmptySet
    <3>2. x \in s /\ Others(s) = s \ {x} /\ it[s] = f[x] + it[s \ {x}]
      BY <1>2, <3>1, SmallerRest DEF Others
    <3> HIDE DEF x, Adds
    <3>3. ASSUME NEW y \in s PROVE s \ {y} \in SUBSET S /\ Cardinality(s \ {y}) = m - 1
      BY <2>2, <3>1, FS_RemoveElement
    <3>4. \A y \in s : Adds(s \ {y})
      BY <2>1, <3>3
    <3>5. f[x] \in Int /\ it[s \ {x}] \in Int
      BY <3>2, <3>4 DEF Adds
    <3>6. ASSUME NEW y \in s PROVE it[s] = f[y] + it[s \ {y}]
      <4>1. CASE y = x
        BY <3>2, <4>1
      <4>2. CASE y # x
        <5>1. y \in s \ {x} /\ x \in s \ {y} /\ (s \ {x}) \ {y} = (s \ {y}) \ {x}
          BY <3>2, <4>2
        <5> DEFINE t == (s \ {x}) \ {y}
        <5> HIDE DEF t
        <5>2. it[s \ {x}] = f[y] + it[t] /\ it[s \ {y}] = f[x] + it[t]
          BY <3>2, <3>4, <5>1 DEF Adds, t
        <5>3. it[t] \in Int
          <6>1. t \in SUBSET S
            BY DEF t
          <6> QED
            BY <1>3, <6>1
        <5>4. f[y] \in Int
          OBVIOUS
        <5> QED
          BY <3>2, <3>5, <5>2, <5>3, <5>4
      <4> QED
        BY <4>1, <4>2
    <3>7. it[s] \in Int
      BY <3>2, <3>5
    <3> QED
      BY <3>6, <3>7 DEF Adds
  <2> HIDE DEF Adds
  <2> QED
    BY <2>2
<1> HIDE DEF I
<1>6. \A m \in 0 .. N : m \in I
  BY <1>1, <1>4, <1>5, Induction
<1>7. ASSUME NEW s \in SUBSET S PROVE Adds(s)
  BY <1>1, <1>6 DEF I
<1> QED
  BY <1>7

\* Two such functions agree where both are defined.
LEMMA SumsAgree ==
  ASSUME NEW f, NEW S, IsFiniteSet(S), NEW a, Sums(a, f, S), NEW T \in SUBSET S, NEW b, Sums(b, f, T)
  PROVE  a[T] = b[T]
<1> DEFINE N == Cardinality(T)
           I == {m \in 0 .. N : \A s \in SUBSET T : Cardinality(s) = m => a[s] = b[s]}
<1>1. N \in Nat /\ \A s \in SUBSET T : IsFiniteSet(s)
  BY FS_Subset, FS_CardinalityType
<1>2. /\ a[{}] = 0 /\ b[{}] = 0
      /\ \A s \in SUBSET S : s # {} => a[s] = f[CHOOSE y \in s : TRUE] + a[Others(s)]
      /\ \A s \in SUBSET T : s # {} => b[s] = f[CHOOSE y \in s : TRUE] + b[Others(s)]
  BY DEF Sums
<1>3. 0 \in I
  <2>1. ASSUME NEW s \in SUBSET T, Cardinality(s) = 0 PROVE a[s] = b[s]
    <3>1. s = {}
      BY <1>1, <2>1, FS_EmptySet
    <3> QED
      BY <1>2, <3>1
  <2>2. 0 \in 0 .. N
    BY <1>1
  <2> QED
    BY <2>1, <2>2
<1>4. ASSUME NEW m \in 1 .. N, m - 1 \in I PROVE m \in I
  <2>1. ASSUME NEW s \in SUBSET T, Cardinality(s) = m PROVE a[s] = b[s]
    <3>1. s # {} /\ IsFiniteSet(s)
      BY <1>1, <2>1, FS_EmptySet
    <3>2. Others(s) \in SUBSET T /\ Cardinality(Others(s)) = m - 1
      BY <2>1, <3>1, SmallerRest
    <3>3. a[Others(s)] = b[Others(s)]
      BY <1>4, <3>2
    <3>4. a[s] = f[CHOOSE y \in s : TRUE] + a[Others(s)] /\ b[s] = f[CHOOSE y \in s : TRUE] + b[Others(s)]
      BY <1>2, <3>1
    <3> QED
      BY <3>3, <3>4
  <2> QED
    BY <2>1
<1> HIDE DEF I
<1>5. \A m \in 0 .. N : m \in I
  BY <1>1, <1>3, <1>4, Induction
<1>6. N \in I
  BY <1>1, <1>5
<1> QED
  BY <1>6 DEF I

\* The sum over a finite set is a number, and grows with each element by its value.
LEMMA SumAdd ==
  ASSUME NEW f, NEW S, IsFiniteSet(S), \A x \in S : f[x] \in Int
  PROVE  /\ Sum(f, S) \in Int /\ Sum(f, {}) = 0
         /\ \A T \in SUBSET S : Sum(f, T) \in Int
         /\ \A T \in SUBSET S : \A y \in T : Sum(f, T) = f[y] + Sum(f, T \ {y})
<1>1. PICK it : Sums(it, f, S)
  BY SumsExist
<1>2. ASSUME NEW T \in SUBSET S PROVE Sum(f, T) = it[T]
  <2>1. IsFiniteSet(T)
    BY FS_Subset
  <2>2. \E b : Sums(b, f, T)
    BY <2>1, SumsExist
  <2>3. Sums(CHOOSE b : Sums(b, f, T), f, T)
    BY <2>2
  <2>4. it[T] = (CHOOSE b : Sums(b, f, T))[T]
    BY <1>1, <2>3, SumsAgree
  <2> QED
    BY <2>4, SumIs
<1>3. it[{}] = 0
  BY <1>1 DEF Sums
<1>4. /\ \A s \in SUBSET S : it[s] \in Int
      /\ \A s \in SUBSET S : \A y \in s : it[s] = f[y] + it[s \ {y}]
  BY <1>1, SumsAdd
<1>5. Sum(f, {}) = 0
  <2>1. {} \in SUBSET S
    OBVIOUS
  <2> QED
    BY <1>2, <1>3, <2>1
<1>6. ASSUME NEW T \in SUBSET S PROVE /\ Sum(f, T) \in Int
                                     /\ \A y \in T : Sum(f, T) = f[y] + Sum(f, T \ {y})
  <2>1. ASSUME NEW y \in T PROVE Sum(f, T) = f[y] + Sum(f, T \ {y})
    <3>1. T \ {y} \in SUBSET S
      OBVIOUS
    <3> QED
      BY <1>2, <1>4, <3>1
  <2> QED
    BY <1>2, <1>4, <2>1
<1> QED
  BY <1>5, <1>6

\* The same as a formula, for any function and set.
LEMMA SumSteps ==
  \A f, S : IsFiniteSet(S) /\ (\A x \in S : f[x] \in Int) =>
    Sum(f, {}) = 0 /\ \A V \in SUBSET S : \A y \in V : Sum(f, V) = f[y] + Sum(f, V \ {y})
<1> SUFFICES ASSUME NEW f, NEW S, IsFiniteSet(S), \A x \in S : f[x] \in Int
             PROVE  Sum(f, {}) = 0 /\ \A V \in SUBSET S : \A y \in V : Sum(f, V) = f[y] + Sum(f, V \ {y})
  OBVIOUS
<1> QED
  BY SumAdd

\* The sum of the same values, with other names for the elements.
LEMMA SumRenamed ==
  ASSUME NEW S, IsFiniteSet(S), NEW f, \A x \in S : f[x] \in Int,
         NEW T, NEW g, NEW h \in [T -> S], \A x, y \in T : h[x] = h[y] => x = y,
         \A k \in S : \E x \in T : h[x] = k, \A x \in T : g[x] = f[h[x]]
  PROVE  IsFiniteSet(T) /\ Sum(g, T) = Sum(f, S)
<1>1. h \in Injection(T, S)
  BY DEF Injection, IsInjective
<1>2. IsFiniteSet(T)
  BY <1>1, FS_Injection
<1>3. \A x \in T : g[x] \in Int
  OBVIOUS
<1>4. /\ Sum(f, {}) = 0
      /\ \A V \in SUBSET S : \A y \in V : Sum(f, V) = f[y] + Sum(f, V \ {y})
  BY SumSteps
<1>5. /\ Sum(g, {}) = 0
      /\ \A V \in SUBSET T : \A y \in V : Sum(g, V) = g[y] + Sum(g, V \ {y})
  BY <1>2, <1>3, SumSteps
<1> DEFINE N == Cardinality(T)
           Img(U) == {h[x] : x \in U}
           I == {m \in 0 .. N : \A U \in SUBSET T : Cardinality(U) = m => Sum(g, U) = Sum(f, Img(U))}
<1>6. N \in Nat /\ \A U \in SUBSET T : IsFiniteSet(U) /\ Cardinality(U) \in Nat
  BY <1>2, FS_Subset, FS_CardinalityType
<1>7. 0 \in I
  <2>1. ASSUME NEW U \in SUBSET T, Cardinality(U) = 0 PROVE Sum(g, U) = Sum(f, Img(U))
    <3>1. U = {} /\ Img(U) = {}
      BY <1>6, <2>1, FS_EmptySet
    <3> HIDE DEF Img
    <3> QED
      BY <1>4, <1>5, <3>1
  <2> HIDE DEF Img
  <2>2. 0 \in 0 .. N
    BY <1>6
  <2> QED
    BY <2>1, <2>2
<1>8. ASSUME NEW m \in 1 .. N, m - 1 \in I PROVE m \in I
  <2>1. ASSUME NEW U \in SUBSET T, Cardinality(U) = m PROVE Sum(g, U) = Sum(f, Img(U))
    <3>1. U # {} /\ IsFiniteSet(U)
      BY <1>6, <2>1, FS_EmptySet
    <3>2. PICK x \in U : TRUE
      BY <3>1
    <3>3. U \ {x} \in SUBSET T /\ Cardinality(U \ {x}) = m - 1
      BY <2>1, <3>1, <3>2, FS_RemoveElement
    <3>4. Img(U) \in SUBSET S /\ h[x] \in Img(U) /\ Img(U \ {x}) = Img(U) \ {h[x]}
      BY <3>2
    <3> HIDE DEF Img
    <3>5. Sum(g, U \ {x}) = Sum(f, Img(U \ {x}))
      BY <1>8, <3>3
    <3>6. Sum(g, U) = g[x] + Sum(g, U \ {x})
      BY <1>5, <3>2
    <3>7. Sum(f, Img(U)) = f[h[x]] + Sum(f, Img(U) \ {h[x]})
      BY <1>4, <3>4
    <3> QED
      BY <3>2, <3>4, <3>5, <3>6, <3>7
  <2> HIDE DEF Img
  <2> QED
    BY <2>1
<1> HIDE DEF I
<1>9. \A m \in 0 .. N : m \in I
  BY <1>6, <1>7, <1>8, Induction
<1>10. N \in I
  BY <1>6, <1>9
<1>11. Img(T) = S
  OBVIOUS
<1> HIDE DEF Img
<1> QED
  BY <1>2, <1>10, <1>11 DEF I

\* The sum over two sets that have nothing in common.
LEMMA SumOfBoth ==
  ASSUME NEW S, NEW T, IsFiniteSet(S), IsFiniteSet(T), S \cap T = {},
         NEW f, \A x \in S \cup T : f[x] \in Int
  PROVE  IsFiniteSet(S \cup T) /\ Sum(f, S \cup T) = Sum(f, S) + Sum(f, T)
<1>1. IsFiniteSet(S \cup T)
  BY FS_Union
<1> DEFINE N == Cardinality(T)
           I == {m \in 0 .. N : \A U \in SUBSET T : Cardinality(U) = m => Sum(f, S \cup U) = Sum(f, S) + Sum(f, U)}
<1>2. N \in Nat /\ \A U \in SUBSET T : IsFiniteSet(U) /\ Cardinality(U) \in Nat
  BY FS_Subset, FS_CardinalityType
<1>3. Sum(f, S) \in Int /\ Sum(f, {}) = 0 /\ \A U \in SUBSET T : Sum(f, U) \in Int
  BY SumAdd
<1>4. \A V \in SUBSET T : \A y \in V : Sum(f, V) = f[y] + Sum(f, V \ {y})
  <2>1. \A x \in T : f[x] \in Int
    OBVIOUS
  <2> QED
    BY <2>1, SumAdd
<1>5. \A V \in SUBSET (S \cup T) : \A y \in V : Sum(f, V) = f[y] + Sum(f, V \ {y})
  <2> DEFINE W == S \cup T
  <2>1. IsFiniteSet(W) /\ \A x \in W : f[x] \in Int
    BY <1>1
  <2> HIDE DEF W
  <2>2. \A V \in SUBSET W : \A y \in V : Sum(f, V) = f[y] + Sum(f, V \ {y})
    BY <2>1, SumAdd
  <2> QED
    BY <2>2 DEF W
<1>6. 0 \in I
  <2>1. ASSUME NEW U \in SUBSET T, Cardinality(U) = 0 PROVE Sum(f, S \cup U) = Sum(f, S) + Sum(f, U)
    <3>1. U = {} /\ S \cup U = S
      BY <1>2, <2>1, FS_EmptySet
    <3> QED
      BY <1>3, <3>1
  <2>2. 0 \in 0 .. N
    BY <1>2
  <2> QED
    BY <2>1, <2>2
<1>7. ASSUME NEW m \in 1 .. N, m - 1 \in I PROVE m \in I
  <2>1. ASSUME NEW U \in SUBSET T, Cardinality(U) = m PROVE Sum(f, S \cup U) = Sum(f, S) + Sum(f, U)
    <3>1. U # {} /\ IsFiniteSet(U)
      BY <1>2, <2>1, FS_EmptySet
    <3>2. PICK x \in U : TRUE
      BY <3>1
    <3>3. U \ {x} \in SUBSET T /\ Cardinality(U \ {x}) = m - 1
      BY <2>1, <3>1, <3>2, FS_RemoveElement
    <3>4. S \cup U \in SUBSET (S \cup T) /\ x \in S \cup U /\ (S \cup U) \ {x} = S \cup (U \ {x})
      BY <3>2
    <3>5. Sum(f, S \cup (U \ {x})) = Sum(f, S) + Sum(f, U \ {x})
      BY <1>7, <3>3
    <3>6. Sum(f, U) = f[x] + Sum(f, U \ {x})
      BY <1>4, <3>2
    <3>7. Sum(f, S \cup U) = f[x] + Sum(f, (S \cup U) \ {x})
      BY <1>5, <3>4
    <3>8. f[x] \in Int /\ Sum(f, U \ {x}) \in Int
      BY <1>3, <3>2, <3>3
    <3> QED
      BY <1>3, <3>4, <3>5, <3>6, <3>7, <3>8
  <2> QED
    BY <2>1
<1> HIDE DEF I
<1>8. \A m \in 0 .. N : m \in I
  BY <1>2, <1>6, <1>7, Induction
<1>9. N \in I
  BY <1>2, <1>8
<1> QED
  BY <1>1, <1>9 DEF I

-----------------------------------------------------------------------------
(* Types.                                                                   *)

Numbers(g) == [Neuron(g) -> Int]
CellOf(g) == [v : Numbers(g), syn : Numbers(g), hold : Numbers(g), trace : Numbers(g),
              spikes : SUBSET Neuron(g), prev : SUBSET Neuron(g)]
Cells(x) == x = [g \in Group |-> x[g]] /\ \A g \in Group : x[g] \in CellOf(g)
Synapses(c) == Neuron(net.conns[c].src) \X Neuron(net.conns[c].dst)
Weighted(w) == w = [c \in Conn |-> w[c]] /\ \A c \in Conn : \E s \in SUBSET Synapses(c) : w[c] \in [s -> Int]
Emits == [g : Group, lo : Int, hi : Int, t : Int, cur : Int]
Phases == {"idle", "currents", "injections", "inputs", "fire", "learn", "trace", "report",
           "upload", "launch", "fetch", "cuda_report", "download", "fallback"}
Runs == [phase : Phases, tick : Nat, ticks : Int, dt : Nat \ {0}, cursor : Nat \ {0}, n : Nat,
         g : 0 .. Len(Sizes), h : Nat, left : Seq(Nat)]
Types ==
  /\ net \in Nets /\ Cells(cell) /\ Weighted(weights) /\ signal \in Int /\ clock \in Nat
  /\ queue \in Seq(Emits) /\ run \in Runs /\ run.n <= Len(queue) /\ run.cursor <= run.n + 1
  /\ device = [cell |-> device.cell, weights |-> device.weights]
  /\ Cells(device.cell) /\ Weighted(device.weights)

\* The groups are numbered from 1, and their neurons are finitely many naturals.
LEMMA Groups ==
  /\ Len(Sizes) \in Nat /\ Group = 1 .. Len(Sizes)
  /\ \A g \in Group : Sizes[g] \in Nat /\ Neuron(g) \in SUBSET Nat /\ IsFiniteSet(Neuron(g))
<1>1. Len(Sizes) \in Nat /\ Group = 1 .. Len(Sizes)
  BY NetAssumption, LenProperties DEF Group
<1>2. ASSUME NEW g \in Group PROVE Sizes[g] \in Nat
  BY <1>1, NetAssumption, ElementOfSeq
<1>3. ASSUME NEW g \in Group PROVE Neuron(g) \in SUBSET Nat /\ IsFiniteSet(Neuron(g))
  BY <1>2, FS_Interval DEF Neuron
<1> QED
  BY <1>1, <1>2, <1>3

\* Halves are rounded to integers.
LEMMA HalfInt == \A x \in Int : Half(x) \in Int
  BY DEF Half

\* The connections of a network.
LEMMA Conns ==
  ASSUME net \in Nets
  PROVE  /\ Len(net.conns) \in Nat /\ Conn = 1 .. Len(net.conns)
         /\ \A c \in Conn : net.conns[c].src \in Group /\ net.conns[c].dst \in Group
         /\ Weighted(net.weights)
         /\ net.handlers \in [Group -> Seq(STRING)] /\ net.modulated \in BOOLEAN
<1>1. NetShape(net)
  BY NetAssumption
<1>2. Len(net.conns) \in Nat /\ Conn = 1 .. Len(net.conns)
  BY <1>1, LenProperties DEF NetShape, Conn
<1>3. ASSUME NEW c \in Conn PROVE net.conns[c].src \in Group /\ net.conns[c].dst \in Group
  <2>1. net.conns[c] \in [src : DOMAIN Sizes, dst : DOMAIN Sizes, kind : STRING, plastic : BOOLEAN]
    BY <1>1, <1>2, ElementOfSeq DEF NetShape
  <2> QED
    BY <2>1 DEF Group
<1>4. Weighted(net.weights)
  BY <1>1 DEF NetShape, Weighted, Synapses, Neuron, Conn
<1> QED
  BY <1>1, <1>2, <1>3, <1>4 DEF NetShape, Group

-----------------------------------------------------------------------------
(* What a tick computes has the types of what it computes it from.          *)

\* A cell with other currents is a cell.
LEMMA SynPut == ASSUME NEW g, NEW c \in CellOf(g), NEW s \in Numbers(g) PROVE [c EXCEPT !.syn = s] \in CellOf(g)
  BY DEF CellOf

\* A cell held at other currents is a cell.
LEMMA HoldPut == ASSUME NEW g, NEW c \in CellOf(g), NEW s \in Numbers(g) PROVE [c EXCEPT !.hold = s] \in CellOf(g)
  BY DEF CellOf

\* A cell with other traces is a cell.
LEMMA TracePut == ASSUME NEW g, NEW c \in CellOf(g), NEW s \in Numbers(g) PROVE [c EXCEPT !.trace = s] \in CellOf(g)
  BY DEF CellOf

\* A cell with other potentials and spikes is a cell.
LEMMA SpikesPut ==
  ASSUME NEW g, NEW c \in CellOf(g), NEW s \in SUBSET Neuron(g), NEW v \in Numbers(g)
  PROVE  [c EXCEPT !.v = v, !.spikes = s] \in CellOf(g) /\ [c EXCEPT !.spikes = s, !.v = v] \in CellOf(g)
  BY DEF CellOf

\* Currents decay to half, and nothing else changes.
LEMMA DecayedCells ==
  ASSUME NEW x, Cells(x)
  PROVE  /\ Cells(Decayed(x))
         /\ \A g \in Group : Decayed(x)[g] = [x[g] EXCEPT !.syn = [j \in Neuron(g) |-> Half(x[g].syn[j])]]
<1>1. ASSUME NEW g \in Group
      PROVE  /\ Decayed(x)[g] = [x[g] EXCEPT !.syn = [j \in Neuron(g) |-> Half(x[g].syn[j])]]
             /\ Decayed(x)[g] \in CellOf(g)
  <2>1. x[g] \in CellOf(g)
    BY DEF Cells
  <2>2. [j \in Neuron(g) |-> Half(x[g].syn[j])] \in Numbers(g)
    BY <2>1, HalfInt DEF CellOf, Numbers
  <2>3. Decayed(x)[g] = [x[g] EXCEPT !.syn = [j \in Neuron(g) |-> Half(x[g].syn[j])]]
    BY <2>1 DEF Decayed, CellOf
  <2> QED
    BY <2>1, <2>2, <2>3, SynPut
<1>2. Decayed(x) = [g \in Group |-> Decayed(x)[g]]
  BY DEF Decayed
<1> QED
  BY <1>1, <1>2 DEF Cells

\* The synapses of a connection that are active, and what they add to a neuron.
Spiking(w, active) == active = [c \in Conn |-> active[c]] /\ \A c \in Conn : active[c] \in SUBSET DOMAIN w[c]
Hits(active, c, j) == {s \in active[c] : s[2] = j}

\* What a connection adds to a neuron is the sum of the weights of the synapses that hit it.
LEMMA ImpulseIs ==
  ASSUME net \in Nets, NEW w, Weighted(w), NEW active, Spiking(w, active), NEW c \in Conn, NEW j
  PROVE  /\ IsFiniteSet(Hits(active, c, j)) /\ \A s \in Hits(active, c, j) : w[c][s] \in Int
         /\ Impulse(w, c, active, j) = Sum(w[c], Hits(active, c, j)) /\ Impulse(w, c, active, j) \in Int
<1>1. PICK D \in SUBSET Synapses(c) : w[c] \in [D -> Int]
  BY DEF Weighted
<1>2. IsFiniteSet(Synapses(c))
  BY Conns, Groups, FS_Product DEF Synapses
<1>3. {s \in active[c] : s[2] = j} \in SUBSET Synapses(c) /\ \A s \in active[c] : w[c][s] \in Int
  BY <1>1 DEF Spiking
<1> DEFINE T == {s \in active[c] : s[2] = j}
<1>4. IsFiniteSet(T) /\ \A s \in T : w[c][s] \in Int
  BY <1>2, <1>3, FS_Subset
<1> HIDE DEF T
<1>5. Sum(w[c], T) \in Int
  BY <1>4, SumAdd
<1>6. Impulse(w, c, active, j) = Sum(w[c], T)
  BY DEF Impulse, T
<1>7. T = Hits(active, c, j)
  BY DEF Hits, T
<1> QED
  BY <1>4, <1>5, <1>6, <1>7

\* The loop over the connections.
Adding(w, active, g, j) ==
  [p \in Int \X Conn |-> p[1] + (IF net.conns[p[2]].dst = g THEN Impulse(w, p[2], active, j) ELSE 0)]

\* The current of a neuron is what that loop ends with.
LEMMA DrivenPasses ==
  ASSUME net \in Nets, NEW w, Weighted(w), NEW active, Spiking(w, active), NEW x, Cells(x),
         NEW g \in Group, NEW j \in Neuron(g)
  PROVE  \E f : /\ Passes(f, Int, Len(net.conns), x[g].syn[j], Adding(w, active, g, j))
                /\ Driven(x, w, active, g, j) = f[Len(net.conns)]
<1> DEFINE n == Len(net.conns)
           b == x[g].syn[j]
           add(c) == IF net.conns[c].dst = g THEN Impulse(w, c, active, j) ELSE 0
           F == Adding(w, active, g, j)
           L == [c \in 0 .. n |-> c]
<1>1. n \in Nat /\ Conn = 1 .. n
  BY Conns
<1>2. b \in Int
  BY DEF Cells, CellOf, Numbers
<1>3. ASSUME NEW c \in Conn PROVE add(c) \in Int
  <2>1. Impulse(w, c, active, j) \in Int
    BY ImpulseIs
  <2>2. CASE net.conns[c].dst = g
    BY <2>1, <2>2
  <2>3. CASE net.conns[c].dst # g
    BY <2>3
  <2> QED
    BY <2>2, <2>3
<1>4. \A y \in Int, c \in Conn : F[<<y, c>>] = y + add(c) /\ F[<<y, c>>] \in Int
  BY <1>3 DEF Adding
<1> HIDE DEF F, n, b
<1>5. StaysIn(Int, F, n)
  BY <1>1, <1>4 DEF StaysIn
<1>6. PICK f : Passes(f, Int, n, b, F)
  BY <1>1, <1>2, <1>5, LoopExists
<1>7. f = [c \in 0 .. n |-> IF c = 0 THEN b ELSE f[c - 1] + add(c)]
  <2> HIDE DEF add
  <2>1. ASSUME NEW c \in 1 .. n PROVE f[c] = f[c - 1] + add(c)
    <3>1. c - 1 \in 0 .. n /\ c \in Conn
      BY <1>1
    <3>2. f[c - 1] \in Int /\ f[c] = F[<<f[c - 1], c>>]
      BY <1>6, <3>1 DEF Passes
    <3> QED
      BY <1>4, <3>1, <3>2
  <2>2. f \in [0 .. n -> Int] /\ f[0] = b
    BY <1>6 DEF Passes
  <2>3. \A c \in 0 .. n : c = 0 \/ c \in 1 .. n
    BY <1>1
  <2> QED
    BY <2>1, <2>2, <2>3
<1> DEFINE Loop(h) == h = [c \in 0 .. n |-> IF c = 0 THEN b ELSE h[c - 1] + add(c)]
<1>8. ASSUME NEW h, Loop(h) PROVE h = f
  <2> HIDE DEF add
  <2> DEFINE I == {m \in 0 .. n : h[m] = f[m]}
  <2>1. 0 \in I
    BY <1>1, <1>7, <1>8
  <2>2. ASSUME NEW m \in 1 .. n, m - 1 \in I PROVE m \in I
    <3>1. m \in 0 .. n /\ m # 0
      BY <1>1
    <3> QED
      BY <1>7, <1>8, <2>2, <3>1
  <2>3. \A m \in 0 .. n : m \in I
    <3> HIDE DEF I
    <3> QED
      BY <1>1, <2>1, <2>2, Induction
  <2>4. h = [c \in 0 .. n |-> h[c]] /\ f = [c \in 0 .. n |-> f[c]]
    BY <1>7, <1>8
  <2> QED
    BY <2>3, <2>4
<1>9. (CHOOSE h : Loop(h)) = f
  BY <1>7, <1>8
<1>10. Driven(x, w, active, g, j) = (CHOOSE h : Loop(h))[n]
  BY DEF Driven, n, b
<1> QED
  BY <1>6, <1>9, <1>10 DEF F, n, b

\* With the currents of the connections added, cells are cells.
LEMMA PropagatedCells ==
  ASSUME net \in Nets, NEW w, Weighted(w), NEW active, Spiking(w, active), NEW x, Cells(x)
  PROVE  Cells(Propagated(x, w, active))
<1>1. ASSUME NEW g \in Group PROVE Propagated(x, w, active)[g] \in CellOf(g)
  <2>1. ASSUME NEW j \in Neuron(g) PROVE Driven(x, w, active, g, j) \in Int
    <3>1. PICK f : /\ Passes(f, Int, Len(net.conns), x[g].syn[j], Adding(w, active, g, j))
                   /\ Driven(x, w, active, g, j) = f[Len(net.conns)]
      BY DrivenPasses
    <3>2. Len(net.conns) \in 0 .. Len(net.conns)
      BY Conns
    <3> QED
      BY <3>1, <3>2 DEF Passes
  <2>2. [j \in Neuron(g) |-> Driven(x, w, active, g, j)] \in Numbers(g)
    BY <2>1 DEF Numbers
  <2>3. x[g] \in CellOf(g)
    BY DEF Cells
  <2> QED
    BY <2>2, <2>3, SynPut DEF Propagated
<1> QED
  BY <1>1 DEF Propagated, Cells

\* An injection that is due sets the hold of the neurons in its range.
HeldBy(x, inj, g, i) ==
  IF inj.t >= clock /\ inj.g = g /\ i >= inj.lo /\ i < inj.hi THEN inj.cur ELSE x[g].hold[i]

\* An injection changes what neurons are held at, as HeldBy says, and nothing else.
LEMMA AppliedCells ==
  ASSUME clock \in Nat, NEW x, Cells(x), NEW inj \in Emits
  PROVE  /\ Cells(Applied(x, inj))
         /\ \A g \in Group : Applied(x, inj)[g] = [x[g] EXCEPT !.hold = [i \in Neuron(g) |-> HeldBy(x, inj, g, i)]]
<1> DEFINE y == Applied(x, inj)
<1>1. inj.g \in Group /\ inj.cur \in Int /\ \A g \in Group : x[g] \in CellOf(g)
  BY DEF Emits, Cells
<1>2. ASSUME NEW g \in Group
      PROVE  [i \in Neuron(g) |-> HeldBy(x, inj, g, i)] \in Numbers(g)
  BY <1>1, <1>2 DEF CellOf, Numbers, HeldBy
<1>3. ASSUME NEW g \in Group
      PROVE  /\ y[g] = [x[g] EXCEPT !.hold = [i \in Neuron(g) |-> HeldBy(x, inj, g, i)]]
             /\ y[g] \in CellOf(g)
  <2>1. x[g] \in CellOf(g) /\ DOMAIN x[g].hold = Neuron(g) /\ x[g].hold = [i \in Neuron(g) |-> x[g].hold[i]]
    BY <1>1 DEF CellOf, Numbers
  <2>2. CASE inj.t >= clock /\ inj.g = g
    <3>1. y[g] = [x[g] EXCEPT !.hold = [i \in Neuron(g) |-> IF i >= inj.lo /\ i < inj.hi THEN inj.cur ELSE x[g].hold[i]]]
      BY <2>1, <2>2 DEF Applied, ApplyInjection, Cells
    <3>2. [i \in Neuron(g) |-> IF i >= inj.lo /\ i < inj.hi THEN inj.cur ELSE x[g].hold[i]]
          = [i \in Neuron(g) |-> HeldBy(x, inj, g, i)]
      BY <2>2 DEF HeldBy
    <3> DEFINE h == [i \in Neuron(g) |-> HeldBy(x, inj, g, i)]
    <3>3. h \in Numbers(g) /\ y[g] = [x[g] EXCEPT !.hold = h]
      BY <1>2, <3>1, <3>2
    <3> HIDE DEF h, y
    <3>4. [x[g] EXCEPT !.hold = h] \in CellOf(g)
      BY <2>1, <3>3, HoldPut
    <3> QED
      BY <3>3, <3>4 DEF h
  <2>3. CASE ~(inj.t >= clock /\ inj.g = g)
    <3>1. y[g] = x[g]
      BY <1>1, <2>3 DEF Applied, ApplyInjection, Cells
    <3>2. [i \in Neuron(g) |-> HeldBy(x, inj, g, i)] = x[g].hold
      BY <2>1, <2>3 DEF HeldBy
    <3>3. x[g] = [x[g] EXCEPT !.hold = x[g].hold]
      BY <2>1 DEF CellOf
    <3> QED
      BY <2>1, <3>1, <3>2, <3>3
  <2> QED
    BY <2>2, <2>3
<1>4. y = [g \in Group |-> y[g]]
  BY <1>1 DEF Applied, ApplyInjection, Cells
<1> QED
  BY <1>3, <1>4 DEF Cells

\* What the oscillators add to a group is an integer.
LEMMA WaveInt ==
  ASSUME net \in Nets, clock \in Nat, NEW g PROVE Wave(g) \in Int
<1>1. IsFiniteSet(net.oscillators) /\ \A o \in net.oscillators : o.wave \in Seq(Int) /\ o.wave # <<>>
  BY NetAssumption DEF NetShape
<1> DEFINE f == [o \in net.oscillators |-> IF o.g = g THEN o.wave[(clock % Len(o.wave)) + 1] ELSE 0]
<1>2. ASSUME NEW o \in net.oscillators PROVE f[o] \in Int
  <2>1. o.wave \in Seq(Int) /\ Len(o.wave) \in Nat \ {0}
    BY <1>1
  <2>2. (clock % Len(o.wave)) + 1 \in 1 .. Len(o.wave)
    <3>1. ASSUME NEW n \in Nat \ {0} PROVE (clock % n) + 1 \in 1 .. n
      OBVIOUS
    <3> QED
      BY <2>1, <3>1
  <2>3. o.wave[(clock % Len(o.wave)) + 1] \in Int
    BY <2>1, <2>2, ElementOfSeq
  <2> QED
    BY <2>3
<1> HIDE DEF f
<1>3. Sum(f, net.oscillators) \in Int
  BY <1>1, <1>2, SumAdd
<1> QED
  BY <1>3 DEF Wave, f

\* Potentials are integers.
LEMMA PotentialInt == ASSUME NEW g, NEW c \in CellOf(g), NEW i \in Neuron(g) PROVE Potential(c, i) \in Int
<1>1. c.v[i] \in Int /\ c.syn[i] \in Int /\ c.hold[i] \in Int /\ Rest \in Int
  BY NumberAssumption DEF CellOf, Numbers
<1> QED
  BY <1>1, HalfInt DEF Potential

\* The neurons at their threshold, and what the others come to.
Over(c, g) == {i \in Neuron(g) : Potential(c, i) >= Threshold}
After(c, g) == [i \in Neuron(g) |-> IF i \in Over(c, g) THEN Reset ELSE Potential(c, i)]

\* After the fire phase of a group: the potentials, and the spikes of the neurons over the threshold.
LEMMA FiredCells ==
  ASSUME NEW x, Cells(x)
  PROVE  /\ Cells(Fired(x))
         /\ \A g \in Group : /\ Fired(x)[g] = [x[g] EXCEPT !.v = After(x[g], g), !.spikes = Over(x[g], g)]
                             /\ After(x[g], g) \in Numbers(g)
<1>1. ASSUME NEW g \in Group
      PROVE  /\ Fired(x)[g] = [x[g] EXCEPT !.v = After(x[g], g), !.spikes = Over(x[g], g)]
             /\ After(x[g], g) \in Numbers(g)
             /\ Fired(x)[g] \in CellOf(g)
  <2>1. x[g] \in CellOf(g)
    BY DEF Cells
  <2>2. Fired(x)[g] = [x[g] EXCEPT !.v = After(x[g], g), !.spikes = Over(x[g], g)]
    BY DEF Fired, After, Over
  <2>3. After(x[g], g) \in Numbers(g)
    BY <2>1, PotentialInt, NumberAssumption DEF After, Numbers
  <2>4. Over(x[g], g) \in SUBSET Neuron(g)
    BY DEF Over
  <2> DEFINE v == After(x[g], g)
             s == Over(x[g], g)
  <2> HIDE DEF v, s
  <2>5. [x[g] EXCEPT !.v = v, !.spikes = s] \in CellOf(g)
    BY <2>1, <2>3, <2>4, SpikesPut DEF v, s
  <2> QED
    BY <2>2, <2>3, <2>5 DEF v, s
<1> QED
  BY <1>1 DEF Fired, Cells

\* The losers of a clamped group.
Losers(before, c) ==
  LET cand == Ranked(before, c.spikes) IN {cand[r] : r \in Winners + 1 .. Len(cand)}
Clamp(c, out, g) ==
  [c EXCEPT !.spikes = c.spikes \ out, !.v = [i \in Neuron(g) |-> IF i \in out THEN Reset ELSE c.v[i]]]

\* The losers of the clamped groups are suppressed; the other groups stay.
LEMMA ContrastedCells ==
  ASSUME NEW b, NEW x, Cells(x)
  PROVE  /\ Cells(Contrasted(b, x))
         /\ \A g \in Group : Contrasted(b, x)[g] = IF g \notin Clamped THEN x[g] ELSE Clamp(x[g], Losers(b[g], x[g]), g)
<1>1. ASSUME NEW g \in Group
      PROVE  /\ Contrasted(b, x)[g] = IF g \notin Clamped THEN x[g] ELSE Clamp(x[g], Losers(b[g], x[g]), g)
             /\ Contrasted(b, x)[g] \in CellOf(g)
  <2> DEFINE out == Losers(b[g], x[g])
             v == [i \in Neuron(g) |-> IF i \in out THEN Reset ELSE x[g].v[i]]
             s == x[g].spikes \ out
  <2>1. x[g] \in CellOf(g) /\ DOMAIN x[g].v = Neuron(g) /\ x[g].spikes \in SUBSET Neuron(g)
    BY DEF Cells, CellOf, Numbers
  <2>2. Contrasted(b, x)[g] = IF g \notin Clamped THEN x[g] ELSE [x[g] EXCEPT !.spikes = s, !.v = v]
    <3>1. Contrasted(b, x)[g] = IF g \notin Clamped THEN x[g]
             ELSE [x[g] EXCEPT !.spikes = @ \ out, !.v = [i \in DOMAIN @ |-> IF i \in out THEN Reset ELSE @[i]]]
      BY DEF Contrasted, Losers
    <3> HIDE DEF out
    <3>2. [x[g] EXCEPT !.spikes = @ \ out, !.v = [i \in DOMAIN @ |-> IF i \in out THEN Reset ELSE @[i]]]
          = [x[g] EXCEPT !.spikes = s, !.v = v]
      BY <2>1 DEF CellOf
    <3> QED
      BY <3>1, <3>2
  <2>3. v \in Numbers(g)
    <3> HIDE DEF out
    <3> QED
      BY <2>1, NumberAssumption DEF CellOf, Numbers
  <2>4. s \in SUBSET Neuron(g)
    BY <2>1
  <2> HIDE DEF s, v
  <2>5. [x[g] EXCEPT !.spikes = s, !.v = v] \in CellOf(g)
    BY <2>1, <2>3, <2>4, SpikesPut
  <2> QED
    BY <2>1, <2>2, <2>5 DEF s, v, Clamp
<1>2. Contrasted(b, x) = [g \in Group |-> Contrasted(b, x)[g]]
  BY DEF Contrasted
<1> QED
  BY <1>1, <1>2 DEF Cells

\* Traces decay and grow by the spikes, and nothing else changes.
LEMMA TracedCells ==
  ASSUME NEW x, Cells(x)
  PROVE  /\ Cells(Traced(x))
         /\ \A g \in Group : Traced(x)[g] =
              [x[g] EXCEPT !.trace = [i \in Neuron(g) |-> Half(x[g].trace[i]) + (IF i \in x[g].spikes THEN 1 ELSE 0)]]
<1>1. ASSUME NEW g \in Group
      PROVE  /\ Traced(x)[g] =
                  [x[g] EXCEPT !.trace = [i \in Neuron(g) |-> Half(x[g].trace[i]) + (IF i \in x[g].spikes THEN 1 ELSE 0)]]
             /\ Traced(x)[g] \in CellOf(g)
  <2> DEFINE t == [i \in Neuron(g) |-> Half(x[g].trace[i]) + (IF i \in x[g].spikes THEN 1 ELSE 0)]
  <2>1. x[g] \in CellOf(g)
    BY DEF Cells
  <2>2. Traced(x)[g] = [x[g] EXCEPT !.trace = t]
    BY <2>1 DEF Traced, CellOf
  <2>3. t \in Numbers(g)
    <3>1. \A i \in Neuron(g) : Half(x[g].trace[i]) \in Int
      BY <2>1, HalfInt DEF CellOf, Numbers
    <3> QED
      BY <3>1 DEF Numbers
  <2> HIDE DEF t
  <2>4. [x[g] EXCEPT !.trace = t] \in CellOf(g)
    BY <2>1, <2>3, TracePut
  <2> QED
    BY <2>2, <2>4 DEF t
<1>2. Traced(x) = [g \in Group |-> Traced(x)[g]]
  BY DEF Traced
<1> QED
  BY <1>1, <1>2 DEF Cells

\* The synapses of a connection, and the integers they weigh.
LEMMA WeightsOf ==
  ASSUME net \in Nets, NEW w, Weighted(w), NEW c \in Conn
  PROVE  /\ DOMAIN w[c] \in SUBSET Synapses(c) /\ w[c] \in [DOMAIN w[c] -> Int]
         /\ \A s \in DOMAIN w[c] : s[1] \in Neuron(net.conns[c].src) /\ s[2] \in Neuron(net.conns[c].dst)
  BY DEF Weighted, Synapses

\* Limited weights are integers.
LEMMA LimitedInt == \A x \in Int : Limited(x) \in Int
  BY NumberAssumption DEF Limited

\* What a synapse learns is an integer.
LEMMA ChangeInt ==
  ASSUME net \in Nets, NEW w, Weighted(w), NEW x, Cells(x), NEW c \in Conn, NEW s \in DOMAIN w[c], NEW m \in Int
  PROVE  Change(x, c, s, m) \in Int
<1> DEFINE pre == x[net.conns[c].src]
           post == x[net.conns[c].dst]
<1>1. pre \in CellOf(net.conns[c].src) /\ post \in CellOf(net.conns[c].dst)
  BY Conns DEF Cells
<1>2. pre.trace[s[1]] \in Int /\ post.trace[s[2]] \in Int
  BY <1>1, WeightsOf DEF CellOf, Numbers
<1> HIDE DEF pre, post
<1>3. \A a, b \in Int : a * b \in Int /\ a - b \in Int
  OBVIOUS
<1>4. LrPot * pre.trace[s[1]] \in Int /\ LrDep * post.trace[s[2]] \in Int
  BY <1>2, <1>3, NumberAssumption
<1>5. (IF s[2] \in post.spikes THEN LrPot * pre.trace[s[1]] ELSE 0) \in Int
  BY <1>4
<1>6. (IF s[1] \in pre.prev THEN LrDep * post.trace[s[2]] ELSE 0) \in Int
  BY <1>4
<1>7. Change(x, c, s, m) = m * ((IF s[2] \in post.spikes THEN LrPot * pre.trace[s[1]] ELSE 0)
                                - (IF s[1] \in pre.prev THEN LrDep * post.trace[s[2]] ELSE 0))
  BY DEF Change, pre, post
<1> QED
  BY <1>3, <1>5, <1>6, <1>7

\* Learning on either engine leaves the synapses and changes what they weigh.
LEMMA LearntWeights ==
  ASSUME net \in Nets, NEW w, Weighted(w), NEW x, Cells(x), NEW m \in Int
  PROVE  Weighted(Learnt(x, w, m)) /\ Weighted(DeviceLearnt(x, w))
<1> DEFINE l == Learnt(x, w, m)
           d == DeviceLearnt(x, w)
<1>1. ASSUME NEW c \in Conn
      PROVE  /\ \E s \in SUBSET Synapses(c) : l[c] \in [s -> Int]
             /\ \E s \in SUBSET Synapses(c) : d[c] \in [s -> Int]
  <2>1. DOMAIN w[c] \in SUBSET Synapses(c) /\ w[c] \in [DOMAIN w[c] -> Int]
    BY WeightsOf
  <2>2. ASSUME NEW s \in DOMAIN w[c]
        PROVE  Limited(w[c][s] + Change(x, c, s, m)) \in Int /\ w[c][s] + Change(x, c, s, 1) \in Int
    <3>1. Change(x, c, s, m) \in Int /\ Change(x, c, s, 1) \in Int /\ w[c][s] \in Int
      BY <2>1, ChangeInt
    <3> QED
      BY <3>1, LimitedInt
  <2>3. [s \in DOMAIN w[c] |-> Limited(w[c][s] + Change(x, c, s, m))] \in [DOMAIN w[c] -> Int]
    BY <2>2
  <2>4. [s \in DOMAIN w[c] |-> w[c][s] + Change(x, c, s, 1)] \in [DOMAIN w[c] -> Int]
    BY <2>2
  <2>5. l[c] \in [DOMAIN w[c] -> Int]
    BY <2>1, <2>3 DEF Learnt
  <2>6. d[c] \in [DOMAIN w[c] -> Int]
    BY <2>1, <2>4 DEF DeviceLearnt
  <2> QED
    BY <2>1, <2>5, <2>6
<1>2. l = [c \in Conn |-> l[c]] /\ d = [c \in Conn |-> d[c]]
  BY DEF Learnt, DeviceLearnt
<1> QED
  BY <1>1, <1>2 DEF Weighted

\* Pruning leaves a part of the synapses.
LEMMA PrunedWeights == ASSUME Types PROVE Weighted([c \in Conn |-> Pruned(c)])
<1>1. ASSUME NEW c \in Conn PROVE \E s \in SUBSET Synapses(c) : Pruned(c) \in [s -> Int]
  <2>1. DOMAIN weights[c] \in SUBSET Synapses(c) /\ weights[c] \in [DOMAIN weights[c] -> Int]
    BY WeightsOf DEF Types
  <2> DEFINE strong == {s \in DOMAIN weights[c] : weights[c][s] >= Cutoff \/ -weights[c][s] >= Cutoff}
  <2>2. strong \in SUBSET DOMAIN weights[c]
    OBVIOUS
  <2>3. Pruned(c) = IF net.conns[c].kind = "sparse" THEN [s \in strong |-> weights[c][s]]
                    ELSE [s \in DOMAIN weights[c] |-> IF s \in strong THEN weights[c][s] ELSE 0]
    BY DEF Pruned
  <2> HIDE DEF strong
  <2>4. [s \in strong |-> weights[c][s]] \in [strong -> Int]
    BY <2>1, <2>2
  <2>5. [s \in DOMAIN weights[c] |-> IF s \in strong THEN weights[c][s] ELSE 0] \in [DOMAIN weights[c] -> Int]
    BY <2>1
  <2> QED
    BY <2>1, <2>2, <2>3, <2>4, <2>5
<1> QED
  BY <1>1 DEF Weighted

\* The summed injections of a CUDA tick change what neurons are held at.
LEMMA SummedCells == ASSUME Types, NEW x, Cells(x) PROVE Cells(Summed(x))
<1> DEFINE t0 == run.tick * run.dt
           due(g, i) == {q \in 1..run.n : /\ queue[q].g = g /\ queue[q].t >= t0 /\ queue[q].t < t0 + run.dt
                                          /\ i >= queue[q].lo /\ i < queue[q].hi}
           f == [q \in DOMAIN queue |-> queue[q].cur]
           n == Len(queue)
<1>1. n \in Nat /\ DOMAIN queue = 1 .. n /\ run.n \in Nat /\ run.n <= n
  BY LenProperties DEF Types, Runs
<1>2. ASSUME NEW q \in DOMAIN queue PROVE f[q] \in Int
  <2>1. queue[q] \in Emits
    BY Element DEF Types
  <2> QED
    BY <2>1 DEF Emits
<1>3. ASSUME NEW g, NEW i PROVE Sum(f, due(g, i)) \in Int
  <2> DEFINE S == due(g, i)
  <2>1. S \in SUBSET (1 .. n)
    BY <1>1
  <2> HIDE DEF S, n, f
  <2>2. IsFiniteSet(S)
    <3>1. IsFiniteSet(1 .. n)
      BY <1>1, FS_Interval
    <3> QED
      BY <2>1, <3>1, FS_Subset
  <2>3. Sum(f, S) \in Int
    BY <1>1, <1>2, <2>1, <2>2, SumAdd
  <2> QED
    BY <2>3 DEF S
<1>4. Summed(x) = [g \in Group |-> [x[g] EXCEPT !.hold = [i \in Neuron(g) |-> IF due(g, i) = {} THEN @[i] ELSE Sum(f, due(g, i))]]]
  BY DEF Summed
<1> HIDE DEF f, due
<1>5. ASSUME NEW g \in Group PROVE Summed(x)[g] \in CellOf(g)
  <2>1. x[g] \in CellOf(g)
    BY DEF Cells
  <2> DEFINE h == [i \in Neuron(g) |-> IF due(g, i) = {} THEN x[g].hold[i] ELSE Sum(f, due(g, i))]
  <2>2. h \in Numbers(g)
    BY <1>3, <2>1 DEF CellOf, Numbers
  <2>3. Summed(x)[g] = [x[g] EXCEPT !.hold = h]
    BY <1>4, <2>1 DEF CellOf
  <2> HIDE DEF h
  <2> QED
    BY <2>1, <2>2, <2>3, HoldPut
<1>6. Summed(x) = [g \in Group |-> Summed(x)[g]]
  BY <1>4
<1> QED
  BY <1>5, <1>6 DEF Cells

\* The spikes of a group, listed in the order of their indexes.
LEMMA SpikesListed ==
  ASSUME NEW x, Cells(x), NEW g \in Group
  PROVE  Spikes(x[g]) \in Seq(Nat)
<1> DEFINE S == x[g].spikes
           R == {p \in S \X S : p[1] < p[2]}
<1>1. S \in SUBSET Nat /\ IsFiniteSet(S)
  BY Groups, FS_Subset DEF Cells, CellOf
<1> HIDE DEF S
<1>2. Strict(R, S)
  BY <1>1 DEF Strict
<1>3. Cardinality(S) \in Nat /\ Ordered(S, R) \in [1 .. Cardinality(S) -> S]
  BY <1>1, <1>2, OrderedLists
<1>4. Ordered(S, R) \in Seq(S)
  BY <1>3, MadeSeq
<1> HIDE DEF R
<1>5. Ordered(S, R) \in Seq(Nat)
  BY <1>1, <1>4, Widened, Element
<1> QED
  BY <1>5 DEF Spikes, S, R

\* The injections of a tick: the loop over the queue.
CellSet == {y \in [Group -> UNION {CellOf(g) : g \in Group}] : Cells(y)}

\* CellSet is the set of all arrays of cells.
LEMMA CellSetIs == \A y : y \in CellSet <=> Cells(y)
<1>1. ASSUME NEW y, Cells(y) PROVE y \in CellSet
  <2>1. y = [g \in Group |-> y[g]] /\ \A g \in Group : y[g] \in CellOf(g)
    BY <1>1 DEF Cells
  <2>2. \A g \in Group : y[g] \in UNION {CellOf(h) : h \in Group}
    BY <2>1, Zenon
  <2>3. y \in [Group -> UNION {CellOf(h) : h \in Group}]
    BY <2>1, <2>2
  <2> QED
    BY <1>1, <2>3 DEF CellSet
<1> QED
  BY <1>1 DEF CellSet

Late == {k \in run.cursor..run.n : queue[k].t >= clock + run.dt}
Onward == IF Late = {} THEN run.n + 1 ELSE Min(Late)
Applying == [p \in CellSet \X Int |-> Applied(p[1], queue[run.cursor + p[2] - 1])]

\* The cursor moves up to the first entry whose time has not come by the end of the tick.
LEMMA OnwardIs ==
  ASSUME Types
  PROVE  /\ Onward \in run.cursor .. run.n + 1 /\ Onward - run.cursor \in Nat
         /\ \A k \in run.cursor .. run.n : queue[k].t \in Int
         /\ \A k \in run.cursor .. Onward - 1 : queue[k].t < clock + run.dt
         /\ Onward <= run.n => queue[Onward].t >= clock + run.dt
         /\ \A r \in 1 .. Onward - run.cursor : run.cursor + r - 1 \in run.cursor .. run.n
                                                /\ queue[run.cursor + r - 1] \in Emits
<1>1. /\ run.cursor \in Nat \ {0} /\ run.n \in Nat /\ run.cursor <= run.n + 1 /\ run.dt \in Nat /\ clock \in Nat
      /\ run.n <= Len(queue) /\ Len(queue) \in Nat /\ DOMAIN queue = 1 .. Len(queue)
  BY LenProperties DEF Types, Runs
<1>2. ASSUME NEW k \in run.cursor .. run.n PROVE queue[k] \in Emits /\ queue[k].t \in Int
  <2>1. k \in DOMAIN queue
    BY <1>1
  <2>2. queue[k] \in Emits
    BY <2>1, Element DEF Types
  <2> QED
    BY <2>2 DEF Emits
<1> DEFINE o == Onward
           c == run.cursor
           n == run.n
           e == clock + run.dt
<1>3. Late \in SUBSET Nat /\ \A k : k \in Late <=> k \in c .. n /\ queue[k].t >= e
  BY <1>1 DEF Late
<1>4. \/ Late = {} /\ o = n + 1
      \/ Late # {} /\ o \in Late /\ \A k \in Late : o <= k
  BY <1>3, LeastNumber DEF Onward
<1>5. e \in Int /\ c \in Nat \ {0} /\ n \in Nat /\ c <= n + 1
  BY <1>1
<1> HIDE DEF o, c, n, e
<1>6. o \in c .. n + 1 /\ o - c \in Nat
  BY <1>3, <1>4, <1>5
<1>7. \A k \in c .. o - 1 : queue[k].t < e
  <2> SUFFICES ASSUME NEW k \in c .. o - 1 PROVE queue[k].t < e
    OBVIOUS
  <2>1. k \in c .. n /\ k < o
    BY <1>5, <1>6
  <2>2. k \notin Late
    BY <1>4, <1>5, <1>6, <2>1
  <2>3. queue[k].t \in Int
    BY <1>2, <2>1 DEF c, n
  <2> QED
    BY <1>3, <1>5, <2>1, <2>2, <2>3
<1>8. o <= n => queue[o].t >= e
  BY <1>3, <1>4, <1>5
<1>9. \A r \in 1 .. o - c : c + r - 1 \in c .. n
  BY <1>5, <1>6
<1> QED
  BY <1>2, <1>6, <1>7, <1>8, <1>9 DEF o, c, n, e

\* The injections phase is the loop that applies one entry after the other.
LEMMA InjectionsPass ==
  ASSUME Types, Injections
  PROVE  \E f : /\ Passes(f, CellSet, Onward - run.cursor, cell, Applying)
                /\ cell' = f[Onward - run.cursor]
<1> DEFINE n == Onward - run.cursor
           q(r) == queue[run.cursor + r - 1]
<1>1. n \in Nat /\ \A r \in 1 .. n : q(r) \in Emits
  BY OnwardIs
<1>2. cell \in CellSet
  BY CellSetIs DEF Types
<1>3. \A y \in CellSet, r \in 1 .. n : Applying[<<y, r>>] = Applied(y, q(r)) /\ Applying[<<y, r>>] \in CellSet
  <2> SUFFICES ASSUME NEW y \in CellSet, NEW r \in 1 .. n
               PROVE  Applying[<<y, r>>] = Applied(y, q(r)) /\ Applying[<<y, r>>] \in CellSet
    OBVIOUS
  <2>1. Applying[<<y, r>>] = Applied(y, q(r))
    BY <1>1 DEF Applying
  <2>2. q(r) \in Emits /\ Cells(y) /\ clock \in Nat
    BY <1>1, CellSetIs DEF Types
  <2> HIDE DEF q
  <2>3. Cells(Applied(y, q(r)))
    BY <2>2, AppliedCells
  <2> QED
    BY <2>1, <2>3, CellSetIs
<1> HIDE DEF n, q
<1>4. StaysIn(CellSet, Applying, n)
  BY <1>3 DEF StaysIn
<1>5. PICK f : Passes(f, CellSet, n, cell, Applying)
  BY <1>1, <1>2, <1>4, LoopExists
<1>6. f = [r \in 0 .. n |-> IF r = 0 THEN cell ELSE Applied(f[r - 1], q(r))]
  <2>1. ASSUME NEW r \in 1 .. n PROVE f[r] = Applied(f[r - 1], q(r))
    <3>1. r - 1 \in 0 .. n
      BY <1>1
    <3>2. f[r - 1] \in CellSet /\ f[r] = Applying[<<f[r - 1], r>>]
      BY <1>5, <3>1 DEF Passes
    <3> QED
      BY <1>3, <3>2
  <2>2. f \in [0 .. n -> CellSet] /\ f[0] = cell
    BY <1>5 DEF Passes
  <2>3. \A r \in 0 .. n : r = 0 \/ r \in 1 .. n
    BY <1>1
  <2> QED
    BY <2>1, <2>2, <2>3
<1> DEFINE Loop(h) == h = [r \in 0 .. n |-> IF r = 0 THEN cell ELSE Applied(h[r - 1], q(r))]
<1>7. ASSUME NEW h, Loop(h) PROVE h = f
  <2> DEFINE I == {m \in 0 .. n : h[m] = f[m]}
  <2>1. 0 \in I
    BY <1>1, <1>6, <1>7
  <2>2. ASSUME NEW m \in 1 .. n, m - 1 \in I PROVE m \in I
    <3>1. m \in 0 .. n /\ m # 0
      BY <1>1
    <3> QED
      BY <1>6, <1>7, <2>2, <3>1
  <2>3. \A m \in 0 .. n : m \in I
    <3> HIDE DEF I
    <3> QED
      BY <1>1, <2>1, <2>2, Induction
  <2>4. h = [m \in 0 .. n |-> h[m]] /\ f = [m \in 0 .. n |-> f[m]]
    BY <1>6, <1>7
  <2> QED
    BY <2>3, <2>4
<1>8. (CHOOSE h : Loop(h)) = f
  BY <1>6, <1>7
<1>9. cell' = (CHOOSE h : Loop(h))[n]
  BY DEF Injections, n, q, Onward, Late
<1> QED
  BY <1>5, <1>8, <1>9 DEF n

-----------------------------------------------------------------------------
(* Every step keeps the types.                                              *)

\* A silent cell is a cell.
LEMMA SilentCell == \A g \in Group : Silent(g) \in CellOf(g)
  BY NumberAssumption DEF Silent, CellOf, Numbers

\* Initially the types hold.
LEMMA InitTypes == Init => Types
<1> SUFFICES ASSUME Init PROVE Types
  OBVIOUS
<1>1. Cells([g \in Group |-> Silent(g)])
  BY SilentCell DEF Cells
<1>2. net \in Nets /\ Weighted(net.weights)
  BY Conns DEF Init
<1>3. NoRun \in Runs
  BY Groups DEF NoRun, Runs, Phases
<1> QED
  BY <1>1, <1>2, <1>3 DEF Init, Types, NoRun

\* What Types says of the run after a step.
LEMMA RunStep ==
  ASSUME Types,
         run' \in Runs, run'.n <= Len(queue'), run'.cursor <= run'.n + 1, net' = net,
         queue' \in Seq(Emits), clock' \in Nat, signal' \in Int,
         Cells(cell'), Weighted(weights'),
         device' = [cell |-> device'.cell, weights |-> device'.weights],
         Cells(device'.cell), Weighted(device'.weights)
  PROVE  Types'
<1>1. Cells(cell)' /\ Cells(device.cell)'
  BY DEF Cells, CellOf, Numbers
<1>2. Weighted(weights)' /\ Weighted(device.weights)'
  BY DEF Weighted, Synapses, Conn
<1> QED
  BY <1>1, <1>2 DEF Types, Runs

\* One more injection makes the queue longer by one.
LEMMA Emitted ==
  ASSUME Types, NEW inj \in Injects
  PROVE  Append(queue, inj) \in Seq(Emits) /\ Len(Append(queue, inj)) = Len(queue) + 1
<1>1. inj \in Emits
  BY InjectAssumption DEF Emits, Group
<1> QED
  BY <1>1, AppendProperties DEF Types

\* The queue sorted, and moved to the time of the run.
LEMMA SoonerStrict ==
  ASSUME NEW q \in Seq(Emits) PROVE Strict(Sooner(q), DOMAIN q) /\ IsFiniteSet(DOMAIN q) /\ DOMAIN q = 1 .. Len(q)
                                    /\ Len(q) \in Nat /\ Cardinality(DOMAIN q) = Len(q)
<1>1. Len(q) \in Nat /\ DOMAIN q = 1 .. Len(q)
  BY LenProperties
<1>2. IsFiniteSet(1 .. Len(q)) /\ Cardinality(1 .. Len(q)) = Len(q)
  BY <1>1, FS_Interval
<1>3. \A k \in DOMAIN q : q[k].t \in Int /\ k \in Int
  <2> SUFFICES ASSUME NEW k \in DOMAIN q PROVE q[k].t \in Int /\ k \in Int
    OBVIOUS
  <2>1. q[k] \in Emits
    BY Element
  <2> QED
    BY <1>1, <2>1 DEF Emits
<1> DEFINE D == DOMAIN q
           R == Sooner(q)
<1>4. \A j, k \in D : <<j, k>> \in R <=> q[j].t < q[k].t \/ (q[j].t = q[k].t /\ j < k)
  BY DEF Sooner
<1> HIDE DEF D, R
<1>5. \A k \in D : q[k].t \in Int /\ k \in Int
  BY <1>3 DEF D
<1>6. Strict(R, D)
  <2>1. \A a \in D : <<a, a>> \notin R
    BY <1>4, <1>5
  <2>2. \A a, b \in D : a # b => <<a, b>> \in R \/ <<b, a>> \in R
    BY <1>4, <1>5
  <2>3. \A a, b, c \in D : <<a, b>> \in R /\ <<b, c>> \in R => <<a, c>> \in R
    <3> SUFFICES ASSUME NEW a \in D, NEW b \in D, NEW c \in D, <<a, b>> \in R, <<b, c>> \in R PROVE <<a, c>> \in R
      OBVIOUS
    <3>1. q[a].t \in Int /\ q[b].t \in Int /\ q[c].t \in Int /\ a \in Int /\ b \in Int /\ c \in Int
      BY <1>5
    <3>2. /\ q[a].t < q[b].t \/ (q[a].t = q[b].t /\ a < b)
          /\ q[b].t < q[c].t \/ (q[b].t = q[c].t /\ b < c)
      BY <1>4
    <3>3. q[a].t < q[c].t \/ (q[a].t = q[c].t /\ a < c)
      BY <3>1, <3>2
    <3> QED
      BY <1>4, <3>3
  <2> QED
    BY <2>1, <2>2, <2>3 DEF Strict
<1> QED
  BY <1>1, <1>2, <1>6 DEF D, R

\* Sorting the queue and moving its times keeps its length.
LEMMA ShiftedQueue ==
  ASSUME NEW q \in Seq(Emits), clock \in Nat
  PROVE  Shifted(Sorted(q)) \in Seq(Emits) /\ Len(Shifted(Sorted(q))) = Len(q)
<1> DEFINE o == Ordered(DOMAIN q, Sooner(q))
           s == Sorted(q)
           n == Len(q)
<1>1. o \in [1 .. n -> 1 .. n] /\ n \in Nat /\ DOMAIN q = 1 .. n
  BY SoonerStrict, OrderedLists
<1>2. s \in Seq(Emits) /\ Len(s) = n /\ DOMAIN s = 1 .. n
  <2>1. s = [k \in 1 .. n |-> q[o[k]]]
    BY <1>1 DEF Sorted
  <2> HIDE DEF o, s
  <2>2. s \in [1 .. n -> Emits]
    BY <1>1, <2>1, Element
  <2> QED
    BY <1>1, <2>2, MadeSeq
<1> HIDE DEF s
<1> DEFINE f == Shifted(s)
<1>3. ASSUME NEW k \in 1 .. n PROVE f[k] \in Emits
  <2>1. s[k] \in Emits
    BY <1>2, Element
  <2>2. f[k] = [s[k] EXCEPT !.t = s[k].t + clock]
    BY <1>2 DEF Shifted
  <2> DEFINE e == s[k]
  <2>3. e \in Emits /\ e.t + clock \in Int
    BY <2>1 DEF Emits
  <2> HIDE DEF e, f
  <2>4. [e EXCEPT !.t = e.t + clock] \in Emits
    BY <2>3 DEF Emits
  <2> QED
    BY <2>2, <2>4 DEF e
<1>4. f = [k \in 1 .. n |-> f[k]]
  BY <1>2 DEF Shifted
<1> HIDE DEF f
<1>5. f \in Seq(Emits) /\ Len(f) = n
  BY <1>1, <1>3, <1>4, MadeSeq
<1> QED
  BY <1>5 DEF f, s

\* A step that changes nothing but the run, in its phase.
LEMMA Gone ==
  ASSUME Types, NEW p \in Phases, run' = [run EXCEPT !.phase = p]
  PROVE  run' \in Runs /\ run'.n = run.n /\ run'.cursor = run.cursor
  BY DEF Types, Runs

\* The types after an injection is scheduled.
LEMMA ScheduleInjectTypes == Types /\ ScheduleInject => Types'
<1> SUFFICES ASSUME Types, ScheduleInject PROVE Types'
  OBVIOUS
<1>1. PICK inj \in Injects : queue' = Append(queue, inj)
  BY DEF ScheduleInject
<1>2. queue' \in Seq(Emits) /\ Len(queue') = Len(queue) + 1 /\ Len(queue) \in Nat
  BY <1>1, Emitted, LenProperties DEF Types
<1>3. run' = run /\ net' = net /\ cell' = cell /\ weights' = weights /\ signal' = signal /\ clock' = clock /\ device' = device
  BY DEF ScheduleInject
<1>4. run \in Runs /\ run.n <= Len(queue) /\ run.cursor <= run.n + 1 /\ run.n \in Nat
  BY DEF Types, Runs
<1> QED
  BY <1>2, <1>3, <1>4, RunStep DEF Types

\* With currents and hold cleared, cells are cells.
LEMMA CleanCells == ASSUME NEW x, Cells(x) PROVE Cells(Clean(x))
<1>1. ASSUME NEW g \in Group PROVE Clean(x)[g] \in CellOf(g)
  <2>1. x[g] \in CellOf(g) /\ Silent(g).syn \in Numbers(g) /\ Silent(g).hold \in Numbers(g)
    BY DEF Cells, Silent, Numbers
  <2>2. Clean(x)[g] = [x[g] EXCEPT !.syn = Silent(g).syn, !.hold = Silent(g).hold]
    BY DEF Clean
  <2> QED
    BY <2>1, <2>2 DEF CellOf
<1> QED
  BY <1>1 DEF Clean, Cells

\* The locals of no run.
LEMMA NoRunIs == NoRun \in Runs /\ NoRun.n = 0 /\ NoRun.cursor = 1
  BY Groups DEF NoRun, Runs, Phases

\* The types after a run starts.
LEMMA RunTypes ==
  ASSUME Types, NEW d \in Durations, NEW dt \in Dts, NEW on, Run(d, dt, on)
  PROVE  Types'
<1>1. dt \in Nat \ {0} /\ d \in Int
  BY DtAssumption, InjectAssumption
<1>2. Ticks(d, dt) \in Int
  <2> DEFINE a == 2 * d + dt
             b == 2 * dt
  <2>1. a \in Int /\ b \in Nat \ {0}
    BY <1>1
  <2>2. a \div b \in Int
    <3> HIDE DEF a, b
    <3> QED
      BY <2>1
  <2> QED
    BY <2>2 DEF Ticks
<1>3. Len(queue) \in Nat /\ queue' = Shifted(Sorted(queue)) /\ cell' = Clean(cell)
      /\ UNCHANGED <<net, weights, signal, clock, device>>
  BY LenProperties DEF Run, Types
<1>4. queue' \in Seq(Emits) /\ Len(queue') = Len(queue)
  BY <1>3, ShiftedQueue DEF Types
<1>5. Cells(cell')
  BY <1>3, CleanCells DEF Types
<1>6. run' \in Runs /\ run'.n = Len(queue) /\ run'.cursor = 1
  <2>1. run' = [NoRun EXCEPT !.phase = IF on = "gpu" /\ ~HasV2Features THEN "upload" ELSE "currents",
                             !.ticks = Ticks(d, dt), !.dt = dt, !.n = Len(queue)]
    BY DEF Run
  <2> DEFINE p == IF on = "gpu" /\ ~HasV2Features THEN "upload" ELSE "currents"
             t == Ticks(d, dt)
             n == Len(queue)
  <2>2. p \in Phases /\ t \in Int /\ n \in Nat
    BY <1>2, <1>3 DEF Phases
  <2> HIDE DEF p, t, n
  <2>3. run' = [NoRun EXCEPT !.phase = p, !.ticks = t, !.dt = dt, !.n = n]
    BY <2>1 DEF p, t, n
  <2>4. run' \in Runs /\ run'.n = n /\ run'.cursor = 1
    BY <1>1, <2>2, <2>3, NoRunIs DEF Runs
  <2> QED
    BY <2>4 DEF n
<1> QED
  BY <1>3, <1>4, <1>5, <1>6, RunStep DEF Types

\* The synapses active in a tick of the CPU are synapses.
LEMMA ActiveSpikes == ASSUME NEW x PROVE Spiking(weights, Active(x))
  BY DEF Spiking, Active

\* The types after the currents phase.
LEMMA CurrentsTypes == Types /\ Currents => Types'
<1> SUFFICES ASSUME Types, Currents PROVE Types'
  OBVIOUS
<1>1. cell' = Propagated(Decayed(cell), weights, Active(cell))
      /\ run' = [run EXCEPT !.phase = "injections"] /\ UNCHANGED <<net, weights, signal, clock, queue, device>>
  BY DEF Currents, Goto, tickVars
<1>2. Cells(cell')
  <2>1. Cells(Decayed(cell))
    BY DecayedCells DEF Types
  <2> QED
    BY <1>1, <2>1, ActiveSpikes, PropagatedCells DEF Types
<1>3. run' \in Runs /\ run'.n = run.n /\ run'.cursor = run.cursor
  BY <1>1, Gone DEF Phases
<1> QED
  BY <1>1, <1>2, <1>3, RunStep DEF Types

\* The types after the injections phase.
LEMMA InjectionsTypes == Types /\ Injections => Types'
<1> SUFFICES ASSUME Types, Injections PROVE Types'
  OBVIOUS
<1>1. run' = [run EXCEPT !.phase = "inputs", !.cursor = Onward] /\ UNCHANGED <<net, weights, signal, clock, queue, device>>
  BY DEF Injections, tickVars, Onward, Late
<1>2. Onward \in run.cursor .. run.n + 1 /\ Onward - run.cursor \in Nat
  BY OnwardIs
<1>3. Cells(cell')
  <2>1. PICK f : Passes(f, CellSet, Onward - run.cursor, cell, Applying) /\ cell' = f[Onward - run.cursor]
    BY InjectionsPass
  <2>2. cell' \in CellSet
    BY <1>2, <2>1 DEF Passes
  <2> QED
    BY <2>2, CellSetIs
<1>4. run' \in Runs /\ run'.n = run.n /\ run'.cursor = Onward
  <2> DEFINE o == Onward
  <2>1. o \in Nat \ {0} /\ run' = [run EXCEPT !.phase = "inputs", !.cursor = o] /\ run \in Runs
    BY <1>1, <1>2 DEF Types, Runs
  <2> HIDE DEF o
  <2>2. run' \in Runs /\ run'.n = run.n /\ run'.cursor = o
    BY <2>1 DEF Runs, Phases
  <2> QED
    BY <2>2 DEF o
<1>5. run.n \in Nat /\ run.cursor \in Nat
  BY DEF Types, Runs
<1> QED
  BY <1>1, <1>2, <1>3, <1>4, <1>5, RunStep DEF Types

\* The types after the inputs phase.
LEMMA InputsTypes == Types /\ Inputs => Types'
<1> SUFFICES ASSUME Types, Inputs PROVE Types'
  OBVIOUS
<1>1. run' = [run EXCEPT !.phase = "fire"] /\ UNCHANGED <<net, weights, signal, clock, queue, device>>
  BY DEF Inputs, Goto, tickVars
<1>2. PICK hit \in SUBSET net.streams :
        LET input == [g \in Group |-> [i \in Neuron(g) |-> Wave(g) + (IF <<g, i>> \in hit THEN Kick ELSE 0)]]
        IN  cell' = [g \in Group |-> [cell[g] EXCEPT !.syn = [i \in DOMAIN @ |-> @[i] + input[g][i]]]]
  BY DEF Inputs
<1> DEFINE in(g) == [i \in Neuron(g) |-> Wave(g) + (IF <<g, i>> \in hit THEN Kick ELSE 0)]
<1>3. ASSUME NEW g \in Group PROVE cell'[g] \in CellOf(g)
  <2>1. cell[g] \in CellOf(g) /\ DOMAIN cell[g].syn = Neuron(g)
    BY DEF Types, Cells, CellOf, Numbers
  <2>2. in(g) \in Numbers(g)
    <3>1. Wave(g) \in Int /\ Kick \in Int
      BY WaveInt, NumberAssumption DEF Types
    <3> QED
      BY <3>1 DEF Numbers
  <2>3. cell'[g] = [cell[g] EXCEPT !.syn = [i \in Neuron(g) |-> cell[g].syn[i] + in(g)[i]]]
    BY <1>2, <2>1 DEF CellOf
  <2> HIDE DEF in
  <2>4. [i \in Neuron(g) |-> cell[g].syn[i] + in(g)[i]] \in Numbers(g)
    BY <2>1, <2>2 DEF CellOf, Numbers
  <2> DEFINE s == [i \in Neuron(g) |-> cell[g].syn[i] + in(g)[i]]
  <2> HIDE DEF s
  <2>5. [cell[g] EXCEPT !.syn = s] \in CellOf(g)
    BY <2>1, <2>4, SynPut DEF s
  <2> QED
    BY <2>3, <2>5 DEF s
<1>4. Cells(cell')
  BY <1>2, <1>3 DEF Cells
<1>5. run' \in Runs /\ run'.n = run.n /\ run'.cursor = run.cursor
  BY <1>1, Gone DEF Phases
<1> QED
  BY <1>1, <1>4, <1>5, RunStep DEF Types

\* The types after the fire phase.
LEMMA FireTypes == Types /\ Fire => Types'
<1> SUFFICES ASSUME Types, Fire PROVE Types'
  OBVIOUS
<1>1. run' = [run EXCEPT !.phase = "learn"] /\ cell' = Contrasted(cell, Fired(cell))
      /\ UNCHANGED <<net, weights, signal, clock, queue, device>>
  BY DEF Fire, Goto, tickVars
<1>2. Cells(cell')
  BY <1>1, FiredCells, ContrastedCells DEF Types
<1>3. run' \in Runs /\ run'.n = run.n /\ run'.cursor = run.cursor
  BY <1>1, Gone DEF Phases
<1> QED
  BY <1>1, <1>2, <1>3, RunStep DEF Types

\* The types after the learn phase.
LEMMA LearnTypes == Types /\ Learn => Types'
<1> SUFFICES ASSUME Types, Learn PROVE Types'
  OBVIOUS
<1>1. run' = [run EXCEPT !.phase = "trace"] /\ weights' = Learnt(cell, weights, Modulation)
      /\ UNCHANGED <<net, cell, signal, clock, queue, device>>
  BY DEF Learn, Goto, tickVars
<1>2. Modulation \in Int
  BY DEF Modulation, Types
<1>3. Weighted(weights')
  BY <1>1, <1>2, LearntWeights DEF Types
<1>4. run' \in Runs /\ run'.n = run.n /\ run'.cursor = run.cursor
  BY <1>1, Gone DEF Phases
<1> QED
  BY <1>1, <1>3, <1>4, RunStep DEF Types

\* The types after the trace phase.
LEMMA TraceTypes == Types /\ Trace => Types'
<1> SUFFICES ASSUME Types, Trace PROVE Types'
  OBVIOUS
<1>1. run' = [run EXCEPT !.phase = "report"] /\ cell' = Traced(cell)
      /\ UNCHANGED <<net, weights, signal, clock, queue, device>>
  BY DEF Trace, Goto, tickVars
<1>2. Cells(cell')
  BY <1>1, TracedCells DEF Types
<1>3. run' \in Runs /\ run'.n = run.n /\ run'.cursor = run.cursor
  BY <1>1, Gone DEF Phases
<1> QED
  BY <1>1, <1>2, <1>3, RunStep DEF Types

\* The lists of spikes that are reported are lists of naturals.
LEMMA ListIs == ASSUME Types, NEW g \in Group PROVE Spikes(Source(g)) \in Seq(Nat) /\ Spikes(cell[g]) \in Seq(Nat)
                                                  /\ Spikes(device.cell[g]) \in Seq(Nat)
  BY SpikesListed DEF Types, Source

\* A run that goes on to another spike, handler or group.
LEMMA Moved ==
  ASSUME Types, NEW p \in Phases, NEW g \in 0 .. Len(Sizes), NEW h \in Nat, NEW l \in Seq(Nat),
         run' = [run EXCEPT !.phase = p, !.g = g, !.h = h, !.left = l]
  PROVE  run' \in Runs /\ run'.n = run.n /\ run'.cursor = run.cursor
  BY DEF Types, Runs

\* After a group that is not the last comes a group.
LEMMA GroupNumbers ==
  /\ 0 \in 0 .. Len(Sizes)
  /\ \A g \in 0 .. Len(Sizes) : g < Len(Sizes) => g + 1 \in 0 .. Len(Sizes) /\ g + 1 \in Group
  BY Groups

\* The locals of a run, and their types.
LEMMA RunIs ==
  ASSUME Types
  PROVE  /\ run = [run EXCEPT !.phase = run.phase, !.g = run.g, !.h = run.h, !.left = run.left]
         /\ run \in Runs /\ run.phase \in Phases /\ run.g \in 0 .. Len(Sizes) /\ run.h \in Nat /\ run.left \in Seq(Nat)
         /\ run.n <= Len(queue) /\ run.cursor <= run.n + 1
  BY DEF Types, Runs

\* The types after a report goes on to the next group.
LEMMA NextGroupTypes == Types /\ NextGroup => Types'
<1> SUFFICES ASSUME Types, NextGroup PROVE Types'
  OBVIOUS
<1> DEFINE l == Spikes(cell[run.g + 1])
<1>1. run.g + 1 \in 0 .. Len(Sizes) /\ run.g + 1 \in Group
  BY RunIs, GroupNumbers DEF NextGroup
<1>2. l \in Seq(Nat)
  BY <1>1, ListIs
<1>3. UNCHANGED <<net, cell, weights, signal, clock, queue, device>>
  BY DEF NextGroup, reportVars
<1>4. run' = [run EXCEPT !.phase = run.phase, !.g = run.g + 1, !.h = 0, !.left = l]
  BY RunIs DEF NextGroup, Runs
<1> HIDE DEF l
<1>5. run' \in Runs /\ run'.n = run.n /\ run'.cursor = run.cursor
  BY <1>1, <1>2, <1>4, RunIs, Moved
<1> QED
  BY <1>3, <1>5, RunStep DEF Types

\* The types after a report goes on to the next handler.
LEMMA NextHandlerTypes == Types /\ NextHandler => Types'
<1> SUFFICES ASSUME Types, NextHandler PROVE Types'
  OBVIOUS
<1> DEFINE l == Spikes(Source(run.g))
<1>1. run.g \in Group
  BY RunIs, Groups DEF NextHandler, Through
<1>2. l \in Seq(Nat)
  BY <1>1, ListIs
<1>3. UNCHANGED <<net, cell, weights, signal, clock, queue, device>>
  BY DEF NextHandler, reportVars
<1>4. run' = [run EXCEPT !.h = run.h + 1, !.left = l]
  BY DEF NextHandler
<1> HIDE DEF l
<1>5. run' = [run EXCEPT !.phase = run.phase, !.g = run.g, !.h = run.h + 1, !.left = l] /\ run.h + 1 \in Nat
  <2>1. run \in Runs /\ run.h + 1 \in Nat
    BY RunIs
  <2> QED
    BY <1>4, <2>1 DEF Runs
<1>6. run' \in Runs /\ run'.n = run.n /\ run'.cursor = run.cursor
  BY <1>2, <1>5, RunIs, Moved
<1> QED
  BY <1>3, <1>6, RunStep DEF Types

\* The locals of a run that has reported one more spike.
LEMMA ReportedRun ==
  ASSUME Types, run.left # <<>>, Reported
  PROVE  run' \in Runs /\ run'.n = run.n /\ run'.cursor = run.cursor
<1> DEFINE l == Tail(run.left)
<1>1. l \in Seq(Nat)
  BY RunIs, Tailed
<1>2. run' = [run EXCEPT !.phase = run.phase, !.g = run.g, !.h = run.h, !.left = l]
  BY RunIs DEF Reported, Runs
<1> HIDE DEF l
<1> QED
  BY <1>1, <1>2, RunIs, Moved

\* The types after a spike is logged.
LEMMA LogSpikeTypes == Types /\ LogSpike => Types'
<1> SUFFICES ASSUME Types, LogSpike PROVE Types'
  OBVIOUS
<1>1. UNCHANGED <<net, cell, weights, signal, clock, queue, device>> /\ run.left # <<>> /\ Reported
  BY DEF LogSpike, reportVars
<1>2. run' \in Runs /\ run'.n = run.n /\ run'.cursor = run.cursor
  BY <1>1, ReportedRun
<1> QED
  BY <1>1, <1>2, RunStep DEF Types

\* The types after a handler is called, whatever it does.
LEMMA CallHandlerTypes == Types /\ CallHandler => Types'
<1> SUFFICES ASSUME Types, CallHandler PROVE Types'
  OBVIOUS
<1>1. UNCHANGED <<net, cell, clock, device>> /\ run.left # <<>> /\ Reported
  BY DEF CallHandler, reportVars
<1>2. run' \in Runs /\ run'.n = run.n /\ run'.cursor = run.cursor
  BY <1>1, ReportedRun
<1>3. /\ \/ queue' = queue
         \/ \E inj \in Injects : queue' = Append(queue, inj)
      /\ signal' = signal \/ signal' \in Signals
      /\ weights' = weights \/ weights' = [c \in Conn |-> Pruned(c)]
  <2>1. Effect(net.handlers[run.g][run.h])
    BY DEF CallHandler
  <2> QED
    BY <2>1 DEF Effect
<1>4. queue' \in Seq(Emits) /\ Len(queue') \in Nat /\ run.n <= Len(queue')
  <2>1. Len(queue) \in Nat /\ run.n \in Nat /\ run.n <= Len(queue)
    BY LenProperties DEF Types, Runs
  <2>2. CASE queue' = queue
    BY <2>1, <2>2 DEF Types
  <2>3. CASE \E inj \in Injects : queue' = Append(queue, inj)
    BY <2>1, <2>3, Emitted
  <2> QED
    BY <1>3, <2>2, <2>3
<1>5. signal' \in Int
  BY <1>3, NumberAssumption DEF Types
<1>6. Weighted(weights')
  BY <1>3, PrunedWeights DEF Types
<1> QED
  BY <1>1, <1>2, <1>4, <1>5, <1>6, RunStep DEF Types

\* The locals of a run that goes on to its next tick.
LEMMA NextTick ==
  ASSUME NEW r \in Runs, NEW p \in Phases, NEW b, b = [r EXCEPT !.phase = p, !.tick = @ + 1, !.g = 0, !.h = 0]
  PROVE  b \in Runs /\ b.n = r.n /\ b.cursor = r.cursor
<1>1. 0 \in 0 .. Len(Sizes)
  BY Groups
<1>2. r.tick + 1 \in Nat
  BY DEF Runs
<1> QED
  BY <1>1, <1>2 DEF Runs

\* The types after a tick of the CPU ends.
LEMMA FinishTypes == Types /\ Finish => Types'
<1> SUFFICES ASSUME Types, Finish PROVE Types'
  OBVIOUS
<1>1. UNCHANGED <<net, weights, signal, device>> /\ clock' = clock + run.dt
  BY DEF Finish
<1>2. clock' \in Nat
  BY <1>1 DEF Types, Runs
<1>3. ASSUME NEW g \in Group PROVE cell'[g] \in CellOf(g)
  <2>1. cell[g] \in CellOf(g)
    BY DEF Types, Cells
  <2>2. cell'[g] = [cell[g] EXCEPT !.prev = cell[g].spikes]
    BY DEF Finish
  <2> QED
    BY <2>1, <2>2 DEF CellOf
<1>4. Cells(cell')
  BY <1>3 DEF Finish, Cells
<1>5. \/ run' = NoRun /\ queue' = <<>>
      \/ run' = [run EXCEPT !.phase = "currents", !.tick = @ + 1, !.g = 0, !.h = 0] /\ queue' = queue
  BY DEF Finish
<1>6. CASE run' = NoRun /\ queue' = <<>>
  <2> QED
    BY <1>1, <1>2, <1>4, <1>6, NoRunIs, RunStep DEF Types
<1>7. CASE run' = [run EXCEPT !.phase = "currents", !.tick = @ + 1, !.g = 0, !.h = 0] /\ queue' = queue
  <2>1. run' \in Runs /\ run'.n = run.n /\ run'.cursor = run.cursor
    <3>1. "currents" \in Phases
      BY DEF Phases
    <3> QED
      BY <1>7, <3>1, RunIs, NextTick
  <2> QED
    BY <1>1, <1>2, <1>4, <1>7, <2>1, RunStep DEF Types
<1> QED
  BY <1>5, <1>6, <1>7

\* What most steps of the CUDA path leave of the types.
LEMMA CudaStep ==
  ASSUME Types, run' \in Runs, run'.n = run.n \/ run'.n = Len(queue), 
         (run'.cursor = run.cursor /\ run'.n = run.n) \/ run'.cursor = 1,
         UNCHANGED hostVars, queue' = queue, Cells(cell'),
         device' = [cell |-> device'.cell, weights |-> device'.weights],
         Cells(device'.cell), Weighted(device'.weights)
  PROVE  Types'
<1>1. UNCHANGED <<net, weights, signal, clock>>
  BY DEF hostVars
<1>2. run.n \in Nat /\ run.n <= Len(queue) /\ Len(queue) \in Nat /\ run.cursor <= run.n + 1
  BY LenProperties DEF Types, Runs
<1>3. run'.n <= Len(queue') /\ run'.cursor <= run'.n + 1
  BY <1>2
<1> QED
  BY <1>1, <1>3, RunStep DEF Types

\* The types after CUDA refuses a network.
LEMMA RefuseTypes == Types /\ Refuse => Types'
<1> SUFFICES ASSUME Types, Refuse PROVE Types'
  OBVIOUS
<1>1. run' = [run EXCEPT !.phase = "fallback"] /\ UNCHANGED <<cell, device, queue>> /\ UNCHANGED hostVars
  BY DEF Refuse, Goto
<1>2. run' \in Runs /\ run'.n = run.n /\ run'.cursor = run.cursor
  BY <1>1, Gone DEF Phases
<1> QED
  BY <1>1, <1>2, CudaStep DEF Types

\* The types after the upload.
LEMMA UploadTypes == Types /\ Upload => Types'
<1> SUFFICES ASSUME Types, Upload PROVE Types'
  OBVIOUS
<1> DEFINE d == [g \in Group |-> [Silent(g) EXCEPT !.v = cell[g].v, !.prev = cell[g].prev]]
<1>1. run' = [run EXCEPT !.phase = "launch"] /\ UNCHANGED <<cell, queue>> /\ UNCHANGED hostVars
      /\ device' = [cell |-> d, weights |-> weights]
  BY DEF Upload, Goto
<1>2. run' \in Runs /\ run'.n = run.n /\ run'.cursor = run.cursor
  BY <1>1, Gone DEF Phases
<1>3. ASSUME NEW g \in Group PROVE d[g] \in CellOf(g)
  <2>1. cell[g] \in CellOf(g) /\ Silent(g) \in CellOf(g)
    BY SilentCell DEF Types, Cells
  <2> QED
    BY <2>1 DEF CellOf
<1>4. Cells(d)
  BY <1>3 DEF Cells
<1> HIDE DEF d
<1>5. device'.cell = d /\ device'.weights = weights /\ device' = [cell |-> device'.cell, weights |-> device'.weights]
  BY <1>1
<1> QED
  BY <1>1, <1>2, <1>4, <1>5, CudaStep DEF Types

\* The entries of a connection are its synapses, column after column.
LEMMA EntriesIn ==
  ASSUME Types, NEW c \in Conn, NEW k \in DOMAIN Entries(c)
  PROVE  Entries(c)[k] \in DOMAIN device.weights[c]
<1> DEFINE S == DOMAIN device.weights[c]
           before(s, t) == s[2] < t[2] \/ (s[2] = t[2] /\ s[1] < t[1])
           R == {p \in S \X S : before(p[1], p[2])}
<1>1. S \in SUBSET (Nat \X Nat) /\ IsFiniteSet(S)
  <2>1. DOMAIN device.weights[c] \in SUBSET Synapses(c)
    BY WeightsOf DEF Types
  <2>2. net.conns[c].src \in Group /\ net.conns[c].dst \in Group
    BY Conns DEF Types
  <2>3. IsFiniteSet(Synapses(c)) /\ Synapses(c) \in SUBSET (Nat \X Nat)
    BY <2>2, Groups, FS_Product DEF Synapses
  <2> QED
    BY <2>1, <2>3, FS_Subset
<1>2. Entries(c) = Ordered(S, R)
  BY DEF Entries
<1> HIDE DEF S
<1>3. \A s, t \in S : <<s, t>> \in R <=> before(s, t)
  OBVIOUS
<1> HIDE DEF R
<1>4. \A s \in S : s[1] \in Nat /\ s[2] \in Nat /\ s = <<s[1], s[2]>>
  BY <1>1
<1>5. Strict(R, S)
  BY <1>3, <1>4 DEF Strict
<1>6. Cardinality(S) \in Nat /\ Ordered(S, R) \in [1 .. Cardinality(S) -> S]
  BY <1>1, <1>5, OrderedLists
<1> QED
  BY <1>2, <1>6 DEF S

\* Whatever the kernel reads as columns, the synapses it finds active are synapses.
LEMMA KernelSpikes == ASSUME Types, NEW u PROVE Spiking(device.weights, [c \in Conn |-> ReadSpiking(c, u)])
<1>1. ASSUME NEW c \in Conn PROVE ReadSpiking(c, u) \in SUBSET DOMAIN device.weights[c]
  BY EntriesIn DEF ReadSpiking
<1> QED
  BY <1>1 DEF Spiking

\* The types after a launch of the kernels.
LEMMA LaunchTypes == Types /\ Launch => Types'
<1> SUFFICES ASSUME Types, Launch PROVE Types'
  OBVIOUS
<1>1. run' = [run EXCEPT !.phase = "fetch"] /\ UNCHANGED <<cell, queue>> /\ UNCHANGED hostVars
  BY DEF Launch, Goto
<1>2. run' \in Runs /\ run'.n = run.n /\ run'.cursor = run.cursor
  BY <1>1, Gone DEF Phases
<1>3. PICK unknown :
        LET active == [c \in Conn |-> ReadSpiking(c, unknown)]
            x == Fired(Summed(Propagated(Decayed(device.cell), device.weights, active)))
        IN  device' = [cell |-> Traced(x), weights |-> DeviceLearnt(x, device.weights)]
  BY DEF Launch
<1> DEFINE a == [c \in Conn |-> ReadSpiking(c, unknown)]
           p == Propagated(Decayed(device.cell), device.weights, a)
           x == Fired(Summed(p))
<1>4. Cells(p)
  <2>1. Cells(Decayed(device.cell)) /\ Weighted(device.weights) /\ net \in Nets
    BY DecayedCells DEF Types
  <2> QED
    BY <2>1, KernelSpikes, PropagatedCells
<1>5. device' = [cell |-> Traced(x), weights |-> DeviceLearnt(x, device.weights)]
  BY <1>3
<1> HIDE DEF p
<1>6. Cells(Summed(p))
  BY <1>4, SummedCells
<1>7. Cells(x)
  BY <1>6, FiredCells
<1> HIDE DEF x
<1>8. Cells(Traced(x)) /\ Weighted(DeviceLearnt(x, device.weights))
  BY <1>7, TracedCells, LearntWeights DEF Types
<1>9. device'.cell = Traced(x) /\ device'.weights = DeviceLearnt(x, device.weights)
      /\ device' = [cell |-> device'.cell, weights |-> device'.weights]
  BY <1>5
<1> QED
  BY <1>1, <1>2, <1>8, <1>9, CudaStep DEF Types

\* The types after the spikes of a group are fetched.
LEMMA FetchTypes == Types /\ Fetch => Types'
<1> SUFFICES ASSUME Types, Fetch PROVE Types'
  OBVIOUS
<1> DEFINE l == Spikes(device.cell[run.g + 1])
<1>1. run.g + 1 \in 0 .. Len(Sizes) /\ run.g + 1 \in Group
  BY RunIs, GroupNumbers DEF Fetch
<1>2. l \in Seq(Nat) /\ 0 \in Nat /\ "cuda_report" \in Phases
  BY <1>1, ListIs DEF Phases
<1>3. UNCHANGED <<cell, device, queue>> /\ UNCHANGED hostVars
  BY DEF Fetch
<1>4. run' = [run EXCEPT !.phase = "cuda_report", !.g = run.g + 1, !.h = 0, !.left = l]
  BY RunIs DEF Fetch, Runs
<1> HIDE DEF l
<1>5. run' \in Runs /\ run'.n = run.n /\ run'.cursor = run.cursor
  BY <1>1, <1>2, <1>4, RunIs, Moved
<1> QED
  BY <1>3, <1>5, CudaStep DEF Types

\* The types after a group's spikes are copied to the host.
LEMMA MirrorTypes == Types /\ Mirror => Types'
<1> SUFFICES ASSUME Types, Mirror PROVE Types'
  OBVIOUS
<1>1. run' = [run EXCEPT !.phase = "fetch"] /\ cell' = [cell EXCEPT ![run.g].prev = device.cell[run.g].spikes]
      /\ UNCHANGED <<device, queue>> /\ UNCHANGED hostVars
  BY DEF Mirror, Goto
<1>2. run' \in Runs /\ run'.n = run.n /\ run'.cursor = run.cursor
  BY <1>1, Gone DEF Phases
<1>3. ASSUME NEW g \in Group PROVE cell'[g] \in CellOf(g)
  <2>1. cell = [h \in Group |-> cell[h]] /\ cell[g] \in CellOf(g) /\ device.cell[g].spikes \in SUBSET Neuron(g)
    BY DEF Types, Cells, CellOf
  <2>2. cell'[g] = cell[g] \/ cell'[g] = [cell[g] EXCEPT !.prev = device.cell[g].spikes]
    BY <1>1, <2>1
  <2> QED
    BY <2>1, <2>2 DEF CellOf
<1>4. Cells(cell')
  BY <1>1, <1>3 DEF Cells, Types
<1> QED
  BY <1>1, <1>2, <1>4, CudaStep DEF Types

\* The types after a tick of CUDA ends.
LEMMA NextLaunchTypes == Types /\ NextLaunch => Types'
<1> SUFFICES ASSUME Types, NextLaunch PROVE Types'
  OBVIOUS
<1> DEFINE d == device.cell
           e == [g \in Group |-> [d[g] EXCEPT !.prev = d[g].spikes, !.spikes = d[g].prev]]
<1>1. UNCHANGED <<cell, queue>> /\ UNCHANGED hostVars /\ device' = [device EXCEPT !.cell = e]
  BY DEF NextLaunch
<1>2. ASSUME NEW g \in Group PROVE e[g] \in CellOf(g)
  <2>1. d[g] \in CellOf(g)
    BY DEF Types, Cells
  <2> QED
    BY <2>1 DEF CellOf
<1>3. Cells(e)
  BY <1>2 DEF Cells
<1> HIDE DEF e
<1>4. device'.cell = e /\ device'.weights = device.weights /\ device' = [cell |-> device'.cell, weights |-> device'.weights]
  BY <1>1 DEF Types
<1>5. \/ run' = [run EXCEPT !.phase = "download"]
      \/ run' = [run EXCEPT !.phase = "launch", !.tick = @ + 1, !.g = 0, !.h = 0]
  BY DEF NextLaunch
<1>6. "download" \in Phases /\ "launch" \in Phases
  BY DEF Phases
<1>7. run' \in Runs /\ run'.n = run.n /\ run'.cursor = run.cursor
  <2>1. CASE run' = [run EXCEPT !.phase = "download"]
    BY <1>6, <2>1, Gone
  <2>2. CASE run' = [run EXCEPT !.phase = "launch", !.tick = @ + 1, !.g = 0, !.h = 0]
    BY <1>6, <2>2, RunIs, NextTick
  <2> QED
    BY <1>5, <2>1, <2>2
<1> QED
  BY <1>1, <1>3, <1>4, <1>7, CudaStep DEF Types

\* However many groups have been downloaded, cells are cells.
LEMMA DownloadedCells == ASSUME Types, NEW m, NEW n PROVE Cells(Downloaded(m, n))
<1> DEFINE d == Downloaded(m, n)
<1>1. ASSUME NEW g \in Group PROVE d[g] \in CellOf(g)
  <2>1. cell[g] \in CellOf(g) /\ device.cell[g] \in CellOf(g)
    BY DEF Types, Cells
  <2>2. \E v \in {cell[g].v, device.cell[g].v}, t \in {cell[g].trace, device.cell[g].trace} :
          d[g] = [cell[g] EXCEPT !.v = v, !.trace = t]
    BY DEF Downloaded
  <2>3. PICK v \in {cell[g].v, device.cell[g].v}, t \in {cell[g].trace, device.cell[g].trace} :
          d[g] = [cell[g] EXCEPT !.v = v, !.trace = t]
    BY <2>2
  <2> QED
    BY <2>1, <2>3 DEF CellOf
<1> QED
  BY <1>1 DEF Downloaded, Cells

\* However many connections have been synced, weights are weights.
LEMMA SyncedWeights == ASSUME Types, NEW n PROVE Weighted(Synced(n))
  BY DEF Types, Weighted, Synced

\* The types after the download.
LEMMA DownloadTypes == Types /\ Download => Types'
<1> SUFFICES ASSUME Types, Download PROVE Types'
  OBVIOUS
<1>1. /\ cell' = Downloaded(Len(Sizes), Len(Sizes)) /\ queue' = <<>> /\ run' = NoRun
      /\ UNCHANGED <<net, signal, clock, device>>
      /\ weights' = Synced(Len(net.conns))
  BY DEF Download
<1>2. Weighted(weights')
  <2>1. Weighted(Synced(Len(net.conns)))
    BY SyncedWeights
  <2> QED
    BY <1>1, <2>1 DEF Weighted
<1>3. Cells(cell') /\ queue' \in Seq(Emits) /\ run'.n <= Len(queue') /\ run'.cursor <= run'.n + 1
  BY <1>1, DownloadedCells, NoRunIs
<1> QED
  BY <1>1, <1>2, <1>3, NoRunIs, RunStep DEF Types

\* The types after a call of the driver fails.
LEMMA DriverFailsTypes == Types /\ DriverFails => Types'
<1> SUFFICES ASSUME Types, DriverFails PROVE Types'
  OBVIOUS
<1>1. /\ run' = [run EXCEPT !.phase = "fallback"] /\ UNCHANGED <<device, queue, net, signal, clock>>
      /\ cell' = cell \/ \E m, n : cell' = Downloaded(m, n)
      /\ weights' = weights \/ \E n : weights' = Synced(n)
  BY DEF DriverFails, Goto
<1>2. run' \in Runs /\ run'.n = run.n /\ run'.cursor = run.cursor
  BY <1>1, Gone DEF Phases
<1>3. Cells(cell')
  BY <1>1, DownloadedCells DEF Types
<1>4. Weighted(weights')
  BY <1>1, SyncedWeights DEF Types, Weighted
<1>5. run'.n <= Len(queue') /\ run'.cursor <= run'.n + 1
  BY <1>1, <1>2 DEF Types
<1> QED
  BY <1>1, <1>2, <1>3, <1>4, <1>5, RunStep DEF Types

\* A run that starts over is a run.
LEMMA Restarted ==
  ASSUME NEW a \in Runs, NEW n \in Nat, NEW b, b = [a EXCEPT !.tick = 0, !.cursor = 1, !.n = n]
  PROVE  b \in Runs /\ b.n = n /\ b.cursor = 1
<1>1. 0 \in Nat /\ 1 \in Nat \ {0}
  OBVIOUS
<1> QED
  BY <1>1 DEF Runs

\* The types after the run starts over on the CPU.
LEMMA FallbackTypes == Types /\ Fallback => Types'
<1> SUFFICES ASSUME Types, Fallback PROVE Types'
  OBVIOUS
<1> DEFINE a == [run EXCEPT !.phase = "currents", !.g = 0, !.h = 0, !.left = <<>>]
<1>1. run' = [run EXCEPT !.phase = "currents", !.tick = 0, !.cursor = 1, !.n = Len(queue), !.g = 0, !.h = 0, !.left = <<>>]
      /\ UNCHANGED <<cell, device, queue>> /\ UNCHANGED hostVars
  BY DEF Fallback
<1>2. Len(queue) \in Nat /\ run \in Runs /\ 0 \in 0 .. Len(Sizes)
  BY LenProperties, Groups DEF Types
<1>3. a \in Runs
  <2>1. "currents" \in Phases /\ <<>> \in Seq(Nat)
    BY DEF Phases
  <2> QED
    BY <1>2, <2>1 DEF Runs
<1>4. run' = [a EXCEPT !.tick = 0, !.cursor = 1, !.n = Len(queue)]
  BY <1>1, <1>2 DEF Runs
<1> HIDE DEF a
<1>5. run' \in Runs /\ run'.n = Len(queue) /\ run'.cursor = 1
  <2>1. \A p \in Runs, m \in Nat : [p EXCEPT !.tick = 0, !.cursor = 1, !.n = m] \in Runs
    BY Restarted
  <2>2. run' \in Runs
    BY <1>2, <1>3, <1>4, <2>1
  <2> QED
    BY <1>3, <1>4, <2>2 DEF Runs
<1> QED
  BY <1>1, <1>5, CudaStep DEF Types

\* Every step keeps the types.
LEMMA NextTypes == Types /\ [Next]_vars => Types'
<1> SUFFICES ASSUME Types, [Next]_vars PROVE Types'
  OBVIOUS
<1>1. CASE Start
  <2>1. CASE ScheduleInject
    BY <2>1, ScheduleInjectTypes
  <2>2. ASSUME NEW d \in Durations, NEW dt \in Dts, NEW on \in Devices, Run(d, dt, on) PROVE Types'
    BY <2>2, RunTypes
  <2> QED
    BY <1>1, <2>1, <2>2 DEF Start
<1>2. CASE Tick
  BY <1>2, CurrentsTypes, InjectionsTypes, InputsTypes, FireTypes, LearnTypes, TraceTypes,
     NextGroupTypes, NextHandlerTypes, LogSpikeTypes, CallHandlerTypes, FinishTypes DEF Tick
<1>3. CASE Cuda
  BY <1>3, RefuseTypes, UploadTypes, LaunchTypes, FetchTypes, MirrorTypes, NextLaunchTypes, DownloadTypes,
     DriverFailsTypes, FallbackTypes DEF Cuda
<1>4. CASE UNCHANGED vars
  <2>1. UNCHANGED <<net, cell, weights, signal, clock, queue, run, device>>
    BY <1>4 DEF vars
  <2>2. run \in Runs /\ run.n <= Len(queue) /\ run.cursor <= run.n + 1
    BY DEF Types
  <2> QED
    BY <2>1, <2>2, RunStep DEF Types
<1> QED
  BY <1>1, <1>2, <1>3, <1>4 DEF Next

\* The types hold in every reachable state.
THEOREM SimulationTypes == Spec => []Types
  BY InitTypes, NextTypes, PTL DEF Spec

-----------------------------------------------------------------------------
(* The calls of the handlers.                                               *)

\* What is reported of a spike, and what is left to report to a handler, or to the
\* log: the list run.left to the one it is at, the whole list to those after it.
Spike == [t : Int, i : Nat]
Items(l) == [k \in 1 .. Len(l) |-> [t |-> Now, i |-> l[k]]]
Pending(h) == IF h = run.h THEN run.left ELSE IF h > run.h THEN Spikes(Source(run.g)) ELSE <<>>

\* The cursors of a report.
Cursors ==
  /\ run.phase \notin {"report", "cuda_report", "fetch", "download", "fallback"} => run.g = 0
  /\ run.g = 0 => run.h = 0
  /\ ~Reporting \/ run.g = 0 => run.left = <<>>
  /\ run.g # 0 => run.h <= Len(net.handlers[run.g])

\* Of the group that is being reported, what each handler has heard and what it is
\* still to hear make what the log has got and is still to get; of the others, the
\* handlers have heard what the log has got.
Calls(g) ==
  \A h \in DOMAIN net.handlers[g] :
     /\ h \in Nat \ {0} /\ heard[g][h] \in Seq(Spike)
     /\ IF Reporting /\ run.g = g THEN heard[g][h] \o Items(Pending(h)) = fired[g] \o Items(Pending(0))
        ELSE heard[g][h] = fired[g]
Heard ==
  /\ heard = [g \in Group |-> heard[g]]
  /\ fired = [g \in Group |-> fired[g]]
  /\ \A g \in Group : /\ heard[g] = [h \in DOMAIN net.handlers[g] |-> heard[g][h]]
                      /\ fired[g] \in Seq(Spike)
                      /\ Calls(g)

\* The time of a report is an integer.
LEMMA NowInt == Types => Now \in Int
<1>1. ASSUME NEW a \in Nat, NEW b \in Nat PROVE a * b \in Int
  OBVIOUS
<1> QED
  BY <1>1 DEF Types, Runs, Now

\* The spikes of a list, with their time.
LEMMA ItemsAre ==
  ASSUME Types, NEW l \in Seq(Nat)
  PROVE  Items(l) \in Seq(Spike) /\ Len(Items(l)) = Len(l) /\ Len(l) \in Nat
         /\ \A k \in 1 .. Len(l) : Items(l)[k] = [t |-> Now, i |-> l[k]]
<1>1. Len(l) \in Nat /\ DOMAIN l = 1 .. Len(l) /\ \A k \in 1 .. Len(l) : l[k] \in Nat
  BY LenProperties, ElementOfSeq
<1>2. Items(l) \in [1 .. Len(l) -> Spike]
  BY <1>1, NowInt DEF Items, Spike
<1>3. Items(l) \in Seq(Spike) /\ Len(Items(l)) = Len(l)
  BY <1>1, <1>2, MadeSeq
<1> QED
  BY <1>1, <1>3 DEF Items

\* What has been reported and what is left stay one list when a spike is reported.
LEMMA OneReported ==
  ASSUME Types, NEW l \in Seq(Nat), l # <<>>, NEW f \in Seq(Spike)
  PROVE  LET x == [t |-> Now, i |-> Head(l)]
         IN  x \in Spike /\ Append(f, x) \in Seq(Spike) /\ Append(f, x) \o Items(Tail(l)) = f \o Items(l)
<1> DEFINE x == [t |-> Now, i |-> Head(l)]
           a == Append(f, x)
           p == Items(l)
           q == Items(Tail(l))
<1>1. Head(l) \in Nat /\ Tail(l) \in Seq(Nat) /\ Len(Tail(l)) = Len(l) - 1 /\ Len(l) \in Nat \ {0}
      /\ l[1] = Head(l) /\ \A k \in 1 .. Len(Tail(l)) : Tail(l)[k] = l[k + 1]
  BY HeadTailProperties, LenProperties, EmptySeq
<1>2. x \in Spike
  BY <1>1, NowInt DEF Spike
<1>3. /\ p \in Seq(Spike) /\ Len(p) = Len(l) /\ p[1] = x
      /\ q \in Seq(Spike) /\ Len(q) = Len(l) - 1 /\ \A k \in 1 .. Len(q) : q[k] = p[k + 1]
  <2>1. p \in Seq(Spike) /\ Len(p) = Len(l) /\ \A k \in 1 .. Len(l) : p[k] = [t |-> Now, i |-> l[k]]
    BY ItemsAre
  <2>2. /\ q \in Seq(Spike) /\ Len(q) = Len(Tail(l))
        /\ \A k \in 1 .. Len(Tail(l)) : q[k] = [t |-> Now, i |-> Tail(l)[k]]
    <3>1. Tail(l) \in Seq(Nat)
      BY <1>1
    <3> QED
      BY <3>1, ItemsAre
  <2> HIDE DEF p, q
  <2>3. p[1] = x
    BY <1>1, <2>1
  <2>4. ASSUME NEW k \in 1 .. Len(q) PROVE q[k] = p[k + 1]
    <3>1. k + 1 \in 1 .. Len(l) /\ k \in 1 .. Len(Tail(l))
      BY <1>1, <2>2
    <3> QED
      BY <1>1, <2>1, <2>2, <3>1
  <2> QED
    BY <1>1, <2>1, <2>2, <2>3, <2>4
<1> HIDE DEF x, p, q
<1>4. a \in Seq(Spike) /\ Len(a) = Len(f) + 1 /\ Len(f) \in Nat /\ a[Len(f) + 1] = x /\ \A k \in 1 .. Len(f) : a[k] = f[k]
  BY <1>2, AppendProperties, LenProperties
<1> HIDE DEF a
<1> DEFINE u == a \o q
           v == f \o p
<1>5. u \in Seq(Spike) /\ Len(u) = Len(a) + Len(q)
      /\ (\A k \in 1 .. Len(a) : u[k] = a[k]) /\ \A k \in 1 .. Len(q) : u[Len(a) + k] = q[k]
  <2>1. a \in Seq(Spike) /\ q \in Seq(Spike)
    BY <1>3, <1>4
  <2> QED
    BY <2>1, Joined
<1>6. v \in Seq(Spike) /\ Len(v) = Len(f) + Len(p)
      /\ (\A k \in 1 .. Len(f) : v[k] = f[k]) /\ \A k \in 1 .. Len(p) : v[Len(f) + k] = p[k]
  <2>1. p \in Seq(Spike)
    BY <1>3
  <2> QED
    BY <2>1, Joined
<1> HIDE DEF u, v
<1>7. PICK n \in Nat, m \in Nat : n = Len(f) /\ m = Len(q)
  BY <1>3, <1>4, LenProperties
<1>8. Len(a) = n + 1 /\ Len(p) = m + 1 /\ Len(u) = n + 1 + m /\ Len(v) = n + 1 + m
  BY <1>1, <1>3, <1>4, <1>5, <1>6, <1>7
<1>9. ASSUME NEW k \in 1 .. n + 1 + m PROVE u[k] = v[k]
  <2>1. CASE k \in 1 .. n
    BY <1>4, <1>5, <1>6, <1>7, <1>8, <2>1
  <2>2. CASE k = n + 1
    <3>1. u[k] = a[n + 1]
      BY <1>5, <1>8, <2>2
    <3>2. v[n + 1] = p[1]
      BY <1>6, <1>7, <1>8
    <3> QED
      BY <1>3, <1>4, <1>7, <2>2, <3>1, <3>2
  <2>3. CASE k \in n + 2 .. n + 1 + m
    <3> DEFINE j == k - n - 1
    <3>1. j \in 1 .. m /\ k = n + 1 + j /\ j + 1 \in 1 .. m + 1 /\ k = n + (j + 1)
      BY <2>3
    <3> HIDE DEF j
    <3>2. u[k] = q[j]
      BY <1>5, <1>7, <1>8, <3>1
    <3>3. v[k] = p[j + 1]
      BY <1>6, <1>7, <1>8, <3>1
    <3> QED
      BY <1>3, <1>7, <3>1, <3>2, <3>3
  <2> QED
    BY <2>1, <2>2, <2>3
<1>10. u = v
  BY <1>5, <1>6, <1>8, <1>9, SeqEqual
<1> QED
  BY <1>2, <1>4, <1>10 DEF x, a, p, q, u, v

\* Every handler has heard what the log has got: between reports.
AllHeard == \A g \in Group : \A h \in DOMAIN net.handlers[g] : heard[g][h] = fired[g]

\* The handlers of a group are numbered from 1.
LEMMA HandlerNumbers ==
  ASSUME Types, NEW g \in Group
  PROVE  Len(net.handlers[g]) \in Nat /\ DOMAIN net.handlers[g] = 1 .. Len(net.handlers[g])
<1>1. net.handlers[g] \in Seq(STRING)
  BY Conns DEF Types
<1> QED
  BY <1>1, LenProperties

\* When nothing is left to report of a group, all its handlers have heard what the log got.
LEMMA Quiet ==
  ASSUME Types, Cursors, Heard, ~Reporting \/ run.g = 0 \/ Through
  PROVE  AllHeard
<1> SUFFICES ASSUME NEW g \in Group, NEW h \in DOMAIN net.handlers[g] PROVE heard[g][h] = fired[g]
  BY DEF AllHeard
<1>1. CASE ~(Reporting /\ run.g = g)
  BY <1>1 DEF Heard, Calls
<1>2. CASE Reporting /\ run.g = g
  <2>1. run.g # 0 /\ Through
    BY <1>2, Groups
  <2>2. run.left = <<>> /\ run.h = Len(net.handlers[g])
    BY <1>2, <2>1 DEF Through
  <2>3. h \in 1 .. Len(net.handlers[g]) /\ Len(net.handlers[g]) \in Nat
    BY HandlerNumbers
  <2>4. Pending(h) = <<>> /\ Pending(0) = <<>>
    BY <2>2, <2>3 DEF Pending
  <2>5. heard[g][h] \in Seq(Spike) /\ fired[g] \in Seq(Spike) /\ heard[g][h] \o Items(<<>>) = fired[g] \o Items(<<>>)
    <3>1. Calls(g) /\ fired[g] \in Seq(Spike)
      BY DEF Heard
    <3>2. heard[g][h] \in Seq(Spike) /\ heard[g][h] \o Items(Pending(h)) = fired[g] \o Items(Pending(0))
      BY <1>2, <3>1 DEF Calls
    <3> QED
      BY <2>4, <3>1, <3>2
  <2>6. Items(<<>>) = <<>>
    BY DEF Items
  <2> QED
    BY <2>5, <2>6, SMTT(30)
<1> QED
  BY <1>1, <1>2

\* A step that starts a report, or is in none.
LEMMA StillHeard ==
  ASSUME Types, AllHeard, Heard, UNCHANGED <<net, heard, fired>>,
         \/ ~Reporting'
         \/ run'.g = 0
         \/ run'.h = 0 /\ run'.left = Spikes(Source(run.g))'
  PROVE  Heard'
<1>1. ASSUME NEW g \in Group PROVE Calls(g)'
  <2> SUFFICES ASSUME NEW h \in DOMAIN net'.handlers[g]
               PROVE  /\ h \in Nat \ {0} /\ heard'[g][h] \in Seq(Spike)
                      /\ IF Reporting' /\ run'.g = g THEN heard'[g][h] \o Items(Pending(h))' = fired'[g] \o Items(Pending(0))'
                         ELSE heard'[g][h] = fired'[g]
    BY DEF Calls
  <2>1. h \in Nat \ {0} /\ heard'[g][h] \in Seq(Spike) /\ heard'[g][h] = fired'[g]
    BY DEF Heard, Calls, AllHeard
  <2>2. ASSUME Reporting', run'.g = g PROVE Items(Pending(h))' = Items(Pending(0))'
    <3>1. run'.h = 0 /\ run'.left = Spikes(Source(run.g))'
      BY <2>2, Groups
    <3>2. Pending(h)' = run'.left /\ Pending(0)' = run'.left
      BY <2>1, <3>1 DEF Pending
    <3> QED
      BY <3>2 DEF Items
  <2> QED
    BY <2>1, <2>2
<1>2. /\ heard' = [g \in Group |-> heard'[g]] /\ fired' = [g \in Group |-> fired'[g]]
      /\ \A g \in Group : heard'[g] = [h \in DOMAIN net'.handlers[g] |-> heard'[g][h]] /\ fired'[g] \in Seq(Spike)
  BY DEF Heard
<1> QED
  BY <1>1, <1>2 DEF Heard

\* Initially nothing has been logged or heard.
LEMMA InitHeard == Init => Cursors /\ Heard
<1> SUFFICES ASSUME Init PROVE Cursors /\ Heard
  OBVIOUS
<1>1. run = NoRun /\ net \in Nets /\ heard = [g \in Group |-> [h \in DOMAIN net.handlers[g] |-> <<>>]]
      /\ fired = [g \in Group |-> <<>>]
  BY DEF Init
<1>2. Cursors
  BY <1>1 DEF Cursors, NoRun
<1>3. ~Reporting
  BY <1>1 DEF Reporting, OnCuda, At, NoRun
<1>4. ASSUME NEW g \in Group PROVE Calls(g)
  <2>1. DOMAIN net.handlers[g] \in SUBSET (Nat \ {0})
    BY InitTypes, HandlerNumbers
  <2> QED
    BY <1>1, <1>3, <2>1 DEF Calls
<1> QED
  BY <1>1, <1>2, <1>4 DEF Heard

\* The next group is reported: log and handlers get the same list.
LEMMA NextGroupHeard == Types /\ Cursors /\ Heard /\ NextGroup => Cursors' /\ Heard'
<1> SUFFICES ASSUME Types, Cursors, Heard, NextGroup PROVE Cursors' /\ Heard'
  OBVIOUS
<1>1. /\ run' = [run EXCEPT !.g = @ + 1, !.h = 0, !.left = Spikes(cell[run.g + 1])] /\ run.phase = "report"
      /\ UNCHANGED <<net, heard, fired, cell, device>> /\ Through
  BY DEF NextGroup, reportVars, At
<1>2. /\ run'.phase = "report" /\ run'.g = run.g + 1 /\ run'.h = 0 /\ run'.left = Spikes(cell[run.g + 1])
  BY <1>1 DEF Types, Runs
<1>3. run.g + 1 \in Group /\ run.g + 1 # 0
  BY RunIs, GroupNumbers DEF NextGroup
<1>4. run'.left = Spikes(Source(run.g))'
  BY <1>1, <1>2 DEF Source, OnCuda, At
<1>5. Heard'
  BY <1>1, <1>2, <1>4, Quiet, StillHeard
<1>6. Cursors'
  <2>1. Len(net.handlers[run.g + 1]) \in Nat
    BY <1>3, HandlerNumbers
  <2>2. run'.g # 0 /\ Reporting'
    BY <1>2, <1>3 DEF Reporting, At
  <2>3. run'.g # 0 => run'.h <= Len(net'.handlers[run'.g])
    BY <1>1, <1>2, <2>1
  <2> QED
    BY <1>2, <2>2, <2>3 DEF Cursors
<1> QED
  BY <1>5, <1>6

\* A fetched group is reported: log and handlers get the same list.
LEMMA FetchHeard == Types /\ Cursors /\ Heard /\ Fetch => Cursors' /\ Heard'
<1> SUFFICES ASSUME Types, Cursors, Heard, Fetch PROVE Cursors' /\ Heard'
  OBVIOUS
<1>1. /\ run' = [run EXCEPT !.phase = "cuda_report", !.g = @ + 1, !.h = 0, !.left = Spikes(device.cell[run.g + 1])]
      /\ run.phase = "fetch" /\ UNCHANGED <<net, heard, fired, cell, device>>
  BY DEF Fetch, hostVars, At
<1>2. /\ run'.phase = "cuda_report" /\ run'.g = run.g + 1 /\ run'.h = 0 /\ run'.left = Spikes(device.cell[run.g + 1])
  BY <1>1 DEF Types, Runs
<1>3. run.g + 1 \in Group /\ run.g + 1 # 0
  BY RunIs, GroupNumbers DEF Fetch
<1>4. run'.left = Spikes(Source(run.g))'
  BY <1>1, <1>2 DEF Source, OnCuda, At
<1>5. Heard'
  <2>1. ~Reporting
    BY <1>1 DEF Reporting, OnCuda, At
  <2> QED
    BY <1>1, <1>2, <1>4, <2>1, Quiet, StillHeard
<1>6. Cursors'
  <2>1. Len(net.handlers[run.g + 1]) \in Nat
    BY <1>3, HandlerNumbers
  <2>2. run'.g # 0 /\ Reporting'
    BY <1>2, <1>3 DEF Reporting, OnCuda, At
  <2>3. run'.g # 0 => run'.h <= Len(net'.handlers[run'.g])
    BY <1>1, <1>2, <2>1
  <2> QED
    BY <1>2, <2>2, <2>3 DEF Cursors
<1> QED
  BY <1>5, <1>6

\* The next handler is to hear what the log got.
LEMMA NextHandlerHeard == Types /\ Cursors /\ Heard /\ NextHandler => Cursors' /\ Heard'
<1> SUFFICES ASSUME Types, Cursors, Heard, NextHandler PROVE Cursors' /\ Heard'
  OBVIOUS
<1>1. /\ run' = [run EXCEPT !.h = @ + 1, !.left = Spikes(Source(run.g))] /\ Reporting /\ run.left = <<>> /\ ~Through
      /\ UNCHANGED <<net, heard, fired, cell, device, clock>>
  BY DEF NextHandler, reportVars
<1>2. /\ run'.phase = run.phase /\ run'.g = run.g /\ run'.h = run.h + 1 /\ run'.left = Spikes(Source(run.g))
      /\ run'.tick = run.tick /\ run'.dt = run.dt
  BY <1>1 DEF Types, Runs
<1>3. run.g \in Group /\ run.g # 0 /\ run.h \in Nat /\ run.h # Len(net.handlers[run.g]) /\ run.h <= Len(net.handlers[run.g])
  <2>1. run.g # 0 /\ run.h # Len(net.handlers[run.g])
    BY <1>1 DEF Through
  <2> QED
    BY <2>1, RunIs, Groups DEF Cursors
<1>4. run.h + 1 <= Len(net.handlers[run.g])
  BY <1>3, HandlerNumbers
<1>5. Reporting' /\ Source(run.g)' = Source(run.g)
  BY <1>1, <1>2 DEF Reporting, Source, OnCuda, At
<1>6. Cursors'
  BY <1>1, <1>2, <1>3, <1>4, <1>5 DEF Cursors, Reporting, OnCuda, At
<1>7. \A h \in Nat : Pending(h)' = Pending(h)
  BY <1>1, <1>2, <1>3, <1>5 DEF Pending
<1>8. \A h \in Nat : Items(Pending(h))' = Items(Pending(h))
  BY <1>1, <1>2, <1>7 DEF Items, Now, OnCuda, At
<1>9. ASSUME NEW g \in Group PROVE Calls(g)'
  <2> SUFFICES ASSUME NEW h \in DOMAIN net'.handlers[g]
               PROVE  /\ h \in Nat \ {0} /\ heard'[g][h] \in Seq(Spike)
                      /\ IF Reporting' /\ run'.g = g THEN heard'[g][h] \o Items(Pending(h))' = fired'[g] \o Items(Pending(0))'
                         ELSE heard'[g][h] = fired'[g]
    BY DEF Calls
  <2>1. h \in DOMAIN net.handlers[g] /\ heard' = heard /\ fired' = fired
    BY <1>1
  <2>2. /\ h \in Nat \ {0} /\ heard[g][h] \in Seq(Spike)
        /\ IF Reporting /\ run.g = g THEN heard[g][h] \o Items(Pending(h)) = fired[g] \o Items(Pending(0))
           ELSE heard[g][h] = fired[g]
    BY <2>1 DEF Calls, Heard
  <2>3. Items(Pending(h))' = Items(Pending(h)) /\ Items(Pending(0))' = Items(Pending(0))
    BY <1>8, <2>2
  <2> QED
    BY <1>1, <1>2, <1>5, <2>1, <2>2, <2>3
<1>10. Heard'
  BY <1>1, <1>9 DEF Heard
<1> QED
  BY <1>6, <1>10

\* The cursors and the list after a spike is reported.
LEMMA ReportedIs ==
  ASSUME Types, Cursors, Reporting, run.left # <<>>, Reported, UNCHANGED <<net, cell, device, clock>>
  PROVE  /\ Cursors' /\ run.g \in Group /\ Reporting' /\ run'.g = run.g /\ run'.h = run.h /\ run.left \in Seq(Nat)
         /\ run'.left = Tail(run.left)
         /\ \A h \in Nat : h # run.h => Items(Pending(h))' = Items(Pending(h))
         /\ Items(Pending(run.h))' = Items(Tail(run.left)) /\ Pending(run.h) = run.left
<1>1. /\ run'.phase = run.phase /\ run'.g = run.g /\ run'.h = run.h /\ run'.left = Tail(run.left)
      /\ run'.tick = run.tick /\ run'.dt = run.dt
  BY DEF Reported, Types, Runs
<1>2. run.g \in Group /\ run.g # 0 /\ run.left \in Seq(Nat) /\ run.h \in Nat
  BY RunIs, Groups DEF Cursors
<1>3. Reporting' /\ Source(run.g)' = Source(run.g)
  BY <1>1 DEF Reporting, Source, OnCuda, At
<1>4. Cursors'
  BY <1>1, <1>2, <1>3 DEF Cursors, Reporting, OnCuda, At
<1>5. \A h \in Nat : h # run.h => Pending(h)' = Pending(h)
  BY <1>1, <1>2, <1>3 DEF Pending
<1>6. \A h \in Nat : h # run.h => Items(Pending(h))' = Items(Pending(h))
  BY <1>1, <1>5 DEF Items, Now, OnCuda, At
<1>7. Pending(run.h)' = Tail(run.left) /\ Pending(run.h) = run.left
  BY <1>1 DEF Pending
<1>8. Items(Pending(run.h))' = Items(Tail(run.left))
  BY <1>1, <1>7 DEF Items, Now, OnCuda, At
<1> QED
  BY <1>1, <1>2, <1>3, <1>4, <1>6, <1>7, <1>8

\* A spike moves from what is left for the log to what it got.
LEMMA LogSpikeHeard == Types /\ Cursors /\ Heard /\ LogSpike => Cursors' /\ Heard'
<1> SUFFICES ASSUME Types, Cursors, Heard, LogSpike PROVE Cursors' /\ Heard'
  OBVIOUS
<1> DEFINE x == [t |-> Now, i |-> Head(run.left)]
<1>1. /\ Reporting /\ run.h = 0 /\ run.left # <<>> /\ Reported /\ UNCHANGED <<net, cell, device, clock, heard>>
      /\ fired' = [fired EXCEPT ![run.g] = Append(@, x)]
  BY DEF LogSpike, reportVars
<1>2. /\ Cursors' /\ run.g \in Group /\ Reporting' /\ run'.g = run.g /\ run'.h = run.h /\ run.left \in Seq(Nat)
      /\ \A h \in Nat : h # run.h => Items(Pending(h))' = Items(Pending(h))
      /\ Items(Pending(run.h))' = Items(Tail(run.left)) /\ Pending(run.h) = run.left
  BY <1>1, ReportedIs
<1>3. /\ fired' = [g \in Group |-> fired'[g]] /\ fired'[run.g] = Append(fired[run.g], x)
      /\ \A g \in Group : g # run.g => fired'[g] = fired[g]
  BY <1>1, <1>2 DEF Heard
<1>4. Append(fired[run.g], x) \in Seq(Spike) /\ Append(fired[run.g], x) \o Items(Tail(run.left)) = fired[run.g] \o Items(run.left)
  <2>1. fired[run.g] \in Seq(Spike)
    BY <1>2 DEF Heard
  <2> QED
    BY <1>1, <1>2, <2>1, OneReported
<1> HIDE DEF x
<1>5. ASSUME NEW g \in Group PROVE Calls(g)' /\ fired'[g] \in Seq(Spike)
  <2>1. fired'[g] \in Seq(Spike)
    BY <1>3, <1>4 DEF Heard
  <2>2. ASSUME NEW h \in DOMAIN net'.handlers[g]
        PROVE  /\ h \in Nat \ {0} /\ heard'[g][h] \in Seq(Spike)
               /\ IF Reporting' /\ run'.g = g THEN heard'[g][h] \o Items(Pending(h))' = fired'[g] \o Items(Pending(0))'
                  ELSE heard'[g][h] = fired'[g]
    <3>1. h \in DOMAIN net.handlers[g] /\ heard' = heard
      BY <1>1
    <3>2. /\ h \in Nat \ {0} /\ heard[g][h] \in Seq(Spike)
          /\ IF Reporting /\ run.g = g THEN heard[g][h] \o Items(Pending(h)) = fired[g] \o Items(Pending(0))
             ELSE heard[g][h] = fired[g]
      BY <3>1 DEF Calls, Heard
    <3>3. CASE g # run.g
      BY <1>2, <1>3, <3>1, <3>2, <3>3
    <3>4. CASE g = run.g
      <4>1. Items(Pending(h))' = Items(Pending(h))
        BY <1>1, <1>2, <3>2
      <4>2. Items(Pending(0))' = Items(Tail(run.left)) /\ Pending(0) = run.left
        BY <1>1, <1>2
      <4>3. fired'[g] \o Items(Pending(0))' = fired[g] \o Items(Pending(0))
        BY <1>3, <1>4, <3>4, <4>2
      <4> QED
        BY <1>1, <1>2, <3>1, <3>2, <3>4, <4>1, <4>3
    <3> QED
      BY <3>3, <3>4
  <2> QED
    BY <2>1, <2>2 DEF Calls
<1>6. Heard'
  BY <1>1, <1>3, <1>5 DEF Heard
<1> QED
  BY <1>2, <1>6

\* A spike moves from what is left for the handler to what it heard.
LEMMA CallHandlerHeard == Types /\ Cursors /\ Heard /\ CallHandler => Cursors' /\ Heard'
<1> SUFFICES ASSUME Types, Cursors, Heard, CallHandler PROVE Cursors' /\ Heard'
  OBVIOUS
<1> DEFINE x == [t |-> Now, i |-> Head(run.left)]
<1>1. /\ Reporting /\ run.h # 0 /\ run.left # <<>> /\ Reported /\ UNCHANGED <<net, cell, device, clock, fired>>
      /\ heard' = [heard EXCEPT ![run.g][run.h] = Append(@, x)]
  BY DEF CallHandler, reportVars
<1>2. /\ Cursors' /\ run.g \in Group /\ Reporting' /\ run'.g = run.g /\ run'.h = run.h /\ run.left \in Seq(Nat)
      /\ \A h \in Nat : h # run.h => Items(Pending(h))' = Items(Pending(h))
      /\ Items(Pending(run.h))' = Items(Tail(run.left)) /\ Pending(run.h) = run.left
  BY <1>1, ReportedIs
<1>3. run.h \in DOMAIN net.handlers[run.g] /\ run.h \in Nat /\ run.g # 0
  <2>1. run.h \in Nat \ {0} /\ run.h <= Len(net.handlers[run.g]) /\ run.g # 0
    BY <1>1, <1>2, RunIs, Groups DEF Cursors
  <2> QED
    BY <1>2, <2>1, HandlerNumbers
<1>4. heard = [g \in Group |-> heard[g]] /\ heard[run.g] = [h \in DOMAIN net.handlers[run.g] |-> heard[run.g][h]]
  BY <1>2 DEF Heard
<1>5. /\ heard' = [g \in Group |-> heard'[g]] /\ heard'[run.g] = [heard[run.g] EXCEPT ![run.h] = Append(@, x)]
      /\ \A g \in Group : g # run.g => heard'[g] = heard[g]
  BY <1>1, <1>2, <1>4
<1>6. /\ heard'[run.g] = [h \in DOMAIN net.handlers[run.g] |-> heard'[run.g][h]]
      /\ heard'[run.g][run.h] = Append(heard[run.g][run.h], x)
      /\ \A h \in DOMAIN net.handlers[run.g] : h # run.h => heard'[run.g][h] = heard[run.g][h]
  BY <1>3, <1>4, <1>5
<1>7. /\ Append(heard[run.g][run.h], x) \in Seq(Spike)
      /\ Append(heard[run.g][run.h], x) \o Items(Tail(run.left)) = heard[run.g][run.h] \o Items(run.left)
  <2>1. heard[run.g][run.h] \in Seq(Spike)
    BY <1>2, <1>3 DEF Heard, Calls
  <2> QED
    BY <1>1, <1>2, <2>1, OneReported
<1> HIDE DEF x
<1>8. ASSUME NEW g \in Group PROVE Calls(g)' /\ heard'[g] = [h \in DOMAIN net'.handlers[g] |-> heard'[g][h]]
  <2>1. heard'[g] = [h \in DOMAIN net'.handlers[g] |-> heard'[g][h]]
    BY <1>1, <1>5, <1>6 DEF Heard
  <2>2. ASSUME NEW h \in DOMAIN net'.handlers[g]
        PROVE  /\ h \in Nat \ {0} /\ heard'[g][h] \in Seq(Spike)
               /\ IF Reporting' /\ run'.g = g THEN heard'[g][h] \o Items(Pending(h))' = fired'[g] \o Items(Pending(0))'
                  ELSE heard'[g][h] = fired'[g]
    <3>1. h \in DOMAIN net.handlers[g] /\ fired' = fired
      BY <1>1
    <3>2. /\ h \in Nat \ {0} /\ heard[g][h] \in Seq(Spike)
          /\ IF Reporting /\ run.g = g THEN heard[g][h] \o Items(Pending(h)) = fired[g] \o Items(Pending(0))
             ELSE heard[g][h] = fired[g]
      BY <3>1 DEF Calls, Heard
    <3>3. CASE g # run.g
      BY <1>2, <1>5, <3>1, <3>2, <3>3
    <3>4. CASE g = run.g
      <4>1. Items(Pending(0))' = Items(Pending(0))
        BY <1>1, <1>2, <1>3
      <4>2. CASE h # run.h
        <5>1. Items(Pending(h))' = Items(Pending(h)) /\ heard'[g][h] = heard[g][h]
          BY <1>2, <1>6, <3>1, <3>2, <3>4, <4>2
        <5> QED
          BY <1>1, <1>2, <3>1, <3>2, <3>4, <4>1, <5>1
      <4>3. CASE h = run.h
        <5>1. heard'[g][h] \in Seq(Spike) /\ heard'[g][h] \o Items(Pending(h))' = heard[g][h] \o Items(Pending(h))
          BY <1>2, <1>6, <1>7, <3>4, <4>3
        <5> QED
          BY <1>1, <1>2, <3>1, <3>2, <3>4, <4>1, <5>1
      <4> QED
        BY <4>2, <4>3
    <3> QED
      BY <3>3, <3>4
  <2> QED
    BY <2>1, <2>2 DEF Calls
<1>9. Heard'
  BY <1>1, <1>5, <1>8 DEF Heard
<1> QED
  BY <1>2, <1>9

\* A step in no report.
LEMMA Elsewhere ==
  ASSUME Types, Cursors, Heard, ~Reporting \/ run.g = 0 \/ Through, Cursors', ~Reporting' \/ run'.g = 0,
         UNCHANGED <<net, heard, fired>>
  PROVE  Cursors' /\ Heard'
  BY Quiet, StillHeard

\* Between runs nothing is reported.
LEMMA StartHeard == Types /\ Cursors /\ Heard /\ Start => Cursors' /\ Heard'
<1> SUFFICES ASSUME Types, Cursors, Heard, Start PROVE Cursors' /\ Heard'
  OBVIOUS
<1>1. At("idle") /\ UNCHANGED <<net, heard, fired>>
  BY DEF Start, ScheduleInject, Run
<1>2. ~Reporting
  BY <1>1 DEF Reporting, OnCuda, At
<1>3. \/ run' = run
      \/ run'.phase \in {"upload", "currents"} /\ run'.g = 0 /\ run'.h = 0 /\ run'.left = <<>>
  <2>1. CASE ScheduleInject
    BY <2>1 DEF ScheduleInject
  <2>2. ASSUME NEW d, NEW dt, NEW on, Run(d, dt, on)
        PROVE  run'.phase \in {"upload", "currents"} /\ run'.g = 0 /\ run'.h = 0 /\ run'.left = <<>>
    BY <2>2 DEF Run, NoRun
  <2> QED
    BY <2>1, <2>2 DEF Start
<1>4. Cursors' /\ ~Reporting'
  BY <1>1, <1>2, <1>3 DEF Cursors, Reporting, OnCuda, At
<1> QED
  BY <1>1, <1>2, <1>4, Elsewhere

\* A phase of a tick that is not its report.
LEMMA PhaseHeard ==
  ASSUME Types, Cursors, Heard, NEW p \in {"injections", "inputs", "fire", "learn", "trace", "report"},
         run.phase \in {"currents", "injections", "inputs", "fire", "learn", "trace"},
         run'.phase = p, run'.g = run.g, run'.h = run.h, run'.left = run.left,
         UNCHANGED <<net, heard, fired>>
  PROVE  Cursors' /\ Heard'
<1>1. run.g = 0 /\ run.h = 0 /\ ~Reporting /\ run.left = <<>>
  BY DEF Cursors, Reporting, OnCuda, At
<1>2. Cursors'
  BY <1>1 DEF Cursors
<1> QED
  BY <1>1, <1>2, Elsewhere

\* The phases of a CPU tick before its report.
LEMMA PhasesHeard ==
  Types /\ Cursors /\ Heard /\ (Currents \/ Injections \/ Inputs \/ Fire \/ Learn \/ Trace) => Cursors' /\ Heard'
<1> SUFFICES ASSUME Types, Cursors, Heard, Currents \/ Injections \/ Inputs \/ Fire \/ Learn \/ Trace
             PROVE  Cursors' /\ Heard'
  OBVIOUS
<1>1. UNCHANGED <<net, heard, fired>> /\ run.phase \in {"currents", "injections", "inputs", "fire", "learn", "trace"}
  BY DEF Currents, Injections, Inputs, Fire, Learn, Trace, tickVars, At
<1>2. \/ \E p \in {"injections", "fire", "learn", "trace", "report"} : run' = [run EXCEPT !.phase = p]
      \/ \E o : run' = [run EXCEPT !.phase = "inputs", !.cursor = o]
  BY DEF Currents, Injections, Inputs, Fire, Learn, Trace, Goto
<1>3. /\ run'.phase \in {"injections", "inputs", "fire", "learn", "trace", "report"}
      /\ run'.g = run.g /\ run'.h = run.h /\ run'.left = run.left
  BY <1>2, RunIs DEF Runs
<1> QED
  BY <1>1, <1>3, PhaseHeard

\* A tick ends when the last group has been reported.
LEMMA FinishHeard == Types /\ Cursors /\ Heard /\ Finish => Cursors' /\ Heard'
<1> SUFFICES ASSUME Types, Cursors, Heard, Finish PROVE Cursors' /\ Heard'
  OBVIOUS
<1>1. Through /\ UNCHANGED <<net, heard, fired>>
  BY DEF Finish
<1>2. \/ run' = NoRun
      \/ run' = [run EXCEPT !.phase = "currents", !.tick = @ + 1, !.g = 0, !.h = 0]
  BY DEF Finish
<1>3. run'.phase \in {"idle", "currents"} /\ run'.g = 0 /\ run'.h = 0 /\ run'.left = <<>>
  <2>1. CASE run' = NoRun
    BY <2>1 DEF NoRun
  <2>2. CASE run' = [run EXCEPT !.phase = "currents", !.tick = @ + 1, !.g = 0, !.h = 0]
    BY <1>1, <2>2, RunIs DEF Runs, Through
  <2> QED
    BY <1>2, <2>1, <2>2
<1>4. Cursors' /\ ~Reporting'
  BY <1>3 DEF Cursors, Reporting, OnCuda, At
<1> QED
  BY <1>1, <1>4, Elsewhere

\* Most steps of CUDA leave the report as it is.
LEMMA CudaHeard ==
  ASSUME Types, Cursors, Heard, ~Reporting, UNCHANGED <<net, heard, fired>>,
         run'.phase \notin {"report", "cuda_report"},
         \/ /\ run'.phase \in {"launch", "fetch", "download", "fallback"} /\ (run'.phase = "launch" => run.g = 0)
            /\ run'.g = run.g /\ run'.h = run.h /\ run'.left = run.left
         \/ run'.g = 0 /\ run'.h = 0 /\ (run'.left = <<>> \/ run'.left = run.left)
  PROVE  Cursors' /\ Heard'
<1>1. run.left = <<>> /\ ~Reporting'
  BY DEF Cursors, Reporting, OnCuda, At
<1>2. Cursors'
  BY <1>1 DEF Cursors
<1> QED
  BY <1>1, <1>2, Elsewhere

\* The steps of CUDA that report nothing.
LEMMA CudasHeard ==
  Types /\ Cursors /\ Heard /\ (Refuse \/ Upload \/ Launch \/ NextLaunch \/ Download \/ DriverFails \/ Fallback)
    => Cursors' /\ Heard'
<1> SUFFICES ASSUME Types, Cursors, Heard, Refuse \/ Upload \/ Launch \/ NextLaunch \/ Download \/ DriverFails \/ Fallback
             PROVE  Cursors' /\ Heard'
  OBVIOUS
<1>1. UNCHANGED <<net, heard, fired>> /\ run.phase \in {"upload", "launch", "fetch", "download", "fallback"}
  BY DEF Refuse, Upload, Launch, NextLaunch, Download, DriverFails, Fallback, hostVars, At
<1>2. ~Reporting
  BY <1>1 DEF Reporting, OnCuda, At
<1>3. CASE Refuse \/ Launch \/ DriverFails \/ run' = [run EXCEPT !.phase = "download"]
  <2>1. \E p \in {"fetch", "download", "fallback"} : run' = [run EXCEPT !.phase = p]
    BY <1>3 DEF Refuse, Launch, DriverFails, Goto
  <2>2. run'.phase \in {"fetch", "download", "fallback"} /\ run'.g = run.g /\ run'.h = run.h /\ run'.left = run.left
    BY <2>1, RunIs DEF Runs
  <2> QED
    BY <1>1, <1>2, <2>2, CudaHeard
<1>4. CASE Upload
  <2>1. run.phase = "upload" /\ run' = [run EXCEPT !.phase = "launch"]
    BY <1>4 DEF Upload, Goto, At
  <2>2. run'.phase = "launch" /\ run'.g = run.g /\ run'.h = run.h /\ run'.left = run.left /\ run.g = 0
    BY <2>1, RunIs DEF Runs, Cursors
  <2> QED
    BY <1>1, <1>2, <2>2, CudaHeard
<1>5. CASE NextLaunch /\ run' # [run EXCEPT !.phase = "download"]
  <2>1. run' = [run EXCEPT !.phase = "launch", !.tick = @ + 1, !.g = 0, !.h = 0]
    BY <1>5 DEF NextLaunch
  <2>2. run'.phase = "launch" /\ run'.g = 0 /\ run'.h = 0 /\ run'.left = run.left
    BY <2>1, RunIs DEF Runs
  <2> QED
    BY <1>1, <1>2, <2>2, CudaHeard
<1>6. CASE Download
  <2>1. run' = NoRun
    BY <1>6 DEF Download
  <2>2. run'.phase = "idle" /\ run'.g = 0 /\ run'.h = 0 /\ run'.left = <<>>
    BY <2>1 DEF NoRun
  <2> QED
    BY <1>1, <1>2, <2>2, CudaHeard
<1>7. CASE Fallback
  <2>1. run' = [run EXCEPT !.phase = "currents", !.tick = 0, !.cursor = 1, !.n = Len(queue), !.g = 0, !.h = 0, !.left = <<>>]
    BY <1>7 DEF Fallback
  <2>2. run'.phase = "currents" /\ run'.g = 0 /\ run'.h = 0 /\ run'.left = <<>>
    BY <2>1, RunIs DEF Runs
  <2> QED
    BY <1>1, <1>2, <2>2, CudaHeard
<1> QED
  BY <1>3, <1>4, <1>5, <1>6, <1>7

\* A group is left when its last handler has heard everything.
LEMMA MirrorHeard == Types /\ Cursors /\ Heard /\ Mirror => Cursors' /\ Heard'
<1> SUFFICES ASSUME Types, Cursors, Heard, Mirror PROVE Cursors' /\ Heard'
  OBVIOUS
<1>1. Through /\ run' = [run EXCEPT !.phase = "fetch"] /\ UNCHANGED <<net, heard, fired>>
  BY DEF Mirror, Goto, hostVars
<1>2. run'.phase = "fetch" /\ run'.g = run.g /\ run'.h = run.h /\ run'.left = <<>>
  BY <1>1, RunIs DEF Runs, Through
<1>3. Cursors' /\ ~Reporting'
  BY <1>1, <1>2 DEF Cursors, Reporting, OnCuda, At
<1> QED
  BY <1>1, <1>3, Elsewhere

\* Every step keeps the cursors and what has been heard.
LEMMA NextHeard == Types /\ Cursors /\ Heard /\ [Next]_vars => Cursors' /\ Heard'
<1> SUFFICES ASSUME Types, Cursors, Heard, [Next]_vars PROVE Cursors' /\ Heard'
  OBVIOUS
<1>1. CASE Start
  BY <1>1, StartHeard
<1>2. CASE Tick
  BY <1>2, PhasesHeard, NextGroupHeard, NextHandlerHeard, LogSpikeHeard, CallHandlerHeard, FinishHeard DEF Tick
<1>3. CASE Cuda
  BY <1>3, CudasHeard, FetchHeard, MirrorHeard DEF Cuda
<1>4. CASE UNCHANGED vars
  <2>1. UNCHANGED <<net, run, heard, fired, clock, cell, device>>
    BY <1>4 DEF vars
  <2>2. Cursors'
    BY <2>1 DEF Cursors, Reporting, OnCuda, At
  <2>3. \A g \in Group : Calls(g)'
    <3> SUFFICES ASSUME NEW g \in Group PROVE Calls(g)'
      OBVIOUS
    <3>1. Calls(g)
      BY DEF Heard
    <3>2. Now' = Now /\ Source(run.g)' = Source(run.g) /\ Reporting' = Reporting
      BY <2>1 DEF Now, Source, Reporting, OnCuda, At
    <3>3. \A h \in Nat : Items(Pending(h))' = Items(Pending(h))
      BY <2>1, <3>2 DEF Items, Pending
    <3> QED
      BY <2>1, <3>1, <3>2, <3>3 DEF Calls
  <2> QED
    BY <2>1, <2>2, <2>3 DEF Heard
<1> QED
  BY <1>1, <1>2, <1>3, <1>4 DEF Next

\* Once each of its handlers has been called for a spike, it has been called for it
\* once, and for the spikes in the order the log has them.
THEOREM SimulationHandlersCalled == Spec => [](\A g \in Group : HandlersCalled(g))
<1>1. Types /\ Cursors /\ Heard => \A g \in Group : HandlersCalled(g)
  BY DEF Heard, Calls, HandlersCalled
<1>2. Init => Types /\ Cursors /\ Heard
  BY InitTypes, InitHeard
<1>3. Types /\ Cursors /\ Heard /\ [Next]_vars => (Types /\ Cursors /\ Heard)'
  BY NextTypes, NextHeard
<1> QED
  BY <1>1, <1>2, <1>3, PTL DEF Spec

-----------------------------------------------------------------------------
(* The logs.                                                                *)

\* The end of f is l, position by position.
EndsIn(f, l) ==
  /\ Len(l) <= Len(f)
  /\ \A i \in 1 .. Len(l) : l[i] = f[Len(f) - Len(l) + i]

\* The spikes of a group so far and its log are sequences over one set of
\* spikes, the log ends the spikes, and is as long as dropping halves leaves it.
Kept == LogCap + 1 - Half(LogCap + 1)
Window(f, l) ==
  \E S : /\ f \in Seq(S) /\ l \in Seq(S)
         /\ EndsIn(f, l)
         /\ Len(l) <= LogCap /\ (Len(l) >= Kept \/ l = f)
IInv == log = [g \in Group |-> log[g]] /\ fired = [g \in Group |-> fired[g]]
        /\ \A g \in Group : Window(fired[g], log[g])

\* Dropping keeps at least half, and at most what the log may hold.
LEMMA KeptFits == Kept \in Nat /\ Half(LogCap + 1) \in 0 .. LogCap + 1 /\ Kept <= LogCap
                  /\ LogCap \in Nat /\ Kept = LogCap + 1 - Half(LogCap + 1)
  BY LogAssumption DEF Kept, Half

\* One more spike: the log is appended to, and cut if that makes it too long.
LEMMA OneMore ==
  ASSUME NEW f, NEW l, NEW x, Window(f, l)
  PROVE  Window(Append(f, x), Dropped(Append(l, x)))
<1>1. PICK S0 : /\ f \in Seq(S0) /\ l \in Seq(S0) /\ EndsIn(f, l)
                /\ Len(l) <= LogCap /\ (Len(l) >= Kept \/ l = f)
  BY DEF Window
<1> DEFINE S == S0 \cup {x}
           f1 == Append(f, x)
           l1 == Append(l, x)
<1>2. f \in Seq(S) /\ l \in Seq(S) /\ x \in S
  BY <1>1
<1>3. /\ f1 \in Seq(S) /\ l1 \in Seq(S) /\ Len(f1) = Len(f) + 1 /\ Len(l1) = Len(l) + 1
      /\ Len(f) \in Nat /\ Len(l) \in Nat
      /\ \A i \in 1 .. Len(l) : l1[i] = l[i]
      /\ \A i \in 1 .. Len(f) : f1[i] = f[i]
      /\ l1[Len(l) + 1] = x /\ f1[Len(f) + 1] = x
  BY <1>2, AppendProperties, LenProperties
<1>4. l = f => l1 = f1
  OBVIOUS
<1>5. EndsIn(f1, l1)
  <2> HIDE DEF f1, l1, S
  <2>1. Len(l1) <= Len(f1)
    BY <1>1, <1>3 DEF EndsIn
  <2>2. ASSUME NEW i \in 1 .. Len(l1) PROVE l1[i] = f1[Len(f1) - Len(l1) + i]
    <3>1. Len(f1) - Len(l1) + i = Len(f) - Len(l) + i /\ Len(l) <= Len(f)
      BY <1>1, <1>3 DEF EndsIn
    <3>2. CASE i = Len(l) + 1
      <4>1. Len(f) - Len(l) + i = Len(f) + 1
        BY <1>3, <3>2
      <4> QED
        BY <1>3, <3>1, <3>2, <4>1
    <3>3. CASE i \in 1 .. Len(l)
      <4>1. Len(f) - Len(l) + i \in 1 .. Len(f)
        BY <1>3, <3>1, <3>3
      <4>2. l[i] = f[Len(f) - Len(l) + i]
        BY <1>1, <3>3 DEF EndsIn
      <4> QED
        BY <1>3, <3>1, <3>3, <4>1, <4>2
    <3> QED
      BY <1>3, <3>2, <3>3
  <2> QED
    BY <2>1, <2>2 DEF EndsIn
<1> HIDE DEF S, f1, l1
<1>6. CASE ~(Len(l1) > LogCap)
  <2>1. Dropped(l1) = l1
    BY <1>6 DEF Dropped
  <2>2. Len(l1) <= LogCap /\ (Len(l1) >= Kept \/ l1 = f1)
    BY <1>1, <1>3, <1>4, <1>6, KeptFits, LogAssumption
  <2> QED
    BY <1>3, <1>5, <2>1, <2>2 DEF Window, f1, l1
<1>7. CASE Len(l1) > LogCap
  <2> DEFINE h == Half(LogCap + 1)
             d == SubSeq(l1, h + 1, Len(l1))
  <2>1. Len(l1) = LogCap + 1
    BY <1>1, <1>3, <1>7, LogAssumption
  <2>2. Dropped(l1) = d /\ h \in Nat /\ h <= Len(l1) /\ Len(l1) - h = Kept
    BY <1>7, <2>1, KeptFits, SMTT(30) DEF Dropped
  <2>3. /\ d \in Seq(S) /\ Len(d) = Kept
        /\ \A i \in 1 .. Kept : d[i] = l1[h + i]
    <3> HIDE DEF h
    <3>1. h + 1 \in 1 .. Len(l1) + 1 /\ Len(l1) \in 0 .. Len(l1) /\ Len(l1) \in Nat
      BY <1>3, <2>2
    <3>2. d \in Seq(S)
      BY <1>3, <3>1
    <3>3. Len(d) = Kept
      BY <1>3, <2>2, <3>1, KeptFits
    <3> QED
      BY <1>3, <2>2, <3>1, <3>2, <3>3, KeptFits, SMTT(30)
  <2> HIDE DEF h, d
  <2>4. EndsIn(f1, d)
    <3>1. Len(d) <= Len(f1) /\ Len(l1) <= Len(f1)
      BY <1>3, <1>5, <2>2, <2>3, KeptFits DEF EndsIn
    <3>2. ASSUME NEW i \in 1 .. Len(d) PROVE d[i] = f1[Len(f1) - Len(d) + i]
      <4>1. h + i \in 1 .. Len(l1) /\ Len(f1) - Len(l1) + (h + i) = Len(f1) - Len(d) + i
        <5>1. Len(l1) \in Nat /\ Len(f1) \in Nat /\ i \in Nat /\ 1 <= i /\ i <= Len(l1) - h /\ Len(d) = Len(l1) - h
          BY <1>3, <2>2, <2>3, KeptFits
        <5> QED
          BY <2>2, <5>1
      <4>2. l1[h + i] = f1[Len(f1) - Len(l1) + (h + i)]
        BY <1>5, <4>1 DEF EndsIn
      <4> QED
        BY <2>3, <4>1, <4>2
    <3> QED
      BY <3>1, <3>2 DEF EndsIn
  <2> QED
    BY <1>3, <2>2, <2>3, <2>4, KeptFits DEF Window, f1, l1
<1> QED
  BY <1>3, <1>6, <1>7, LogAssumption

\* Initially the logs are empty.
LEMMA InitInv == Init => IInv
<1> SUFFICES ASSUME Init, NEW g \in Group PROVE Window(<<>>, <<>>)
  BY DEF Init, IInv
<1> QED
  BY LogAssumption DEF Window, EndsIn

\* Every step keeps the windows: only one appends to a log.
LEMMA NextInv == IInv /\ [Next]_vars => IInv'
<1> SUFFICES ASSUME IInv, [Next]_vars PROVE IInv'
  OBVIOUS
<1>1. CASE LogSpike
  <2> DEFINE r == run.g
             spike == [t |-> Now, i |-> Head(run.left)]
  <2>1. log' = [log EXCEPT ![r] = Dropped(Append(@, spike))]
        /\ fired' = [fired EXCEPT ![r] = Append(@, spike)]
    BY <1>1 DEF LogSpike
  <2> HIDE DEF r, spike
  <2>2. /\ log' = [g \in Group |-> log'[g]] /\ fired' = [g \in Group |-> fired'[g]]
        /\ \A g \in Group : log'[g] = IF g = r THEN Dropped(Append(log[g], spike)) ELSE log[g]
        /\ \A g \in Group : fired'[g] = IF g = r THEN Append(fired[g], spike) ELSE fired[g]
    BY <2>1 DEF IInv
  <2>3. ASSUME NEW g \in Group PROVE Window(fired'[g], log'[g])
    <3>1. Window(fired[g], log[g])
      BY DEF IInv
    <3>2. Window(Append(fired[g], spike), Dropped(Append(log[g], spike)))
      BY <3>1, OneMore
    <3> QED
      BY <2>2, <3>1, <3>2
  <2> QED
    BY <2>2, <2>3 DEF IInv
<1>2. CASE UNCHANGED <<log, fired>>
  BY <1>2 DEF IInv
<1>3. CASE Start
  BY <1>2, <1>3 DEF Start, ScheduleInject, Run
<1>4. CASE Tick
  BY <1>1, <1>2, <1>4 DEF Tick, Currents, Injections, Inputs, Fire, Learn, Trace, NextGroup, NextHandler,
     CallHandler, Finish, tickVars
<1>5. CASE Cuda
  BY <1>2, <1>5 DEF Cuda, Refuse, Upload, Launch, Fetch, Mirror, NextLaunch, Download, DriverFails, Fallback, hostVars
<1>6. CASE UNCHANGED vars
  BY <1>2, <1>6 DEF vars
<1> QED
  BY <1>3, <1>4, <1>5, <1>6 DEF Next

\* The invariant holds in every reachable state.
THEOREM SimulationInvariant == Spec => []IInv
  BY InitInv, NextInv, PTL DEF Spec

\* Reversed, a suffix is a prefix.
LEMMA EndsInIsSuffix ==
  ASSUME NEW S, NEW f \in Seq(S), NEW l \in Seq(S), EndsIn(f, l)
  PROVE  IsSuffix(l, f)
<1> DEFINE a == Reverse(l)
           b == Reverse(f)
           n == Len(l)
<1>1. /\ n \in Nat /\ Len(f) \in Nat /\ n <= Len(f)
      /\ \A i \in 1 .. n : l[i] = f[Len(f) - n + i]
      /\ \A i \in 1 .. n : l[i] \in S
      /\ \A i \in 1 .. Len(f) : f[i] \in S
  BY LenProperties, ElementOfSeq DEF EndsIn
<1>2. a \in Seq(S) /\ Len(a) = n /\ \A i \in 1 .. n : a[i] = l[n - i + 1]
  <2>1. \A i \in 1 .. n : n - i + 1 \in 1 .. n
    BY <1>1
  <2>2. a = [i \in 1 .. n |-> l[n - i + 1]]
    BY DEF Reverse
  <2> HIDE DEF a
  <2> QED
    BY <1>1, <2>1, <2>2
<1>3. b \in Seq(S) /\ Len(b) = Len(f) /\ \A i \in 1 .. Len(f) : b[i] = f[Len(f) - i + 1]
  <2>1. \A i \in 1 .. Len(f) : Len(f) - i + 1 \in 1 .. Len(f)
    BY <1>1
  <2>2. b = [i \in 1 .. Len(f) |-> f[Len(f) - i + 1]]
    BY DEF Reverse
  <2> HIDE DEF b
  <2> QED
    BY <1>1, <2>1, <2>2
<1> HIDE DEF a, b, n
<1>4. ASSUME NEW i \in 1 .. n PROVE a[i] = b[i]
  <2>1. n - i + 1 \in 1 .. n /\ Len(f) - n + (n - i + 1) = Len(f) - i + 1 /\ i \in 1 .. Len(f)
    BY <1>1
  <2>2. l[n - i + 1] = f[Len(f) - n + (n - i + 1)]
    BY <1>1, <2>1
  <2> QED
    BY <1>2, <1>3, <2>1, <2>2
<1> DEFINE p == SubSeq(a, 1, n)
           q == SubSeq(b, 1, n)
<1>5. /\ p \in Seq(S) /\ Len(p) = n /\ \A i \in 1 .. n : p[i] = a[i]
      /\ q \in Seq(S) /\ Len(q) = n /\ \A i \in 1 .. n : q[i] = b[i]
  BY <1>1, <1>2, <1>3, SubSeqProperties
<1> HIDE DEF p, q
<1>6. p = q
  BY <1>4, <1>5, SeqEqual
<1> QED
  BY <1>1, <1>2, <1>3, <1>6 DEF IsSuffix, IsPrefix, a, b, p, q

\* A log is the end of what its group has fired: at most what it may hold, and at
\* least half of it, or everything (network.cpp 1192-1203).
THEOREM SimulationRecentWindow == Spec => [](\A g \in Group : RecentWindow(g))
<1>1. IInv => \A g \in Group : RecentWindow(g)
  <2> SUFFICES ASSUME IInv, NEW g \in Group PROVE RecentWindow(g)
    OBVIOUS
  <2>1. PICK S : /\ fired[g] \in Seq(S) /\ log[g] \in Seq(S) /\ EndsIn(fired[g], log[g])
                 /\ Len(log[g]) <= LogCap /\ (Len(log[g]) >= Kept \/ log[g] = fired[g])
    BY DEF IInv, Window
  <2>2. IsSuffix(log[g], fired[g])
    BY <2>1, EndsInIsSuffix
  <2>3. Len(log[g]) >= Min({Len(fired[g]), Kept})
    <3>1. Len(fired[g]) \in Nat /\ Len(log[g]) \in Nat /\ Kept \in Nat
      BY <2>1, KeptFits, LenProperties
    <3>2. \A m, k \in Nat : Min({m, k}) \in {m, k} /\ Min({m, k}) <= m /\ Min({m, k}) <= k
      <4> SUFFICES ASSUME NEW m \in Nat, NEW k \in Nat
                   PROVE  Min({m, k}) \in {m, k} /\ Min({m, k}) <= m /\ Min({m, k}) <= k
        OBVIOUS
      <4>1. \E x \in {m, k} : \A y \in {m, k} : x <= y
        OBVIOUS
      <4> QED
        BY <4>1 DEF Min
    <3> QED
      BY <2>1, <3>1, <3>2
  <2> QED
    BY <2>1, <2>2, <2>3 DEF RecentWindow, Kept
<1> QED
  BY <1>1, SimulationInvariant, PTL

\* Logs and handlers together, for every network, on either engine, wherever CUDA
\* fails and whatever the handlers do.
THEOREM SimulationLogIsRecentWindow == Spec => []LogIsRecentWindow
<1>1. (\A g \in Group : RecentWindow(g)) /\ (\A g \in Group : HandlersCalled(g)) => LogIsRecentWindow
  BY DEF LogIsRecentWindow
<1> QED
  BY <1>1, SimulationRecentWindow, SimulationHandlersCalled, PTL

-----------------------------------------------------------------------------
(* What neurons are held at.                                                *)

\* The injections of a run, in the queue's times: those of the first c entries that
\* are for a neuron, and the current of the last of them.
Base == clock - run.tick * run.dt
Deadline == IF run.phase \in {"inputs", "fire", "learn", "trace", "report"} THEN clock + run.dt ELSE clock
Given(c, g, i) == {j \in 1 .. c : queue[j].g = g /\ i >= queue[j].lo /\ i < queue[j].hi /\ queue[j].t >= Base}
Lasting(x, c) ==
  \A g \in Group : \A i \in Neuron(g) :
     \/ Given(c, g, i) = {} /\ x[g].hold[i] = 0
     \/ \E j \in Given(c, g, i) : x[g].hold[i] = queue[j].cur /\ \A m \in Given(c, g, i) : m <= j

\* Of a run that CUDA has not failed: its queue begins with the program's injections,
\* sorted and on the global clock, the cursor is at the first whose time has not
\* come, and each neuron is held at the current of the last before it.
Planned == Ordered(DOMAIN begun.planned, Sooner(begun.planned))
Scheduled ==
  /\ begun.planned \in Seq(Emits) /\ run.n = Len(begun.planned)
  /\ \A k \in 1 .. run.n : queue[k] = [begun.planned[Planned[k]] EXCEPT !.t = @ + Base]
  /\ \A k \in 1 .. run.cursor - 1 : queue[k].t < Deadline
  /\ \A k \in run.cursor .. run.n : queue[k].t >= Deadline \/ queue[k].t < Base
  /\ Lasting(cell, run.cursor - 1)
Schedule ==
  /\ "failed" \in DOMAIN begun
  /\ ~begun.failed =>
       /\ run.phase \in {"currents", "injections", "inputs", "fire", "learn", "trace", "report", "upload", "fallback"} => Scheduled
       /\ run.phase \in {"upload", "fallback"} => run.tick = 0 /\ run.cursor = 1 /\ Len(queue) = run.n

\* The numbers of a run and the entries of its queue.
LEMMA Numbered ==
  Types => /\ run.n \in Nat /\ run.cursor \in Nat \ {0} /\ run.dt \in Nat \ {0} /\ run.tick \in Nat /\ clock \in Nat
           /\ Len(queue) \in Nat /\ run.n <= Len(queue) /\ run.cursor <= run.n + 1
           /\ run.tick * run.dt \in Nat /\ Base \in Int /\ Deadline \in Int /\ Base <= clock
           /\ \A k \in 1 .. Len(queue) : queue[k] \in Emits /\ queue[k].t \in Int
<1> SUFFICES ASSUME Types
             PROVE  /\ run.n \in Nat /\ run.cursor \in Nat \ {0} /\ run.dt \in Nat \ {0} /\ run.tick \in Nat /\ clock \in Nat
                    /\ Len(queue) \in Nat /\ run.n <= Len(queue) /\ run.cursor <= run.n + 1
                    /\ run.tick * run.dt \in Nat /\ Base \in Int /\ Deadline \in Int /\ Base <= clock
                    /\ \A k \in 1 .. Len(queue) : queue[k] \in Emits /\ queue[k].t \in Int
  OBVIOUS
<1>1. /\ run.n \in Nat /\ run.cursor \in Nat \ {0} /\ run.dt \in Nat \ {0} /\ run.tick \in Nat /\ clock \in Nat
      /\ Len(queue) \in Nat /\ run.n <= Len(queue) /\ run.cursor <= run.n + 1
  BY LenProperties DEF Types, Runs
<1>2. ASSUME NEW a \in Nat, NEW b \in Nat PROVE a * b \in Nat
  OBVIOUS
<1>3. run.tick * run.dt \in Nat
  BY <1>1, <1>2
<1>4. Base \in Int /\ Deadline \in Int /\ Base <= clock
  BY <1>1, <1>3 DEF Base, Deadline
<1>5. ASSUME NEW k \in 1 .. Len(queue) PROVE queue[k] \in Emits /\ queue[k].t \in Int
  <2>1. queue[k] \in Emits
    BY ElementOfSeq DEF Types
  <2> QED
    BY <2>1 DEF Emits
<1> QED
  BY <1>1, <1>3, <1>4, <1>5

\* A step that leaves the queue up to the end of the run, the hold and the deadline.
LEMMA StillScheduled ==
  ASSUME Types, Scheduled, begun' = begun, Base' = Base, Deadline' = Deadline,
         run'.n = run.n, run'.cursor = run.cursor,
         \A k \in 1 .. run.n : queue'[k] = queue[k], \A g \in Group : cell'[g].hold = cell[g].hold
  PROVE  Scheduled'
<1>1. \A k \in 1 .. run.cursor - 1 : k \in 1 .. run.n
  BY Numbered
<1>2. \A k \in run.cursor .. run.n : k \in 1 .. run.n
  BY Numbered
<1>3. \A g \in Group : \A i \in Neuron(g) : Given(run.cursor - 1, g, i)' = Given(run.cursor - 1, g, i)
  BY <1>1 DEF Given
<1>4. \A g \in Group : \A i \in Neuron(g) : \A j \in Given(run.cursor - 1, g, i) : queue'[j] = queue[j]
  BY <1>1 DEF Given
<1>5. Lasting(cell, run.cursor - 1)'
  BY <1>3, <1>4 DEF Lasting, Scheduled
<1>6. Planned' = Planned
  BY DEF Planned
<1> QED
  BY <1>1, <1>2, <1>5, <1>6 DEF Scheduled

\* Initially there is no run.
LEMMA InitSchedule == Init => Schedule
  BY DEF Init, Schedule, NoRun

\* One more entry of the queue.
LEMMA OneApplied ==
  ASSUME Types, NEW x, Cells(x), NEW c \in Nat, Lasting(x, c), c + 1 \in 1 .. Len(queue),
         queue[c + 1].t >= clock \/ queue[c + 1].t < Base
  PROVE  Cells(Applied(x, queue[c + 1])) /\ Lasting(Applied(x, queue[c + 1]), c + 1)
<1> DEFINE q == queue[c + 1]
           y == Applied(x, q)
<1>1. q \in Emits /\ q.t \in Int /\ clock \in Nat /\ Base \in Int /\ Base <= clock
  BY Numbered
<1> HIDE DEF q
<1>2. Cells(y) /\ \A g \in Group : y[g] = [x[g] EXCEPT !.hold = [i \in Neuron(g) |-> HeldBy(x, q, g, i)]]
  BY <1>1, AppliedCells
<1>3. ASSUME NEW g \in Group, NEW i \in Neuron(g)
      PROVE  \/ Given(c + 1, g, i) = {} /\ y[g].hold[i] = 0
             \/ \E j \in Given(c + 1, g, i) : y[g].hold[i] = queue[j].cur /\ \A m \in Given(c + 1, g, i) : m <= j
  <2>1. y[g].hold[i] = HeldBy(x, q, g, i)
    <3>1. x[g] \in CellOf(g)
      BY DEF Cells
    <3> DEFINE h == [k \in Neuron(g) |-> HeldBy(x, q, g, k)]
    <3>2. h[i] = HeldBy(x, q, g, i) /\ y[g] = [x[g] EXCEPT !.hold = h]
      BY <1>2
    <3> HIDE DEF h, y
    <3> QED
      BY <3>1, <3>2 DEF CellOf
  <2> DEFINE now == q.g = g /\ i >= q.lo /\ i < q.hi /\ q.t >= Base
  <2>2. \A j : j \in Given(c + 1, g, i) <=> j \in Given(c, g, i) \/ (j = c + 1 /\ now)
    BY DEF Given, q
  <2>3. \A j \in Given(c, g, i) : j \in Nat /\ j <= c
    BY DEF Given
  <2>4. q.t >= clock <=> q.t >= Base
    BY <1>1 DEF q
  <2>5. CASE now
    <3>1. y[g].hold[i] = q.cur
      BY <2>1, <2>4, <2>5 DEF HeldBy
    <3>2. c + 1 \in Given(c + 1, g, i) /\ \A m \in Given(c + 1, g, i) : m <= c + 1
      BY <2>2, <2>3, <2>5
    <3> QED
      BY <3>1, <3>2 DEF q
  <2>6. CASE ~now
    <3>1. y[g].hold[i] = x[g].hold[i]
      BY <2>1, <2>4, <2>6 DEF HeldBy
    <3>2. Given(c + 1, g, i) = Given(c, g, i)
      BY <2>2, <2>6
    <3> QED
      BY <3>1, <3>2 DEF Lasting
  <2> QED
    BY <2>5, <2>6
<1> QED
  BY <1>2, <1>3 DEF Lasting, q

\* The entries of the queue that are the run's are in the order of their times.
LEMMA QueueOrdered ==
  ASSUME Types, Scheduled
  PROVE  /\ Planned \in [1 .. run.n -> 1 .. run.n]
         /\ \A k \in 1 .. run.n : \E j \in 1 .. run.n : Planned[j] = k
         /\ \A k \in 1 .. run.n : begun.planned[k] \in Emits
         /\ \A j, k \in 1 .. run.n : j < k => <<Planned[j], Planned[k]>> \in Sooner(begun.planned)
         /\ \A j, k \in 1 .. run.n : j < k => queue[j].t <= queue[k].t
<1> DEFINE P == begun.planned
           n == run.n
<1>1. P \in Seq(Emits) /\ n = Len(P)
  BY DEF Scheduled
<1>2. Strict(Sooner(P), DOMAIN P) /\ IsFiniteSet(DOMAIN P) /\ DOMAIN P = 1 .. n /\ n \in Nat /\ Cardinality(DOMAIN P) = n
  BY <1>1, SoonerStrict
<1>3. /\ Planned \in [1 .. n -> 1 .. n]
      /\ \A a, b \in 1 .. n : a < b => <<Planned[a], Planned[b]>> \in Sooner(P)
      /\ \A k \in 1 .. n : \E r \in 1 .. n : Planned[r] = k
  BY <1>2, OrderedLists DEF Planned
<1>4. \A k \in 1 .. n : P[k] \in Emits /\ P[k].t \in Int
  <2> SUFFICES ASSUME NEW k \in 1 .. n PROVE P[k] \in Emits /\ P[k].t \in Int
    OBVIOUS
  <2>1. P[k] \in Emits
    BY <1>1, ElementOfSeq
  <2> QED
    BY <2>1 DEF Emits
<1>5. \A k \in 1 .. n : queue[k].t = P[Planned[k]].t + Base
  <2> SUFFICES ASSUME NEW k \in 1 .. n PROVE queue[k].t = P[Planned[k]].t + Base
    OBVIOUS
  <2>1. P[Planned[k]] \in Emits /\ queue[k] = [P[Planned[k]] EXCEPT !.t = P[Planned[k]].t + Base]
    BY <1>3, <1>4 DEF Scheduled
  <2> QED
    BY <2>1 DEF Emits
<1>6. ASSUME NEW j \in 1 .. n, NEW k \in 1 .. n, j < k PROVE queue[j].t <= queue[k].t
  <2>1. <<Planned[j], Planned[k]>> \in Sooner(P)
    BY <1>3, <1>6
  <2>2. P[Planned[j]].t <= P[Planned[k]].t
    <3>1. P[Planned[j]].t < P[Planned[k]].t \/ P[Planned[j]].t = P[Planned[k]].t
      BY <2>1 DEF Sooner
    <3>2. P[Planned[j]].t \in Int /\ P[Planned[k]].t \in Int
      BY <1>3, <1>4
    <3> QED
      BY <3>1, <3>2
  <2>3. P[Planned[j]].t \in Int /\ P[Planned[k]].t \in Int /\ Base \in Int
    BY <1>3, <1>4, Numbered
  <2>4. queue[j].t = P[Planned[j]].t + Base /\ queue[k].t = P[Planned[k]].t + Base
    BY <1>5
  <2> QED
    BY <2>2, <2>3, <2>4
<1> QED
  BY <1>3, <1>4, <1>6

\* The injections phase brings the hold up to the end of the tick.
LEMMA InjectionsScheduled == ASSUME Types, Types', Scheduled, Injections PROVE Scheduled'
<1> DEFINE c == run.cursor
           n == run.n
           o == Onward
<1>1. /\ run' = [run EXCEPT !.phase = "inputs", !.cursor = o] /\ run.phase = "injections"
      /\ UNCHANGED <<net, clock, queue, begun>>
  BY DEF Injections, tickVars, At, Onward, Late
<1>2. /\ o \in c .. n + 1 /\ o - c \in Nat
      /\ \A k \in c .. o - 1 : queue[k].t < clock + run.dt
      /\ o <= n => queue[o].t >= clock + run.dt
  BY OnwardIs
<1>3. /\ n \in Nat /\ c \in Nat \ {0} /\ c <= n + 1 /\ run.dt \in Nat \ {0} /\ clock \in Nat
      /\ Base \in Int /\ Base <= clock /\ n <= Len(queue) /\ Len(queue) \in Nat
      /\ \A k \in 1 .. n : queue[k].t \in Int
  BY Numbered
<1>4. /\ run'.phase = "inputs" /\ run'.cursor = o /\ run'.n = n /\ run'.tick = run.tick /\ run'.dt = run.dt
  BY <1>1 DEF Types, Runs
<1>5. Base' = Base /\ Deadline = clock /\ Deadline' = clock + run.dt
  BY <1>1, <1>4 DEF Base, Deadline
<1>6. PICK f : Passes(f, CellSet, o - c, cell, Applying) /\ cell' = f[o - c]
  BY InjectionsPass
<1>7. /\ \A k \in 1 .. c - 1 : queue[k].t < clock
      /\ \A k \in c .. n : queue[k].t >= clock \/ queue[k].t < Base
      /\ Lasting(cell, c - 1)
  BY <1>5 DEF Scheduled
<1>8. \A j, k \in 1 .. n : j < k => queue[j].t <= queue[k].t
  BY QueueOrdered
<1> HIDE DEF c, n, o
<1>9. \A k \in 1 .. o - 1 : queue[k].t < clock + run.dt
  <2> SUFFICES ASSUME NEW k \in 1 .. o - 1 PROVE queue[k].t < clock + run.dt
    OBVIOUS
  <2>1. CASE k \in c .. o - 1
    BY <1>2, <2>1
  <2>2. CASE k \in 1 .. c - 1
    <3>1. k \in 1 .. n /\ queue[k].t < clock
      BY <1>3, <1>7, <2>2
    <3> QED
      BY <1>3, <3>1
  <2>3. k \in c .. o - 1 \/ k \in 1 .. c - 1
    BY <1>2, <1>3
  <2> QED
    BY <2>1, <2>2, <2>3
<1>10. \A k \in o .. n : queue[k].t >= clock + run.dt
  <2> SUFFICES ASSUME NEW k \in o .. n PROVE queue[k].t >= clock + run.dt
    OBVIOUS
  <2>1. o \in 1 .. n /\ k \in 1 .. n /\ queue[o].t >= clock + run.dt
    BY <1>2, <1>3
  <2>2. k = o \/ queue[o].t <= queue[k].t
    BY <1>8, <2>1
  <2>3. queue[o].t \in Int /\ queue[k].t \in Int
    BY <1>3, <2>1
  <2> QED
    BY <1>3, <2>1, <2>2, <2>3
<1>11. Lasting(f[o - c], o - 1)
  <2> DEFINE N == o - c
             I == {r \in 0 .. N : Lasting(f[r], c - 1 + r)}
  <2>1. N \in Nat
    BY <1>2
  <2>2. 0 \in I
    BY <1>3, <1>6, <1>7, <2>1 DEF Passes
  <2>3. ASSUME NEW r \in 1 .. N, r - 1 \in I PROVE r \in I
    <3>1. r - 1 \in 0 .. N /\ r \in 0 .. N /\ Lasting(f[r - 1], c - 1 + (r - 1))
      BY <2>3
    <3> DEFINE b == c - 1 + (r - 1)
    <3>2. b \in Nat /\ b + 1 = c + r - 1 /\ b + 1 = c - 1 + r /\ b + 1 \in c .. n /\ b + 1 \in 1 .. Len(queue)
      BY <1>2, <1>3, <2>1, <2>3
    <3>3. f[r - 1] \in CellSet /\ f[r] = Applying[<<f[r - 1], r>>]
      BY <1>6, <3>1 DEF Passes
    <3>4. f[r] = Applied(f[r - 1], queue[b + 1]) /\ Cells(f[r - 1])
      BY <3>2, <3>3, CellSetIs DEF Applying, c
    <3>5. Lasting(f[r - 1], b) /\ (queue[b + 1].t >= clock \/ queue[b + 1].t < Base)
      BY <1>7, <3>1, <3>2
    <3> HIDE DEF b
    <3>6. Lasting(f[r], b + 1)
      BY <3>2, <3>4, <3>5, OneApplied
    <3> QED
      BY <3>1, <3>2, <3>6
  <2> HIDE DEF N
  <2>4. \A r \in 0 .. N : r \in I
    <3> HIDE DEF I
    <3> QED
      BY <2>1, <2>2, <2>3, Induction
  <2>5. N \in I /\ c - 1 + N = o - 1
    BY <1>2, <1>3, <2>1, <2>4 DEF N
  <2> QED
    BY <2>5 DEF N
<1>12. Lasting(cell, run.cursor - 1)'
  <2>1. Lasting(cell', o - 1)
    BY <1>6, <1>11
  <2>2. \A g \in Group : \A i \in Neuron(g) : Given(run.cursor - 1, g, i)' = Given(o - 1, g, i)
    BY <1>1, <1>4, <1>5 DEF Given
  <2>3. queue' = queue
    BY <1>1
  <2>4. \A g \in Group : \A i \in Neuron(g) :
          \/ Given(run.cursor - 1, g, i)' = {} /\ cell'[g].hold[i] = 0
          \/ \E j \in Given(run.cursor - 1, g, i)' :
               cell'[g].hold[i] = queue'[j].cur /\ \A m \in Given(run.cursor - 1, g, i)' : m <= j
    BY <2>1, <2>2, <2>3 DEF Lasting
  <2> QED
    BY <2>4 DEF Lasting
<1>13. Planned' = Planned
  BY <1>1 DEF Planned
<1>14. /\ begun'.planned \in Seq(Emits) /\ run'.n = Len(begun'.planned)
       /\ \A k \in 1 .. run'.n : queue'[k] = [begun'.planned[Planned'[k]] EXCEPT !.t = @ + Base']
  BY <1>1, <1>4, <1>5, <1>13 DEF Scheduled, n
<1> QED
  BY <1>1, <1>4, <1>5, <1>9, <1>10, <1>12, <1>14 DEF Scheduled

\* A run starts with its queue sorted, on the global clock, and nothing held.
LEMMA RunScheduled ==
  ASSUME Types, Types', NEW d, NEW dt, NEW on, Run(d, dt, on)
  PROVE  Schedule'
<1> DEFINE n == Len(queue)
           o == Ordered(DOMAIN queue, Sooner(queue))
           s == Sorted(queue)
<1>1. /\ queue' = Shifted(s) /\ cell' = Clean(cell) /\ clock' = clock /\ net' = net
      /\ run'.phase \in {"upload", "currents"} /\ run'.n = n /\ run'.cursor = 1 /\ run'.tick = 0 /\ run'.dt = dt
      /\ begun'.planned = queue /\ begun'.failed = FALSE
  BY DEF Run, NoRun
<1>2. "failed" \in DOMAIN begun'
  BY DEF Run
<1>3. queue \in Seq(Emits) /\ n \in Nat /\ DOMAIN queue = 1 .. n /\ clock \in Int
  BY LenProperties DEF Types
<1>4. o \in [1 .. n -> 1 .. n]
  BY <1>3, SoonerStrict, OrderedLists
<1>5. s = [k \in 1 .. n |-> queue[o[k]]]
  BY <1>3 DEF Sorted
<1>6. Base' = clock /\ Deadline' = clock
  <2>1. run'.dt \in Nat
    BY DEF Types, Runs
  <2>2. 0 * run'.dt = 0 /\ clock - 0 = clock
    BY <1>3, <2>1
  <2>3. Base' = clock - 0 * run'.dt
    BY <1>1 DEF Base
  <2> QED
    BY <1>1, <2>2, <2>3 DEF Deadline
<1>7. Planned' = o
  BY <1>1 DEF Planned
<1> HIDE DEF o
<1>8. ASSUME NEW k \in 1 .. n PROVE queue'[k] = [queue[o[k]] EXCEPT !.t = queue[o[k]].t + clock]
  <2>1. DOMAIN s = 1 .. n /\ s[k] = queue[o[k]]
    BY <1>5
  <2> HIDE DEF s
  <2> QED
    BY <1>1, <2>1 DEF Shifted
<1>9. ASSUME NEW k \in 1 .. n PROVE queue'[k].t \in Int
  <2>1. queue' \in Seq(Emits) /\ Len(queue') = n
    BY <1>1, <1>3, ShiftedQueue DEF Types
  <2>2. queue'[k] \in Emits
    BY <2>1, ElementOfSeq
  <2> QED
    BY <2>2 DEF Emits
<1>10. Lasting(cell, run.cursor - 1)'
  <2>1. ASSUME NEW g \in Group, NEW i \in Neuron(g)
        PROVE  Given(run.cursor - 1, g, i)' = {} /\ cell'[g].hold[i] = 0
    <3>1. Given(run.cursor - 1, g, i)' = {}
      BY <1>1 DEF Given
    <3>2. cell'[g] = [cell[g] EXCEPT !.syn = Silent(g).syn, !.hold = Silent(g).hold]
      BY <1>1 DEF Clean
    <3>3. cell[g] \in CellOf(g)
      BY DEF Types, Cells
    <3>4. cell'[g].hold = Silent(g).hold
      BY <3>2, <3>3 DEF CellOf
    <3> QED
      BY <3>1, <3>4 DEF Silent
  <2> QED
    BY <2>1 DEF Lasting
<1>11. Scheduled'
  <2>1. run'.n \in Nat /\ run'.cursor - 1 = 0
    BY <1>1, <1>3
  <2>2. \A k \in 1 .. run'.cursor - 1 : queue'[k].t < Deadline'
    BY <2>1
  <2>3. \A k \in run'.cursor .. run'.n : queue'[k].t >= Deadline' \/ queue'[k].t < Base'
    BY <1>1, <1>3, <1>6, <1>9
  <2>4. \A k \in 1 .. run'.n : queue'[k] = [begun'.planned[Planned'[k]] EXCEPT !.t = @ + Base']
    BY <1>1, <1>6, <1>7, <1>8
  <2> QED
    BY <1>1, <1>3, <1>10, <2>2, <2>3, <2>4 DEF Scheduled
<1>12. Len(queue') = run'.n
  BY <1>1, <1>3, ShiftedQueue DEF Types
<1> QED
  BY <1>1, <1>11, <1>12, <1>2 DEF Schedule

\* A phase of a tick that moves neither the queue nor the hold.
LEMMA PhaseScheduled ==
  ASSUME Types, Types', Schedule, UNCHANGED <<begun, clock>>,
         run'.tick = run.tick, run'.dt = run.dt, run'.n = run.n, run'.cursor = run.cursor,
         \/ run.phase = "currents" /\ run'.phase = "injections"
         \/ run.phase \in {"inputs", "fire", "learn", "trace", "report"}
            /\ run'.phase \in {"inputs", "fire", "learn", "trace", "report"},
         \A k \in 1 .. run.n : queue'[k] = queue[k],
         \A g \in Group : cell'[g].hold = cell[g].hold
  PROVE  Schedule'
<1>1. Base' = Base
  BY DEF Base
<1>2. Deadline' = Deadline
  BY DEF Deadline
<1>3. ASSUME ~begun'.failed PROVE Scheduled'
  <2>1. Scheduled
    BY <1>3 DEF Schedule
  <2> QED
    BY <1>1, <1>2, <2>1, StillScheduled
<1> QED
  BY <1>3 DEF Schedule

\* The currents phase leaves the hold.
LEMMA CurrentsScheduled == ASSUME Types, Types', Schedule, Currents PROVE Schedule'
<1>1. /\ run.phase = "currents" /\ run' = [run EXCEPT !.phase = "injections"] /\ UNCHANGED <<begun, clock, queue>>
      /\ cell' = Propagated(Decayed(cell), weights, Active(cell))
  BY DEF Currents, At, Goto, tickVars
<1>2. run'.phase = "injections" /\ run'.tick = run.tick /\ run'.dt = run.dt /\ run'.n = run.n /\ run'.cursor = run.cursor
  BY <1>1 DEF Types, Runs
<1>3. ASSUME NEW g \in Group PROVE cell'[g].hold = cell[g].hold
  <2> DEFINE x == Decayed(cell)
             s == [j \in Neuron(g) |-> Half(cell[g].syn[j])]
             r == [j \in Neuron(g) |-> Driven(x, weights, Active(cell), g, j)]
  <2>1. x[g] = [cell[g] EXCEPT !.syn = s] /\ cell[g] \in CellOf(g)
    <3>1. Cells(cell)
      BY DEF Types
    <3>2. x[g] = [cell[g] EXCEPT !.syn = s]
      BY <3>1, DecayedCells
    <3>3. cell[g] \in CellOf(g)
      BY <3>1 DEF Cells
    <3> QED
      BY <3>2, <3>3
  <2>2. cell'[g] = [x[g] EXCEPT !.syn = r]
    BY <1>1 DEF Propagated
  <2> HIDE DEF x, s, r
  <2> QED
    BY <2>1, <2>2 DEF CellOf
<1> QED
  BY <1>1, <1>2, <1>3, PhaseScheduled

\* The inputs phase leaves the hold.
LEMMA InputsScheduled == ASSUME Types, Types', Schedule, Inputs PROVE Schedule'
<1>1. /\ run.phase = "inputs" /\ run' = [run EXCEPT !.phase = "fire"] /\ UNCHANGED <<begun, clock, queue>>
  BY DEF Inputs, At, Goto, tickVars
<1>2. run'.phase = "fire" /\ run'.tick = run.tick /\ run'.dt = run.dt /\ run'.n = run.n /\ run'.cursor = run.cursor
  BY <1>1 DEF Types, Runs
<1>3. ASSUME NEW g \in Group PROVE cell'[g].hold = cell[g].hold
  <2>1. PICK s : cell'[g] = [cell[g] EXCEPT !.syn = s]
    BY DEF Inputs
  <2>2. cell[g] \in CellOf(g)
    BY DEF Types, Cells
  <2> QED
    BY <2>1, <2>2 DEF CellOf
<1> QED
  BY <1>1, <1>2, <1>3, PhaseScheduled

\* The fire phase leaves the hold.
LEMMA FireScheduled == ASSUME Types, Types', Schedule, Fire PROVE Schedule'
<1>1. /\ run.phase = "fire" /\ run' = [run EXCEPT !.phase = "learn"] /\ UNCHANGED <<begun, clock, queue>>
      /\ cell' = Contrasted(cell, Fired(cell))
  BY DEF Fire, At, Goto, tickVars
<1>2. run'.phase = "learn" /\ run'.tick = run.tick /\ run'.dt = run.dt /\ run'.n = run.n /\ run'.cursor = run.cursor
  BY <1>1 DEF Types, Runs
<1>3. ASSUME NEW g \in Group PROVE cell'[g].hold = cell[g].hold
  <2> DEFINE x == Fired(cell)
             v == After(cell[g], g)
             s == Over(cell[g], g)
  <2>1. Cells(x) /\ x[g] = [cell[g] EXCEPT !.v = v, !.spikes = s] /\ cell[g] \in CellOf(g)
    BY FiredCells DEF Types, Cells
  <2>2. cell' = Contrasted(cell, x)
    BY <1>1
  <2> HIDE DEF x, v, s
  <2>3. cell'[g] = IF g \notin Clamped THEN x[g] ELSE Clamp(x[g], Losers(cell[g], x[g]), g)
    BY <2>1, <2>2, ContrastedCells
  <2> QED
    BY <2>1, <2>3 DEF CellOf, Clamp
<1> QED
  BY <1>1, <1>2, <1>3, PhaseScheduled

\* The learn phase leaves the hold.
LEMMA LearnScheduled == ASSUME Types, Types', Schedule, Learn PROVE Schedule'
<1>1. /\ run.phase = "learn" /\ run' = [run EXCEPT !.phase = "trace"] /\ UNCHANGED <<begun, clock, queue, cell>>
  BY DEF Learn, At, Goto, tickVars
<1>2. run'.phase = "trace" /\ run'.tick = run.tick /\ run'.dt = run.dt /\ run'.n = run.n /\ run'.cursor = run.cursor
  BY <1>1 DEF Types, Runs
<1> QED
  BY <1>1, <1>2, PhaseScheduled

\* The trace phase leaves the hold.
LEMMA TraceScheduled == ASSUME Types, Types', Schedule, Trace PROVE Schedule'
<1>1. /\ run.phase = "trace" /\ run' = [run EXCEPT !.phase = "report"] /\ UNCHANGED <<begun, clock, queue>>
      /\ cell' = Traced(cell)
  BY DEF Trace, At, Goto, tickVars
<1>2. run'.phase = "report" /\ run'.tick = run.tick /\ run'.dt = run.dt /\ run'.n = run.n /\ run'.cursor = run.cursor
  BY <1>1 DEF Types, Runs
<1>3. ASSUME NEW g \in Group PROVE cell'[g].hold = cell[g].hold
  <2> DEFINE t == [i \in Neuron(g) |-> Half(cell[g].trace[i]) + (IF i \in cell[g].spikes THEN 1 ELSE 0)]
  <2>1. cell'[g] = [cell[g] EXCEPT !.trace = t] /\ cell[g] \in CellOf(g)
    <3>1. Cells(cell)
      BY DEF Types
    <3>2. Traced(cell)[g] = [cell[g] EXCEPT !.trace = t]
      BY <3>1, TracedCells
    <3>3. cell[g] \in CellOf(g)
      BY <3>1 DEF Cells
    <3> QED
      BY <1>1, <3>2, <3>3
  <2> HIDE DEF t
  <2> QED
    BY <2>1 DEF CellOf
<1> QED
  BY <1>1, <1>2, <1>3, PhaseScheduled

\* A step of the report of either engine.
LEMMA ReportScheduled ==
  ASSUME Types, Types', Schedule, NextGroup \/ NextHandler \/ LogSpike \/ CallHandler
  PROVE  Schedule'
<1>1. /\ run.phase \in {"report", "cuda_report"} /\ UNCHANGED <<begun, clock, cell>>
      /\ queue' = queue \/ \E inj \in Injects : queue' = Append(queue, inj)
  BY DEF NextGroup, NextHandler, LogSpike, CallHandler, Effect, Reporting, OnCuda, At, reportVars
<1>2. /\ run'.phase = run.phase /\ run'.tick = run.tick /\ run'.dt = run.dt /\ run'.n = run.n /\ run'.cursor = run.cursor
  BY DEF NextGroup, NextHandler, LogSpike, CallHandler, Reported, Types, Runs
<1>3. ASSUME NEW k \in 1 .. run.n PROVE queue'[k] = queue[k]
  <2>1. queue \in Seq(Emits) /\ k \in 1 .. Len(queue)
    BY Numbered DEF Types
  <2>2. ASSUME NEW inj \in Injects PROVE Append(queue, inj)[k] = queue[k]
    BY <2>1
  <2> QED
    BY <1>1, <2>2
<1>4. CASE run.phase = "report"
  BY <1>1, <1>2, <1>3, <1>4, PhaseScheduled
<1>5. CASE run.phase = "cuda_report"
  BY <1>1, <1>2, <1>5 DEF Schedule
<1> QED
  BY <1>1, <1>4, <1>5

\* The clock moves on by dt as the tick does: the times of the queue stay those of the run.
LEMMA FinishScheduled == ASSUME Types, Types', Schedule, Finish PROVE Schedule'
<1>1. /\ run.phase = "report" /\ clock' = clock + run.dt /\ begun' = begun
      /\ cell' = [g \in Group |-> [cell[g] EXCEPT !.prev = cell[g].spikes]]
      /\ \/ run' = NoRun
         \/ run' = [run EXCEPT !.phase = "currents", !.tick = @ + 1, !.g = 0, !.h = 0] /\ queue' = queue
  BY DEF Finish, At
<1>2. CASE run' = NoRun
  BY <1>1, <1>2 DEF NoRun, Schedule
<1>3. CASE run' = [run EXCEPT !.phase = "currents", !.tick = @ + 1, !.g = 0, !.h = 0] /\ queue' = queue
  <2>1. /\ run'.phase = "currents" /\ run'.tick = run.tick + 1 /\ run'.dt = run.dt /\ run'.n = run.n
        /\ run'.cursor = run.cursor
    BY <1>3 DEF Types, Runs
  <2>2. Base' = Base
    <3>1. ASSUME NEW a \in Nat, NEW b \in Nat, NEW c \in Nat PROVE (c + b) - (a + 1) * b = c - a * b
      OBVIOUS
    <3>2. Base' = (clock + run.dt) - (run.tick + 1) * run.dt
      BY <1>1, <2>1 DEF Base
    <3>3. run.tick \in Nat /\ run.dt \in Nat /\ clock \in Nat
      BY Numbered
    <3> QED
      BY <3>1, <3>2, <3>3 DEF Base
  <2>3. Deadline' = Deadline
    BY <1>1, <2>1 DEF Deadline
  <2>4. ASSUME NEW g \in Group PROVE cell'[g].hold = cell[g].hold
    <3>1. cell'[g] = [cell[g] EXCEPT !.prev = cell[g].spikes] /\ cell[g] \in CellOf(g)
      BY <1>1 DEF Types, Cells
    <3> QED
      BY <3>1 DEF CellOf
  <2>5. ASSUME ~begun'.failed PROVE Scheduled'
    <3>1. Scheduled
      BY <1>1, <2>5 DEF Schedule
    <3> QED
      BY <1>1, <1>3, <2>1, <2>2, <2>3, <2>4, <3>1, StillScheduled
  <2> QED
    BY <1>1, <2>1, <2>5 DEF Schedule
<1> QED
  BY <1>1, <1>2, <1>3

\* A refused network starts over with the queue as it was.
LEMMA RefuseScheduled == ASSUME Types, Types', Schedule, Refuse PROVE Schedule'
<1>1. run.phase = "upload" /\ run' = [run EXCEPT !.phase = "fallback"] /\ UNCHANGED <<begun, clock, queue, cell>>
  BY DEF Refuse, At, Goto, hostVars
<1>2. run'.phase = "fallback" /\ run'.tick = run.tick /\ run'.dt = run.dt /\ run'.n = run.n /\ run'.cursor = run.cursor
  BY <1>1 DEF Types, Runs
<1>3. Base' = Base /\ Deadline' = Deadline
  BY <1>1, <1>2 DEF Base, Deadline
<1>4. ASSUME ~begun'.failed PROVE Scheduled'
  <2>1. Scheduled
    BY <1>1, <1>4 DEF Schedule
  <2> QED
    BY <1>1, <1>2, <1>3, <2>1, StillScheduled
<1> QED
  BY <1>1, <1>2, <1>4 DEF Schedule

\* The run starts over with its queue as it was, unless CUDA has failed.
LEMMA FallbackScheduled == ASSUME Types, Types', Schedule, Fallback PROVE Schedule'
<1>1. /\ run.phase = "fallback" /\ UNCHANGED <<begun, clock, queue, cell>>
      /\ run' = [run EXCEPT !.phase = "currents", !.tick = 0, !.cursor = 1, !.n = Len(queue), !.g = 0, !.h = 0, !.left = <<>>]
  BY DEF Fallback, At, hostVars
<1>2. run'.phase = "currents" /\ run'.tick = 0 /\ run'.dt = run.dt /\ run'.n = Len(queue) /\ run'.cursor = 1
  BY <1>1 DEF Types, Runs
<1>3. ASSUME ~begun'.failed PROVE Scheduled'
  <2>1. Scheduled /\ run.tick = 0 /\ run.cursor = 1 /\ Len(queue) = run.n
    BY <1>1, <1>3 DEF Schedule
  <2>2. Base' = Base /\ Deadline' = Deadline
    BY <1>1, <1>2, <2>1 DEF Base, Deadline
  <2> QED
    BY <1>1, <1>2, <2>1, <2>2, StillScheduled
<1> QED
  BY <1>1, <1>2, <1>3 DEF Schedule

\* Steps after which nothing is said of the schedule.
LEMMA OthersScheduled ==
  ASSUME Types, Types', Schedule,
         ScheduleInject \/ Upload \/ Launch \/ Fetch \/ Mirror \/ NextLaunch \/ Download \/ DriverFails
  PROVE  Schedule'
<1>1. CASE ScheduleInject
  <2>1. run' = run /\ run.phase = "idle" /\ begun' = begun
    BY <1>1 DEF ScheduleInject, At
  <2> QED
    BY <2>1 DEF Schedule
<1>2. CASE DriverFails
  <2>1. begun' = [begun EXCEPT !.failed = TRUE] /\ "failed" \in DOMAIN begun
    BY <1>2 DEF DriverFails, Schedule
  <2>2. begun'.failed = TRUE /\ "failed" \in DOMAIN begun'
    BY <2>1
  <2> QED
    BY <2>2 DEF Schedule
<1>3. CASE Upload \/ Launch \/ Fetch \/ Mirror \/ NextLaunch
  <2>1. run'.phase \in {"launch", "fetch", "cuda_report", "download"} /\ begun' = begun
    BY <1>3, RunIs DEF Upload, Launch, Fetch, Mirror, NextLaunch, Goto, Runs
  <2> QED
    BY <2>1 DEF Schedule
<1>4. CASE Download
  BY <1>4 DEF Download, NoRun, Schedule
<1> QED
  BY <1>1, <1>2, <1>3, <1>4

\* Every step keeps the schedule.
LEMMA NextSchedule == ASSUME Types, Types', Schedule, [Next]_vars PROVE Schedule'
<1>1. CASE Start
  BY <1>1, RunScheduled, OthersScheduled DEF Start
<1>2. CASE Tick
  <2>1. CASE Injections
    <3>1. run.phase = "injections" /\ run'.phase = "inputs" /\ begun' = begun
      BY <2>1 DEF Injections, At, tickVars, Types, Runs
    <3>2. ASSUME ~begun'.failed PROVE Scheduled'
      <4>1. Scheduled
        BY <3>1, <3>2 DEF Schedule
      <4> QED
        BY <2>1, <4>1, InjectionsScheduled
    <3> QED
      BY <3>1, <3>2 DEF Schedule
  <2> QED
    BY <1>2, <2>1, CurrentsScheduled, InputsScheduled, FireScheduled, LearnScheduled, TraceScheduled,
       ReportScheduled, FinishScheduled DEF Tick
<1>3. CASE Cuda
  BY <1>3, RefuseScheduled, FallbackScheduled, OthersScheduled DEF Cuda
<1>4. CASE UNCHANGED vars
  <2>1. UNCHANGED <<run, clock, queue, cell, begun>>
    BY <1>4 DEF vars
  <2>2. Base' = Base /\ Deadline' = Deadline
    BY <2>1 DEF Base, Deadline
  <2>3. ASSUME Scheduled PROVE Scheduled'
    BY <2>1, <2>2, <2>3, StillScheduled
  <2> QED
    BY <2>1, <2>3 DEF Schedule
<1> QED
  BY <1>1, <1>2, <1>3, <1>4 DEF Next

\* What the invariant says of a neuron is what the program says.
LEMMA HeldAsPlanned ==
  ASSUME Types, Scheduled, run.phase \in {"inputs", "fire", "learn", "trace", "report"},
         NEW g \in Group, NEW i \in Neuron(g)
  PROVE  LET p == begun.planned
             due == {k \in DOMAIN p : p[k].g = g /\ i >= p[k].lo /\ i < p[k].hi
                                      /\ p[k].t >= 0 /\ p[k].t < (run.tick + 1) * run.dt}
             latest == CHOOSE k \in due : \A m \in due : p[m].t < p[k].t \/ (p[m].t = p[k].t /\ m <= k)
         IN  cell[g].hold[i] = IF due = {} THEN 0 ELSE p[latest].cur
<1> DEFINE p == begun.planned
           n == run.n
           c == run.cursor
           D == (run.tick + 1) * run.dt
           due == {k \in DOMAIN p : p[k].g = g /\ i >= p[k].lo /\ i < p[k].hi /\ p[k].t >= 0 /\ p[k].t < D}
           last(k) == k \in due /\ \A m \in due : p[m].t < p[k].t \/ (p[m].t = p[k].t /\ m <= k)
           S == Given(c - 1, g, i)
<1>1. /\ n \in Nat /\ c \in Nat \ {0} /\ c <= n + 1 /\ Base \in Int /\ Deadline \in Int
  BY Numbered
<1>2. D \in Int /\ Deadline = Base + D
  <2>1. ASSUME NEW a \in Nat, NEW b \in Nat, NEW x \in Nat PROVE (a + 1) * b \in Int /\ x + b = (x - a * b) + (a + 1) * b
    OBVIOUS
  <2>2. run.tick \in Nat /\ run.dt \in Nat /\ clock \in Nat
    BY Numbered
  <2> QED
    BY <2>1, <2>2 DEF Base, Deadline
<1>3. /\ DOMAIN p = 1 .. n /\ \A k \in 1 .. n : p[k] \in Emits /\ p[k].t \in Int
  <2>1. p \in Seq(Emits) /\ n = Len(p)
    BY DEF Scheduled
  <2>2. \A k \in 1 .. n : p[k] \in Emits
    BY QueueOrdered
  <2> QED
    BY <2>1, <2>2, LenProperties DEF Emits
<1>4. /\ Planned \in [1 .. n -> 1 .. n]
      /\ \A k \in 1 .. n : \E j \in 1 .. n : Planned[j] = k
      /\ \A j, k \in 1 .. n : j < k => <<Planned[j], Planned[k]>> \in Sooner(p)
  BY QueueOrdered
<1>5. ASSUME NEW j \in 1 .. n
      PROVE  LET q == queue[j]  e == p[Planned[j]]
             IN  q.g = e.g /\ q.lo = e.lo /\ q.hi = e.hi /\ q.cur = e.cur /\ q.t = e.t + Base /\ e.t \in Int
  <2>1. p[Planned[j]] \in Emits /\ p[Planned[j]].t \in Int
    BY <1>3, <1>4
  <2>2. queue[j] = [p[Planned[j]] EXCEPT !.t = p[Planned[j]].t + Base]
    BY DEF Scheduled
  <2> QED
    BY <2>1, <2>2 DEF Emits
<1>6. /\ \A k \in 1 .. c - 1 : queue[k].t < Deadline
      /\ \A k \in c .. n : queue[k].t >= Deadline \/ queue[k].t < Base
      /\ \/ S = {} /\ cell[g].hold[i] = 0
         \/ \E j \in S : cell[g].hold[i] = queue[j].cur /\ \A m \in S : m <= j
  BY DEF Scheduled, Lasting
<1>7. \A j : j \in S <=> j \in 1 .. c - 1 /\ queue[j].g = g /\ i >= queue[j].lo /\ i < queue[j].hi /\ queue[j].t >= Base
  BY DEF Given
<1>8. \A k : k \in due <=> k \in 1 .. n /\ p[k].g = g /\ i >= p[k].lo /\ i < p[k].hi /\ p[k].t >= 0 /\ p[k].t < D
  BY <1>3
<1> HIDE DEF p, n, c, D, due, S
<1>9. ASSUME NEW j \in S PROVE j \in 1 .. n /\ Planned[j] \in due
  <2>1. j \in 1 .. c - 1 /\ j \in 1 .. n /\ queue[j].t < Deadline
    BY <1>1, <1>6, <1>7
  <2>2. Planned[j] \in 1 .. n
    BY <1>4, <2>1
  <2>3. p[Planned[j]].t >= 0 /\ p[Planned[j]].t < D
    BY <1>1, <1>2, <1>5, <1>7, <2>1
  <2> QED
    BY <1>5, <1>7, <1>8, <2>1, <2>2, <2>3
<1>10. ASSUME NEW k \in due PROVE \E j \in S : Planned[j] = k
  <2>1. PICK j \in 1 .. n : Planned[j] = k
    BY <1>4, <1>8
  <2>2. p[k].t \in Int /\ p[k].t >= 0 /\ p[k].t < D /\ queue[j].t = p[k].t + Base
    BY <1>3, <1>5, <1>8, <2>1
  <2>3. queue[j].t >= Base /\ queue[j].t < Deadline /\ queue[j].t \in Int
    BY <1>1, <1>2, <2>2
  <2>4. j \in 1 .. c - 1
    BY <1>1, <1>6, <2>3
  <2>5. j \in S
    BY <1>5, <1>7, <1>8, <2>1, <2>3, <2>4
  <2> QED
    BY <2>1, <2>5
<1>11. CASE S = {}
  <2>1. due = {}
    BY <1>10, <1>11
  <2>2. cell[g].hold[i] = 0
    BY <1>6, <1>11
  <2> QED
    BY <2>1, <2>2 DEF due, p, D
<1>12. CASE S # {}
  <2>1. PICK j \in S : cell[g].hold[i] = queue[j].cur /\ \A m \in S : m <= j
    BY <1>6, <1>12
  <2> DEFINE k == Planned[j]
  <2>2. k \in due /\ j \in 1 .. n /\ cell[g].hold[i] = p[k].cur
    BY <1>5, <1>9, <2>1
  <2>3. ASSUME NEW m \in due PROVE p[m].t < p[k].t \/ (p[m].t = p[k].t /\ m <= k)
    <3>1. PICK b \in S : Planned[b] = m
      BY <1>10
    <3>2. b <= j /\ b \in 1 .. n
      BY <1>9, <2>1, <3>1
    <3>3. CASE b = j
      <4>1. m = k /\ m \in 1 .. n
        BY <1>8, <3>1, <3>3
      <4> QED
        BY <4>1
    <3>4. CASE b < j
      <4>1. <<m, k>> \in Sooner(p)
        BY <1>4, <2>2, <3>1, <3>2, <3>4
      <4>2. p[m].t < p[k].t \/ (p[m].t = p[k].t /\ m < k)
        BY <4>1 DEF Sooner
      <4>3. m \in Int /\ k \in Int
        BY <1>8, <2>2
      <4> QED
        BY <4>2, <4>3
    <3> QED
      BY <2>2, <3>2, <3>3, <3>4
  <2> HIDE DEF k
  <2>4. last(k)
    BY <2>2, <2>3
  <2>5. ASSUME NEW a, last(a) PROVE a = k
    <3>1. p[k].t \in Int /\ p[a].t \in Int /\ k \in Int /\ a \in Int
      BY <1>3, <1>8, <2>2, <2>5
    <3>2. /\ p[k].t < p[a].t \/ (p[k].t = p[a].t /\ k <= a)
          /\ p[a].t < p[k].t \/ (p[a].t = p[k].t /\ a <= k)
      BY <2>2, <2>3, <2>5
    <3> QED
      BY <3>1, <3>2
  <2>6. (CHOOSE a \in due : \A m \in due : p[m].t < p[a].t \/ (p[m].t = p[a].t /\ m <= a)) = k
    BY <2>4, <2>5
  <2> QED
    BY <2>2, <2>6 DEF due, p, D
<1> QED
  BY <1>11, <1>12

\* Of every run, whatever handlers schedule while it goes on, and however often the
\* times of two emits are equal, in the past or before the run: a neuron is held at
\* the current of the last emit for it whose time has come.
THEOREM SimulationHoldFollowsSchedule == Spec => []HoldFollowsSchedule
<1>1. Types /\ Schedule => HoldFollowsSchedule
  <2> SUFFICES ASSUME Types, Schedule, run.phase \in {"inputs", "fire", "learn", "trace", "report"}, ~begun.failed
               PROVE  HoldFollowsSchedule
    BY DEF HoldFollowsSchedule
  <2>1. Scheduled
    BY DEF Schedule
  <2> QED
    BY <2>1, HeldAsPlanned DEF HoldFollowsSchedule
<1>2. Init => Types /\ Schedule
  BY InitTypes, InitSchedule
<1>3. Types /\ Schedule /\ [Next]_vars => (Types /\ Schedule)'
  BY NextTypes, NextSchedule
<1> QED
  BY <1>1, <1>2, <1>3, PTL DEF Spec

-----------------------------------------------------------------------------
(* The current of a tick: the loop over the connections adds what arrives.  *)

\* The synapses that spike into a neuron, of the connections up to m.
Into(x, w, m, g, j) ==
  UNION {{<<c, s>> : s \in {s \in DOMAIN w[c] : s[2] = j /\ s[1] \in x[net.conns[c].src].prev}}
         : c \in {c \in 1 .. m : net.conns[c].dst = g}}
Weights(w, A) == [a \in A |-> w[a[1]][a[2]]]

\* The elements of Into.
LEMMA IntoIs ==
  ASSUME NEW x, NEW w, NEW m, NEW g, NEW j
  PROVE  \A a : a \in Into(x, w, m, g, j) <=>
           \E c \in 1 .. m : \E s \in DOMAIN w[c] :
              a = <<c, s>> /\ net.conns[c].dst = g /\ s[2] = j /\ s[1] \in x[net.conns[c].src].prev
  BY DEF Into

\* The same as a formula, for any sets and functions.
LEMMA SumMoved ==
  \A S, f, T, g, h :
    /\ IsFiniteSet(S) /\ (\A x \in S : f[x] \in Int) /\ h \in [T -> S] /\ (\A x, y \in T : h[x] = h[y] => x = y)
    /\ (\A k \in S : \E x \in T : h[x] = k) /\ (\A x \in T : g[x] = f[h[x]])
    => IsFiniteSet(T) /\ Sum(g, T) = Sum(f, S)
<1> SUFFICES ASSUME NEW S, NEW f, NEW T, NEW g, NEW h,
                    IsFiniteSet(S), \A x \in S : f[x] \in Int, h \in [T -> S], \A x, y \in T : h[x] = h[y] => x = y,
                    \A k \in S : \E x \in T : h[x] = k, \A x \in T : g[x] = f[h[x]]
             PROVE  IsFiniteSet(T) /\ Sum(g, T) = Sum(f, S)
  OBVIOUS
<1> QED
  BY SumRenamed

\* The sum of a function that has the same values.
LEMMA SumSame ==
  ASSUME NEW S, IsFiniteSet(S), NEW f, NEW g, \A x \in S : f[x] \in Int /\ g[x] = f[x]
  PROVE  Sum(g, S) = Sum(f, S)
<1> DEFINE h == [x \in S |-> x]
<1>1. h \in [S -> S] /\ (\A x, y \in S : h[x] = h[y] => x = y) /\ (\A k \in S : \E x \in S : h[x] = k)
      /\ \A x \in S : g[x] = f[h[x]]
  OBVIOUS
<1> HIDE DEF h
<1> QED
  BY <1>1, SumRenamed

Awake(active, w, y) == active = [c \in Conn |-> {s \in DOMAIN w[c] : s[1] \in y[net.conns[c].src].prev}]

\* The current of a neuron is what it was, and the weights of the synapses that spike into it.
LEMMA DrivenIsSum ==
  ASSUME net \in Nets, NEW w, Weighted(w), NEW active, NEW y, NEW x, Cells(x), Cells(y), Awake(active, w, y),
         NEW g \in Group, NEW j \in Neuron(g)
  PROVE  LET A == Into(y, w, Len(net.conns), g, j)
         IN  Driven(x, w, active, g, j) = x[g].syn[j] + Sum(Weights(w, A), A) /\ Sum(Weights(w, A), A) \in Int
<1> DEFINE n == Len(net.conns)
           A(m) == Into(y, w, m, g, j)
           b == x[g].syn[j]
           F == Adding(w, active, g, j)
           V == Weights(w, A(n))
<1>1. n \in Nat /\ Conn = 1 .. n /\ b \in Int
  BY Conns DEF Cells, CellOf, Numbers
<1>2. Spiking(w, active)
  BY DEF Spiking, Awake
<1>3. PICK f : Passes(f, Int, n, b, F) /\ Driven(x, w, active, g, j) = f[n]
  BY <1>2, DrivenPasses
<1> DEFINE B(m) == IF net.conns[m].dst = g THEN {<<m, s>> : s \in Hits(active, m, j)} ELSE {}
<1>4. ASSUME NEW m \in 1 .. n
      PROVE  A(m) = A(m - 1) \cup B(m) /\ A(m - 1) \cap B(m) = {}
  <2>1. \A a : a \in A(m) <=> \E c \in 1 .. m : \E s \in DOMAIN w[c] :
              a = <<c, s>> /\ net.conns[c].dst = g /\ s[2] = j /\ s[1] \in y[net.conns[c].src].prev
    BY IntoIs
  <2>2. \A a : a \in A(m - 1) <=> \E c \in 1 .. m - 1 : \E s \in DOMAIN w[c] :
              a = <<c, s>> /\ net.conns[c].dst = g /\ s[2] = j /\ s[1] \in y[net.conns[c].src].prev
    BY IntoIs
  <2>3. \A a : a \in B(m) <=> \E s \in DOMAIN w[m] :
              a = <<m, s>> /\ net.conns[m].dst = g /\ s[2] = j /\ s[1] \in y[net.conns[m].src].prev
    BY <1>1 DEF Awake, Hits
  <2> HIDE DEF A, B
  <2>4. \A c : c \in 1 .. m <=> c \in 1 .. m - 1 \/ c = m
    BY <1>1
  <2>5. m \notin 1 .. m - 1
    BY <1>1
  <2>6. \A a : a \in A(m) <=> a \in A(m - 1) \/ a \in B(m)
    BY <2>1, <2>2, <2>3, <2>4
  <2>7. \A a : ~(a \in A(m - 1) /\ a \in B(m))
    BY <2>2, <2>3, <2>5
  <2> QED
    BY <2>6, <2>7
<1>5. A(0) = {}
  <2>1. 1 .. 0 = {}
    OBVIOUS
  <2>2. \A a : a \notin A(0)
    BY <2>1, IntoIs
  <2> HIDE DEF A
  <2> QED
    BY <2>2
<1>6. ASSUME NEW m \in 1 .. n
      PROVE  /\ IsFiniteSet(B(m)) /\ \A a \in B(m) : w[a[1]][a[2]] \in Int
             /\ Sum(Weights(w, B(m)), B(m)) = (IF net.conns[m].dst = g THEN Impulse(w, m, active, j) ELSE 0)
  <2>1. m \in Conn
    BY <1>1
  <2>2. /\ IsFiniteSet(Hits(active, m, j)) /\ (\A s \in Hits(active, m, j) : w[m][s] \in Int)
        /\ Impulse(w, m, active, j) = Sum(w[m], Hits(active, m, j))
    BY <1>2, <2>1, ImpulseIs
  <2>3. CASE net.conns[m].dst = g
    <3> DEFINE T == {<<m, s>> : s \in Hits(active, m, j)}
               h == [a \in T |-> a[2]]
    <3>1. B(m) = T
      BY <2>3
    <3>2. /\ h \in [T -> Hits(active, m, j)] /\ (\A a, e \in T : h[a] = h[e] => a = e)
          /\ \A s \in Hits(active, m, j) : \E a \in T : h[a] = s
      <4>1. \A s \in Hits(active, m, j) : <<m, s>> \in T /\ h[<<m, s>>] = s
        OBVIOUS
      <4> QED
        BY <4>1
    <3>3. \A a \in T : Weights(w, T)[a] = w[m][h[a]]
      <4>1. \A a \in T : Weights(w, T)[a] = w[a[1]][a[2]]
        BY DEF Weights
      <4>2. \A a \in T : a[1] = m /\ h[a] = a[2]
        OBVIOUS
      <4> QED
        BY <4>1, <4>2
    <3>4. \A a \in T : w[a[1]][a[2]] \in Int
      BY <2>2
    <3> HIDE DEF T, h
    <3>5. IsFiniteSet(T) /\ Sum(Weights(w, T), T) = Sum(w[m], Hits(active, m, j))
      <4> DEFINE S == Hits(active, m, j)
                 f1 == w[m]
                 g1 == Weights(w, T)
      <4>1. /\ IsFiniteSet(S) /\ (\A x1 \in S : f1[x1] \in Int)
            /\ h \in [T -> S] /\ (\A x1, y1 \in T : h[x1] = h[y1] => x1 = y1)
            /\ (\A k \in S : \E x1 \in T : h[x1] = k) /\ (\A x1 \in T : g1[x1] = f1[h[x1]])
        BY <2>2, <3>2, <3>3
      <4> HIDE DEF S, f1, g1
      <4>2. IsFiniteSet(T) /\ Sum(g1, T) = Sum(f1, S)
        BY <4>1, SumMoved
      <4> QED
        BY <4>2 DEF S, f1, g1
    <3> QED
      BY <2>2, <2>3, <3>1, <3>4, <3>5
  <2>4. CASE net.conns[m].dst # g
    <3>1. B(m) = {}
      BY <2>4
    <3>2. IsFiniteSet({}) /\ Sum(Weights(w, {}), {}) = 0
      BY FS_EmptySet, SumAdd
    <3> HIDE DEF B
    <3> QED
      BY <2>4, <3>1, <3>2
  <2> QED
    BY <2>3, <2>4
<1> DEFINE I == {m \in 0 .. n : /\ IsFiniteSet(A(m)) /\ (\A a \in A(m) : w[a[1]][a[2]] \in Int)
                                /\ f[m] = b + Sum(Weights(w, A(m)), A(m)) /\ Sum(Weights(w, A(m)), A(m)) \in Int}
<1> HIDE DEF A, B
<1>7. 0 \in I
  <2>1. IsFiniteSet({}) /\ Sum(Weights(w, {}), {}) = 0
    BY FS_EmptySet, SumAdd
  <2>2. f[0] = b /\ 0 \in 0 .. n
    BY <1>1, <1>3 DEF Passes
  <2>3. IsFiniteSet(A(0)) /\ Sum(Weights(w, A(0)), A(0)) = 0 /\ \A a \in A(0) : w[a[1]][a[2]] \in Int
    BY <1>5, <2>1
  <2> QED
    BY <1>1, <2>2, <2>3
<1>8. ASSUME NEW m \in 1 .. n, m - 1 \in I PROVE m \in I
  <2> DEFINE S == A(m - 1)
             T == B(m)
             W == Weights(w, A(m))
  <2>1. /\ IsFiniteSet(S) /\ IsFiniteSet(T) /\ S \cap T = {} /\ A(m) = S \cup T
        /\ (\A a \in S : w[a[1]][a[2]] \in Int) /\ (\A a \in T : w[a[1]][a[2]] \in Int)
    BY <1>4, <1>6, <1>8
  <2>2. \A a \in S \cup T : W[a] = w[a[1]][a[2]] /\ W[a] \in Int
    BY <2>1 DEF Weights
  <2>3. /\ \A a \in S : Weights(w, S)[a] = w[a[1]][a[2]]
        /\ \A a \in T : Weights(w, T)[a] = w[a[1]][a[2]]
    BY DEF Weights
  <2> HIDE DEF S, T, W
  <2>4. IsFiniteSet(S \cup T) /\ Sum(W, S \cup T) = Sum(W, S) + Sum(W, T)
    BY <2>1, <2>2, SumOfBoth
  <2>5. Sum(W, S) = Sum(Weights(w, S), S)
    <3>1. \A a \in S : Weights(w, S)[a] \in Int /\ W[a] = Weights(w, S)[a]
      BY <2>1, <2>2, <2>3
    <3> QED
      BY <2>1, <3>1, SumSame
  <2>6. Sum(W, T) = Sum(Weights(w, T), T)
    <3>1. \A a \in T : Weights(w, T)[a] \in Int /\ W[a] = Weights(w, T)[a]
      BY <2>1, <2>2, <2>3
    <3> QED
      BY <2>1, <3>1, SumSame
  <2>7. f[m - 1] = b + Sum(Weights(w, S), S) /\ Sum(Weights(w, S), S) \in Int /\ m - 1 \in 0 .. n /\ m \in 0 .. n
    BY <1>8 DEF S
  <2>8. Sum(Weights(w, T), T) = (IF net.conns[m].dst = g THEN Impulse(w, m, active, j) ELSE 0)
        /\ Sum(Weights(w, T), T) \in Int
    <3>1. Impulse(w, m, active, j) \in Int
      BY <1>1, <1>2, ImpulseIs
    <3> QED
      BY <1>6, <3>1 DEF T
  <2>9. f[m] = f[m - 1] + (IF net.conns[m].dst = g THEN Impulse(w, m, active, j) ELSE 0)
    <3>1. f[m] = F[<<f[m - 1], m>>] /\ f[m - 1] \in Int /\ m \in Conn
      BY <1>1, <1>3, <2>7 DEF Passes
    <3> QED
      BY <3>1 DEF Adding
  <2>10. f[m] = b + Sum(W, A(m)) /\ Sum(W, A(m)) \in Int
    <3>1. PICK p \in Int, q \in Int : p = Sum(Weights(w, S), S) /\ q = Sum(Weights(w, T), T)
      BY <2>7, <2>8
    <3>2. f[m] = (b + p) + q /\ Sum(W, A(m)) = p + q
      BY <2>1, <2>4, <2>5, <2>6, <2>7, <2>8, <2>9, <3>1
    <3> QED
      BY <1>1, <3>1, <3>2
  <2> QED
    BY <2>1, <2>4, <2>7, <2>10 DEF W
<1>9. \A m \in 0 .. n : m \in I
  <2> HIDE DEF I
  <2> QED
    BY <1>1, <1>7, <1>8, Induction
<1>10. n \in I
  BY <1>1, <1>9
<1> QED
  BY <1>3, <1>10 DEF A

-----------------------------------------------------------------------------
(* The winners of a clamped group.                                          *)

\* One candidate is stronger than another, or as strong and has the lower index.
Beats(c, i, j) == Potential(c, i) > Potential(c, j) \/ (Potential(c, i) = Potential(c, j) /\ i < j)
Stronger(c, S) == {p \in S \X S : Beats(c, p[1], p[2])}

\* The candidates in their order: each once, the stronger before the weaker.
LEMMA RankedLists ==
  ASSUME NEW g \in Group, NEW c \in CellOf(g), NEW S \in SUBSET Neuron(g)
  PROVE  /\ IsFiniteSet(S) /\ Cardinality(S) \in Nat
         /\ Ranked(c, S) \in [1 .. Cardinality(S) -> S] /\ Len(Ranked(c, S)) = Cardinality(S)
         /\ \A a, b \in 1 .. Cardinality(S) : a < b => Beats(c, Ranked(c, S)[a], Ranked(c, S)[b])
         /\ \A k \in S : \E r \in 1 .. Cardinality(S) : Ranked(c, S)[r] = k
         /\ \A i \in S : ~Beats(c, i, i)
<1> DEFINE R == Stronger(c, S)
<1>1. IsFiniteSet(S) /\ Cardinality(S) \in Nat
  BY Groups, FS_Subset, FS_CardinalityType
<1>2. \A i \in S : Potential(c, i) \in Int /\ i \in Int
  BY PotentialInt, Groups
<1>3. \A i, j \in S : <<i, j>> \in R <=> Beats(c, i, j)
  BY DEF Stronger
<1>4. /\ \A i \in S : ~Beats(c, i, i)
      /\ \A i, j \in S : i # j => Beats(c, i, j) \/ Beats(c, j, i)
  BY <1>2 DEF Beats
<1>5. \A i, j, k \in S : Beats(c, i, j) /\ Beats(c, j, k) => Beats(c, i, k)
  <2> SUFFICES ASSUME NEW i \in S, NEW j \in S, NEW k \in S, Beats(c, i, j), Beats(c, j, k) PROVE Beats(c, i, k)
    OBVIOUS
  <2>1. PICK x \in Int, y \in Int, z \in Int : x = Potential(c, i) /\ y = Potential(c, j) /\ z = Potential(c, k)
    BY <1>2
  <2>2. i \in Int /\ j \in Int /\ k \in Int /\ (x > y \/ (x = y /\ i < j)) /\ (y > z \/ (y = z /\ j < k))
    BY <1>2, <2>1 DEF Beats
  <2>3. x > z \/ (x = z /\ i < k)
    BY <2>2
  <2> QED
    BY <2>1, <2>3 DEF Beats
<1>6. Ranked(c, S) = Ordered(S, R)
  BY DEF Ranked, Stronger, Beats
<1> HIDE DEF R
<1>7. Strict(R, S)
  BY <1>3, <1>4, <1>5 DEF Strict
<1>8. /\ Ordered(S, R) \in [1 .. Cardinality(S) -> S]
      /\ \A a, b \in 1 .. Cardinality(S) : a < b => <<Ordered(S, R)[a], Ordered(S, R)[b]>> \in R
      /\ \A k \in S : \E r \in 1 .. Cardinality(S) : Ordered(S, R)[r] = k
  BY <1>1, <1>7, OrderedLists
<1>9. Len(Ordered(S, R)) = Cardinality(S)
  BY <1>1, <1>8, MadeSeq
<1>10. \A a, b \in 1 .. Cardinality(S) : a < b => Beats(c, Ordered(S, R)[a], Ordered(S, R)[b])
  BY <1>3, <1>8
<1> QED
  BY <1>1, <1>4, <1>6, <1>8, <1>9, <1>10

Lost(c, S) == {Ranked(c, S)[r] : r \in Winners + 1 .. Len(Ranked(c, S))}

\* What is left of them is the strongest, as many as may win.
LEMMA WinnersLeft ==
  ASSUME NEW g \in Group, NEW c \in CellOf(g), NEW S \in SUBSET Neuron(g)
  PROVE  /\ Lost(c, S) \in SUBSET S
         /\ Cardinality(S \ Lost(c, S)) = Min({Winners, Cardinality(S)})
         /\ \A i \in S \ Lost(c, S), j \in Lost(c, S) : Beats(c, i, j)
<1> DEFINE n == Cardinality(S)
           o == Ranked(c, S)
           k == Min({Winners, n})
           out == Lost(c, S)
<1>1. /\ n \in Nat /\ o \in [1 .. n -> S] /\ Len(o) = n
      /\ \A a, b \in 1 .. n : a < b => Beats(c, o[a], o[b])
      /\ \A i \in S : \E r \in 1 .. n : o[r] = i
      /\ \A i \in S : ~Beats(c, i, i)
  BY RankedLists
<1>2. k \in Nat /\ Winners \in Nat /\ k <= n /\ k <= Winners /\ (k = n \/ k = Winners)
  <2>1. {Winners, n} \in SUBSET Nat /\ {Winners, n} # {}
    BY <1>1, NumberAssumption
  <2> HIDE DEF n
  <2> QED
    BY <2>1, LeastNumber, NumberAssumption
<1>3. out = {o[r] : r \in Winners + 1 .. Len(o)}
  BY DEF Lost
<1> HIDE DEF n, o, k, out
<1>4. \A a, b \in 1 .. n : o[a] = o[b] => a = b
  <2> SUFFICES ASSUME NEW a \in 1 .. n, NEW b \in 1 .. n, o[a] = o[b], a # b PROVE FALSE
    OBVIOUS
  <2>1. a < b \/ b < a
    BY <1>1
  <2> QED
    BY <1>1, <2>1
<1>5. \A i : i \in out <=> \E r \in Winners + 1 .. n : o[r] = i
  BY <1>1, <1>3
<1>6. \A r \in 1 .. n : o[r] \in S /\ (o[r] \in out <=> r > Winners)
  <2> SUFFICES ASSUME NEW r \in 1 .. n PROVE o[r] \in S /\ (o[r] \in out <=> r > Winners)
    OBVIOUS
  <2>1. o[r] \in S
    BY <1>1
  <2>2. ASSUME o[r] \in out PROVE r > Winners
    <3>1. PICK b \in Winners + 1 .. n : o[b] = o[r]
      BY <1>5, <2>2
    <3>2. b \in 1 .. n /\ b > Winners
      BY <1>1, <1>2
    <3> QED
      BY <1>4, <3>1, <3>2
  <2>3. ASSUME r > Winners PROVE o[r] \in out
    <3>1. r \in Winners + 1 .. n
      BY <1>1, <1>2, <2>3
    <3> QED
      BY <1>5, <3>1
  <2> QED
    BY <2>1, <2>2, <2>3
<1>7. out \in SUBSET S
  <2>1. \A r \in Winners + 1 .. n : o[r] \in S
    BY <1>1, <1>2
  <2> QED
    BY <1>5, <2>1
<1>8. Cardinality(S \ out) = k
  <2> DEFINE h == [r \in 1 .. k |-> o[r]]
             T == S \ out
  <2>1. \A r \in 1 .. k : r \in 1 .. n /\ r <= Winners
    BY <1>1, <1>2
  <2>2. h \in [1 .. k -> T]
    BY <1>2, <1>6, <2>1
  <2>3. \A a, b \in 1 .. k : h[a] = h[b] => a = b
    BY <1>4, <2>1
  <2>4. ASSUME NEW i \in T PROVE \E r \in 1 .. k : h[r] = i
    <3>1. PICK r \in 1 .. n : o[r] = i
      BY <1>1
    <3>2. ~(r > Winners)
      BY <1>6, <3>1
    <3>3. r \in 1 .. k
      BY <1>1, <1>2, <3>2
    <3> QED
      BY <3>1, <3>3
  <2>5. IsFiniteSet(1 .. k) /\ Cardinality(1 .. k) = k
    BY <1>2, FS_Interval
  <2> HIDE DEF h, T
  <2>6. h \in Surjection(1 .. k, T) /\ h \in Injection(1 .. k, T)
    BY <2>2, <2>3, <2>4 DEF Surjection, Injection, IsInjective
  <2>7. Cardinality(T) = Cardinality(1 .. k)
    BY <2>5, <2>6, FS_Surjection
  <2> QED
    BY <2>5, <2>7 DEF T
<1>9. ASSUME NEW i \in S \ out, NEW j \in out PROVE Beats(c, i, j)
  <2>1. PICK a \in 1 .. n : o[a] = i
    BY <1>1
  <2>2. PICK b \in 1 .. n : o[b] = j
    BY <1>1, <1>7
  <2>3. ~(a > Winners) /\ b > Winners
    BY <1>6, <2>1, <2>2
  <2>4. a < b
    BY <1>2, <2>3
  <2> QED
    BY <1>1, <2>1, <2>2, <2>4
<1> QED
  BY <1>7, <1>8, <1>9 DEF out, o, k, n

-----------------------------------------------------------------------------
(* A tick, phase by phase.                                                  *)

\* The current of a neuron before the inputs of the tick.
Arriving(g, j) ==
  LET A == Into(was.cell, was.weights, Len(net.conns), g, j)
  IN  Half(was.cell[g].syn[j]) + Sum(Weights(was.weights, A), A)

Leaked(o, x, i) == o.v[i] + Half(Rest - o.v[i] + x.syn[i] + x.hold[i])
Reached(o, x, g) == {i \in Neuron(g) : Leaked(o, x, i) >= Threshold}
Fires(o, x, g) ==
  LET over == Reached(o, x, g)
  IN  /\ \A i \in Neuron(g) : x.v[i] = IF i \in over THEN Reset ELSE Leaked(o, x, i)
      /\ x.spikes \subseteq over /\ (g \notin Clamped => x.spikes = over)
      /\ g \in Clamped => Cardinality(x.spikes) = Min({Winners, Cardinality(over)})
      /\ \A i \in x.spikes, j \in over \ x.spikes :
           Leaked(o, x, i) > Leaked(o, x, j) \/ (Leaked(o, x, i) = Leaked(o, x, j) /\ i < j)

\* What each phase finds of the tick's beginning, and what those before it have made.
Recorded == Cells(was.cell) /\ Weighted(was.weights) /\ \A g \in Group : cell[g].prev = was.cell[g].prev
Arrived == \A g \in Group : \A j \in Neuron(g) : cell[g].syn[j] = Arriving(g, j)
Charged == \A g \in Group : \A j \in Neuron(g) : cell[g].syn[j] = Arriving(g, j) + was.input[g][j]
Unmoved == \A g \in Group : cell[g].v = was.cell[g].v
Untraced == \A g \in Group : cell[g].trace = was.cell[g].trace
HasFired == \A g \in Group : Fires(was.cell[g], cell[g], g)
HasLearnt == \A c \in Conn : LearningRule(c)
HasTraced ==
  \A g \in Group : \A i \in Neuron(g) :
    cell[g].trace[i] = Half(was.cell[g].trace[i]) + Cardinality({i} \cap cell[g].spikes)

Synch ==
  LET p == run.phase
  IN  /\ was = [cell |-> was.cell, weights |-> was.weights, input |-> was.input, m |-> was.m]
      /\ p \in {"injections", "inputs", "fire", "learn", "trace", "report"} => Recorded
      /\ p \in {"injections", "inputs"} => Arrived
      /\ p \in {"fire", "learn", "trace", "report"} => Charged
      /\ p \in {"injections", "inputs", "fire"} => Unmoved
      /\ p \in {"injections", "inputs", "fire", "learn", "trace"} => Untraced
      /\ p \in {"injections", "inputs", "fire", "learn"} => weights = was.weights
      /\ p \in {"learn", "trace", "report"} => HasFired
      /\ p \in {"trace", "report"} => HasLearnt
      /\ p = "report" => HasTraced

\* Initially there is no tick.
LEMMA InitSynch == Init => Synch
  BY DEF Init, Synch, NoRun

\* A step to a phase that is not of a CPU tick.
LEMMA SynchLeft ==
  ASSUME Synch, was' = was, run'.phase \notin {"injections", "inputs", "fire", "learn", "trace", "report"}
  PROVE  Synch'
  BY DEF Synch

\* A step that leaves the arrays as they are.
LEMMA SynchStays ==
  ASSUME Synch, UNCHANGED <<net, cell, weights, was>>, run'.phase = run.phase
  PROVE  Synch'
<1>1. Recorded => Recorded'
  BY DEF Recorded, Cells, CellOf, Numbers, Weighted, Synapses, Conn
<1>2. \A g \in Group : \A j \in Neuron(g) : Arriving(g, j)' = Arriving(g, j)
  BY DEF Arriving, Into, Weights
<1>3. /\ Arrived => Arrived'
      /\ Charged => Charged'
      /\ Unmoved => Unmoved'
      /\ Untraced => Untraced'
  BY <1>2 DEF Arrived, Charged, Unmoved, Untraced
<1>4. /\ HasFired => HasFired'
      /\ HasTraced => HasTraced'
  BY DEF HasFired, Fires, Reached, Moved, HasTraced
<1>5. HasLearnt => HasLearnt'
  BY DEF HasLearnt, LearningRule, Conn
<1> QED
  BY <1>1, <1>4, <1>5, <1>3 DEF Synch

\* The first phase begins it.
LEMMA CurrentsSynch == ASSUME Types, Types', Synch, Currents PROVE Synch'
<1> DEFINE a == Active(cell)
           d == Decayed(cell)
           o == cell
           w == weights
<1>1. /\ run' = [run EXCEPT !.phase = "injections"] /\ UNCHANGED <<net, weights>>
      /\ cell' = Propagated(d, w, a) /\ was' = [was EXCEPT !.cell = cell, !.weights = weights]
  BY DEF Currents, Goto, tickVars
<1>2. run'.phase = "injections"
  BY <1>1 DEF Types, Runs
<1>3. /\ was' = [cell |-> was'.cell, weights |-> was'.weights, input |-> was'.input, m |-> was'.m]
      /\ was'.cell = o /\ was'.weights = w
  BY <1>1 DEF Synch
<1>4. Cells(d) /\ \A g \in Group : d[g] = [o[g] EXCEPT !.syn = [j \in Neuron(g) |-> Half(o[g].syn[j])]]
  BY DecayedCells DEF Types
<1>5. Awake(a, w, o)
  BY DEF Awake, Active
<1>6. ASSUME NEW g \in Group, NEW j \in Neuron(g)
      PROVE  LET A == Into(o, w, Len(net.conns), g, j)
             IN  Driven(d, w, a, g, j) = Half(o[g].syn[j]) + Sum(Weights(w, A), A)
  <2>1. d[g].syn[j] = Half(o[g].syn[j])
    <3>1. o[g] \in CellOf(g)
      BY DEF Types, Cells
    <3> DEFINE h == [k \in Neuron(g) |-> Half(o[g].syn[k])]
    <3>2. h[j] = Half(o[g].syn[j]) /\ d[g] = [o[g] EXCEPT !.syn = h]
      BY <1>4
    <3> HIDE DEF h, d
    <3> QED
      BY <3>1, <3>2 DEF CellOf
  <2>2. net \in Nets /\ Weighted(w) /\ Cells(d) /\ Cells(o) /\ Awake(a, w, o)
    BY <1>4, <1>5 DEF Types
  <2> HIDE DEF a, d, o, w
  <2>3. LET A == Into(o, w, Len(net.conns), g, j)
        IN  Driven(d, w, a, g, j) = d[g].syn[j] + Sum(Weights(w, A), A) /\ Sum(Weights(w, A), A) \in Int
    BY <2>2, DrivenIsSum
  <2> QED
    BY <2>1, <2>3
<1>7. ASSUME NEW g \in Group
      PROVE  /\ cell'[g] = [d[g] EXCEPT !.syn = [j \in Neuron(g) |-> Driven(d, w, a, g, j)]]
             /\ d[g] \in CellOf(g) /\ o[g] \in CellOf(g)
  <2> HIDE DEF d, a
  <2> QED
    BY <1>1, <1>4 DEF Propagated, Cells, Types
<1>8. \A g \in Group : \A j \in Neuron(g) : cell'[g].syn[j] = Arriving(g, j)'
  <2> SUFFICES ASSUME NEW g \in Group, NEW j \in Neuron(g) PROVE cell'[g].syn[j] = Arriving(g, j)'
    OBVIOUS
  <2> DEFINE s == [k \in Neuron(g) |-> Driven(d, w, a, g, k)]
  <2>1. s[j] = Driven(d, w, a, g, j) /\ cell'[g] = [d[g] EXCEPT !.syn = s] /\ d[g] \in CellOf(g)
    BY <1>7
  <2> HIDE DEF s
  <2>2. cell'[g].syn[j] = s[j]
    BY <2>1 DEF CellOf
  <2>3. Arriving(g, j)' = LET A == Into(o, w, Len(net.conns), g, j) IN Half(o[g].syn[j]) + Sum(Weights(w, A), A)
    BY <1>1, <1>3 DEF Arriving, Into, Weights
  <2> QED
    BY <1>6, <2>1, <2>2, <2>3
<1>9. \A g \in Group : cell'[g].prev = o[g].prev /\ cell'[g].v = o[g].v /\ cell'[g].trace = o[g].trace
  <2> SUFFICES ASSUME NEW g \in Group PROVE cell'[g].prev = o[g].prev /\ cell'[g].v = o[g].v /\ cell'[g].trace = o[g].trace
    OBVIOUS
  <2> DEFINE s == [k \in Neuron(g) |-> Driven(d, w, a, g, k)]
             h == [j \in Neuron(g) |-> Half(o[g].syn[j])]
  <2>1. cell'[g] = [d[g] EXCEPT !.syn = s] /\ d[g] = [o[g] EXCEPT !.syn = h] /\ o[g] \in CellOf(g) /\ d[g] \in CellOf(g)
    BY <1>4, <1>7
  <2> HIDE DEF s, h, d
  <2> QED
    BY <2>1 DEF CellOf
<1>10. Cells(was.cell)' /\ Weighted(was.weights)'
  <2>1. Cells(o) /\ Weighted(w)
    BY DEF Types
  <2> QED
    BY <1>1, <1>3, <2>1 DEF Cells, CellOf, Numbers, Weighted, Synapses, Conn
<1> HIDE DEF a, d
<1>11. Recorded' /\ Unmoved' /\ Untraced'
  BY <1>3, <1>9, <1>10 DEF Recorded, Unmoved, Untraced
<1>12. Arrived'
  BY <1>8 DEF Arrived
<1> QED
  BY <1>1, <1>2, <1>3, <1>11, <1>12 DEF Synch

\* Injections set what neurons are held at, and nothing else.
SameButHold(x, y) ==
  \A g \in Group : /\ x[g].v = y[g].v /\ x[g].syn = y[g].syn /\ x[g].trace = y[g].trace
                   /\ x[g].spikes = y[g].spikes /\ x[g].prev = y[g].prev

\* The injections phase leaves everything but the hold.
LEMMA InjectionsHold == ASSUME Types, Injections PROVE SameButHold(cell', cell)
<1> DEFINE n == Onward - run.cursor
           q(r) == queue[run.cursor + r - 1]
<1>1. n \in Nat /\ \A r \in 1 .. n : q(r) \in Emits
  BY OnwardIs
<1>2. PICK f : Passes(f, CellSet, n, cell, Applying) /\ cell' = f[n]
  BY InjectionsPass
<1> DEFINE I == {r \in 0 .. n : SameButHold(f[r], cell)}
<1>3. 0 \in I
  BY <1>1, <1>2 DEF Passes, SameButHold
<1>4. ASSUME NEW r \in 1 .. n, r - 1 \in I PROVE r \in I
  <2>1. r - 1 \in 0 .. n /\ r \in 0 .. n /\ SameButHold(f[r - 1], cell)
    BY <1>1, <1>4
  <2>2. f[r - 1] \in CellSet /\ f[r] = Applying[<<f[r - 1], r>>]
    BY <1>2, <2>1 DEF Passes
  <2>3. f[r] = Applied(f[r - 1], q(r)) /\ Cells(f[r - 1]) /\ q(r) \in Emits /\ clock \in Nat
    BY <1>1, <2>2, CellSetIs DEF Applying, Types
  <2> DEFINE x == f[r - 1]
             e == q(r)
  <2> HIDE DEF x, e
  <2>4. \A g \in Group : Applied(x, e)[g] = [x[g] EXCEPT !.hold = [i \in Neuron(g) |-> HeldBy(x, e, g, i)]]
    BY <2>3, AppliedCells DEF x, e
  <2>5. SameButHold(Applied(x, e), x)
    <3> SUFFICES ASSUME NEW g \in Group
                 PROVE  LET y == Applied(x, e)
                        IN  /\ y[g].v = x[g].v /\ y[g].syn = x[g].syn /\ y[g].trace = x[g].trace
                            /\ y[g].spikes = x[g].spikes /\ y[g].prev = x[g].prev
      BY DEF SameButHold
    <3> DEFINE h == [i \in Neuron(g) |-> HeldBy(x, e, g, i)]
    <3>1. Applied(x, e)[g] = [x[g] EXCEPT !.hold = h] /\ x[g] \in CellOf(g)
      BY <2>3, <2>4 DEF x, Cells
    <3> HIDE DEF h
    <3> QED
      BY <3>1 DEF CellOf
  <2> QED
    BY <2>1, <2>3, <2>5 DEF SameButHold, x, e
<1> HIDE DEF I, n
<1>5. \A r \in 0 .. n : r \in I
  BY <1>1, <1>3, <1>4, Induction
<1>6. n \in I
  BY <1>1, <1>5
<1> QED
  BY <1>2, <1>6 DEF I

\* The injections phase leaves potentials, currents and traces.
LEMMA InjectionsSynch == ASSUME Types, Types', Synch, Injections PROVE Synch'
<1>1. /\ run.phase = "injections" /\ run' = [run EXCEPT !.phase = "inputs", !.cursor = Onward]
      /\ UNCHANGED <<net, weights, was>>
  BY DEF Injections, At, tickVars, Onward, Late
<1>2. run'.phase = "inputs"
  BY <1>1 DEF Types, Runs
<1>3. SameButHold(cell', cell)
  BY InjectionsHold
<1>4. Recorded /\ Arrived /\ Unmoved /\ Untraced /\ weights = was.weights
  BY <1>1 DEF Synch
<1>5. Cells(was.cell)' /\ Weighted(was.weights)'
  BY <1>1, <1>4 DEF Recorded, Cells, CellOf, Numbers, Weighted, Synapses, Conn
<1>6. \A g \in Group : \A j \in Neuron(g) : Arriving(g, j)' = Arriving(g, j)
  BY <1>1 DEF Arriving, Into, Weights
<1>7. Recorded' /\ Unmoved' /\ Untraced' /\ Arrived'
  BY <1>1, <1>3, <1>4, <1>5, <1>6 DEF Recorded, Unmoved, Untraced, Arrived, SameButHold
<1> QED
  BY <1>1, <1>2, <1>4, <1>7 DEF Synch

\* The inputs phase adds the inputs to the currents.
LEMMA InputsSynch == ASSUME Types, Types', Synch, Inputs PROVE Synch'
<1>1. /\ run.phase = "inputs" /\ run' = [run EXCEPT !.phase = "fire"] /\ UNCHANGED <<net, weights>>
  BY DEF Inputs, At, Goto, tickVars
<1>2. run'.phase = "fire"
  BY <1>1 DEF Types, Runs
<1>3. PICK input : /\ cell' = [g \in Group |-> [cell[g] EXCEPT !.syn = [i \in DOMAIN @ |-> @[i] + input[g][i]]]]
                   /\ was' = [was EXCEPT !.input = input]
  BY DEF Inputs
<1>4. /\ was' = [cell |-> was'.cell, weights |-> was'.weights, input |-> was'.input, m |-> was'.m]
      /\ was'.cell = was.cell /\ was'.weights = was.weights /\ was'.input = input
  BY <1>3 DEF Synch
<1>5. Recorded /\ Arrived /\ Unmoved /\ Untraced /\ weights = was.weights
  BY <1>1 DEF Synch
<1>6. Cells(was.cell)' /\ Weighted(was.weights)'
  BY <1>1, <1>4, <1>5 DEF Recorded, Cells, CellOf, Numbers, Weighted, Synapses, Conn
<1>7. \A g \in Group : \A j \in Neuron(g) : Arriving(g, j)' = Arriving(g, j)
  BY <1>1, <1>4 DEF Arriving, Into, Weights
<1>8. ASSUME NEW g \in Group
      PROVE  /\ cell'[g].v = cell[g].v /\ cell'[g].trace = cell[g].trace /\ cell'[g].prev = cell[g].prev
             /\ \A j \in Neuron(g) : cell'[g].syn[j] = cell[g].syn[j] + input[g][j]
  <2> DEFINE s == [i \in Neuron(g) |-> cell[g].syn[i] + input[g][i]]
  <2>1. cell[g] \in CellOf(g)
    BY DEF Types, Cells
  <2>2. cell'[g] = [cell[g] EXCEPT !.syn = s] /\ \A j \in Neuron(g) : s[j] = cell[g].syn[j] + input[g][j]
    BY <1>3, <2>1 DEF CellOf, Numbers
  <2> HIDE DEF s
  <2> QED
    BY <2>1, <2>2 DEF CellOf
<1>9. Recorded' /\ Unmoved' /\ Untraced'
  BY <1>4, <1>5, <1>6, <1>8 DEF Recorded, Unmoved, Untraced
<1>10. Charged'
  BY <1>4, <1>5, <1>7, <1>8 DEF Charged, Arrived
<1> QED
  BY <1>1, <1>2, <1>4, <1>5, <1>9, <1>10 DEF Synch

\* After the fire phase, whatever the arm, potentials and spikes are the equation's.
LEMMA FiresAll ==
  ASSUME Types, Cells(was.cell), Unmoved, NEW y, y = Contrasted(cell, Fired(cell)), NEW g \in Group
  PROVE  /\ Fires(was.cell[g], y[g], g)
         /\ y[g].syn = cell[g].syn /\ y[g].trace = cell[g].trace /\ y[g].prev = cell[g].prev
<1> DEFINE c == cell[g]
           S == Over(c, g)
           v == After(c, g)
           x == Fired(cell)
           out == Losers(c, x[g])
           o == was.cell[g]
<1>1. c \in CellOf(g) /\ S \in SUBSET Neuron(g) /\ v \in Numbers(g)
  BY FiredCells DEF Types, Cells, Over
<1>2. Cells(x) /\ x[g] = [c EXCEPT !.v = v, !.spikes = S]
  BY FiredCells DEF Types
<1>3. y[g] = IF g \notin Clamped THEN x[g] ELSE Clamp(x[g], out, g)
  <2>1. Cells(x)
    BY <1>2
  <2> HIDE DEF x
  <2> QED
    BY <2>1, ContrastedCells DEF x
<1>4. x[g] \in CellOf(g) /\ x[g].v = v /\ x[g].spikes = S /\ x[g].syn = c.syn /\ x[g].hold = c.hold
      /\ x[g].trace = c.trace /\ x[g].prev = c.prev
  <2> HIDE DEF S, v, c
  <2> QED
    BY <1>1, <1>2 DEF CellOf
<1>5. /\ out \in SUBSET S /\ Cardinality(S \ out) = Min({Winners, Cardinality(S)})
      /\ \A i \in S \ out, j \in out : Beats(c, i, j)
  <2>1. out = Lost(c, S)
    BY <1>4 DEF Losers, Lost
  <2> HIDE DEF out, S, c, v, x
  <2> QED
    BY <1>1, <2>1, WinnersLeft
<1> HIDE DEF out, x
<1>6. /\ y[g].syn = c.syn /\ y[g].hold = c.hold /\ y[g].trace = c.trace /\ y[g].prev = c.prev
      /\ y[g].spikes = (IF g \notin Clamped THEN S ELSE S \ out)
      /\ \A i \in Neuron(g) : y[g].v[i] = v[i] \/ (i \in S /\ y[g].v[i] = Reset)
  <2>1. CASE g \notin Clamped
    BY <1>3, <1>4, <2>1
  <2>2. CASE g \in Clamped
    <3> DEFINE u == [i \in Neuron(g) |-> IF i \in out THEN Reset ELSE x[g].v[i]]
               T == x[g].spikes \ out
    <3>1. y[g] = [x[g] EXCEPT !.spikes = T, !.v = u]
      BY <1>3, <2>2 DEF Clamp
    <3>2. \A i \in Neuron(g) : u[i] = v[i] \/ (i \in S /\ u[i] = Reset)
      BY <1>4, <1>5
    <3>3. T = S \ out
      BY <1>4
    <3> HIDE DEF u, T, S, c, v
    <3>4. y[g].syn = x[g].syn /\ y[g].hold = x[g].hold /\ y[g].trace = x[g].trace /\ y[g].prev = x[g].prev
          /\ y[g].spikes = T /\ y[g].v = u
      BY <1>4, <3>1 DEF CellOf
    <3> QED
      BY <1>4, <2>2, <3>2, <3>3, <3>4
  <2> QED
    BY <2>1, <2>2
<1>7. \A i \in Neuron(g) : Potential(c, i) = Leaked(o, y[g], i)
  <2>1. c.v = o.v
    BY DEF Unmoved
  <2> HIDE DEF c, o
  <2> QED
    BY <1>6, <2>1 DEF Potential, Leaked
<1>8. S = Reached(o, y[g], g)
  BY <1>7 DEF Over, Reached
<1>9. \A i \in Neuron(g) : y[g].v[i] = IF i \in S THEN Reset ELSE Leaked(o, y[g], i)
  <2>1. \A i \in Neuron(g) : v[i] = IF i \in S THEN Reset ELSE Potential(c, i)
    BY DEF After
  <2> HIDE DEF S, c, v, o
  <2> QED
    BY <1>6, <1>7, <2>1
<1>10. \A i, j \in Neuron(g) : Beats(c, i, j) =>
           Leaked(o, y[g], i) > Leaked(o, y[g], j) \/ (Leaked(o, y[g], i) = Leaked(o, y[g], j) /\ i < j)
  BY <1>7 DEF Beats
<1>11. \A i \in y[g].spikes, j \in S \ y[g].spikes : i \in Neuron(g) /\ j \in Neuron(g) /\ Beats(c, i, j)
  <2> HIDE DEF S, c
  <2> QED
    BY <1>1, <1>5, <1>6
<1>12. /\ y[g].spikes \subseteq S /\ (g \notin Clamped => y[g].spikes = S)
       /\ g \in Clamped => Cardinality(y[g].spikes) = Min({Winners, Cardinality(S)})
  <2> HIDE DEF S, c
  <2> QED
    BY <1>5, <1>6
<1>13. Fires(o, y[g], g)
  <2> HIDE DEF S, c, o, v
  <2> QED
    BY <1>8, <1>9, <1>10, <1>11, <1>12 DEF Fires
<1> QED
  BY <1>6, <1>13

\* The fire phase makes potentials and spikes of the potentials the tick began with.
LEMMA FireSynch == ASSUME Types, Types', Synch, Fire PROVE Synch'
<1>1. /\ run.phase = "fire" /\ run' = [run EXCEPT !.phase = "learn"] /\ UNCHANGED <<net, weights, was>>
      /\ cell' = Contrasted(cell, Fired(cell))
  BY DEF Fire, At, Goto, tickVars
<1>2. run'.phase = "learn"
  BY <1>1 DEF Types, Runs
<1>3. Recorded /\ Charged /\ Unmoved /\ Untraced /\ weights = was.weights
  BY <1>1 DEF Synch
<1>4. Cells(was.cell)' /\ Weighted(was.weights)'
  BY <1>1, <1>3 DEF Recorded, Cells, CellOf, Numbers, Weighted, Synapses, Conn
<1>5. \A g \in Group : \A j \in Neuron(g) : Arriving(g, j)' = Arriving(g, j)
  BY <1>1 DEF Arriving, Into, Weights
<1>6. \A g \in Group : /\ Fires(was.cell[g], cell'[g], g)
                       /\ cell'[g].syn = cell[g].syn /\ cell'[g].trace = cell[g].trace /\ cell'[g].prev = cell[g].prev
  BY <1>1, <1>3, FiresAll DEF Recorded
<1>7. Recorded' /\ Untraced' /\ Charged'
  BY <1>1, <1>3, <1>4, <1>5, <1>6 DEF Recorded, Untraced, Charged
<1>8. HasFired'
  BY <1>1, <1>6, SMTT(30) DEF HasFired, Fires, Reached, Leaked
<1> QED
  BY <1>1, <1>2, <1>3, <1>7, <1>8 DEF Synch

\* The learn phase uses the traces and the source spikes the tick began with.
LEMMA LearnSynch == ASSUME Types, Types', Synch, Learn PROVE Synch'
<1>1. /\ run.phase = "learn" /\ run' = [run EXCEPT !.phase = "trace"] /\ UNCHANGED <<net, cell>>
      /\ weights' = Learnt(cell, weights, Modulation) /\ was' = [was EXCEPT !.m = Modulation]
  BY DEF Learn, At, Goto, tickVars
<1>2. run'.phase = "trace"
  BY <1>1 DEF Types, Runs
<1>3. Recorded /\ Charged /\ Untraced /\ HasFired /\ weights = was.weights
  BY <1>1 DEF Synch
<1>4. /\ was' = [cell |-> was'.cell, weights |-> was'.weights, input |-> was'.input, m |-> was'.m]
      /\ was'.cell = was.cell /\ was'.weights = was.weights /\ was'.input = was.input /\ was'.m = Modulation
  BY <1>1 DEF Synch
<1>5. Cells(was.cell)' /\ Weighted(was.weights)'
  BY <1>1, <1>3, <1>4 DEF Recorded, Cells, CellOf, Numbers, Weighted, Synapses, Conn
<1>6. \A g \in Group : \A j \in Neuron(g) : Arriving(g, j)' = Arriving(g, j)
  BY <1>1, <1>4 DEF Arriving, Into, Weights
<1>7. Recorded' /\ Untraced' /\ Charged'
  BY <1>1, <1>3, <1>4, <1>5, <1>6 DEF Recorded, Untraced, Charged
<1>8. HasFired'
  BY <1>1, <1>3, <1>4 DEF HasFired
<1>9. ASSUME NEW c \in Conn PROVE LearningRule(c)'
  <2> DEFINE src == net.conns[c].src
             dst == net.conns[c].dst
             pot(s) == IF s[2] \in cell[dst].spikes THEN LrPot * was.cell[src].trace[s[1]] ELSE 0
             dep(s) == IF s[1] \in was.cell[src].prev THEN LrDep * was.cell[dst].trace[s[2]] ELSE 0
             w == was.weights
             m == Modulation
  <2>1. src \in Group /\ dst \in Group
    BY Conns DEF Types
  <2>2. /\ cell[src].trace = was.cell[src].trace /\ cell[dst].trace = was.cell[dst].trace
        /\ cell[src].prev = was.cell[src].prev
    BY <1>3, <2>1 DEF Recorded, Untraced
  <2>3. \A s : Change(cell, c, s, m) = m * (pot(s) - dep(s))
    BY <2>2 DEF Change
  <2>4. weights'[c] = IF net.conns[c].plastic THEN [s \in DOMAIN w[c] |-> Limited(w[c][s] + Change(cell, c, s, m))]
                      ELSE w[c]
    BY <1>1, <1>3 DEF Learnt
  <2> HIDE DEF pot, dep, m
  <2>5. weights'[c] = IF ~net.conns[c].plastic THEN w[c]
                      ELSE [s \in DOMAIN w[c] |-> Limited(w[c][s] + m * (pot(s) - dep(s)))]
    BY <2>3, <2>4
  <2> QED
    BY <1>1, <1>4, <2>5 DEF LearningRule, pot, dep, m
<1>10. HasLearnt'
  BY <1>1, <1>9 DEF HasLearnt, Conn
<1> QED
  BY <1>1, <1>2, <1>4, <1>7, <1>8, <1>10 DEF Synch

\* How many of one thing a set has.
LEMMA One == \A i, S : Cardinality({i} \cap S) = IF i \in S THEN 1 ELSE 0
<1> SUFFICES ASSUME NEW i, NEW S PROVE Cardinality({i} \cap S) = IF i \in S THEN 1 ELSE 0
  OBVIOUS
<1>1. CASE i \in S
  <2>1. {i} \cap S = {i}
    BY <1>1
  <2> QED
    BY <1>1, <2>1, FS_Singleton
<1>2. CASE i \notin S
  <2>1. {i} \cap S = {}
    BY <1>2
  <2> QED
    BY <1>2, <2>1, FS_EmptySet
<1> QED
  BY <1>1, <1>2

\* What a cell has fired is said by its potentials, spikes, currents and hold.
LEMMA FiresSame ==
  ASSUME NEW o, NEW g, NEW x, Fires(o, x, g),
         NEW y, y.v = x.v, y.syn = x.syn, y.hold = x.hold, y.spikes = x.spikes
  PROVE  Fires(o, y, g)
<1>1. \A i \in Neuron(g) : Leaked(o, y, i) = Leaked(o, x, i)
  BY DEF Leaked
<1>2. Reached(o, y, g) = Reached(o, x, g)
  BY <1>1 DEF Reached
<1>3. x.spikes \in SUBSET Neuron(g) /\ Reached(o, x, g) \in SUBSET Neuron(g)
  BY DEF Fires, Reached
<1> QED
  BY <1>1, <1>2, <1>3 DEF Fires

\* The trace phase updates the traces, and leaves what has been learnt from them.
LEMMA TraceSynch == ASSUME Types, Types', Synch, Trace PROVE Synch'
<1>1. /\ run.phase = "trace" /\ run' = [run EXCEPT !.phase = "report"] /\ UNCHANGED <<net, weights, was>>
      /\ cell' = Traced(cell)
  BY DEF Trace, At, Goto, tickVars
<1>2. run'.phase = "report"
  BY <1>1 DEF Types, Runs
<1>3. Recorded /\ Charged /\ Untraced /\ HasFired /\ HasLearnt
  BY <1>1 DEF Synch
<1>4. Cells(was.cell)' /\ Weighted(was.weights)'
  BY <1>1, <1>3 DEF Recorded, Cells, CellOf, Numbers, Weighted, Synapses, Conn
<1>5. \A g \in Group : \A j \in Neuron(g) : Arriving(g, j)' = Arriving(g, j)
  BY <1>1 DEF Arriving, Into, Weights
<1>6. ASSUME NEW g \in Group
      PROVE  /\ cell'[g].v = cell[g].v /\ cell'[g].syn = cell[g].syn /\ cell'[g].hold = cell[g].hold
             /\ cell'[g].spikes = cell[g].spikes /\ cell'[g].prev = cell[g].prev
             /\ \A i \in Neuron(g) : cell'[g].trace[i] = Half(was.cell[g].trace[i]) + Cardinality({i} \cap cell[g].spikes)
  <2> DEFINE t == [i \in Neuron(g) |-> Half(cell[g].trace[i]) + (IF i \in cell[g].spikes THEN 1 ELSE 0)]
  <2>1. cell[g] \in CellOf(g) /\ cell[g].trace = was.cell[g].trace
    BY <1>3 DEF Types, Cells, Untraced
  <2>2. cell'[g] = [cell[g] EXCEPT !.trace = t]
    BY <1>1, TracedCells DEF Types
  <2>3. \A i \in Neuron(g) : t[i] = Half(was.cell[g].trace[i]) + Cardinality({i} \cap cell[g].spikes)
    <3>1. \A i \in Neuron(g) : t[i] = Half(cell[g].trace[i]) + (IF i \in cell[g].spikes THEN 1 ELSE 0)
      OBVIOUS
    <3> HIDE DEF t
    <3> QED
      BY <2>1, <3>1, One
  <2> HIDE DEF t
  <2> QED
    BY <2>1, <2>2, <2>3 DEF CellOf
<1>7. Recorded' /\ Charged'
  BY <1>1, <1>3, <1>4, <1>5, <1>6 DEF Recorded, Charged
<1>8. HasFired'
  <2>1. ASSUME NEW g \in Group PROVE Fires(was.cell[g], cell'[g], g)
    <3>1. Fires(was.cell[g], cell[g], g)
      BY <1>3 DEF HasFired
    <3> QED
      BY <1>6, <3>1, FiresSame
  <2> QED
    BY <1>1, <2>1 DEF HasFired
<1>9. HasTraced'
  BY <1>1, <1>6 DEF HasTraced
<1>10. HasLearnt'
  <2> SUFFICES ASSUME NEW c \in Conn PROVE LearningRule(c)'
    BY <1>1 DEF HasLearnt, Conn
  <2>1. LearningRule(c) /\ net.conns[c].dst \in Group
    BY <1>3, Conns DEF HasLearnt, Types
  <2>2. cell'[net.conns[c].dst].spikes = cell[net.conns[c].dst].spikes
    BY <1>6, <2>1
  <2> QED
    BY <1>1, <2>1, <2>2 DEF LearningRule
<1> QED
  BY <1>1, <1>2, <1>7, <1>8, <1>9, <1>10, <1>3 DEF Synch

\* A report leaves the arrays: only in a report of CUDA may a handler prune.
LEMMA ReportSynch ==
  ASSUME Types, Types', Synch, NextGroup \/ NextHandler \/ LogSpike \/ CallHandler
  PROVE  Synch'
<1>1. UNCHANGED <<net, cell, was>> /\ run'.phase = run.phase
  BY DEF NextGroup, NextHandler, LogSpike, CallHandler, Reported, reportVars, Types, Runs
<1>2. CASE UNCHANGED weights
  BY <1>1, <1>2, SynchStays
<1>3. CASE ~UNCHANGED weights
  <2>1. CallHandler
    BY <1>3 DEF NextGroup, NextHandler, LogSpike
  <2>2. Effect(net.handlers[run.g][run.h])
    BY <2>1 DEF CallHandler
  <2>3. run.phase = "cuda_report"
    BY <1>3, <2>2 DEF Effect, OnCuda, At
  <2> QED
    BY <1>1, <2>3, SynchLeft
<1> QED
  BY <1>2, <1>3

\* Every step keeps what each phase finds.
LEMMA NextSynch == ASSUME Types, Types', Synch, [Next]_vars PROVE Synch'
<1> DEFINE ticking == {"injections", "inputs", "fire", "learn", "trace", "report"}
<1>1. CASE Start
  <2>1. was' = was /\ run'.phase \notin ticking
    <3>1. CASE ScheduleInject
      BY <3>1 DEF ScheduleInject, At
    <3>2. ASSUME NEW d \in Durations, NEW dt \in Dts, NEW on \in Devices, Run(d, dt, on)
          PROVE  was' = was /\ run'.phase \notin ticking
      BY <3>2 DEF Run, NoRun
    <3> QED
      BY <1>1, <3>1, <3>2 DEF Start
  <2> QED
    BY <2>1, SynchLeft
<1>2. CASE Tick
  <2>1. CASE Finish
    <3>1. was' = was /\ run'.phase \notin ticking
      BY <2>1 DEF Finish, NoRun, Types, Runs
    <3> QED
      BY <3>1, SynchLeft
  <2> QED
    BY <1>2, <2>1, CurrentsSynch, InjectionsSynch, InputsSynch, FireSynch, LearnSynch, TraceSynch, ReportSynch DEF Tick
<1>3. CASE Cuda
  <2>1. was' = was
    BY <1>3 DEF Cuda, Refuse, Upload, Launch, Fetch, Mirror, NextLaunch, Download, DriverFails, Fallback, hostVars
  <2>2. run'.phase \notin ticking
    <3>1. CASE Refuse \/ Upload \/ Launch \/ Mirror \/ DriverFails
      BY <3>1 DEF Refuse, Upload, Launch, Mirror, DriverFails, Goto, Types, Runs
    <3>2. CASE Fetch \/ NextLaunch
      BY <3>2 DEF Fetch, NextLaunch, Types, Runs
    <3>3. CASE Download
      BY <3>3 DEF Download, NoRun
    <3>4. CASE Fallback
      <4>1. run'.phase = "currents"
        BY <3>4 DEF Fallback, Types, Runs
      <4> QED
        BY <4>1
    <3> QED
      BY <1>3, <3>1, <3>2, <3>3, <3>4 DEF Cuda
  <2> QED
    BY <2>1, <2>2, SynchLeft
<1>4. CASE UNCHANGED vars
  <2>1. UNCHANGED <<net, cell, weights, was, run>>
    BY <1>4 DEF vars
  <2> QED
    BY <2>1, SynchStays
<1> QED
  BY <1>1, <1>2, <1>3, <1>4 DEF Next

\* What the invariant says of the end of a tick is the equations.
LEMMA SynchEquations == ASSUME Types, Synch, run.phase = "report", NEW g \in Group PROVE Equations(g)
<1> DEFINE o == was.cell[g]
           x == cell[g]
           arriving(i) == UNION {{<<c, s>> : s \in {s \in DOMAIN was.weights[c] :
                             s[2] = i /\ s[1] \in was.cell[net.conns[c].src].prev}}
                          : c \in {c \in Conn : net.conns[c].dst = g}}
<1>1. Charged /\ HasFired /\ HasTraced
  BY DEF Synch
<1>2. \A i : arriving(i) = Into(was.cell, was.weights, Len(net.conns), g, i)
  BY Conns DEF Into, Types
<1>3. ASSUME NEW i \in Neuron(g)
      PROVE  x.syn[i] = Half(o.syn[i]) + Sum([a \in arriving(i) |-> was.weights[a[1]][a[2]]], arriving(i)) + was.input[g][i]
  <2>1. x.syn[i] = Arriving(g, i) + was.input[g][i]
    BY <1>1 DEF Charged
  <2> QED
    BY <1>2, <2>1 DEF Arriving, Weights
<1>4. /\ Fires(o, x, g)
      /\ \A i \in Neuron(g) : x.trace[i] = Half(o.trace[i]) + Cardinality({i} \cap x.spikes)
  BY <1>1 DEF HasFired, HasTraced
<1>5. \A i \in Neuron(g) : x.v[i] = IF i \in Reached(o, x, g) THEN Reset ELSE Leaked(o, x, i)
  BY <1>4 DEF Fires
<1> QED
  BY <1>3, <1>4 DEF Equations, Fires, Reached, Leaked

\* Every tick of the CPU is one synchronous step, for every network, whatever the
\* injections, the inputs and the modulator signal.
THEOREM SimulationTickIsSynchronous == Spec => []TickIsSynchronous
<1>1. Types /\ Synch => TickIsSynchronous
  BY SynchEquations DEF TickIsSynchronous, At, Synch, HasLearnt
<1>2. Init => Types /\ Synch
  BY InitTypes, InitSynch
<1>3. Types /\ Synch /\ [Next]_vars => (Types /\ Synch)'
  BY NextTypes, NextSynch
<1> QED
  BY <1>1, <1>2, <1>3, PTL DEF Spec
=============================================================================
