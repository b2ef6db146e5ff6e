----------------------------- MODULE PoolProofs -----------------------------
(***************************************************************************)
(* The wave protocol of the thread pool, proved for every number of        *)
(* hardware threads, every index span, every minGrain and any number of    *)
(* waves: IInv is inductive, it implies the safety properties of Pool, and *)
(* the pool implements ParallelFor.                                        *)
(***************************************************************************)
EXTENDS Pool, FiniteSetTheorems, TLAPS

(* ---- arithmetic of the partition ---- *)

LEMMA WorkersNat == NumWorkers \in Nat
  BY PoolAssumption DEF NumWorkers

LEMMA Ceiling ==
  ASSUME NEW n \in Nat, n >= 1, NEW d \in Nat, d >= 1
  PROVE  Ceil(n, d) \in Nat
  BY DEF Ceil

LEMMA CallType ==
  ASSUME NEW a \in PF!Call
  PROVE  /\ a.begin \in 0 .. Span /\ a.end \in 0 .. Span /\ a.begin < a.end
         /\ a.grain \in Nat /\ a.body \in Bodies
         /\ Length(a) \in Nat /\ Length(a) >= 1
         /\ PF!Range(a) \subseteq PF!Index
<1>1. a \in [begin : 0 .. Span, end : 0 .. Span, grain : Grains, body : Bodies] /\ a.begin < a.end
  BY DEF PF!Call
<1>2. /\ a.begin \in 0 .. Span /\ a.end \in 0 .. Span /\ a.grain \in Nat /\ a.body \in Bodies
  BY <1>1, PoolAssumption
<1>3. a.begin < a.end
  BY <1>1
<1>. QED
  BY <1>2, <1>3, PoolAssumption DEF Length, PF!Range, PF!Index

LEMMA ChunkCount ==
  ASSUME NEW a \in PF!Call
  PROVE  NumChunks(a) \in 1 .. NumSlots
<1>1. Grain(a) \in Nat /\ Grain(a) >= 1
  BY CallType DEF Grain
<1>2. Ceil(Length(a), Grain(a)) \in Nat
  BY <1>1, CallType, Ceiling
<1>. QED
  BY <1>2, WorkersNat DEF NumChunks, NumSlots

LEMMA DivMod ==
  ASSUME NEW n \in Nat, NEW d \in Nat, d >= 1
  PROVE  /\ n \div d \in Nat /\ n % d \in 0 .. d - 1
         /\ n = (d * (n \div d)) + (n % d)
  OBVIOUS

LEMMA Monotone ==
  ASSUME NEW b \in Nat, NEW j \in Nat, NEW m \in Nat, j <= m
  PROVE  j * b <= m * b /\ j * b \in Nat /\ (j + 1) * b = j * b + b
  OBVIOUS

\* The partition loop starts at begin, advances by one chunk, never passes the
\* end and arrives there: the remainder is spread over the first chunks.
LEMMA PartitionArithmetic ==
  ASSUME NEW a \in PF!Call
  PROVE  /\ PartOff(a, 0) = a.begin
         /\ PartOff(a, NumChunks(a)) = a.end
         /\ \A j \in 0 .. NumChunks(a) - 1 :
              /\ ChunkLen(a, j) \in Nat
              /\ PartOff(a, j) \in a.begin .. a.end
              /\ PartOff(a, j + 1) = PartOff(a, j) + ChunkLen(a, j)
              /\ PartOff(a, j + 1) \in a.begin .. a.end
<1> DEFINE n == NumChunks(a)  b == Base(a)  r == Rem(a)
<1>1. n \in Nat /\ n >= 1
  BY ChunkCount, WorkersNat DEF NumSlots
<1>2. b \in Nat /\ r \in 0 .. n - 1 /\ Length(a) = n * b + r
  BY <1>1, CallType, DivMod DEF Base, Rem
<1>3. a.begin \in Nat /\ a.end = a.begin + n * b + r
  BY <1>1, <1>2, CallType DEF Length
<1>. HIDE DEF n, b, r
<1>4. a.begin + 0 * b + (IF 0 < r THEN 0 ELSE r) = a.begin
  BY <1>1, <1>2, <1>3
<1>5. a.begin + n * b + (IF n < r THEN n ELSE r) = a.end
  BY <1>1, <1>2, <1>3
<1>6. ASSUME NEW j \in 0 .. n - 1
      PROVE  LET o(x) == a.begin + x * b + (IF x < r THEN x ELSE r)
                 len == b + (IF j < r THEN 1 ELSE 0)
             IN  /\ len \in Nat /\ o(j) \in a.begin .. a.end
                 /\ o(j + 1) = o(j) + len /\ o(j + 1) \in a.begin .. a.end
  <2>1. j * b \in Nat /\ (j + 1) * b = j * b + b /\ n * b \in Nat
    BY <1>1, <1>2, Monotone
  <2>2. (j + 1) * b <= n * b
    BY <1>1, <1>2, Monotone
  <2>. QED
    BY <1>1, <1>2, <1>3, <2>1, <2>2
<1>. QED
  BY <1>4, <1>5, <1>6 DEF PartOff, ChunkLen, n, b, r

(* ---- facts the steps share ---- *)

LEMMA VisitType ==
  ASSUME NEW r \in [Bodies -> [PF!Index -> Nat]], NEW b \in Bodies, NEW I
  PROVE  /\ PF!Visit(r, b, I) \in [Bodies -> [PF!Index -> Nat]]
         /\ \A c \in Bodies, i \in PF!Index :
              PF!Visit(r, b, I)[c][i] = IF c = b /\ i \in I THEN r[c][i] + 1 ELSE r[c][i]
  BY DEF PF!Visit

LEMMA FinishedFinite ==
  /\ IsFiniteSet(Workers) /\ Cardinality(Workers) = NumWorkers
  /\ IsFiniteSet(Finished) /\ Cardinality(Finished) \in 0 .. NumWorkers
  /\ Cardinality(Finished) = NumWorkers => Finished = Workers
<1>1. IsFiniteSet(Workers) /\ Cardinality(Workers) = NumWorkers
  BY WorkersNat, FS_Interval DEF Workers
<1>2. Finished \subseteq Workers
  BY DEF Finished
<1>. QED
  BY <1>1, <1>2, FS_Subset, FS_CardinalityType, WorkersNat

LEMMA FinishedGrows ==
  ASSUME NEW w \in Workers, w \notin Finished, Finished' = Finished \cup {w}
  PROVE  Cardinality(Finished)' = Cardinality(Finished) + 1
  BY FinishedFinite, FS_AddElement

(* ---- the invariant holds initially ---- *)

LEMMA InitInvariant == Init => IInv
<1> SUFFICES ASSUME Init PROVE IInv
  OBVIOUS
<1> USE DEF Init
<1>1. TypeOK
  BY PoolAssumption, WorkersNat DEF TypeOK, PF!NoRuns, WaveState, NumSlots
<1>2. WorkersInStep /\ Barrier /\ Partition /\ Visited /\ ExactlyOnce
  BY DEF WorkersInStep, Barrier, Partition, Visited, ExactlyOnce, WaveState
<1>. QED
  BY <1>1, <1>2 DEF IInv

(* ---- and is preserved by the coordinator's steps ---- *)

LEMMA BeginStep ==
  ASSUME IInv, NEW a \in PF!Call, Begin(a)
  PROVE  IInv'
<1> USE DEF Begin, wave, bounds, workers
<1>1. PF!NoRuns \in [Bodies -> [PF!Index -> Nat]]
  BY DEF PF!NoRuns
<1>2. TypeOK'
  BY <1>1 DEF IInv, TypeOK, WaveState
<1>3. WorkersInStep' /\ Barrier' /\ Partition'
  BY DEF IInv, WorkersInStep, Barrier, Partition, WaveState
<1>4. Visited' /\ ExactlyOnce'
  BY DEF Visited, ExactlyOnce, WaveState
<1>. QED
  BY <1>2, <1>3, <1>4 DEF IInv

LEMMA EnsureWorkersStep ==
  ASSUME IInv, EnsureWorkers
  PROVE  IInv'
<1> USE DEF EnsureWorkers, wave, bounds
<1>1. TypeOK'
  BY DEF IInv, TypeOK, WaveState
<1>2. WorkersInStep'
  BY DEF IInv, TypeOK, WorkersInStep, WaveState
<1>3. Barrier' /\ Partition' /\ Visited' /\ ExactlyOnce'
  BY DEF IInv, Barrier, Partition, Visited, ExactlyOnce, WaveState
<1>. QED
  BY <1>1, <1>2, <1>3 DEF IInv

LEMMA RunInlineStep ==
  ASSUME IInv, RunInline
  PROVE  IInv'
<1> USE DEF RunInline, wave, bounds, workers
<1>1. arg.body \in Bodies /\ PF!Range(arg) \subseteq PF!Index
  BY CallType DEF IInv, TypeOK
<1>2. TypeOK'
  BY <1>1, VisitType DEF IInv, TypeOK, WaveState
<1>3. WorkersInStep' /\ Barrier' /\ Partition' /\ Visited'
  BY DEF IInv, WorkersInStep, Barrier, Partition, Visited, WaveState
<1>4. ExactlyOnce'
  <2>1. runs = PF!NoRuns
    BY DEF IInv, Visited
  <2>2. \A b \in Bodies, i \in PF!Index : runs[b][i] = 0
    BY <2>1 DEF PF!NoRuns
  <2>. QED
    BY <1>1, <2>2, VisitType DEF IInv, TypeOK, ExactlyOnce
<1>. QED
  BY <1>2, <1>3, <1>4 DEF IInv

LEMMA AssignBoundsStep ==
  ASSUME IInv, AssignBounds
  PROVE  IInv'
<1> USE DEF AssignBounds, wave, workers
<1>1. arg \in PF!Call /\ NumChunks(arg) \in Nat /\ arg.begin \in 0 .. Span
  BY ChunkCount, CallType, WorkersNat DEF IInv, TypeOK, NumSlots
<1>2. TypeOK'
  BY <1>1, PoolAssumption, WorkersNat DEF IInv, TypeOK, WaveState, NumSlots
<1>3. WorkersInStep' /\ Barrier' /\ Visited' /\ ExactlyOnce'
  BY DEF IInv, WorkersInStep, Barrier, Visited, ExactlyOnce, WaveState
<1>4. Partition'
  BY <1>1, PartitionArithmetic, WorkersNat DEF Partition, WaveState, Slots
<1>. QED
  BY <1>2, <1>3, <1>4 DEF IInv

LEMMA FillSlotStep ==
  ASSUME IInv, FillSlot
  PROVE  IInv'
<1> USE DEF FillSlot, wave, workers
<1>1. /\ arg \in PF!Call /\ NumChunks(arg) \in 1 .. NumSlots /\ k \in Nat
      /\ k \in 0 .. NumChunks(arg) - 1 /\ NumSlots \in Nat
      /\ arg.begin \in 0 .. Span /\ arg.end \in 0 .. Span /\ Span \in Nat
  BY ChunkCount, CallType, WorkersNat, PoolAssumption DEF IInv, TypeOK, NumSlots
<1>2. /\ ChunkLen(arg, k) \in Nat /\ off \in arg.begin .. arg.end
      /\ off' = PartOff(arg, k + 1) /\ off' \in arg.begin .. arg.end
  BY <1>1, PartitionArithmetic DEF IInv, Partition
<1>3. k \in Slots
  BY <1>1, WorkersNat DEF Slots, NumSlots
<1>4. TypeOK'
  BY <1>1, <1>2, <1>3 DEF IInv, TypeOK, WaveState
<1>5. WorkersInStep' /\ Barrier' /\ Visited' /\ ExactlyOnce'
  BY DEF IInv, WorkersInStep, Barrier, Visited, ExactlyOnce, WaveState
<1>6. Partition'
  <2>1. \A s \in Slots : s \in Int /\ lo[s] \in Int /\ hi[s] \in Int
    BY WorkersNat DEF Slots, IInv, TypeOK
  <2>2. \A s \in Slots : /\ lo'[s] = IF s = k THEN off ELSE lo[s]
                         /\ hi'[s] = IF s = k THEN off' ELSE hi[s]
    BY DEF IInv, TypeOK
  <2>a. /\ \A s \in Slots : s < k => arg.begin <= lo[s] /\ lo[s] <= hi[s] /\ hi[s] <= off
        /\ \A s \in Slots : s >= k => lo[s] = 0 /\ hi[s] = 0
        /\ \A s, t \in Slots : s < t /\ t < k => hi[s] <= lo[t]
        /\ \A i \in arg.begin .. off - 1 : \E s \in Slots : i \in Chunk(s)
        /\ off' = off + ChunkLen(arg, k) /\ off <= off'
    BY <1>1, <1>2 DEF IInv, Partition
  <2> HIDE DEF FillSlot
  <2>3. \A s \in Slots : s < k + 1 => arg.begin <= lo'[s] /\ lo'[s] <= hi'[s] /\ hi'[s] <= off'
    <3> TAKE s \in Slots
    <3>1. CASE s < k
      BY <1>1, <1>2, <2>a, <2>1, <2>2, <3>1
    <3>2. CASE s = k
      BY <1>1, <1>2, <2>a, <2>2, <3>2
    <3>. QED
      BY <1>1, <2>1, <3>1, <3>2
  <2>4. \A s \in Slots : s >= k + 1 => lo'[s] = 0 /\ hi'[s] = 0
    BY <1>1, <2>a, <2>1, <2>2
  <2>5. \A s, t \in Slots : s < t /\ t < k + 1 => hi'[s] <= lo'[t]
    <3> TAKE s, t \in Slots
    <3>1. CASE t < k
      BY <1>1, <2>a, <2>1, <2>2, <3>1
    <3>2. CASE t = k
      BY <1>1, <2>a, <2>1, <2>2, <3>2
    <3>. QED
      BY <1>1, <2>1, <3>1, <3>2
  <2>6. \A i \in arg.begin .. off' - 1 : \E s \in Slots : i \in Chunk(s)'
    <3> SUFFICES ASSUME NEW i \in arg.begin .. off' - 1
                 PROVE  \E s \in Slots : i \in lo'[s] .. hi'[s] - 1
      BY DEF Chunk
    <3>1. CASE i < off
      <4>1. PICK s \in Slots : i \in Chunk(s)
        BY <1>1, <1>2, <2>a, <3>1
      <4>2. s # k
        BY <1>3, <2>a, <4>1, <1>1 DEF Chunk
      <4>. QED
        BY <4>1, <4>2, <2>2 DEF Chunk
    <3>2. CASE i >= off
      BY <1>1, <1>2, <1>3, <2>2, <3>2
    <3>. QED
      BY <1>1, <1>2, <3>1, <3>2
  <2>. QED
    BY <1>1, <1>2, <2>3, <2>4, <2>5, <2>6 DEF FillSlot, Partition, WaveState
<1>. QED
  BY <1>4, <1>5, <1>6 DEF IInv

LEMMA PublishStep ==
  ASSUME IInv, Publish
  PROVE  IInv'
<1> USE DEF Publish, bounds, workers
<1>1. arg.body \in Bodies /\ NumSlots \in Nat
  BY CallType, WorkersNat DEF IInv, TypeOK, NumSlots
<1>2. TypeOK'
  BY <1>1 DEF IInv, TypeOK, WaveState
<1>3. WorkersInStep'
  BY DEF IInv, TypeOK, WorkersInStep, WaveState
<1>4. Barrier'
  <2>1. \A w \in Workers : seen[w] = gen /\ gen \in Nat
    BY DEF IInv, TypeOK, WorkersInStep, WaveState
  <2>2. Finished' = {}
    BY <2>1 DEF Finished
  <2>. QED
    BY <2>2, FS_EmptySet DEF Barrier, CoordCounted
<1>5. Partition'
  BY DEF IInv, Partition, WaveState, Chunk
<1>6. Visited'
  <2>1. runs = PF!NoRuns
    BY DEF IInv, Visited
  <2>2. \A s \in Slots : ~VisitedSlot(s)'
    <3>1. \A w \in Workers : seen[w] = gen /\ gen \in Nat
      BY DEF IInv, TypeOK, WorkersInStep, WaveState
    <3>. QED
      BY <3>1, WorkersNat DEF VisitedSlot, Slots, Workers, CoordSlot
  <2>. QED
    BY <2>1, <2>2 DEF Visited, PF!NoRuns, WaveState
<1>7. ExactlyOnce'
  BY DEF ExactlyOnce
<1>. QED
  BY <1>2, <1>3, <1>4, <1>5, <1>6, <1>7 DEF IInv

LEMMA NotifyWaveStep ==
  ASSUME IInv, NotifyWave
  PROVE  IInv'
<1> USE DEF NotifyWave, wave, bounds, workers
<1>1. TypeOK' /\ WorkersInStep' /\ Partition' /\ ExactlyOnce'
  BY DEF IInv, TypeOK, WorkersInStep, Partition, ExactlyOnce, WaveState, Chunk
<1>2. Barrier'
  BY DEF IInv, Barrier, WaveState, CoordCounted, Finished
<1>3. Visited'
  BY DEF IInv, Visited, WaveState, VisitedSlot, Chunk
<1>. QED
  BY <1>1, <1>2, <1>3 DEF IInv

\* The chunks of a published wave partition the caller's range.
LEMMA ChunksPartition ==
  ASSUME IInv, cpc \in WaveState
  PROVE  /\ \A s, t \in Slots : s # t => Chunk(s) \cap Chunk(t) = {}
         /\ \A s \in Slots : Chunk(s) \subseteq PF!Range(arg)
         /\ \A i \in PF!Range(arg) : \E s \in Slots : i \in Chunk(s)
         /\ PF!Range(arg) \subseteq PF!Index
         /\ body = arg.body /\ arg.body \in Bodies
<1>1. /\ arg \in PF!Call /\ arg.begin \in Int /\ arg.end \in Int /\ arg.body \in Bodies
      /\ PF!Range(arg) \subseteq PF!Index
  BY CallType DEF IInv, TypeOK
<1>2. /\ k = NumChunks(arg) /\ off = arg.end /\ body = arg.body /\ k \in Nat
  BY <1>1, PartitionArithmetic DEF IInv, TypeOK, Partition
<1>3. \A s \in Slots : s \in Int /\ lo[s] \in Int /\ hi[s] \in Int
  BY WorkersNat DEF Slots, IInv, TypeOK
<1>4. /\ \A s \in Slots : s < k => arg.begin <= lo[s] /\ lo[s] <= hi[s] /\ hi[s] <= off
      /\ \A s \in Slots : s >= k => lo[s] = 0 /\ hi[s] = 0
      /\ \A s, t \in Slots : s < t /\ t < k => hi[s] <= lo[t]
      /\ \A i \in arg.begin .. off - 1 : \E s \in Slots : i \in Chunk(s)
  BY DEF IInv, Partition
<1>5. ASSUME NEW s \in Slots, NEW t \in Slots, s # t, NEW i \in Chunk(s), i \in Chunk(t)
      PROVE  FALSE
  <2>1. s < k /\ t < k
    BY <1>2, <1>3, <1>4, <1>5 DEF Chunk
  <2>2. CASE s < t
    BY <1>2, <1>3, <1>4, <1>5, <2>1, <2>2 DEF Chunk
  <2>3. CASE t < s
    BY <1>2, <1>3, <1>4, <1>5, <2>1, <2>3 DEF Chunk
  <2>. QED
    BY <1>3, <1>5, <2>2, <2>3
<1>6. \A s \in Slots : Chunk(s) \subseteq PF!Range(arg)
  <2> TAKE s \in Slots
  <2>1. CASE s < k
    BY <1>1, <1>2, <1>3, <1>4, <2>1 DEF Chunk, PF!Range
  <2>2. CASE s >= k
    BY <1>4, <2>2 DEF Chunk
  <2>. QED
    BY <1>2, <1>3, <2>1, <2>2
<1>7. \A i \in PF!Range(arg) : \E s \in Slots : i \in Chunk(s)
  BY <1>2, <1>4 DEF PF!Range
<1>. QED
  BY <1>1, <1>2, <1>5, <1>6, <1>7

\* A slot that runs its chunk for the first time brings Visited forward: none
\* of its indices had been visited, and no other slot's chunk holds them.
LEMMA VisitChunk ==
  ASSUME IInv, cpc \in WaveState, cpc' \in WaveState, arg' = arg, lo' = lo, hi' = hi,
         NEW s \in Slots, ~VisitedSlot(s), VisitedSlot(s)',
         \A t \in Slots \ {s} : VisitedSlot(t)' <=> VisitedSlot(t),
         runs' = PF!Visit(runs, arg.body, Chunk(s))
  PROVE  Visited' /\ runs' \in [Bodies -> [PF!Index -> Nat]]
<1>1. arg.body \in Bodies /\ runs \in [Bodies -> [PF!Index -> Nat]]
  BY CallType DEF IInv, TypeOK
<1>2. /\ runs' \in [Bodies -> [PF!Index -> Nat]]
      /\ \A b \in Bodies, i \in PF!Index :
            runs'[b][i] = IF b = arg.body /\ i \in Chunk(s) THEN runs[b][i] + 1 ELSE runs[b][i]
  BY <1>1, VisitType
<1>3. \A b \in Bodies, i \in PF!Index :
        runs[b][i] = IF b = arg.body /\ \E t \in Slots : VisitedSlot(t) /\ i \in Chunk(t)
                     THEN 1 ELSE 0
  BY DEF IInv, Visited
<1>4. ASSUME NEW b \in Bodies, NEW i \in PF!Index
      PROVE  runs'[b][i] = IF b = arg.body /\ \E t \in Slots : VisitedSlot(t)' /\ i \in Chunk(t)
                           THEN 1 ELSE 0
  <2>1. CASE b = arg.body /\ i \in Chunk(s)
    <3>1. \A t \in Slots : i \in Chunk(t) => t = s
      BY <2>1, ChunksPartition
    <3>2. runs[b][i] = 0
      BY <1>3, <3>1
    <3>. QED
      BY <1>2, <2>1, <3>2
  <2>2. CASE ~(b = arg.body /\ i \in Chunk(s))
    BY <1>2, <1>3, <2>2
  <2>. QED
    BY <2>1, <2>2
<1>5. \A t \in Slots : Chunk(t)' = Chunk(t)
  BY DEF Chunk
<1>6. cpc' \notin {"ensure", "inline", "assign", "fill"}
  BY DEF WaveState
<1>. QED
  BY <1>2, <1>4, <1>5, <1>6 DEF Visited

LEMMA RunOwnStep ==
  ASSUME IInv, RunOwn
  PROVE  IInv'
<1> USE DEF RunOwn, wave, bounds, workers
<1>1. CoordSlot \in Slots /\ CoordSlot \notin Workers
  BY WorkersNat DEF CoordSlot, Slots, Workers
<1>2. Visited' /\ runs' \in [Bodies -> [PF!Index -> Nat]]
  <2>1. cpc \in WaveState /\ cpc' \in WaveState
    BY DEF WaveState
  <2>2. ~VisitedSlot(CoordSlot) /\ VisitedSlot(CoordSlot)'
    BY DEF VisitedSlot
  <2>3. \A t \in Slots \ {CoordSlot} : VisitedSlot(t)' <=> VisitedSlot(t)
    BY DEF VisitedSlot
  <2>. QED
    BY <1>1, <2>1, <2>2, <2>3, VisitChunk
<1>3. TypeOK'
  BY <1>2 DEF IInv, TypeOK, WaveState
<1>4. WorkersInStep' /\ Partition' /\ ExactlyOnce'
  BY DEF IInv, WorkersInStep, Partition, ExactlyOnce, WaveState, Chunk
<1>5. Barrier'
  BY DEF IInv, Barrier, WaveState, CoordCounted, Finished
<1>. QED
  BY <1>2, <1>3, <1>4, <1>5 DEF IInv

LEMMA CountOwnStep ==
  ASSUME IInv, CountOwn
  PROVE  IInv'
<1> USE DEF CountOwn, bounds, workers
<1>1. doneCount = Cardinality(Finished) /\ Finished' = Finished
  BY FinishedFinite DEF IInv, Barrier, WaveState, CoordCounted, Finished
<1>2. TypeOK'
  BY <1>1, FinishedFinite, WorkersNat DEF IInv, TypeOK, WaveState, NumSlots
<1>3. WorkersInStep' /\ Partition' /\ ExactlyOnce'
  BY DEF IInv, WorkersInStep, Partition, ExactlyOnce, WaveState, Chunk
<1>4. Barrier'
  BY <1>1 DEF Barrier, CoordCounted
<1>5. Visited'
  BY DEF IInv, Visited, WaveState, VisitedSlot, Chunk
<1>. QED
  BY <1>2, <1>3, <1>4, <1>5 DEF IInv

LEMMA BarrierWaitStep ==
  ASSUME IInv, BarrierWait
  PROVE  IInv'
<1> USE DEF BarrierWait, wave, bounds, workers
<1>1. TypeOK'
  BY WorkersNat, SMTT(30) DEF IInv, TypeOK, WaveState, CoordSlot, Slots
<1>2. WorkersInStep' /\ Partition' /\ ExactlyOnce'
  BY DEF IInv, WorkersInStep, Partition, ExactlyOnce, WaveState, Chunk
<1>3. Barrier' /\ Visited'
  BY DEF IInv, Barrier, Visited, WaveState, CoordCounted, Finished, VisitedSlot, Chunk
<1>. QED
  BY <1>1, <1>2, <1>3 DEF IInv

\* The barrier opens only when the count leaves room for no unfinished worker.
LEMMA BarrierPassStep ==
  ASSUME IInv, BarrierPass
  PROVE  IInv'
<1> USE DEF BarrierPass, wave, bounds, workers
<1>1. Finished = Workers
  <2>1. NumWorkers + 1 = Cardinality(Finished) + 1
    BY DEF IInv, Barrier, WaveState, CoordCounted, NumSlots
  <2>. QED
    BY <2>1, FinishedFinite, WorkersNat
<1>2. TypeOK' /\ WorkersInStep' /\ Partition' /\ ExactlyOnce'
  BY DEF IInv, TypeOK, WorkersInStep, Partition, ExactlyOnce, WaveState, Chunk
<1>3. Barrier' /\ Visited'
  BY <1>1 DEF IInv, Barrier, Visited, WaveState, CoordCounted, Finished, VisitedSlot, Chunk
<1>. QED
  BY <1>2, <1>3 DEF IInv

LEMMA RenotifyStep ==
  ASSUME IInv, Renotify
  PROVE  IInv'
<1> USE DEF Renotify, wave, bounds, workers
<1>1. Finished = Workers /\ cpc \in WaveState
  BY DEF IInv, Barrier, WaveState
<1>2. WorkersInStep'
  BY <1>1 DEF IInv, WorkersInStep, WaveState, Finished
<1>3. TypeOK' /\ Barrier' /\ Partition' /\ Visited'
  BY DEF IInv, TypeOK, Barrier, Partition, Visited, WaveState
<1>4. ExactlyOnce'
  <2>1. \A s \in Slots : VisitedSlot(s)
    BY <1>1, WorkersNat DEF VisitedSlot, Finished, Slots, Workers, CoordSlot
  <2>2. \A i \in PF!Index : i \in PF!Range(arg) <=> \E s \in Slots : i \in Chunk(s)
    BY <1>1, ChunksPartition
  <2>. QED
    BY <1>1, <2>1, <2>2 DEF IInv, Visited, ExactlyOnce
<1>. QED
  BY <1>2, <1>3, <1>4 DEF IInv

LEMMA ReturnStep ==
  ASSUME IInv, Return \/ ProcessExit
  PROVE  IInv'
<1> USE DEF Return, ProcessExit, wave, bounds, workers
<1>1. TypeOK' /\ WorkersInStep'
  BY DEF IInv, TypeOK, WorkersInStep, WaveState
<1>2. Barrier' /\ Partition' /\ Visited' /\ ExactlyOnce'
  BY DEF IInv, Barrier, Partition, Visited, ExactlyOnce, WaveState
<1>. QED
  BY <1>1, <1>2 DEF IInv

(* ---- and by the workers' ---- *)

\* A worker outside cv.wait, or one that still has a wave to see, is in a wave.
LEMMA WorkerInWave ==
  ASSUME IInv, NEW w \in Workers,
         wpc[w] \in Executing \/ (wpc[w] = "wait" /\ gen > seen[w])
  PROVE  /\ cpc \in WaveState /\ w \in Slots /\ w # CoordSlot /\ w \notin Finished
         /\ cpc # "renotify"
         /\ wpc[w] \in Executing => seen[w] = gen
<1>1. gen \in Nat /\ seen[w] \in Nat
  BY DEF IInv, TypeOK
<1>2. cpc \in WaveState
  BY <1>1 DEF IInv, WorkersInStep, Executing
<1>3. w \in Slots /\ w # CoordSlot
  BY WorkersNat DEF Workers, Slots, CoordSlot
<1>4. w \notin Finished
  BY <1>1 DEF Finished, Executing
<1>. QED
  BY <1>2, <1>3, <1>4 DEF IInv, Barrier, WorkersInStep, Executing

LEMMA WorkerWaitStep ==
  ASSUME IInv, NEW w \in Workers, WorkerWait(w)
  PROVE  IInv'
<1> USE DEF WorkerWait, wave, bounds, workers, coordinator
<1>1. w \in Slots
  BY WorkersNat DEF Workers, Slots
<1>2. TypeOK'
  BY <1>1 DEF IInv, TypeOK, WaveState
<1>3. WorkersInStep' /\ Partition' /\ ExactlyOnce'
  BY DEF IInv, WorkersInStep, Partition, ExactlyOnce, WaveState, Chunk
<1>4. Barrier' /\ Visited'
  BY DEF IInv, Barrier, Visited, WaveState, CoordCounted, Finished, VisitedSlot, Chunk
<1>. QED
  BY <1>2, <1>3, <1>4 DEF IInv

LEMMA WorkerWakeStep ==
  ASSUME IInv, NEW w \in Workers, WorkerWake(w)
  PROVE  IInv'
<1>1. ~stop
  BY DEF IInv, TypeOK
<1>2. /\ wpc[w] = "wait" /\ gen > seen[w]
      /\ seen' = [seen EXCEPT ![w] = gen] /\ wpc' = [wpc EXCEPT ![w] = "read"]
      /\ UNCHANGED <<gen, doneCount, body, stop, lo, hi, asleep, chunk, cpc, arg, k, off, runs>>
  BY <1>1 DEF WorkerWake, wave, bounds, coordinator
<1>3. cpc \in WaveState /\ w # CoordSlot /\ cpc # "renotify" /\ w \in Slots
  BY <1>2, WorkerInWave
<1>4. gen \in Nat /\ wpc \in [Workers -> {"unborn", "wait", "read", "body", "retire"}]
      /\ seen \in [Workers -> Nat]
  BY DEF IInv, TypeOK
<1>5. TypeOK'
  BY <1>2, <1>4 DEF IInv, TypeOK, WaveState
<1>6. WorkersInStep'
  BY <1>2, <1>3, <1>4 DEF IInv, WorkersInStep, WaveState
<1>7. Finished' = Finished
  BY <1>2, <1>4 DEF Finished
<1>8. Barrier'
  BY <1>2, <1>3, <1>7 DEF IInv, Barrier, CoordCounted
<1>9. Partition' /\ ExactlyOnce'
  BY <1>2 DEF IInv, Partition, ExactlyOnce, Chunk
<1>10. Visited'
  <2>1. \A s \in Slots : VisitedSlot(s)' <=> VisitedSlot(s)
    <3> TAKE s \in Slots
    <3>1. CASE s = w
      BY <1>2, <1>3, <1>4, <3>1 DEF VisitedSlot
    <3>2. CASE s # w /\ s # CoordSlot
      <4>1. s \in Workers
        BY <3>2, WorkersNat DEF Workers, Slots, CoordSlot
      <4>. QED
        BY <1>2, <1>4, <3>2, <4>1 DEF VisitedSlot
    <3>3. CASE s = CoordSlot
      BY <1>2, <3>3 DEF VisitedSlot
    <3>. QED
      BY <3>1, <3>2, <3>3
  <2>. QED
    BY <1>2, <1>3, <2>1 DEF IInv, Visited, Chunk, WaveState
<1>. QED
  BY <1>5, <1>6, <1>8, <1>9, <1>10 DEF IInv

LEMMA ReadChunkStep ==
  ASSUME IInv, NEW w \in Workers, ReadChunk(w)
  PROVE  IInv'
<1> USE DEF ReadChunk, wave, bounds, coordinator
<1>1. cpc \in WaveState /\ w # CoordSlot /\ cpc # "renotify" /\ w \in Slots /\ seen[w] = gen
  BY WorkerInWave DEF Executing
<1>2. wpc \in [Workers -> {"unborn", "wait", "read", "body", "retire"}]
  BY DEF IInv, TypeOK
<1>3. TypeOK'
  BY <1>1, <1>2 DEF IInv, TypeOK, WaveState
<1>4. WorkersInStep'
  BY <1>1, <1>2 DEF IInv, TypeOK, WorkersInStep, WaveState
<1>5. Barrier'
  <2>1. Finished' = Finished
    BY <1>2 DEF Finished
  <2>. QED
    BY <1>1, <2>1 DEF IInv, Barrier, CoordCounted
<1>6. Partition' /\ ExactlyOnce'
  BY DEF IInv, Partition, ExactlyOnce, Chunk
<1>7. Visited'
  <2>1. \A s \in Slots : VisitedSlot(s)' <=> VisitedSlot(s)
    BY <1>1, <1>2, WorkersNat DEF VisitedSlot, Slots, Workers, CoordSlot
  <2>. QED
    BY <1>1, <2>1 DEF IInv, Visited, Chunk, WaveState
<1>. QED
  BY <1>3, <1>4, <1>5, <1>6, <1>7 DEF IInv

LEMMA RunChunkStep ==
  ASSUME IInv, NEW w \in Workers, RunChunk(w)
  PROVE  IInv'
<1> USE DEF RunChunk, wave, bounds, coordinator
<1>1. cpc \in WaveState /\ w # CoordSlot /\ cpc # "renotify" /\ w \in Slots /\ seen[w] = gen
  BY WorkerInWave DEF Executing
<1>2. wpc \in [Workers -> {"unborn", "wait", "read", "body", "retire"}]
  BY DEF IInv, TypeOK
<1>3. Visited' /\ runs' \in [Bodies -> [PF!Index -> Nat]]
  <2>1. ~VisitedSlot(w) /\ VisitedSlot(w)'
    BY <1>1, <1>2 DEF VisitedSlot
  <2>2. \A s \in Slots \ {w} : VisitedSlot(s)' <=> VisitedSlot(s)
    BY <1>2, WorkersNat DEF VisitedSlot, Slots, Workers, CoordSlot
  <2>3. runs' = PF!Visit(runs, arg.body, Chunk(w))
    BY <1>1, ChunksPartition DEF IInv, WorkersInStep, Chunk
  <2>. QED
    BY <1>1, <2>1, <2>2, <2>3, VisitChunk
<1>4. TypeOK'
  BY <1>2, <1>3 DEF IInv, TypeOK
<1>5. WorkersInStep'
  BY <1>1, <1>2 DEF IInv, WorkersInStep, WaveState
<1>6. Barrier'
  <2>1. Finished' = Finished
    BY <1>2 DEF Finished
  <2>. QED
    BY <1>1, <2>1 DEF IInv, Barrier, CoordCounted
<1>7. Partition' /\ ExactlyOnce'
  BY <1>1 DEF IInv, Partition, ExactlyOnce, Chunk, WaveState
<1>. QED
  BY <1>3, <1>4, <1>5, <1>6, <1>7 DEF IInv

LEMMA RetireStep ==
  ASSUME IInv, NEW w \in Workers, Retire(w)
  PROVE  IInv'
<1> USE DEF Retire, bounds, coordinator
<1>1. /\ cpc \in WaveState /\ w # CoordSlot /\ cpc # "renotify" /\ w \in Slots
      /\ seen[w] = gen /\ w \notin Finished
  BY WorkerInWave DEF Executing
<1>2. wpc \in [Workers -> {"unborn", "wait", "read", "body", "retire"}]
  BY DEF IInv, TypeOK
<1>3. Finished' = Finished \cup {w}
  BY <1>1, <1>2 DEF Finished
<1>4. /\ Cardinality(Finished)' = Cardinality(Finished) + 1
      /\ Cardinality(Finished) \in Nat /\ Cardinality(Finished)' \in 0 .. NumWorkers
  <2>1. Cardinality(Finished) \in Nat /\ Cardinality(Finished)' = Cardinality(Finished) + 1
    BY <1>1, <1>3, FinishedGrows, FinishedFinite, WorkersNat
  <2>2. Finished' \subseteq Workers
    BY DEF Finished
  <2>3. Cardinality(Finished') <= Cardinality(Workers)
    BY <2>2, FinishedFinite, FS_Subset
  <2>. QED
    BY <2>1, <2>3, FinishedFinite, WorkersNat
<1>5. Barrier'
  BY <1>1, <1>4 DEF IInv, Barrier, CoordCounted
<1>6. TypeOK'
  <2>1. doneCount' \in 0 .. NumSlots
    BY <1>1, <1>4, WorkersNat DEF IInv, Barrier, CoordCounted, NumSlots
  <2>. QED
    BY <1>2, <2>1 DEF IInv, TypeOK
<1>7. WorkersInStep'
  BY <1>1, <1>2 DEF IInv, WorkersInStep, WaveState
<1>8. Partition' /\ ExactlyOnce'
  BY <1>1 DEF IInv, Partition, ExactlyOnce, Chunk, WaveState
<1>9. Visited'
  <2>1. \A s \in Slots : VisitedSlot(s)' <=> VisitedSlot(s)
    BY <1>1, <1>2, WorkersNat DEF VisitedSlot, Slots, Workers, CoordSlot
  <2>. QED
    BY <1>1, <2>1 DEF IInv, Visited, Chunk, WaveState
<1>. QED
  BY <1>5, <1>6, <1>7, <1>8, <1>9 DEF IInv

LEMMA SpuriousWakeupStep ==
  ASSUME IInv, NEW t \in Slots, SpuriousWakeup(t)
  PROVE  IInv'
<1> USE DEF SpuriousWakeup, wave, bounds, workers, coordinator
<1>1. TypeOK' /\ WorkersInStep' /\ Partition' /\ ExactlyOnce'
  BY DEF IInv, TypeOK, WorkersInStep, Partition, ExactlyOnce, WaveState, Chunk
<1>2. Barrier' /\ Visited'
  BY DEF IInv, Barrier, Visited, WaveState, CoordCounted, Finished, VisitedSlot, Chunk
<1>. QED
  BY <1>1, <1>2 DEF IInv

(* ---- the results ---- *)

LEMMA NextInvariant == IInv /\ [Next]_vars => IInv'
<1> SUFFICES ASSUME IInv, [Next]_vars PROVE IInv'
  OBVIOUS
<1>1. ASSUME NEW a \in PF!Call, Begin(a) PROVE IInv'
  BY <1>1, BeginStep
<1>2. CASE Coordinator
  BY <1>2, EnsureWorkersStep, RunInlineStep, AssignBoundsStep, FillSlotStep, PublishStep,
     NotifyWaveStep, RunOwnStep, CountOwnStep, BarrierWaitStep, BarrierPassStep, RenotifyStep,
     ReturnStep DEF Coordinator
<1>3. ASSUME NEW w \in Workers, Worker(w) PROVE IInv'
  BY <1>3, WorkerWaitStep, WorkerWakeStep, ReadChunkStep, RunChunkStep, RetireStep DEF Worker
<1>4. CASE ProcessExit
  BY <1>4, ReturnStep
<1>5. ASSUME NEW t \in Slots, SpuriousWakeup(t) PROVE IInv'
  BY <1>5, SpuriousWakeupStep
<1>6. CASE UNCHANGED vars
  BY <1>6 DEF vars, IInv, TypeOK, WorkersInStep, Barrier, Partition, Visited, ExactlyOnce,
     Finished, CoordCounted, VisitedSlot, Chunk
<1>. QED
  BY <1>1, <1>2, <1>3, <1>4, <1>5, <1>6 DEF Next

\* The inductive invariant holds in every reachable state of the pool.
THEOREM PoolInvariant == Spec => []IInv
  BY InitInvariant, NextInvariant, PTL DEF Spec

\* Type correctness, for every size of machine and every range.
THEOREM PoolTypes == Spec => []TypeOK
<1>1. IInv => TypeOK
  BY DEF IInv
<1>. QED
  BY <1>1, PoolInvariant, PTL

\* Whatever the number of workers and waves, the coordinator never rewrites the
\* bounds, the body or the counter while a worker is in a wave (sched.cpp:141-143).
THEOREM WaveIsolation == Spec => []NoWorkerInWave
<1>1. IInv => NoWorkerInWave
  BY DEF IInv, WorkersInStep, NoWorkerInWave, Executing
<1>. QED
  BY <1>1, PoolInvariant, PTL

\* The chunks the threads hold never overlap (the determinism claim of sched.cpp:7-11).
THEOREM DisjointChunks == Spec => []ChunksDisjoint
<1>1. IInv => ChunksDisjoint
  BY ChunksPartition DEF ChunksDisjoint, IInv, WorkersInStep
<1>. QED
  BY <1>1, PoolInvariant, PTL

\* Every call visits every index of its range once and nothing else.
THEOREM CallVisitsOnce == Spec => []ExactlyOnce
<1>1. IInv => ExactlyOnce
  BY DEF IInv
<1>. QED
  BY <1>1, PoolInvariant, PTL

(* ---- refinement: the pool implements ParallelFor ---- *)

\* A slot that has not run its chunk leaves its indices unvisited.
LEMMA ChunkUnvisited ==
  ASSUME IInv, cpc \in WaveState, NEW s \in Slots, ~VisitedSlot(s)
  PROVE  /\ Chunk(s) \in SUBSET PF!Range(arg)
         /\ \A i \in Chunk(s) : runs[arg.body][i] = 0
<1>1. Chunk(s) \subseteq PF!Range(arg) /\ Chunk(s) \subseteq PF!Index /\ arg.body \in Bodies
  BY ChunksPartition
<1>2. \A t \in Slots, i \in Chunk(s) : i \in Chunk(t) => t = s
  BY ChunksPartition
<1>. QED
  BY <1>1, <1>2 DEF IInv, Visited

LEMMA StepRefines ==
  ASSUME IInv, [Next]_vars
  PROVE  [PF!Next]_PF!vars
<1> USE DEF PF!vars, wave, bounds, workers, coordinator
<1>1. ASSUME NEW a \in PF!Call, Begin(a) PROVE PF!Next
  BY <1>1 DEF Begin, PF!Begin, PF!Next
<1>2. CASE EnsureWorkers \/ AssignBounds \/ FillSlot \/ Publish \/ NotifyWave
           \/ CountOwn \/ BarrierWait \/ BarrierPass \/ Renotify \/ ProcessExit
  BY <1>2 DEF EnsureWorkers, AssignBounds, FillSlot, Publish, NotifyWave, CountOwn,
     BarrierWait, BarrierPass, Renotify, ProcessExit
<1>3. CASE RunInline
  <2>1. arg.body \in Bodies /\ PF!Range(arg) \subseteq PF!Index
    BY CallType DEF IInv, TypeOK
  <2>2. \A i \in PF!Range(arg) : runs[arg.body][i] = 0
    BY <1>3, <2>1 DEF RunInline, IInv, Visited, PF!NoRuns
  <2>3. PF!Execute(PF!Range(arg))
    BY <1>3, <2>2 DEF RunInline, PF!Execute
  <2>. QED
    BY <2>3 DEF PF!Next
<1>4. CASE RunOwn
  <2>1. cpc \in WaveState /\ CoordSlot \in Slots /\ ~VisitedSlot(CoordSlot)
    BY <1>4, WorkersNat DEF RunOwn, WaveState, VisitedSlot, CoordSlot, Slots
  <2>2. PF!Execute(Chunk(CoordSlot))
    BY <1>4, <2>1, ChunkUnvisited DEF RunOwn, PF!Execute
  <2>. QED
    BY <2>1, <2>2, ChunkUnvisited DEF PF!Next
<1>5. CASE Return
  <2>1. \A i \in PF!Range(arg) : runs[arg.body][i] = 1
    BY <1>5, CallType DEF Return, IInv, TypeOK, ExactlyOnce
  <2>. QED
    BY <1>5, <2>1 DEF Return, PF!Return, PF!Next
<1>6. ASSUME NEW w \in Workers, Worker(w) PROVE [PF!Next]_PF!vars
  <2>1. CASE RunChunk(w)
    <3>1. cpc \in WaveState /\ w # CoordSlot /\ w \in Slots /\ seen[w] = gen
      BY <2>1, WorkerInWave DEF RunChunk, Executing
    <3>2. ~VisitedSlot(w)
      BY <2>1, <3>1 DEF RunChunk, VisitedSlot
    <3>3. runs' = PF!Visit(runs, arg.body, Chunk(w)) /\ cpc' = cpc /\ arg' = arg
      BY <2>1, <3>1, ChunksPartition DEF RunChunk, IInv, WorkersInStep, Chunk
    <3>4. PF!Execute(Chunk(w))
      BY <3>1, <3>2, <3>3, ChunkUnvisited DEF PF!Execute, WaveState
    <3>. QED
      BY <3>1, <3>2, <3>4, ChunkUnvisited DEF PF!Next
  <2>2. CASE WorkerWait(w) \/ WorkerWake(w) \/ ReadChunk(w) \/ Retire(w)
    BY <2>2 DEF WorkerWait, WorkerWake, ReadChunk, Retire
  <2>. QED
    BY <1>6, <2>1, <2>2 DEF Worker
<1>7. ASSUME NEW t \in Slots, SpuriousWakeup(t) PROVE UNCHANGED PF!vars
  BY <1>7 DEF SpuriousWakeup
<1>8. CASE UNCHANGED vars
  BY <1>8 DEF vars
<1>. QED
  BY <1>1, <1>2, <1>3, <1>4, <1>5, <1>6, <1>7, <1>8 DEF Next, Coordinator

\* The pool implements parallel_for as its callers see it: each of its steps is
\* a step of ParallelFor or leaves the caller's view alone.
THEOREM PoolImplementsParallelFor == Spec => ImplementsParallelFor
<1>1. Init => PF!Init
  BY DEF Init, PF!Init
<1>2. IInv /\ [Next]_vars => [PF!Next]_PF!vars
  BY StepRefines
<1>. QED
  BY <1>1, <1>2, PoolInvariant, PTL DEF Spec, PF!Spec, ImplementsParallelFor
=============================================================================
