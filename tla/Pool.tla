-------------------------------- MODULE Pool --------------------------------
(***************************************************************************)
(* The fixed thread pool of runtime/ndl_rt_sched.cpp and its wave protocol:*)
(* one contiguous chunk per slot, a wave published by ++gen under the only *)
(* mutex, a retire barrier done_count == nslots on the only condition      *)
(* variable.                                                               *)
(*                                                                         *)
(* Each critical section under Pool::mu is one step, each unlocked access  *)
(* to state another thread may touch is a step of its own: the coordinator *)
(* writes lo/hi without the mutex, a worker reads its chunk and calls the  *)
(* body without it.  `asleep' holds the threads blocked in cv.wait; only   *)
(* notify_all (or a spurious wakeup) takes one out of it, so a notification*)
(* that is missing leaves a thread there.                                  *)
(*                                                                         *)
(* There is one coordinator: the runtime calls ndl_rt_parallel_for from the*)
(* one thread that executes the tick.                                      *)
(*                                                                         *)
(* Pool::stop is read by the workers and written by nobody, and nobody     *)
(* joins the workers: Pool has no destructor of its own.                   *)
(***************************************************************************)
EXTENDS Integers, FiniteSets

CONSTANTS Hw,           \* std::thread::hardware_concurrency()
          PoolEnabled,  \* FALSE under NDL_POOL=0
          Span, Bodies, Grains,
          MaxGen        \* bound: no call begins once this many waves were published

ASSUME PoolAssumption ==
  /\ Hw \in Nat
  /\ PoolEnabled \in BOOLEAN
  /\ Span \in Nat
  /\ Grains \subseteq Nat
  /\ MaxGen \in Nat

VARIABLES
  gen, doneCount, body,   \* written under mu
  stop,                   \* the shutdown flag
  lo, hi,                 \* chunk bounds per slot, written by the coordinator without mu
  asleep,                 \* threads blocked in cv.wait
  wpc, seen, chunk,       \* workers: control point, local `seen`, local (b, e)
  cpc, arg, k, off,       \* coordinator: control point, arguments, partition loop
  runs                    \* history: visits of each index by each body in this call

vars == <<gen, doneCount, body, stop, lo, hi, asleep, wpc, seen, chunk, cpc, arg, k, off, runs>>

\* A call is in progress between Begin and Return
PF == INSTANCE ParallelFor WITH busy <- cpc \notin {"idle", "exited", "terminated"}

-----------------------------------------------------------------------------
(* The shape of the pool and of a wave *)

\* N-1 workers, coordinator is thread N, at most 32 workers
NumWorkers == IF Hw > 33 THEN 32 ELSE IF Hw > 1 THEN Hw - 1 ELSE 0
Workers == 0 .. NumWorkers - 1
CoordSlot == NumWorkers
NumSlots == NumWorkers + 1
Slots == 0 .. NumWorkers

Length(a) == a.end - a.begin
Grain(a) == IF a.grain < 1 THEN 1 ELSE a.grain
Ceil(n, d) == (n + d - 1) \div d
\* Mutant: no cap at nslots
NumChunks_Uncapped(a) == Ceil(Length(a), Grain(a))

NumChunks(a) ==
  LET nch == Ceil(Length(a), Grain(a))
  IN  IF nch > NumSlots THEN NumSlots ELSE IF nch < 1 THEN 1 ELSE nch

Base(a) == Length(a) \div NumChunks(a)
Rem(a) == Length(a) % NumChunks(a)
\* Mutant: k <= rem
ChunkLen_OffByOne(a, j) == Base(a) + (IF j <= Rem(a) THEN 1 ELSE 0)

ChunkLen(a, j) == Base(a) + (IF j < Rem(a) THEN 1 ELSE 0)

Chunk(s) == lo[s] .. hi[s] - 1

\* Calls that run on the caller alone: NDL_POOL=0, no workers, one chunk
RunsInline(a) == ~PoolEnabled \/ NumWorkers = 0 \/ NumChunks(a) = 1

-----------------------------------------------------------------------------
Init ==
  /\ gen = 0 /\ doneCount = 0
  /\ body \in Bodies /\ stop = FALSE
  /\ lo = [s \in Slots |-> 0] /\ hi = [s \in Slots |-> 0]
  /\ asleep = {}
  /\ wpc = [w \in Workers |-> "unborn"]
  /\ seen = [w \in Workers |-> 0]
  /\ chunk = [w \in Workers |-> <<0, 0>>]
  /\ cpc = "idle"
  /\ arg \in PF!Call
  /\ k = 0 /\ off = 0
  /\ runs = PF!NoRuns

(* ---- the coordinator: ndl_rt_parallel_for ---- *)

wave == <<gen, doneCount, body>>
bounds == <<lo, hi>>
workers == <<wpc, seen, chunk>>

Begin(a) ==
  /\ cpc = "idle"
  /\ gen < MaxGen
  /\ cpc' = "ensure"
  /\ arg' = a
  /\ runs' = PF!NoRuns
  /\ UNCHANGED <<wave, stop, bounds, asleep, workers, k, off>>

\* ensure_workers: the first call spawns every worker under the mutex
EnsureWorkers ==
  /\ cpc = "ensure"
  /\ wpc' = [w \in Workers |-> IF wpc[w] = "unborn" THEN "wait" ELSE wpc[w]]
  /\ cpc' = IF RunsInline(arg) THEN "inline" ELSE "assign"
  /\ UNCHANGED <<wave, stop, bounds, asleep, seen, chunk, arg, k, off, runs>>

RunInline ==
  /\ cpc = "inline"
  /\ runs' = PF!Visit(runs, arg.body, PF!Range(arg))
  /\ cpc' = "return"
  /\ UNCHANGED <<wave, stop, bounds, asleep, workers, arg, k, off>>

\* lo.assign, hi.assign
\* Mutant: bounds of slots >= nch are left over from the previous wave
AssignBounds_Stale ==
  /\ cpc = "assign"
  /\ k' = 0 /\ off' = arg.begin /\ cpc' = "fill"
  /\ UNCHANGED <<wave, stop, bounds, asleep, workers, arg, runs>>

AssignBounds ==
  /\ cpc = "assign"
  /\ lo' = [s \in Slots |-> 0]
  /\ hi' = [s \in Slots |-> 0]
  /\ k' = 0
  /\ off' = arg.begin
  /\ cpc' = "fill"
  /\ UNCHANGED <<wave, stop, asleep, workers, arg, runs>>

\* One iteration of the partition loop
FillSlot ==
  /\ cpc = "fill"
  /\ k < NumChunks(arg)
  /\ lo' = [lo EXCEPT ![k] = off]
  /\ hi' = [hi EXCEPT ![k] = off + ChunkLen(arg, k)]
  /\ off' = off + ChunkLen(arg, k)
  /\ k' = k + 1
  /\ UNCHANGED <<wave, stop, asleep, workers, cpc, arg, runs>>

\* Mutant: done_count keeps the count of the previous wave
Publish_NoReset ==
  /\ cpc = "fill"
  /\ k = NumChunks(arg)
  /\ body' = arg.body /\ gen' = gen + 1 /\ cpc' = "notify"
  /\ UNCHANGED <<doneCount, stop, bounds, asleep, workers, arg, k, off, runs>>

Publish ==
  /\ cpc = "fill"
  /\ k = NumChunks(arg)
  /\ body' = arg.body
  /\ doneCount' = 0
  /\ gen' = gen + 1
  /\ cpc' = "notify"
  /\ UNCHANGED <<stop, bounds, asleep, workers, arg, k, off, runs>>

NotifyWave ==
  /\ cpc = "notify"
  /\ asleep' = {}
  /\ cpc' = "own"
  /\ UNCHANGED <<wave, stop, bounds, workers, arg, k, off, runs>>

\* The coordinator's own chunk is the last slot
RunOwn ==
  /\ cpc = "own"
  /\ runs' = PF!Visit(runs, arg.body, Chunk(CoordSlot))
  /\ cpc' = "count"
  /\ UNCHANGED <<wave, stop, bounds, asleep, workers, arg, k, off>>

CountOwn ==
  /\ cpc = "count"
  /\ doneCount' = doneCount + 1
  /\ cpc' = "barrier"
  /\ UNCHANGED <<gen, body, stop, bounds, asleep, workers, arg, k, off, runs>>

\* cv.wait(lk, done_count == nslots)
BarrierWait ==
  /\ cpc = "barrier" /\ CoordSlot \notin asleep
  /\ doneCount # NumSlots
  /\ asleep' = asleep \cup {CoordSlot}
  /\ UNCHANGED <<wave, stop, bounds, workers, cpc, arg, k, off, runs>>

\* Mutant: the barrier counts the workers and forgets the coordinator
BarrierPass_OneShort ==
  /\ cpc = "barrier" /\ CoordSlot \notin asleep
  /\ doneCount >= NumWorkers
  /\ cpc' = "renotify"
  /\ UNCHANGED <<wave, stop, bounds, asleep, workers, arg, k, off, runs>>

BarrierPass ==
  /\ cpc = "barrier" /\ CoordSlot \notin asleep
  /\ doneCount = NumSlots
  /\ cpc' = "renotify"
  /\ UNCHANGED <<wave, stop, bounds, asleep, workers, arg, k, off, runs>>

\* The closing notify_all
Renotify ==
  /\ cpc = "renotify"
  /\ asleep' = {}
  /\ cpc' = "return"
  /\ UNCHANGED <<wave, stop, bounds, workers, arg, k, off, runs>>

Return ==
  /\ cpc = "return"
  /\ cpc' = "idle"
  /\ UNCHANGED <<wave, stop, bounds, asleep, workers, arg, k, off, runs>>

\* exit(): static destructors run while no call is in progress.  g_pool takes
\* its vector of threads with it, and a std::thread that is still joinable ends
\* the process by std::terminate.
ProcessExit ==
  /\ cpc = "idle"
  /\ cpc' = IF \E w \in Workers : wpc[w] # "unborn" THEN "terminated" ELSE "exited"
  /\ UNCHANGED <<wave, stop, bounds, asleep, workers, arg, k, off, runs>>

Coordinator ==
  \/ EnsureWorkers \/ RunInline \/ AssignBounds \/ FillSlot \/ Publish \/ NotifyWave
  \/ RunOwn \/ CountOwn \/ BarrierWait \/ BarrierPass \/ Renotify \/ Return

(* ---- the workers: worker_main ---- *)

coordinator == <<cpc, arg, k, off>>

WorkerWait(w) ==
  /\ wpc[w] = "wait" /\ w \notin asleep
  /\ ~(stop \/ gen > seen[w])
  /\ asleep' = asleep \cup {w}
  /\ UNCHANGED <<wave, stop, bounds, workers, coordinator, runs>>

WorkerWake(w) ==
  /\ wpc[w] = "wait" /\ w \notin asleep
  /\ stop \/ gen > seen[w]
  /\ seen' = IF stop THEN seen ELSE [seen EXCEPT ![w] = gen]
  /\ wpc' = [wpc EXCEPT ![w] = IF stop THEN "returned" ELSE "read"]
  /\ UNCHANGED <<wave, stop, bounds, asleep, chunk, coordinator, runs>>

\* const int64_t b = p.lo[slot], e = p.hi[slot]
ReadChunk(w) ==
  /\ wpc[w] = "read"
  /\ chunk' = [chunk EXCEPT ![w] = <<lo[w], hi[w]>>]
  /\ wpc' = [wpc EXCEPT ![w] = "body"]
  /\ UNCHANGED <<wave, stop, bounds, asleep, seen, coordinator, runs>>

RunChunk(w) ==
  /\ wpc[w] = "body"
  /\ runs' = PF!Visit(runs, body, chunk[w][1] .. chunk[w][2] - 1)
  /\ wpc' = [wpc EXCEPT ![w] = "retire"]
  /\ UNCHANGED <<wave, stop, bounds, asleep, seen, chunk, coordinator>>

\* Mutant: the last slot does not wake the coordinator
Retire_Silent(w) ==
  /\ wpc[w] = "retire"
  /\ doneCount' = doneCount + 1
  /\ wpc' = [wpc EXCEPT ![w] = "wait"]
  /\ UNCHANGED <<gen, body, stop, bounds, asleep, seen, chunk, coordinator, runs>>

Retire(w) ==
  /\ wpc[w] = "retire"
  /\ doneCount' = doneCount + 1
  /\ asleep' = IF doneCount' = NumSlots THEN {} ELSE asleep
  /\ wpc' = [wpc EXCEPT ![w] = "wait"]
  /\ UNCHANGED <<gen, body, stop, bounds, seen, chunk, coordinator, runs>>

Worker(w) == WorkerWait(w) \/ WorkerWake(w) \/ ReadChunk(w) \/ RunChunk(w) \/ Retire(w)

\* A condition variable may wake a waiter that nobody notified
SpuriousWakeup(t) ==
  /\ t \in asleep
  /\ asleep' = asleep \ {t}
  /\ UNCHANGED <<wave, stop, bounds, workers, coordinator, runs>>

Next ==
  \/ \E a \in PF!Call : Begin(a)
  \/ Coordinator
  \/ \E w \in Workers : Worker(w)
  \/ ProcessExit
  \/ \E t \in Slots : SpuriousWakeup(t)

\* Every runnable thread is scheduled and bodies terminate.  A spurious wakeup
\* is never owed to anybody, and the process need neither make another call nor exit.
Fairness == WF_vars(Coordinator) /\ \A w \in Workers : WF_vars(Worker(w))

Spec == Init /\ [][Next]_vars
FairSpec == Spec /\ Fairness

-----------------------------------------------------------------------------
(* Properties *)

WaveState == {"notify", "own", "count", "barrier", "renotify"}
Executing == {"read", "body", "retire"}

TypeOK ==
  /\ gen \in Nat /\ doneCount \in 0 .. NumSlots
  /\ body \in Bodies /\ stop = FALSE
  /\ lo \in [Slots -> 0 .. Span] /\ hi \in [Slots -> 0 .. Span]
  /\ asleep \subseteq Slots
  /\ wpc \in [Workers -> {"unborn", "wait", "read", "body", "retire"}]
  /\ seen \in [Workers -> Nat]
  /\ chunk \in [Workers -> (0 .. Span) \X (0 .. Span)]
  /\ cpc \in {"idle", "ensure", "inline", "assign", "fill", "return", "exited", "terminated"} \cup WaveState
  /\ arg \in PF!Call
  /\ k \in 0 .. NumSlots /\ off \in 0 .. Span
  /\ runs \in [Bodies -> [PF!Index -> Nat]]

\* sched.cpp:22-24 and 141-143: bounds and body are rewritten, and the counter
\* reset, only after every worker has left the previous wave.  Whatever the
\* coordinator does outside a published wave, no worker is between reading its
\* chunk and retiring, and none can still wake up for the old wave.
NoWorkerInWave ==
  cpc \notin WaveState =>
    \A w \in Workers : wpc[w] \notin Executing /\ (wpc[w] = "wait" => seen[w] = gen)

\* When the call returns, each index of [begin, end) was visited once by the
\* caller's body, no other index was visited, and no other body ran: neither a
\* chunk of an earlier wave nor one skipped or executed twice by the partition.
ExactlyOnce ==
  cpc = "return" =>
    \A b \in Bodies, i \in PF!Index :
      runs[b][i] = IF b = arg.body /\ i \in PF!Range(arg) THEN 1 ELSE 0

\* Two threads never hold overlapping chunks (the ground for the determinism
\* claim of sched.cpp:7-11), the coordinator's own slot included.
ChunksDisjoint ==
  cpc \in WaveState =>
    /\ \A s, t \in Slots : s # t => Chunk(s) \cap Chunk(t) = {}
    /\ \A w \in Workers : wpc[w] = "body" => chunk[w] = <<lo[w], hi[w]>>

\* The pool implements parallel_for as its callers see it.
ImplementsParallelFor == PF!Spec

\* The retire barrier never hangs: every call returns (the rewrite recorded in
\* sched.cpp:13-16 was made because of a rare barrier deadlock).
CallReturns == cpc = "ensure" ~> cpc = "idle"

\* "The pool is spawned lazily on the first parallel_for call and joined at
\* process exit" (sched.cpp:4-5).
JoinedAtExit == cpc \in {"exited", "terminated"} => \A w \in Workers : wpc[w] \in {"unborn", "returned"}

-----------------------------------------------------------------------------
(***************************************************************************)
(* The inductive invariant behind the safety properties.  ExactlyOnce      *)
(* alone is not inductive: it needs to know which slots have visited their *)
(* chunks (Visited), that the chunks partition the range (Partition), and  *)
(* that doneCount = nslots means that no worker is left in the wave        *)
(* (Barrier).                                                              *)
(***************************************************************************)

Finished == {w \in Workers : wpc[w] = "wait" /\ seen[w] = gen}

CoordCounted == IF cpc \in {"barrier", "renotify"} THEN 1 ELSE 0

\* Outside a wave every worker is at rest and has seen the last one; inside,
\* a worker has either not seen the wave yet or executes it or is finished.
WorkersInStep ==
  /\ cpc \notin WaveState =>
       \A w \in Workers : wpc[w] \in {"unborn", "wait"} /\ seen[w] = gen
  /\ cpc \in WaveState =>
       \A w \in Workers :
         /\ seen[w] = gen \/ (wpc[w] = "wait" /\ seen[w] = gen - 1)
         /\ wpc[w] = "body" => chunk[w] = <<lo[w], hi[w]>>
  /\ cpc \notin {"idle", "ensure", "exited", "terminated"} => \A w \in Workers : wpc[w] # "unborn"

Barrier ==
  /\ cpc \in WaveState => doneCount = Cardinality(Finished) + CoordCounted
  /\ cpc = "renotify" => Finished = Workers

\* Where the partition loop stands after j iterations
PartOff(a, j) == a.begin + j * Base(a) + (IF j < Rem(a) THEN j ELSE Rem(a))

\* Slots below k hold consecutive chunks that cover [begin, off), the others none
Partition ==
  cpc \in {"fill"} \cup WaveState =>
    /\ k <= NumChunks(arg) /\ off = PartOff(arg, k)
    /\ \A s \in Slots : s < k => arg.begin <= lo[s] /\ lo[s] <= hi[s] /\ hi[s] <= off
    /\ \A s \in Slots : s >= k => lo[s] = 0 /\ hi[s] = 0
    /\ \A s, t \in Slots : s < t /\ t < k => hi[s] <= lo[t]
    /\ \A i \in arg.begin .. off - 1 : \E s \in Slots : i \in Chunk(s)
    /\ cpc \in WaveState => k = NumChunks(arg) /\ body = arg.body

VisitedSlot(s) == IF s = CoordSlot THEN cpc \in {"count", "barrier", "renotify"}
                                   ELSE seen[s] = gen /\ wpc[s] \in {"retire", "wait"}

\* An index has been visited once if its slot is through its chunk, else never
Visited ==
  /\ cpc \in {"ensure", "inline", "assign", "fill"} => runs = PF!NoRuns
  /\ cpc \in WaveState =>
       \A b \in Bodies, i \in PF!Index :
         runs[b][i] = IF b = arg.body /\ \E s \in Slots : VisitedSlot(s) /\ i \in Chunk(s)
                      THEN 1 ELSE 0

IInv == TypeOK /\ WorkersInStep /\ Barrier /\ Partition /\ Visited /\ ExactlyOnce

=============================================================================
