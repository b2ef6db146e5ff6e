# NDLCORE: TLA+ models of the runtime and the language

NDLCORE is a language for spiking neural networks: a toolchain (`.ndl` →
import resolver → lexer → parser → AST → semantic analysis → VM interpreter,
LLVM IR or PTX) and the runtime library `libndl_rt` that the VM and the
compiled programs call. The hard behaviour is in two places. The runtime has a
hand-written thread pool, an event loop on a thread of its own with structural
changes routed to it from other threads, lock-free rings that feed it, device
backends that may fail in the middle of a run, and checkpoints. The language has
three readings of one program, by analysis, interpreter and code generator,
which must agree, while handlers run on two threads.

`PROJECT.json` maps every definition to the lines it translates and lists the
runs, the mutants each property was tested against, the hazards and the
theorems. Source paths below are relative to the repository.

## 1. Inventory

| Component | State | Operations | Interaction and difficulty | What makes it correct |
|---|---|---|---|---|
| **Scheduler** `src/runtime/ndl_rt_sched.cpp` | `Pool`: `gen`, `done_count`, body, `lo`/`hi`, one mutex, one condition variable | `parallel_for`, `worker_main`, `ensure_workers` | Called by every phase of a CPU tick. One condition variable with two predicates; `lo`/`hi` are accessed without the mutex; spurious wakeups | each index visited exactly once per call; no worker left in a wave; the barrier opens |
| **Continuous mode** `ndl_rt_v2.cpp`, `SimState` in `ndl_rt_internal.h`, `tick_cpu`/`drain_commands` in `ndl_rt_network.cpp` | `cont_running`, `cont_thread`, `cmds`/`cmd_mx`, `struct_mx` | `run_continuous`, `stop_continuous`, `wait_continuous`, `queue_or_apply`, the loop | main, loop thread, handlers on the loop thread; commands pushed while the batch is swapped; stop from inside a tick | structure changes only between ticks; no command lost or doubled; stop joins; one writer; calls return |
| **Streams** `ndl_rt_v2.cpp` 238-277, `apply_streams` | ring, `wpos`/`rpos`, `latest`/`mx`, target | `stream_push`, `stream_set`, `bind_input_stream`, drain | lock-free single producer against the tick | nothing torn, reordered, doubled, or lost after acceptance |
| **Signals, oscillators, modulator** `ndl_rt_v2.cpp` | atomic value per signal; phase and bindings | register, set, read; bind | written by any thread, read once per tick | a tick uses one value throughout |
| **Network and CPU tick** `ndl_rt_network.cpp` | groups (V, spikes, refractory, hold), connections (CSR), injections, `sim_time`, spike log | creation, connect, schedule, `run`, tick, state swap, queries | fixed order of phases; injection windows on an accumulated clock; handlers run inside the tick; queries lock less than the tick | each injection acts in exactly one window; handlers see one epoch; the log is complete |
| **Structural plasticity** same file 428-646, 692-772 | `rowptr`, `colidx`, weights per connection | connect, prune, normalize, grow | in-place compaction of `rowptr`, merge of sorted rows | result equals the set semantics; rows ascend; no synapse twice |
| **Device backends** `ndl_rt_backend.cpp`, `ndl_rt_ocl.cpp`, `ndl_rt_gpu.cpp`, kernels | attached buffers, dirty mirrors, chosen backend | attach, tick, sync down, structural routing, fall back to the CPU | a tick may fail half way, in a discrete run or under the loop; host mirrors against device buffers | every tick takes effect exactly once, on the device or on the CPU |
| **Checkpoints, raster** `ndl_rt_io.cpp` | the file; groups and connections while loading | save, load, export | truncates in place; mutates while reading; panics in between | load(save(s)) = s; a failure leaves a usable state |
| **Runtime core** `ndl_rt.cpp` | RNG, tensors, clock | helpers, panic (exit 70) | straight-line | - |
| **VM** `src/src/vm.cpp` | `scopes_`, handler table, streams, signals | statement and expression evaluation, handler invocation, teardown | handlers run on the loop thread over the same `scopes_` as main | no guard fires on an accepted program; balanced scopes |
| **Lexer, parser, AST** | position, token list | tokenise; recursive descent with panic-mode recovery | recovery must make progress | terminates; one diagnosis per error |
| **Semantic analysis** `src/src/sema.cpp` | scopes, types, constants | declaration and statement checks, constant evaluation | placement rules through bodies, blocks and handlers; scopes that differ from the interpreter's | accepted programs keep one time base, never wait on their own loop, evaluate without a type error |
| **Code generators** LLVM, PTX | slots, output text | emission | parity with the VM; element sizes shared with the host | accepted programs assemble; a global has one kind on both paths |
| **Package manager** `manifest.cpp`, `toml.cpp` | manifest, resolved imports | `loadManifest`, `resolve`, `findImport` | cycles, diamonds | each file once, dependencies first |
| **Driver, linker** `main.cpp`, `linker.cpp` | - | command line, tool fallback chain | subprocesses | - |
| **Diagnostics, benchmark** | - | - | - | - |

The hazards of this code (what a test would hardly reach, each at its line) are
listed under `hazards` in `PROJECT.json`; those without properties say why.

## 2. What is modelled

### Pool and ParallelFor (`ndl_rt_sched.cpp`)

`Pool` has one action per critical section under `Pool::mu` and one per
unlocked access to shared data. The coordinator goes through `Begin`,
`EnsureWorkers`, then `RunInline` or `AssignBounds`, `FillSlot` (an iteration of
the partition loop), `Publish` (`++gen`), `NotifyWave`, `RunOwn`, `CountOwn`,
`BarrierWait`/`BarrierPass`, `Renotify`, `Return`. A worker goes through
`WorkerWait`/`WorkerWake`, `ReadChunk`, `RunChunk`, `Retire`. `asleep` is the set
of threads blocked in `cv.wait`: only a notification or `SpuriousWakeup` takes a
thread out, so a lost notification shows as a thread that stays there. The body
is abstracted to "visit each index of the chunk"; `runs` counts the visits.
`ProcessExit` is the end of the static `g_pool`: the code neither sets `stop` nor joins, so
the process ends in `"terminated"` if workers were ever born (finding `pool_exit`).
`std::condition_variable` and `hardware_concurrency` are external. There is one
coordinator because ticks never run concurrently with each other in a program
whose loops main stops (see `SingleWriter`).

`ParallelFor` is what callers rely on: the body visits parts of the range, never
an index twice, and the call returns when all are visited. `Pool` implements it
(`ImplementsParallelFor`); `RunChunk`, `RunOwn` and `RunInline` are `Execute`
steps, everything else stutters.

### Continuous (`ndl_rt_v2.cpp`, `ndl_rt_network.cpp`)

One main thread and one loop thread per `run_continuous`. Variables named after
the code: `running` is `cont_running`, `handle` the thread `cont_thread` refers
to, `cmds` the queue, `readers` the SHARED holders of `struct_mx` (UNIQUE is
held within one step). `tpc` is where a thread is in the loop or in a tick, `pc`
where it is in an API call; a handler is a tick in `"handlers"` that makes
calls. Each atomic load or store, each test of the handle and each critical
section is one step, so `StopCall`, `StopStore`, `StopHandle`, `Detach` and
`JoinBegin` are separate. Abstractions:

- the four structural commands take the same route and are one "command";
- `std::thread` is a reference to a loop, tested and replaced in single steps;
  `join`/`detach` on a handle that is not joinable throws, and nothing catches
  it: outcome `"terminate"`. (In C++ the unsynchronised accesses are a data
  race; the interleavings are the outcomes a real build shows.)
- a thread that asks for UNIQUE while it holds SHARED waits for itself, as glibc's
  rwlock does, and pending writers do not keep readers out (its default);
- `run()` makes some number of ticks; the pacing sleep and the device path of
  the loop are left out;
- `prog` is which calls main and the handlers make. Sema allows an NDL program
  a single top-level `run_continuous` (E0215), so restarts come from hosts that
  use the C API.

### Stream and StreamRegister (`ndl_rt_v2.cpp` 238-277, `apply_streams`)

One step per atomic access, and `memcpy` copies one element per step in any
order, so a slot read while it is written shows as a vector nobody pushed.
The release/acquire pairs on `wpos` and `rpos` order the copies, hence the
sequentially consistent model. There is one producer (the ring is
single-producer by its comment). `mx` covers the drain and the mailbox write.
Poisson encoding only reads and is left out; `Bind` is one step.

`StreamRegister` is the promise: a bounded queue in front of a register. The
mapping reads the queue off the ring between `rpos` and `wpos`; while the drain
is in progress the register still shows what it held when the mutex was taken.
An accepted push takes effect at `PushStore`, a dropped one at `PushLoad`, a
drain at `DrainStore`.

### Device (`ndl_rt_ocl.cpp`, `ndl_rt_backend.cpp`, `ndl_rt_run`, `cont_loop`)

Where Continuous looks at who ticks, Device looks at whose copy of the state a
tick changes. `host` is the mirrors, `dev` the OpenCL buffers, `attached` is
`g_st.attached`. Values are abstracted to their history: `v[g]` counts LIF steps,
`w` carries STDP steps, commands and the layout it is stored in, `shape` is the
layout of the index arrays. A stale or doubled update shows as a count that
differs from `time`. `pc` follows the tick phase by phase: `Swap` and the applications
of the batch (`ApplyOnHost`, `ApplyOnDevice`), `LifStep` per group, `StdpStep`,
`LogSpikes` and `HandlersDone` per group, `EndTick`; the CPU tick takes the same
actions on `host`. Around it are `Execute`/`Refused` (dispatcher and attach),
`DeviceLost`, `HandBack`, `StopJoined`. `HandlerStop` and `HandlerCommand` are
calls from inside a tick. A handler's command is queued while the loop runs; otherwise it
changes the mirrors at once if the tick is the device's, and in a tick of the CPU waits for
the lock its own thread holds: `pc` is then `"blocked"` for ever. `goal` is a ghost, the
time at which the discrete run in progress has made all its ticks.

Each device operation may fail (`fails`): a launch or spike download ends the tick
(`DeviceLost`), a download during a sync or a transfer during a prune goes
unnoticed, as in the code, which ignores their results. A handler that stops the
loop frees the buffers under its own tick: the code's behaviour is then
undefined, and so is `pc`. Left out: the CUDA path (it is in Simulation),
growth on the device (one connection with one layout stands for the three
arrays), synaptic currents (no path brings them back to the host), and
topology changes during an episode.

### Network and Synapses (`ndl_rt_network.cpp`, `ndl_rt_io.cpp`)

The stored network between ticks. `conns` keeps the three layouts as the code
does, down to `rowptr`, `cols` and `vals`: `Compacted` reads old row ends from the
array it overwrites, `MergeRow` walks row and list with two cursors, `Sanitized`
sorts and deduplicates the index lists, `Link` drops the pair's connection before
it appends. `stdps` and the groups' windows are part of a checkpoint.

A checkpoint is a sequence of chunks, one per group of `fwrite` calls. `SaveBegin`
truncates the file and writes the header, `SaveWrite` appends the chunk of the item
`saving` names, and `GroupItem`, `ConnItem` and `StdpItem` say which comes next: the
loops of `ndl_rt_save_state`, and with the counts of the file's header those of
`ndl_rt_load_state`. A connection is one item of a load and up to four of a save.
`Crash` may come between any two writes, and a full disk is the same as a crash: the
writer panics. A save holds `struct_mx` SHARED, so a running loop may still `Learn` between
two chunks, but no structural command may run. A load reads the file chunk by
chunk, patches groups by name or creates them, and links connections; `Mismatch`
and `Truncated` end the process (`Gone`), and `Restart` is another process on the
same file. `image` is a ghost: what the save that wrote the file began with.

`Synapses` is what each operation promises on a plain map from synapses to
weights. The refinement (`ImplementsSynapses`) reads the map off the arrays the way
`get_weight` searches them, so a wrong row end, a double entry or a misplaced
weight is a step the abstract operation does not allow.

Abstractions: weights are small integers, and `normalize` rounds towards zero (the
code divides doubles; `Synapses!Normalize` bounds drive and signs and leaves
the quotient open); a membrane is one value; `sparse_connect`'s draws
are a free choice of synapses. Known and as in the code: the modulator of a rule is
not stored in a checkpoint, and a program that loads before its `node_group`
then has two groups of one name, of which later loads find the first
(`NamesDiffer` excludes this from `LoadRestores`); a group that a load creates has no vector
of held currents (`ndl_rt_io.cpp` 300-309), which the next run indexes.

### Simulation (`ndl_rt_run`, `tick_cpu`, `ndl_rt_gpu.cpp`, `irgen_ptx.cpp`)

A discrete run from the inside. A CPU tick is `Currents`, `Injections`, `Inputs`
(oscillators, streams), `Fire` (LIF and k-winners-take-all), `Learn`, `Trace`,
one `LogSpike` or `CallHandler` at a time, and `Finish`, each a phase of the code between
two barriers. Handlers observe, schedule injections, set the modulator's signal or
prune. `Sooner` and `Sorted` are the stable sort, `Shifted` the move onto the global clock;
`cursor` and `n` are the locals of the scan. A report is three nested loops whose cursors are
`run.g` (the group), `run.h` (the handler, 0 for the log) and `run.left` (the spikes it is
still to get): `NextGroup` and `NextHandler` go on to the next list, and CUDA fetches each
group's spikes between them (`Fetch`, `Mirror`). A loop within a phase (over connections,
over injections) is a recursive function of the rounds done.

The CUDA path keeps `device` beside the host arrays and differs where the code
does: it refuses one-to-one and plastic sparse networks, counts time from the
start of the run, sums currents that meet on a neuron, does not advance
`sim_time_ms`, neither clamps learnt weights nor runs the k-winners arm, and reads
columns as its kernel does: the indices are uploaded as 32-bit words
(`ndl_rt_gpu.cpp` 315) and loaded as 64-bit words (`irgen_ptx.cpp` 262-269), hence `ColumnRead`.
`DriverFails` at any call of the driver leads to `Fallback`, where the CPU runs every tick
again. A download that fails leaves on the host what came before it: potentials and traces
group by group (`Downloaded`), then the weights connection by connection (`Synced`).

Abstractions: integers with decays that halve, no membrane noise (off by default),
OpenCL not available (it is in Device).

### Sema, Codegen and Vm (`sema.cpp`, `irgen_llvm.cpp`, `vm.cpp`)

A program is a sequence of top-level items, statements and expressions are
records tagged by `k`. `Sema` is the two passes: `Pass1` over global names, then
the walk with a placement context and a stack of scopes, with a set of error codes
as its outcome. `Codegen` runs over an accepted program and asks whether each name
has a slot and each instruction operands of its LLVM types. Both are pure
operators over the whole input.

`Vm` executes the program. Values are kinds, so any condition may go
either way. `ctrl` is what each thread still has to do; `scopes` is the one stack
that main and the loop thread share; `InvokeHandler` pushes the handler's body on
the thread that simulates; `TypePanic` is a guard of the interpreter that fires, or the
runtime's refusal to simulate while the loop runs. `running` is `cont_running` and `loop` says
whether there is a loop thread and whether it can be joined. As in the runtime, a stop with the
flag clear returns at once, so main goes on while the handler that stopped the loop, and detached
it, is still at work; only a stop that clears the flag itself joins (`Join`). The steps of a
stop are single here; Continuous takes them apart. The process ends with main: nothing
of a detached thread is followed beyond that.

The properties of the `vm` run hold for *disciplined* programs where they say so, and the
discipline names what analysis does not enforce:

- a name is bound once (a local `let` may hide a group from the interpreter, which
  keeps groups in the same scopes, while analysis still finds the group; a signal and a
  `node_group` of one name are accepted);
- groups, signals and streams are mentioned after their declaration was
  executed, since analysis collects them first, and `let x = GPU` is accepted
  but has no value;
- no `let` directly in the body of `run_continuous`: the interpreter drops the body's scope
  (`vm.cpp` 983), analysis keeps its names (`sema.cpp` 1199);
- after `run_continuous` main only waits for the loop or stops it, until a stop has joined
  it; for good if a handler contains a stop, since the stop of main may then return with
  the handler alive. Otherwise main's declarations land in the scope of a running handler
  (`vm.cpp` 1010) and go with it (finding `vm_guards`).

Two differences between the paths are visible in the models and allowed by
the properties: an `Int` stored in a global of type `Float` stays an integer in
the interpreter and becomes a double in native code (`KindsMatchSlots`), and an
assignment to a loop variable changes the native counter but not the interpreter's.

## 3. Runs

| Run | Question | Result |
|---|---|---|
| `pool` | two workers and the coordinator, all ranges in 0..4, two grains, two bodies, two waves, spurious wakeups | invariants, refinement and `CallReturns` hold |
| `continuous` | main runs, starts, stops, waits, restarts, issues commands; handlers do nothing, issue commands or stop | all hold |
| `stream` | ring of two filled, wrapped and overrun by six pushes, two mailbox writes | implements the register; accepted samples are drained |
| `device` | both run modes on device and CPU, one failure anywhere, commands, handlers that stop or command | all hold; a handler's command may block its own tick, and a run whose device is lost need not be complete |
| `network` | every operation on two groups in the three layouts, save and load in two processes, a crash anywhere | storage well formed, operations keep their promises, loads restore or end the process |
| `simulation` | two runs of four networks on CPU and CUDA, injections from main and handlers, one driver failure | ticks are synchronous, injections follow the schedule, logs and handlers agree, runs return |
| `vm` | every program of at most two items of a menu of 35 after one of six preludes | accepted programs neither panic nor mix time bases nor fail to assemble |
| `vm_guards` | are the guards of the interpreter defensive only (vm.cpp:11-12)? | no: main's declarations land in the scope of a handler that is alive |
| `cuda_rerun` | is the state untouched when the CPU takes over (internal.h:267, 280)? | no: spikes logged, handlers called, `prev_spikes` moved |
| `run_handler_prune` | does a run return whose handler prunes (v2.cpp:14-16)? | no: it waits for its own tick's lock |
| `device_run_lost` | does a discrete run whose device is lost continue on the CPU (network.cpp:1104, internal.h:276-278)? | no: it returns with the ticks done so far |
| `pool_exit` | is the pool joined at process exit (sched.cpp:4-5)? | no: joinable threads are destroyed, `std::terminate` |

`SavedIsSound` says that a file that was written to its end passes every check of a
load, so that what the operations leave in memory is what `Sane` accepts.

`HostOwnsAtRest` says that with no failure it makes no difference where ticks
ran; with failures, that nothing is ahead of the clock by more ticks than operations failed.
`LogComplete`, `CommandsOnce` and `OneOwner` say what else is still guaranteed then. A
repeated tick may log spikes twice and step neurons twice: internal.h:281 allows it
("partial tick may have executed"), and the properties bound it. `Progress` promises of a
run whose device is lost only that it returns: that its remaining ticks are made is
`RunCompletes`, which the run `device_run_lost` refutes. Of a handler that commands in a run
it promises nothing, since the run may wait for its own lock (`run_handler_prune`).

`GuardsSilent` and `GlobalScopeOnly` depend on the join in `stop_continuous` (the mutant of
`ExecStop` leaves it out): `vm` includes programs in which main declares and uses names
after a stop with handlers alive until it has joined, and programs whose handlers stop the
loop, after which a disciplined main has only waits and stops left.

In `Continuous`, `cont_running`, `cont_thread` and the tick's lock are three
pieces of state no single lock covers, and a handler may act on all of them from inside
a tick. The properties say under which programs the code is right:
with loops stopped by main only (`StoppedByMain`) there is one writer, stop really
joins and commands keep their order; with handlers that in addition issue no
commands, every call returns. `NoSwapInTick` and `CommandsConserved` hold for all.
The conditions are needed: a handler that stops its loop leaves it detached, and
the next `run_continuous` sets the flag it has yet to read; a handler that issues a
command after main has cleared the flag waits for its own tick, as in
`run_handler_prune`.

`TickIsSynchronous` compares the state after the phases of a CPU tick with the equations
on the state before it, so it depends on the order of the phases and on which arrays
each of them reads. `HoldFollowsSchedule` leaves out runs in which
CUDA has failed: the fallback then finds what handlers have added to the queue, in
run time instead of global time. Time is an integer in the model: that sums of a floating `dt`
reach a boundary a little early or late is not covered.

`LoadRestores` excuses weights and membranes that a running loop has learnt between
the chunks of a save, as the code holds the lock SHARED.

### Bounds

- `pool`: three slots give a partition with a remainder (4 = 2+1+1), one with
  fewer chunks than slots (idle workers) and an inline call; two waves let a
  worker of wave 1 meet wave 2. The proofs remove all of these bounds.
- `continuous`: two episodes are the least with a restart and with two loops
  alive. Three commands: one in a batch, one in the queue, one on the direct path.
- `stream`: a ring of two is full with two, wraps with three; six pushes go
  round three times. Two elements are enough for a torn sample. The mutex is
  held for a whole drain, so a mailbox write can be before, between or after.

- `device`: two groups let a failure fall between their spike downloads; two ticks
  are a run with a repeated tick in front of or behind another, or a discrete run
  followed by an episode. One failure: after it the CPU ticks, and the device is
  attached anew only by the next call. One command that changes layouts, one that
  does not.

- `network`: a group of one or two neurons and one of a single neuron, a projection
  of the first on itself (self-synapses, which growth skips) and on the
  second. Two neurons are the least for an order within a row and two rows the least for a
  row that starts after a shortened one; every wiring of a sparse connection
  is tried. Weights on both sides of the threshold and of zero; index lists that are
  unsorted, repeat themselves and leave the group. One connection made by
  `connect` and any number by loading; two rules, operations, learning steps or
  saves; two processes, the least in which a file is found.
- `simulation`: an input neuron and a clamped group of two with one winner; an
  injection before a run, on a tick boundary and beyond the end; two runs, so
  that something could be left over from the first; a log of three, which overflows.
- `vm`: two items after a prelude of up to four give each statement a declaration,
  a handler and a simulation before it; loops go round at most twice and handlers are
  called at most twice. Two preludes end in a stop, one of them with a handler that
  stops the loop first. `vm_guards` restricts the programs to those that are disciplined but
  for what main does beside a loop, so that what it finds is a declaration in the scope
  of a handler and nothing else.

`MaxGen`, `MaxEpisodes`, `MaxCmds`, `MaxPush` and `MaxSet` bound how often the
outside calls; they occur only in guards of the actions that begin a call.
`MaxTicks` also ends a loop's ticking (`LoopCheck`), and `MaxFails` bounds the
device operations that fail; `MaxConnects`, `MaxWork` and `MaxStarts`, `MaxRuns`,
`MaxInjects` and `MaxFaults`, `MaxIter` and `MaxSpikes` do the same in the
other modules.
`CHECK_DEADLOCK` is off because a bounded program may have made all its calls;
liveness properties say what must still go on.

### Fairness

Weak fairness of every thread's next step *inside* a call, a wave or a tick: the
OS schedules runnable threads and bodies and handlers return. No fairness for
starting a call, for a spurious wakeup, for process exit or for a push: nobody
owes them. A lock waited for is a guard, so a thread starved by overlapping
readers is not assumed to get it; that is why `QueuedTakesEffect` speaks of a
single loop. In Device the ticking thread is fair, and an operation of the device
returns, well or badly. In Simulation the thread that called `run` is fair from the
call to its return; a handler that waits for a lock its own thread holds is not
helped by that. Network and Vm are checked for safety only.

## 4. Proofs

Eight modules are checked by TLAPS, for all constants that satisfy the assumptions of
the component's module, which say no more than that sizes and bounds are naturals, weights
and thresholds integers (a target of `normalize` positive), names of commands do not overlap,
a program is a set of calls (with the `stop` the interpreter makes at its end), and networks
and injections have the fields a program declares (`NetShape`: a weight has a source and a
target neuron). No bound of a run enters a proof: ranges, grains, ring and log capacities,
groups, connections, episodes, commands and failures are arbitrary.
Inductive invariants are called `IInv` (a second one of Network `RInv`); TLC was used to find
them.

**Pool.** `ExactlyOnce` is not inductive. `IInv` adds: `WorkersInStep` (a worker
is at most one wave behind, and outside a wave none is), `Barrier` (`doneCount`
is the number of finished workers, plus the coordinator once counted),
`Partition` (slots below `k` hold consecutive chunks that cover
`[begin, off)`, the others none) and `Visited` (an index has been visited once if
its slot is through its chunk, else never). Two things carry the argument: a
wave of `nslots` counted threads leaves no worker out (cardinalities of
subsets of `Workers`), and the lengths `base + (k < rem)` add up to the range.
`TypeOK`, `NoWorkerInWave`, `ChunksDisjoint` and `ExactlyOnce` follow, and the
refinement of `ParallelFor` uses `ChunksDisjoint` for "never twice" and
`Barrier` for "all of them".

**Stream.** `IInv` is types, `Counters` (`rpos <= r <= w <= wpos`,
`wpos - rpos <= Cap`) and `Copied` (what each `memcpy` has moved so far).
Distinct numbers less than `Cap` apart have distinct slots (`SlotsDiffer`), so the
producer, which writes `wpos` only with `wpos - rpos < Cap`, is never in a slot
the drain reads. Refinement: the producer's slot is outside the abstract queue
until `PushStore`, and a `DrainStore` drops exactly the first `w - rpos`
elements.

**Continuous.** `CommandsConserved` counts, and counting is not inductive: it does not
say *which* command is where. `StoredSomewhere` and `StoredOnce` do: every command issued
is in exactly one place (a call, the queue, a position of a batch, the network), and
each action takes one command from one place to another (`OneMoves`), except the
swap, which takes the whole queue. `Reading` (who is inside a tick holds `struct_mx`
SHARED) gives `NoSwapInTick`, whatever handlers do. For programs whose loops only main
stops, `MainStands` says what `running` and `handle` are at each point of
each of main's calls, and `OneLoopAlive` that the only loop alive is the one the handle
names; from these `StopJoins` and `SingleWriter` follow. `QueueInOrder` needs both: with one
writer there is at most one batch (`AloneBatched`), and the batch followed by
the queue is the part of `queued` that has not been applied (`Pending`).

**Device.** `Owned` ties `attached` to where the ticking thread is; it is what makes the
mirrors or the buffers, and never both, the state that counts (`OneOwner`). `Separate` says
that the commands in either memory, the batch and the queue are all different. It
is about both memories at once, since a lost device puts the other one in charge
(`CommandsOnce`). `Logs` counts entries with the tick in progress (`LogComplete`).
`UpToDate` says how far through the tick the memory in charge is, phase by phase, if
nothing has failed; a sync then brings the mirrors to the same place (`Synced`). `Bounded` says
the same with failures: no group is further than the tick in progress plus one tick per
failed operation. Both give `HostOwnsAtRest`.

**Simulation.** All its safety properties hold for every network, schedule, program of
handlers, engine and driver failure.
- *Types.* The loops of a tick are recursive functions, so even their types are proved with
  `LoopExists`: a step of each keeps a cell a cell. The sum over a set is a fold; `SumSteps`
  gives it the recurrence every other lemma uses, `OrderedLists` says that `Ordered` lists each
  element once, in the order given.
- *Log.* `Window`: the log ends the sequence of all spikes, and is shorter only if it still has
  what dropping the older half leaves (`SimulationRecentWindow`). For the handlers
  (`SimulationHandlersCalled`) equality of two histories is not inductive while a group is being
  reported. `Calls` says instead that what a handler has heard and what `run.h` and
  `run.left` still have for it make what the log has got and is still to get; it holds at every step
  of the three loops, and outside the group reported both rests are empty.
- *Hold.* `Scheduled` relates the queue to the program: its first `n` entries are the emits planned
  before the run in a stable order, moved by `Base`, where the run began on the global clock, whatever
  handlers append behind them; those before `cursor` are due by `Deadline`,
  those behind it not or of an earlier time than the run. `Lasting` is the property, one entry at a
  time: a neuron holds the current of the last entry before the cursor that was for it. The step is
  one injection (`AppliedCells`); that the last in the queue is the last in the program's
  order is where the stability of the sort is used.
- *Tick.* `Synch` says, phase by phase, which quantities are already those of the equations and
  which are still those the tick began with: `Arrived` and `Charged` for currents, `Unmoved` until
  the fire phase, `Untraced` until the trace phase, `weights = was.weights` until learning. A phase
  that read something too late or too early would find its conjunct missing, as with learning
  after the traces. Two parts need more than bookkeeping: the loop that adds one connection after
  the other makes the one sum over all synapses that hit a neuron (`SumOfBoth`, `DrivenIsSum`), and
  the k winners are those whose rank is at most `Winners`: ranks are a bijection from the
  candidates onto `1..Cardinality`, so there are exactly as many winners as the code wants, and
  each beats every loser (`WinnersLeft`).

**Network.** A file that was cut short must never be loaded as if it were whole, although
nothing in it says how many chunks it should have: groups and rules are one chunk each, a
connection is two or four depending on its kind, so where an item begins depends on every
connection before it. `Layout` is the list of these positions. `OnFile` says that
for some such list the file ends just before one item, that this item is where the save
in progress goes on, that `image.complete` says whether it is the end, and
that the load in progress is at an item's first chunk. Thus a load that
gets to the end has read a file that was written to the end
(`NetworkLoadIsWhole`), for every number of groups, connections and rules. `Lists` is needed
because a save takes its counts from the lists it walks; that deleting by `Link` and
patching leave sequences is shown with `LeastNumber`, the first-order form of
induction: a property of numbers that fails has a least number at which it fails.

What a load brings back (`RestoreProofs`) rests on three more parts, all of `RInv`.
`Shapes`: groups and connections have the fields the code gives them, connections point at
groups, and a pair has one connection. This is the whole of `OnePerPair`
(`NetworkOnePerPair`), and why a connection that is found is *the* connection of its pair.
`Held`: the file holds the image as far as it goes, each connection at its place in
`Layout`, and memory equals the image while a save is in progress. Here the lock matters:
structural operations wait for a save, while ticks go on and may change weights,
which `image.learned` records. `Loaded`: a load that reads item `k` next has brought
back all groups and connections before `k`; and what a load that returned has brought back
lasts until the next structural operation, save or tick that learns, also while groups are
created and while a second load patches the groups again. Patching a group keeps the others only if names differ, and
a connection that is loaded replaces none of those loaded before only for the same reason:
`NamesDiffer` is used in these two places and nowhere else. Together they
give `LoadRestores` (`NetworkRestores`), for networks of every size, every number of starts
and every crash.

`WellFormed` and `SavedIsSound` are about what loops over the arrays compute: the one that
stacks rows in a connect or a growth, the two cursors of the merge, the prune that writes into
the array it reads, the drive of a normalisation. Each is a recursive function of
the rounds done, with its invariant; `LoopExists` (there is such a function) and `Induction`
(a number is reached from 0), both in `SequenceFacts`, are proved once from the
well-foundedness of the numbers, and every loop needs only that its step
keeps its invariant:

- `Rowed`: the rows stacked so far lie where `rowptr` says (`StackedSound`);
- `Merging`: every column taken is below all that both cursors have before them, so that an
  equal one is taken once and the new row ascends (`MergeRowClimbs`, `MergedSound`). For
  this the row must ascend before, which is why soundness has to be invariant at all;
- `Packed` and `Passed`: `out` is never ahead of the position read, so an entry written is
  one that has been read; and rows already passed are sound *if* the entry that is written next,
  the start of the next row, is `out`. It still holds the old end of the row while
  that row is read, which is what the mutant of `CompactRow` breaks (`CompactedSound`).

`Shapes` and `Held` take this in: a connection `Fits` its two groups (sound rows of columns
of the source for the sparse layout, as many weights as the other two ask for), sizes of
groups never change and come back with their names, and the values in a file are as many as
those of the image, whatever was learned in between. `NetworkWellFormed` reads off the part
about memory. For `NetworkSavedIsSound`, `WholeIsFound` says that in a file written to its end
a load finds each item, and what it finds is the image's storage, which passes all of `Sane`.

The refinement (`NetworkImplementsSynapses`) is the same loops once more, for what they compute.
It rests on the same invariant, `IInv /\ RInv`: only in sound rows does each synapse have one
position.

- *View.* `WiredPut` and `WiredLinked`: replacing a connection, or dropping the pair's and
  appending one, changes the view of that pair and of no other, because a pair has one
  connection. `Places`: positions of the weights and synapses of the view are in bijection, in
  each layout; the rows cover the array (`RowsFollow`, `RowsCover`), and in a row that ascends the
  first hit of a column is the only one (`SparsePlace`). `Holds` turns this round: rows that have
  the entries of a map, and no others, are seen as that map and no other (`HoldsOne`).
- *Prune.* `RowsCopied`: each row is left with its strong entries (`CompactedSound`), so the view
  is the restriction to them (`PrunePrunes`).
- *Grow.* `Taken`: what the merge has appended is what it has passed of the row, and what it has
  passed of the list, is not yet there and is no self-synapse. One of the two cursors moves in
  each round (`RoundTakes`), so the rounds the model counts end both, and `MergeHas` reads off
  the row. That a listed neuron behind the row's cursor is not in the row at all is again that
  rows ascend (`RoundBy`). `SanitizedList` adds that the lists passed to the merge ascend.
- *Normalize.* `Scaled` rounds towards zero, so it never grows or turns a weight
  (`ScaledLess`), and the sum of the parts is at most the part of the sum (`SumsShrink`). The
  abstract `Drive` is a fold over a set of synapses, the code's a loop along a row:
  `SumExists` and `SumRule` show that the fold may be taken in any order, `DriveSums`
  that along the row's positions it is the loop's sum.
- *The rest* changes one flag or one weight, links a connection, ends the process, or touches no
  connection and no group's size.

Only model-checked, and why:

- liveness (`CallReturns`, `MainReturns`, `QueuedTakesEffect`, `AcceptedIsDrained`,
  `Progress`, `RunReturns`) is outside what the prover can do;
- `Sema`, `Codegen` and `Vm` recurse over the structure of a program with RECURSIVE
  operators, which the prover does not accept.

## 5. Plan

1. Pool, ParallelFor: done, proved.
2. Continuous: done, its safety proved.
3. Stream, StreamRegister: done, proved.
4. Device: dispatcher and OpenCL done. Left: growth with its three arrays,
   re-attachment after a topology change in the middle of an episode
   (`ndl_rt_ocl.cpp` 1014). Its safety is proved.
5. Simulation: done for discrete runs, its safety proved. Left: the queries that read
   while a loop ticks.
6. Network, Synapses: done, proved, with the refinement.
7. Sema, Codegen, Vm: done. Left: parser recovery and the resolution of imports.

## 6. Not modelled

Floating-point dynamics (LIF, STDP, encodings, kernels): out of a model
checker's reach; the order in which they are applied, and from which arrays, is what
Simulation is for. Lexer, TOML reader, diagnostics, the emitted text of both
generators, the raster export, command line and subprocess I/O: text in, text out, with
no state that two steps share. The parser keeps only a position; its panic-mode
recovery is in the plan. Import resolution is a depth-first search whose result, the
modules in order, is an input of Sema. `poc_benchmark.cpp` is a client of the
runtime without logic of its own. A host thread that calls queries or rebinds
streams while the loop runs (`ndl_rt_network.cpp` 377, 1176, 1212, `ndl_rt_v2.cpp` 273) races
with it on plain memory; the models take such calls as single steps.
