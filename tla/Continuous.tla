----------------------------- MODULE Continuous -----------------------------
(***************************************************************************)
(* The episode lifecycle of the continuous mode and the route structural   *)
(* commands take to the network (runtime/ndl_rt_v2.cpp, with tick_cpu and  *)
(* drain_commands of ndl_rt_network.cpp).                                  *)
(*                                                                         *)
(* Threads: the program's main thread and one loop thread per episode.     *)
(* Ticks run on either (run() on main, run_continuous on a loop thread),   *)
(* and spike handlers run inside a tick, on the ticking thread, under its  *)
(* SHARED hold of struct_mx.  What a program calls from main and from its  *)
(* handlers is the constant-valued variable `prog'.                        *)
(*                                                                         *)
(* Each atomic load or store of cont_running, each test of the cont_thread *)
(* handle and each critical section is a step.  set_plasticity, prune,     *)
(* normalize and grow take the same route, so they are one "command".      *)
(* External: std::thread, std::shared_mutex.  The device path of the loop  *)
(* is left to another module; pacing is left out (it only delays a tick).  *)
(***************************************************************************)
EXTENDS Integers, Sequences, FiniteSets

CONSTANTS Programs,     \* records [main, handler]: the calls each side makes
          MaxEpisodes,  \* bound: run_continuous calls
          MaxCmds       \* bound: structural commands issued

ASSUME ContinuousAssumption ==
  /\ Programs \subseteq [main : SUBSET {"run", "run_continuous", "stop", "wait", "command"},
                         handler : SUBSET {"stop", "command"}]
  /\ \A p \in Programs : "stop" \in p.main      \* vm.cpp:136 calls it at the end
  /\ MaxEpisodes \in Nat /\ MaxCmds \in Nat

VARIABLES
  prog,
  running,   \* cont_running
  handle,    \* the loop cont_thread refers to, 0 when not joinable
  cmds,      \* the command queue
  readers,   \* threads holding struct_mx SHARED; UNIQUE is held within a step
  tpc,       \* per thread: where it is in the loop or the tick
  batch,     \* per thread: the swapped-out queue it is applying
  pc,        \* per thread: where it is in an API call
  cmd,       \* per thread: the command in that call
  target,    \* per thread: the loop it is joining
  issued,    \* number of commands issued
  queued,    \* history: commands in the order they entered the queue
  applied,   \* history: commands in the order they took effect
  outcome    \* "ok", "panic" (exit 70), "terminate" (std::system_error), "torn"

vars == <<prog, running, handle, cmds, readers, tpc, batch, pc, cmd, target,
          issued, queued, applied, outcome>>

Main == 0
Loops == 1 .. MaxEpisodes
Threads == {Main} \cup Loops

InTick == {"drain", "lock", "body", "handlers"}
Alive(l) == tpc[l] \notin {"unborn", "done"}

-----------------------------------------------------------------------------
Init ==
  /\ prog \in Programs
  /\ running = FALSE /\ handle = 0 /\ cmds = <<>> /\ readers = {}
  /\ tpc = [t \in Threads |-> IF t = Main THEN "out" ELSE "unborn"]
  /\ batch = [t \in Threads |-> <<>>]
  /\ pc = [t \in Threads |-> "free"]
  /\ cmd = [t \in Threads |-> 0] /\ target = [t \in Threads |-> 0]
  /\ issued = 0 /\ queued = <<>> /\ applied = <<>>
  /\ outcome = "ok"

log == <<cmds, issued, queued, applied>>

\* After the teardown main is gone, a loop that was not joined is not
Lives(t) == outcome = "ok" \/ (outcome = "torn" /\ t # Main)

\* t starts an API call: main between statements, or a handler in a tick
Calls(t, op) ==
  /\ Lives(t) /\ pc[t] = "free"
  /\ \/ t = Main /\ tpc[t] = "out" /\ op \in prog.main
     \/ tpc[t] = "handlers" /\ op \in prog.handler

At(t, p) == Lives(t) /\ pc[t] = p
Goto(t, p) == pc' = [pc EXCEPT ![t] = p]

(* ---- queue_or_apply, ndl_rt_grow_synapses ---- *)

\* Mutant: the command is not copied into the call
IssueCommand_NoCopy(t) ==
  /\ Calls(t, "command") /\ issued < MaxCmds
  /\ issued' = issued + 1
  /\ Goto(t, IF running THEN "push" ELSE "direct")
  /\ UNCHANGED <<prog, running, handle, cmds, readers, tpc, batch, cmd, target, queued, applied, outcome>>

\* the relaxed load of cont_running picks the route
IssueCommand(t) ==
  /\ Calls(t, "command")
  /\ issued < MaxCmds
  /\ issued' = issued + 1
  /\ cmd' = [cmd EXCEPT ![t] = issued + 1]
  /\ Goto(t, IF running THEN "push" ELSE "direct")
  /\ UNCHANGED <<prog, running, handle, cmds, readers, tpc, batch, target, queued, applied, outcome>>

\* Mutant: pushed at the front
PushCommand_Front(t) ==
  /\ At(t, "push")
  /\ cmds' = <<cmd[t]>> \o cmds
  /\ queued' = Append(queued, cmd[t])
  /\ Goto(t, "free")
  /\ UNCHANGED <<prog, running, handle, readers, tpc, batch, cmd, target, issued, applied, outcome>>

PushCommand(t) ==
  /\ At(t, "push")
  /\ cmds' = Append(cmds, cmd[t])
  /\ queued' = Append(queued, cmd[t])
  /\ Goto(t, "free")
  /\ UNCHANGED <<prog, running, handle, readers, tpc, batch, cmd, target, issued, applied, outcome>>

\* Mutant: a leaf that takes no lock
ApplyDirect_Unlocked(t) ==
  /\ At(t, "direct")
  /\ applied' = Append(applied, cmd[t])
  /\ Goto(t, "free")
  /\ UNCHANGED <<prog, running, handle, cmds, readers, tpc, batch, cmd, target, issued, queued, outcome>>

\* the direct leaves lock struct_mx UNIQUE: nobody may hold it SHARED
ApplyDirect(t) ==
  /\ At(t, "direct")
  /\ readers = {}
  /\ applied' = Append(applied, cmd[t])
  /\ Goto(t, "free")
  /\ UNCHANGED <<prog, running, handle, cmds, readers, tpc, batch, cmd, target, issued, queued, outcome>>

(* ---- ndl_rt_stop_continuous ---- *)

StopCall(t) ==
  /\ Calls(t, "stop")
  /\ running
  /\ Goto(t, "stop_store")
  /\ UNCHANGED <<prog, running, handle, log, readers, tpc, batch, cmd, target, outcome>>

\* Mutant: the flag is not cleared
StopStore_Missing(t) ==
  /\ At(t, "stop_store")
  /\ Goto(t, "stop_handle")
  /\ UNCHANGED <<prog, running, handle, log, readers, tpc, batch, cmd, target, outcome>>

StopStore(t) ==
  /\ At(t, "stop_store")
  /\ running' = FALSE
  /\ Goto(t, "stop_handle")
  /\ UNCHANGED <<prog, handle, log, readers, tpc, batch, cmd, target, outcome>>

\* Mutant: always detach
StopHandle_Detach(t) ==
  /\ At(t, "stop_handle")
  /\ Goto(t, IF handle = 0 THEN "free" ELSE "detach")
  /\ UNCHANGED <<prog, running, handle, log, readers, tpc, batch, cmd, target, outcome>>

\* joinable(), then get_id() == this_thread
StopHandle(t) ==
  /\ At(t, "stop_handle")
  /\ Goto(t, IF handle = 0 THEN "free" ELSE IF handle = t THEN "detach" ELSE "join")
  /\ UNCHANGED <<prog, running, handle, log, readers, tpc, batch, cmd, target, outcome>>

\* detach() and join() throw when the handle is no longer joinable
Detach(t) ==
  /\ At(t, "detach")
  /\ handle' = 0
  /\ outcome' = IF handle = 0 THEN "terminate" ELSE outcome
  /\ Goto(t, "free")
  /\ UNCHANGED <<prog, running, log, readers, tpc, batch, cmd, target>>

(* ---- joining a loop: stop, wait and the next run_continuous ---- *)

JoinBegin(t) ==
  /\ At(t, "join") \/ At(t, "rejoin")
  /\ IF handle = 0
     THEN outcome' = "terminate" /\ UNCHANGED <<pc, target>>
     ELSE /\ target' = [target EXCEPT ![t] = handle]
          /\ Goto(t, IF pc[t] = "join" THEN "joining" ELSE "rejoining")
          /\ UNCHANGED outcome
  /\ UNCHANGED <<prog, running, handle, log, readers, tpc, batch, cmd>>

\* Mutant: the join does not wait
JoinEnd_Early(t) ==
  /\ At(t, "joining") \/ At(t, "rejoining")
  /\ handle' = 0
  /\ Goto(t, IF pc[t] = "joining" THEN "free" ELSE "run_store")
  /\ UNCHANGED <<prog, running, log, readers, tpc, batch, cmd, target, outcome>>

JoinEnd(t) ==
  /\ At(t, "joining") \/ At(t, "rejoining")
  /\ tpc[target[t]] = "done"
  /\ handle' = 0
  /\ Goto(t, IF pc[t] = "joining" THEN "free" ELSE "run_store")
  /\ UNCHANGED <<prog, running, log, readers, tpc, batch, cmd, target, outcome>>

(* ---- ndl_rt_wait_continuous ---- *)

WaitCall ==
  /\ Calls(Main, "wait") /\ tpc[Main] = "out"
  /\ Goto(Main, "spin")
  /\ UNCHANGED <<prog, running, handle, log, readers, tpc, batch, cmd, target, outcome>>

WaitSpin ==
  /\ At(Main, "spin")
  /\ ~running
  /\ Goto(Main, IF handle = 0 THEN "free" ELSE "join")
  /\ UNCHANGED <<prog, running, handle, log, readers, tpc, batch, cmd, target, outcome>>

(* ---- ndl_rt_run_continuous ---- *)

RunCall ==
  /\ Calls(Main, "run_continuous") /\ tpc[Main] = "out"
  /\ \E l \in Loops : tpc[l] = "unborn"
  /\ IF running
     THEN outcome' = "panic" /\ UNCHANGED pc
     ELSE Goto(Main, IF handle # 0 THEN "rejoin" ELSE "run_store") /\ UNCHANGED outcome
  /\ UNCHANGED <<prog, running, handle, log, readers, tpc, batch, cmd, target>>

RunStore ==
  /\ At(Main, "run_store")
  /\ running' = TRUE
  /\ Goto(Main, "spawn")
  /\ UNCHANGED <<prog, handle, log, readers, tpc, batch, cmd, target, outcome>>

\* the thread runs before the handle names it
Spawn ==
  /\ At(Main, "spawn")
  /\ \E l \in Loops :
       /\ tpc[l] = "unborn" /\ \A j \in 1 .. l - 1 : tpc[j] # "unborn"
       /\ tpc' = [tpc EXCEPT ![l] = "start"]
       /\ target' = [target EXCEPT ![Main] = l]
  /\ Goto(Main, "assign")
  /\ UNCHANGED <<prog, running, handle, log, readers, batch, cmd, outcome>>

AssignHandle ==
  /\ At(Main, "assign")
  /\ handle' = target[Main]
  /\ outcome' = IF handle # 0 THEN "terminate" ELSE outcome
  /\ Goto(Main, "free")
  /\ UNCHANGED <<prog, running, log, readers, tpc, batch, cmd, target>>

(* ---- the end of the program: stop_continuous, then the AST goes ---- *)

Teardown ==
  /\ outcome = "ok" /\ pc[Main] = "free" /\ tpc[Main] = "out"
  /\ ~running
  /\ outcome' = "torn"
  /\ UNCHANGED <<prog, running, handle, log, readers, tpc, batch, pc, cmd, target>>

(* ---- ticking: cont_loop, ndl_rt_run, ndl_rt_tick_cpu ---- *)

Step(t, from, to) ==
  /\ Lives(t)
  /\ tpc[t] = from
  /\ tpc' = [tpc EXCEPT ![t] = to]

\* prepare_ticks and the clean start, then the first test of cont_running
LoopStart(l) ==
  /\ Step(l, "start", "check")
  /\ UNCHANGED <<prog, running, handle, log, readers, batch, pc, cmd, target, outcome>>

\* Mutant: the loop does not drain the queue before a tick
LoopCheck_NoDrain(l) ==
  /\ Step(l, "check", IF running THEN "lock" ELSE "done")
  /\ UNCHANGED <<prog, running, handle, log, readers, batch, pc, cmd, target, outcome>>

LoopCheck(l) ==
  /\ Step(l, "check", IF running THEN "drain" ELSE "done")
  /\ UNCHANGED <<prog, running, handle, log, readers, batch, pc, cmd, target, outcome>>

\* run(), unless the loop is active
RunTicks ==
  /\ Calls(Main, "run")
  /\ IF running
     THEN outcome' = "panic" /\ UNCHANGED tpc
     ELSE Step(Main, "out", "drain") /\ UNCHANGED outcome
  /\ UNCHANGED <<prog, running, handle, log, readers, batch, pc, cmd, target>>

\* Mutant: copy instead of swap
Drain_Copies(t) ==
  /\ Step(t, "drain", "lock")
  /\ batch' = [batch EXCEPT ![t] = cmds]
  /\ UNCHANGED <<prog, running, handle, log, readers, pc, cmd, target, outcome>>

\* drain_commands: swap the batch out under cmd_mx ...
Drain(t) ==
  /\ Step(t, "drain", "lock")
  /\ batch' = [batch EXCEPT ![t] = cmds]
  /\ cmds' = <<>>
  /\ UNCHANGED <<prog, running, handle, readers, pc, cmd, target, issued, queued, applied, outcome>>

\* ... and apply it in order, each command under UNIQUE
ApplyQueued(t) ==
  /\ Lives(t)
  /\ tpc[t] = "lock" /\ batch[t] # <<>>
  /\ readers = {}
  /\ applied' = Append(applied, Head(batch[t]))
  /\ batch' = [batch EXCEPT ![t] = Tail(@)]
  /\ UNCHANGED <<prog, running, handle, cmds, readers, tpc, pc, cmd, target, issued, queued, outcome>>

\* SHARED for the whole tick body
TickLock(t) ==
  /\ batch[t] = <<>>
  /\ Step(t, "lock", "body")
  /\ readers' = readers \cup {t}
  /\ UNCHANGED <<prog, running, handle, log, batch, pc, cmd, target, outcome>>

\* propagate .. traces, spike log
TickBody(t) ==
  /\ Step(t, "body", "handlers")
  /\ UNCHANGED <<prog, running, handle, log, readers, batch, pc, cmd, target, outcome>>

\* the handlers have returned; prev_spikes, sim_time; the lock goes.  run() has
\* some number of ticks, the loop tests cont_running before its next one.
TickEnd(t) ==
  /\ pc[t] = "free"
  /\ \E to \in IF t = Main THEN {"drain", "out"} ELSE {"check"} : Step(t, "handlers", to)
  /\ readers' = readers \ {t}
  /\ UNCHANGED <<prog, running, handle, log, batch, pc, cmd, target, outcome>>

Tick(t) == Drain(t) \/ ApplyQueued(t) \/ TickLock(t) \/ TickBody(t) \/ TickEnd(t)
Loop(l) == LoopStart(l) \/ LoopCheck(l)

\* what a thread inside an API call does next
Api(t) == PushCommand(t) \/ ApplyDirect(t) \/ StopStore(t) \/ StopHandle(t) \/ Detach(t)
          \/ JoinBegin(t) \/ JoinEnd(t)
MainApi == WaitSpin \/ RunStore \/ Spawn \/ AssignHandle

Next ==
  \/ \E t \in Threads : IssueCommand(t) \/ StopCall(t) \/ Api(t) \/ Tick(t)
  \/ WaitCall \/ RunCall \/ RunTicks \/ MainApi \/ Teardown
  \/ \E l \in Loops : Loop(l)

\* Threads are scheduled and handlers return; nobody owes a call.
Fairness ==
  /\ \A t \in Threads : WF_vars(Api(t)) /\ WF_vars(Tick(t))
  /\ WF_vars(MainApi)
  /\ \A l \in Loops : WF_vars(Loop(l))

Spec == Init /\ [][Next]_vars
FairSpec == Spec /\ Fairness

-----------------------------------------------------------------------------
(* Properties *)

TypeOK ==
  /\ prog \in Programs
  /\ running \in BOOLEAN /\ handle \in {0} \cup Loops
  /\ cmds \in Seq(1 .. MaxCmds) /\ queued \in Seq(1 .. MaxCmds) /\ applied \in Seq(1 .. MaxCmds)
  /\ readers \subseteq Threads
  /\ tpc \in [Threads -> InTick \cup {"unborn", "out", "start", "check", "done"}]
  /\ batch \in [Threads -> Seq(1 .. MaxCmds)]
  /\ pc \in [Threads -> {"free", "push", "direct", "stop_store", "stop_handle", "detach", "join",
                         "joining", "spin", "rejoin", "rejoining", "run_store", "spawn", "assign"}]
  /\ cmd \in [Threads -> 0 .. MaxCmds] /\ target \in [Threads -> {0} \cup Loops]
  /\ issued \in 0 .. MaxCmds
  /\ outcome \in {"ok", "panic", "terminate", "torn"}

\* Programs in which only main stops the loop: then every loop is joined.
StoppedByMain == "stop" \notin prog.handler

\* internal.h:164-173: a structural change never lands between the start of a
\* tick's body and the return of its last handler, whoever ticks and whoever
\* applies: pool workers and handlers dereference the buffers it swaps.
NoSwapInTick ==
  [][applied' # applied => \A t \in Threads : tpc[t] \notin {"body", "handlers"}]_vars

Places(c) ==
  {<<"queue", Main, i>> : i \in {j \in DOMAIN cmds : cmds[j] = c}}
  \cup {<<"applied", Main, i>> : i \in {j \in DOMAIN applied : applied[j] = c}}
  \cup (UNION {{<<"batch", t, i>> : i \in {j \in DOMAIN batch[t] : batch[t][j] = c}} : t \in Threads})
  \cup {<<"call", t, 1>> : t \in {u \in Threads : pc[u] \in {"push", "direct"} /\ cmd[u] = c}}

\* A command is in one place at any time, from the call that issues it over the
\* queue and the batch to the network: no command is lost in the swap against a
\* concurrent push, and none is applied twice, whatever the stops and restarts.
CommandsConserved ==
  \A c \in 1 .. issued : Cardinality(Places(c)) = 1

Batched == LET D == {t \in Threads : batch[t] # <<>>}
           IN  IF D = {} THEN <<>> ELSE batch[CHOOSE t \in D : TRUE]

\* Queued commands take effect in the order in which they entered the queue,
\* across ticks, episodes and the run() that follows an episode (as long as no
\* handler stops the loop: a detached loop may hold an older batch).
QueueInOrder ==
  StoppedByMain =>
    LET n == Len(queued) - Len(Batched) - Len(cmds)   \* these have been applied
    IN  /\ n >= 0
        /\ Batched \o cmds = SubSeq(queued, n + 1, Len(queued))
        /\ \A i \in 1 .. n : \E p \in DOMAIN applied : applied[p] = queued[i]
        /\ \A i, j \in 1 .. n, p, q \in DOMAIN applied :
             applied[p] = queued[i] /\ applied[q] = queued[j] /\ i < j => p < q

Writers == {t \in Threads : tpc[t] \in InTick \/ pc[t] = "direct"}

\* v2.cpp:10-11: one thread at a time ticks or changes the structure directly;
\* in particular main does neither from the start of a loop to its join.
SingleWriter == StoppedByMain => Cardinality(Writers) <= 1

\* Back from stop or wait, main finds no loop: cont_running is FALSE only when
\* the thread has left and the handle is empty.
StopJoins ==
  StoppedByMain /\ pc[Main] = "free" /\ ~running => handle = 0 /\ \A l \in Loops : ~Alive(l)

\* stop_continuous, wait_continuous and run_continuous return, if main is the
\* one who stops the loop and handlers issue no structural commands; wait needs
\* somebody who stops the loop.
MainReturns ==
  (prog.handler = {} /\ pc[Main] # "free" /\ ~(pc[Main] = "spin" /\ running)) ~> pc[Main] = "free"

\* A queued command takes effect unless the loop is stopped (rt.h:182-183:
\* deferred to tick boundaries, not dropped).  Two loops alive could keep the
\* lock SHARED in turns, so again only main stops.
QueuedTakesEffect ==
  \A c \in 1 .. MaxCmds :
    (StoppedByMain /\ \E i \in DOMAIN cmds : cmds[i] = c)
      ~> (~running \/ outcome # "ok" \/ \E i \in DOMAIN applied : applied[i] = c)
=============================================================================
