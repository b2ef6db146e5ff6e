------------------------------- MODULE Device -------------------------------
(***************************************************************************)
(* Ticks on the OpenCL device and on the CPU: the discrete run             *)
(* (ndl_rt_run), the continuous loop (cont_loop), the dispatcher           *)
(* (ndl_rt_backend.cpp) and the attach / tick / sync cycle of              *)
(* ndl_rt_ocl.cpp, with the device failing at any kernel or transfer.      *)
(*                                                                         *)
(* While buffers are attached the device owns v, traces and weights; the   *)
(* host keeps mirrors.  A value is abstracted to its history: v[g] counts  *)
(* the LIF steps of group g; the weights w of a sparse connection carry    *)
(* their STDP steps, the commands they went through, and the layout they   *)
(* are stored in; shape is the layout of the index arrays (both a set of   *)
(* prunes).  Synaptic currents are left out: no path brings them back.     *)
(*                                                                         *)
(* One thread ticks; main issues commands and stops the loop beside it.    *)
(* The network is complete before the first tick, so topology_version only *)
(* changes between episodes.  The CUDA path is left out.  External: the    *)
(* OpenCL device, whose operations succeed or fail one by one.             *)
(***************************************************************************)
EXTENDS Integers, Sequences, FiniteSets

CONSTANTS NG,         \* number of groups
          Prunes,     \* commands that change layouts (prune_weights)
          Scalings,   \* and those that do not (normalize_incoming)
          Programs,   \* what handlers do
          MaxTicks,   \* bound: ticks
          MaxFails    \* bound: device operations that fail

ASSUME DeviceAssumption ==
  /\ NG \in Nat \ {0}
  /\ Prunes \cap Scalings = {}
  /\ Programs \subseteq {"quiet", "stop", "command"}
  /\ MaxTicks \in Nat /\ MaxFails \in Nat

Groups == 1 .. NG
Cmds == Prunes \cup Scalings

VARIABLES
  prog,
  mode,      \* "idle", "run" or "cont"
  stopper,   \* who cleared cont_running in this episode: "none", "main", "handler"
  left,      \* discrete run: ticks left
  gpuOk,     \* cont_loop's gpu_ok
  pc, grp,   \* the ticking thread: phase, group within the phase
  onDev,     \* the tick in progress is the device's
  host, dev, attached,
  prev,      \* prev_spikes mirrors: the number of ticks they have seen
  time,      \* sim_time
  log,       \* spike logs: the tick of each entry
  queue, batch, issued,   \* structural commands
  goal,      \* history: the time at which the run in progress should return
  fails

vars == <<prog, mode, stopper, left, gpuOk, pc, grp, onDev, host, dev, attached, prev, time, log,
          queue, batch, issued, goal, fails>>

episode == <<prog, mode, stopper, goal>>
memory == <<host, dev, attached>>
spikes == <<prev, log>>
commands == <<queue, batch, issued>>

Blank == [v |-> [g \in Groups |-> 0], w |-> [stdp |-> 0, done |-> <<>>, layout |-> {}], shape |-> {}]

Running == mode = "cont" /\ stopper = "none"   \* cont_running

Init ==
  /\ prog \in Programs
  /\ mode = "idle" /\ stopper = "none" /\ left = 0 /\ gpuOk = FALSE
  /\ pc = "rest" /\ grp = 1 /\ onDev = FALSE
  /\ host = Blank /\ dev = Blank /\ attached = FALSE
  /\ prev = [g \in Groups |-> 0] /\ time = 0 /\ log = [g \in Groups |-> <<>>]
  /\ queue = <<>> /\ batch = <<>> /\ issued = {}
  /\ goal = 0 /\ fails = 0

\* freeAll
Release == attached' = FALSE /\ dev' = Blank

(* ---- what commands do to a memory ---- *)

\* apply_prune, apply_normalize
Command(m, c) ==
  IF c \in Prunes
  THEN [m EXCEPT !.w.done = Append(@, c), !.w.layout = @ \cup {c}, !.shape = @ \cup {c}]
  ELSE [m EXCEPT !.w.done = Append(@, c)]

\* to after the arrays of a connection were copied to it from from
CopyConn(from, to) == [to EXCEPT !.w = from.w, !.shape = from.shape]

\* The host after a sync down of which some downloads went through: v, traces
\* per group and the weights, but not the index arrays (oclSyncDown ignores
\* what download returns).
SyncedDown(V, withW) ==
  [host EXCEPT !.v = [g \in Groups |-> IF g \in V THEN dev.v[g] ELSE @[g]],
               !.w = IF withW THEN dev.w ELSE @]

SyncDown ==
  \/ host' = SyncedDown(Groups, TRUE) /\ UNCHANGED fails
  \/ /\ fails < MaxFails /\ fails' = fails + 1
     /\ \E V \in SUBSET Groups, b \in BOOLEAN : host' = SyncedDown(V, b)

(* ---- main: run, run_continuous, commands, stop ---- *)

Run(n, device) ==
  /\ mode = "idle" /\ time + n <= MaxTicks
  /\ mode' = "run" /\ left' = n /\ goal' = time + n
  /\ pc' = IF device THEN "execute" ELSE "swap"
  /\ onDev' = FALSE
  /\ UNCHANGED <<prog, stopper, gpuOk, grp, memory, spikes, time, commands, fails>>

RunContinuous(device) ==
  /\ mode = "idle" /\ time < MaxTicks
  /\ mode' = "cont" /\ stopper' = "none" /\ gpuOk' = FALSE
  /\ pc' = IF device THEN "execute" ELSE "check"
  /\ UNCHANGED <<prog, left, grp, onDev, memory, spikes, time, commands, goal, fails>>

\* queue_or_apply on main: between episodes the direct leaf, on the mirrors
Issue(c) ==
  /\ c \notin issued
  /\ issued' = issued \cup {c}
  /\ \/ Running /\ queue' = Append(queue, c) /\ UNCHANGED host
     \/ mode = "idle" /\ host' = Command(host, c) /\ UNCHANGED queue
  /\ UNCHANGED <<episode, left, gpuOk, pc, grp, onDev, dev, attached, spikes, time, batch, fails>>

Stop ==
  /\ Running
  /\ stopper' = "main"
  /\ UNCHANGED <<prog, mode, left, gpuOk, pc, grp, onDev, memory, spikes, time, commands, goal, fails>>

\* Mutant: joined, but the device keeps the state
StopJoined_NoSync ==
  /\ mode = "cont" /\ pc = "ended" /\ stopper = "main"
  /\ Release
  /\ mode' = "idle" /\ pc' = "rest"
  /\ UNCHANGED <<prog, stopper, left, gpuOk, grp, onDev, host, spikes, time, commands, goal, fails>>

\* the join has returned: sync down, release
StopJoined ==
  /\ mode = "cont" /\ pc = "ended" /\ stopper = "main"
  /\ IF attached THEN SyncDown ELSE UNCHANGED <<host, fails>>
  /\ Release
  /\ mode' = "idle" /\ pc' = "rest"
  /\ UNCHANGED <<prog, stopper, left, gpuOk, grp, onDev, spikes, time, commands, goal>>

\* a loop that its handler stopped ends by itself
LoopGone ==
  /\ mode = "cont" /\ pc = "ended" /\ stopper = "handler"
  /\ mode' = "idle" /\ pc' = "rest"
  /\ UNCHANGED <<prog, stopper, left, gpuOk, grp, onDev, memory, spikes, time, commands, goal, fails>>

(* ---- the dispatcher and ndl_rt_ocl_execute ---- *)

\* no driver, or attachState fails and frees what it has built: rc 0
Refused ==
  /\ pc = "execute" /\ ~attached
  /\ pc' = IF mode = "run" \/ gpuOk THEN "swap" ELSE "check"
  /\ gpuOk' = FALSE /\ onDev' = FALSE
  /\ UNCHANGED <<episode, left, grp, memory, spikes, time, commands, fails>>

\* attachState, unless the buffers are still attached
Execute ==
  /\ pc = "execute"
  /\ dev' = IF attached THEN dev ELSE host
  /\ attached' = TRUE
  /\ onDev' = TRUE /\ pc' = "swap"
  /\ UNCHANGED <<episode, left, gpuOk, grp, host, spikes, time, commands, fails>>

\* Mutant: the buffers stay attached
DeviceLost_KeepsBuffers ==
  /\ onDev /\ attached /\ pc \in {"lif", "stdp", "spikes"}
  /\ fails < MaxFails /\ fails' = fails + 1
  /\ \E V \in SUBSET Groups, b \in BOOLEAN : host' = SyncedDown(V, b)
  /\ onDev' = FALSE /\ grp' = 1
  /\ pc' = IF mode = "run" THEN "return" ELSE IF gpuOk THEN "swap" ELSE "check"
  /\ gpuOk' = FALSE
  /\ UNCHANGED <<episode, left, dev, attached, spikes, time, commands>>

\* Mutant: the tick that failed counts
DeviceLost_Counts ==
  /\ onDev /\ attached /\ pc \in {"lif", "stdp", "spikes"}
  /\ fails < MaxFails /\ fails' = fails + 1
  /\ \E V \in SUBSET Groups, b \in BOOLEAN : host' = SyncedDown(V, b)
  /\ Release
  /\ onDev' = FALSE /\ grp' = 1
  /\ pc' = IF mode = "run" THEN "return" ELSE "check"
  /\ time' = time + 1
  /\ gpuOk' = FALSE
  /\ UNCHANGED <<episode, left, spikes, commands>>

\* Mutant: the loop ends with the device
DeviceLost_EndsLoop ==
  /\ onDev /\ attached /\ pc \in {"lif", "stdp", "spikes"}
  /\ fails < MaxFails /\ fails' = fails + 1
  /\ \E V \in SUBSET Groups, b \in BOOLEAN : host' = SyncedDown(V, b)
  /\ Release
  /\ onDev' = FALSE /\ grp' = 1
  /\ pc' = IF mode = "run" THEN "return" ELSE "ended"
  /\ gpuOk' = FALSE
  /\ UNCHANGED <<episode, left, spikes, time, commands>>

\* A launch or the spike download fails: best-effort sync, release, rc -1.  The
\* run returns; the loop ticks on the CPU, the failed tick again unless it was
\* the attempt before the loop.
DeviceLost ==
  /\ onDev /\ attached /\ pc \in {"lif", "stdp", "spikes"}
  /\ fails < MaxFails /\ fails' = fails + 1
  /\ \E V \in SUBSET Groups, b \in BOOLEAN : host' = SyncedDown(V, b)
  /\ Release
  /\ onDev' = FALSE /\ grp' = 1
  /\ pc' = IF mode = "run" THEN "return" ELSE IF gpuOk THEN "swap" ELSE "check"
  /\ gpuOk' = FALSE
  /\ UNCHANGED <<episode, left, spikes, time, commands>>

\* the end of a discrete run on the device: state back, release
HandBack ==
  /\ pc = "handback"
  /\ SyncDown
  /\ Release
  /\ pc' = "return"
  /\ UNCHANGED <<episode, left, gpuOk, grp, onDev, spikes, time, commands>>

Return ==
  /\ pc = "return"
  /\ mode' = "idle" /\ pc' = "rest" /\ goal' = 0
  /\ UNCHANGED <<prog, stopper, left, gpuOk, grp, onDev, memory, spikes, time, commands, fails>>

(* ---- a tick: oclTick, and ndl_rt_tick_cpu phase by phase ---- *)

LoopCheck ==
  /\ pc = "check"
  /\ Running => time < MaxTicks
  /\ pc' = IF ~Running THEN "ended" ELSE IF gpuOk THEN "execute" ELSE "swap"
  /\ onDev' = FALSE
  /\ UNCHANGED <<episode, left, gpuOk, grp, memory, spikes, time, commands, fails>>

\* Mutant: copy instead of swap
Swap_Copies ==
  /\ pc = "swap"
  /\ batch' = queue
  /\ pc' = "apply"
  /\ UNCHANGED <<episode, left, gpuOk, grp, onDev, memory, spikes, time, queue, issued, fails>>

Swap ==
  /\ pc = "swap"
  /\ batch' = queue /\ queue' = <<>>
  /\ pc' = "apply"
  /\ UNCHANGED <<episode, left, gpuOk, grp, onDev, memory, spikes, time, issued, fails>>

\* ndl_rt_struct_prune / _normalize on the host
ApplyOnHost ==
  /\ pc = "apply" /\ batch # <<>> /\ ~attached
  /\ host' = Command(host, Head(batch))
  /\ batch' = Tail(batch)
  /\ UNCHANGED <<episode, left, gpuOk, pc, grp, onDev, dev, attached, spikes, time, queue, issued, fails>>

\* oclPrune: download, compact the mirrors, upload; failed transfers go unnoticed
PruneOnDevice(down, up) ==
  LET mirror == Command(IF down THEN CopyConn(dev, host) ELSE host, Head(batch))
  IN  host' = mirror /\ dev' = IF up THEN CopyConn(mirror, dev) ELSE dev

ApplyOnDevice ==
  /\ pc = "apply" /\ batch # <<>> /\ attached
  /\ \E down, up \in BOOLEAN :
       /\ IF down /\ up THEN UNCHANGED fails ELSE fails < MaxFails /\ fails' = fails + 1
       /\ IF Head(batch) \in Prunes
          THEN PruneOnDevice(down, up)
          ELSE host' = host /\ dev' = IF down /\ up THEN Command(dev, Head(batch)) ELSE dev
  /\ batch' = Tail(batch)
  /\ UNCHANGED <<episode, left, gpuOk, pc, grp, onDev, attached, spikes, time, queue, issued>>

Drained ==
  /\ pc = "apply" /\ batch = <<>>
  /\ pc' = "lif"
  /\ UNCHANGED <<episode, left, gpuOk, grp, onDev, memory, spikes, time, commands, fails>>

\* the phase goes through the groups in order
NextGroup(phase, next) ==
  IF grp = NG THEN grp' = 1 /\ pc' = next ELSE grp' = grp + 1 /\ pc' = phase

LifStep ==
  /\ pc = "lif"
  /\ IF onDev THEN dev' = [dev EXCEPT !.v[grp] = @ + 1] /\ UNCHANGED host
              ELSE host' = [host EXCEPT !.v[grp] = @ + 1] /\ UNCHANGED dev
  /\ NextGroup("lif", "stdp")
  /\ UNCHANGED <<episode, left, gpuOk, onDev, attached, spikes, time, commands, fails>>

StdpStep ==
  /\ pc = "stdp"
  /\ IF onDev THEN dev' = [dev EXCEPT !.w.stdp = @ + 1] /\ UNCHANGED host
              ELSE host' = [host EXCEPT !.w.stdp = @ + 1] /\ UNCHANGED dev
  /\ pc' = "spikes"
  /\ UNCHANGED <<episode, left, gpuOk, grp, onDev, attached, spikes, time, commands, fails>>

LogSpikes ==
  /\ pc = "spikes"
  /\ log' = [log EXCEPT ![grp] = Append(@, time)]
  /\ pc' = "handlers"
  /\ UNCHANGED <<episode, left, gpuOk, grp, onDev, memory, prev, time, commands, fails>>

\* The handlers of a group are back.  The device tick goes on in gb, which
\* freeAll may have emptied in the meantime.
HandlersDone ==
  /\ pc = "handlers"
  /\ IF onDev /\ ~attached
     THEN pc' = "undefined" /\ UNCHANGED <<grp, prev>>
     ELSE /\ prev' = IF onDev THEN [prev EXCEPT ![grp] = time + 1] ELSE prev
          /\ NextGroup("spikes", "clock")
  /\ UNCHANGED <<episode, left, gpuOk, onDev, memory, time, log, commands, fails>>

\* Mutant: the loop counts down what run() set
EndTick_CountsDown ==
  /\ pc = "clock"
  /\ time' = time + 1
  /\ prev' = IF onDev THEN prev ELSE [g \in Groups |-> time']
  /\ left' = left - 1
  /\ pc' = CASE mode = "cont" -> "check"
             [] mode = "run" /\ left' > 0 -> "swap"
             [] OTHER -> IF onDev THEN "handback" ELSE "return"
  /\ gpuOk' = (mode = "cont" /\ onDev)
  /\ UNCHANGED <<episode, grp, onDev, memory, log, commands, fails>>

EndTick ==
  /\ pc = "clock"
  /\ time' = time + 1
  /\ prev' = IF onDev THEN prev ELSE [g \in Groups |-> time']
  /\ left' = IF mode = "run" THEN left - 1 ELSE left
  /\ pc' = CASE mode = "cont" -> "check"
             [] mode = "run" /\ left' > 0 -> "swap"
             [] OTHER -> IF onDev THEN "handback" ELSE "return"
  /\ gpuOk' = (mode = "cont" /\ onDev)
  /\ UNCHANGED <<episode, grp, onDev, memory, log, commands, fails>>

(* ---- calls a handler makes inside a tick ---- *)

\* stop_continuous on the loop thread: detach, sync down, release
HandlerStop ==
  /\ pc = "handlers" /\ prog = "stop" /\ Running
  /\ stopper' = "handler"
  /\ IF attached THEN SyncDown ELSE UNCHANGED <<host, fails>>
  /\ Release
  /\ UNCHANGED <<prog, mode, left, gpuOk, pc, grp, onDev, spikes, time, commands, goal>>

\* queue_or_apply in a handler.  The direct leaf takes struct_mx UNIQUE: a CPU
\* tick holds it SHARED on the same thread, which waits for itself from here on.
\* A device tick holds no lock, and the leaf goes to the mirrors although the
\* device owns the weights.
HandlerCommand(c) ==
  /\ pc = "handlers" /\ prog = "command" /\ c \notin issued
  /\ issued' = issued \cup {c}
  /\ \/ Running /\ queue' = Append(queue, c) /\ UNCHANGED <<pc, host>>
     \/ ~Running /\ onDev /\ host' = Command(host, c) /\ UNCHANGED <<pc, queue>>
     \/ ~Running /\ ~onDev /\ pc' = "blocked" /\ UNCHANGED <<host, queue>>
  /\ UNCHANGED <<episode, left, gpuOk, grp, onDev, dev, attached, spikes, time, batch, fails>>

Ticking ==
  \/ Refused \/ Execute \/ HandBack \/ Return \/ LoopCheck
  \/ Swap \/ ApplyOnHost \/ ApplyOnDevice \/ Drained
  \/ LifStep \/ StdpStep \/ LogSpikes \/ HandlersDone \/ EndTick

Next ==
  \/ \E n \in 1 .. MaxTicks, d \in BOOLEAN : Run(n, d)
  \/ \E d \in BOOLEAN : RunContinuous(d)
  \/ \E c \in Cmds : Issue(c) \/ HandlerCommand(c)
  \/ Stop \/ StopJoined \/ LoopGone \/ HandlerStop
  \/ Ticking \/ DeviceLost

Spec == Init /\ [][Next]_vars
\* The ticking thread is scheduled; a device operation returns, well or badly.
FairSpec == Spec /\ WF_vars(Ticking \/ DeviceLost)

-----------------------------------------------------------------------------
(* Properties *)

Ranks == {"rest", "execute", "handback", "return", "check", "ended", "swap", "apply", "lif", "stdp",
          "spikes", "handlers", "clock", "undefined", "blocked"}
Memory == [v : [Groups -> Nat], shape : SUBSET Prunes,
           w : [stdp : Nat, done : Seq(Cmds), layout : SUBSET Prunes]]

TypeOK ==
  /\ prog \in Programs /\ mode \in {"idle", "run", "cont"} /\ stopper \in {"none", "main", "handler"}
  /\ left \in 0 .. MaxTicks /\ gpuOk \in BOOLEAN
  /\ pc \in Ranks /\ grp \in Groups /\ onDev \in BOOLEAN
  /\ host \in Memory /\ dev \in Memory /\ attached \in BOOLEAN
  /\ prev \in [Groups -> Nat] /\ time \in 0 .. MaxTicks /\ log \in [Groups -> Seq(Nat)]
  /\ queue \in Seq(Cmds) /\ batch \in Seq(Cmds) /\ issued \subseteq Cmds
  /\ goal \in Nat /\ fails \in 0 .. MaxFails

\* backend.cpp:15-18 and v2.cpp:411-414: between episodes the host owns the
\* network.  If no device operation failed, its mirrors have been through every
\* tick once, whichever of them ran on the device, and through every command
\* that is not still queued (unless handlers issue commands, which act on the
\* mirrors whoever owns the weights).  Where operations failed, groups may have
\* lost ticks, but none has more ticks too many than operations failed.
HostOwnsAtRest ==
  mode = "idle" =>
    /\ \A g \in Groups : host.v[g] <= time + fails
    /\ host.w.stdp <= time + fails
    /\ fails = 0 => \A g \in Groups : host.v[g] = time /\ prev[g] = time
    /\ fails = 0 => host.w.stdp = time
    /\ fails = 0 /\ prog # "command" =>
         issued = {host.w.done[i] : i \in DOMAIN host.w.done} \cup {queue[i] : i \in DOMAIN queue}

\* A device that fails in the middle of a tick loses no entry of a spike log:
\* each group has logged every tick of the past, in order, and one that was
\* repeated after a failure twice.
LogComplete ==
  \A g \in Groups :
    /\ \A t \in 0 .. time - 1 : \E i \in DOMAIN log[g] : log[g][i] = t
    /\ \A i, j \in DOMAIN log[g] : i < j => log[g][i] <= log[g][j]
    /\ Len(log[g]) <= time + 1 + fails

\* Whoever ticks owns the state: the CPU never advances mirrors while buffers
\* are attached, and no episode leaves buffers behind that the next one would
\* take for its own (ocl.cpp:1014 attaches only what is not attached).
OneOwner ==
  /\ pc \in {"lif", "stdp", "spikes", "clock"} /\ ~onDev => ~attached
  /\ mode = "idle" => ~attached

\* No command reaches the same weights twice, over failed ticks that had
\* drained it, repeated ticks, migrations and hand-backs.
CommandsOnce ==
  \A m \in {host.w.done \o batch \o queue, (IF attached THEN dev.w.done ELSE <<>>) \o batch \o queue} :
    \A i, j \in DOMAIN m : m[i] = m[j] => i = j

\* A device failure in continuous mode is a migration: the loop goes on until
\* somebody stops it, and then ends unless its thread waits for its own lock or
\* has lost its buffers.  A discrete run whose handlers issue no command returns,
\* and unless the device failed it has made all its ticks.
Progress ==
  /\ \A n \in 0 .. MaxTicks - 1 : (Running /\ time = n) ~> (time > n \/ ~Running)
  /\ (mode = "cont" /\ ~Running) ~> (mode = "idle" \/ pc \in {"ended", "undefined", "blocked"})
  /\ \A n \in 0 .. MaxTicks :
       (mode = "run" /\ goal = n /\ prog # "command") ~> (mode = "idle" /\ (time = n \/ fails > 0))

\* "Device lost mid-run: state was best-effort synced; continue on CPU"
\* (network.cpp:1104, internal.h:276-278): a run that returns has made the ticks
\* it was called for, on whichever engine.
RunCompletes == [][mode = "run" /\ mode' = "idle" => time = goal]_vars
=============================================================================
