----------------------------- MODULE Simulation -----------------------------
(***************************************************************************)
(* A discrete run: ndl_rt_run, the phases of a CPU tick in the order of    *)
(* the code, and the CUDA path with its fallback (ndl_rt_network.cpp,      *)
(* ndl_rt_gpu.cpp, irgen_ptx.cpp).                                         *)
(*                                                                         *)
(* Numbers are integers: the decays of a tick halve, a membrane moves half *)
(* of the way to its drive, time counts units of which dt has several.     *)
(* Membrane noise is off, as it is by default.  A phase is one action: its *)
(* parallel bodies write disjoint ranges and end in a barrier (Pool).      *)
(***************************************************************************)
EXTENDS Integers, SequencesExt

CONSTANTS Sizes,         \* <<number of neurons>> of the groups, in declaration order
          Nets,          \* networks: [conns, weights, handlers, oscillators, streams, modulated]
          Injects,       \* [g, lo, hi, t, cur] a program may schedule
          Durations, Dts, Devices,
          Threshold, Rest, Reset,
          LrPot, LrDep, WeightBound,
          Clamped,       \* groups of the k-winners-take-all arm
          Winners,       \* how many of their spikes it lets through
          Kick,          \* current of a stream's Poisson spike
          Signals,       \* values of the modulator signal
          Cutoff,        \* threshold of a prune_weights in a handler
          LogCap,        \* spikes a log may hold
          MaxRuns, MaxInjects, MaxFaults  \* bounds on runs, schedule_inject calls, CUDA failures

(* A network is as its program declares it; an injection has a time of any  *)
(* sign, and a range that need not lie within its group.                    *)
NetShape(n) ==
    /\ n.conns \in Seq([src : DOMAIN Sizes, dst : DOMAIN Sizes, kind : STRING, plastic : BOOLEAN])
    /\ n.weights = [c \in DOMAIN n.conns |-> n.weights[c]]
    /\ \A c \in DOMAIN n.conns :
         LET from == 0..Sizes[n.conns[c].src] - 1  to == 0..Sizes[n.conns[c].dst] - 1
         IN  \E synapses \in SUBSET (from \X to) : n.weights[c] \in [synapses -> Int]
    /\ n.handlers \in [DOMAIN Sizes -> Seq(STRING)]
    /\ IsFiniteSet(n.oscillators) /\ \A o \in n.oscillators : o.wave \in Seq(Int) /\ o.wave # <<>>
    /\ n.modulated \in BOOLEAN

ASSUME LogAssumption == LogCap \in Nat \ {0}
ASSUME DtAssumption == \A dt \in Dts : dt \in Nat \ {0}
ASSUME NetAssumption == Sizes \in Seq(Nat) /\ \A n \in Nets : NetShape(n)
ASSUME InjectAssumption ==
    Injects \subseteq [g : DOMAIN Sizes, lo : Int, hi : Int, t : Int, cur : Int] /\ Durations \subseteq Int
ASSUME NumberAssumption ==
    /\ {Threshold, Rest, Reset, LrPot, LrDep, Kick} \subseteq Int /\ Signals \subseteq Int
    /\ WeightBound \in Nat /\ Winners \in Nat

VARIABLES net,      \* the program's network, one of Nets
          cell,     \* the groups' arrays: [v, syn, hold, trace, spikes, prev] by group
          weights,  \* [synapse -> weight] by connection
          signal,   \* the value of the modulator signal
          clock,    \* sim_time_ms
          queue,    \* injections
          run,      \* the locals of ndl_rt_run: [phase, tick, ticks, dt, cursor, n, g, h, left]
          device,   \* the CUDA buffers: [cell, weights]
          log,      \* the spike logs by group
          heard,    \* the calls of each handler, in order
          was,      \* ghost: what the tick began with, and the inputs it got
          begun,    \* ghost: what the run began with
          fired,    \* ghost: every spike of a finished or reported tick, by group
          used      \* how often each bounded action has happened

vars == <<net, cell, weights, signal, clock, queue, run, device, log, heard, was, begun, fired, used>>

Group == DOMAIN Sizes
Neuron(g) == 0..Sizes[g] - 1
Conn == DOMAIN net.conns
Half(x) == x \div 2
Limited(w) == IF w > WeightBound THEN WeightBound ELSE IF w < -WeightBound THEN -WeightBound ELSE w
Count(what, bound) == used[what] < bound /\ used' = [used EXCEPT ![what] = @ + 1]
At(phase) == run.phase = phase
Goto(phase) == run' = [run EXCEPT !.phase = phase]

(* The sum of f over a finite set, and its elements in the order R, a set   *)
(* of pairs.                                                                *)
Sum(f, S) == MapThenSumSet(LAMBDA x : f[x], S)
Ordered(S, R) == [r \in 1..Cardinality(S) |-> CHOOSE k \in S : Cardinality({j \in S : <<j, k>> \in R}) = r - 1]

-----------------------------------------------------------------------------
(* What a tick computes from the arrays x and the weights w.                *)

Decayed(x) == [g \in Group |-> [x[g] EXCEPT !.syn = [j \in Neuron(g) |-> Half(@[j])]]]

(* Every connection adds to its target, row by row, the weights of the      *)
(* synapses that are active: whose source spiked in the tick before.        *)
Active(x) == [c \in Conn |-> {s \in DOMAIN weights[c] : s[1] \in x[net.conns[c].src].prev}]
Impulse(w, c, active, j) == Sum(w[c], {s \in active[c] : s[2] = j})
Driven(x, w, active, g, j) ==
    LET upTo[c \in 0..Len(net.conns)] ==
          IF c = 0 THEN x[g].syn[j]
          ELSE upTo[c - 1] + (IF net.conns[c].dst = g THEN Impulse(w, c, active, j) ELSE 0)
    IN  upTo[Len(net.conns)]
Propagated(x, w, active) ==
    [g \in Group |-> [x[g] EXCEPT !.syn = [j \in Neuron(g) |-> Driven(x, w, active, g, j)]]]

Potential(c, i) == c.v[i] + Half(Rest - c.v[i] + c.syn[i] + c.hold[i])
Fired(x) ==
    [g \in Group |->
       LET over == {i \in Neuron(g) : Potential(x[g], i) >= Threshold}
       IN  [x[g] EXCEPT !.v = [i \in Neuron(g) |-> IF i \in over THEN Reset ELSE Potential(x[g], i)],
                        !.spikes = over]]

(* k-winners-take-all: candidates by their potential before the reset, then *)
(* by index; those after the winners are suppressed.                        *)
Ranked(before, spikes) ==
    Ordered(spikes, {p \in spikes \X spikes :
                       \/ Potential(before, p[1]) > Potential(before, p[2])
                       \/ Potential(before, p[1]) = Potential(before, p[2]) /\ p[1] < p[2]})
Contrasted(before, x) ==
    [g \in Group |->
       LET cand == Ranked(before[g], x[g].spikes)
           out == {cand[r] : r \in Winners + 1..Len(cand)}
       IN  IF g \notin Clamped THEN x[g]
           ELSE [x[g] EXCEPT !.spikes = @ \ out, !.v = [i \in DOMAIN @ |-> IF i \in out THEN Reset ELSE @[i]]]]

(* The 3-factor rule, from the traces before the tick updates them.         *)
Change(x, c, s, m) ==
    LET pre == x[net.conns[c].src]  post == x[net.conns[c].dst]
    IN  m * ((IF s[2] \in post.spikes THEN LrPot * pre.trace[s[1]] ELSE 0)
             - (IF s[1] \in pre.prev THEN LrDep * post.trace[s[2]] ELSE 0))
Learnt(x, w, m) ==
    [c \in Conn |-> IF net.conns[c].plastic
                    THEN [s \in DOMAIN w[c] |-> Limited(w[c][s] + Change(x, c, s, m))] ELSE w[c]]

Traced(x) ==
    [g \in Group |-> [x[g] EXCEPT !.trace =
       [i \in Neuron(g) |-> Half(@[i]) + (IF i \in x[g].spikes THEN 1 ELSE 0)]]]

-----------------------------------------------------------------------------
(* Between runs.                                                            *)

Silent(g) == [v |-> [i \in Neuron(g) |-> Rest], syn |-> [i \in Neuron(g) |-> 0],
              hold |-> [i \in Neuron(g) |-> 0], trace |-> [i \in Neuron(g) |-> 0],
              spikes |-> {}, prev |-> {}]
NoRun == [phase |-> "idle", tick |-> 0, ticks |-> 0, dt |-> 1, cursor |-> 1, n |-> 0,
          g |-> 0, h |-> 0, left |-> <<>>]

Init ==
    /\ net \in Nets
    /\ cell = [g \in Group |-> Silent(g)] /\ weights = net.weights
    /\ signal = 1 /\ clock = 0 /\ queue = <<>> /\ run = NoRun
    /\ device = [cell |-> cell, weights |-> weights]
    /\ log = [g \in Group |-> <<>>]
    /\ heard = [g \in Group |-> [h \in DOMAIN net.handlers[g] |-> <<>>]]
    /\ was = [cell |-> cell, weights |-> weights, input |-> [g \in Group |-> Silent(g).syn], m |-> 1]
    /\ begun = [planned |-> <<>>, cell |-> cell, log |-> log, heard |-> heard, failed |-> FALSE]
    /\ fired = [g \in Group |-> <<>>]
    /\ used = [runs |-> 0, injects |-> 0, faults |-> 0]

ScheduleInject ==
    /\ At("idle") /\ Count("injects", MaxInjects) /\ used.runs < MaxRuns
    /\ \E inj \in Injects : queue' = Append(queue, inj)
    /\ UNCHANGED <<net, cell, weights, signal, clock, run, device, log, heard, was, begun, fired>>

(* By time, in schedule order where times are equal, on the global clock.   *)
Sooner_Unstable(q) ==
    {p \in (DOMAIN q) \X (DOMAIN q) : q[p[1]].t < q[p[2]].t \/ (q[p[1]].t = q[p[2]].t /\ p[1] > p[2])}
Sooner(q) ==
    {p \in (DOMAIN q) \X (DOMAIN q) : q[p[1]].t < q[p[2]].t \/ (q[p[1]].t = q[p[2]].t /\ p[1] < p[2])}
Sorted(q) == [k \in DOMAIN q |-> q[Ordered(DOMAIN q, Sooner(q))[k]]]
Shifted(q) == [k \in DOMAIN q |-> [q[k] EXCEPT !.t = @ + clock]]
Ticks(duration, dt) == IF 2 * duration < dt THEN 1 ELSE (2 * duration + dt) \div (2 * dt)
Clean(x) == [g \in Group |-> [x[g] EXCEPT !.syn = Silent(g).syn, !.hold = Silent(g).hold]]
HasV2Features == net.modulated \/ net.oscillators # {} \/ net.streams # {}

Run(duration, dt, on) ==
    /\ At("idle") /\ Count("runs", MaxRuns)
    /\ queue' = Shifted(Sorted(queue))
    /\ cell' = Clean(cell)
    /\ run' = [NoRun EXCEPT !.phase = IF on = "gpu" /\ ~HasV2Features THEN "upload" ELSE "currents",
                            !.ticks = Ticks(duration, dt), !.dt = dt, !.n = Len(queue)]
    /\ begun' = [planned |-> queue, cell |-> cell', log |-> log, heard |-> heard, failed |-> FALSE]
    /\ UNCHANGED <<net, weights, signal, clock, device, log, heard, was, fired>>

-----------------------------------------------------------------------------
(* A tick of the CPU, phase by phase, under struct_mx SHARED.               *)

tickVars == <<net, signal, clock, queue, device, log, heard, begun, fired, used>>

Currents ==
    /\ At("currents") /\ Goto("injections")
    /\ cell' = Propagated(Decayed(cell), weights, Active(cell))
    /\ was' = [was EXCEPT !.cell = cell, !.weights = weights]
    /\ UNCHANGED <<weights, tickVars>>

ApplyInjection(x, inj) ==
    [x EXCEPT ![inj.g].hold = [i \in DOMAIN @ |-> IF i >= inj.lo /\ i < inj.hi THEN inj.cur ELSE @[i]]]
Applied(x, inj) == IF inj.t >= clock THEN ApplyInjection(x, inj) ELSE x
Injections ==
    LET late == {k \in run.cursor..run.n : queue[k].t >= clock + run.dt}
        next == IF late = {} THEN run.n + 1 ELSE Min(late)
        upTo[r \in 0..next - run.cursor] ==
          IF r = 0 THEN cell ELSE Applied(upTo[r - 1], queue[run.cursor + r - 1])
    IN  /\ At("injections")
        /\ run' = [run EXCEPT !.phase = "inputs", !.cursor = next]
        /\ cell' = upTo[next - run.cursor]
        /\ UNCHANGED <<weights, was, tickVars>>

(* Oscillators drive every neuron of their target; each stream neuron with  *)
(* a sample draws whether it spikes.                                        *)
Wave(g) ==
    Sum([o \in net.oscillators |-> IF o.g = g THEN o.wave[(clock % Len(o.wave)) + 1] ELSE 0], net.oscillators)
Inputs ==
    /\ At("inputs") /\ Goto("fire")
    /\ \E hit \in SUBSET net.streams :
         LET input == [g \in Group |-> [i \in Neuron(g) |-> Wave(g) + (IF <<g, i>> \in hit THEN Kick ELSE 0)]]
         IN  /\ cell' = [g \in Group |-> [cell[g] EXCEPT !.syn = [i \in DOMAIN @ |-> @[i] + input[g][i]]]]
             /\ was' = [was EXCEPT !.input = input]
    /\ UNCHANGED <<weights, tickVars>>

Fire ==
    /\ At("fire") /\ Goto("learn")
    /\ cell' = Contrasted(cell, Fired(cell))
    /\ UNCHANGED <<weights, was, tickVars>>

Modulation == IF net.modulated THEN signal ELSE 1
Learn_AfterTraces ==
    /\ At("learn") /\ Goto("trace")
    /\ weights' = Learnt(Traced(cell), weights, Modulation)
    /\ was' = [was EXCEPT !.m = Modulation]
    /\ UNCHANGED <<cell, tickVars>>
Learn ==
    /\ At("learn") /\ Goto("trace")
    /\ weights' = Learnt(cell, weights, Modulation)
    /\ was' = [was EXCEPT !.m = Modulation]
    /\ UNCHANGED <<cell, tickVars>>

Trace ==
    /\ At("trace") /\ Goto("report")
    /\ cell' = Traced(cell)
    /\ UNCHANGED <<weights, was, tickVars>>

(* Then group by group each spike goes to the log, and the same spikes to   *)
(* one handler of its list after the other, in index order: run.g is the    *)
(* group, run.h the handler, or 0 for the log, and run.left is what is left *)
(* to report to it.  It is the same on the host for both engines; the time  *)
(* is the tick's, which CUDA counts from the start of the run.              *)
OnCuda == At("cuda_report")
Reporting == At("report") \/ OnCuda
Now == IF OnCuda THEN run.tick * run.dt ELSE clock
Spikes(c) == Ordered(c.spikes, {p \in c.spikes \X c.spikes : p[1] < p[2]})
Source(g) == IF OnCuda THEN device.cell[g] ELSE cell[g]
Through == run.left = <<>> /\ (run.g # 0 => run.h = Len(net.handlers[run.g]))
Reported == run' = [run EXCEPT !.left = Tail(@)]
reportVars == <<net, cell, clock, device, was, begun>>

NextGroup ==
    /\ At("report") /\ Through /\ run.g < Len(Sizes)
    /\ run' = [run EXCEPT !.g = @ + 1, !.h = 0, !.left = Spikes(cell[run.g + 1])]
    /\ UNCHANGED <<weights, signal, queue, log, heard, fired, used, reportVars>>
NextHandler ==
    /\ Reporting /\ run.left = <<>> /\ ~Through
    /\ run' = [run EXCEPT !.h = @ + 1, !.left = Spikes(Source(run.g))]
    /\ UNCHANGED <<weights, signal, queue, log, heard, fired, used, reportVars>>

Dropped_Newest(l) == IF Len(l) > LogCap THEN SubSeq(l, 1, Len(l) - Half(Len(l))) ELSE l
Dropped(l) == IF Len(l) > LogCap THEN SubSeq(l, Half(Len(l)) + 1, Len(l)) ELSE l
LogSpike ==
    /\ Reporting /\ run.h = 0 /\ run.left # <<>> /\ Reported
    /\ LET spike == [t |-> Now, i |-> Head(run.left)]
       IN  /\ log' = [log EXCEPT ![run.g] = Dropped(Append(@, spike))]
           /\ fired' = [fired EXCEPT ![run.g] = Append(@, spike)]
    /\ UNCHANGED <<weights, signal, queue, heard, used, reportVars>>

(* A handler may do nothing that matters here, schedule an injection, set   *)
(* the signal, or prune: directly, as no continuous loop runs, for which it *)
(* needs struct_mx UNIQUE, and a tick of the CPU holds it SHARED.           *)
Pruned(c) ==
    LET strong == {s \in DOMAIN weights[c] : weights[c][s] >= Cutoff \/ -weights[c][s] >= Cutoff}
    IN  IF net.conns[c].kind = "sparse" THEN [s \in strong |-> weights[c][s]]
        ELSE [s \in DOMAIN weights[c] |-> IF s \in strong THEN weights[c][s] ELSE 0]
Effect(effect) ==
    \/ effect = "observe" /\ UNCHANGED <<weights, signal, queue, used>>
    \/ /\ effect = "inject" /\ UNCHANGED <<weights, signal>>
       /\ \/ Count("injects", MaxInjects) /\ \E inj \in Injects : queue' = Append(queue, inj)
          \/ used.injects = MaxInjects /\ UNCHANGED <<queue, used>>
    \/ effect = "signal" /\ signal' \in Signals /\ UNCHANGED <<weights, queue, used>>
    \/ /\ effect = "prune" /\ OnCuda
       /\ weights' = [c \in Conn |-> Pruned(c)] /\ UNCHANGED <<signal, queue, used>>
CallHandler ==
    /\ Reporting /\ run.h # 0 /\ run.left # <<>> /\ Reported
    /\ heard' = [heard EXCEPT ![run.g][run.h] = Append(@, [t |-> Now, i |-> Head(run.left)])]
    /\ Effect(net.handlers[run.g][run.h])
    /\ UNCHANGED <<log, fired, reportVars>>

Finish ==
    /\ At("report") /\ Through /\ run.g = Len(Sizes)
    /\ cell' = [g \in Group |-> [cell[g] EXCEPT !.prev = cell[g].spikes]]
    /\ clock' = clock + run.dt
    /\ LET last == run.tick + 1 = run.ticks
       IN  /\ run' = IF last THEN NoRun ELSE [run EXCEPT !.phase = "currents", !.tick = @ + 1, !.g = 0, !.h = 0]
           /\ queue' = IF last THEN <<>> ELSE queue
    /\ UNCHANGED <<net, weights, signal, device, log, heard, was, begun, fired, used>>

-----------------------------------------------------------------------------
(* The CUDA path.  It refuses some networks, keeps its own copies, and may  *)
(* fail at any call of the driver; whatever it has done by then, the run    *)
(* starts over on the CPU.                                                  *)

hostVars == <<net, weights, signal, clock, log, heard, was, fired>>

Unsupported == \E c \in Conn : net.conns[c].kind = "one2one" \/ (net.conns[c].kind = "sparse" /\ net.conns[c].plastic)
Refuse ==
    /\ At("upload") /\ Unsupported /\ Goto("fallback")
    /\ UNCHANGED <<cell, device, queue, used, begun, hostVars>>

Upload ==
    /\ At("upload") /\ ~Unsupported /\ Goto("launch")
    /\ device' = [cell |-> [g \in Group |-> [Silent(g) EXCEPT !.v = cell[g].v, !.prev = cell[g].prev]],
                  weights |-> weights]
    /\ UNCHANGED <<cell, queue, used, begun, hostVars>>

(* The columns of a sparse connection are uploaded as 32-bit words and read *)
(* by the kernel as 64-bit words: entry k is made of entries 2k - 1 and 2k, *)
(* or lies beyond the buffer.                                               *)
Entries(c) ==
    LET synapses == DOMAIN device.weights[c]
        before(s, t) == s[2] < t[2] \/ (s[2] = t[2] /\ s[1] < t[1])
    IN  Ordered(synapses, {p \in synapses \X synapses : before(p[1], p[2])})
Wild == -1
ColumnRead(c, k) ==
    LET cols == [n \in DOMAIN Entries(c) |-> Entries(c)[n][1]]
    IN  IF 2 * k <= Len(cols) THEN IF cols[2 * k] = 0 THEN cols[2 * k - 1] ELSE Wild ELSE Wild
ReadSpiking(c, unknown) ==
    LET prev == device.cell[net.conns[c].src].prev
    IN  IF net.conns[c].kind # "sparse" THEN {s \in DOMAIN device.weights[c] : s[1] \in prev}
        ELSE {Entries(c)[k] : k \in {k \in DOMAIN Entries(c) :
                IF ColumnRead(c, k) = Wild THEN Entries(c)[k] \in unknown ELSE ColumnRead(c, k) \in prev}}

(* Currents that meet on a neuron in one tick are summed, and the tick is   *)
(* counted from the start of the run.                                       *)
Summed(x) ==
    LET t0 == run.tick * run.dt
        due(g, i) == {q \in 1..run.n : /\ queue[q].g = g /\ queue[q].t >= t0 /\ queue[q].t < t0 + run.dt
                                       /\ i >= queue[q].lo /\ i < queue[q].hi}
    IN  [g \in Group |-> [x[g] EXCEPT !.hold = [i \in Neuron(g) |->
           IF due(g, i) = {} THEN @[i] ELSE Sum([q \in DOMAIN queue |-> queue[q].cur], due(g, i))]]]
DeviceLearnt(x, w) ==
    [c \in Conn |-> IF net.conns[c].plastic /\ net.conns[c].kind = "dense"
                    THEN [s \in DOMAIN w[c] |-> w[c][s] + Change(x, c, s, 1)] ELSE w[c]]

Launch ==
    /\ At("launch")
    /\ \E unknown \in SUBSET UNION {DOMAIN weights[c] : c \in {c \in Conn : net.conns[c].kind = "sparse"}} :
         LET active == [c \in Conn |-> ReadSpiking(c, unknown)]
             x == Fired(Summed(Propagated(Decayed(device.cell), device.weights, active)))
         IN  /\ device' = [cell |-> Traced(x), weights |-> DeviceLearnt(x, device.weights)]
    /\ Goto("fetch")
    /\ UNCHANGED <<cell, queue, used, begun, hostVars>>

(* The spikes of a group are fetched, reported, and become the host's       *)
(* prev_spikes, before those of the next.                                   *)
Fetch ==
    /\ At("fetch") /\ run.g < Len(Sizes)
    /\ run' = [run EXCEPT !.phase = "cuda_report", !.g = @ + 1, !.h = 0, !.left = Spikes(device.cell[run.g + 1])]
    /\ UNCHANGED <<cell, device, queue, used, begun, hostVars>>

Mirror ==
    /\ OnCuda /\ Through /\ Goto("fetch")
    /\ cell' = [cell EXCEPT ![run.g].prev = device.cell[run.g].spikes]
    /\ UNCHANGED <<device, queue, used, begun, hostVars>>

NextLaunch ==
    /\ At("fetch") /\ run.g = Len(Sizes)
    /\ LET d == device.cell
       IN  device' = [device EXCEPT !.cell = [g \in Group |-> [d[g] EXCEPT !.prev = d[g].spikes, !.spikes = d[g].prev]]]
    /\ run' = IF run.tick + 1 = run.ticks THEN [run EXCEPT !.phase = "download"]
              ELSE [run EXCEPT !.phase = "launch", !.tick = @ + 1, !.g = 0, !.h = 0]
    /\ UNCHANGED <<cell, queue, used, begun, hostVars>>

(* The potentials of the first m groups and the traces of the first n, the  *)
(* weights of the first n connections, as far as they learn.                *)
Downloaded(m, n) ==
    [g \in Group |-> [cell[g] EXCEPT !.v = IF g <= m THEN device.cell[g].v ELSE @,
                                     !.trace = IF g <= n THEN device.cell[g].trace ELSE @]]
Synced(n) == [c \in Conn |-> IF c <= n /\ net.conns[c].plastic THEN device.weights[c] ELSE weights[c]]
Download ==
    /\ At("download")
    /\ cell' = Downloaded(Len(Sizes), Len(Sizes))
    /\ weights' = Synced(Len(net.conns))
    /\ queue' = <<>> /\ run' = NoRun
    /\ UNCHANGED <<net, signal, clock, device, log, heard, was, begun, fired, used>>

(* A download that fails leaves what came before it: potentials and traces  *)
(* alternate group by group, then the weights come one by one.              *)
DriverFails ==
    /\ Count("faults", MaxFaults)
    /\ \/ (run.phase \in {"upload", "launch"} \/ (At("fetch") /\ run.g < Len(Sizes))) /\ UNCHANGED <<cell, weights>>
       \/ /\ At("download") /\ UNCHANGED weights
          /\ \E g \in Group : cell' \in {Downloaded(g - 1, g - 1), Downloaded(g, g - 1)}
       \/ /\ At("download") /\ cell' = Downloaded(Len(Sizes), Len(Sizes))
          /\ \E c \in Conn : net.conns[c].plastic /\ weights' = Synced(c - 1)
    /\ Goto("fallback") /\ begun' = [begun EXCEPT !.failed = TRUE]
    /\ UNCHANGED <<net, signal, clock, queue, device, log, heard, was, fired>>

Fallback_Retries ==
    /\ At("fallback")
    /\ run' = [run EXCEPT !.phase = "upload", !.tick = 0, !.cursor = 1, !.n = Len(queue),
                            !.g = 0, !.h = 0, !.left = <<>>]
    /\ UNCHANGED <<cell, device, queue, used, begun, hostVars>>
Fallback ==
    /\ At("fallback")
    /\ run' = [run EXCEPT !.phase = "currents", !.tick = 0, !.cursor = 1, !.n = Len(queue),
                            !.g = 0, !.h = 0, !.left = <<>>]
    /\ UNCHANGED <<cell, device, queue, used, begun, hostVars>>

-----------------------------------------------------------------------------

Start == ScheduleInject \/ \E d \in Durations, dt \in Dts, on \in Devices : Run(d, dt, on)
Tick == Currents \/ Injections \/ Inputs \/ Fire \/ Learn \/ Trace
        \/ NextGroup \/ NextHandler \/ LogSpike \/ CallHandler \/ Finish
Cuda == Refuse \/ Upload \/ Launch \/ Fetch \/ Mirror \/ NextLaunch \/ Download \/ DriverFails \/ Fallback
Next == Start \/ Tick \/ Cuda

(* The thread that runs the simulation is scheduled, and its mutex acquired *)
(* when free: a run goes on while it can.                                   *)
Spec == Init /\ [][Next]_vars /\ WF_vars(Tick \/ Cuda)

-----------------------------------------------------------------------------
(* A tick of the CPU is one synchronous step of the equations of the model  *)
(* (INTERNALS 5): each quantity after it is a function of the quantities    *)
(* before it, no phase sees a half-updated neighbour, learning uses the     *)
(* traces and source spikes of the tick before; of a clamped group the      *)
(* strongest candidates win, ties going to the lower index, and every       *)
(* candidate is reset.                                                      *)
Equations(g) ==
    LET old == was.cell[g]  new == cell[g]
        arriving(i) == UNION {{<<c, s>> : s \in {s \in DOMAIN was.weights[c] :
                          s[2] = i /\ s[1] \in was.cell[net.conns[c].src].prev}}
                       : c \in {c \in Conn : net.conns[c].dst = g}}
        moved(i) == old.v[i] + Half(Rest - old.v[i] + new.syn[i] + new.hold[i])
        over == {i \in Neuron(g) : moved(i) >= Threshold}
    IN  /\ \A i \in Neuron(g) :
             /\ new.syn[i] = Half(old.syn[i])
                             + Sum([a \in arriving(i) |-> was.weights[a[1]][a[2]]], arriving(i)) + was.input[g][i]
             /\ new.v[i] = IF i \in over THEN Reset ELSE moved(i)
             /\ new.trace[i] = Half(old.trace[i]) + Cardinality({i} \cap new.spikes)
        /\ new.spikes \subseteq over /\ (g \notin Clamped => new.spikes = over)
        /\ g \in Clamped => Cardinality(new.spikes) = Min({Winners, Cardinality(over)})
        /\ \A i \in new.spikes, j \in over \ new.spikes : moved(i) > moved(j) \/ (moved(i) = moved(j) /\ i < j)
LearningRule(c) ==
    LET src == net.conns[c].src  dst == net.conns[c].dst
        pot(s) == IF s[2] \in cell[dst].spikes THEN LrPot * was.cell[src].trace[s[1]] ELSE 0
        dep(s) == IF s[1] \in was.cell[src].prev THEN LrDep * was.cell[dst].trace[s[2]] ELSE 0
    IN  weights[c] = IF ~net.conns[c].plastic THEN was.weights[c]
                     ELSE [s \in DOMAIN was.weights[c] |-> Limited(was.weights[c][s] + was.m * (pot(s) - dep(s)))]
TickIsSynchronous ==
    At("report") => (\A g \in Group : Equations(g)) /\ (\A c \in Conn : LearningRule(c))

(* The current a neuron is held at is that of the last emit for it whose    *)
(* time has come in this run, in the order of time and of the program where *)
(* times are equal, and nothing before the first; nothing is left over from *)
(* an earlier run or from a handler (INTERNALS 148-150, 168).               *)
HoldFollowsSchedule ==
    run.phase \in {"inputs", "fire", "learn", "trace", "report"} /\ ~begun.failed =>
      \A g \in Group : \A i \in Neuron(g) :
        LET p == begun.planned
            due == {k \in DOMAIN p : p[k].g = g /\ i >= p[k].lo /\ i < p[k].hi
                                     /\ p[k].t >= 0 /\ p[k].t < (run.tick + 1) * run.dt}
            latest == CHOOSE k \in due : \A m \in due : p[m].t < p[k].t \/ (p[m].t = p[k].t /\ m <= k)
        IN  cell[g].hold[i] = IF due = {} THEN 0 ELSE p[latest].cur

(* A log is the most recent window of its group's spikes, at least half of  *)
(* what it may hold; and every handler has been called once for each spike, *)
(* in their order, whichever engine ran the ticks (network.cpp 1192-1203,   *)
(* gpu.cpp 474-490).                                                        *)
RecentWindow(g) ==
    /\ IsSuffix(log[g], fired[g]) /\ Len(log[g]) <= LogCap
    /\ Len(log[g]) >= Min({Len(fired[g]), LogCap + 1 - Half(LogCap + 1)})
HandlersCalled(g) ==
    ~(Reporting /\ run.g = g) => \A h \in DOMAIN net.handlers[g] : heard[g][h] = fired[g]
LogIsRecentWindow == \A g \in Group : RecentWindow(g) /\ HandlersCalled(g)

(* Every run returns, whatever its handlers do and wherever CUDA fails.     *)
RunReturns == ~At("idle") ~> At("idle")

(* "refused before any mutation (state untouched -> run CPU)": the state a  *)
(* run falls back to the CPU with is the one it began with (internal.h).    *)
CleanRefusal == At("fallback") => cell = begun.cell /\ log = begun.log /\ heard = begun.heard
=============================================================================
