----------------------------- MODULE DeviceProofs -----------------------------
(***************************************************************************)
(* For any number of groups, commands, ticks and failing operations: who   *)
(* owns the network's state, that no command reaches the same weights      *)
(* twice, that no entry of a spike log is lost, and that without a failure *)
(* the host is up to date whenever no episode is active.                   *)
(***************************************************************************)
EXTENDS Device, SequenceFacts

(***************************************************************************)
(* The invariant.                                                          *)
(***************************************************************************)
Body == {"swap", "apply", "lif", "stdp", "spikes", "handlers", "clock"}

\* Where the ticking thread is, by the mode; ticks stay within the run's count.
Stands ==
  /\ mode = "idle" <=> pc = "rest"
  /\ mode = "run" => pc \notin {"check", "ended"}
  /\ mode = "cont" => pc \notin {"return", "handback"}
  /\ mode = "run" /\ pc \in Body \cup {"execute"} => left >= 1 /\ time + left <= MaxTicks
  /\ mode = "cont" /\ pc \in Body \cup {"execute"} => time < MaxTicks
  /\ batch # <<>> => pc = "apply"
  /\ grp # 1 => pc \in {"lif", "spikes", "handlers", "undefined", "blocked"}

\* Buffers are attached exactly in a device tick, unless a handler's stop has
\* released them, and between the device ticks of a loop that goes on with one.
Owned ==
  /\ pc \in {"rest", "return"} => ~attached
  /\ attached /\ pc \in Body => onDev
  /\ onDev /\ pc \in Body \ {"handlers"} => attached
  /\ pc = "handback" => onDev /\ attached
  /\ attached /\ pc = "check" => gpuOk
  /\ mode = "cont" /\ stopper = "handler" =>
       ~attached /\ pc \in {"handlers", "spikes", "clock", "check", "ended", "undefined", "blocked"}

\* The commands of either memory, the batch and the queue are all different.
Once(s) == \A i, j \in DOMAIN s : s[i] = s[j] => i = j
Apart(s, r) == \A i \in DOMAIN s, j \in DOMAIN r : s[i] # r[j]
Known(s, I) == \A i \in DOMAIN s : s[i] \in I
Separated(h, b, q, I) ==
  /\ Once(h) /\ Once(b) /\ Once(q)
  /\ Apart(h, b) /\ Apart(h, q) /\ Apart(b, q)
  /\ Known(h, I) /\ Known(b, I) /\ Known(q, I)
Separate ==
  /\ Separated(host.w.done, batch, queue, issued)
  /\ attached => Separated(dev.w.done, batch, queue, issued)

\* LogComplete, with the tick in progress.
Logged(g) ==
  pc = "clock" \/ (pc \in {"handlers", "undefined", "blocked"} /\ g <= grp) \/ (pc = "spikes" /\ g < grp)
Logs ==
  \A g \in Groups :
    /\ \A t \in 0 .. time - 1 : \E i \in DOMAIN log[g] : log[g][i] = t
    /\ Logged(g) => \E i \in DOMAIN log[g] : log[g][i] = time
    /\ \A i \in DOMAIN log[g] : log[g][i] <= time
    /\ \A i, j \in DOMAIN log[g] : i < j => log[g][i] <= log[g][j]
    /\ Len(log[g]) <= time + fails + (IF Logged(g) THEN 1 ELSE 0)

\* If nothing failed, the memory of the owner is where the tick in progress is.
State == IF attached THEN dev ELSE host
Plus(n, b) == IF b THEN n + 1 ELSE n
Late == {"handlers", "undefined", "blocked"}
Stepped(g) == pc \in {"stdp", "spikes", "clock"} \cup Late \/ (pc = "lif" /\ g < grp)
Learnt == pc \in {"spikes", "clock"} \cup Late
Mirrored(g) == onDev /\ (pc = "clock" \/ (pc \in {"spikes"} \cup Late /\ g < grp))
Elements(s) == {s[i] : i \in DOMAIN s}
UpToDate ==
  fails = 0 =>
    /\ \A g \in Groups : State.v[g] = Plus(time, Stepped(g)) /\ prev[g] = Plus(time, Mirrored(g))
    /\ State.w.stdp = Plus(time, Learnt)
    /\ prog # "command" => issued = Elements(State.w.done) \cup Elements(batch) \cup Elements(queue)

\* Whatever failed, a memory in use has at most a step per tick and failure.
Within(m) ==
  /\ \A g \in Groups : m.v[g] <= Plus(time, Stepped(g)) + fails
  /\ m.w.stdp <= Plus(time, Learnt) + fails
Bounded == Within(host) /\ (attached => Within(dev))

IInv == TypeOK /\ Stands /\ Owned /\ Separate /\ Logs /\ UpToDate /\ Bounded

-----------------------------------------------------------------------------
(***************************************************************************)
(* The operators on memories.                                              *)
(***************************************************************************)
Weights == [stdp : Nat, done : Seq(Cmds), layout : SUBSET Prunes]

LEMMA GroupFacts ==
  /\ 1 \in Groups /\ NG \in Groups /\ Groups \subseteq Nat /\ NG \in Nat
  /\ \A g \in Groups : g # NG => g + 1 \in Groups
  BY DeviceAssumption DEF Groups

LEMMA MemoryFields ==
  ASSUME NEW m \in Memory
  PROVE  /\ m.v \in [Groups -> Nat] /\ m.shape \in SUBSET Prunes /\ m.w \in Weights
         /\ m.w.stdp \in Nat /\ m.w.done \in Seq(Cmds) /\ m.w.layout \in SUBSET Prunes
         /\ m = [v |-> m.v, shape |-> m.shape, w |-> m.w]
         /\ m.w = [stdp |-> m.w.stdp, done |-> m.w.done, layout |-> m.w.layout]
  BY DEF Memory, Weights

\* A command leaves everything but the weights and the layouts alone.
LEMMA CommandFields ==
  ASSUME NEW m \in Memory, NEW c \in Cmds
  PROVE  /\ Command(m, c) \in Memory /\ Command(m, c).v = m.v
         /\ Command(m, c).w.stdp = m.w.stdp /\ Command(m, c).w.done = Append(m.w.done, c)
<1>1. Append(m.w.done, c) \in Seq(Cmds)
  BY MemoryFields, AppendProperties
<1>2. CASE c \in Prunes
  <2>1. Command(m, c) = [v |-> m.v, shape |-> m.shape \cup {c},
                         w |-> [stdp |-> m.w.stdp, done |-> Append(m.w.done, c), layout |-> m.w.layout \cup {c}]]
    BY <1>2 DEF Command, Memory
  <2> QED
    BY <1>1, <1>2, <2>1, MemoryFields DEF Memory, Weights
<1>3. CASE c \notin Prunes
  <2>1. Command(m, c) = [v |-> m.v, shape |-> m.shape,
                         w |-> [stdp |-> m.w.stdp, done |-> Append(m.w.done, c), layout |-> m.w.layout]]
    BY <1>3 DEF Command, Memory
  <2> QED
    BY <1>1, <2>1, MemoryFields DEF Memory, Weights
<1> QED
  BY <1>2, <1>3

LEMMA CopyFields ==
  ASSUME NEW from \in Memory, NEW to \in Memory
  PROVE  CopyConn(from, to) \in Memory /\ CopyConn(from, to).v = to.v /\ CopyConn(from, to).w = from.w
<1>1. CopyConn(from, to) = [v |-> to.v, shape |-> from.shape, w |-> from.w]
  <2>1. CopyConn(from, to) = [to EXCEPT !.w = from.w, !.shape = from.shape]
    BY DEF CopyConn
  <2>2. to = [v |-> to.v, shape |-> to.shape, w |-> to.w]
    BY DEF Memory
  <2> QED
    BY <2>1, <2>2
<1> QED
  BY <1>1 DEF Memory

LEMMA SyncFields ==
  ASSUME host \in Memory, dev \in Memory, NEW V \in SUBSET Groups, NEW b \in BOOLEAN
  PROVE  /\ SyncedDown(V, b) \in Memory /\ SyncedDown(V, b).w = (IF b THEN dev.w ELSE host.w)
         /\ V = Groups => SyncedDown(V, b).v = dev.v
         /\ \A g \in Groups : SyncedDown(V, b).v[g] \in {host.v[g], dev.v[g]}
<1> DEFINE u == [g \in Groups |-> IF g \in V THEN dev.v[g] ELSE host.v[g]]
<1>1. SyncedDown(V, b) = [v |-> u, shape |-> host.shape, w |-> IF b THEN dev.w ELSE host.w]
  <2>1. SyncedDown(V, b) = [host EXCEPT !.v = u, !.w = IF b THEN dev.w ELSE host.w]
    BY DEF SyncedDown
  <2>2. host = [v |-> host.v, shape |-> host.shape, w |-> host.w]
    BY DEF Memory
  <2> HIDE DEF u
  <2> QED
    BY <2>1, <2>2
<1>2. /\ u \in [Groups -> Nat] /\ (V = Groups => u = dev.v)
      /\ \A g \in Groups : u[g] \in {host.v[g], dev.v[g]}
  BY MemoryFields
<1> HIDE DEF u
<1> QED
  BY <1>1, <1>2 DEF Memory

LEMMA BlankMemory == Blank \in Memory /\ Blank.w.done = <<>>
<1>1. <<>> \in Seq(Cmds)
  BY EmptySeq
<1> QED
  BY <1>1 DEF Blank, Memory

LEMMA TimeLeft ==
  ASSUME TypeOK, Stands, pc = "clock"
  PROVE  time + 1 \in 0 .. MaxTicks /\ (mode = "run" => left - 1 \in 0 .. MaxTicks)
  BY DeviceAssumption DEF TypeOK, Stands, Body

\* A sync down gives the host weights it had or the device has.
LEMMA Synced ==
  ASSUME TypeOK, SyncDown
  PROVE  /\ host' \in Memory /\ fails' \in 0 .. MaxFails /\ fails' >= fails
         /\ host'.w = host.w \/ host'.w = dev.w
         /\ \A g \in Groups : host'.v[g] \in {host.v[g], dev.v[g]}
         /\ fails' = 0 => host'.w = dev.w /\ host'.v = dev.v
<1>1. host \in Memory /\ dev \in Memory /\ fails \in 0 .. MaxFails /\ MaxFails \in Nat
  BY DeviceAssumption DEF TypeOK
<1>2. CASE host' = SyncedDown(Groups, TRUE) /\ UNCHANGED fails
  <2>1. Groups \in SUBSET Groups /\ TRUE \in BOOLEAN
    OBVIOUS
  <2>2. /\ SyncedDown(Groups, TRUE) \in Memory /\ SyncedDown(Groups, TRUE).w = dev.w
        /\ SyncedDown(Groups, TRUE).v = dev.v
    BY <1>1, <2>1, SyncFields
  <2> QED
    <3>1. fails' = fails /\ host' = SyncedDown(Groups, TRUE)
      BY <1>2
    <3>2. fails' \in 0 .. MaxFails /\ fails' >= fails
      BY <1>1, <3>1
    <3>3. host' \in Memory /\ host'.w = dev.w /\ host'.v = dev.v
      BY <2>2, <3>1
    <3> QED
      BY <3>2, <3>3
<1>3. CASE /\ fails < MaxFails /\ fails' = fails + 1
           /\ \E V \in SUBSET Groups, b \in BOOLEAN : host' = SyncedDown(V, b)
  <2>1. PICK V \in SUBSET Groups, b \in BOOLEAN : host' = SyncedDown(V, b)
    BY <1>3
  <2>2. /\ host' \in Memory /\ (host'.w = host.w \/ host'.w = dev.w)
        /\ \A g \in Groups : host'.v[g] \in {host.v[g], dev.v[g]}
    BY <1>1, <2>1, SyncFields
  <2> QED
    BY <1>1, <1>3, <2>2
<1> QED
  BY <1>2, <1>3 DEF SyncDown

\* A queued command on the device: what of it reaches which weights.
LEMMA AppliedOnDevice ==
  ASSUME TypeOK, ApplyOnDevice, NEW c, c = Head(batch)
  PROVE  /\ c \in Cmds /\ host' \in Memory /\ dev' \in Memory /\ fails' \in 0 .. MaxFails /\ fails' >= fails
         /\ \/ host'.w.done = host.w.done
            \/ host'.w.done = Append(host.w.done, c)
            \/ host'.w.done = Append(dev.w.done, c)
         /\ \/ dev'.w.done = dev.w.done
            \/ dev'.w.done = Append(host.w.done, c)
            \/ dev'.w.done = Append(dev.w.done, c)
         /\ dev'.v = dev.v /\ host'.v = host.v
         /\ host'.w.stdp \in {host.w.stdp, dev.w.stdp} /\ dev'.w.stdp \in {host.w.stdp, dev.w.stdp}
         /\ fails' = 0 => dev'.w.stdp = dev.w.stdp /\ dev'.w.done = Append(dev.w.done, c)
<1>1. host \in Memory /\ dev \in Memory /\ fails \in 0 .. MaxFails /\ MaxFails \in Nat
  BY DeviceAssumption DEF TypeOK
<1>2. c \in Cmds
  BY HeadTailProperties DEF TypeOK, ApplyOnDevice
<1>3. PICK down \in BOOLEAN, up \in BOOLEAN :
        /\ IF down /\ up THEN UNCHANGED fails ELSE fails < MaxFails /\ fails' = fails + 1
        /\ IF c \in Prunes
           THEN PruneOnDevice(down, up)
           ELSE host' = host /\ dev' = IF down /\ up THEN Command(dev, c) ELSE dev
  BY DEF ApplyOnDevice
<1>4. fails' \in 0 .. MaxFails /\ fails' >= fails /\ (fails' = 0 => down /\ up)
  BY <1>1, <1>3
<1>5. CASE c \in Prunes
  <2> DEFINE base == IF down THEN CopyConn(dev, host) ELSE host
             mirror == Command(base, c)
  <2>1. host' = mirror /\ dev' = IF up THEN CopyConn(mirror, dev) ELSE dev
    BY <1>3, <1>5 DEF PruneOnDevice
  <2>2. base \in Memory /\ base.v = host.v /\ base.w = IF down THEN dev.w ELSE host.w
    BY <1>1, CopyFields
  <2> HIDE DEF base
  <2>3. /\ mirror \in Memory /\ mirror.v = base.v
        /\ mirror.w.done = Append(base.w.done, c) /\ mirror.w.stdp = base.w.stdp
    BY <1>2, <2>2, CommandFields
  <2> HIDE DEF mirror
  <2>4. dev' \in Memory /\ dev'.v = dev.v /\ dev'.w = IF up THEN mirror.w ELSE dev.w
    BY <1>1, <2>1, <2>3, CopyFields
  <2>5. host' \in Memory /\ (host'.w.done = Append(host.w.done, c) \/ host'.w.done = Append(dev.w.done, c))
    BY <2>1, <2>2, <2>3
  <2>6. \/ dev'.w.done = dev.w.done
        \/ dev'.w.done = Append(host.w.done, c)
        \/ dev'.w.done = Append(dev.w.done, c)
    BY <2>2, <2>3, <2>4
  <2>7. fails' = 0 => dev'.w.stdp = dev.w.stdp /\ dev'.w.done = Append(dev.w.done, c)
    BY <1>4, <2>2, <2>3, <2>4
  <2>8. /\ host'.v = host.v
        /\ host'.w.stdp \in {host.w.stdp, dev.w.stdp} /\ dev'.w.stdp \in {host.w.stdp, dev.w.stdp}
    BY <2>1, <2>2, <2>3, <2>4
  <2> QED
    BY <1>2, <1>4, <2>4, <2>5, <2>6, <2>7, <2>8
<1>6. CASE c \notin Prunes
  <2>1. host' = host /\ dev' = IF down /\ up THEN Command(dev, c) ELSE dev
    BY <1>3, <1>6
  <2>2. /\ Command(dev, c) \in Memory /\ Command(dev, c).v = dev.v
        /\ Command(dev, c).w.stdp = dev.w.stdp /\ Command(dev, c).w.done = Append(dev.w.done, c)
    BY <1>1, <1>2, CommandFields
  <2> QED
    BY <1>1, <1>2, <1>4, <2>1, <2>2
<1> QED
  BY <1>5, <1>6

\* A LIF step, an STDP step, on the memory that owns the state.
LEMMA LifStepped ==
  ASSUME NEW m \in Memory, NEW g \in Groups
  PROVE  LET n == [m EXCEPT !.v[g] = @ + 1]
         IN  /\ n \in Memory /\ n.w = m.w
             /\ \A k \in Groups : n.v[k] = IF k = g THEN m.v[k] + 1 ELSE m.v[k]
<1> DEFINE n == [m EXCEPT !.v[g] = @ + 1]
<1>1. n = [v |-> [m.v EXCEPT ![g] = @ + 1], shape |-> m.shape, w |-> m.w]
  <2>1. m = [v |-> m.v, shape |-> m.shape, w |-> m.w]
    BY DEF Memory
  <2> QED
    BY <2>1
<1>2. [m.v EXCEPT ![g] = @ + 1] \in [Groups -> Nat]
  <2>1. m.v \in [Groups -> Nat]
    BY MemoryFields
  <2> QED
    BY <2>1
<1> QED
  BY <1>1, <1>2, MemoryFields DEF Memory

LEMMA StdpStepped ==
  ASSUME NEW m \in Memory
  PROVE  LET n == [m EXCEPT !.w.stdp = @ + 1]
         IN  n \in Memory /\ n.v = m.v /\ n.w.done = m.w.done /\ n.w.stdp = m.w.stdp + 1
<1> DEFINE n == [m EXCEPT !.w.stdp = @ + 1]
<1>1. n = [v |-> m.v, shape |-> m.shape,
           w |-> [stdp |-> m.w.stdp + 1, done |-> m.w.done, layout |-> m.w.layout]]
  <2>1. m = [v |-> m.v, shape |-> m.shape,
             w |-> [stdp |-> m.w.stdp, done |-> m.w.done, layout |-> m.w.layout]]
    BY DEF Memory
  <2> QED
    BY <2>1
<1>2. m.w.stdp \in Nat /\ m.w.done \in Seq(Cmds) /\ m.w.layout \in SUBSET Prunes
  BY MemoryFields
<1>3. m.v \in [Groups -> Nat] /\ m.shape \in SUBSET Prunes
  BY MemoryFields
<1>4. m.w.stdp + 1 \in Nat
  BY <1>2
<1> HIDE DEF n
<1>5. n \in Memory
  BY <1>1, <1>2, <1>3, <1>4 DEF Memory
<1>6. n.v = m.v /\ n.w.done = m.w.done /\ n.w.stdp = m.w.stdp + 1
  BY <1>1
<1> QED
  BY <1>5, <1>6 DEF n

\* What a device failure leaves.
LEMMA Lost ==
  ASSUME TypeOK, DeviceLost
  PROVE  /\ host' \in Memory /\ (host'.w = host.w \/ host'.w = dev.w)
         /\ \A g \in Groups : host'.v[g] \in {host.v[g], dev.v[g]}
         /\ fails' = fails + 1 /\ fails' \in 0 .. MaxFails /\ fails' # 0
<1>1. host \in Memory /\ dev \in Memory /\ fails \in 0 .. MaxFails /\ MaxFails \in Nat
  BY DeviceAssumption DEF TypeOK
<1>2. PICK V \in SUBSET Groups, b \in BOOLEAN : host' = SyncedDown(V, b)
  BY DEF DeviceLost
<1>3. /\ host' \in Memory /\ (host'.w = host.w \/ host'.w = dev.w)
      /\ \A g \in Groups : host'.v[g] \in {host.v[g], dev.v[g]}
  BY <1>1, <1>2, SyncFields
<1> QED
  BY <1>1, <1>3 DEF DeviceLost

-----------------------------------------------------------------------------
(***************************************************************************)
(* Types.                                                                  *)
(***************************************************************************)
LEMMA TypeStep == TypeOK /\ Stands /\ [Next]_vars => TypeOK'
<1> SUFFICES ASSUME TypeOK, Stands, [Next]_vars PROVE TypeOK'
  OBVIOUS
<1> USE DeviceAssumption, GroupFacts DEF episode, memory, spikes, commands
<1>1. ASSUME NEW n \in 1 .. MaxTicks, NEW d \in BOOLEAN, Run(n, d) PROVE TypeOK'
  <2>1. left' \in 0 .. MaxTicks /\ goal' \in Nat
    BY <1>1 DEF Run, TypeOK
  <2> QED
    BY <1>1, <2>1 DEF Run, TypeOK, Ranks
<1>2. ASSUME NEW d \in BOOLEAN, RunContinuous(d) PROVE TypeOK'
  BY <1>2 DEF RunContinuous, TypeOK, Ranks
<1>3. ASSUME NEW c \in Cmds, Issue(c) \/ HandlerCommand(c) PROVE TypeOK'
  <2>1. /\ queue' \in Seq(Cmds) /\ host' \in Memory /\ issued' \subseteq Cmds
        /\ pc' \in Ranks
        /\ UNCHANGED <<episode, left, gpuOk, grp, onDev, dev, attached, spikes, time, batch, fails>>
    <3>1. Append(queue, c) \in Seq(Cmds) /\ Command(host, c) \in Memory
      BY AppendProperties, CommandFields DEF TypeOK
    <3> QED
      BY <1>3, <3>1 DEF Issue, HandlerCommand, TypeOK, Ranks
  <2> QED
    BY <2>1 DEF TypeOK
<1>4. CASE Stop \/ LoopGone \/ Return \/ Refused \/ LoopCheck
  <2>1. CASE Stop
    BY <2>1 DEF Stop, TypeOK
  <2>2. CASE LoopGone
    BY <2>2 DEF LoopGone, TypeOK, Ranks
  <2>3. CASE Return
    BY <2>3 DEF Return, TypeOK, Ranks
  <2>4. CASE Refused \/ LoopCheck
    BY <2>4 DEF Refused, LoopCheck, TypeOK, Ranks
  <2> QED
    BY <1>4, <2>1, <2>2, <2>3, <2>4
<1>5. CASE StopJoined
  <2>1. host' \in Memory /\ fails' \in 0 .. MaxFails
    BY <1>5, Synced DEF StopJoined, TypeOK
  <2> QED
    BY <1>5, <2>1, BlankMemory DEF StopJoined, Release, TypeOK, Ranks
<1>6. CASE HandlerStop
  <2>1. host' \in Memory /\ fails' \in 0 .. MaxFails
    BY <1>6, Synced DEF HandlerStop, TypeOK
  <2> QED
    BY <1>6, <2>1, BlankMemory DEF HandlerStop, Release, TypeOK, Ranks
<1>7. CASE HandBack
  BY <1>7, Synced, BlankMemory DEF HandBack, Release, TypeOK, Ranks
<1>8. CASE Execute
  BY <1>8 DEF Execute, TypeOK, Ranks
<1>9. CASE Swap \/ Drained
  BY <1>9, EmptySeq DEF Swap, Drained, TypeOK, Ranks
<1>10. CASE ApplyOnHost
  <2>1. Head(batch) \in Cmds /\ Tail(batch) \in Seq(Cmds)
    BY <1>10, HeadTailProperties DEF ApplyOnHost, TypeOK
  <2>2. Command(host, Head(batch)) \in Memory
    BY <2>1, CommandFields DEF TypeOK
  <2> QED
    BY <1>10, <2>1, <2>2 DEF ApplyOnHost, TypeOK
<1>11. CASE ApplyOnDevice
  <2>1. Tail(batch) \in Seq(Cmds)
    BY <1>11, HeadTailProperties DEF ApplyOnDevice, TypeOK
  <2>2. host' \in Memory /\ dev' \in Memory /\ fails' \in 0 .. MaxFails
    BY <1>11, AppliedOnDevice
  <2> QED
    BY <1>11, <2>1, <2>2 DEF ApplyOnDevice, TypeOK
<1>12. CASE LifStep
  <2>1. host' \in Memory /\ dev' \in Memory
    <3>1. host \in Memory /\ dev \in Memory /\ grp \in Groups
      BY DEF TypeOK
    <3>2. [host EXCEPT !.v[grp] = @ + 1] \in Memory /\ [dev EXCEPT !.v[grp] = @ + 1] \in Memory
      BY <3>1, LifStepped
    <3> QED
      BY <1>12, <3>1, <3>2 DEF LifStep
  <2> QED
    BY <1>12, <2>1 DEF LifStep, NextGroup, TypeOK, Ranks
<1>13. CASE StdpStep
  <2>1. host' \in Memory /\ dev' \in Memory
    BY <1>13, StdpStepped DEF StdpStep, TypeOK
  <2> QED
    BY <1>13, <2>1 DEF StdpStep, TypeOK, Ranks
<1>14. CASE LogSpikes
  <2>1. Append(log[grp], time) \in Seq(Nat)
    BY AppendProperties DEF TypeOK
  <2>2. log' \in [Groups -> Seq(Nat)]
    BY <1>14, <2>1 DEF LogSpikes, TypeOK
  <2> QED
    BY <1>14, <2>2 DEF LogSpikes, TypeOK, Ranks
<1>15. CASE HandlersDone
  <2>1. prev' \in [Groups -> Nat]
    BY <1>15 DEF HandlersDone, TypeOK
  <2> QED
    BY <1>15, <2>1 DEF HandlersDone, NextGroup, TypeOK, Ranks
<1>16. CASE EndTick
  <2>1. time' \in 0 .. MaxTicks /\ left' \in 0 .. MaxTicks /\ gpuOk' \in BOOLEAN
    BY <1>16, TimeLeft DEF EndTick, TypeOK
  <2>2. prev' \in [Groups -> Nat]
    BY <1>16, <2>1 DEF EndTick, TypeOK
  <2>3. pc' \in Ranks
    BY <1>16 DEF EndTick, Ranks, TypeOK
  <2> QED
    BY <1>16, <2>1, <2>2, <2>3 DEF EndTick, TypeOK
<1>17. CASE DeviceLost
  BY <1>17, Lost, BlankMemory DEF DeviceLost, Release, TypeOK, Ranks
<1>18. CASE UNCHANGED vars
  BY <1>18 DEF vars, TypeOK
<1> QED
  BY <1>1, <1>2, <1>3, <1>4, <1>5, <1>6, <1>7, <1>8, <1>9, <1>10, <1>11, <1>12, <1>13, <1>14, <1>15,
     <1>16, <1>17, <1>18 DEF Next, Ticking

-----------------------------------------------------------------------------
(***************************************************************************)
(* Phases and ownership.                                                   *)
(***************************************************************************)
LEMMA Bounds ==
  ASSUME TypeOK
  PROVE  /\ left \in Nat /\ time \in Nat /\ MaxTicks \in Nat /\ grp \in Nat /\ fails \in Nat
         /\ mode \in {"idle", "run", "cont"} /\ pc \in Ranks
  BY DeviceAssumption, GroupFacts DEF TypeOK

LEMMA StandsStep == TypeOK /\ Stands /\ [Next]_vars => Stands'
<1> SUFFICES ASSUME TypeOK, Stands, [Next]_vars PROVE Stands'
  OBVIOUS
<1> USE Bounds DEF Stands, Body, episode, commands
<1>1. ASSUME NEW n \in 1 .. MaxTicks, NEW d \in BOOLEAN, Run(n, d) PROVE Stands'
  BY <1>1 DEF Run
<1>2. ASSUME NEW d \in BOOLEAN, RunContinuous(d) PROVE Stands'
  BY <1>2 DEF RunContinuous
<1>3. ASSUME NEW c \in Cmds, Issue(c) \/ HandlerCommand(c) PROVE Stands'
  BY <1>3 DEF Issue, HandlerCommand
<1>4. CASE Stop \/ StopJoined \/ LoopGone \/ HandlerStop
  BY <1>4 DEF Stop, StopJoined, LoopGone, HandlerStop
<1>5. CASE Refused \/ Execute \/ HandBack \/ Return
  BY <1>5 DEF Refused, Execute, HandBack, Return
<1>6. CASE LoopCheck
  BY <1>6 DEF LoopCheck, Running
<1>7. CASE Swap \/ ApplyOnHost \/ ApplyOnDevice \/ Drained
  BY <1>7 DEF Swap, ApplyOnHost, ApplyOnDevice, Drained
<1>8. CASE LifStep \/ StdpStep \/ LogSpikes
  BY <1>8 DEF LifStep, StdpStep, LogSpikes, NextGroup
<1>9. CASE HandlersDone
  BY <1>9 DEF HandlersDone, NextGroup
<1>10. CASE EndTick
  BY <1>10 DEF EndTick
<1>11. CASE DeviceLost
  BY <1>11 DEF DeviceLost
<1>12. CASE UNCHANGED vars
  BY <1>12 DEF vars
<1> QED
  BY <1>1, <1>2, <1>3, <1>4, <1>5, <1>6, <1>7, <1>8, <1>9, <1>10, <1>11, <1>12 DEF Next, Ticking

LEMMA OwnedStep == TypeOK /\ Stands /\ Owned /\ [Next]_vars => Owned'
<1> SUFFICES ASSUME TypeOK, Stands, Owned, [Next]_vars PROVE Owned'
  OBVIOUS
<1> USE Bounds DEF Owned, Body, episode, memory, Release
<1>1. ASSUME NEW n \in 1 .. MaxTicks, NEW d \in BOOLEAN, Run(n, d) PROVE Owned'
  BY <1>1 DEF Run, Stands
<1>2. ASSUME NEW d \in BOOLEAN, RunContinuous(d) PROVE Owned'
  BY <1>2 DEF RunContinuous, Stands
<1>3. ASSUME NEW c \in Cmds, Issue(c) \/ HandlerCommand(c) PROVE Owned'
  BY <1>3 DEF Issue, HandlerCommand
<1>4. CASE Stop \/ StopJoined \/ LoopGone
  BY <1>4 DEF Stop, StopJoined, LoopGone, Running
<1>5. CASE HandlerStop
  BY <1>5 DEF HandlerStop
<1>6. CASE Refused \/ Execute \/ HandBack \/ Return
  BY <1>6 DEF Refused, Execute, HandBack, Return, Stands
<1>7. CASE LoopCheck
  BY <1>7 DEF LoopCheck, Running
<1>8. CASE Swap \/ ApplyOnHost \/ ApplyOnDevice \/ Drained
  BY <1>8 DEF Swap, ApplyOnHost, ApplyOnDevice, Drained
<1>9. CASE LifStep \/ StdpStep \/ LogSpikes
  BY <1>9 DEF LifStep, StdpStep, LogSpikes, NextGroup
<1>10. CASE HandlersDone
  BY <1>10 DEF HandlersDone, NextGroup
<1>11. CASE EndTick
  BY <1>11 DEF EndTick
<1>12. CASE DeviceLost
  BY <1>12 DEF DeviceLost
<1>13. CASE UNCHANGED vars
  BY <1>13 DEF vars
<1> QED
  BY <1>1, <1>2, <1>3, <1>4, <1>5, <1>6, <1>7, <1>8, <1>9, <1>10, <1>11, <1>12, <1>13 DEF Next, Ticking

-----------------------------------------------------------------------------
(***************************************************************************)
(* No command twice.                                                       *)
(***************************************************************************)
LEMMA OnceAppend ==
  ASSUME NEW S, NEW s \in Seq(S), NEW x \in S, Once(s), \A i \in DOMAIN s : s[i] # x
  PROVE  Once(Append(s, x))
<1> DEFINE t == Append(s, x)
<1>1. \A i, c : i \in DOMAIN t /\ t[i] = c <=> (i \in DOMAIN s /\ s[i] = c) \/ (i = Len(s) + 1 /\ x = c)
  BY Appended
<1> HIDE DEF t
<1>2. Once(t)
  BY <1>1 DEF Once
<1> QED
  BY <1>2 DEF t

LEMMA ApartAppend ==
  ASSUME NEW S, NEW s \in Seq(S), NEW x \in S, NEW r, \A j \in DOMAIN r : r[j] # x
  PROVE  /\ Apart(s, r) => Apart(Append(s, x), r)
         /\ Apart(r, s) => Apart(r, Append(s, x))
<1> DEFINE t == Append(s, x)
<1>1. \A i, c : i \in DOMAIN t /\ t[i] = c <=> (i \in DOMAIN s /\ s[i] = c) \/ (i = Len(s) + 1 /\ x = c)
  BY Appended
<1> HIDE DEF t
<1>2. (Apart(s, r) => Apart(t, r)) /\ (Apart(r, s) => Apart(r, t))
  BY <1>1 DEF Apart
<1> QED
  BY <1>2 DEF t

LEMMA Concatenated ==
  ASSUME NEW S, NEW s \in Seq(S), NEW r \in Seq(S)
  PROVE  /\ s \o r \in Seq(S) /\ Len(s) \in Nat
         /\ \A i \in DOMAIN (s \o r) :
              \/ i \in DOMAIN s /\ (s \o r)[i] = s[i]
              \/ i - Len(s) \in DOMAIN r /\ (s \o r)[i] = r[i - Len(s)] /\ i \in Nat
<1> DEFINE t == s \o r
<1>1. /\ t \in Seq(S) /\ Len(t) = Len(s) + Len(r)
      /\ \A i \in 1 .. Len(s) + Len(r) : t[i] = IF i <= Len(s) THEN s[i] ELSE r[i - Len(s)]
  BY ConcatProperties
<1>2. /\ DOMAIN s = 1 .. Len(s) /\ DOMAIN r = 1 .. Len(r) /\ DOMAIN t = 1 .. Len(t)
      /\ Len(s) \in Nat /\ Len(r) \in Nat
  BY <1>1, LenProperties
<1> HIDE DEF t
<1>3. ASSUME NEW i \in DOMAIN t
      PROVE  \/ i \in DOMAIN s /\ t[i] = s[i]
             \/ i - Len(s) \in DOMAIN r /\ t[i] = r[i - Len(s)] /\ i \in Nat
  BY <1>1, <1>2
<1> QED
  BY <1>1, <1>2, <1>3 DEF t

LEMMA OnceConcat ==
  ASSUME NEW S, NEW s \in Seq(S), NEW r \in Seq(S), Once(s), Once(r), Apart(s, r)
  PROVE  s \o r \in Seq(S) /\ Once(s \o r)
<1> DEFINE t == s \o r
<1>1. /\ t \in Seq(S) /\ Len(s) \in Nat
      /\ \A i \in DOMAIN t : \/ i \in DOMAIN s /\ t[i] = s[i]
                             \/ i - Len(s) \in DOMAIN r /\ t[i] = r[i - Len(s)] /\ i \in Nat
  BY Concatenated
<1> HIDE DEF t
<1>2. ASSUME NEW i \in DOMAIN t, NEW j \in DOMAIN t, t[i] = t[j] PROVE i = j
  <2>1. CASE i \in DOMAIN s /\ t[i] = s[i]
    BY <1>1, <1>2, <2>1, ZenonT(30) DEF Once, Apart
  <2>2. CASE i - Len(s) \in DOMAIN r /\ t[i] = r[i - Len(s)] /\ i \in Nat
    <3>1. CASE j \in DOMAIN s /\ t[j] = s[j]
      BY <1>2, <2>2, <3>1 DEF Apart
    <3>2. CASE j - Len(s) \in DOMAIN r /\ t[j] = r[j - Len(s)] /\ j \in Nat
      <4>1. i - Len(s) = j - Len(s)
        BY <1>2, <2>2, <3>2 DEF Once
      <4> QED
        BY <1>1, <2>2, <3>2, <4>1
    <3> QED
      BY <1>1, <3>1, <3>2
  <2> QED
    BY <1>1, <2>1, <2>2
<1> QED
  BY <1>1, <1>2 DEF Once, t

LEMMA ApartConcat ==
  ASSUME NEW S, NEW s \in Seq(S), NEW r \in Seq(S), NEW q, Apart(s, q), Apart(r, q)
  PROVE  Apart(s \o r, q)
  BY Concatenated DEF Apart

LEMMA KnownAppend ==
  ASSUME NEW S, NEW s \in Seq(S), NEW x \in S, NEW I, Known(s, I), x \in I
  PROVE  Known(Append(s, x), I)
<1> DEFINE t == Append(s, x)
<1>1. \A i, c : i \in DOMAIN t /\ t[i] = c <=> (i \in DOMAIN s /\ s[i] = c) \/ (i = Len(s) + 1 /\ x = c)
  BY Appended
<1> HIDE DEF t
<1>2. Known(t, I)
  BY <1>1 DEF Known
<1> QED
  BY <1>2 DEF t

LEMMA KnownGrows == ASSUME NEW s, NEW I, NEW J, I \subseteq J, Known(s, I) PROVE Known(s, J)
  BY DEF Known

\* The head of a sequence without repetitions is not in its tail.
LEMMA TailApart ==
  ASSUME NEW S, NEW s \in Seq(S), s # <<>>, Once(s)
  PROVE  /\ Once(Tail(s)) /\ \A i \in DOMAIN Tail(s) : Tail(s)[i] # Head(s)
         /\ \A r : Apart(r, s) => Apart(r, Tail(s)) /\ \A i \in DOMAIN r : r[i] # Head(s)
         /\ \A r : Apart(s, r) => Apart(Tail(s), r) /\ \A i \in DOMAIN r : r[i] # Head(s)
         /\ \A I : Known(s, I) => Known(Tail(s), I) /\ Head(s) \in I
<1> DEFINE t == Tail(s)
           x == Head(s)
<1>1. /\ 1 \in DOMAIN s /\ s[1] = x
      /\ \A i, c : i \in DOMAIN t /\ t[i] = c <=> i \in Nat /\ i # 0 /\ i + 1 \in DOMAIN s /\ s[i + 1] = c
  BY Tailed
<1> HIDE DEF t, x
<1>2. \A i \in DOMAIN t : i \in Nat /\ i # 0 /\ i + 1 \in DOMAIN s /\ s[i + 1] = t[i]
  BY <1>1
<1>3. \A i \in DOMAIN t : t[i] # x
  BY <1>1, <1>2 DEF Once
<1>4. Once(t)
  <2> SUFFICES ASSUME NEW i \in DOMAIN t, NEW j \in DOMAIN t, t[i] = t[j] PROVE i = j
    BY DEF Once
  <2>1. i + 1 = j + 1 /\ i \in Nat /\ j \in Nat
    BY <1>2 DEF Once
  <2> QED
    BY <2>1
<1>5. \A r : Apart(r, s) => Apart(r, t) /\ \A i \in DOMAIN r : r[i] # x
  BY <1>1, <1>2 DEF Apart
<1>6. \A r : Apart(s, r) => Apart(t, r) /\ \A i \in DOMAIN r : r[i] # x
  BY <1>1, <1>2 DEF Apart
<1>7. \A I : Known(s, I) => Known(t, I) /\ x \in I
  BY <1>1, <1>2 DEF Known
<1> QED
  BY <1>3, <1>4, <1>5, <1>6, <1>7 DEF t, x

\* What a step does to the commands keeps them apart: issuing one into the
\* queue or into a memory, swapping the queue out, applying the head of a batch.
LEMMA FreshCommand ==
  ASSUME NEW h, NEW b, NEW q, NEW I, NEW c, Separated(h, b, q, I), c \notin I
  PROVE  /\ \A i \in DOMAIN h : h[i] # c
         /\ \A i \in DOMAIN b : b[i] # c
         /\ \A i \in DOMAIN q : q[i] # c
  BY DEF Separated, Known

LEMMA IssueSeparated ==
  ASSUME NEW h \in Seq(Cmds), NEW b \in Seq(Cmds), NEW q \in Seq(Cmds), NEW I, NEW c \in Cmds,
         Separated(h, b, q, I), c \notin I
  PROVE  /\ Separated(h, b, q, I \cup {c})
         /\ Separated(h, b, Append(q, c), I \cup {c})
         /\ Separated(Append(h, c), b, q, I \cup {c})
<1>1. /\ \A i \in DOMAIN h : h[i] # c
      /\ \A i \in DOMAIN b : b[i] # c
      /\ \A i \in DOMAIN q : q[i] # c
  BY FreshCommand
<1>2. /\ Once(h) /\ Once(b) /\ Once(q)
      /\ Apart(h, b) /\ Apart(h, q) /\ Apart(b, q)
  BY DEF Separated
<1>3. Known(h, I \cup {c}) /\ Known(b, I \cup {c}) /\ Known(q, I \cup {c}) /\ c \in I \cup {c}
  BY KnownGrows DEF Separated
<1>4. Once(Append(q, c)) /\ Once(Append(h, c))
  BY <1>1, <1>2, OnceAppend
<1>5. /\ Apart(h, Append(q, c)) /\ Apart(b, Append(q, c))
      /\ Apart(Append(h, c), b) /\ Apart(Append(h, c), q)
  BY <1>1, <1>2, ApartAppend
<1>6. Known(Append(q, c), I \cup {c}) /\ Known(Append(h, c), I \cup {c})
  BY <1>3, KnownAppend
<1> QED
  BY <1>2, <1>3, <1>4, <1>5, <1>6 DEF Separated

LEMMA SwapSeparated ==
  ASSUME NEW h, NEW q, NEW I, Separated(h, <<>>, q, I)
  PROVE  Separated(h, q, <<>>, I)
  BY DEF Separated, Once, Apart, Known

LEMMA ApplySeparated ==
  ASSUME NEW h \in Seq(Cmds), NEW b \in Seq(Cmds), NEW q \in Seq(Cmds), NEW I,
         Separated(h, b, q, I), b # <<>>
  PROVE  /\ Separated(h, Tail(b), q, I)
         /\ Separated(Append(h, Head(b)), Tail(b), q, I)
<1>1. /\ Once(h) /\ Once(b) /\ Once(q)
      /\ Apart(h, b) /\ Apart(h, q) /\ Apart(b, q)
      /\ Known(h, I) /\ Known(b, I) /\ Known(q, I)
  BY DEF Separated
<1>2. Head(b) \in Cmds /\ Tail(b) \in Seq(Cmds)
  BY HeadTailProperties
<1>3. /\ Once(Tail(b)) /\ \A i \in DOMAIN Tail(b) : Tail(b)[i] # Head(b)
      /\ Apart(h, Tail(b)) /\ \A i \in DOMAIN h : h[i] # Head(b)
      /\ Apart(Tail(b), q) /\ \A i \in DOMAIN q : q[i] # Head(b)
      /\ Known(Tail(b), I) /\ Head(b) \in I
  BY <1>1, TailApart
<1>4. Once(Append(h, Head(b)))
  BY <1>1, <1>2, <1>3, OnceAppend
<1>5. Apart(Append(h, Head(b)), Tail(b)) /\ Apart(Append(h, Head(b)), q)
  BY <1>1, <1>2, <1>3, ApartAppend
<1>6. Known(Append(h, Head(b)), I)
  BY <1>1, <1>2, <1>3, KnownAppend
<1> QED
  BY <1>1, <1>3, <1>4, <1>5, <1>6 DEF Separated

\* Commands that are apart are all different in the concatenation.
LEMMA SeparatedConcat ==
  ASSUME NEW h \in Seq(Cmds), NEW b \in Seq(Cmds), NEW q \in Seq(Cmds), NEW I, Separated(h, b, q, I)
  PROVE  \A i, j \in DOMAIN (h \o b \o q) : (h \o b \o q)[i] = (h \o b \o q)[j] => i = j
<1>1. Once(h) /\ Once(b) /\ Once(q) /\ Apart(h, b) /\ Apart(h, q) /\ Apart(b, q)
  BY DEF Separated
<1> DEFINE hb == h \o b
<1>2. hb \in Seq(Cmds) /\ Once(hb)
  BY <1>1, OnceConcat
<1>3. Apart(hb, q)
  BY <1>1, ApartConcat
<1> HIDE DEF hb
<1>4. Once(hb \o q)
  BY <1>1, <1>2, <1>3, OnceConcat
<1> QED
  BY <1>4 DEF Once, hb

LEMMA Sequences ==
  ASSUME TypeOK
  PROVE  /\ host.w.done \in Seq(Cmds) /\ dev.w.done \in Seq(Cmds)
         /\ batch \in Seq(Cmds) /\ queue \in Seq(Cmds)
  BY MemoryFields DEF TypeOK

\* Migrations move whole memories.
LEMMA MigrationSeparate ==
  ASSUME Separate, UNCHANGED commands,
         host'.w.done = host.w.done \/ (attached /\ host'.w.done = dev.w.done),
         attached' => dev'.w.done = host.w.done \/ (attached /\ dev'.w.done = dev.w.done)
  PROVE  Separate'
  BY DEF Separate, commands

LEMMA SeparateStep == TypeOK /\ Stands /\ Owned /\ Separate /\ [Next]_vars => Separate'
<1> SUFFICES ASSUME TypeOK, Stands, Owned, Separate, [Next]_vars PROVE Separate'
  OBVIOUS
<1> DEFINE Migrates ==
      /\ UNCHANGED commands
      /\ host'.w.done = host.w.done \/ (attached /\ host'.w.done = dev.w.done)
      /\ attached' => dev'.w.done = host.w.done \/ (attached /\ dev'.w.done = dev.w.done)
<1>1. ASSUME NEW n \in Nat, NEW d \in BOOLEAN, Run(n, d) \/ RunContinuous(d) PROVE Migrates
  BY <1>1 DEF Run, RunContinuous, memory
<1>2. ASSUME Stop \/ LoopGone \/ Return \/ Refused \/ LoopCheck \/ Drained \/ LogSpikes \/ HandlersDone \/ EndTick
      PROVE  Migrates
  BY <1>2 DEF Stop, LoopGone, Return, Refused, LoopCheck, Drained, LogSpikes, HandlersDone, EndTick, memory, commands
<1>3. ASSUME StopJoined PROVE Migrates
  BY <1>3, Synced DEF StopJoined, Release
<1>4. ASSUME HandlerStop PROVE Migrates
  BY <1>4, Synced DEF HandlerStop, Release
<1>5. ASSUME HandBack PROVE Migrates
  <2>1. attached
    BY <1>5 DEF HandBack, Owned
  <2> QED
    BY <1>5, <2>1, Synced DEF HandBack, Release
<1>6. ASSUME Execute PROVE Migrates
  BY <1>6 DEF Execute
<1>7. ASSUME DeviceLost PROVE Migrates
  BY <1>7, Lost DEF DeviceLost, Release
<1>8. ASSUME LifStep PROVE Migrates
  <2>1. host \in Memory /\ dev \in Memory /\ grp \in Groups
    BY DEF TypeOK
  <2>2. [host EXCEPT !.v[grp] = @ + 1].w = host.w /\ [dev EXCEPT !.v[grp] = @ + 1].w = dev.w
    BY <2>1, LifStepped
  <2> QED
    BY <1>8, <2>2 DEF LifStep, commands
<1>9. ASSUME StdpStep PROVE Migrates
  <2>1. host \in Memory /\ dev \in Memory
    BY DEF TypeOK
  <2>2. [host EXCEPT !.w.stdp = @ + 1].w.done = host.w.done /\ [dev EXCEPT !.w.stdp = @ + 1].w.done = dev.w.done
    BY <2>1, StdpStepped
  <2> QED
    BY <1>9, <2>2 DEF StdpStep, commands
<1>10. ASSUME UNCHANGED vars PROVE Migrates
  BY <1>10 DEF vars, commands
<1>11. ASSUME Migrates PROVE Separate'
  BY <1>11, MigrationSeparate
<1> HIDE DEF Migrates
<1>12. ASSUME NEW c \in Cmds, Issue(c) \/ HandlerCommand(c) PROVE Separate'
  <2>1. c \notin issued /\ issued' = issued \cup {c} /\ UNCHANGED <<dev, attached, batch>>
    BY <1>12 DEF Issue, HandlerCommand
  <2>2. \/ queue' = Append(queue, c) /\ host' = host
        \/ queue' = queue /\ host' = Command(host, c)
        \/ queue' = queue /\ host' = host
    BY <1>12 DEF Issue, HandlerCommand
  <2>3. /\ Separated(host.w.done, batch, queue, issued \cup {c})
        /\ Separated(host.w.done, batch, Append(queue, c), issued \cup {c})
        /\ Separated(Append(host.w.done, c), batch, queue, issued \cup {c})
    BY <2>1, IssueSeparated, Sequences DEF Separate
  <2>4. attached => /\ Separated(dev.w.done, batch, Append(queue, c), issued \cup {c})
                    /\ Separated(dev.w.done, batch, queue, issued \cup {c})
    BY <2>1, IssueSeparated, Sequences DEF Separate
  <2>5. Command(host, c).w.done = Append(host.w.done, c)
    BY CommandFields DEF TypeOK
  <2> QED
    BY <2>1, <2>2, <2>3, <2>4, <2>5 DEF Separate
<1>13. CASE Swap
  <2>1. batch = <<>> /\ batch' = queue /\ queue' = <<>> /\ UNCHANGED <<host, dev, attached, issued>>
    BY <1>13 DEF Swap, Stands, memory
  <2> QED
    BY <2>1, SwapSeparated DEF Separate
<1>14. CASE ApplyOnHost
  <2>1. /\ batch # <<>> /\ ~attached' /\ host' = Command(host, Head(batch)) /\ batch' = Tail(batch)
        /\ UNCHANGED <<queue, issued>>
    BY <1>14 DEF ApplyOnHost
  <2>2. Command(host, Head(batch)).w.done = Append(host.w.done, Head(batch))
    BY <2>1, HeadTailProperties, CommandFields DEF TypeOK
  <2>3. Separated(Append(host.w.done, Head(batch)), Tail(batch), queue, issued)
    BY <2>1, ApplySeparated, Sequences DEF Separate
  <2> QED
    BY <2>1, <2>2, <2>3 DEF Separate
<1>15. CASE ApplyOnDevice
  <2>1. batch # <<>> /\ attached /\ batch' = Tail(batch) /\ UNCHANGED <<queue, issued>>
    BY <1>15 DEF ApplyOnDevice
  <2>2. \A h \in {host.w.done, dev.w.done} :
          /\ Separated(h, Tail(batch), queue, issued)
          /\ Separated(Append(h, Head(batch)), Tail(batch), queue, issued)
    BY <2>1, ApplySeparated, Sequences DEF Separate
  <2>3. /\ \/ host'.w.done = host.w.done
           \/ host'.w.done = Append(host.w.done, Head(batch))
           \/ host'.w.done = Append(dev.w.done, Head(batch))
        /\ \/ dev'.w.done = dev.w.done
           \/ dev'.w.done = Append(host.w.done, Head(batch))
           \/ dev'.w.done = Append(dev.w.done, Head(batch))
    BY <1>15, AppliedOnDevice
  <2> QED
    BY <2>1, <2>2, <2>3 DEF Separate
<1>16. CASE StopJoined \/ HandlerStop \/ HandBack \/ Execute \/ DeviceLost \/ LifStep \/ StdpStep \/ UNCHANGED vars
  BY <1>3, <1>4, <1>5, <1>6, <1>7, <1>8, <1>9, <1>10, <1>11, <1>16
<1>17. CASE Stop \/ LoopGone \/ Return \/ Refused \/ LoopCheck \/ Drained \/ LogSpikes \/ HandlersDone \/ EndTick
  BY <1>2, <1>11, <1>17
<1> QED
  BY <1>1, <1>11, <1>12, <1>13, <1>14, <1>15, <1>16, <1>17 DEF Next, Ticking

-----------------------------------------------------------------------------
(***************************************************************************)
(* No entry of a spike log lost.                                           *)
(***************************************************************************)
LogOf(g) ==
  /\ \A t \in 0 .. time - 1 : \E i \in DOMAIN log[g] : log[g][i] = t
  /\ Logged(g) => \E i \in DOMAIN log[g] : log[g][i] = time
  /\ \A i \in DOMAIN log[g] : log[g][i] <= time
  /\ \A i, j \in DOMAIN log[g] : i < j => log[g][i] <= log[g][j]
  /\ Len(log[g]) <= time + fails + (IF Logged(g) THEN 1 ELSE 0)

\* The logs stay; a group whose entry of this tick does not count is repeated.
LEMMA LogsStay ==
  ASSUME TypeOK, Logs, log' = log, time' = time, fails' \in Nat, fails' >= fails,
         \A g \in Groups : Logged(g)' => Logged(g),
         \A g \in Groups : Logged(g) /\ ~Logged(g)' => fails' >= fails + 1
  PROVE  Logs'
<1> SUFFICES ASSUME NEW g \in Groups PROVE LogOf(g)'
  BY DEF Logs, LogOf
<1>1. LogOf(g)
  BY DEF Logs, LogOf
<1>2. Len(log[g]) \in Nat /\ time \in Nat /\ fails \in Nat
  BY Bounds, LenProperties DEF TypeOK
<1> HIDE DEF Logged
<1>3. PICK n \in Nat : n = Len(log[g])
  BY <1>2
<1>4. (Logged(g) => n <= time + fails + 1) /\ (~Logged(g) => n <= time + fails)
  BY <1>1, <1>2, <1>3 DEF LogOf
<1>5. fails' \in Nat /\ fails' >= fails /\ (Logged(g)' => Logged(g))
      /\ (Logged(g) /\ ~Logged(g)' => fails' >= fails + 1)
  OBVIOUS
<1>6. n <= time + fails' + (IF Logged(g)' THEN 1 ELSE 0)
  BY <1>2, <1>3, <1>4, <1>5
<1> QED
  BY <1>1, <1>3, <1>5, <1>6 DEF LogOf

LEMMA LogsStep == TypeOK /\ Stands /\ Owned /\ Logs /\ [Next]_vars => Logs'
<1> SUFFICES ASSUME TypeOK, Stands, Owned, Logs, [Next]_vars PROVE Logs'
  OBVIOUS
<1> DEFINE Stays ==
      /\ log' = log /\ time' = time /\ fails' \in Nat /\ fails' >= fails
      /\ \A g \in Groups : Logged(g)' => Logged(g)
      /\ \A g \in Groups : Logged(g) /\ ~Logged(g)' => fails' >= fails + 1
<1>1. ASSUME Stays PROVE Logs'
  BY <1>1, LogsStay
<1> USE Bounds, GroupFacts DEF Logged, spikes, episode
<1>2. ASSUME NEW n \in Nat, NEW d \in BOOLEAN, Run(n, d) \/ RunContinuous(d) PROVE Stays
  BY <1>2 DEF Run, RunContinuous, Stands
<1>3. ASSUME NEW c \in Cmds, Issue(c) \/ HandlerCommand(c) PROVE Stays
  BY <1>3 DEF Issue, HandlerCommand
<1>4. ASSUME Stop \/ LoopGone \/ Return \/ Refused \/ LoopCheck \/ Drained \/ Execute \/ Swap \/ ApplyOnHost
      PROVE  Stays
  BY <1>4 DEF Stop, LoopGone, Return, Refused, LoopCheck, Drained, Execute, Swap, ApplyOnHost
<1>5. ASSUME StopJoined PROVE Stays
  <2>1. fails' \in Nat /\ fails' >= fails
    BY <1>5, Synced, DeviceAssumption DEF StopJoined
  <2> QED
    BY <1>5, <2>1 DEF StopJoined
<1>6. ASSUME HandlerStop PROVE Stays
  <2>1. fails' \in Nat /\ fails' >= fails
    BY <1>6, Synced, DeviceAssumption DEF HandlerStop
  <2> QED
    BY <1>6, <2>1 DEF HandlerStop
<1>7. ASSUME HandBack PROVE Stays
  <2>1. fails' \in Nat /\ fails' >= fails
    BY <1>7, Synced, DeviceAssumption DEF HandBack
  <2> QED
    BY <1>7, <2>1 DEF HandBack
<1>8. ASSUME ApplyOnDevice PROVE Stays
  <2>1. fails' \in Nat /\ fails' >= fails
    BY <1>8, AppliedOnDevice, DeviceAssumption
  <2> QED
    BY <1>8, <2>1 DEF ApplyOnDevice
<1>9. ASSUME LifStep PROVE Stays
  BY <1>9 DEF LifStep, NextGroup
<1>10. ASSUME StdpStep PROVE Stays
  <2>1. grp = 1
    BY <1>10 DEF StdpStep, Stands
  <2> QED
    BY <1>10, <2>1 DEF StdpStep, Groups
<1>11. ASSUME HandlersDone PROVE Stays
  <2>1. CASE grp < NG
    BY <1>11, <2>1, SMTT(30) DEF HandlersDone, NextGroup, Groups, TypeOK
  <2>2. CASE ~(grp < NG)
    BY <1>11, <2>2, SMTT(30) DEF HandlersDone, NextGroup, Groups, TypeOK
  <2> QED
    BY <2>1, <2>2
<1>12. ASSUME DeviceLost PROVE Stays
  BY <1>12 DEF DeviceLost
<1>13. ASSUME UNCHANGED vars PROVE Stays
  BY <1>13 DEF vars
<1>14. CASE LogSpikes
  <2>1. /\ pc = "spikes" /\ pc' = "handlers" /\ log' = [log EXCEPT ![grp] = Append(@, time)]
        /\ UNCHANGED <<grp, time, fails>>
    BY <1>14 DEF LogSpikes
  <2> SUFFICES ASSUME NEW g \in Groups PROVE LogOf(g)'
    BY DEF Logs, LogOf
  <2>2. LogOf(g) /\ log[g] \in Seq(Nat) /\ grp \in Groups /\ g \in Nat
    BY DEF Logs, LogOf, TypeOK
  <2>3. CASE g # grp
    <3>1. log'[g] = log[g] /\ (Logged(g)' <=> Logged(g))
      BY <2>1, <2>2, <2>3, SMTT(30) DEF TypeOK
    <3> QED
      BY <2>1, <2>2, <3>1 DEF LogOf
  <2>4. CASE g = grp
    <3> DEFINE s == log[g]
               t == log'[g]
    <3>1. s \in Seq(Nat) /\ t = Append(s, time) /\ time \in Nat
      BY <2>1, <2>2, <2>4 DEF TypeOK
    <3>2. ~Logged(g) /\ Logged(g)'
      BY <2>1, <2>2, <2>4
    <3>3. /\ \A k \in 0 .. time - 1 : \E i \in DOMAIN s : s[i] = k
          /\ \A i \in DOMAIN s : s[i] <= time
          /\ \A i, j \in DOMAIN s : i < j => s[i] <= s[j]
          /\ Len(s) <= time + fails
      BY <2>2, <3>1, <3>2, LenProperties DEF LogOf
    <3> HIDE DEF s, t
    <3>4. /\ \A i, c : i \in DOMAIN t /\ t[i] = c <=> (i \in DOMAIN s /\ s[i] = c) \/ (i = Len(s) + 1 /\ time = c)
          /\ Len(t) = Len(s) + 1 /\ Len(s) \in Nat /\ DOMAIN s = 1 .. Len(s)
      BY <3>1, Appended, AppendProperties, LenProperties
    <3>5. \A k \in 0 .. time - 1 : \E i \in DOMAIN t : t[i] = k
      BY <3>3, <3>4
    <3>6. \E i \in DOMAIN t : t[i] = time
      <4>1. PICK i : i = Len(s) + 1
        OBVIOUS
      <4> QED
        BY <3>4, <4>1
    <3>7. \A i \in DOMAIN t : (i \in DOMAIN s /\ t[i] = s[i]) \/ (i = Len(s) + 1 /\ t[i] = time)
      BY <3>4
    <3>8. \A i \in DOMAIN t : t[i] <= time
      BY <3>7, <3>1, <3>3
    <3>9. ASSUME NEW i \in DOMAIN t, NEW j \in DOMAIN t, i < j PROVE t[i] <= t[j]
      <4>1. i \in DOMAIN s /\ t[i] = s[i]
        BY <3>7, <3>4, <3>9
      <4>2. CASE j \in DOMAIN s
        <5>1. t[j] = s[j]
          BY <3>7, <3>4, <4>2
        <5> QED
          BY <3>3, <3>9, <4>1, <4>2, <5>1
      <4>3. CASE j \notin DOMAIN s
        <5>1. t[j] = time
          BY <3>7, <4>3
        <5> QED
          BY <3>3, <4>1, <5>1
      <4> QED
        BY <4>2, <4>3
    <3>10. Len(t) <= time + fails + 1
      BY <3>1, <3>3, <3>4
    <3> QED
      BY <2>1, <3>2, <3>5, <3>6, <3>8, <3>9, <3>10 DEF LogOf, t
  <2> QED
    BY <2>3, <2>4
<1>15. CASE EndTick
  <2>1. pc = "clock" /\ time' = time + 1 /\ UNCHANGED <<log, fails>> /\ pc' \notin {"spikes", "handlers", "undefined", "blocked", "clock"}
    BY <1>15 DEF EndTick
  <2> SUFFICES ASSUME NEW g \in Groups PROVE LogOf(g)'
    BY DEF Logs, LogOf
  <2>2. LogOf(g) /\ log[g] \in Seq(Nat) /\ Logged(g) /\ ~Logged(g)'
    BY <2>1 DEF Logs, LogOf, TypeOK
  <2> DEFINE s == log[g]
  <2>3. /\ s \in Seq(Nat) /\ s' = s
        /\ \A k \in 0 .. time - 1 : \E i \in DOMAIN s : s[i] = k
        /\ \E i \in DOMAIN s : s[i] = time
        /\ \A i \in DOMAIN s : s[i] <= time
        /\ \A i, j \in DOMAIN s : i < j => s[i] <= s[j]
        /\ Len(s) <= time + fails + 1
    BY <2>1, <2>2 DEF LogOf
  <2> HIDE DEF s
  <2>4. \A k \in 0 .. time' - 1 : \E i \in DOMAIN s : s[i] = k
    <3> SUFFICES ASSUME NEW k \in 0 .. time' - 1 PROVE \E i \in DOMAIN s : s[i] = k
      OBVIOUS
    <3>1. k \in 0 .. time - 1 \/ k = time
      BY <2>1
    <3> QED
      BY <2>3, <3>1
  <2>5. \A i \in DOMAIN s : s[i] \in Nat /\ s[i] <= time'
    BY <2>1, <2>3, Element, SMTT(30)
  <2>6. Len(s) <= time' + fails' + 0
    BY <2>1, <2>3, LenProperties
  <2> QED
    BY <2>1, <2>2, <2>3, <2>4, <2>5, <2>6 DEF LogOf, s
<1> HIDE DEF Stays
<1>16. CASE Stop \/ LoopGone \/ Return \/ Refused \/ LoopCheck \/ Drained \/ Execute \/ Swap \/ ApplyOnHost
  BY <1>1, <1>4, <1>16
<1>17. CASE StopJoined \/ HandlerStop \/ HandBack \/ ApplyOnDevice \/ LifStep \/ StdpStep \/ HandlersDone \/ DeviceLost
            \/ UNCHANGED vars
  BY <1>1, <1>5, <1>6, <1>7, <1>8, <1>9, <1>10, <1>11, <1>12, <1>13, <1>17
<1> QED
  BY <1>1, <1>2, <1>3, <1>14, <1>15, <1>16, <1>17 DEF Next, Ticking

-----------------------------------------------------------------------------
(***************************************************************************)
(* Without a failure, nothing is lost between the memories.                *)
(***************************************************************************)
LEMMA ElementsAppend ==
  ASSUME NEW S, NEW s \in Seq(S), NEW x \in S
  PROVE  Elements(Append(s, x)) = Elements(s) \cup {x}
<1> DEFINE t == Append(s, x)
<1>1. \A i, c : i \in DOMAIN t /\ t[i] = c <=> (i \in DOMAIN s /\ s[i] = c) \/ (i = Len(s) + 1 /\ x = c)
  BY Appended
<1> HIDE DEF t
<1>2. x \in Elements(t)
  <2>1. PICK i : i = Len(s) + 1
    OBVIOUS
  <2> QED
    BY <1>1, <2>1 DEF Elements
<1>3. \A c : c \in Elements(t) => c \in Elements(s) \/ c = x
  BY <1>1 DEF Elements
<1>4. \A c : c \in Elements(s) => c \in Elements(t)
  BY <1>1 DEF Elements
<1>5. Elements(t) = Elements(s) \cup {x}
  BY <1>2, <1>3, <1>4
<1> QED
  BY <1>5 DEF t

LEMMA ElementsTail ==
  ASSUME NEW S, NEW s \in Seq(S), s # <<>>
  PROVE  Elements(s) = {Head(s)} \cup Elements(Tail(s))
<1> DEFINE t == Tail(s)
           x == Head(s)
<1>1. /\ 1 \in DOMAIN s /\ s[1] = x
      /\ \A i, c : i \in DOMAIN t /\ t[i] = c <=> i \in Nat /\ i # 0 /\ i + 1 \in DOMAIN s /\ s[i + 1] = c
  BY Tailed
<1>2. \A i \in DOMAIN s : i = 1 \/ (i - 1 \in Nat /\ i - 1 # 0 /\ (i - 1) + 1 = i)
  BY LenProperties
<1> HIDE DEF t, x
<1>3. x \in Elements(s)
  BY <1>1 DEF Elements
<1>4. ASSUME NEW c, c \in Elements(t) PROVE c \in Elements(s)
  <2>1. PICK i \in DOMAIN t : t[i] = c
    BY <1>4 DEF Elements
  <2>2. i + 1 \in DOMAIN s /\ s[i + 1] = c
    BY <1>1, <2>1
  <2> QED
    BY <2>2 DEF Elements
<1>5. ASSUME NEW c, c \in Elements(s), c # x PROVE c \in Elements(t)
  <2>1. PICK i \in DOMAIN s : s[i] = c
    BY <1>5 DEF Elements
  <2>2. PICK j : j = i - 1
    OBVIOUS
  <2>3. j \in Nat /\ j # 0 /\ j + 1 = i
    BY <1>1, <1>2, <1>5, <2>1, <2>2
  <2>4. j \in DOMAIN t /\ t[j] = c
    BY <1>1, <2>1, <2>3
  <2> QED
    BY <2>4 DEF Elements
<1>6. Elements(s) = {x} \cup Elements(t)
  BY <1>3, <1>4, <1>5
<1> QED
  BY <1>6 DEF t, x

LEMMA ElementsEmpty == Elements(<<>>) = {}
  BY DEF Elements

\* A step that moves or keeps the state of the owner.
LEMMA UpToDateStay ==
  ASSUME UpToDate,
         fails' = 0 => fails = 0 /\ State'.v = State.v /\ State'.w.stdp = State.w.stdp
                       /\ State'.w.done = State.w.done,
         UNCHANGED <<prog, prev, time, commands>>,
         \A g \in Groups : (Stepped(g)' <=> Stepped(g)) /\ (Mirrored(g)' <=> Mirrored(g)),
         Learnt' <=> Learnt
  PROVE  UpToDate'
<1> SUFFICES ASSUME fails' = 0
             PROVE  /\ \A g \in Groups : State'.v[g] = Plus(time, Stepped(g)') /\ prev[g] = Plus(time, Mirrored(g)')
                    /\ State'.w.stdp = Plus(time, Learnt')
                    /\ prog # "command" => issued = Elements(State'.w.done) \cup Elements(batch) \cup Elements(queue)
  BY DEF UpToDate, commands, Plus, Elements
<1>1. /\ \A g \in Groups : State.v[g] = Plus(time, Stepped(g)) /\ prev[g] = Plus(time, Mirrored(g))
      /\ State.w.stdp = Plus(time, Learnt)
      /\ prog # "command" => issued = Elements(State.w.done) \cup Elements(batch) \cup Elements(queue)
  BY DEF UpToDate
<1>2. State'.v = State.v /\ State'.w.stdp = State.w.stdp /\ State'.w.done = State.w.done
  OBVIOUS
<1> HIDE DEF State, Stepped, Mirrored, Learnt
<1> QED
  BY <1>1, <1>2 DEF Plus

LEMMA UpToDateStep == TypeOK /\ Stands /\ Owned /\ UpToDate /\ [Next]_vars => UpToDate'
<1> SUFFICES ASSUME TypeOK, Stands, Owned, UpToDate, [Next]_vars PROVE UpToDate'
  OBVIOUS
<1> DEFINE Kept == fails' = 0 => fails = 0 /\ State'.v = State.v /\ State'.w.stdp = State.w.stdp
                                 /\ State'.w.done = State.w.done
           Flags == /\ \A g \in Groups : (Stepped(g)' <=> Stepped(g)) /\ (Mirrored(g)' <=> Mirrored(g))
                    /\ Learnt' <=> Learnt
           Still == UNCHANGED <<prog, prev, time, commands>>
           Stays == Kept /\ Flags /\ Still
<1>1. ASSUME Stays PROVE UpToDate'
  BY <1>1, UpToDateStay
<1>2. fails = 0 =>
        /\ \A g \in Groups : State.v[g] = Plus(time, Stepped(g)) /\ prev[g] = Plus(time, Mirrored(g))
        /\ State.w.stdp = Plus(time, Learnt)
        /\ prog # "command" => issued = Elements(State.w.done) \cup Elements(batch) \cup Elements(queue)
  BY DEF UpToDate
<1> USE Bounds, GroupFacts DEF Stepped, Mirrored, Learnt, Late, spikes, episode, memory
\* Calls of main, and what moves the state between the memories.
<1>3. ASSUME NEW n \in Nat, NEW d \in BOOLEAN, Run(n, d) \/ RunContinuous(d) PROVE Stays
  BY <1>3 DEF Run, RunContinuous, Stands, State
<1>4. ASSUME Stop \/ LoopGone \/ Return \/ Refused \/ LoopCheck \/ Drained PROVE Stays
  <2>1. Still /\ UNCHANGED <<host, dev, attached, fails>>
    BY <1>4 DEF Stop, LoopGone, Return, Refused, LoopCheck, Drained, commands
  <2>2. Kept
    BY <2>1 DEF State
  <2>3. Flags
    <3>1. CASE Stop \/ LoopGone \/ Return
      BY <3>1 DEF Stop, LoopGone, Return
    <3>2. CASE Refused \/ LoopCheck
      BY <3>2 DEF Refused, LoopCheck
    <3>3. CASE Drained
      <4>1. grp = 1 /\ \A g \in Groups : ~(g < 1)
        BY <3>3 DEF Drained, Stands, Groups
      <4> QED
        BY <3>3, <4>1 DEF Drained
    <3> QED
      BY <1>4, <3>1, <3>2, <3>3
  <2> QED
    BY <2>1, <2>2, <2>3
<1>5. ASSUME StopJoined PROVE Stays
  <2>1. Kept
    BY <1>5, Synced DEF StopJoined, State, Release
  <2>2. Flags /\ Still
    BY <1>5 DEF StopJoined
  <2> QED
    BY <2>1, <2>2
<1>6. ASSUME HandlerStop PROVE Stays
  <2>1. Kept
    BY <1>6, Synced DEF HandlerStop, State, Release
  <2>2. Flags /\ Still
    BY <1>6 DEF HandlerStop
  <2> QED
    BY <2>1, <2>2
<1>7. ASSUME HandBack PROVE Stays
  <2>1. Kept
    BY <1>7, Synced DEF HandBack, State, Release, Owned
  <2>2. Flags /\ Still
    BY <1>7 DEF HandBack
  <2> QED
    BY <2>1, <2>2
<1>8. ASSUME Execute PROVE Stays
  <2>1. Kept
    BY <1>8 DEF Execute, State
  <2>2. Flags /\ Still
    BY <1>8 DEF Execute
  <2> QED
    BY <2>1, <2>2
<1>9. ASSUME LogSpikes PROVE Stays
  <2>1. Kept
    BY <1>9 DEF LogSpikes, State
  <2>2. Flags /\ Still
    BY <1>9 DEF LogSpikes
  <2> QED
    BY <2>1, <2>2
<1>10. ASSUME UNCHANGED vars PROVE Stays
  BY <1>10 DEF vars, State, commands
<1>11. CASE DeviceLost
  BY <1>11, Lost DEF UpToDate
\* Commands.
<1>12. ASSUME NEW c \in Cmds, Issue(c) \/ HandlerCommand(c) PROVE UpToDate'
  <2>1. /\ issued' = issued \cup {c} /\ UNCHANGED <<prog, grp, onDev, dev, attached, prev, time, batch, fails>>
        /\ pc' = pc \/ (pc = "handlers" /\ pc' = "blocked")
        /\ \/ queue' = Append(queue, c) /\ host' = host
           \/ queue' = queue /\ host' = Command(host, c)
           \/ prog = "command" /\ queue' = queue /\ host' = host
    BY <1>12 DEF Issue, HandlerCommand
  <2>2. /\ Command(host, c).v = host.v /\ Command(host, c).w.stdp = host.w.stdp
        /\ Command(host, c).w.done = Append(host.w.done, c)
    BY CommandFields DEF TypeOK
  <2>3. State'.v = State.v /\ State'.w.stdp = State.w.stdp
    BY <2>1, <2>2 DEF State
  <2>4. prog # "command" /\ fails = 0
          => issued' = Elements(State'.w.done) \cup Elements(batch) \cup Elements(queue')
    <3> SUFFICES ASSUME prog # "command", fails = 0
                 PROVE  issued' = Elements(State'.w.done) \cup Elements(batch) \cup Elements(queue')
      OBVIOUS
    <3>1. issued = Elements(State.w.done) \cup Elements(batch) \cup Elements(queue)
      BY <1>2
    <3>2. CASE queue' = Append(queue, c) /\ host' = host
      <4>1. State' = State
        BY <2>1, <3>2 DEF State
      <4>2. Elements(queue') = Elements(queue) \cup {c}
        BY <3>2, ElementsAppend DEF TypeOK
      <4> QED
        BY <2>1, <3>1, <4>1, <4>2
    <3>3. CASE queue' = queue /\ host' = Command(host, c)
      <4>1. ~attached
        <5>1. Issue(c) /\ (mode = "idle" \/ queue' = Append(queue, c))
          BY <1>12 DEF Issue, HandlerCommand
        <5>2. queue' # Append(queue, c)
          BY <3>3, AppendProperties, LenProperties DEF TypeOK
        <5> QED
          BY <5>1, <5>2 DEF Stands, Owned
      <4>2. State = host /\ State' = host'
        BY <2>1, <4>1 DEF State
      <4>3. Elements(Append(host.w.done, c)) = Elements(host.w.done) \cup {c}
        BY Sequences, ElementsAppend
      <4> QED
        BY <2>1, <2>2, <3>1, <3>3, <4>2, <4>3
    <3> QED
      BY <2>1, <3>2, <3>3
  <2> HIDE DEF State, Stepped, Mirrored, Learnt
  <2>5. \A g \in Groups : (Stepped(g)' <=> Stepped(g)) /\ (Mirrored(g)' <=> Mirrored(g))
    BY <2>1 DEF Stepped, Mirrored
  <2>6. Learnt' <=> Learnt
    BY <2>1 DEF Learnt
  <2> QED
    BY <1>2, <2>1, <2>3, <2>4, <2>5, <2>6 DEF UpToDate, Plus, Elements
<1>13. CASE Swap
  <2>1. batch = <<>> /\ batch' = queue /\ queue' = <<>> /\ State' = State
        /\ UNCHANGED <<prog, prev, time, issued, fails>>
    BY <1>13 DEF Swap, Stands, State
  <2>2. Flags
    BY <1>13 DEF Swap
  <2>3. prog # "command" /\ fails = 0
          => issued = Elements(State.w.done) \cup Elements(batch') \cup Elements(queue')
    BY <1>2, <2>1, ElementsEmpty
  <2> HIDE DEF State, Stepped, Mirrored, Learnt
  <2> QED
    BY <1>2, <2>1, <2>2, <2>3 DEF UpToDate, Plus, Elements
<1>14. ASSUME ApplyOnHost \/ ApplyOnDevice PROVE UpToDate'
  <2> DEFINE h == Head(batch)
  <2>1. /\ batch # <<>> /\ batch' = Tail(batch) /\ UNCHANGED <<prog, pc, grp, onDev, attached, prev, time, queue, issued>>
        /\ h \in Cmds
    BY <1>14, HeadTailProperties DEF ApplyOnHost, ApplyOnDevice, TypeOK
  <2>2. fails' = 0 => fails = 0 /\ State'.v = State.v /\ State'.w.stdp = State.w.stdp
                      /\ State'.w.done = Append(State.w.done, h)
    <3>1. CASE ApplyOnHost
      <4>1. host' = Command(host, h) /\ ~attached /\ UNCHANGED <<attached, fails>>
        BY <3>1 DEF ApplyOnHost
      <4>2. /\ Command(host, h).v = host.v /\ Command(host, h).w.stdp = host.w.stdp
            /\ Command(host, h).w.done = Append(host.w.done, h)
        BY <2>1, CommandFields DEF TypeOK
      <4> QED
        BY <4>1, <4>2 DEF State
    <3>2. CASE ApplyOnDevice
      <4>1. attached /\ attached'
        BY <3>2 DEF ApplyOnDevice
      <4>2. dev'.v = dev.v /\ fails' >= fails
            /\ (fails' = 0 => dev'.w.stdp = dev.w.stdp /\ dev'.w.done = Append(dev.w.done, h))
        BY <3>2, AppliedOnDevice
      <4>3. fails' = 0 => fails = 0
        BY <4>2
      <4> QED
        BY <4>1, <4>2, <4>3 DEF State
    <3> QED
      BY <1>14, <3>1, <3>2
  <2>3. State.w.done \in Seq(Cmds)
    BY Sequences DEF State
  <2>4. Elements(batch) = {h} \cup Elements(Tail(batch))
    BY <2>1, ElementsTail, Sequences
  <2>5. Elements(Append(State.w.done, h)) = Elements(State.w.done) \cup {h}
    BY <2>1, <2>3, ElementsAppend
  <2> HIDE DEF State, Stepped, Mirrored, Learnt, h
  <2>6. fails' = 0 /\ prog # "command"
          => issued = Elements(State'.w.done) \cup Elements(batch') \cup Elements(queue)
    BY <1>2, <2>1, <2>2, <2>4, <2>5
  <2>7. \A g \in Groups : (Stepped(g)' <=> Stepped(g)) /\ (Mirrored(g)' <=> Mirrored(g))
    BY <2>1 DEF Stepped, Mirrored
  <2>8. Learnt' <=> Learnt
    BY <2>1 DEF Learnt
  <2> SUFFICES ASSUME fails' = 0
               PROVE  /\ \A g \in Groups : State'.v[g] = Plus(time, Stepped(g)') /\ prev[g] = Plus(time, Mirrored(g)')
                      /\ State'.w.stdp = Plus(time, Learnt')
                      /\ prog # "command" => issued = Elements(State'.w.done) \cup Elements(batch') \cup Elements(queue)
    BY <2>1 DEF UpToDate, Plus, Elements
  <2>9. /\ \A g \in Groups : State'.v[g] = Plus(time, Stepped(g)') /\ prev[g] = Plus(time, Mirrored(g)')
        /\ State'.w.stdp = Plus(time, Learnt')
    BY <1>2, <2>2, <2>7, <2>8 DEF Plus
  <2> QED
    BY <2>6, <2>9
\* The phases of a tick.
<1>15. CASE LifStep
  <2>1. /\ pc = "lif" /\ UNCHANGED <<prog, prev, time, queue, batch, issued, fails, onDev, attached>>
        /\ (onDev <=> attached)
        /\ IF onDev THEN dev' = [dev EXCEPT !.v[grp] = @ + 1] /\ UNCHANGED host
                    ELSE host' = [host EXCEPT !.v[grp] = @ + 1] /\ UNCHANGED dev
    BY <1>15 DEF LifStep, Owned, Body, commands, TypeOK
  <2>2. State' = [State EXCEPT !.v[grp] = @ + 1] /\ State \in Memory /\ grp \in Groups
    BY <2>1 DEF State, TypeOK
  <2>3. /\ State'.w = State.w
        /\ \A g \in Groups : State'.v[g] = IF g = grp THEN State.v[g] + 1 ELSE State.v[g]
    BY <2>2, LifStepped
  <2>4. \A g \in Groups : Stepped(g)' <=> g <= grp
    BY <1>15 DEF LifStep, NextGroup, Groups
  <2>5. \A g \in Groups : Stepped(g) <=> g < grp
    BY <2>1
  <2>6. ~Learnt /\ ~Learnt' /\ \A g \in Groups : ~Mirrored(g) /\ ~Mirrored(g)'
    BY <1>15 DEF LifStep, NextGroup
  <2> HIDE DEF State, Stepped, Mirrored, Learnt
  <2> SUFFICES ASSUME fails = 0
               PROVE  /\ \A g \in Groups : State'.v[g] = Plus(time, Stepped(g)') /\ prev[g] = Plus(time, Mirrored(g)')
                      /\ State'.w.stdp = Plus(time, Learnt')
                      /\ prog # "command" => issued = Elements(State'.w.done) \cup Elements(batch) \cup Elements(queue)
    BY <2>1 DEF UpToDate, Plus, Elements
  <2>7. ASSUME NEW g \in Groups PROVE State'.v[g] = Plus(time, Stepped(g)')
    <3>1. State.v[g] = IF g < grp THEN time + 1 ELSE time
      BY <1>2, <2>5 DEF Plus
    <3>2. g = grp \/ g < grp \/ ~(g <= grp)
      BY <2>2
    <3> QED
      BY <2>3, <2>4, <3>1, <3>2 DEF Plus
  <2> QED
    BY <1>2, <2>3, <2>6, <2>7 DEF Plus
<1>16. CASE StdpStep
  <2>1. /\ pc = "stdp" /\ pc' = "spikes" /\ grp = 1 /\ grp' = 1
        /\ UNCHANGED <<prog, prev, time, queue, batch, issued, fails, onDev, attached>>
        /\ (onDev <=> attached)
        /\ IF onDev THEN dev' = [dev EXCEPT !.w.stdp = @ + 1] /\ UNCHANGED host
                    ELSE host' = [host EXCEPT !.w.stdp = @ + 1] /\ UNCHANGED dev
    BY <1>16 DEF StdpStep, Stands, Owned, Body, commands, TypeOK
  <2>2. State' = [State EXCEPT !.w.stdp = @ + 1] /\ State \in Memory
    BY <2>1 DEF State, TypeOK
  <2>3. State'.v = State.v /\ State'.w.done = State.w.done /\ State'.w.stdp = State.w.stdp + 1
    BY <2>2, StdpStepped
  <2>4. Learnt' /\ ~Learnt /\ \A g \in Groups : Stepped(g) /\ Stepped(g)' /\ ~Mirrored(g) /\ ~Mirrored(g)'
    BY <2>1 DEF Groups
  <2> HIDE DEF State, Stepped, Mirrored, Learnt
  <2> SUFFICES ASSUME fails = 0
               PROVE  /\ \A g \in Groups : State'.v[g] = Plus(time, Stepped(g)') /\ prev[g] = Plus(time, Mirrored(g)')
                      /\ State'.w.stdp = Plus(time, Learnt')
                      /\ prog # "command" => issued = Elements(State'.w.done) \cup Elements(batch) \cup Elements(queue)
    BY <2>1 DEF UpToDate, Plus, Elements
  <2> QED
    BY <1>2, <2>3, <2>4 DEF Plus
<1>17. CASE HandlersDone
  <2>1. CASE onDev /\ ~attached
    <3>1. Kept
      BY <1>17 DEF HandlersDone, State
    <3>2. Flags /\ Still
      BY <1>17, <2>1 DEF HandlersDone
    <3> QED
      BY <1>1, <3>1, <3>2
  <2>2. CASE ~(onDev /\ ~attached)
    <3>1. /\ pc = "handlers" /\ prev' = IF onDev THEN [prev EXCEPT ![grp] = time + 1] ELSE prev
          /\ State' = State /\ UNCHANGED <<prog, time, queue, batch, issued, fails, onDev>>
          /\ \/ grp = NG /\ grp' = 1 /\ pc' = "clock"
             \/ grp # NG /\ grp' = grp + 1 /\ pc' = "spikes"
      BY <1>17, <2>2 DEF HandlersDone, NextGroup, State, commands
    <3>2. Learnt' /\ Learnt /\ \A g \in Groups : Stepped(g) /\ Stepped(g)'
      BY <3>1
    <3>3. \A g \in Groups : (Mirrored(g) <=> onDev /\ g < grp) /\ (Mirrored(g)' <=> onDev /\ g <= grp)
      BY <3>1 DEF Groups
    <3>4. \A g \in Groups : prev'[g] = IF onDev /\ g = grp THEN time + 1 ELSE prev[g]
      BY <3>1 DEF TypeOK
    <3> HIDE DEF State, Stepped, Mirrored, Learnt
    <3> SUFFICES ASSUME fails = 0
                 PROVE  /\ \A g \in Groups : State.v[g] = Plus(time, Stepped(g)') /\ prev'[g] = Plus(time, Mirrored(g)')
                        /\ State.w.stdp = Plus(time, Learnt')
                        /\ prog # "command" => issued = Elements(State.w.done) \cup Elements(batch) \cup Elements(queue)
      BY <3>1 DEF UpToDate, Plus, Elements
    <3>5. ASSUME NEW g \in Groups PROVE prev'[g] = Plus(time, Mirrored(g)')
      <4>1. prev[g] = IF onDev /\ g < grp THEN time + 1 ELSE time
        BY <1>2, <3>3 DEF Plus
      <4>2. g = grp \/ g < grp \/ ~(g <= grp)
        OBVIOUS
      <4> QED
        BY <3>3, <3>4, <4>1, <4>2 DEF Plus
    <3> QED
      BY <1>2, <3>2, <3>5 DEF Plus
  <2> QED
    BY <2>1, <2>2
<1>18. CASE EndTick
  <2>1. /\ pc = "clock" /\ pc' \in {"check", "swap", "handback", "return"} /\ time' = time + 1
        /\ prev' = IF onDev THEN prev ELSE [g \in Groups |-> time + 1]
        /\ State' = State /\ UNCHANGED <<prog, queue, batch, issued, fails, onDev>>
    BY <1>18 DEF EndTick, State, commands
  <2>2. /\ Learnt /\ ~Learnt'
        /\ \A g \in Groups : Stepped(g) /\ ~Stepped(g)' /\ (Mirrored(g) <=> onDev) /\ ~Mirrored(g)'
    BY <2>1
  <2> HIDE DEF State, Stepped, Mirrored, Learnt
  <2> SUFFICES ASSUME fails = 0
               PROVE  /\ \A g \in Groups : State.v[g] = Plus(time + 1, Stepped(g)') /\ prev'[g] = Plus(time + 1, Mirrored(g)')
                      /\ State.w.stdp = Plus(time + 1, Learnt')
                      /\ prog # "command" => issued = Elements(State.w.done) \cup Elements(batch) \cup Elements(queue)
    BY <2>1 DEF UpToDate, Plus, Elements
  <2> QED
    BY <1>2, <2>1, <2>2 DEF Plus
<1> HIDE DEF Stays
<1>19. CASE Stop \/ LoopGone \/ Return \/ Refused \/ LoopCheck \/ Drained
  BY <1>1, <1>4, <1>19
<1>20. CASE StopJoined \/ HandlerStop \/ HandBack \/ Execute \/ LogSpikes \/ UNCHANGED vars
  BY <1>1, <1>5, <1>6, <1>7, <1>8, <1>9, <1>10, <1>20
<1> QED
  BY <1>1, <1>3, <1>11, <1>12, <1>13, <1>14, <1>15, <1>16, <1>17, <1>18, <1>19, <1>20 DEF Next, Ticking

-----------------------------------------------------------------------------
(***************************************************************************)
(* With failures, no memory in use runs ahead by more than their number.   *)
(***************************************************************************)
LEMMA StillWithin ==
  ASSUME NEW a \in Nat, NEW t \in Nat, NEW f \in Nat, NEW e \in Nat, NEW b \in BOOLEAN, NEW c \in BOOLEAN,
         a <= Plus(t, b) + f, e >= f, b => c \/ e > f
  PROVE  a <= Plus(t, c) + e
  BY DEF Plus

\* A step that moves whole memories, or parts of them, between host and device.
Moves ==
  /\ time' = time /\ fails' >= fails
  /\ \A g \in Groups : Stepped(g) => Stepped(g)' \/ fails' > fails
  /\ Learnt => Learnt' \/ fails' > fails
  /\ \A g \in Groups : host'.v[g] = host.v[g] \/ (attached /\ host'.v[g] = dev.v[g])
  /\ host'.w.stdp = host.w.stdp \/ (attached /\ host'.w.stdp = dev.w.stdp)
  /\ attached' =>
       /\ \A g \in Groups : dev'.v[g] = host.v[g] \/ (attached /\ dev'.v[g] = dev.v[g])
       /\ dev'.w.stdp = host.w.stdp \/ (attached /\ dev'.w.stdp = dev.w.stdp)

LEMMA Counts ==
  ASSUME TypeOK
  PROVE  /\ \A g \in Groups : host.v[g] \in Nat /\ dev.v[g] \in Nat /\ Stepped(g) \in BOOLEAN
         /\ host.w.stdp \in Nat /\ dev.w.stdp \in Nat /\ Learnt \in BOOLEAN
<1>1. host \in Memory /\ dev \in Memory
  BY DEF TypeOK
<1> QED
  <2>1. host.v \in [Groups -> Nat] /\ dev.v \in [Groups -> Nat] /\ host.w.stdp \in Nat /\ dev.w.stdp \in Nat
    BY <1>1, MemoryFields
  <2> QED
    BY <2>1 DEF Stepped, Learnt

LEMMA BoundedStay == ASSUME TypeOK, TypeOK', Bounded, Moves PROVE Bounded'
<1>1. fails \in Nat /\ fails' \in Nat /\ time \in Nat
  BY DeviceAssumption DEF TypeOK
<1>2. /\ \A g \in Groups : Stepped(g) \in BOOLEAN /\ Stepped(g)' \in BOOLEAN
      /\ Learnt \in BOOLEAN /\ Learnt' \in BOOLEAN
  BY DEF Stepped, Learnt
<1>3. ASSUME NEW g \in Groups, NEW a \in Nat, a <= Plus(time, Stepped(g)) + fails
      PROVE  a <= Plus(time, Stepped(g)') + fails'
  <2> PICK b \in BOOLEAN : b = Stepped(g)
    BY <1>2
  <2> PICK c \in BOOLEAN : c = Stepped(g)'
    BY <1>2
  <2>1. b => c \/ fails' > fails
    BY DEF Moves
  <2>2. fails' >= fails
    BY DEF Moves
  <2> QED
    BY <1>1, <1>3, <2>1, <2>2, StillWithin
<1>4. ASSUME NEW a \in Nat, a <= Plus(time, Learnt) + fails PROVE a <= Plus(time, Learnt') + fails'
  <2> PICK b \in BOOLEAN : b = Learnt
    BY <1>2
  <2> PICK c \in BOOLEAN : c = Learnt'
    BY <1>2
  <2>1. (b => c \/ fails' > fails) /\ fails' >= fails
    BY DEF Moves
  <2> QED
    BY <1>1, <1>4, <2>1, StillWithin
<1> HIDE DEF Stepped, Learnt
<1>5. /\ \A g \in Groups : host.v[g] <= Plus(time, Stepped(g)) + fails
      /\ host.w.stdp <= Plus(time, Learnt) + fails
      /\ attached => /\ \A g \in Groups : dev.v[g] <= Plus(time, Stepped(g)) + fails
                     /\ dev.w.stdp <= Plus(time, Learnt) + fails
  BY DEF Bounded, Within
<1>6. (\A g \in Groups : host.v[g] \in Nat /\ dev.v[g] \in Nat) /\ host.w.stdp \in Nat /\ dev.w.stdp \in Nat
  BY Counts
<1>7. time' = time
  BY DEF Moves
<1>8. /\ \A g \in Groups : host'.v[g] <= Plus(time, Stepped(g)') + fails'
      /\ host'.w.stdp <= Plus(time, Learnt') + fails'
  BY <1>3, <1>4, <1>5, <1>6 DEF Moves
<1>9. attached' => /\ \A g \in Groups : dev'.v[g] <= Plus(time, Stepped(g)') + fails'
                   /\ dev'.w.stdp <= Plus(time, Learnt') + fails'
  BY <1>3, <1>4, <1>5, <1>6 DEF Moves
<1> QED
  BY <1>7, <1>8, <1>9 DEF Bounded, Within, Plus

LEMMA BoundedStep == TypeOK /\ Stands /\ Owned /\ Bounded /\ [Next]_vars => Bounded'
<1> SUFFICES ASSUME TypeOK, Stands, Owned, Bounded, [Next]_vars PROVE Bounded'
  OBVIOUS
<1>1. TypeOK'
  BY TypeStep
<1>2. ASSUME Moves PROVE Bounded'
  BY <1>1, <1>2, BoundedStay
<1> USE Bounds, GroupFacts DEF Moves, Stepped, Learnt, Late, episode, memory
<1>3. ASSUME NEW n \in Nat, NEW d \in BOOLEAN, Run(n, d) \/ RunContinuous(d) PROVE Moves
  BY <1>3 DEF Run, RunContinuous, Stands
<1>4. ASSUME NEW c \in Cmds, Issue(c) \/ HandlerCommand(c) PROVE Moves
  <2>1. host' = host \/ host' = Command(host, c)
    BY <1>4 DEF Issue, HandlerCommand
  <2>2. host'.v = host.v /\ host'.w.stdp = host.w.stdp
    BY <2>1, CommandFields DEF TypeOK
  <2>3. UNCHANGED <<time, fails, dev, attached, grp>> /\ (pc' = pc \/ (pc = "handlers" /\ pc' = "blocked"))
    BY <1>4 DEF Issue, HandlerCommand
  <2> QED
    BY <2>2, <2>3
<1>5. ASSUME Stop \/ LoopGone \/ Return \/ Refused \/ LoopCheck \/ Swap PROVE Moves
  BY <1>5 DEF Stop, LoopGone, Return, Refused, LoopCheck, Swap
<1>6. ASSUME Drained PROVE Moves
  BY <1>6 DEF Drained, Groups
<1>7. ASSUME LogSpikes \/ HandlersDone PROVE Moves
  BY <1>7 DEF LogSpikes, HandlersDone, NextGroup
<1>8. ASSUME Execute PROVE Moves
  BY <1>8 DEF Execute
<1>9. ASSUME StopJoined \/ HandlerStop PROVE Moves
  <2>1. /\ ~attached' /\ UNCHANGED time /\ fails' >= fails
        /\ IF attached THEN SyncDown ELSE UNCHANGED <<host, fails>>
    BY <1>9, Synced DEF StopJoined, HandlerStop, Release
  <2>2. /\ \A g \in Groups : host'.v[g] = host.v[g] \/ (attached /\ host'.v[g] = dev.v[g])
        /\ host'.w.stdp = host.w.stdp \/ (attached /\ host'.w.stdp = dev.w.stdp)
    BY <2>1, Synced
  <2>3. (\A g \in Groups : Stepped(g) => Stepped(g)') /\ (Learnt => Learnt')
    BY <1>9 DEF StopJoined, HandlerStop
  <2> QED
    BY <2>1, <2>2, <2>3
<1>10. ASSUME HandBack PROVE Moves
  <2>1. attached /\ ~attached' /\ SyncDown /\ UNCHANGED time /\ pc = "handback"
    BY <1>10 DEF HandBack, Owned, Release
  <2>2. /\ \A g \in Groups : host'.v[g] = host.v[g] \/ (attached /\ host'.v[g] = dev.v[g])
        /\ host'.w.stdp = host.w.stdp \/ (attached /\ host'.w.stdp = dev.w.stdp)
        /\ fails' >= fails
    BY <2>1, Synced
  <2> QED
    BY <2>1, <2>2
<1>11. ASSUME DeviceLost PROVE Moves
  <2>1. attached /\ ~attached' /\ UNCHANGED time /\ fails' > fails
    BY <1>11 DEF DeviceLost, Release
  <2>2. /\ \A g \in Groups : host'.v[g] = host.v[g] \/ (attached /\ host'.v[g] = dev.v[g])
        /\ host'.w.stdp = host.w.stdp \/ (attached /\ host'.w.stdp = dev.w.stdp)
    BY <1>11, <2>1, Lost
  <2>3. fails' >= fails
    BY <1>11 DEF DeviceLost
  <2> QED
    BY <2>1, <2>2, <2>3
<1>12. ASSUME ApplyOnHost PROVE Moves
  <2>1. host' = Command(host, Head(batch)) /\ Head(batch) \in Cmds
    BY <1>12, HeadTailProperties DEF ApplyOnHost, TypeOK
  <2>2. host'.v = host.v /\ host'.w.stdp = host.w.stdp
    BY <2>1, CommandFields DEF TypeOK
  <2> QED
    BY <1>12, <2>2 DEF ApplyOnHost
<1>13. ASSUME ApplyOnDevice PROVE Moves
  <2>1. attached /\ attached' /\ UNCHANGED <<time, pc, grp>>
    BY <1>13 DEF ApplyOnDevice
  <2>2. /\ host'.v = host.v /\ dev'.v = dev.v /\ fails' >= fails
        /\ host'.w.stdp \in {host.w.stdp, dev.w.stdp} /\ dev'.w.stdp \in {host.w.stdp, dev.w.stdp}
    BY <1>13, AppliedOnDevice
  <2> QED
    BY <2>1, <2>2
<1>14. ASSUME UNCHANGED vars PROVE Moves
  BY <1>14 DEF vars
<1>15. CASE LifStep
  <2>1. /\ pc = "lif" /\ UNCHANGED <<time, fails, attached>> /\ host \in Memory /\ dev \in Memory /\ grp \in Groups
        /\ \/ host' = host \/ host' = [host EXCEPT !.v[grp] = @ + 1]
        /\ \/ dev' = dev \/ dev' = [dev EXCEPT !.v[grp] = @ + 1]
    BY <1>15 DEF LifStep, TypeOK
  <2> DEFINE OneOn(m, n) ==
        n.w = m.w /\ \A g \in Groups : n.v[g] = m.v[g] \/ (g = grp /\ n.v[g] = m.v[g] + 1)
  <2>2. OneOn(host, host') /\ OneOn(dev, dev')
    <3>1. \A m \in Memory : OneOn(m, m) /\ OneOn(m, [m EXCEPT !.v[grp] = @ + 1])
      BY <2>1, LifStepped
    <3> HIDE DEF OneOn
    <3> QED
      BY <2>1, <3>1
  <2>3. ~Learnt /\ ~Learnt' /\ \A g \in Groups : (Stepped(g) <=> g < grp) /\ (Stepped(g)' <=> g <= grp)
    BY <1>15 DEF LifStep, NextGroup, Groups
  <2>4. \A g \in Groups : g \in Nat /\ host.v[g] \in Nat /\ dev.v[g] \in Nat
    BY Counts
  <2> HIDE DEF Stepped, Learnt
  <2>5. ASSUME NEW g \in Groups
        PROVE  /\ host.v[g] <= Plus(time, Stepped(g)) + fails => host'.v[g] <= Plus(time, Stepped(g)') + fails
               /\ dev.v[g] <= Plus(time, Stepped(g)) + fails => dev'.v[g] <= Plus(time, Stepped(g)') + fails
    <3>1. host'.v[g] = host.v[g] \/ (g = grp /\ host'.v[g] = host.v[g] + 1)
      BY <2>2
    <3>2. dev'.v[g] = dev.v[g] \/ (g = grp /\ dev'.v[g] = dev.v[g] + 1)
      BY <2>2
    <3>3. g \in Nat /\ grp \in Nat /\ host.v[g] \in Nat /\ dev.v[g] \in Nat /\ time \in Nat /\ fails \in Nat
      BY <2>4
    <3>4. CASE g = grp
      BY <2>3, <3>1, <3>2, <3>3, <3>4 DEF Plus
    <3>5. CASE g # grp
      BY <2>3, <3>1, <3>2, <3>3, <3>5 DEF Plus
    <3> QED
      BY <3>4, <3>5
  <2> QED
    BY <2>1, <2>2, <2>3, <2>5 DEF Bounded, Within, Plus
<1>16. CASE StdpStep
  <2>1. /\ pc = "stdp" /\ pc' = "spikes" /\ UNCHANGED <<time, fails, attached>> /\ host \in Memory /\ dev \in Memory
        /\ \/ host' = host \/ host' = [host EXCEPT !.w.stdp = @ + 1]
        /\ \/ dev' = dev \/ dev' = [dev EXCEPT !.w.stdp = @ + 1]
    BY <1>16 DEF StdpStep, TypeOK
  <2>2. /\ host'.v = host.v /\ dev'.v = dev.v
        /\ host'.w.stdp \in {host.w.stdp, host.w.stdp + 1}
        /\ dev'.w.stdp \in {dev.w.stdp, dev.w.stdp + 1}
    BY <2>1, StdpStepped
  <2>3. ~Learnt /\ Learnt' /\ \A g \in Groups : Stepped(g) /\ Stepped(g)'
    BY <2>1
  <2>4. host.w.stdp \in Nat /\ dev.w.stdp \in Nat
    BY Counts
  <2> HIDE DEF Stepped, Learnt
  <2> QED
    BY <2>1, <2>2, <2>3, <2>4 DEF Bounded, Within, Plus
<1>17. CASE EndTick
  <2>1. pc = "clock" /\ pc' \in {"check", "swap", "handback", "return"} /\ time' = time + 1
        /\ UNCHANGED <<host, dev, attached, fails>>
    BY <1>17 DEF EndTick
  <2>2. Learnt /\ ~Learnt' /\ \A g \in Groups : Stepped(g) /\ ~Stepped(g)'
    BY <2>1
  <2> HIDE DEF Stepped, Learnt
  <2> QED
    BY <2>1, <2>2 DEF Bounded, Within, Plus
<1> HIDE DEF Moves
<1> QED
  BY <1>2, <1>3, <1>4, <1>5, <1>6, <1>7, <1>8, <1>9, <1>10, <1>11, <1>12, <1>13, <1>14, <1>15, <1>16, <1>17
     DEF Next, Ticking

-----------------------------------------------------------------------------
(***************************************************************************)
(* The theorems.                                                           *)
(***************************************************************************)
LEMMA InitInvariant == Init => IInv
<1> SUFFICES ASSUME Init PROVE IInv
  OBVIOUS
<1> USE GroupFacts, DeviceAssumption
<1>1. <<>> \in Seq(Cmds) /\ <<>> \in Seq(Nat) /\ Len(<<>>) = 0
  BY EmptySeq
<1>2. Blank \in Memory /\ Blank.w.done = <<>> /\ Blank.w.stdp = 0 /\ \A g \in Groups : Blank.v[g] = 0
  BY BlankMemory DEF Blank
<1>3. TypeOK
  <2>1. prev \in [Groups -> Nat] /\ log \in [Groups -> Seq(Nat)]
    BY <1>1 DEF Init
  <2>2. /\ left \in 0 .. MaxTicks /\ time \in 0 .. MaxTicks /\ fails \in 0 .. MaxFails /\ goal \in Nat
        /\ grp \in Groups
    BY DEF Init
  <2>3. /\ prog \in Programs /\ mode \in {"idle", "run", "cont"} /\ stopper \in {"none", "main", "handler"}
        /\ gpuOk \in BOOLEAN /\ pc \in Ranks /\ onDev \in BOOLEAN /\ attached \in BOOLEAN
    BY DEF Init, Ranks
  <2>4. host \in Memory /\ dev \in Memory /\ queue \in Seq(Cmds) /\ batch \in Seq(Cmds) /\ issued \subseteq Cmds
    BY <1>1, <1>2 DEF Init
  <2> QED
    BY <2>1, <2>2, <2>3, <2>4 DEF TypeOK
<1>4. Stands /\ Owned
  BY DEF Init, Stands, Owned, Body
<1>5. Separate
  BY <1>2 DEF Init, Separate, Separated, Once, Apart, Known
<1>6. Logs
  BY <1>1 DEF Init, Logs, Logged
<1>7. UpToDate
  <2>1. State = Blank
    BY DEF Init, State
  <2>2. /\ time = 0 /\ issued = {} /\ batch = <<>> /\ queue = <<>> /\ ~Learnt
        /\ \A g \in Groups : prev[g] = 0 /\ ~Stepped(g) /\ ~Mirrored(g)
    BY DEF Init, Learnt, Stepped, Mirrored, Late
  <2> HIDE DEF State, Stepped, Mirrored, Learnt
  <2> QED
    BY <1>2, <2>1, <2>2, ElementsEmpty DEF UpToDate, Plus
<1>8. Bounded
  BY <1>2 DEF Init, Bounded, Within, Plus, Learnt, Stepped, Late
<1> QED
  BY <1>3, <1>4, <1>5, <1>6, <1>7, <1>8 DEF IInv

LEMMA StepInvariant == IInv /\ [Next]_vars => IInv'
  BY TypeStep, StandsStep, OwnedStep, SeparateStep, LogsStep, UpToDateStep, BoundedStep DEF IInv

\* The inductive invariant holds in every reachable state: which memory is ticked,
\* whose copies are current, where each command is, and how long each log is.
THEOREM DeviceInvariant == Spec => []IInv
  BY InitInvariant, StepInvariant, PTL DEF Spec

\* Every variable keeps its type; in particular the clock and the count of a run
\* stay within their bounds, on whichever memory the ticks run.
THEOREM DeviceTypes == Spec => []TypeOK
<1>1. IInv => TypeOK
  BY DEF IInv
<1> QED
  BY <1>1, DeviceInvariant, PTL

\* The CPU advances no mirror while buffers are attached, and no buffers outlive
\* the episode that attached them (ocl.cpp:1014).
THEOREM DeviceOneOwner == Spec => []OneOwner
<1>1. IInv => OneOwner
  BY DEF IInv, OneOwner, Owned, Stands, Body
<1> QED
  BY <1>1, DeviceInvariant, PTL

\* No command reaches the same weights twice.
THEOREM DeviceCommandsOnce == Spec => []CommandsOnce
<1>1. IInv => CommandsOnce
  <2> SUFFICES ASSUME TypeOK, Separate PROVE CommandsOnce
    BY DEF IInv
  <2>1. ASSUME NEW h \in Seq(Cmds), Separated(h, batch, queue, issued)
        PROVE  \A i, j \in DOMAIN (h \o batch \o queue) :
                 (h \o batch \o queue)[i] = (h \o batch \o queue)[j] => i = j
    BY <2>1, Sequences, SeparatedConcat
  <2>2. Separated(host.w.done, batch, queue, issued) /\ host.w.done \in Seq(Cmds)
    BY Sequences DEF Separate
  <2> DEFINE d == IF attached THEN dev.w.done ELSE <<>>
  <2>3. Separated(d, batch, queue, issued) /\ d \in Seq(Cmds)
    <3>1. CASE attached
      BY <3>1, Sequences DEF Separate
    <3>2. CASE ~attached
      BY <2>2, <3>2, EmptySeq DEF Separated, Once, Apart, Known
    <3> QED
      BY <3>1, <3>2
  <2> HIDE DEF d
  <2>4. \A m \in {host.w.done \o batch \o queue, d \o batch \o queue} : \A i, j \in DOMAIN m : m[i] = m[j] => i = j
    BY <2>1, <2>2, <2>3
  <2> QED
    BY <2>4 DEF CommandsOnce, d
<1> QED
  BY <1>1, DeviceInvariant, PTL

\* Between episodes, if no device operation failed, the host has been through
\* every tick once and through every command that is not queued; if some failed,
\* it has at most a step too many for each.
THEOREM DeviceHostOwnsAtRest == Spec => []HostOwnsAtRest
<1>1. IInv => HostOwnsAtRest
  <2> SUFFICES ASSUME Stands, Owned, UpToDate, Bounded, mode = "idle"
               PROVE  /\ \A g \in Groups : host.v[g] <= time + fails
                      /\ host.w.stdp <= time + fails
                      /\ fails = 0 => \A g \in Groups : host.v[g] = time /\ prev[g] = time
                      /\ fails = 0 => host.w.stdp = time
                      /\ fails = 0 /\ prog # "command" => issued = Elements(host.w.done) \cup Elements(queue)
    BY DEF IInv, HostOwnsAtRest, Elements
  <2>1. pc = "rest" /\ ~attached /\ batch = <<>>
    BY DEF Stands, Owned
  <2>2. State = host /\ ~Learnt /\ \A g \in Groups : ~Stepped(g) /\ ~Mirrored(g)
    BY <2>1 DEF State, Learnt, Stepped, Mirrored, Late
  <2> HIDE DEF State, Stepped, Mirrored, Learnt
  <2>3. (\A g \in Groups : host.v[g] <= time + fails) /\ host.w.stdp <= time + fails
    BY <2>2 DEF Bounded, Within, Plus
  <2> QED
    BY <2>1, <2>2, <2>3, ElementsEmpty DEF UpToDate, Plus
<1> QED
  BY <1>1, DeviceInvariant, PTL

\* A device that fails in the middle of a tick loses no entry of a spike log.
THEOREM DeviceLogComplete == Spec => []LogComplete
<1>1. IInv => LogComplete
  <2> SUFFICES ASSUME TypeOK, Logs, NEW g \in Groups
               PROVE  /\ \A t \in 0 .. time - 1 : \E i \in DOMAIN log[g] : log[g][i] = t
                      /\ \A i, j \in DOMAIN log[g] : i < j => log[g][i] <= log[g][j]
                      /\ Len(log[g]) <= time + 1 + fails
    BY DEF IInv, LogComplete
  <2>1. Len(log[g]) \in Nat
    BY LenProperties DEF TypeOK
  <2> HIDE DEF Logged
  <2>2. PICK n \in Nat : n = Len(log[g])
    BY <2>1
  <2>3. n <= time + fails + (IF Logged(g) THEN 1 ELSE 0)
    BY <2>2 DEF Logs
  <2>4. n <= time + 1 + fails
    BY <2>3, Bounds
  <2> QED
    BY <2>2, <2>4 DEF Logs
<1> QED
  BY <1>1, DeviceInvariant, PTL
=============================================================================
