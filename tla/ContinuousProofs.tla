--------------------------- MODULE ContinuousProofs ---------------------------
(***************************************************************************)
(* For every set of programs, any number of episodes and commands: no      *)
(* structural change lands inside a tick, no command is lost or applied    *)
(* twice, and for programs in which only main stops the loop one thread at *)
(* a time writes, stopping joins, and queued commands keep their order.    *)
(***************************************************************************)
EXTENDS Continuous, SequenceFacts, FiniteSetTheorems

(***************************************************************************)
(* The invariant.                                                          *)
(***************************************************************************)

\* Whoever is inside a tick's body holds struct_mx SHARED.
Reading == \A t \in Threads : tpc[t] \in {"body", "handlers"} => t \in readers

\* A command is stored at position i of a place, or carried by a call.
Stored(k, t, i, c) ==
  \/ k = "queue" /\ t = Main /\ i \in DOMAIN cmds /\ cmds[i] = c
  \/ k = "applied" /\ t = Main /\ i \in DOMAIN applied /\ applied[i] = c
  \/ k = "batch" /\ t \in Threads /\ i \in DOMAIN batch[t] /\ batch[t][i] = c
  \/ k = "call" /\ t \in Threads /\ i = 1 /\ pc[t] \in {"push", "direct"} /\ cmd[t] = c

\* Nothing is stored that was not issued; a batch exists while it is applied.
Issued ==
  /\ cmds \in Seq(1 .. issued) /\ queued \in Seq(1 .. issued) /\ applied \in Seq(1 .. issued)
  /\ batch \in [Threads -> Seq(1 .. issued)]
  /\ cmd \in [Threads -> 0 .. issued]
  /\ \A t \in Threads : /\ pc[t] \in {"push", "direct"} => cmd[t] # 0
                        /\ batch[t] # <<>> => tpc[t] = "lock"

StoredSomewhere == \A c \in 1 .. issued : \E k, t, i : Stored(k, t, i, c)
StoredOnce ==
  \A c \in 1 .. issued : \A k, t, i, m, u, j :
    Stored(k, t, i, c) /\ Stored(m, u, j, c) => k = m /\ t = u /\ i = j

\* Where main stands in the life of an episode, if only main stops loops.
MainStands ==
  /\ pc[Main] \in {"free", "spin"} => (running <=> handle # 0)
  /\ pc[Main] \in {"push", "stop_store"} => running /\ handle # 0
  /\ pc[Main] \in {"direct", "run_store"} => ~running /\ handle = 0
  /\ pc[Main] = "spawn" => running /\ handle = 0
  /\ pc[Main] = "assign" => running /\ handle = 0 /\ target[Main] \in Loops /\ Alive(target[Main])
  /\ pc[Main] \in {"stop_handle", "join", "joining"} => ~running /\ handle # 0
  /\ pc[Main] = "joining" => target[Main] = handle
  /\ pc[Main] \notin {"detach", "rejoin", "rejoining"}
  /\ tpc[Main] \in InTick \cup {"out"}
  /\ tpc[Main] # "out" => ~running /\ handle = 0 /\ pc[Main] \in {"free", "direct"}
  /\ running /\ handle # 0 => Alive(handle)

\* The only loop alive is the one the handle names, or is about to name.
OneLoopAlive ==
  \A l \in Loops :
    /\ Alive(l) => l = handle \/ (pc[Main] = "assign" /\ l = target[Main])
    /\ tpc[l] # "out" /\ pc[l] \in {"free", "push", "direct"}
    /\ pc[l] # "free" => tpc[l] = "handlers"

Episode == StoppedByMain => MainStands /\ OneLoopAlive

IInv == TypeOK /\ Reading /\ Issued /\ StoredSomewhere /\ StoredOnce /\ Episode /\ QueueInOrder

-----------------------------------------------------------------------------
(***************************************************************************)
(* Types, and the shared hold of struct_mx.                                *)
(***************************************************************************)

LEMMA ThreadFacts == Main \in Threads /\ Loops \subseteq Threads /\ Main \notin Loops /\ Threads \subseteq Nat
  BY ContinuousAssumption DEF Main, Loops, Threads

LEMMA InitTypes == Init => TypeOK /\ Issued /\ Reading
<1> SUFFICES ASSUME Init PROVE TypeOK /\ Issued /\ Reading
  OBVIOUS
<1> USE ContinuousAssumption, ThreadFacts
<1>1. <<>> \in Seq(1 .. MaxCmds) /\ <<>> \in Seq(1 .. issued)
  BY EmptySeq
<1>2. TypeOK
  <2>1. tpc \in [Threads -> InTick \cup {"unborn", "out", "start", "check", "done"}]
    BY DEF Init
  <2>2. batch \in [Threads -> Seq(1 .. MaxCmds)]
    BY <1>1 DEF Init
  <2>3. pc \in [Threads -> {"free"}] /\ cmd \in [Threads -> 0 .. MaxCmds] /\ target \in [Threads -> {0} \cup Loops]
    BY DEF Init
  <2> QED
    BY <1>1, <2>1, <2>2, <2>3 DEF Init, TypeOK
<1>3. Issued
  BY <1>1 DEF Init, Issued
<1>4. Reading
  BY DEF Init, Reading
<1> QED
  BY <1>2, <1>3, <1>4

\* Commands issued so far stay commands when one more is issued.
LEMMA SeqGrows ==
  ASSUME NEW n \in Nat, NEW m \in Nat, n <= m, NEW s \in Seq(1 .. n)
  PROVE  s \in Seq(1 .. m)
  BY SeqMonotonic

LEMMA TypeStep == TypeOK /\ Issued /\ [Next]_vars => TypeOK'
<1> SUFFICES ASSUME TypeOK, Issued, [Next]_vars PROVE TypeOK'
  OBVIOUS
<1> USE ContinuousAssumption, ThreadFacts DEF TypeOK, InTick, Goto, At, log
<1>1. ASSUME NEW t \in Threads, IssueCommand(t) PROVE TypeOK'
  BY <1>1 DEF IssueCommand, Calls
<1>2. ASSUME NEW t \in Threads, PushCommand(t) PROVE TypeOK'
  <2>1. cmd[t] \in 1 .. MaxCmds
    BY <1>2 DEF PushCommand, Issued
  <2> QED
    BY <1>2, <2>1, AppendProperties DEF PushCommand
<1>3. ASSUME NEW t \in Threads, ApplyDirect(t) PROVE TypeOK'
  <2>1. cmd[t] \in 1 .. MaxCmds
    BY <1>3 DEF ApplyDirect, Issued
  <2> QED
    BY <1>3, <2>1, AppendProperties DEF ApplyDirect
<1>4. ASSUME NEW t \in Threads, StopCall(t) \/ StopStore(t) \/ StopHandle(t) \/ Detach(t) PROVE TypeOK'
  BY <1>4 DEF StopCall, StopStore, StopHandle, Detach
<1>5. ASSUME NEW t \in Threads, JoinBegin(t) PROVE TypeOK'
  <2>1. pc' \in [Threads -> {"free", "push", "direct", "stop_store", "stop_handle", "detach", "join",
                            "joining", "spin", "rejoin", "rejoining", "run_store", "spawn", "assign"}]
    BY <1>5, ZenonT(30) DEF JoinBegin
  <2>2. CASE handle = 0
    BY <1>5, <2>2 DEF JoinBegin
  <2>3. CASE handle # 0
    <3>1. target' = [target EXCEPT ![t] = handle] /\ outcome' = outcome
      BY <1>5, <2>3 DEF JoinBegin
    <3>2. target' \in [Threads -> {0} \cup Loops]
      BY <3>1
    <3> QED
      BY <1>5, <2>1, <3>1, <3>2 DEF JoinBegin
  <2> QED
    BY <2>2, <2>3
<1>6. ASSUME NEW t \in Threads, JoinEnd(t) PROVE TypeOK'
  BY <1>6 DEF JoinEnd
<1>7. CASE WaitCall \/ WaitSpin \/ RunCall \/ RunStore
  BY <1>7 DEF WaitCall, WaitSpin, RunCall, RunStore
<1>8. CASE Spawn \/ AssignHandle
  <2>1. CASE Spawn
    BY <2>1 DEF Spawn
  <2>2. CASE AssignHandle
    BY <2>2 DEF AssignHandle
  <2> QED
    BY <1>8, <2>1, <2>2
<1>9. CASE Teardown \/ RunTicks
  BY <1>9 DEF Teardown, RunTicks, Step
<1>10. ASSUME NEW l \in Loops, LoopStart(l) \/ LoopCheck(l) PROVE TypeOK'
  BY <1>10 DEF LoopStart, LoopCheck, Step
<1>11. ASSUME NEW t \in Threads, Drain(t) PROVE TypeOK'
  BY <1>11, EmptySeq DEF Drain, Step
<1>12. ASSUME NEW t \in Threads, ApplyQueued(t) PROVE TypeOK'
  <2>1. Head(batch[t]) \in 1 .. MaxCmds /\ Tail(batch[t]) \in Seq(1 .. MaxCmds)
    BY <1>12, HeadTailProperties DEF ApplyQueued
  <2> QED
    BY <1>12, <2>1, AppendProperties DEF ApplyQueued
<1>13. ASSUME NEW t \in Threads, TickLock(t) \/ TickBody(t) \/ TickEnd(t) PROVE TypeOK'
  BY <1>13 DEF TickLock, TickBody, TickEnd, Step
<1>14. CASE UNCHANGED vars
  BY <1>14 DEF vars
<1> QED
  BY <1>1, <1>2, <1>3, <1>4, <1>5, <1>6, <1>7, <1>8, <1>9, <1>10, <1>11, <1>12, <1>13, <1>14
  DEF Next, Api, Tick, MainApi, Loop

LEMMA ReadingStep == TypeOK /\ Reading /\ [Next]_vars => Reading'
<1> SUFFICES ASSUME TypeOK, Reading, [Next]_vars PROVE Reading'
  OBVIOUS
<1> USE ThreadFacts DEF TypeOK, Reading, Step, log
<1>1. ASSUME NEW t \in Threads, IssueCommand(t) \/ StopCall(t) \/ Api(t) PROVE Reading'
  BY <1>1 DEF IssueCommand, StopCall, Api, PushCommand, ApplyDirect, StopStore, StopHandle, Detach,
              JoinBegin, JoinEnd
<1>2. CASE WaitCall \/ RunCall \/ RunTicks \/ MainApi \/ Teardown
  BY <1>2 DEF WaitCall, RunCall, RunTicks, MainApi, WaitSpin, RunStore, Spawn, AssignHandle, Teardown
<1>3. ASSUME NEW l \in Loops, Loop(l) PROVE Reading'
  BY <1>3 DEF Loop, LoopStart, LoopCheck
<1>4. ASSUME NEW t \in Threads, Drain(t) \/ ApplyQueued(t) PROVE Reading'
  BY <1>4 DEF Drain, ApplyQueued
<1>5. ASSUME NEW t \in Threads, TickLock(t) \/ TickBody(t) \/ TickEnd(t) PROVE Reading'
  BY <1>5 DEF TickLock, TickBody, TickEnd
<1>6. CASE UNCHANGED vars
  BY <1>6 DEF vars
<1> QED
  BY <1>1, <1>2, <1>3, <1>4, <1>5, <1>6 DEF Next, Tick

\* Only two steps change the network, and both own struct_mx.
LEMMA AppliedOwned ==
  ASSUME TypeOK, Reading, [Next]_vars, applied' # applied
  PROVE  \A t \in Threads : tpc[t] \notin {"body", "handlers"}
<1>1. readers = {}
  <2>1. ASSUME NEW t \in Threads, IssueCommand(t) \/ StopCall(t) \/ Api(t) PROVE readers = {}
    BY <2>1 DEF IssueCommand, StopCall, Api, PushCommand, ApplyDirect, StopStore, StopHandle, Detach,
                JoinBegin, JoinEnd, log
  <2>2. ASSUME NEW t \in Threads, Tick(t) PROVE readers = {}
    BY <2>2 DEF Tick, Drain, ApplyQueued, TickLock, TickBody, TickEnd, log
  <2>3. ASSUME NEW l \in Loops, Loop(l) PROVE readers = {}
    BY <2>3 DEF Loop, LoopStart, LoopCheck, log
  <2>4. ~(WaitCall \/ RunCall \/ RunTicks \/ MainApi \/ Teardown)
    BY DEF WaitCall, RunCall, RunTicks, MainApi, WaitSpin, RunStore, Spawn, AssignHandle, Teardown, log
  <2> QED
    BY <2>1, <2>2, <2>3, <2>4 DEF Next, vars
<1> QED
  BY <1>1 DEF Reading

-----------------------------------------------------------------------------
(***************************************************************************)
(* Where the commands are.                                                 *)
(***************************************************************************)

InCall(t) == pc[t] \in {"push", "direct"}

\* Most steps move no command.
LEMMA NothingMoves ==
  ASSUME Issued, StoredSomewhere, StoredOnce, TypeOK,
         UNCHANGED <<log, batch, cmd>>,
         \A t \in Threads : pc'[t] \in {"push", "direct"} <=> InCall(t),
         \A t \in Threads : batch[t] # <<>> => tpc'[t] = tpc[t]
  PROVE  (Issued /\ StoredSomewhere /\ StoredOnce)'
<1>1. \A k, t, i, c : Stored(k, t, i, c)' <=> Stored(k, t, i, c)
  BY DEF Stored, InCall, log
<1> HIDE DEF Stored
<1>2. Issued'
  BY DEF Issued, InCall, log
<1>3. StoredSomewhere'
  BY <1>1 DEF StoredSomewhere, log
<1>4. StoredOnce'
  BY <1>1 DEF StoredOnce, log
<1> QED
  BY <1>2, <1>3, <1>4

LEMMA StoredIssued ==
  ASSUME Issued, NEW k, NEW t, NEW i, NEW c, Stored(k, t, i, c)
  PROVE  c \in 1 .. issued
<1>1. CASE k = "queue"
  <2>1. i \in DOMAIN cmds /\ c = cmds[i]
    BY <1>1 DEF Stored
  <2>2. cmds \in Seq(1 .. issued)
    BY DEF Issued
  <2> QED
    BY <2>1, <2>2, Element
<1>2. CASE k = "applied"
  <2>1. i \in DOMAIN applied /\ c = applied[i]
    BY <1>2 DEF Stored
  <2>2. applied \in Seq(1 .. issued)
    BY DEF Issued
  <2> QED
    BY <2>1, <2>2, Element
<1>3. CASE k = "batch"
  <2>1. t \in Threads /\ i \in DOMAIN batch[t] /\ c = batch[t][i]
    BY <1>3 DEF Stored
  <2>2. batch[t] \in Seq(1 .. issued)
    BY <2>1 DEF Issued
  <2> QED
    BY <2>1, <2>2, Element
<1>4. CASE k = "call"
  BY <1>4 DEF Stored, Issued
<1> QED
  BY <1>1, <1>2, <1>3, <1>4 DEF Stored

LEMMA IssuePlaces ==
  ASSUME Issued, StoredSomewhere, StoredOnce, TypeOK, NEW t \in Threads, IssueCommand(t)
  PROVE  (Issued /\ StoredSomewhere /\ StoredOnce)'
<1> USE ContinuousAssumption, ThreadFacts
<1>1. issued \in Nat /\ issued' = issued + 1
  BY DEF IssueCommand, TypeOK
<1>2. Issued'
  <2>1. /\ cmds \in Seq(1 .. issued') /\ queued \in Seq(1 .. issued') /\ applied \in Seq(1 .. issued')
        /\ \A u \in Threads : batch[u] \in Seq(1 .. issued')
    BY <1>1, SeqGrows DEF Issued
  <2>2. UNCHANGED <<cmds, queued, applied, batch, tpc>>
    BY DEF IssueCommand
  <2>3. batch' \in [Threads -> Seq(1 .. issued')]
    BY <2>1, <2>2 DEF TypeOK
  <2>4. cmd' \in [Threads -> 0 .. issued']
    BY <1>1 DEF IssueCommand, Issued
  <2>5. \A u \in Threads : pc'[u] \in {"push", "direct"} => cmd'[u] # 0
    BY <1>1 DEF IssueCommand, Issued, TypeOK, Goto
  <2> QED
    BY <2>1, <2>2, <2>3, <2>4, <2>5 DEF Issued
<1>3. pc[t] = "free"
  BY DEF IssueCommand, Calls
<1>4. \A k, u, i, c : Stored(k, u, i, c)' <=>
        Stored(k, u, i, c) \/ (k = "call" /\ u = t /\ i = 1 /\ c = issued + 1)
  BY <1>3 DEF Stored, IssueCommand, Goto, TypeOK
<1>5. \A k, u, i, c : Stored(k, u, i, c) => c \in 1 .. issued
  BY StoredIssued
<1> HIDE DEF Stored
<1>6. StoredSomewhere'
  <2> SUFFICES ASSUME NEW c \in 1 .. issued + 1 PROVE \E k, u, i : Stored(k, u, i, c)'
    BY <1>1 DEF StoredSomewhere
  <2>1. CASE c = issued + 1
    BY <1>4, <2>1
  <2>2. CASE c \in 1 .. issued
    <3>1. PICK k, u, i : Stored(k, u, i, c)
      BY <2>2 DEF StoredSomewhere
    <3> QED
      BY <1>4, <3>1
  <2> QED
    BY <1>1, <2>1, <2>2
<1>7. StoredOnce'
  BY <1>1, <1>4, <1>5 DEF StoredOnce
<1> QED
  BY <1>2, <1>6, <1>7

\* One command goes from a place to another, the rest stays.
LEMMA OneMoves ==
  ASSUME StoredSomewhere, StoredOnce, NEW k0, NEW t0, NEW i0, NEW k1, NEW t1, NEW i1,
         NEW c0, Stored(k0, t0, i0, c0), issued' = issued, c0 \in 1 .. issued,
         \A k, t, i, c : Stored(k, t, i, c)' <=>
           \/ Stored(k, t, i, c) /\ ~(k = k0 /\ t = t0 /\ i = i0)
           \/ k = k1 /\ t = t1 /\ i = i1 /\ c = c0
  PROVE  (StoredSomewhere /\ StoredOnce)'
<1>1. ASSUME NEW c \in 1 .. issued, c # c0, NEW k, NEW t, NEW i, Stored(k, t, i, c)
      PROVE  Stored(k, t, i, c)'
  <2>1. ~(k = k0 /\ t = t0 /\ i = i0)
    BY <1>1 DEF Stored
  <2> QED
    BY <1>1, <2>1
<1>2. \A k, t, i : Stored(k, t, i, c0) => k = k0 /\ t = t0 /\ i = i0
  BY DEF StoredOnce
<1>3. \A k, t, i : Stored(k, t, i, c0)' <=> k = k1 /\ t = t1 /\ i = i1
  BY <1>2
<1>4. \A c \in 1 .. issued : \A k, t, i : c # c0 => (Stored(k, t, i, c)' <=> Stored(k, t, i, c))
  BY <1>1
<1>5. StoredSomewhere'
  BY <1>3, <1>4 DEF StoredSomewhere
<1>6. StoredOnce'
  BY <1>3, <1>4 DEF StoredOnce
<1> QED
  BY <1>5, <1>6

LEMMA PushPlaces ==
  ASSUME Issued, StoredSomewhere, StoredOnce, TypeOK, NEW t \in Threads, PushCommand(t)
  PROVE  (Issued /\ StoredSomewhere /\ StoredOnce)'
<1> USE ThreadFacts
<1>1. /\ cmd[t] \in 1 .. issued /\ pc[t] = "push" /\ issued' = issued
      /\ pc' = [pc EXCEPT ![t] = "free"] /\ UNCHANGED <<applied, batch, cmd, tpc>>
      /\ cmds' = Append(cmds, cmd[t]) /\ queued' = Append(queued, cmd[t])
  BY DEF PushCommand, At, Goto, Issued
<1>2. /\ cmds' \in Seq(1 .. issued) /\ queued' \in Seq(1 .. issued) /\ Len(cmds) \in Nat
      /\ \A i, c : i \in DOMAIN cmds' /\ cmds'[i] = c <=>
           (i \in DOMAIN cmds /\ cmds[i] = c) \/ (i = Len(cmds) + 1 /\ cmd[t] = c)
  BY <1>1, Appended, SMTT(30) DEF Issued
<1>3. Issued'
  BY <1>1, <1>2 DEF Issued, TypeOK
<1>4. Stored("call", t, 1, cmd[t])
  BY <1>1 DEF Stored
<1>5. \A k, u, i, c : Stored(k, u, i, c)' <=>
        \/ Stored(k, u, i, c) /\ ~(k = "call" /\ u = t /\ i = 1)
        \/ k = "queue" /\ u = Main /\ i = Len(cmds) + 1 /\ c = cmd[t]
  <2>1. \A u \in Threads : pc'[u] \in {"push", "direct"} <=> u # t /\ pc[u] \in {"push", "direct"}
    BY <1>1 DEF TypeOK
  <2> QED
    BY <1>1, <1>2, <2>1 DEF Stored
<1> HIDE DEF Stored
<1> QED
  BY <1>1, <1>3, <1>4, <1>5, OneMoves

LEMMA DirectPlaces ==
  ASSUME Issued, StoredSomewhere, StoredOnce, TypeOK, NEW t \in Threads, ApplyDirect(t)
  PROVE  (Issued /\ StoredSomewhere /\ StoredOnce)'
<1> USE ThreadFacts
<1>1. /\ cmd[t] \in 1 .. issued /\ pc[t] = "direct" /\ issued' = issued
      /\ pc' = [pc EXCEPT ![t] = "free"] /\ UNCHANGED <<cmds, queued, batch, cmd, tpc>>
      /\ applied' = Append(applied, cmd[t])
  BY DEF ApplyDirect, At, Goto, Issued
<1>2. /\ applied' \in Seq(1 .. issued) /\ Len(applied) \in Nat
      /\ \A i, c : i \in DOMAIN applied' /\ applied'[i] = c <=>
           (i \in DOMAIN applied /\ applied[i] = c) \/ (i = Len(applied) + 1 /\ cmd[t] = c)
  BY <1>1, Appended, SMTT(30) DEF Issued
<1>3. Issued'
  BY <1>1, <1>2 DEF Issued, TypeOK
<1>4. Stored("call", t, 1, cmd[t])
  BY <1>1 DEF Stored
<1>5. \A k, u, i, c : Stored(k, u, i, c)' <=>
        \/ Stored(k, u, i, c) /\ ~(k = "call" /\ u = t /\ i = 1)
        \/ k = "applied" /\ u = Main /\ i = Len(applied) + 1 /\ c = cmd[t]
  <2>1. \A u \in Threads : pc'[u] \in {"push", "direct"} <=> u # t /\ pc[u] \in {"push", "direct"}
    BY <1>1 DEF TypeOK
  <2> QED
    BY <1>1, <1>2, <2>1 DEF Stored
<1> HIDE DEF Stored
<1> QED
  BY <1>1, <1>3, <1>4, <1>5, OneMoves

LEMMA DrainPlaces ==
  ASSUME Issued, StoredSomewhere, StoredOnce, TypeOK, NEW t \in Threads, Drain(t)
  PROVE  (Issued /\ StoredSomewhere /\ StoredOnce)'
<1> USE ThreadFacts
<1>1. /\ tpc[t] = "drain" /\ tpc' = [tpc EXCEPT ![t] = "lock"]
      /\ batch' = [batch EXCEPT ![t] = cmds] /\ cmds' = <<>>
      /\ UNCHANGED <<applied, queued, cmd, pc, issued>>
  BY DEF Drain, Step
<1>2. batch[t] = <<>>
  BY <1>1 DEF Issued
<1>3. Issued'
  BY <1>1, EmptySeq DEF Issued, TypeOK
<1>4. \A k, u, i, c : Stored(k, u, i, c)' <=>
        \/ Stored(k, u, i, c) /\ k # "queue"
        \/ k = "batch" /\ u = t /\ Stored("queue", Main, i, c)
  <2>1. /\ \A u \in Threads : batch'[u] = IF u = t THEN cmds ELSE batch[u]
        /\ DOMAIN cmds' = {} /\ DOMAIN batch[t] = {}
    BY <1>1, <1>2 DEF TypeOK
  <2> QED
    BY <1>1, <2>1 DEF Stored
<1>5. \A i, c : ~Stored("batch", t, i, c)
  BY <1>2 DEF Stored
<1>6. \A k, u, i, c : Stored(k, u, i, c) /\ k = "queue" => u = Main
  BY DEF Stored
<1> HIDE DEF Stored
<1>7. StoredSomewhere'
  <2> SUFFICES ASSUME NEW c \in 1 .. issued PROVE \E k, u, i : Stored(k, u, i, c)'
    BY <1>1 DEF StoredSomewhere
  <2>1. PICK k, u, i : Stored(k, u, i, c)
    BY DEF StoredSomewhere
  <2>2. CASE k = "queue"
    BY <1>4, <1>6, <2>1, <2>2
  <2>3. CASE k # "queue"
    BY <1>4, <2>1, <2>3
  <2> QED
    BY <2>2, <2>3
<1>8. StoredOnce'
  BY <1>1, <1>4, <1>5, <1>6 DEF StoredOnce
<1> QED
  BY <1>3, <1>7, <1>8

LEMMA ApplyPlaces ==
  ASSUME Issued, StoredSomewhere, StoredOnce, TypeOK, NEW t \in Threads, ApplyQueued(t)
  PROVE  (Issued /\ StoredSomewhere /\ StoredOnce)'
<1> USE ThreadFacts
<1>1. /\ tpc[t] = "lock" /\ batch[t] # <<>> /\ UNCHANGED <<tpc, cmds, queued, cmd, pc, issued>>
      /\ batch' = [batch EXCEPT ![t] = Tail(@)]
      /\ applied' = Append(applied, Head(batch[t]))
  BY DEF ApplyQueued
<1>2. /\ Head(batch[t]) \in 1 .. issued /\ Tail(batch[t]) \in Seq(1 .. issued)
      /\ 1 \in DOMAIN batch[t] /\ batch[t][1] = Head(batch[t])
      /\ \A i, c : i \in DOMAIN Tail(batch[t]) /\ Tail(batch[t])[i] = c <=>
           i \in Nat /\ i # 0 /\ i + 1 \in DOMAIN batch[t] /\ batch[t][i + 1] = c
  <2> DEFINE b == batch[t]
  <2>1. b \in Seq(1 .. issued) /\ b # <<>>
    BY <1>1 DEF Issued
  <2> HIDE DEF b
  <2>2. /\ Head(b) \in 1 .. issued /\ Tail(b) \in Seq(1 .. issued) /\ 1 \in DOMAIN b /\ b[1] = Head(b)
        /\ \A i, c : i \in DOMAIN Tail(b) /\ Tail(b)[i] = c <=>
             i \in Nat /\ i # 0 /\ i + 1 \in DOMAIN b /\ b[i + 1] = c
    BY <2>1, Tailed, ZenonT(30)
  <2> QED
    BY <2>2 DEF b
<1>3. /\ applied' \in Seq(1 .. issued) /\ Len(applied) \in Nat
      /\ \A i, c : i \in DOMAIN applied' /\ applied'[i] = c <=>
           (i \in DOMAIN applied /\ applied[i] = c) \/ (i = Len(applied) + 1 /\ Head(batch[t]) = c)
  BY <1>1, <1>2, Appended DEF Issued
<1>4. Issued'
  BY <1>1, <1>2, <1>3 DEF Issued, TypeOK
<1>5. \A k, u, i, c : Stored(k, u, i, c)' <=>
        \/ Stored(k, u, i, c) /\ ~(k = "batch" /\ u = t)
        \/ k = "batch" /\ u = t /\ i \in Nat /\ i # 0 /\ Stored("batch", t, i + 1, c)
        \/ k = "applied" /\ u = Main /\ i = Len(applied) + 1 /\ c = Head(batch[t])
  <2>1. \A u \in Threads : batch'[u] = IF u = t THEN Tail(batch[t]) ELSE batch[u]
    BY <1>1 DEF TypeOK
  <2>2. \A k, u, i, c : k \in {"queue", "call"} => (Stored(k, u, i, c)' <=> Stored(k, u, i, c))
    BY <1>1 DEF Stored
  <2>3. \A u, i, c : Stored("applied", u, i, c)' <=>
          Stored("applied", u, i, c) \/ (u = Main /\ i = Len(applied) + 1 /\ c = Head(batch[t]))
    BY <1>3 DEF Stored
  <2>4. \A u, i, c : Stored("batch", u, i, c)' <=>
          IF u = t THEN i \in Nat /\ i # 0 /\ Stored("batch", t, i + 1, c) ELSE Stored("batch", u, i, c)
    <3>1. \A i, c : Stored("batch", t, i, c)' <=> i \in DOMAIN Tail(batch[t]) /\ Tail(batch[t])[i] = c
      BY <2>1, ZenonT(30) DEF Stored
    <3>2. \A i, c : Stored("batch", t, i + 1, c) <=> i + 1 \in DOMAIN batch[t] /\ batch[t][i + 1] = c
      BY DEF Stored
    <3>3. \A u, i, c : u # t => (Stored("batch", u, i, c)' <=> Stored("batch", u, i, c))
      BY <2>1, ZenonT(30) DEF Stored
    <3> HIDE DEF Stored
    <3>4. \A i, c : Stored("batch", t, i, c)' <=> i \in Nat /\ i # 0 /\ Stored("batch", t, i + 1, c)
      BY <1>2, <3>1, <3>2
    <3> QED
      BY <3>3, <3>4
  <2>5. \A k, u, i, c : Stored(k, u, i, c) \/ Stored(k, u, i, c)' => k \in {"queue", "applied", "batch", "call"}
    BY DEF Stored
  <2> HIDE DEF Stored
  <2> QED
    BY <2>2, <2>3, <2>4, <2>5
<1>6. Stored("batch", t, 1, Head(batch[t]))
  BY <1>1, <1>2 DEF Stored
<1>7. \A i, c : Stored("batch", t, i, c) => i \in Nat /\ i # 0 /\ (i = 1 => c = Head(batch[t]))
  BY <1>1, <1>2, LenProperties DEF Stored, Issued
<1> HIDE DEF Stored
<1>8. StoredSomewhere'
  <2> SUFFICES ASSUME NEW c \in 1 .. issued PROVE \E k, u, i : Stored(k, u, i, c)'
    BY <1>1 DEF StoredSomewhere
  <2>1. PICK k, u, i : Stored(k, u, i, c)
    BY DEF StoredSomewhere
  <2>2. CASE ~(k = "batch" /\ u = t)
    BY <1>5, <2>1, <2>2
  <2>3. CASE k = "batch" /\ u = t /\ i # 1
    <3>1. Stored("batch", t, (i - 1) + 1, c) /\ i - 1 \in Nat /\ i - 1 # 0
      BY <1>7, <2>1, <2>3
    <3> QED
      BY <1>5, <3>1
  <2>4. CASE k = "batch" /\ u = t /\ i = 1
    <3>1. c = Head(batch[t])
      BY <1>7, <2>1, <2>4
    <3>2. PICK n : n = Len(applied) + 1
      OBVIOUS
    <3>3. Stored("applied", Main, n, c)'
      BY <1>5, <3>1, <3>2
    <3> QED
      BY <3>3
  <2> QED
    BY <2>2, <2>3, <2>4
<1>9. StoredOnce'
  <2> SUFFICES ASSUME NEW c \in 1 .. issued, NEW k, NEW u, NEW i, NEW m, NEW v, NEW j,
                      Stored(k, u, i, c)', Stored(m, v, j, c)'
               PROVE  k = m /\ u = v /\ i = j
    BY <1>1 DEF StoredOnce
  <2>1. c = Head(batch[t]) => k = "applied" /\ u = Main /\ i = Len(applied) + 1
    BY <1>5, <1>6 DEF StoredOnce
  <2>2. c = Head(batch[t]) => m = "applied" /\ v = Main /\ j = Len(applied) + 1
    BY <1>5, <1>6 DEF StoredOnce
  <2>3. CASE c # Head(batch[t])
    BY <1>5, <2>3 DEF StoredOnce
  <2> QED
    BY <2>1, <2>2, <2>3
<1> QED
  BY <1>4, <1>8, <1>9

LEMMA PlacesStep ==
  TypeOK /\ Issued /\ StoredSomewhere /\ StoredOnce /\ [Next]_vars
    => (Issued /\ StoredSomewhere /\ StoredOnce)'
<1> SUFFICES ASSUME TypeOK, Issued, StoredSomewhere, StoredOnce, [Next]_vars
             PROVE  (Issued /\ StoredSomewhere /\ StoredOnce)'
  OBVIOUS
<1> DEFINE Quiet ==
      /\ UNCHANGED <<log, batch, cmd>>
      /\ \A t \in Threads : pc'[t] \in {"push", "direct"} <=> InCall(t)
      /\ \A t \in Threads : batch[t] # <<>> => tpc'[t] = tpc[t]
<1> USE ThreadFacts
<1>1. ASSUME NEW t \in Threads, StopCall(t) \/ StopStore(t) \/ StopHandle(t) \/ Detach(t) PROVE Quiet
  BY <1>1 DEF StopCall, StopStore, StopHandle, Detach, Calls, At, Goto, InCall, TypeOK
<1>2. ASSUME NEW t \in Threads, JoinBegin(t) \/ JoinEnd(t) PROVE Quiet
  BY <1>2 DEF JoinBegin, JoinEnd, At, Goto, InCall, TypeOK
<1>3. ASSUME WaitCall \/ RunCall \/ WaitSpin \/ RunStore \/ AssignHandle \/ Teardown PROVE Quiet
  BY <1>3 DEF WaitCall, RunCall, WaitSpin, RunStore, AssignHandle, Teardown, Calls, At, Goto, InCall, TypeOK
<1>4. ASSUME RunTicks \/ Spawn PROVE Quiet
  BY <1>4 DEF RunTicks, Spawn, Step, Calls, At, Goto, InCall, TypeOK, Issued
<1>5. ASSUME NEW l \in Loops, Loop(l) PROVE Quiet
  BY <1>5 DEF Loop, LoopStart, LoopCheck, Step, InCall, TypeOK, Issued
<1>6. ASSUME NEW t \in Threads, TickLock(t) \/ TickBody(t) \/ TickEnd(t) PROVE Quiet
  BY <1>6 DEF TickLock, TickBody, TickEnd, Step, InCall, TypeOK, Issued
<1>7. ASSUME UNCHANGED vars PROVE Quiet
  BY <1>7 DEF vars, log, InCall
<1>8. ASSUME Quiet PROVE (Issued /\ StoredSomewhere /\ StoredOnce)'
  BY <1>8, NothingMoves
<1> HIDE DEF Quiet
<1> QED
  BY <1>1, <1>2, <1>3, <1>4, <1>5, <1>6, <1>7, <1>8, IssuePlaces, PushPlaces, DirectPlaces, DrainPlaces,
     ApplyPlaces DEF Next, Api, Tick, MainApi

LEMMA Conserved == Issued /\ StoredSomewhere /\ StoredOnce => CommandsConserved
<1> SUFFICES ASSUME Issued, StoredSomewhere, StoredOnce, NEW c \in 1 .. issued
             PROVE  Cardinality(Places(c)) = 1
  BY DEF CommandsConserved
<1>1. \A x : x \in Places(c) <=> \E k, t, i : x = <<k, t, i>> /\ Stored(k, t, i, c)
  <2> DEFINE Q == {<<"queue", Main, i>> : i \in {j \in DOMAIN cmds : cmds[j] = c}}
             A == {<<"applied", Main, i>> : i \in {j \in DOMAIN applied : applied[j] = c}}
             B == UNION {{<<"batch", t, i>> : i \in {j \in DOMAIN batch[t] : batch[t][j] = c}} : t \in Threads}
             C == {<<"call", t, 1>> : t \in {u \in Threads : pc[u] \in {"push", "direct"} /\ cmd[u] = c}}
  <2>1. Places(c) = Q \cup A \cup B \cup C
    BY DEF Places
  <2>2. \A x : x \in Q <=> \E i : x = <<"queue", Main, i>> /\ i \in DOMAIN cmds /\ cmds[i] = c
    OBVIOUS
  <2>3. \A x : x \in A <=> \E i : x = <<"applied", Main, i>> /\ i \in DOMAIN applied /\ applied[i] = c
    OBVIOUS
  <2>4. \A x : x \in B <=> \E t, i : x = <<"batch", t, i>> /\ t \in Threads /\ i \in DOMAIN batch[t] /\ batch[t][i] = c
    OBVIOUS
  <2>5. \A x : x \in C <=> \E t : x = <<"call", t, 1>> /\ t \in Threads /\ pc[t] \in {"push", "direct"} /\ cmd[t] = c
    OBVIOUS
  <2> HIDE DEF Q, A, B, C
  <2>6. \A k, t, i : Stored(k, t, i, c) => <<k, t, i>> \in Q \cup A \cup B \cup C
    BY <2>2, <2>3, <2>4, <2>5 DEF Stored
  <2>7. ASSUME NEW x, x \in Q \cup A \cup B \cup C PROVE \E k, t, i : x = <<k, t, i>> /\ Stored(k, t, i, c)
    <3>1. CASE x \in Q
      BY <2>2, <3>1 DEF Stored
    <3>2. CASE x \in A
      BY <2>3, <3>2 DEF Stored
    <3>3. CASE x \in B
      BY <2>4, <3>3 DEF Stored
    <3>4. CASE x \in C
      BY <2>5, <3>4 DEF Stored
    <3> QED
      BY <2>7, <3>1, <3>2, <3>3, <3>4
  <2> QED
    BY <2>1, <2>6, <2>7
<1> HIDE DEF Stored
<1>2. PICK k, t, i : Stored(k, t, i, c)
  BY DEF StoredSomewhere
<1>3. Places(c) = {<<k, t, i>>}
  BY <1>1, <1>2 DEF StoredOnce
<1> QED
  BY <1>3, FS_Singleton

-----------------------------------------------------------------------------
(***************************************************************************)
(* One episode at a time, if only main stops.                              *)
(***************************************************************************)

LEMMA SameProgram == [Next]_vars => prog' = prog
<1> SUFFICES ASSUME [Next]_vars PROVE prog' = prog
  OBVIOUS
<1>1. ASSUME NEW t \in Threads, IssueCommand(t) \/ StopCall(t) PROVE prog' = prog
  BY <1>1 DEF IssueCommand, StopCall
<1>2. ASSUME NEW t \in Threads, Api(t) PROVE prog' = prog
  BY <1>2 DEF Api, PushCommand, ApplyDirect, StopStore, StopHandle, Detach, JoinBegin, JoinEnd
<1>3. ASSUME NEW t \in Threads, Tick(t) PROVE prog' = prog
  BY <1>3 DEF Tick, Drain, ApplyQueued, TickLock, TickBody, TickEnd
<1>4. CASE WaitCall \/ RunCall \/ RunTicks \/ MainApi \/ Teardown
  BY <1>4 DEF WaitCall, RunCall, RunTicks, MainApi, WaitSpin, RunStore, Spawn, AssignHandle, Teardown
<1>5. ASSUME NEW l \in Loops, Loop(l) PROVE prog' = prog
  BY <1>5 DEF Loop, LoopStart, LoopCheck
<1> QED
  BY <1>1, <1>2, <1>3, <1>4, <1>5 DEF Next, vars

LEMMA EpisodeStep == TypeOK /\ Episode /\ [Next]_vars => Episode'
<1> SUFFICES ASSUME TypeOK, MainStands, OneLoopAlive, StoppedByMain, [Next]_vars
             PROVE  (MainStands /\ OneLoopAlive)'
  BY SameProgram DEF Episode, StoppedByMain
<1> USE ThreadFacts DEF TypeOK, MainStands, OneLoopAlive, Alive, InTick
<1>1. ASSUME NEW t \in Threads, IssueCommand(t) PROVE (MainStands /\ OneLoopAlive)'
  BY <1>1 DEF IssueCommand, Calls, Goto, Threads
<1>2. ASSUME NEW t \in Threads, PushCommand(t) \/ ApplyDirect(t) PROVE (MainStands /\ OneLoopAlive)'
  <2>1. /\ pc[t] \in {"push", "direct"} /\ pc' = [pc EXCEPT ![t] = "free"]
        /\ UNCHANGED <<running, handle, tpc, target>>
    BY <1>2 DEF PushCommand, ApplyDirect, At, Goto
  <2> QED
    BY <2>1 DEF Threads
<1>3. ASSUME NEW t \in Threads, StopCall(t) PROVE (MainStands /\ OneLoopAlive)'
  BY <1>3 DEF StopCall, Calls, Goto, StoppedByMain, log, Threads
<1>4. ASSUME NEW t \in Threads, StopStore(t) \/ StopHandle(t) \/ Detach(t) PROVE (MainStands /\ OneLoopAlive)'
  <2>1. CASE StopStore(t)
    BY <1>4, <2>1 DEF StopStore, At, Goto, log, Threads
  <2>2. CASE StopHandle(t)
    BY <1>4, <2>2 DEF StopHandle, At, Goto, log, Threads
  <2>3. CASE Detach(t)
    BY <1>4, <2>3 DEF Detach, At, Goto, log, Threads
  <2> QED
    BY <1>4, <2>1, <2>2, <2>3
<1>5. ASSUME NEW t \in Threads, JoinBegin(t) PROVE (MainStands /\ OneLoopAlive)'
  BY <1>5 DEF JoinBegin, At, Goto, log, Threads
<1>6. ASSUME NEW t \in Threads, JoinEnd(t) PROVE (MainStands /\ OneLoopAlive)'
  BY <1>6 DEF JoinEnd, At, Goto, log, Threads
<1>7. CASE WaitCall \/ WaitSpin \/ RunCall \/ RunStore
  <2>1. CASE WaitCall
    BY <2>1 DEF WaitCall, Calls, Goto, log
  <2>2. CASE WaitSpin
    BY <2>2 DEF WaitSpin, At, Goto, log
  <2>3. CASE RunCall
    BY <2>3 DEF RunCall, Calls, Goto, log
  <2>4. CASE RunStore
    BY <2>4 DEF RunStore, At, Goto, log
  <2> QED
    BY <1>7, <2>1, <2>2, <2>3, <2>4
<1>8. CASE Spawn
  BY <1>8 DEF Spawn, At, Goto, log
<1>9. CASE AssignHandle
  BY <1>9 DEF AssignHandle, At, Goto, log, Main
<1>10. CASE Teardown
  BY <1>10 DEF Teardown, log
<1>11. CASE RunTicks
  BY <1>11 DEF RunTicks, Calls, Step, log
<1>12. ASSUME NEW l \in Loops, Loop(l) PROVE (MainStands /\ OneLoopAlive)'
  <2>1. l \in Threads /\ l # Main /\ pc[l] = "free" /\ UNCHANGED <<running, handle, pc, target>>
        /\ (running => tpc'[l] # "done") /\ tpc'[l] \notin {"out", "unborn"}
        /\ tpc' = [tpc EXCEPT ![l] = tpc'[l]] /\ tpc[l] \in {"start", "check"}
    BY <1>12 DEF Loop, LoopStart, LoopCheck, Step, log
  <2>2. l = handle \/ (pc[Main] = "assign" /\ l = target[Main])
    BY <2>1
  <2>3. MainStands'
    BY <2>1, <2>2
  <2>4. OneLoopAlive'
    BY <2>1, <2>2
  <2> QED
    BY <2>3, <2>4
<1>13. ASSUME NEW t \in Threads, Drain(t) \/ TickLock(t) \/ TickBody(t)
       PROVE  (MainStands /\ OneLoopAlive)'
  <2>1. /\ UNCHANGED <<running, handle, pc, target>> /\ tpc[t] \in {"drain", "lock", "body"}
        /\ tpc' = [tpc EXCEPT ![t] = tpc'[t]] /\ tpc'[t] \in {"lock", "body", "handlers"}
    BY <1>13 DEF Drain, TickLock, TickBody, Step, log
  <2>2. MainStands'
    BY <2>1 DEF Threads
  <2>3. OneLoopAlive'
    BY <2>1 DEF Threads
  <2> QED
    BY <2>2, <2>3
<1>14. ASSUME NEW t \in Threads, ApplyQueued(t) PROVE (MainStands /\ OneLoopAlive)'
  BY <1>14 DEF ApplyQueued
<1>15. ASSUME NEW t \in Threads, TickEnd(t) PROVE (MainStands /\ OneLoopAlive)'
  BY <1>15 DEF TickEnd, Step, log, Threads
<1>16. CASE UNCHANGED vars
  BY <1>16 DEF vars
<1> QED
  BY <1>1, <1>2, <1>3, <1>4, <1>5, <1>6, <1>7, <1>8, <1>9, <1>10, <1>11, <1>12, <1>13, <1>14, <1>15, <1>16
  DEF Next, Api, Tick, MainApi

-----------------------------------------------------------------------------
(***************************************************************************)
(* Queued commands keep their order.                                       *)
(***************************************************************************)

\* QueueInOrder, of a batch b, the queue q and the histories Q and A.
Ahead(b, q, Q) == Len(Q) - Len(b) - Len(q)
Placed(n, Q, A) ==
  /\ \A i \in 1 .. n : \E p \in DOMAIN A : A[p] = Q[i]
  /\ \A i, j \in 1 .. n, p, r \in DOMAIN A : A[p] = Q[i] /\ A[r] = Q[j] /\ i < j => p < r
InOrder(b, q, Q, A) ==
  LET n == Ahead(b, q, Q)
  IN  n >= 0 /\ b \o q = SubSeq(Q, n + 1, Len(Q)) /\ Placed(n, Q, A)

\* The second conjunct, element by element.
Follows(b, q, Q, n) ==
  /\ \A i \in 1 .. Len(b) : b[i] = Q[n + i]
  /\ \A i \in 1 .. Len(q) : q[i] = Q[n + Len(b) + i]

LEMMA Pending ==
  ASSUME NEW S, NEW b \in Seq(S), NEW q \in Seq(S), NEW Q \in Seq(S), NEW n \in Nat,
         n = Ahead(b, q, Q)
  PROVE  b \o q = SubSeq(Q, n + 1, Len(Q)) <=> Follows(b, q, Q, n)
<1>1. Len(b) \in Nat /\ Len(q) \in Nat /\ Len(Q) \in Nat /\ Len(Q) = n + Len(b) + Len(q)
  BY LenProperties DEF Ahead
<1> DEFINE bq == b \o q
           sub == SubSeq(Q, n + 1, Len(Q))
<1>2. /\ bq \in Seq(S) /\ Len(bq) = Len(b) + Len(q)
      /\ \A i \in 1 .. Len(b) + Len(q) : bq[i] = IF i <= Len(b) THEN b[i] ELSE q[i - Len(b)]
  BY ConcatProperties
<1>3. /\ sub \in Seq(S) /\ Len(sub) = Len(b) + Len(q)
      /\ \A i \in 1 .. Len(b) + Len(q) : sub[i] = Q[n + i]
  <2>1. n + 1 \in 1 .. Len(Q) + 1 /\ Len(Q) \in n .. Len(Q)
    BY <1>1
  <2>2. /\ sub \in Seq(S) /\ Len(sub) = Len(Q) - (n + 1) + 1
        /\ \A i \in 1 .. Len(Q) - (n + 1) + 1 : sub[i] = Q[n + 1 + i - 1]
    BY <2>1, SubSeqProperties
  <2>3. ASSUME NEW i \in 1 .. Len(b) + Len(q) PROVE sub[i] = Q[n + i]
    <3>1. i \in 1 .. Len(Q) - (n + 1) + 1 /\ n + 1 + i - 1 = n + i
      BY <1>1
    <3> QED
      BY <2>2, <3>1
  <2>4. Len(Q) - (n + 1) + 1 = Len(b) + Len(q)
    BY <1>1
  <2> QED
    BY <2>2, <2>3, <2>4
<1> HIDE DEF bq, sub
<1>4. bq = sub <=> \A i \in 1 .. Len(b) + Len(q) : bq[i] = sub[i]
  BY <1>1, <1>2, <1>3, SeqEqual
<1>5. (\A i \in 1 .. Len(b) + Len(q) : bq[i] = sub[i]) <=>
        /\ \A i \in 1 .. Len(b) : b[i] = Q[n + i]
        /\ \A i \in 1 .. Len(q) : q[i] = Q[n + Len(b) + i]
  <2>1. ASSUME \A i \in 1 .. Len(b) + Len(q) : bq[i] = sub[i]
        PROVE  /\ \A i \in 1 .. Len(b) : b[i] = Q[n + i]
               /\ \A i \in 1 .. Len(q) : q[i] = Q[n + Len(b) + i]
    <3>1. ASSUME NEW i \in 1 .. Len(q) PROVE q[i] = Q[n + Len(b) + i]
      <4>1. Len(b) + i \in 1 .. Len(b) + Len(q) /\ ~(Len(b) + i <= Len(b)) /\ (Len(b) + i) - Len(b) = i
        BY <1>1
      <4>2. bq[Len(b) + i] = q[i]
        BY <1>2, <4>1
      <4>3. sub[Len(b) + i] = Q[n + (Len(b) + i)]
        BY <1>3, <4>1
      <4> QED
        BY <1>1, <2>1, <4>1, <4>2, <4>3, SMTT(30)
    <3>2. ASSUME NEW i \in 1 .. Len(b) PROVE b[i] = Q[n + i]
      <4>1. i \in 1 .. Len(b) + Len(q) /\ i <= Len(b)
        BY <1>1
      <4>2. bq[i] = b[i]
        BY <1>2, <4>1
      <4>3. sub[i] = Q[n + i]
        BY <1>3, <4>1
      <4> QED
        BY <2>1, <4>1, <4>2, <4>3
    <3> QED
      BY <3>1, <3>2
  <2>2. ASSUME \A i \in 1 .. Len(b) : b[i] = Q[n + i],
               \A i \in 1 .. Len(q) : q[i] = Q[n + Len(b) + i],
               NEW i \in 1 .. Len(b) + Len(q)
        PROVE  bq[i] = sub[i]
    <3>1. CASE i <= Len(b)
      <4>1. i \in 1 .. Len(b)
        BY <1>1, <3>1
      <4>2. bq[i] = b[i]
        BY <1>2, <3>1
      <4>3. sub[i] = Q[n + i]
        BY <1>3
      <4> QED
        BY <2>2, <4>1, <4>2, <4>3
    <3>2. CASE ~(i <= Len(b))
      <4>1. i - Len(b) \in 1 .. Len(q) /\ n + Len(b) + (i - Len(b)) = n + i
        BY <1>1, <3>2
      <4> QED
        BY <1>2, <1>3, <2>2, <3>2, <4>1
    <3> QED
      BY <3>1, <3>2
  <2> QED
    BY <2>1, <2>2
<1> QED
  BY <1>4, <1>5 DEF bq, sub, Follows

LEMMA PushOrder ==
  ASSUME NEW S, NEW b \in Seq(S), NEW q \in Seq(S), NEW Q \in Seq(S), NEW A \in Seq(S), NEW c \in S,
         InOrder(b, q, Q, A)
  PROVE  InOrder(b, Append(q, c), Append(Q, c), A)
<1> DEFINE q2 == Append(q, c)
           Q2 == Append(Q, c)
           n == Ahead(b, q, Q)
<1>1. /\ q2 \in Seq(S) /\ Len(q2) = Len(q) + 1 /\ q2[Len(q) + 1] = c
      /\ \A i \in 1 .. Len(q) : q2[i] = q[i]
  BY AppendProperties
<1>2. /\ Q2 \in Seq(S) /\ Len(Q2) = Len(Q) + 1 /\ Q2[Len(Q) + 1] = c
      /\ \A i \in 1 .. Len(Q) : Q2[i] = Q[i]
  BY AppendProperties
<1>3. Len(b) \in Nat /\ Len(q) \in Nat /\ Len(Q) \in Nat
  BY LenProperties
<1>4. n \in Nat /\ Len(Q) = n + Len(b) + Len(q)
  BY <1>3 DEF InOrder, Ahead
<1>5. Ahead(b, q2, Q2) = n
  BY <1>1, <1>2, <1>3 DEF Ahead
<1>6. /\ \A i \in 1 .. Len(b) : b[i] = Q[n + i]
      /\ \A i \in 1 .. Len(q) : q[i] = Q[n + Len(b) + i]
  <2>1. b \o q = SubSeq(Q, n + 1, Len(Q))
    BY DEF InOrder
  <2> HIDE DEF n
  <2>2. Follows(b, q, Q, n)
    BY <1>4, <2>1, Pending DEF n
  <2> QED
    BY <2>2 DEF Follows
<1>7. /\ \A i \in 1 .. n : \E p \in DOMAIN A : A[p] = Q[i]
      /\ \A i, j \in 1 .. n, p, r \in DOMAIN A : A[p] = Q[i] /\ A[r] = Q[j] /\ i < j => p < r
  BY DEF InOrder, Placed
<1> HIDE DEF q2, Q2, n
<1>8. /\ \A i \in 1 .. Len(b) : b[i] = Q2[n + i]
      /\ \A i \in 1 .. Len(q2) : q2[i] = Q2[n + Len(b) + i]
  <2>1. ASSUME NEW i \in 1 .. Len(b) PROVE b[i] = Q2[n + i]
    <3>1. n + i \in 1 .. Len(Q)
      BY <1>3, <1>4
    <3> QED
      BY <1>2, <1>6, <3>1
  <2>2. ASSUME NEW i \in 1 .. Len(q2) PROVE q2[i] = Q2[n + Len(b) + i]
    <3>1. CASE i \in 1 .. Len(q)
      <4>1. n + Len(b) + i \in 1 .. Len(Q)
        BY <1>3, <1>4, <3>1
      <4> QED
        BY <1>1, <1>2, <1>6, <3>1, <4>1
    <3>2. CASE i = Len(q) + 1
      BY <1>1, <1>2, <1>3, <1>4, <3>2
    <3> QED
      BY <1>1, <1>3, <3>1, <3>2
  <2> QED
    BY <2>1, <2>2
<1>9. b \o q2 = SubSeq(Q2, n + 1, Len(Q2))
  <2>1. Follows(b, q2, Q2, n)
    BY <1>8 DEF Follows
  <2> QED
    <3>1. n \in Nat /\ n = Ahead(b, q2, Q2) /\ q2 \in Seq(S) /\ Q2 \in Seq(S)
      BY <1>1, <1>2, <1>4, <1>5
    <3> QED
      BY <2>1, <3>1, Pending
<1>10. \A i \in 1 .. n : Q2[i] = Q[i]
  BY <1>2, <1>3, <1>4
<1>11. InOrder(b, q2, Q2, A)
  <2>1. \A i \in 1 .. n : \E p \in DOMAIN A : A[p] = Q2[i]
    BY <1>7, <1>10
  <2>2. \A i, j \in 1 .. n, p, r \in DOMAIN A : A[p] = Q2[i] /\ A[r] = Q2[j] /\ i < j => p < r
    BY <1>7, <1>10
  <2>3. Placed(n, Q2, A)
    BY <2>1, <2>2 DEF Placed
  <2> QED
    BY <1>4, <1>5, <1>9, <2>3 DEF InOrder
<1> QED
  BY <1>11 DEF q2, Q2

LEMMA DirectOrder ==
  ASSUME NEW S, NEW b \in Seq(S), NEW q \in Seq(S), NEW Q \in Seq(S), NEW A \in Seq(S), NEW c \in S,
         InOrder(b, q, Q, A), \A i \in 1 .. Ahead(b, q, Q) : Q[i] # c
  PROVE  InOrder(b, q, Q, Append(A, c))
<1> DEFINE A2 == Append(A, c)
<1>1. \A p, x : p \in DOMAIN A2 /\ A2[p] = x <=> (p \in DOMAIN A /\ A[p] = x) \/ (p = Len(A) + 1 /\ c = x)
  BY Appended
<1> DEFINE n == Ahead(b, q, Q)
<1> HIDE DEF A2
<1>2. InOrder(b, q, Q, A2)
  <2>1. /\ n >= 0 /\ b \o q = SubSeq(Q, n + 1, Len(Q))
        /\ \A i \in 1 .. n : \E p \in DOMAIN A : A[p] = Q[i]
        /\ \A i, j \in 1 .. n, p, r \in DOMAIN A : A[p] = Q[i] /\ A[r] = Q[j] /\ i < j => p < r
    BY DEF InOrder, Placed
  <2>2. \A i \in 1 .. n : Q[i] # c
    OBVIOUS
  <2> HIDE DEF n
  <2>3. ASSUME NEW i \in 1 .. n PROVE \E p \in DOMAIN A2 : A2[p] = Q[i]
    BY <1>1, <2>1
  <2>4. \A i \in 1 .. n, p \in DOMAIN A2 : A2[p] = Q[i] => p \in DOMAIN A /\ A[p] = Q[i]
    BY <1>1, <2>2
  <2>5. \A i, j \in 1 .. n, p, r \in DOMAIN A2 : A2[p] = Q[i] /\ A2[r] = Q[j] /\ i < j => p < r
    BY <2>1, <2>4
  <2>6. Placed(n, Q, A2)
    BY <2>3, <2>5 DEF Placed
  <2> QED
    BY <2>1, <2>6 DEF InOrder, n
<1> QED
  BY <1>2 DEF A2

LEMMA DrainOrder ==
  ASSUME NEW S, NEW q \in Seq(S), NEW Q, NEW A, InOrder(<<>>, q, Q, A)
  PROVE  InOrder(q, <<>>, Q, A)
<1>1. <<>> \o q = q /\ q \o <<>> = q
  BY ConcatEmptySeq
<1>2. Ahead(<<>>, q, Q) = Ahead(q, <<>>, Q)
  BY LenProperties, EmptySeq DEF Ahead
<1> QED
  BY <1>1, <1>2 DEF InOrder

LEMMA ApplyOrder ==
  ASSUME NEW S, NEW b \in Seq(S), NEW q \in Seq(S), NEW Q \in Seq(S), NEW A \in Seq(S), b # <<>>,
         InOrder(b, q, Q, A), \A p \in DOMAIN A : A[p] # Head(b)
  PROVE  InOrder(Tail(b), q, Q, Append(A, Head(b)))
<1> DEFINE A2 == Append(A, Head(b))
           b2 == Tail(b)
           n == Ahead(b, q, Q)
           m == Ahead(b2, q, Q)
<1>1. /\ Head(b) \in S /\ b2 \in Seq(S) /\ Len(b2) = Len(b) - 1
      /\ \A i \in 1 .. Len(b2) : b2[i] = b[i + 1]
  BY HeadTailProperties
<1>2. Len(b) \in Nat \ {0} /\ Head(b) = b[1] /\ Len(q) \in Nat /\ Len(Q) \in Nat /\ Len(A) \in Nat /\ DOMAIN A = 1 .. Len(A)
  BY LenProperties, EmptySeq
<1>3. n \in Nat /\ m = n + 1 /\ Len(Q) = n + Len(b) + Len(q)
  BY <1>1, <1>2 DEF InOrder, Ahead
<1>4. /\ \A i \in 1 .. Len(b) : b[i] = Q[n + i]
      /\ \A i \in 1 .. Len(q) : q[i] = Q[n + Len(b) + i]
  <2>1. b \o q = SubSeq(Q, n + 1, Len(Q)) /\ n = Ahead(b, q, Q) /\ n \in Nat
    BY <1>3 DEF InOrder
  <2> HIDE DEF n
  <2>2. Follows(b, q, Q, n)
    BY <2>1, Pending
  <2> QED
    BY <2>2 DEF Follows
<1>5. /\ \A i \in 1 .. n : \E p \in DOMAIN A : A[p] = Q[i]
      /\ \A i, j \in 1 .. n, p, r \in DOMAIN A : A[p] = Q[i] /\ A[r] = Q[j] /\ i < j => p < r
  BY DEF InOrder, Placed
<1>6. \A p, x : p \in DOMAIN A2 /\ A2[p] = x <=> (p \in DOMAIN A /\ A[p] = x) \/ (p = Len(A) + 1 /\ Head(b) = x)
  BY <1>1, Appended
<1> HIDE DEF A2, b2, n, m
<1>7. /\ \A i \in 1 .. Len(b2) : b2[i] = Q[m + i]
      /\ \A i \in 1 .. Len(q) : q[i] = Q[m + Len(b2) + i]
  <2>1. ASSUME NEW i \in 1 .. Len(b2) PROVE b2[i] = Q[m + i]
    <3>1. i + 1 \in 1 .. Len(b) /\ n + (i + 1) = m + i
      BY <1>1, <1>2, <1>3
    <3> QED
      BY <1>1, <1>4, <3>1
  <2>2. m + Len(b2) = n + Len(b)
    BY <1>1, <1>2, <1>3
  <2> QED
    BY <1>4, <2>1, <2>2
<1>8. m \in Nat /\ m = Ahead(b2, q, Q) /\ b2 \in Seq(S)
  BY <1>1, <1>3 DEF m
<1>9. b2 \o q = SubSeq(Q, m + 1, Len(Q))
  <2>1. Follows(b2, q, Q, m)
    BY <1>7 DEF Follows
  <2> QED
    BY <1>8, <2>1, Pending
<1>10. Q[m] = Head(b)
  <2>1. 1 \in 1 .. Len(b)
    BY <1>2
  <2> QED
    BY <1>2, <1>3, <1>4, <2>1
<1>11. \A i \in 1 .. n : Q[i] # Head(b)
  BY <1>5
<1>12. \A i \in 1 .. m : i \in 1 .. n \/ i = m
  BY <1>3
<1>13. \A p \in DOMAIN A : p < Len(A) + 1
  BY <1>2
<1>14. \A i \in 1 .. m : \E p \in DOMAIN A2 : A2[p] = Q[i]
  <2> SUFFICES ASSUME NEW i \in 1 .. m PROVE \E p : p \in DOMAIN A2 /\ A2[p] = Q[i]
    OBVIOUS
  <2>1. CASE i \in 1 .. n
    BY <1>5, <1>6, <2>1
  <2>2. CASE i = m
    <3>1. PICK p : p = Len(A) + 1
      OBVIOUS
    <3> QED
      BY <1>6, <1>10, <2>2, <3>1
  <2> QED
    BY <1>12, <2>1, <2>2
<1>15. ASSUME NEW i \in 1 .. m, NEW j \in 1 .. m, NEW p \in DOMAIN A2, NEW r \in DOMAIN A2,
              A2[p] = Q[i], A2[r] = Q[j], i < j
       PROVE  p < r
  <2>1. i \in 1 .. n
    BY <1>3, <1>12, <1>15
  <2>2. p \in DOMAIN A /\ A[p] = Q[i]
    BY <1>6, <1>11, <1>15, <2>1
  <2>3. CASE j \in 1 .. n
    <3>1. r \in DOMAIN A /\ A[r] = Q[j]
      BY <1>6, <1>11, <1>15, <2>3
    <3> QED
      BY <1>5, <1>15, <2>1, <2>2, <2>3, <3>1
  <2>4. CASE j = m
    <3>1. r = Len(A) + 1
      BY <1>6, <1>10, <1>15, <2>4
    <3> QED
      BY <1>13, <2>2, <3>1
  <2> QED
    BY <1>12, <2>3, <2>4
<1>16. InOrder(b2, q, Q, A2)
  <2>1. Placed(m, Q, A2)
    BY <1>14, <1>15 DEF Placed
  <2> QED
    BY <1>8, <1>9, <2>1 DEF InOrder
<1> QED
  BY <1>16 DEF A2, b2

\* The batch being applied is Batched, when no other is.
LEMMA AloneBatched ==
  ASSUME NEW t \in Threads, \A u \in Threads : u # t => batch[u] = <<>>
  PROVE  Batched = batch[t]
<1> DEFINE D == {u \in Threads : batch[u] # <<>>}
<1>1. CASE batch[t] = <<>>
  <2>1. D = {}
    BY <1>1
  <2> QED
    BY <1>1, <2>1 DEF Batched
<1>2. CASE batch[t] # <<>>
  <2>1. D = {t}
    BY <1>2
  <2>2. (CHOOSE u \in D : TRUE) = t
    BY <2>1
  <2>3. Batched = IF D = {} THEN <<>> ELSE batch[CHOOSE u \in D : TRUE]
    BY DEF Batched
  <2> QED
    BY <2>1, <2>2, <2>3
<1> QED
  BY <1>1, <1>2

\* No two threads tick together, if only main stops.
LEMMA OneTicks ==
  ASSUME TypeOK, MainStands, OneLoopAlive, NEW t \in Threads, tpc[t] \in InTick,
         NEW u \in Threads, u # t
  PROVE  tpc[u] \notin InTick
<1>1. Threads = {Main} \cup Loops /\ 0 \notin Loops /\ handle \in {0} \cup Loops
  BY ThreadFacts DEF Threads, Main, TypeOK
<1>2. \A l \in Loops : tpc[l] \in InTick => l = handle \/ (pc[Main] = "assign" /\ l = target[Main])
  BY DEF OneLoopAlive, Alive, InTick
<1>3. pc[Main] = "assign" => handle = 0 /\ tpc[Main] \notin InTick
  BY DEF MainStands, InTick
<1>4. tpc[Main] \in InTick => handle = 0 /\ pc[Main] # "assign"
  BY DEF MainStands, InTick
<1> QED
  BY <1>1, <1>2, <1>3, <1>4

LEMMA OthersEmpty ==
  ASSUME TypeOK, Issued, MainStands, OneLoopAlive, NEW t \in Threads, tpc[t] \in InTick,
         NEW u \in Threads, u # t
  PROVE  batch[u] = <<>>
  BY OneTicks DEF Issued, InTick

LEMMA BatchedSeq ==
  ASSUME TypeOK, Issued, MainStands, OneLoopAlive
  PROVE  Batched \in Seq(1 .. issued)
<1>1. CASE \E t \in Threads : tpc[t] \in InTick
  <2>1. PICK t \in Threads : tpc[t] \in InTick
    BY <1>1
  <2>2. Batched = batch[t]
    BY <2>1, OthersEmpty, AloneBatched
  <2> QED
    BY <2>2 DEF Issued
<1>2. CASE ~\E t \in Threads : tpc[t] \in InTick
  <2>1. \A u \in Threads : batch[u] = <<>>
    BY <1>2 DEF Issued, InTick
  <2>2. Batched = <<>>
    BY <2>1, AloneBatched, ThreadFacts
  <2> QED
    BY <2>2, EmptySeq
<1> QED
  BY <1>1, <1>2

LEMMA OrderStep ==
  TypeOK /\ Issued /\ StoredOnce /\ Episode /\ QueueInOrder /\ [Next]_vars => QueueInOrder'
<1> SUFFICES ASSUME TypeOK, Issued, StoredOnce, MainStands, OneLoopAlive, StoppedByMain,
                    InOrder(Batched, cmds, queued, applied), [Next]_vars
             PROVE  InOrder(Batched, cmds, queued, applied)'
  BY SameProgram DEF Episode, StoppedByMain, QueueInOrder, InOrder, Placed, Ahead
<1> DEFINE S == 1 .. issued
<1>1. /\ Batched \in Seq(S) /\ cmds \in Seq(S) /\ queued \in Seq(S) /\ applied \in Seq(S)
  BY BatchedSeq DEF Issued
<1>2. ASSUME UNCHANGED <<log, batch>> PROVE InOrder(Batched, cmds, queued, applied)'
  <2>1. Batched' = Batched
    BY <1>2 DEF Batched
  <2> QED
    BY <1>2, <2>1 DEF log, InOrder, Ahead
<1>3. ASSUME NEW t \in Threads, IssueCommand(t) \/ StopCall(t) PROVE InOrder(Batched, cmds, queued, applied)'
  <2>1. UNCHANGED <<cmds, queued, applied, batch>>
    BY <1>3 DEF IssueCommand, StopCall, log
  <2>2. Batched' = Batched
    BY <2>1 DEF Batched
  <2> QED
    BY <2>1, <2>2 DEF InOrder, Ahead
<1>4. ASSUME NEW t \in Threads, PushCommand(t) PROVE InOrder(Batched, cmds, queued, applied)'
  <2>1. cmd[t] \in S
    BY <1>4 DEF PushCommand, At, Issued
  <2>2. InOrder(Batched, Append(cmds, cmd[t]), Append(queued, cmd[t]), applied)
    BY <1>1, <2>1, PushOrder
  <2> QED
    <3>1. cmds' = Append(cmds, cmd[t]) /\ queued' = Append(queued, cmd[t]) /\ UNCHANGED <<applied, batch>>
      BY <1>4 DEF PushCommand
    <3>2. Batched' = Batched
      BY <3>1 DEF Batched
    <3> QED
      BY <2>2, <3>1, <3>2 DEF InOrder, Ahead
<1>5. ASSUME NEW t \in Threads, ApplyDirect(t) PROVE InOrder(Batched, cmds, queued, applied)'
  <2>1. cmd[t] \in S /\ Stored("call", t, 1, cmd[t])
    BY <1>5 DEF ApplyDirect, At, Issued, Stored
  <2>2. \A p \in DOMAIN applied : applied[p] # cmd[t]
    BY <2>1 DEF StoredOnce, Stored
  <2>3. \A i \in 1 .. Ahead(Batched, cmds, queued) : queued[i] # cmd[t]
    BY <2>2 DEF InOrder, Placed
  <2>4. InOrder(Batched, cmds, queued, Append(applied, cmd[t]))
    BY <1>1, <2>1, <2>3, DirectOrder
  <2> QED
    <3>1. applied' = Append(applied, cmd[t]) /\ UNCHANGED <<cmds, queued, batch>>
      BY <1>5 DEF ApplyDirect
    <3>2. Batched' = Batched
      BY <3>1 DEF Batched
    <3> QED
      BY <2>4, <3>1, <3>2 DEF InOrder, Ahead
<1>6. ASSUME NEW t \in Threads, Drain(t) PROVE InOrder(Batched, cmds, queued, applied)'
  <2>1. /\ tpc[t] = "drain" /\ batch' = [batch EXCEPT ![t] = cmds] /\ cmds' = <<>>
        /\ UNCHANGED <<queued, applied>>
    BY <1>6 DEF Drain, Step
  <2>2. \A u \in Threads : u # t => batch[u] = <<>>
    BY <2>1, OthersEmpty DEF InTick
  <2>3. Batched = <<>>
    BY <2>1, <2>2, AloneBatched DEF Issued
  <2>4. \A u \in Threads : batch'[u] = IF u = t THEN cmds ELSE batch[u]
    BY <2>1 DEF TypeOK
  <2>5. Batched' = cmds
    <3> DEFINE D == {u \in Threads : batch'[u] # <<>>}
    <3>1. Batched' = IF D = {} THEN <<>> ELSE batch'[CHOOSE u \in D : TRUE]
      BY DEF Batched
    <3>2. CASE cmds = <<>>
      BY <2>2, <2>4, <3>1, <3>2
    <3>3. CASE cmds # <<>>
      <4>1. D = {t}
        BY <2>2, <2>4, <3>3
      <4>2. (CHOOSE u \in D : TRUE) = t
        BY <4>1
      <4> QED
        BY <2>4, <3>1, <4>1, <4>2
    <3> QED
      BY <3>2, <3>3
  <2>6. InOrder(cmds, <<>>, queued, applied)
    BY <1>1, <2>3, DrainOrder
  <2> QED
    BY <2>1, <2>5, <2>6 DEF InOrder, Ahead
<1>7. ASSUME NEW t \in Threads, ApplyQueued(t) PROVE InOrder(Batched, cmds, queued, applied)'
  <2> DEFINE b == batch[t]
  <2>1. /\ tpc[t] = "lock" /\ b # <<>> /\ batch' = [batch EXCEPT ![t] = Tail(b)]
        /\ applied' = Append(applied, Head(b)) /\ UNCHANGED <<cmds, queued>>
    BY <1>7 DEF ApplyQueued
  <2>2. \A u \in Threads : u # t => batch[u] = <<>>
    BY <2>1, OthersEmpty DEF InTick
  <2>3. Batched = b /\ b \in Seq(S)
    BY <2>1, <2>2, AloneBatched DEF Issued
  <2>4. \A u \in Threads : batch'[u] = IF u = t THEN Tail(b) ELSE batch[u]
    BY <2>1 DEF TypeOK
  <2>5. Batched' = Tail(b)
    <3> DEFINE D == {u \in Threads : batch'[u] # <<>>}
    <3>1. Batched' = IF D = {} THEN <<>> ELSE batch'[CHOOSE u \in D : TRUE]
      BY DEF Batched
    <3> HIDE DEF b
    <3>2. CASE Tail(b) = <<>>
      BY <2>2, <2>4, <3>1, <3>2
    <3>3. CASE Tail(b) # <<>>
      <4>1. D = {t}
        BY <2>2, <2>4, <3>3
      <4>2. (CHOOSE u \in D : TRUE) = t
        BY <4>1
      <4> QED
        BY <2>4, <3>1, <4>1, <4>2
    <3> QED
      BY <3>2, <3>3
  <2>6. \A p \in DOMAIN applied : applied[p] # Head(b)
    <3>1. Head(b) \in S /\ 1 \in DOMAIN b /\ b[1] = Head(b)
      <4> HIDE DEF b
      <4> QED
        BY <2>1, <2>3, Tailed
    <3>2. Stored("batch", t, 1, Head(b))
      BY <3>1 DEF Stored
    <3>3. \A p \in DOMAIN applied : Stored("applied", Main, p, applied[p])
      BY DEF Stored
    <3> HIDE DEF Stored, b
    <3> QED
      BY <3>1, <3>2, <3>3 DEF StoredOnce
  <2> HIDE DEF b
  <2>7. InOrder(Tail(b), cmds, queued, Append(applied, Head(b)))
    BY <1>1, <2>1, <2>3, <2>6, ApplyOrder
  <2> QED
    BY <2>1, <2>5, <2>7 DEF InOrder, Ahead
<1>8. ASSUME NEW t \in Threads, StopStore(t) \/ StopHandle(t) \/ Detach(t) \/ JoinBegin(t) \/ JoinEnd(t)
      PROVE  UNCHANGED <<log, batch>>
  BY <1>8 DEF StopStore, StopHandle, Detach, JoinBegin, JoinEnd
<1>9. ASSUME NEW t \in Threads, TickLock(t) \/ TickBody(t) \/ TickEnd(t) PROVE UNCHANGED <<log, batch>>
  BY <1>9 DEF TickLock, TickBody, TickEnd
<1>10. ASSUME WaitCall \/ RunCall \/ RunTicks \/ MainApi \/ Teardown PROVE UNCHANGED <<log, batch>>
  BY <1>10 DEF WaitCall, RunCall, RunTicks, MainApi, WaitSpin, RunStore, Spawn, AssignHandle, Teardown
<1>11. ASSUME NEW l \in Loops, Loop(l) PROVE UNCHANGED <<log, batch>>
  BY <1>11 DEF Loop, LoopStart, LoopCheck
<1>12. ASSUME UNCHANGED vars PROVE UNCHANGED <<log, batch>>
  BY <1>12 DEF vars, log
<1> QED
  BY <1>2, <1>3, <1>4, <1>5, <1>6, <1>7, <1>8, <1>9, <1>10, <1>11, <1>12 DEF Next, Api, Tick

-----------------------------------------------------------------------------
(***************************************************************************)
(* The theorems.                                                           *)
(***************************************************************************)

LEMMA InitInvariant == Init => IInv
<1> SUFFICES ASSUME Init PROVE IInv
  OBVIOUS
<1> USE ThreadFacts
<1>1. TypeOK /\ Issued /\ Reading
  BY InitTypes
<1>2. StoredSomewhere /\ StoredOnce
  <2>1. 1 .. issued = {}
    BY DEF Init
  <2> QED
    BY <2>1 DEF StoredSomewhere, StoredOnce
<1>3. Episode
  BY DEF Init, Episode, MainStands, OneLoopAlive, Alive, Main, Loops
<1>4. QueueInOrder
  <2>1. batch[Main] = <<>> /\ \A u \in Threads : u # Main => batch[u] = <<>>
    BY DEF Init
  <2>2. Batched = <<>>
    BY <2>1, AloneBatched
  <2>3. <<>> \in Seq(Nat) /\ Len(<<>>) = 0 /\ Ahead(<<>>, <<>>, <<>>) = 0
    <3>1. Len(<<>>) = 0 /\ <<>> \in Seq(Nat)
      BY EmptySeq
    <3>2. Ahead(<<>>, <<>>, <<>>) = Len(<<>>) - Len(<<>>) - Len(<<>>)
      BY Zenon DEF Ahead
    <3> QED
      BY <3>1, <3>2
  <2>4. Follows(<<>>, <<>>, <<>>, 0)
    BY <2>3 DEF Follows
  <2>5. <<>> \o <<>> = SubSeq(<<>>, 0 + 1, Len(<<>>))
    BY <2>3, <2>4, Pending
  <2>6. InOrder(<<>>, <<>>, <<>>, <<>>)
    BY <2>3, <2>5 DEF InOrder, Placed
  <2> QED
    BY <2>2, <2>6 DEF Init, QueueInOrder, InOrder, Placed, Ahead
<1> QED
  BY <1>1, <1>2, <1>3, <1>4 DEF IInv

LEMMA StepInvariant == IInv /\ [Next]_vars => IInv'
  BY TypeStep, ReadingStep, PlacesStep, EpisodeStep, OrderStep DEF IInv

\* The inductive invariant holds in every reachable state: who holds the tick's
\* lock, where each command is, and, while only main stops, that one loop is alive
\* at most and main stands where its handle says.
THEOREM ContinuousInvariant == Spec => []IInv
  BY InitInvariant, StepInvariant, PTL DEF Spec

\* Every variable keeps its type: in particular a call that carries a command
\* carries one that was issued, and a join waits for a loop.
THEOREM ContinuousTypes == Spec => []TypeOK
<1>1. IInv => TypeOK
  BY DEF IInv
<1> QED
  BY <1>1, ContinuousInvariant, PTL

\* internal.h:164-173: a structural change takes effect only while no thread is
\* between the start of a tick's body and the return of its last handler.
THEOREM ContinuousNoSwapInTick == Spec => NoSwapInTick
<1>1. IInv /\ [Next]_vars => [applied' # applied => \A t \in Threads : tpc[t] \notin {"body", "handlers"}]_vars
  BY AppliedOwned DEF IInv
<1> QED
  BY <1>1, ContinuousInvariant, PTL DEF Spec, NoSwapInTick

\* A command that was issued is in exactly one place: no command is lost between
\* the call, the queue, a batch and the network, and none is in two of them.
THEOREM ContinuousCommandsConserved == Spec => []CommandsConserved
<1>1. IInv => CommandsConserved
  BY Conserved DEF IInv
<1> QED
  BY <1>1, ContinuousInvariant, PTL

\* If only main stops: queued commands take effect in the order of their pushes.
THEOREM ContinuousQueueInOrder == Spec => []QueueInOrder
<1>1. IInv => QueueInOrder
  BY DEF IInv
<1> QED
  BY <1>1, ContinuousInvariant, PTL

\* If only main stops: one thread at a time ticks or applies a command directly.
THEOREM ContinuousSingleWriter == Spec => []SingleWriter
<1>1. IInv => SingleWriter
  <2> SUFFICES ASSUME TypeOK, MainStands, OneLoopAlive PROVE Cardinality(Writers) <= 1
    BY DEF IInv, Episode, SingleWriter
  <2>1. ASSUME NEW t \in Writers, NEW u \in Writers PROVE t = u
    <3>1. ASSUME NEW l \in Loops, l \in Writers PROVE tpc[l] \in InTick
      BY <3>1 DEF Writers, OneLoopAlive, InTick
    <3>2. ASSUME NEW l \in Loops, l \in Writers PROVE Main \notin Writers
      <4>1. l = handle \/ pc[Main] = "assign"
        BY <3>1, <3>2 DEF OneLoopAlive, Alive, InTick
      <4>2. l # 0
        BY DEF Loops
      <4> QED
        BY <4>1, <4>2 DEF Writers, MainStands, InTick
    <3>3. t \in Loops /\ u \in Loops => t = u
      BY <3>1, OneTicks, ThreadFacts
    <3> QED
      BY <3>2, <3>3 DEF Writers, Threads
  <2>2. CASE Writers = {}
    BY <2>2, FS_EmptySet
  <2>3. CASE Writers # {}
    <3>1. PICK t : Writers = {t}
      BY <2>1, <2>3
    <3> QED
      BY <3>1, FS_Singleton
  <2> QED
    BY <2>2, <2>3
<1> QED
  BY <1>1, ContinuousInvariant, PTL

\* If only main stops: back from stop or wait, main finds no loop alive.
THEOREM ContinuousStopJoins == Spec => []StopJoins
<1>1. IInv => StopJoins
  BY ThreadFacts DEF IInv, Episode, StopJoins, MainStands, OneLoopAlive, TypeOK, Main, Loops
<1> QED
  BY <1>1, ContinuousInvariant, PTL
=============================================================================
