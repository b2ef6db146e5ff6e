---------------------------- MODULE StreamProofs ----------------------------
(***************************************************************************)
(* For every capacity of the ring and every sample size: the counters stay *)
(* within the capacity, the two sides never share a slot, and the stream   *)
(* implements StreamRegister.                                              *)
(***************************************************************************)
EXTENDS Stream, SequenceTheorems, TLAPS

\* Numbers that are less than a capacity apart have different slots.
LEMMA SlotsDiffer ==
  ASSUME NEW a \in Nat, NEW b \in Nat, a < b, b - a < Cap
  PROVE  Slot(a) # Slot(b)
<1> USE StreamAssumption
<1>1. a = Cap * (a \div Cap) + (a % Cap) /\ b = Cap * (b \div Cap) + (b % Cap)
  OBVIOUS
<1>2. (a \div Cap) \in Int /\ (b \div Cap) \in Int
  OBVIOUS
<1>3. SUFFICES ASSUME a % Cap = b % Cap PROVE FALSE
  BY DEF Slot
<1>4. b - a = Cap * ((b \div Cap) - (a \div Cap))
  BY <1>1, <1>2, <1>3
<1> DEFINE d == (b \div Cap) - (a \div Cap)
<1>5. d \in Int /\ b - a = Cap * d
  BY <1>2, <1>4
<1> HIDE DEF d
<1>6. d <= 0 => Cap * d <= 0
  BY <1>5
<1>7. d >= 1 => Cap * d >= Cap
  BY <1>5
<1> QED
  BY <1>5, <1>6, <1>7

LEMMA SlotType == \A n \in Nat : Slot(n) \in 0 .. Cap - 1
  BY StreamAssumption DEF Slot

(***************************************************************************)
(* The invariant.  Copied says what the memcpys have moved so far: the     *)
(* producer's into its slot, the drain's into latest, which between two    *)
(* samples holds the last one copied, and before the first one what it held*)
(* when the mutex was taken.                                               *)
(***************************************************************************)

Drained(e) == IF r = rpos THEN before[e] ELSE ring[Slot(r - 1)][e]

Copied ==
  /\ ppc = "copy" => pushes \in 1 .. MaxPush /\ wpos - rpos < Cap /\ \A e \in Elems \ pleft : ring[Slot(wpos)][e] = pushes
  /\ mx = IF tpc = "idle" THEN "free" ELSE "held"
  /\ tpc = "load" => latest = before
  /\ tpc = "copy" => /\ \A e \in tleft : latest[e] = Drained(e)
                     /\ \A e \in Elems \ tleft : r # w /\ latest[e] = ring[Slot(r)][e]

IInv == TypeOK /\ Counters /\ Copied

LEMMA InitInv == Init => IInv
<1> SUFFICES ASSUME Init PROVE IInv
  OBVIOUS
<1>1. TypeOK
  BY StreamAssumption DEF Init, TypeOK, Vector
<1>2. Counters
  BY StreamAssumption DEF Init, Counters
<1>3. Copied
  BY DEF Init, Copied
<1> QED
  BY <1>1, <1>2, <1>3 DEF IInv

LEMMA NextInv == IInv /\ [Next]_vars => IInv'
<1> SUFFICES ASSUME IInv, [Next]_vars PROVE IInv'
  OBVIOUS
<1> USE StreamAssumption DEF IInv, TypeOK, Counters
<1>1. CASE PushLoad
  <2>1. TypeOK'
    BY <1>1 DEF PushLoad, ticker
  <2>2. Counters'
    BY <1>1 DEF PushLoad, ticker
  <2>3. Copied'
    BY <1>1 DEF PushLoad, ticker, Copied, Drained
  <2> QED
    BY <2>1, <2>2, <2>3
<1>2. ASSUME NEW e \in Elems, PushCopy(e) PROVE IInv'
  <2>1. TypeOK' /\ Counters'
    BY <1>2, SlotType DEF PushCopy, ticker
  <2>2. \A n \in Nat : rpos <= n /\ n < wpos => ring'[Slot(n)] = ring[Slot(n)]
    BY <1>2, SlotsDiffer DEF PushCopy, ticker, Copied
  <2>3. ring'[Slot(wpos)] = [ring[Slot(wpos)] EXCEPT ![e] = pushes]
    BY <1>2, SlotType DEF PushCopy
  <2>4. \A x \in Elems \ pleft' : ring'[Slot(wpos)][x] = pushes
    <3>1. Slot(wpos) \in 0 .. Cap - 1
      BY SlotType
    <3>2. ring[Slot(wpos)] \in [Elems -> Nat]
      BY <3>1
    <3> QED
      BY <1>2, <2>3, <3>2 DEF PushCopy, Copied
  <2>5. tpc = "copy" /\ r # rpos => r - 1 \in Nat /\ rpos <= r - 1 /\ r - 1 < wpos
    OBVIOUS
  <2>6. tpc = "copy" => \A x \in Elems : Drained(x)' = Drained(x)
    BY <1>2, <2>2, <2>5, SMTT(30) DEF PushCopy, ticker, Drained
  <2>7. tpc = "copy" /\ r # w => r \in Nat /\ rpos <= r /\ r < wpos
    OBVIOUS
  <2>8. tpc = "copy" /\ r # w => ring'[Slot(r)] = ring[Slot(r)]
    BY <2>2, <2>7
  <2>9. Copied'
    BY <1>2, <2>4, <2>6, <2>8 DEF PushCopy, ticker, Copied
  <2> QED
    BY <2>1, <2>9
<1>3. CASE PushStore
  <2>1. TypeOK'
    BY <1>3 DEF PushStore, ticker
  <2>2. Counters'
    BY <1>3 DEF PushStore, ticker, Copied
  <2>3. Copied'
    BY <1>3 DEF PushStore, ticker, Copied, Drained
  <2> QED
    BY <2>1, <2>2, <2>3
<1>4. ASSUME NEW e \in Elems, Set(e) PROVE IInv'
  <2>1. TypeOK'
    BY <1>4 DEF Set, ticker
  <2>2. Counters'
    BY <1>4 DEF Set, ticker
  <2>3. Copied'
    BY <1>4 DEF Set, ticker, Copied, Drained
  <2> QED
    BY <2>1, <2>2, <2>3
<1>5. CASE Bind
  BY <1>5 DEF Bind, ticker, Copied, Drained
<1>6. CASE DrainLock
  <2>1. TypeOK'
    BY <1>6 DEF DrainLock, caller
  <2>2. Counters'
    BY <1>6 DEF DrainLock, caller
  <2>3. Copied'
    BY <1>6 DEF DrainLock, caller, Copied, Drained
  <2> QED
    BY <2>1, <2>2, <2>3
<1>7. CASE DrainLoad
  <2>1. TypeOK'
    BY <1>7 DEF DrainLoad, caller
  <2>2. Counters'
    BY <1>7 DEF DrainLoad, caller
  <2>3. Copied'
    BY <1>7 DEF DrainLoad, caller, Copied, Drained
  <2> QED
    BY <2>1, <2>2, <2>3
<1>8. ASSUME NEW e \in Elems, DrainCopy(e) PROVE IInv'
  <2>1. Slot(r) \in 0 .. Cap - 1
    BY SlotType
  <2>2. ring[Slot(r)][e] \in Int
    BY <1>8, <2>1
  <2>3. TypeOK' /\ Counters'
    BY <1>8, <2>2 DEF DrainCopy, caller
  <2>4. Copied'
    BY <1>8 DEF DrainCopy, caller, Copied, Drained
  <2> QED
    BY <2>3, <2>4
<1>9. CASE DrainNext
  <2>1. TypeOK' /\ Counters'
    BY <1>9 DEF DrainNext, caller
  <2>2. \A e \in Elems : latest[e] = Drained(e)'
    BY <1>9 DEF DrainNext, caller, Copied, Drained
  <2>3. Copied'
    BY <1>9, <2>2 DEF DrainNext, caller, Copied
  <2> QED
    BY <2>1, <2>3
<1>10. CASE DrainStore
  <2>1. TypeOK'
    BY <1>10 DEF DrainStore, caller
  <2>2. Counters'
    BY <1>10 DEF DrainStore, caller
  <2>3. Copied'
    BY <1>10 DEF DrainStore, caller, Copied, Drained
  <2> QED
    BY <2>1, <2>2, <2>3
<1>11. CASE DrainUnlock
  <2>1. TypeOK'
    BY <1>11 DEF DrainUnlock, caller
  <2>2. Counters'
    BY <1>11 DEF DrainUnlock, caller
  <2>3. Copied'
    BY <1>11 DEF DrainUnlock, caller, Copied, Drained
  <2> QED
    BY <2>1, <2>2, <2>3
<1>12. CASE UNCHANGED vars
  <2>1. TypeOK'
    BY <1>12 DEF vars
  <2>2. Counters'
    BY <1>12 DEF vars
  <2>3. Copied'
    BY <1>12 DEF vars, Copied, Drained
  <2> QED
    BY <2>1, <2>2, <2>3
<1> QED
  BY <1>1, <1>2, <1>3, <1>4, <1>5, <1>6, <1>7, <1>8, <1>9, <1>10, <1>11, <1>12
  DEF Next, Tick

\* The inductive invariant holds in every reachable state of a stream.
THEOREM StreamInvariant == Spec => []IInv
  BY InitInv, NextInv, PTL DEF Spec

\* The counters of a stream stay within its capacity, whatever the host pushes.
THEOREM StreamCounters == Spec => []Counters
  BY StreamInvariant, PTL DEF IInv

\* Every variable keeps its type: the counters are naturals, a slot of the
\* ring and a mailbox hold vectors.
THEOREM StreamTypes == Spec => []TypeOK
  BY StreamInvariant, PTL DEF IInv

\* Producer and drain never share a slot, for every capacity.
THEOREM StreamSlots == Spec => []SlotExclusion
<1>1. IInv => SlotExclusion
  <2> SUFFICES ASSUME IInv, ppc = "copy", tpc = "copy", r # w PROVE Slot(wpos) # Slot(r)
    BY DEF SlotExclusion
  <2>1. r \in Nat /\ wpos \in Nat /\ r < wpos /\ wpos - r < Cap
    BY StreamAssumption DEF IInv, TypeOK, Counters, Copied
  <2> QED
    BY <2>1, SlotsDiffer
<1> QED
  BY <1>1, StreamInvariant, PTL

-----------------------------------------------------------------------------
(***************************************************************************)
(* Refinement.  The push takes effect when wpos is stored (or, if it is    *)
(* dropped, when rpos is loaded), the drain when rpos is stored.           *)
(***************************************************************************)

Queue == [i \in 1 .. wpos - rpos |-> ring[Slot(rpos + i - 1)]]
Reg == IF tpc \in {"load", "copy"} THEN before ELSE latest
Count == IF ppc = "copy" THEN pushes - 1 ELSE pushes
Vectors == [Elems -> Nat]

RegisterPush ==
  /\ Count < MaxPush /\ Count' = Count + 1
  /\ Queue' = IF Len(Queue) < Cap THEN Append(Queue, Vector(Count')) ELSE Queue
  /\ Reg' = Reg /\ sets' = sets

RegisterDrain ==
  /\ \E n \in 1 .. Len(Queue) : Reg' = Queue[n] /\ Queue' = SubSeq(Queue, n + 1, Len(Queue))
  /\ Count' = Count /\ sets' = sets

RegisterSet(e) ==
  /\ sets < MaxSet /\ sets' = sets + 1
  /\ Reg' = [Reg EXCEPT ![e] = -sets']
  /\ Queue' = Queue /\ Count' = Count

Stutter == Queue' = Queue /\ Reg' = Reg /\ Count' = Count /\ sets' = sets

\* The names above are the instance's definitions under the refinement mapping.
LEMMA MappedNext ==
  /\ RegisterPush => Register!Next
  /\ RegisterDrain => Register!Next
  /\ \A e \in Elems : RegisterSet(e) => Register!Next
  /\ Stutter => UNCHANGED Register!vars
<1>1. RegisterPush => Register!Push
  BY DEF RegisterPush, Register!Push, Queue, Reg, Count, Vector, Register!Vector
<1>2. RegisterDrain => Register!Drain
  BY DEF RegisterDrain, Register!Drain, Queue, Reg, Count
<1>3. \A e \in Elems : RegisterSet(e) => Register!Set(e)
  BY DEF RegisterSet, Register!Set, Queue, Reg, Count
<1>4. Stutter => UNCHANGED Register!vars
  BY DEF Stutter, Register!vars, Queue, Reg, Count
<1> QED
  BY <1>1, <1>2, <1>3, <1>4 DEF Register!Next

QueueOK ==
  /\ Queue \in Seq(Vectors) /\ Len(Queue) = wpos - rpos
  /\ \A i \in 1 .. wpos - rpos : Queue[i] = ring[Slot(rpos + i - 1)]

LEMMA QueueType == IInv => QueueOK
<1> SUFFICES ASSUME IInv PROVE QueueOK
  OBVIOUS
<1> USE DEF IInv
<1>1. wpos - rpos \in Nat
  BY DEF TypeOK, Counters
<1>2. \A i \in 1 .. wpos - rpos : ring[Slot(rpos + i - 1)] \in Vectors
  <2> TAKE i \in 1 .. wpos - rpos
  <2>1. Slot(rpos + i - 1) \in 0 .. Cap - 1
    BY SlotType DEF TypeOK
  <2> QED
    BY <2>1 DEF TypeOK, Vectors
<1>3. Queue \in [1 .. wpos - rpos -> Vectors]
  BY <1>2 DEF Queue
<1>4. Queue \in Seq(Vectors)
  BY <1>1, <1>3, SeqDef
<1>5. Len(Queue) = wpos - rpos
  <2>1. DOMAIN Queue = 1 .. wpos - rpos
    BY <1>3
  <2>2. Len(Queue) \in Nat /\ DOMAIN Queue = 1 .. Len(Queue)
    BY <1>4, LenProperties
  <2> QED
    BY <1>1, <2>1, <2>2
<1> QED
  BY <1>4, <1>5 DEF Queue, QueueOK

LEMMA PushStoreRefines == IInv /\ QueueOK /\ QueueOK' /\ PushStore => RegisterPush
<1> SUFFICES ASSUME IInv, QueueOK, QueueOK', PushStore PROVE RegisterPush
  OBVIOUS
<1> USE StreamAssumption DEF IInv
<1>1. /\ wpos \in Nat /\ rpos \in Nat /\ rpos <= wpos /\ wpos - rpos < Cap
      /\ wpos' = wpos + 1 /\ rpos' = rpos /\ ring' = ring
  BY DEF PushStore, TypeOK, Counters, Copied
<1>2. Count < MaxPush /\ Count' = Count + 1 /\ Count' = pushes /\ pushes \in Nat
  BY DEF PushStore, Count, Copied, TypeOK
<1>3. ring[Slot(wpos)] = Vector(pushes)
  <2>1. ring[Slot(wpos)] \in Vectors
    BY SlotType DEF TypeOK, Vectors
  <2>2. \A e \in Elems : ring[Slot(wpos)][e] = pushes
    BY DEF PushStore, Copied
  <2> QED
    BY <2>1, <2>2 DEF Vectors, Vector
<1>4. Vector(pushes) \in Vectors
  BY <1>2 DEF Vector, Vectors
<1>5. /\ Queue \in Seq(Vectors) /\ Len(Queue) = wpos - rpos
      /\ \A i \in 1 .. wpos - rpos : Queue[i] = ring[Slot(rpos + i - 1)]
  BY DEF QueueOK
<1>6. /\ Queue' \in Seq(Vectors) /\ Len(Queue') = wpos + 1 - rpos
      /\ \A i \in 1 .. wpos + 1 - rpos : Queue'[i] = ring[Slot(rpos + i - 1)]
  BY <1>1 DEF QueueOK
<1>7. Queue' = Append(Queue, Vector(pushes))
  <2> DEFINE A == Append(Queue, Vector(pushes))
  <2>1. /\ A \in Seq(Vectors) /\ Len(A) = wpos + 1 - rpos
        /\ \A i \in 1 .. wpos - rpos : A[i] = Queue[i]
        /\ A[wpos + 1 - rpos] = Vector(pushes)
    BY <1>1, <1>4, <1>5, AppendProperties
  <2>2. \A i \in 1 .. wpos + 1 - rpos : Queue'[i] = A[i]
    <3> TAKE i \in 1 .. wpos + 1 - rpos
    <3>1. i \in 1 .. wpos - rpos \/ i = wpos + 1 - rpos
      BY <1>1
    <3>2. CASE i \in 1 .. wpos - rpos
      BY <3>2, <1>5, <1>6, <2>1
    <3>3. CASE i = wpos + 1 - rpos
      <4>1. rpos + i - 1 = wpos
        BY <1>1, <3>3
      <4> QED
        BY <4>1, <3>3, <1>3, <1>6, <2>1
    <3> QED
      BY <3>1, <3>2, <3>3
  <2> HIDE DEF A
  <2>3. Queue' = A
    BY <1>6, <2>1, <2>2, SeqEqual
  <2> QED
    BY <2>3 DEF A
<1>8. Reg' = Reg /\ sets' = sets
  BY DEF PushStore, ticker, Reg
<1> QED
  BY <1>1, <1>2, <1>5, <1>7, <1>8 DEF RegisterPush

LEMMA DrainStoreRefines == IInv /\ QueueOK /\ QueueOK' /\ DrainStore => RegisterDrain \/ Stutter
<1> SUFFICES ASSUME IInv, QueueOK, QueueOK', DrainStore PROVE RegisterDrain \/ Stutter
  OBVIOUS
<1> USE StreamAssumption DEF IInv
<1>1. /\ wpos \in Nat /\ rpos \in Nat /\ r \in Nat /\ rpos <= r /\ r <= wpos
      /\ wpos' = wpos /\ rpos' = r /\ ring' = ring
  BY DEF DrainStore, caller, TypeOK, Counters
<1>2. Count' = Count /\ sets' = sets
  BY DEF DrainStore, caller, Count
<1>3. Reg = before /\ Reg' = latest
  BY DEF DrainStore, Reg
<1>4. latest \in [Elems -> Int] /\ before \in [Elems -> Int]
  BY DEF TypeOK
<1>5. \A e \in Elems : latest[e] = Drained(e)
  BY DEF DrainStore, Copied
<1>6. CASE r = rpos
  <2>1. latest = before
    BY <1>4, <1>5, <1>6 DEF Drained
  <2>2. Queue' = Queue
    BY <1>1, <1>6 DEF Queue
  <2> QED
    BY <1>2, <1>3, <2>1, <2>2 DEF Stutter
<1>7. CASE r # rpos
  <2> DEFINE n == r - rpos
  <2>1. n \in 1 .. wpos - rpos /\ rpos + n - 1 = r - 1 /\ r - 1 \in Nat
    BY <1>1, <1>7
  <2>2. /\ Queue \in Seq(Vectors) /\ Len(Queue) = wpos - rpos
        /\ \A i \in 1 .. wpos - rpos : Queue[i] = ring[Slot(rpos + i - 1)]
    BY DEF QueueOK
  <2>3. ring[Slot(r - 1)] \in [Elems -> Nat]
    BY <2>1, SlotType DEF TypeOK
  <2>4. latest = ring[Slot(r - 1)]
    BY <1>4, <1>5, <1>7, <2>3 DEF Drained
  <2>5. Reg' = Queue[n]
    BY <1>3, <2>1, <2>2, <2>4
  <2>6. /\ Queue' \in Seq(Vectors) /\ Len(Queue') = wpos - r
        /\ \A i \in 1 .. wpos - r : Queue'[i] = ring[Slot(r + i - 1)]
    BY <1>1 DEF QueueOK
  <2> DEFINE B == SubSeq(Queue, n + 1, Len(Queue))
  <2>7. \A i \in n + 1 .. Len(Queue) : Queue[i] \in Vectors
    BY <2>1, <2>2, ElementOfSeq
  <2>8. /\ B \in Seq(Vectors)
        /\ Len(B) = IF n + 1 <= Len(Queue) THEN Len(Queue) - (n + 1) + 1 ELSE 0
        /\ \A i \in 1 .. Len(Queue) - (n + 1) + 1 : B[i] = Queue[n + 1 + i - 1]
    <3>1. n + 1 \in Int /\ Len(Queue) \in Int
      BY <1>1, <2>1, <2>2
    <3> HIDE DEF n
    <3> QED
      BY <2>7, <3>1, SubSeqProperties
  <2>9. Len(B) = wpos - r /\ \A i \in 1 .. wpos - r : B[i] = Queue[n + i]
    <3>1. Len(Queue) - (n + 1) + 1 = wpos - r
      BY <1>1, <2>2
    <3>2. ~(n + 1 <= Len(Queue)) => wpos - r = 0
      BY <1>1, <2>2
    <3>3. \A i \in 1 .. wpos - r : n + 1 + i - 1 = n + i
      BY <1>1, <2>1
    <3> HIDE DEF n, B
    <3> QED
      BY <2>8, <3>1, <3>2, <3>3
  <2>10. \A i \in 1 .. wpos - r : Queue'[i] = B[i]
    <3> TAKE i \in 1 .. wpos - r
    <3>1. n + i \in 1 .. wpos - rpos /\ rpos + (n + i) - 1 = r + i - 1
      BY <1>1, <2>1
    <3>2. Queue[n + i] = ring[Slot(r + i - 1)]
      BY <2>2, <3>1
    <3> HIDE DEF n, B
    <3> QED
      BY <2>6, <2>9, <3>2
  <2>11. Queue' = B
    <3> HIDE DEF B
    <3> QED
      BY <2>6, <2>8, <2>9, <2>10, SeqEqual
  <2>12. n \in 1 .. Len(Queue)
    BY <2>1, <2>2
  <2> HIDE DEF n
  <2>13. \E m \in 1 .. Len(Queue) : Reg' = Queue[m] /\ Queue' = SubSeq(Queue, m + 1, Len(Queue))
    BY <2>5, <2>11, <2>12 DEF B
  <2> QED
    BY <2>13, <1>2 DEF RegisterDrain
<1> QED
  BY <1>6, <1>7

LEMMA StepRefines == IInv /\ QueueOK /\ QueueOK' /\ [Next]_vars => [Register!Next]_(Register!vars)
<1> SUFFICES ASSUME IInv, QueueOK, QueueOK', [Next]_vars PROVE [Register!Next]_(Register!vars)
  OBVIOUS
<1> USE StreamAssumption DEF IInv
<1>1. CASE PushLoad
  <2>1. Queue' = Queue /\ Reg' = Reg /\ sets' = sets
    BY <1>1 DEF PushLoad, ticker, Queue, Reg
  <2>2. CASE wpos - rpos >= Cap
    <3>1. Len(Queue) = wpos - rpos
      BY DEF QueueOK
    <3>2. ~(Len(Queue) < Cap)
      BY <2>2, <3>1 DEF TypeOK
    <3>3. Count < MaxPush /\ Count' = Count + 1
      BY <1>1, <2>2 DEF PushLoad, Count, TypeOK
    <3> QED
      BY <2>1, <3>2, <3>3, MappedNext DEF RegisterPush
  <2>3. CASE ~(wpos - rpos >= Cap)
    <3>1. Count' = Count
      BY <1>1, <2>3 DEF PushLoad, Count, TypeOK
    <3> QED
      BY <2>1, <3>1, MappedNext DEF Stutter
  <2> QED
    BY <2>2, <2>3
<1>2. ASSUME NEW e \in Elems, PushCopy(e) PROVE [Register!Next]_(Register!vars)
  <2>1. \A i \in 1 .. wpos - rpos : ring'[Slot(rpos + i - 1)] = ring[Slot(rpos + i - 1)]
    <3> TAKE i \in 1 .. wpos - rpos
    <3>1. /\ rpos + i - 1 \in Nat /\ wpos \in Nat
          /\ rpos + i - 1 < wpos /\ wpos - (rpos + i - 1) < Cap
      BY <1>2 DEF PushCopy, TypeOK, Counters, Copied
    <3>2. Slot(rpos + i - 1) # Slot(wpos)
      BY <3>1, SlotsDiffer
    <3> QED
      BY <1>2, <3>1, <3>2, SlotType DEF PushCopy, TypeOK
  <2>2. Queue' = Queue
    BY <1>2, <2>1 DEF PushCopy, Queue
  <2>3. Reg' = Reg /\ Count' = Count /\ sets' = sets
    BY <1>2 DEF PushCopy, ticker, Reg, Count
  <2> QED
    BY <2>2, <2>3, MappedNext DEF Stutter
<1>3. CASE PushStore
  BY <1>3, PushStoreRefines, MappedNext
<1>4. ASSUME NEW e \in Elems, Set(e) PROVE [Register!Next]_(Register!vars)
  <2>1. Reg = latest /\ Reg' = latest'
    BY <1>4 DEF Set, ticker, Reg, Copied, TypeOK
  <2>2. Queue' = Queue /\ Count' = Count
    BY <1>4 DEF Set, ticker, Queue, Count
  <2>3. RegisterSet(e)
    BY <1>4, <2>1, <2>2 DEF Set, RegisterSet
  <2> QED
    BY <2>3, MappedNext
<1>5. CASE Bind
  <2>1. Stutter
    BY <1>5 DEF Bind, ticker, Stutter, Queue, Reg, Count
  <2> QED
    BY <2>1, MappedNext
<1>6. CASE DrainLock
  <2>1. Stutter
    BY <1>6 DEF DrainLock, caller, Stutter, Queue, Reg, Count
  <2> QED
    BY <2>1, MappedNext
<1>7. CASE DrainLoad
  <2>1. Stutter
    BY <1>7 DEF DrainLoad, caller, Stutter, Queue, Reg, Count
  <2> QED
    BY <2>1, MappedNext
<1>8. ASSUME NEW e \in Elems, DrainCopy(e) PROVE [Register!Next]_(Register!vars)
  <2>1. Stutter
    BY <1>8 DEF DrainCopy, caller, Stutter, Queue, Reg, Count
  <2> QED
    BY <2>1, MappedNext
<1>9. CASE DrainNext
  <2>1. Stutter
    BY <1>9 DEF DrainNext, caller, Stutter, Queue, Reg, Count
  <2> QED
    BY <2>1, MappedNext
<1>10. CASE DrainStore
  BY <1>10, DrainStoreRefines, MappedNext
<1>11. CASE DrainUnlock
  <2>1. Stutter
    BY <1>11 DEF DrainUnlock, caller, Stutter, Queue, Reg, Count
  <2> QED
    BY <2>1, MappedNext
<1>12. CASE UNCHANGED vars
  <2>1. Stutter
    BY <1>12 DEF vars, Stutter, Queue, Reg, Count
  <2> QED
    BY <2>1, MappedNext
<1> QED
  BY <1>1, <1>2, <1>3, <1>4, <1>5, <1>6, <1>7, <1>8, <1>9, <1>10, <1>11, <1>12
  DEF Next, Tick

LEMMA InitRefines == Init => Register!Init
<1> SUFFICES ASSUME Init PROVE Register!Init
  OBVIOUS
<1>1. wpos - rpos = 0
  BY DEF Init
<1>2. Queue = <<>>
  <2>1. QueueOK
    BY InitInv, QueueType
  <2>2. Queue \in Seq(Vectors) /\ Len(Queue) = 0
    BY <1>1, <2>1 DEF QueueOK
  <2> QED
    BY <2>2, EmptySeq
<1>3. Reg = Vector(0) /\ Count = 0 /\ sets = 0
  BY DEF Init, Reg, Count
<1> QED
  BY <1>2, <1>3 DEF Register!Init, Queue, Reg, Count, Vector, Register!Vector

\* A stream is the bounded queue and the register its two sides believe in: for
\* every capacity and sample size, no sample is torn, reordered, lost after its
\* acceptance or delivered twice.
THEOREM StreamImplementsRegister == Spec => ImplementsRegister
  BY InitRefines, StepRefines, QueueType, StreamInvariant, PTL DEF Spec, ImplementsRegister, Register!Spec
=============================================================================
