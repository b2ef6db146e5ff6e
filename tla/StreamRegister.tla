--------------------------- MODULE StreamRegister ---------------------------
(***************************************************************************)
(* What an external stream promises its two sides (runtime/ndl_rt.h, the   *)
(* streams section): a vector register with a bounded queue in front of it.*)
(* A push is accepted whole or dropped whole when the queue is full; a tick*)
(* drains some of the queue and leaves the newest drained sample in the    *)
(* register; a mailbox write changes one element.                          *)
(*                                                                         *)
(* The n-th push carries the vector that is n everywhere, the n-th mailbox *)
(* write the value -n.                                                     *)
(***************************************************************************)
EXTENDS Integers, Sequences

CONSTANTS Cap, Elems, MaxPush, MaxSet

VARIABLES queue, reg, pushes, sets

vars == <<queue, reg, pushes, sets>>

Vector(x) == [e \in Elems |-> x]

Init == queue = <<>> /\ reg = Vector(0) /\ pushes = 0 /\ sets = 0

Push ==
  /\ pushes < MaxPush
  /\ pushes' = pushes + 1
  /\ queue' = IF Len(queue) < Cap THEN Append(queue, Vector(pushes')) ELSE queue
  /\ UNCHANGED <<reg, sets>>

Drain ==
  /\ \E n \in 1 .. Len(queue) :
       /\ reg' = queue[n]
       /\ queue' = SubSeq(queue, n + 1, Len(queue))
  /\ UNCHANGED <<pushes, sets>>

Set(e) ==
  /\ sets < MaxSet
  /\ sets' = sets + 1
  /\ reg' = [reg EXCEPT ![e] = -sets']
  /\ UNCHANGED <<queue, pushes>>

Next == Push \/ Drain \/ \E e \in Elems : Set(e)

Spec == Init /\ [][Next]_vars
=============================================================================
