------------------------------- MODULE Stream -------------------------------
(***************************************************************************)
(* One external stream (NdlStream of runtime/ndl_rt_internal.h): the ring  *)
(* a host thread pushes to without a lock, the drain at each tick, and the *)
(* mailbox writes that share `latest' with it under mx.                    *)
(*                                                                         *)
(* Every atomic access is a step, and a memcpy copies one element per step *)
(* in any order, so that a slot read while it is written shows as a vector *)
(* nobody pushed.  Threads: the producer, the ticking thread, and whoever  *)
(* calls stream_set.  Poisson encoding only reads `latest' and is left out.*)
(* Contents are numbered as in StreamRegister.                             *)
(***************************************************************************)
EXTENDS Integers, Sequences

CONSTANTS Cap,      \* kRingCap
          Elems,    \* the indices of a sample
          MaxPush,  \* bound: pushes
          MaxSet    \* bound: mailbox writes

ASSUME StreamAssumption ==
  /\ Cap \in Nat \ {0}
  /\ Elems # {}
  /\ MaxPush \in Nat /\ MaxSet \in Nat

VARIABLES
  ring, wpos, rpos,   \* the slots and the two counters
  latest, mx,         \* the register and its mutex, held across steps by the drain
  target,             \* "none" (nullptr) or "group"
  ppc, pleft,         \* producer: control point, elements its memcpy still copies
  tpc, r, w, tleft,   \* tick: control point, its copies of rpos and wpos, memcpy
  pushes, sets,       \* calls so far
  before              \* history: latest when the drain took mx

vars == <<ring, wpos, rpos, latest, mx, target, ppc, pleft, tpc, r, w, tleft, pushes, sets, before>>

Vector(x) == [e \in Elems |-> x]
Slot(n) == n % Cap

Init ==
  /\ ring = [i \in 0 .. Cap - 1 |-> Vector(0)]
  /\ wpos = 0 /\ rpos = 0
  /\ latest = Vector(0) /\ mx = "free"
  /\ target = "none"
  /\ ppc = "idle" /\ pleft = {}
  /\ tpc = "idle" /\ r = 0 /\ w = 0 /\ tleft = {}
  /\ pushes = 0 /\ sets = 0
  /\ before = Vector(0)

(* ---- ndl_rt_stream_push ---- *)

ticker == <<tpc, r, w, tleft, before>>

\* Mutant: one slot too many
PushLoad_OffByOne ==
  /\ ppc = "idle" /\ pushes < MaxPush
  /\ pushes' = pushes + 1
  /\ IF wpos - rpos > Cap THEN UNCHANGED <<ppc, pleft>> ELSE ppc' = "copy" /\ pleft' = Elems
  /\ UNCHANGED <<ring, wpos, rpos, latest, mx, target, ticker, sets>>

\* both loads; a full ring drops the sample
PushLoad ==
  /\ ppc = "idle" /\ pushes < MaxPush
  /\ pushes' = pushes + 1
  /\ IF wpos - rpos >= Cap THEN UNCHANGED <<ppc, pleft>> ELSE ppc' = "copy" /\ pleft' = Elems
  /\ UNCHANGED <<ring, wpos, rpos, latest, mx, target, ticker, sets>>

PushCopy(e) ==
  /\ ppc = "copy" /\ e \in pleft
  /\ ring' = [ring EXCEPT ![Slot(wpos)][e] = pushes]
  /\ pleft' = pleft \ {e}
  /\ UNCHANGED <<wpos, rpos, latest, mx, target, ppc, ticker, pushes, sets>>

\* Mutant: the store does not wait for the copy
PushStore_Relaxed ==
  /\ ppc = "copy"
  /\ wpos' = wpos + 1
  /\ ppc' = "idle"
  /\ UNCHANGED <<ring, rpos, latest, mx, target, pleft, ticker, pushes, sets>>

PushStore ==
  /\ ppc = "copy" /\ pleft = {}
  /\ wpos' = wpos + 1
  /\ ppc' = "idle"
  /\ UNCHANGED <<ring, rpos, latest, mx, target, pleft, ticker, pushes, sets>>

(* ---- ndl_rt_stream_set, ndl_rt_bind_input_stream ---- *)

\* Mutant: no lock
Set_Unlocked(e) ==
  /\ sets < MaxSet
  /\ sets' = sets + 1
  /\ latest' = [latest EXCEPT ![e] = -sets']
  /\ UNCHANGED <<ring, wpos, rpos, mx, target, ppc, pleft, ticker, pushes>>

Set(e) ==
  /\ mx = "free"
  /\ sets < MaxSet
  /\ sets' = sets + 1
  /\ latest' = [latest EXCEPT ![e] = -sets']
  /\ UNCHANGED <<ring, wpos, rpos, mx, target, ppc, pleft, ticker, pushes>>

Bind ==
  /\ target = "none"
  /\ target' = "group"
  /\ UNCHANGED <<ring, wpos, rpos, latest, mx, ppc, pleft, ticker, pushes, sets>>

(* ---- apply_streams, step 1: drain the ring ---- *)

caller == <<target, ppc, pleft, pushes, sets>>

\* the mutex, then rpos; an unbound stream is not drained
DrainLock ==
  /\ tpc = "idle" /\ target = "group"
  /\ mx = "free"
  /\ mx' = "held"
  /\ r' = rpos
  /\ before' = latest
  /\ tpc' = "load"
  /\ UNCHANGED <<ring, wpos, rpos, latest, w, tleft, caller>>

DrainLoad ==
  /\ tpc = "load"
  /\ w' = wpos
  /\ tleft' = Elems
  /\ tpc' = "copy"
  /\ UNCHANGED <<ring, wpos, rpos, latest, mx, r, before, caller>>

DrainCopy(e) ==
  /\ tpc = "copy" /\ r # w /\ e \in tleft
  /\ latest' = [latest EXCEPT ![e] = ring[Slot(r)][e]]
  /\ tleft' = tleft \ {e}
  /\ UNCHANGED <<ring, wpos, rpos, mx, tpc, r, w, before, caller>>

DrainNext ==
  /\ tpc = "copy" /\ r # w /\ tleft = {}
  /\ r' = r + 1
  /\ tleft' = Elems
  /\ UNCHANGED <<ring, wpos, rpos, latest, mx, tpc, w, before, caller>>

\* Mutant: rpos is never stored
DrainStore_Missing ==
  /\ tpc = "copy" /\ r = w
  /\ tpc' = "unlock"
  /\ UNCHANGED <<ring, wpos, rpos, latest, mx, r, w, tleft, before, caller>>

DrainStore ==
  /\ tpc = "copy" /\ r = w
  /\ rpos' = r
  /\ tpc' = "unlock"
  /\ UNCHANGED <<ring, wpos, latest, mx, r, w, tleft, before, caller>>

DrainUnlock ==
  /\ tpc = "unlock"
  /\ mx' = "free"
  /\ tpc' = "idle"
  /\ UNCHANGED <<ring, wpos, rpos, latest, r, w, tleft, before, caller>>

Tick == DrainLock \/ DrainLoad \/ (\E e \in Elems : DrainCopy(e)) \/ DrainNext \/ DrainStore
        \/ DrainUnlock

Next ==
  \/ PushLoad \/ (\E e \in Elems : PushCopy(e)) \/ PushStore
  \/ (\E e \in Elems : Set(e)) \/ Bind
  \/ Tick

\* Ticks go on; a host owes neither a push nor a mailbox write.
Spec == Init /\ [][Next]_vars
FairSpec == Spec /\ WF_vars(Tick)

-----------------------------------------------------------------------------
(* Properties *)

TypeOK ==
  /\ ring \in [0 .. Cap - 1 -> [Elems -> Nat]]
  /\ wpos \in Nat /\ rpos \in Nat
  /\ latest \in [Elems -> Int] /\ before \in [Elems -> Int]
  /\ mx \in {"free", "held"} /\ target \in {"none", "group"}
  /\ ppc \in {"idle", "copy"} /\ pleft \subseteq Elems /\ (ppc = "idle" => pleft = {})
  /\ tpc \in {"idle", "load", "copy", "unlock"} /\ tleft \subseteq Elems
  /\ r \in Nat /\ w \in Nat
  /\ pushes \in Nat /\ sets \in Nat

\* v2.cpp:246-253 and network.cpp:360-372: the counters never drift apart by
\* more than the capacity, and the drain's copies lie between them.
Counters ==
  /\ rpos <= wpos /\ wpos - rpos <= Cap
  /\ tpc = "load" => r = rpos
  /\ tpc = "copy" => rpos <= r /\ r <= w /\ w <= wpos

\* The producer and the drain are never in the same slot at the same time
\* (internal.h:113-114: a lock-free ring), for counters that only grow.
SlotExclusion ==
  ~(ppc = "copy" /\ tpc = "copy" /\ r # w /\ Slot(wpos) = Slot(r))

\* The stream as its two sides see it: no sample is torn, reordered, lost after
\* it was accepted or delivered twice, and none is dropped unless the ring is
\* full; a mailbox write does not disappear in the middle of a drain.
Register ==
  INSTANCE StreamRegister
    WITH queue <- [i \in 1 .. wpos - rpos |-> ring[Slot(rpos + i - 1)]],
         reg <- IF tpc \in {"load", "copy"} THEN before ELSE latest,
         pushes <- IF ppc = "copy" THEN pushes - 1 ELSE pushes
ImplementsRegister == Register!Spec

\* What was accepted is drained once the stream is target, however many samples
\* are pushed in the meantime.
AcceptedIsDrained == \A n \in 1 .. MaxPush : (target = "group" /\ wpos >= n) ~> rpos >= n
=============================================================================
