----------------------------- MODULE ParallelFor -----------------------------
(***************************************************************************)
(* What ndl_rt_parallel_for promises its caller, the tick of the network   *)
(* layer: the body is invoked on sub-ranges of [begin, end) and on nothing *)
(* else, no index is visited twice, and the call comes back only when every*)
(* index has been visited.  How many threads do it, and in which order, is *)
(* left open.                                                              *)
(***************************************************************************)
EXTENDS Integers

CONSTANTS Span,     \* indices are drawn from 0 .. Span - 1
          Bodies,   \* the (function, context) pairs callers pass
          Grains    \* the values of minGrain callers pass

Index == 0 .. Span - 1

\* The calls that are not turned away by `!body || end <= begin`.
Call == {a \in [begin : 0 .. Span, end : 0 .. Span, grain : Grains, body : Bodies] :
           a.begin < a.end}

Range(a) == a.begin .. a.end - 1

NoRuns == [b \in Bodies |-> [i \in Index |-> 0]]

\* runs after body b has visited the indices of I once more
Visit(r, b, I) == [r EXCEPT ![b] = [i \in Index |-> IF i \in I THEN @[i] + 1 ELSE @[i]]]

VARIABLES busy,  \* a call is in progress
          arg,   \* its arguments
          runs   \* runs[b][i]: visits of index i by body b since the call began

vars == <<busy, arg, runs>>

Init == /\ busy = FALSE
        /\ arg \in Call
        /\ runs = NoRuns

Begin(a) == /\ ~busy
            /\ busy' = TRUE
            /\ arg' = a
            /\ runs' = NoRuns

Execute(I) == /\ busy
              /\ \A i \in I : runs[arg.body][i] = 0
              /\ runs' = Visit(runs, arg.body, I)
              /\ UNCHANGED <<busy, arg>>

Return == /\ busy
          /\ \A i \in Range(arg) : runs[arg.body][i] = 1
          /\ busy' = FALSE
          /\ UNCHANGED <<arg, runs>>

Next == \/ \E a \in Call : Begin(a)
        \/ \E I \in SUBSET Range(arg) : Execute(I)
        \/ Return

Spec == Init /\ [][Next]_vars
==============================================================================
