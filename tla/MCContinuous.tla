---------------------------- MODULE MCContinuous ----------------------------
(* Instances of Continuous for TLC *)
EXTENDS Continuous

MainCalls == {"run", "run_continuous", "stop", "wait", "command"}

\* Main does everything, handlers nothing, issue commands, or stop the loop.
MCPrograms ==
  {[main |-> MainCalls, handler |-> h] : h \in {{}, {"command"}, {"stop"}}}
=============================================================================
