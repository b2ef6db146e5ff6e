---------------------------- MODULE MCSimulation ----------------------------
(* One input neuron and a clamped group of two; networks CUDA takes,        *)
(* refuses and misreads, and one with the features of v2.                   *)
EXTENDS Simulation

CONSTANT Pruning  \* whether a handler prunes

MCSizes == <<1, 2>>
MCReset == -1
Dense == {<<0, 0>>, <<0, 1>>}
Conns(kind, plastic) == <<[src |-> 1, dst |-> 2, kind |-> "dense", plastic |-> TRUE],
                          [src |-> 2, dst |-> 2, kind |-> kind, plastic |-> plastic]>>
Weights2 == [s \in Dense |-> IF s[2] = 0 THEN 2 ELSE 3]
Plain == [conns |-> SubSeq(Conns("dense", TRUE), 1, 1), weights |-> <<Weights2>>,
          handlers |-> <<<<>>, IF Pruning THEN <<"prune">> ELSE <<"observe", "inject">>>>,
          oscillators |-> {}, streams |-> {}, modulated |-> FALSE]
Recurrent == [Plain EXCEPT !.conns = Conns("sparse", FALSE),
                           !.weights = <<Weights2, (<<1, 0>> :> 2 @@ <<0, 1>> :> 3)>>]
Paired == [Plain EXCEPT !.conns = Conns("one2one", TRUE),
                        !.weights = <<Weights2, (<<0, 0>> :> 2 @@ <<1, 1>> :> 1)>>]
Modulated == [Plain EXCEPT !.modulated = TRUE, !.handlers = <<<<"signal">>, <<>>>>,
                           !.oscillators = {[g |-> 2, wave |-> <<1, 0, -1>>]}, !.streams = {<<1, 0>>}]
MCNets == {Plain, Recurrent, Paired, Modulated}
MCInjects == {[g |-> 1, lo |-> 0, hi |-> 1, t |-> 0, cur |-> 6],
              [g |-> 2, lo |-> 0, hi |-> 9, t |-> 2, cur |-> 5],
              [g |-> 2, lo |-> -1, hi |-> 1, t |-> 2, cur |-> 1]}
=============================================================================
