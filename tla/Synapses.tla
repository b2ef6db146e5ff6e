------------------------------ MODULE Synapses ------------------------------
(***************************************************************************)
(* What the structural operations promise, with no storage in it: a        *)
(* network is a partial function from pairs of groups to weighted sets of  *)
(* synapses <<i, j>>, from neuron i of the source to neuron j of the       *)
(* target.  The request tells which operation a step claims to be.         *)
(***************************************************************************)
EXTENDS Integers, FiniteSetsExt, Functions

VARIABLES syn,       \* [pairs with a connection -> [kind, plastic, w: synapse -> weight]]
          request    \* the operation that was carried out last, and its arguments

Magnitude(x) == IF x < 0 THEN -x ELSE x
Drive(w, j) == MapThenSumSet(LAMBDA s : Magnitude(w[s]), {s \in DOMAIN w : s[2] = j})
Updated(p, w) == syn' = [syn EXCEPT ![p].w = w]

Init == syn = <<>> /\ request = [op |-> "none"]

(* A pair gets a connection, in place of the one it may have had.           *)
Connect(r) ==
    /\ r.op = "connect"
    /\ syn' = [q \in DOMAIN syn \cup {r.pair} |-> IF q = r.pair THEN r.conn ELSE syn[q]]

(* The synapses of the cross product that are missing, and no other, are    *)
(* added; a group projecting on itself gets no self-synapse.                *)
Grow(r) ==
    LET old == syn[r.pair].w
        new == {s \in r.pre \X r.post :
                  s \notin DOMAIN old /\ (r.pair[1] = r.pair[2] => s[1] # s[2])}
    IN  /\ r.op = "grow" /\ syn[r.pair].kind = "sparse"
        /\ Updated(r.pair, [s \in DOMAIN old \cup new |-> IF s \in new THEN r.weight ELSE old[s]])

(* Weak synapses go: sparse ones altogether, others become zero.            *)
Prune(r) ==
    LET old == syn[r.pair].w
        strong == {s \in DOMAIN old : Magnitude(old[s]) >= r.threshold}
    IN  /\ r.op = "prune"
        /\ Updated(r.pair, IF syn[r.pair].kind = "sparse" THEN Restrict(old, strong)
                           ELSE [s \in DOMAIN old |-> IF s \in strong THEN old[s] ELSE 0])

(* No neuron's drive exceeds the target afterwards; no synapse comes, goes, *)
(* grows or changes its sign, and neurons within the target keep theirs.    *)
Normalize(r) ==
    LET old == syn[r.pair].w  new == syn'[r.pair].w
    IN  /\ r.op = "normalize" /\ Updated(r.pair, new) /\ DOMAIN new = DOMAIN old
        /\ \A s \in DOMAIN old :
             /\ Magnitude(new[s]) <= Magnitude(old[s]) /\ new[s] * old[s] >= 0
             /\ Drive(new, s[2]) <= r.target
             /\ Drive(old, s[2]) <= r.target => new[s] = old[s]

(* Plasticity is switched without touching a synapse.                       *)
SetPlasticity(r) ==
    r.op = "set_plasticity" /\ syn' = [syn EXCEPT ![r.pair].plastic = r.enabled]

(* Learning moves the weight of a plastic synapse, never the wiring.        *)
Learn(r) ==
    /\ r.op = "learn" /\ syn[r.pair].plastic
    /\ \E s \in DOMAIN syn[r.pair].w : Updated(r.pair, [syn[r.pair].w EXCEPT ![s] = r.weight])

(* The process ends, and its memory with it.                                *)
Forget(r) == r.op = "none" /\ syn' = <<>>

(* A save begins, or a load has connected every pair it has and is done.    *)
Kept(r) == r.op \in {"save", "load"} /\ UNCHANGED syn

Step(r) ==
    \/ Connect(r) \/ Forget(r) \/ Kept(r)
    \/ r.op \notin {"none", "save", "load"} /\ r.pair \in DOMAIN syn
       /\ (Grow(r) \/ Prune(r) \/ Normalize(r) \/ SetPlasticity(r) \/ Learn(r))
Next == Step(request')

Spec == Init /\ [][Next]_<<syn, request>>
=============================================================================
