-------------------------------- MODULE MCVm --------------------------------
(* Small programs for Vm: every sequence of at most MaxItems items of the   *)
(* menu, after one of a few preludes.                                       *)
EXTENDS Vm

CONSTANT MaxItems

int(v) == [k |-> "Int", v |-> v]
float(v) == [k |-> "Float", v |-> v]
str == [k |-> "Str"]
yes == [k |-> "Bool", v |-> 1]
id(n) == [k |-> "Ident", n |-> n]
opt(n, e) == [name |-> n, e |-> e]
call(f, es) == [k |-> "Call", n |-> f, args |-> [i \in DOMAIN es |-> opt("", es[i])]]
bin(op, a, b) == [k |-> "Binary", op |-> op, a |-> a, b |-> b]

lif == <<opt("tau", float(200)), opt("threshold", int(-55)), opt("rest", int(-70)),
         opt("reset", int(-75))>>
group(n) == [k |-> "NodeGroup", name |-> n, size |-> int(4), params |-> lif]
let(n, e) == [k |-> "Let", name |-> n, anno |-> "None", init |-> e]
floatLet(n, e) == [let(n, e) EXCEPT !.anno = "Float"]
assign(n, e) == [k |-> "Assign", name |-> n, init |-> e]
write(e) == [k |-> "Print", args |-> <<e>>]
connect(plastic) == [k |-> "Connect", ck |-> "Dense", src |-> "G", dst |-> "G",
                     opts |-> <<opt("weight", float(5)), opt("plastic", plastic)>>]
stdp == [k |-> "Stdp", src |-> "G", dst |-> "G",
         opts |-> <<opt("lr_pot", float(1)), opt("lr_dep", float(1)), opt("window_ms", int(20)),
                    opt("modulator", id("S"))>>]
prune == [k |-> "Prune", src |-> "G", dst |-> "G", opts |-> <<opt("threshold", float(1))>>]
emit == [k |-> "AtEmit", name |-> "G", time |-> [k |-> "Duration", v |-> 50],
         slice |-> "Range", lo |-> int(0), hi |-> int(4), current |-> float(300)]
run == [k |-> "Run", duration |-> [k |-> "Duration", v |-> 1000], dt |-> NoExpr,
        body |-> <<emit>>]
if(c, body) == [k |-> "If", cond |-> c, body |-> body, els |-> <<>>]
for(body) == [k |-> "For", var |-> "I", lo |-> int(0), hi |-> int(2), body |-> body]
while(body) == [k |-> "While", cond |-> yes, body |-> body]
onSpike(body) == [k |-> "OnSpike", name |-> "G", body |-> body]
continuous(body) == [k |-> "RunCont", dt |-> NoExpr, body |-> body]
do(op) == [k |-> op]

Menu ==
    {group("G"), group("S"),
     [k |-> "Signal", name |-> "S", init |-> int(1)],
     [k |-> "Stream", name |-> "T", size |-> int(2)],
     [k |-> "Oscillator", name |-> "O",
      opts |-> <<opt("frequency", int(8)), opt("amplitude", float(5)), opt("target", id("G"))>>],
     let("X", int(3)), floatLet("X", int(3)), let("X", id("G")), let("X", [k |-> "Device"]),
     let("X", bin("+", id("S"), int(1))),
     connect(yes), stdp, prune, run, do("Stop"), do("Wait"),
     [k |-> "Bind", src |-> "T", dst |-> "G",
      opts |-> <<opt("encoding", id("Poisson")), opt("max_freq", float(1000))>>],
     [k |-> "Expr", e |-> call("stream_set", <<id("T"), int(0), id("X")>>)],
     let("X", call("stream_set", <<id("T"), int(0), int(1)>>)),
     [k |-> "Export", src |-> "G", path |-> str],
     assign("S", int(0)), assign("X", int(4)), assign("X", float(5)), write(id("X")),
     if(yes, <<let("X", str), run>>), if(yes, <<let("G", int(1)), prune>>),
     for(<<let("Y", bin("*", id("I"), id("X"))), run>>), while(<<run, do("Wait")>>),
     onSpike(<<let("Y", id("neuron_index")), assign("X", id("Y"))>>),
     onSpike(<<if(bin(">", id("spike_time"), id("X")), <<do("Stop")>>), prune>>),
     onSpike(<<run>>), onSpike(<<while(<<do("Wait")>>)>>),
     continuous(<<>>), continuous(<<let("X", int(1))>>),
     continuous(<<onSpike(<<assign("S", id("X"))>>)>>)}

Preludes == {<<>>, <<group("G")>>,
             <<let("X", int(3)), group("G"), connect(yes)>>,
             <<group("G"), connect(yes), onSpike(<<do("Stop"), prune>>), continuous(<<>>),
               do("Stop")>>,
             <<group("G"), onSpike(<<let("Y", id("neuron_index"))>>), continuous(<<>>),
               do("Stop")>>,
             <<group("G"), [k |-> "Signal", name |-> "S", init |-> int(1)], let("X", float(5)),
               onSpike(<<write(id("X")), assign("S", id("spike_time"))>>)>>}

MCPrograms == {pre \o q : pre \in Preludes, q \in UNION {[1..n -> Menu] : n \in 0..MaxItems}}

(* The ones that are disciplined but for what main does beside a loop.      *)
MCScopedPrograms == {p \in MCPrograms :
                       UniqueNames(p) /\ DeclaredFirst(p) /\ NoContinuousLets(p)}
=============================================================================
