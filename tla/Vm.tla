--------------------------------- MODULE Vm ---------------------------------
(***************************************************************************)
(* The tree-walking interpreter (src/src/vm.cpp) running an accepted       *)
(* program.  A value is abstracted to its kind, so every condition may go  *)
(* either way and a right operand is always evaluated; a defensive type    *)
(* guard that fires is the state panic.                                    *)
(*                                                                         *)
(* Each thread has the list of what it still has to do.  Main executes the *)
(* program; a simulation run calls spike handlers on main, a continuous    *)
(* episode calls them on the loop thread.  Both threads share the one      *)
(* stack of scopes, as the interpreter does.  The process ends with main.  *)
(***************************************************************************)
EXTENDS Codegen

CONSTANTS Programs,    \* the programs the front end may hand over
          MaxIter,     \* bound on the iterations of a loop statement
          MaxSpikes    \* bound on the handler calls of a behaviour

ASSUME BoundsAssumption == MaxIter \in Nat /\ MaxSpikes \in Nat

VARIABLES prog,      \* the accepted program, see Delivered
          ctrl,      \* [Threads -> what the thread still has to do]
          scopes,    \* scopes_: the stack of scopes, name -> kind
          handlers,  \* handlers_: the registered on_spike statements
          streams,   \* streams_: the names of the created streams
          signals,   \* signals_: the names of the declared signals
          running,   \* cont_running: the loop may start another tick
          loop,      \* the loop thread: none, joinable or detached
          spikes,    \* handler calls so far
          panic      \* ndl_rt_panic: the process exits with 70

vars == <<prog, ctrl, scopes, handlers, streams, signals, running, loop, spikes, panic>>

Threads == {"main", "loop"}
Do(op) == [k |-> op]

-----------------------------------------------------------------------------
(* Evaluation: the kind of a value, or Panic.                               *)

VmBuiltins ==
    {Sig("sin", <<"Num">>, "Float"),
     Sig("random_uniform", <<"Num", "Num">>, "Float"),
     Sig("random_gaussian", <<"Num", "Num">>, "Float"),
     Sig("get_weight", <<"Group", "Group", "Int", "Int">>, "Float"),
     Sig("tensor_new", <<"Int">>, "Tensor"),
     Sig("tensor_get", <<"Tensor", "Int">>, "Float"),
     Sig("tensor_set", <<"Tensor", "Int", "Num">>, "Void"),
     Sig("dump_tensor", <<"Str", "Tensor">>, "Void"),
     Sig("get_membrane_potentials", <<"Group">>, "Tensor"),
     Sig("predict_linear", <<"Tensor", "Tensor">>, "Tensor"),
     Sig("vector_l2_norm", <<"Tensor">>, "Float"),
     Sig("stream_set", <<"Stream", "Int", "Num">>, "Void")}

FindVar(n) == IF Visible(scopes, n) = {} THEN "Panic" ELSE Innermost(scopes, n)

EvalUnary(op, v) ==
    IF v \in (IF op = "!" THEN {"Bool"} ELSE Numeric \cup {"Duration"}) THEN v ELSE "Panic"

EvalBinary(op, l, r) ==
    LET nums == {l, r} \subseteq Numeric
        num == IF {l, r} = {"Int"} THEN "Int" ELSE "Float"
        both(v) == l = v /\ r = v
    IN  CASE op \in {"&&", "||"} /\ both("Bool") -> "Bool"
          [] op \in {"+", "-", "*", "/"} /\ nums -> num
          [] op \in {"+", "-"} /\ both("Duration") -> "Duration"
          [] op = "+" /\ both("Str") -> "Str"
          [] op = "*" /\ l = "Duration" /\ r \in Numeric -> "Duration"
          [] op = "*" /\ l \in Numeric /\ r = "Duration" -> "Duration"
          [] op = "/" /\ both("Duration") -> "Float"
          [] op = "/" /\ l = "Duration" /\ r \in Numeric -> "Duration"
          [] op = "%" /\ both("Int") -> "Int"
          [] op \in {"==", "!=", "<", ">", "<=", ">="} /\ (nums \/ both("Duration")) -> "Bool"
          [] op \in {"==", "!="} /\ (both("Bool") \/ both("Str")) -> "Bool"
          [] OTHER -> "Panic"

RECURSIVE Eval(_)
EvalCall(e) ==
    LET accepts(kind, a) == IF kind = "Stream" THEN a.k = "Ident" /\ a.n \in streams
                            ELSE Accepts(kind, Eval(a))
        called == {b \in VmBuiltins :
                     /\ b.name = e.n /\ Len(e.args) = Len(b.params)
                     /\ \A i \in DOMAIN e.args : accepts(b.params[i], e.args[i].e)}
    IN  IF called = {} THEN "Panic" ELSE The({b.res : b \in called})

Eval(e) ==
    CASE e.k \in {"Int", "Float", "Duration", "Str", "Bool"} -> e.k
      [] e.k = "Ident" -> FindVar(e.n)
      [] e.k = "Unary" -> EvalUnary(e.op, Eval(e.a))
      [] e.k = "Binary" -> EvalBinary(e.op, Eval(e.a), Eval(e.b))
      [] e.k = "Call" -> EvalCall(e)
      [] OTHER -> "Panic"

IsGroup(n) == FindVar(n) = "Group"
OptionsOk(opts, kinds) ==
    \A i \in DOMAIN opts : /\ opts[i].name \in DOMAIN kinds
                           /\ Eval(opts[i].e) \in kinds[opts[i].name]
Others(opts, n) == SelectSeq(opts, LAMBDA o : o.name # n)

-----------------------------------------------------------------------------
(* What each statement requires for its guards to stay silent.              *)

NodeGroupOk(s) ==
    /\ Eval(s.size) = "Int"
    /\ \A i \in DOMAIN s.params : /\ Eval(s.params[i].e) \in Numeric
                                  /\ s.params[i].name \in LifParams \cup {""}

ConnectOk(s) ==
    /\ IsGroup(s.src) /\ IsGroup(s.dst)
    /\ OptionsOk(Others(s.opts, "weight_func"),
                 [weight |-> Numeric, density |-> Numeric, plastic |-> {"Bool"}])
    /\ \A e \in Given(s.opts, "weight_func") :
         /\ e.k = "Call" /\ e.n \in {"random_gaussian", "random_uniform"}
         /\ Len(e.args) = 2
         /\ \A i \in 1..2 : Eval(e.args[i].e) \in Numeric

StdpOk(s) ==
    /\ IsGroup(s.src) /\ IsGroup(s.dst)
    /\ OptionsOk(Others(s.opts, "modulator"),
                 [n \in {"lr_pot", "lr_dep", "window_ms", ""} |-> Numeric])
    /\ \A e \in Given(s.opts, "modulator") : e.k = "Ident"

PrintOk(s) == \A i \in DOMAIN s.args : Eval(s.args[i]) \notin {"Void", "Panic"}

OscillatorOk(s) ==
    /\ OptionsOk(Others(s.opts, "target"),
                 [n \in {"frequency", "amplitude", "phase"} |-> Numeric])
    /\ Given(s.opts, "target") # {}
    /\ \A e \in Given(s.opts, "target") : e.k = "Ident" /\ IsGroup(e.n)

BindOk(s) ==
    /\ s.src \in streams /\ IsGroup(s.dst)
    /\ OptionsOk(Others(s.opts, "encoding"), [n \in {"max_freq", "kick"} |-> Numeric])
    /\ Given(s.opts, "encoding") \subseteq {[k |-> "Ident", n |-> "Poisson"]}

StructuralOk(s) ==
    /\ IsGroup(s.src) /\ IsGroup(s.dst)
    /\ OptionsOk(s.opts, IF s.k = "Prune" THEN [threshold |-> Numeric]
                         ELSE [enabled |-> {"Bool"}])

AtEmitOk(s) ==
    /\ IsGroup(s.name)
    /\ s.slice # "All" => Eval(s.lo) \in Numeric
    /\ s.slice = "Range" => Eval(s.hi) \in Numeric
    /\ Eval(s.time) \in RunTime
    /\ Eval(s.current) \in Numeric

RunOk(s) ==
    /\ s.duration # NoExpr => Eval(s.duration) \in RunTime
    /\ s.dt # NoExpr => Eval(s.dt) \in RunTime
    /\ \A i \in DOMAIN s.body : s.body[i].k = "AtEmit" => AtEmitOk(s.body[i])

Ok(s) ==
    CASE s.k = "NodeGroup" -> NodeGroupOk(s)
      [] s.k = "Connect" -> ConnectOk(s)
      [] s.k = "Stdp" -> StdpOk(s)
      [] s.k = "Let" -> Eval(s.init) # "Panic"
      [] s.k = "Assign" -> /\ Eval(s.init) \in IF s.name \in signals THEN Numeric
                                                ELSE Types
                           /\ FindVar(s.name) # "Panic"
      [] s.k = "Print" -> PrintOk(s)
      [] s.k \in {"Save", "Load"} -> Eval(s.path) = "Str"
      [] s.k = "Export" -> IsGroup(s.src) /\ Eval(s.path) = "Str"
      [] s.k \in {"If", "While"} -> Eval(s.cond) = "Bool"
      [] s.k = "For" -> Eval(s.lo) = "Int" /\ Eval(s.hi) = "Int"
      [] s.k = "Run" -> RunOk(s)
      [] s.k = "OnSpike" -> IsGroup(s.name)
      [] s.k = "Signal" -> Eval(s.init) \in Numeric
      [] s.k = "Oscillator" -> OscillatorOk(s)
      [] s.k = "Stream" -> Eval(s.size) = "Int"
      [] s.k = "Bind" -> BindOk(s)
      [] s.k = "RunCont" -> s.dt # NoExpr => Eval(s.dt) \in RunTime
      [] s.k \in {"SetPlasticity", "Prune"} -> StructuralOk(s)
      [] s.k = "Expr" -> Eval(s.e) # "Panic"
      [] s.k = "AtEmit" -> FALSE
      [] OTHER -> TRUE

-----------------------------------------------------------------------------
(* Every statement of a body, at any depth.                                 *)

Children(s) == IF "els" \in DOMAIN s THEN s.body \o s.els
               ELSE IF "body" \in DOMAIN s THEN s.body ELSE <<>>

RECURSIVE Flat(_)
Flat(body) == FoldLeft(LAMBDA acc, s : acc \o <<s>> \o Flat(Children(s)), <<>>, body)
StmtsIn(body) == ToSet(Flat(body))

-----------------------------------------------------------------------------
(* Analysis resolves names once, statically; the interpreter looks them up  *)
(* in the stack of scopes it happens to have.  A disciplined program is one *)
(* on which the two cannot differ.                                          *)

GlobalKinds == {"NodeGroup", "Signal", "Stream"}
BoundName(s) == IF s.k = "For" THEN s.var ELSE s.name
Binders(body) == SelectSeq(Flat(body), LAMBDA s : s.k \in GlobalKinds \cup {"Let", "For"})

(* No name is bound twice, anywhere, nor is a name the handlers bind.       *)
UniqueNames(p) ==
    LET b == Binders(p)
    IN  \A i \in DOMAIN b : /\ BoundName(b[i]) \notin {"neuron_index", "spike_time"}
                            /\ \A j \in DOMAIN b \ {i} : BoundName(b[i]) # BoundName(b[j])

RECURSIVE Mentions(_)
Mentions(e) ==
    CASE e.k = "Ident" -> {e.n}
      [] e.k = "Unary" -> Mentions(e.a)
      [] e.k = "Binary" -> Mentions(e.a) \cup Mentions(e.b)
      [] e.k = "Call" -> UNION {Mentions(e.args[i].e) : i \in DOMAIN e.args}
      [] e.k = "Device" -> {"GPU"}
      [] OTHER -> {}

ExprFields == {"size", "init", "path", "cond", "lo", "hi", "duration", "dt", "time",
               "current", "e"}
OptFields == {"params", "opts"}
NamesUsed(s) ==
    UNION {Mentions(s[f]) : f \in ExprFields \cap DOMAIN s}
    \cup UNION {UNION {Mentions(s[f][i].e) : i \in DOMAIN s[f]} : f \in OptFields \cap DOMAIN s}
    \cup (IF s.k = "Print" THEN UNION {Mentions(s.args[i]) : i \in DOMAIN s.args} ELSE {})
    \cup {s[f] : f \in {"src", "dst"} \cap DOMAIN s}
    \cup (IF s.k \in {"AtEmit", "OnSpike", "Assign"} THEN {s.name} ELSE {})

(* Groups, signals and streams are mentioned after the item that declares   *)
(* them, and no device literal is used as a value.                          *)
DeclaredFirst(p) ==
    \A i \in DOMAIN p : \A s \in StmtsIn(<<p[i]>>) :
        /\ "GPU" \notin NamesUsed(s)
        /\ \A j \in i..Len(p) : p[j].k \in GlobalKinds => p[j].name \notin NamesUsed(s)

(* Nothing is bound directly in the body of run_continuous.                 *)
NoContinuousLets(p) ==
    \A i \in DOMAIN p : p[i].k = "RunCont" => \A j \in DOMAIN p[i].body : p[i].body[j].k # "Let"

(* Until it has stopped the loop, main does nothing else than wait for it.  *)
(* It never has where a handler may stop the loop first: stop and wait      *)
(* return then with the handler still at work.                              *)
HandlersStop(p) ==
    \E h \in StmtsIn(p) : h.k = "OnSpike" /\ \E s \in StmtsIn(h.body) : s.k = "Stop"
QuietMain(p) ==
    \A i, j \in DOMAIN p :
        /\ p[i].k = "RunCont" /\ i < j
        /\ HandlersStop(p) \/ \A m \in i..(j - 1) : p[m].k # "Stop"
        => p[j].k \in {"Wait", "Stop"}

Disciplined(p) == UniqueNames(p) /\ DeclaredFirst(p) /\ NoContinuousLets(p) /\ QuietMain(p)

-----------------------------------------------------------------------------

(* A program as delivered: its items, and what is known of them statically  *)
(* (are they disciplined, do they compile, which slots have the globals).   *)
Delivered(p) == [items |-> p, disciplined |-> Disciplined(p), native |-> Compiles(p),
                 globals |-> LetTypes(p)]

-----------------------------------------------------------------------------
(* Execution.                                                               *)

TypeOK ==
    /\ DOMAIN ctrl = Threads
    /\ handlers \subseteq StmtsIn(prog.items)
    /\ \A i \in DOMAIN scopes : \A n \in DOMAIN scopes[i] : scopes[i][n] \in Types \ {"Void"}
    /\ running \in BOOLEAN /\ loop \in {"none", "joinable", "detached"}
    /\ spikes \in 0..MaxSpikes
    /\ panic \in BOOLEAN

Init ==
    /\ prog \in {Delivered(p) : p \in {p \in Programs : Accepted(p)}}
    /\ ctrl = [main |-> Append(prog.items, Do("Exit")), loop |-> <<>>]
    /\ scopes = <<(<<>>)>>
    /\ handlers = {} /\ streams = {} /\ signals = {}
    /\ running = FALSE /\ loop = "none" /\ spikes = 0 /\ panic = FALSE

(* The head of a thread's list is s, and its guards hold.                   *)
Executes(t, s, kinds) ==
    /\ ~panic /\ ctrl[t] # <<>> /\ s = Head(ctrl[t])
    /\ s.k \in kinds /\ Ok(s)

Then(t, more) == ctrl' = [ctrl EXCEPT ![t] = more \o Tail(@)]
Push(names) == scopes' = Append(scopes, names)
Bound(n, v) == scopes' = [scopes EXCEPT ![Len(scopes)] = Bind(@, n, v)]
Pop == Do("PopScope")

loopVars == <<running, loop>>
runtimeVars == <<prog, handlers, streams, signals, loopVars, spikes, panic>>

(* Statements that only call the runtime.                                   *)
ExecCall(t, s) ==
    /\ Executes(t, s, {"Import", "Use", "Connect", "Stdp", "Print", "Save", "Load", "Export",
                       "Oscillator", "Bind", "SetPlasticity", "Prune", "Expr"})
    /\ Then(t, <<>>)
    /\ UNCHANGED <<scopes, runtimeVars>>

ExecNodeGroup(t, s) ==
    /\ Executes(t, s, {"NodeGroup"})
    /\ Then(t, <<>>) /\ Bound(s.name, "Group")
    /\ UNCHANGED runtimeVars

ExecLet(t, s) ==
    /\ Executes(t, s, {"Let"})
    /\ Then(t, <<>>) /\ Bound(s.name, Eval(s.init))
    /\ UNCHANGED runtimeVars

(* The innermost binding takes the new value, and with it its kind.         *)
ExecAssign(t, s) ==
    /\ Executes(t, s, {"Assign"})
    /\ Then(t, <<>>)
    /\ LET i == CHOOSE i \in Visible(scopes, s.name) :
                   \A j \in Visible(scopes, s.name) : j <= i
       IN  scopes' = [scopes EXCEPT ![i] = Bind(@, s.name, Eval(s.init))]
    /\ UNCHANGED runtimeVars

ExecSignal(t, s) ==
    /\ Executes(t, s, {"Signal"})
    /\ Then(t, <<>>) /\ Bound(s.name, "Float")
    /\ signals' = signals \cup {s.name}
    /\ UNCHANGED <<prog, handlers, streams, loopVars, spikes, panic>>

ExecStream(t, s) ==
    /\ Executes(t, s, {"Stream"})
    /\ Then(t, <<>>) /\ Bound(s.name, "Int")
    /\ streams' = streams \cup {s.name}
    /\ UNCHANGED <<prog, handlers, signals, loopVars, spikes, panic>>

ExecIf_NoPop(t, s) ==
    /\ Executes(t, s, {"If"})
    /\ \E body \in {s.body, s.els} : Then(t, body)
    /\ Push(<<>>)
    /\ UNCHANGED runtimeVars
ExecIf(t, s) ==
    /\ Executes(t, s, {"If"})
    /\ \E body \in {s.body, s.els} : Then(t, Append(body, Pop))
    /\ Push(<<>>)
    /\ UNCHANGED runtimeVars

(* A for statement evaluates its bounds once and has a scope per iteration. *)
ExecFor(t, s) ==
    /\ Executes(t, s, {"For"})
    /\ \E n \in 0..MaxIter : Then(t, <<[k |-> "Iterate", var |-> s.var, body |-> s.body, n |-> n]>>)
    /\ UNCHANGED <<scopes, runtimeVars>>

Iterate(t, s) ==
    /\ Executes(t, s, {"Iterate"})
    /\ IF s.n = 0 THEN Then(t, <<>>) /\ UNCHANGED scopes
       ELSE /\ Then(t, s.body \o <<Pop, [s EXCEPT !.n = @ - 1]>>)
            /\ Push([x \in {s.var} |-> "Int"])
    /\ UNCHANGED runtimeVars

(* A while statement evaluates its condition before every iteration; a head *)
(* statement without the field n has not iterated yet.                      *)
Turns(s) == IF "n" \in DOMAIN s THEN s.n ELSE 0
ExecWhile(t, s) ==
    /\ Executes(t, s, {"While"})
    /\ \/ Then(t, <<>>) /\ UNCHANGED scopes
       \/ /\ Turns(s) < MaxIter
          /\ Then(t, s.body \o <<Pop, [k |-> "While", cond |-> s.cond, body |-> s.body,
                                       n |-> Turns(s) + 1]>>)
          /\ Push(<<>>)
    /\ UNCHANGED runtimeVars

PopScope(t, s) ==
    /\ Executes(t, s, {"PopScope"})
    /\ Then(t, <<>>) /\ scopes' = Front(scopes)
    /\ UNCHANGED runtimeVars

ExecOnSpike(t, s) ==
    /\ Executes(t, s, {"OnSpike"})
    /\ Then(t, <<>>)
    /\ handlers' = handlers \cup {s}
    /\ UNCHANGED <<prog, scopes, streams, signals, loopVars, spikes, panic>>

(* invokeHandler: a fresh scope on top of whatever the stack holds.         *)
InvokeHandler(t) ==
    \E h \in handlers :
      /\ spikes < MaxSpikes /\ spikes' = spikes + 1
      /\ ctrl' = [ctrl EXCEPT ![t] = h.body \o <<Pop>> \o @]
      /\ Push(Handled)
      /\ UNCHANGED <<prog, handlers, streams, signals, loopVars, panic>>

(* A discrete run schedules its emissions, then simulates on this thread.   *)
ExecRun(t, s) ==
    /\ Executes(t, s, {"Run"}) /\ ~running
    /\ Then(t, <<Do("Simulate")>>)
    /\ UNCHANGED <<scopes, runtimeVars>>

Simulate(t, s) ==
    /\ Executes(t, s, {"Simulate"})
    /\ \/ InvokeHandler(t)
       \/ Then(t, <<>>) /\ UNCHANGED <<scopes, runtimeVars>>

(* run_continuous executes its body once in a scope of its own, drops the   *)
(* scope, joins the thread of an earlier episode and starts the loop.       *)
ExecRunContinuous(t, s) ==
    /\ Executes(t, s, {"RunCont"})
    /\ Then(t, s.body \o <<Pop, Do("StartLoop")>>) /\ Push(<<>>)
    /\ UNCHANGED runtimeVars

StartLoop(t, s) ==
    /\ Executes(t, s, {"StartLoop"}) /\ ~running /\ loop # "joinable"
    /\ Then(t, <<>>)
    /\ running' = TRUE /\ loop' = "joinable"
    /\ UNCHANGED <<prog, scopes, handlers, streams, signals, spikes, panic>>

(* A tick calls handlers, the last one after the flag was cleared too.      *)
LoopSpike ==
    /\ ~panic /\ loop # "none" /\ ctrl["loop"] = <<>>
    /\ InvokeHandler("loop")

LoopExit ==
    /\ ~panic /\ ~running /\ loop # "none" /\ ctrl["loop"] = <<>>
    /\ loop' = "none"
    /\ UNCHANGED <<prog, ctrl, scopes, handlers, streams, signals, running, spikes, panic>>

(* stop_continuous does nothing once the flag is clear.  Otherwise it       *)
(* clears the flag; the loop thread then detaches itself and goes on, any   *)
(* other thread joins it.  The interpreter also stops at its end.           *)
ExecStop_NoJoin(t, s) ==
    /\ Executes(t, s, {"Stop", "Exit"})
    /\ running' = FALSE
    /\ loop' = IF running THEN "detached" ELSE loop
    /\ Then(t, <<>>)
    /\ UNCHANGED <<prog, scopes, handlers, streams, signals, spikes, panic>>
ExecStop(t, s) ==
    /\ Executes(t, s, {"Stop", "Exit"})
    /\ running' = FALSE
    /\ loop' = IF running /\ t = "loop" THEN "detached" ELSE loop
    /\ Then(t, IF running /\ t = "main" THEN <<Do("Join")>> ELSE <<>>)
    /\ UNCHANGED <<prog, scopes, handlers, streams, signals, spikes, panic>>

Join(t, s) ==
    /\ Executes(t, s, {"Join"}) /\ loop # "joinable"
    /\ Then(t, <<>>)
    /\ UNCHANGED <<scopes, runtimeVars>>

(* wait_continuous returns at once on the loop thread; main waits for the   *)
(* flag and then for a thread that can be joined.                           *)
ExecWait(t, s) ==
    /\ Executes(t, s, {"Wait"})
    /\ \/ t = "loop" /\ loop = "joinable"
       \/ ~running /\ loop # "joinable"
    /\ Then(t, <<>>)
    /\ UNCHANGED <<scopes, runtimeVars>>

(* A guard of the interpreter fires, or the runtime refuses to simulate     *)
(* while the loop runs: ndl_rt_panic, exit code 70.                         *)
Refused(s) == running /\ s.k \in {"Run", "StartLoop"}
TypePanic(t, s) ==
    /\ ~panic /\ ctrl[t] # <<>> /\ s = Head(ctrl[t]) /\ (~Ok(s) \/ Refused(s))
    /\ panic' = TRUE
    /\ UNCHANGED <<prog, ctrl, scopes, handlers, streams, signals, running, loop, spikes>>

ExecStmt(t, s) ==
    \/ ExecCall(t, s) \/ ExecNodeGroup(t, s) \/ ExecLet(t, s) \/ ExecAssign(t, s)
    \/ ExecSignal(t, s) \/ ExecStream(t, s) \/ ExecIf(t, s) \/ ExecFor(t, s)
    \/ Iterate(t, s) \/ ExecWhile(t, s) \/ PopScope(t, s) \/ ExecOnSpike(t, s)
    \/ ExecRun(t, s) \/ Simulate(t, s) \/ ExecRunContinuous(t, s) \/ StartLoop(t, s)
    \/ ExecStop(t, s) \/ Join(t, s) \/ ExecWait(t, s) \/ TypePanic(t, s)

Next ==
    /\ ctrl["main"] # <<>>
    /\ \/ \E t \in Threads : ctrl[t] # <<>> /\ ExecStmt(t, Head(ctrl[t]))
       \/ LoopSpike
       \/ LoopExit

Spec == Init /\ [][Next]_vars

-----------------------------------------------------------------------------
(* The guards are defensive only on disciplined programs: nothing that      *)
(* analysis accepts then makes the interpreter, a handler of a discrete run *)
(* or a handler on the loop thread fire one (vm.cpp 65-68, all sema checks).*)
GuardsSilent == panic => ~prog.disciplined

(* The claim of vm.cpp 11-12, for every accepted program: it fails where    *)
(* main declares a name in the scope of a handler (vm.cpp 1010), which goes *)
(* with the handler.                                                        *)
GuardsDefensive == ~panic

(* A program is discrete or continuous: no simulation runs inside another   *)
(* or while the event loop lives, whatever handlers and blocks do, and no   *)
(* second episode replaces the first (E0211, E0215, E0207).                 *)
Simulations == {i \in DOMAIN ctrl["main"] : ctrl["main"][i].k = "Simulate"}
OneTimeBase ==
    /\ Cardinality(Simulations) <= 1
    /\ Simulations # {} \/ (ctrl["main"] # <<>> /\ Head(ctrl["main"]).k = "StartLoop")
         => ~running /\ loop = "none"
    /\ \A i \in DOMAIN ctrl["loop"] : ctrl["loop"][i].k \notin {"Run", "Simulate", "StartLoop"}

(* The event loop never waits for itself (E0210 in handlers and bodies).    *)
LoopNeverWaits == \A i \in DOMAIN ctrl["loop"] : ctrl["loop"][i].k \notin {"Wait", "Join"}

(* A top-level item of a disciplined program, other than a stop or a wait,  *)
(* meets the global scope alone: what it declares outlives the block or the *)
(* handler that ran before it (vm.cpp 149-151, 165-170, 1010-1014), whoever *)
(* stopped the loop and whether or not stop had to join it (v2.cpp 395-417).*)
AtItem(i) == ctrl["main"] = Append(SubSeq(prog.items, i, Len(prog.items)), Do("Exit"))
GlobalScopeOnly ==
    \A i \in DOMAIN prog.items :
      prog.disciplined /\ AtItem(i) /\ prog.items[i].k \notin {"Stop", "Wait"}
        => Len(scopes) = 1

(* Whatever analysis accepts, the native path compiles: generation resolves *)
(* each name and every instruction has operands of its types.  The scopes   *)
(* of generation follow those of analysis but for the body of               *)
(* run_continuous and for handlers, hence the discipline (irgen_llvm.cpp    *)
(* 1002-1012, 1280-1327).                                                   *)
NativeCompiles == prog.disciplined => prog.native

(* A global of the interpreter has the kind of the slot generation gives    *)
(* it, except that an integer stored in a Float is not converted: so the    *)
(* two paths take the same branch of every operator on the other kinds      *)
(* (vm.cpp 575-594, irgen_llvm.cpp 1038-1103), whichever handlers have run. *)
KindsMatchSlots ==
    prog.disciplined =>
      \A n \in DOMAIN prog.globals \cap DOMAIN scopes[1] :
        \/ scopes[1][n] = prog.globals[n]
        \/ scopes[1][n] = "Int" /\ prog.globals[n] = "Float"
=============================================================================
