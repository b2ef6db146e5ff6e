------------------------------ MODULE Codegen ------------------------------
(***************************************************************************)
(* The LLVM back end (src/src/irgen_llvm.cpp) on an accepted program.  A   *)
(* value or slot is abstracted to its type and an instruction to whether   *)
(* its operands have the LLVM types it needs, so generation has two        *)
(* outcomes: a well-typed module, or ok = FALSE, either because a name has *)
(* no slot (E0301) or because the text is one the LLVM assembler refuses.  *)
(*                                                                         *)
(* The generator asks analysis for the type of each binary expression and  *)
(* of each let, so its state carries the environment analysis had there.   *)
(***************************************************************************)
EXTENDS Sema

(* llvmTypeName                                                             *)
Llvm(t) == CASE t = "Int" -> "i64"
             [] t \in {"Float", "Duration"} -> "double"
             [] t = "Bool" -> "i1"
             [] OTHER -> "ptr"

(* toDouble, toI64: only integers and doubles convert into each other.      *)
Convertible(t) == t \in RunTime
Coercible_Same(t, target) == Llvm(t) = Llvm(target)
Coercible(t, target) == Llvm(t) = Llvm(target) \/ (Convertible(t) /\ Convertible(target))

-----------------------------------------------------------------------------
(* FnCtx: the slots in scope, the environment of analysis and the outcome.  *)

Slots(g, lets) == [n \in DOMAIN g.groups \cup g.lets \cup g.signals |->
                     IF n \in g.signals THEN "Float"
                     ELSE IF n \in g.lets THEN lets[n] ELSE "Group"]

(* An undefined name and an ill-typed operand are both "Bad".               *)
Slot(f, n) == IF Visible(f.slots, n) = {} THEN "Bad" ELSE Innermost(f.slots, n)
Sure(cond, t) == IF cond THEN t ELSE "Bad"

EmitUnary(op, x) ==
    IF op = "-" THEN Sure(Convertible(x), x) ELSE Sure(x = "Bool", "Bool")

EmitBinary(op, l, r, rt) ==
    LET doubles == "double" \in {Llvm(l), Llvm(r)}
        both(t) == l = t /\ r = t
        operands == IF doubles THEN Convertible(l) /\ Convertible(r) ELSE both("Int")
    IN  CASE "Bad" \in {l, r} -> "Bad"
          [] op \in {"&&", "||"} -> Sure(both("Bool"), "Bool")
          [] op \in {"+", "-", "*", "/", "%"} ->
               IF both("Str") THEN "Str"
               ELSE Sure(operands \/ (Llvm(rt) = "double" /\ both("Int")), rt)
          [] op \in {"==", "!="} ->
               Sure(both("Str") \/ both("Bool") \/ operands, "Bool")
          [] OTHER -> Sure(operands, "Bool")

RECURSIVE EmitExpr(_, _)
EmitCall(f, e) ==
    LET fits(kind, a) ==
            CASE kind = "Stream" -> a.k = "Ident" /\ a.n \in DOMAIN f.env.g.streams
              [] kind \in {"Num", "Int"} -> \E t \in {EmitExpr(f, a)} : Convertible(t)
              [] OTHER -> \E t \in {EmitExpr(f, a)} : t # "Bad" /\ Llvm(t) = "ptr"
        called == {b \in Builtins :
                     /\ b.name = e.n
                     /\ \A i \in DOMAIN b.params : fits(b.params[i], e.args[i].e)}
    IN  IF called = {} THEN "Bad" ELSE The({b.res : b \in called})

EmitExpr(f, e) ==
    CASE e.k \in {"Int", "Float", "Duration", "Str", "Bool"} -> e.k
      [] e.k = "Device" -> "Int"
      [] e.k = "Ident" -> Slot(f, e.n)
      [] e.k = "Unary" -> The({EmitUnary(e.op, x) : x \in {EmitExpr(f, e.a)}})
      [] e.k = "Binary" -> The({EmitBinary(e.op, l, r, rt) : l \in {EmitExpr(f, e.a)},
                                                             r \in {EmitExpr(f, e.b)},
                                                             rt \in {TypeOf(f.env, e).t}})
      [] OTHER -> EmitCall(f, e)

-----------------------------------------------------------------------------
(* Statements.  Operands are the expressions a statement emits, each with    *)
(* the types its instruction takes; sizes of groups and streams are         *)
(* constants by now.                                                        *)

Option(s, n) == Given(s.opts, n)

Operands(s) ==
    LET of(es, types) == {<<e, types>> : e \in es}
        numbers(names) == of(UNION {Option(s, n) : n \in names}, RunTime)
        samples == UNION {{e.args[1].e, e.args[2].e} : e \in Option(s, "weight_func")}
        emits == {a \in ToSet(s.body) : a.k = "AtEmit"}
    IN  CASE s.k = "NodeGroup" -> of({p.e : p \in ToSet(s.params)}, RunTime)
          [] s.k = "Connect" ->
               of(Option(s, "plastic"), {"Bool"})
               \cup numbers(IF s.ck = "Sparse" THEN {"weight", "density"} ELSE {"weight"})
               \cup of(IF s.ck = "Dense" /\ Option(s, "weight") = {} THEN samples ELSE {}, RunTime)
          [] s.k = "Stdp" -> numbers({"lr_pot", "lr_dep", "window_ms"})
          [] s.k = "Oscillator" -> numbers({"frequency", "amplitude", "phase"})
          [] s.k = "Bind" -> numbers({"max_freq", "kick"})
          [] s.k = "Prune" -> numbers({"threshold"})
          [] s.k = "SetPlasticity" -> of(Option(s, "enabled"), {"Bool"})
          [] s.k = "Print" -> of(ToSet(s.args), Types \cup {"Error"})
          [] s.k \in {"Save", "Load", "Export"} -> of({s.path}, {"Str"})
          [] s.k \in {"If", "While"} -> of({s.cond}, {"Bool"})
          [] s.k = "For" -> of({s.lo, s.hi}, RunTime)
          [] s.k = "Run" -> of(Present(s.duration) \cup Present(s.dt)
                               \cup UNION {{a.time, a.current}
                                           \cup (IF a.slice # "All" THEN {a.lo} ELSE {})
                                           \cup (IF a.slice = "Range" THEN {a.hi} ELSE {})
                                           : a \in emits}, RunTime)
          [] s.k = "RunCont" -> of(Present(s.dt), RunTime)
          [] s.k = "Signal" -> of({s.init}, RunTime)
          [] s.k = "Expr" -> of({s.e}, Types)
          [] OTHER -> {}

(* The names a statement emits: f.find for some, groupRef (which no local   *)
(* shadows) for the others.                                                 *)
Slotted(f, n) == Visible(f.slots, n) # {}
NamesFound(f, s) ==
    LET groups == DOMAIN f.env.g.groups
        emits == {a \in ToSet(s.body) : a.k = "AtEmit"}
    IN  CASE s.k = "Connect" -> \A n \in {s.src, s.dst} : Slotted(f, n) \/ n \in groups
          [] s.k = "Export" -> Slotted(f, s.src)
          [] s.k \in {"Stdp", "Prune", "SetPlasticity"} -> {s.src, s.dst} \subseteq groups
          [] s.k = "Oscillator" -> \A e \in Option(s, "target") : e.k = "Ident" /\ e.n \in groups
          [] s.k = "Bind" -> s.dst \in groups /\ s.src \in DOMAIN f.env.g.streams
          [] s.k = "Run" -> \A a \in emits : a.name \in groups
          [] s.k \in {"NodeGroup", "OnSpike"} -> s.name \in groups
          [] OTHER -> TRUE

(* A let of the top level is stored in its global, any other gets a slot    *)
(* that later statements of the scope find.                                 *)
Stored(f, s) ==
    \E v \in {EmitExpr(f, s.init)} :
      /\ v # "Bad"
      /\ CASE s.k = "Let" -> Coercible(v, LetType(f.env, s))
           [] OTHER -> /\ Slotted(f, s.name) /\ Coercible(v, Slot(f, s.name))
                       /\ s.name \in f.env.g.signals => Convertible(v)

EmitLet(f, ctx, s) ==
    IF ctx = "Top" THEN f
    ELSE [f EXCEPT !.slots[Len(f.slots)] = Bind(@, s.name, LetType(f.env, s))]

(* A body has a scope of its own, that of run_continuous too, which analysis *)
(* does not open.  A handler is a function: it sees the groups, every global *)
(* of the program and the signals, and nothing of where it is declared.      *)
BodySlots(f, s, b) ==
    CASE s.k = "OnSpike" -> <<Handled @@ f.main, <<>> >>
      [] s.k = "RunCont" -> Append(f.slots, <<>>)
      [] OTHER -> f.slots \o b.scope

RECURSIVE EmitBody(_, _, _)
EmitStmt(f, ctx, s) ==
    LET emitted == /\ NamesFound(f, s)
                   /\ \A x \in Operands(s) : EmitExpr(f, x[1]) \in x[2]
                   /\ s.k \in {"Let", "Assign"} => Stored(f, s)
        inner(b) == [f EXCEPT !.slots = BodySlots(f, s, b), !.env.scopes = @ \o b.scope]
        bodies == IF s.k = "Run" THEN {} ELSE ToSet(Bodies(ctx, s))
        after == IF s.k = "Let" THEN EmitLet(f, ctx, s) ELSE f
    IN  [after EXCEPT !.ok = @ /\ emitted /\ \A b \in bodies : EmitBody(inner(b), b.ctx, b.stmts).ok,
                      !.env = Stmt(f.env, ctx, s)]

EmitBody(f, ctx, body) == FoldLeft(LAMBDA acc, s : EmitStmt(acc, ctx, s), f, body)

(* IRGen::generate: every group, global and signal has its slot before the  *)
(* first statement.                                                         *)
LetTypes(prog) ==
    LET top == Analysis(prog).scopes[1]
    IN  [n \in Pass1(prog).lets |-> IF n \in DOMAIN top THEN top[n] ELSE "Error"]

Generate(prog) ==
    LET g == Pass1(prog)
        main == Slots(g, LetTypes(prog))
    IN  EmitBody([slots |-> <<main>>, main |-> main, ok |-> TRUE,
                  env |-> Pass2(g, <<>>)], "Top", prog)

Compiles(prog) == Generate(prog).ok
=============================================================================
