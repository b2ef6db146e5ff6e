-------------------------------- MODULE Sema --------------------------------
(***************************************************************************)
(* Semantic analysis (src/src/sema.cpp): which parsed programs are         *)
(* accepted.  A program is the sequence of its top-level items, modules in *)
(* import order; statements and expressions are records tagged by k, an    *)
(* option is [name, e] with name "" when it was written positionally.      *)
(*                                                                         *)
(* Pass 1 collects the global names, pass 2 walks every statement with a   *)
(* placement context and a stack of scopes.  The outcome is the set of     *)
(* error codes; messages, ranges and suggestions are left out, and so are  *)
(* the dimensions of tensors.  Float and duration literals are counted in  *)
(* tenths so that a density or a period stays an integer.                  *)
(***************************************************************************)
EXTENDS Integers, Sequences, FiniteSets, SequencesExt

Numeric == {"Int", "Float"}
NoExpr == [k |-> "None"]
The(S) == CHOOSE x \in S : TRUE

(* typeRefToInfo and assignable: Error on either side silences the check.   *)
Assignable_Narrowing(target, src) ==
    "Error" \in {target, src} \/ target = src \/ {target, src} = Numeric
Assignable(target, src) ==
    \/ "Error" \in {target, src}
    \/ target = src
    \/ target = "Float" /\ src = "Int"

-----------------------------------------------------------------------------
(* Constant evaluation: at most one value, none when it is not constant.    *)

Quotient(a, b) ==
    LET q == (IF a < 0 THEN -a ELSE a) \div (IF b < 0 THEN -b ELSE b)
    IN  IF (a < 0) = (b < 0) THEN q ELSE -q

RECURSIVE ConstInt(_, _)
ConstInt(consts, e) ==
    CASE e.k = "Int" -> {e.v}
      [] e.k = "Ident" -> IF e.n \in DOMAIN consts THEN {consts[e.n]} ELSE {}
      [] e.k = "Unary" -> IF e.op = "-" THEN {-a : a \in ConstInt(consts, e.a)} ELSE {}
      [] e.k = "Binary" ->
           UNION {CASE e.op = "+" -> {a + b}
                    [] e.op = "-" -> {a - b}
                    [] e.op = "*" -> {a * b}
                    [] e.op = "/" /\ b # 0 -> {Quotient(a, b)}
                    [] e.op = "%" /\ b # 0 -> {a - b * Quotient(a, b)}
                    [] OTHER -> {}
                  : a \in ConstInt(consts, e.a), b \in ConstInt(consts, e.b)}
      [] OTHER -> {}

RECURSIVE ConstFloat(_, _)
ConstFloat(g, e) ==
    CASE e.k = "Int" -> {10 * e.v}
      [] e.k \in {"Float", "Duration"} -> {e.v}
      [] e.k = "Ident" -> IF e.n \in DOMAIN g.ints THEN {10 * g.ints[e.n]}
                          ELSE IF e.n \in DOMAIN g.floats THEN {g.floats[e.n]} ELSE {}
      [] e.k = "Unary" -> IF e.op = "-" THEN {-a : a \in ConstFloat(g, e.a)} ELSE {}
      [] e.k = "Binary" ->
           UNION {CASE e.op = "+" -> {a + b}
                    [] e.op = "-" -> {a - b}
                    [] e.op = "*" -> {Quotient(a * b, 10)}
                    [] e.op = "/" /\ b # 0 -> {Quotient(10 * a, b)}
                    [] OTHER -> {}
                  : a \in ConstFloat(g, e.a), b \in ConstFloat(g, e.b)}
      [] OTHER -> {}

NotPositive(g, e) == \E v \in ConstFloat(g, e) : v <= 0

-----------------------------------------------------------------------------
(* Pass 1: the global names.  A group or stream whose size is not a         *)
(* positive constant is registered with size 0 (badSize).                   *)

Bind(f, n, v) == [x \in DOMAIN f \cup {n} |-> IF x = n THEN v ELSE f[x]]

NoGlobals == [groups |-> <<>>, lets |-> {}, signals |-> {}, streams |-> <<>>,
              ints |-> <<>>, floats |-> <<>>, errs |-> {}]

GroupSize(g, size) ==
    LET good == {v \in ConstInt(g.ints, size) : v > 0}
    IN  IF good = {} THEN 0 ELSE CHOOSE v \in good : TRUE

(* Options given by name, each known and at most once.                      *)
OptionErrs(opts, known) ==
    IF \E i \in DOMAIN opts : \/ opts[i].name \notin known
                              \/ \E j \in 1..(i - 1) : opts[j].name = opts[i].name
    THEN {"E0205"} ELSE {}

Missing(opts, required) ==
    IF required \subseteq {opts[i].name : i \in DOMAIN opts} THEN {} ELSE {"E0205"}

LifParams == {"tau", "threshold", "rest", "reset"}
GroupParamErrs(params) == OptionErrs(params, LifParams) \cup Missing(params, LifParams)
SizeErrs(size) == IF size = 0 THEN {"E0204"} ELSE {}

Values(g) == g.lets \cup g.signals \cup DOMAIN g.streams
Taken(g) == DOMAIN g.groups \cup Values(g)
Duplicate(g) == [g EXCEPT !.errs = @ \cup {"E0202"}]

(* A group may reuse the name of a signal or of a stream, an oscillator the *)
(* name of a group: each has an index of its own.                           *)
Pass1Group(g, s) ==
    IF s.name \in DOMAIN g.groups \cup g.lets THEN Duplicate(g)
    ELSE LET size == GroupSize(g, s.size)
         IN  [g EXCEPT !.groups = Bind(@, s.name, size),
                       !.errs = @ \cup SizeErrs(size) \cup GroupParamErrs(s.params)]

Pass1Let(g, s) ==
    LET iv == ConstInt(g.ints, s.init)
        fv == ConstFloat(g, s.init)
    IN  IF s.name \in Taken(g) THEN Duplicate(g)
        ELSE [g EXCEPT
                !.lets = @ \cup {s.name},
                !.ints = IF iv = {} THEN @ ELSE Bind(@, s.name, CHOOSE v \in iv : TRUE),
                !.floats = IF fv = {} THEN @ ELSE Bind(@, s.name, CHOOSE v \in fv : TRUE)]

Pass1Signal(g, s) ==
    IF s.name \in Taken(g) THEN Duplicate(g)
    ELSE [g EXCEPT !.signals = @ \cup {s.name}]

Pass1Oscillator(g, s) == IF s.name \in Values(g) THEN Duplicate(g) ELSE g

Pass1Stream(g, s) ==
    LET size == GroupSize(g, s.size)
    IN  IF s.name \in Taken(g) THEN Duplicate(g)
        ELSE [g EXCEPT !.streams = Bind(@, s.name, size), !.errs = @ \cup SizeErrs(size)]

Pass1(prog) ==
    LET one(g, s) == CASE s.k = "NodeGroup" -> Pass1Group(g, s)
                       [] s.k = "Let" -> Pass1Let(g, s)
                       [] s.k = "Signal" -> Pass1Signal(g, s)
                       [] s.k = "Oscillator" -> Pass1Oscillator(g, s)
                       [] s.k = "Stream" -> Pass1Stream(g, s)
                       [] OTHER -> g
    IN  FoldLeft(one, NoGlobals, prog)

-----------------------------------------------------------------------------
(* Expressions: the type of an expression and the codes it reports.  A      *)
(* subexpression of type Error silences its parents.                        *)

Typed(t, errs) == [t |-> t, errs |-> errs]
Failed(code, errs) == [t |-> "Error", errs |-> errs \cup {code}]

(* Builtins and the kinds of their parameters.  One name stands for each    *)
(* family: sin for the unary mathematics, tensor_get for its three ranks.   *)
Sig(name, params, res) == [name |-> name, params |-> params, res |-> res]
Builtins ==
    {Sig("sin", <<"Num">>, "Float"),
     Sig("random_uniform", <<"Num", "Num">>, "Float"),
     Sig("random_gaussian", <<"Num", "Num">>, "Float"),
     Sig("get_weight", <<"Group", "Group", "Int", "Int">>, "Float"),
     Sig("tensor_new", <<"Int">>, "Tensor"),
     Sig("tensor_get", <<"Tensor", "Int">>, "Float"),
     Sig("tensor_set", <<"Tensor", "Int", "Num">>, "Void"),
     Sig("dump_tensor", <<"Str", "Tensor">>, "Void"),
     Sig("get_membrane_potentials", <<"Group">>, "Tensor"),
     Sig("predict_linear", <<"Tensor", "Tensor">>, "Tensor"),
     Sig("vector_l2_norm", <<"Tensor">>, "Float"),
     Sig("stream_set", <<"Stream", "Int", "Num">>, "Void")}

BuiltinNames ==
    {"sin", "random_uniform", "random_gaussian", "get_weight", "tensor_new", "tensor_get",
     "tensor_set", "dump_tensor", "get_membrane_potentials", "predict_linear",
     "vector_l2_norm", "stream_set"}

Accepts(param, t) == IF param = "Num" THEN t \in Numeric ELSE t = param

Visible(scopes, n) == {i \in DOMAIN scopes : n \in DOMAIN scopes[i]}
Innermost(scopes, n) == scopes[CHOOSE i \in Visible(scopes, n) :
                                   \A j \in Visible(scopes, n) : j <= i][n]

IdentExpr(env, n) ==
    IF Visible(env.scopes, n) # {} THEN Typed(Innermost(env.scopes, n), {})
    ELSE IF n \in DOMAIN env.g.groups THEN Typed("Group", {})
    ELSE IF n \in env.g.signals THEN Typed("Float", {})
    ELSE Failed(IF n \in BuiltinNames THEN "E0206" ELSE "E0201", {})

UnaryExpr(op, r) ==
    IF r.t = "Error" THEN Typed("Error", r.errs)
    ELSE IF \/ op = "!" /\ r.t = "Bool"
            \/ op = "-" /\ r.t \in Numeric \cup {"Duration"}
         THEN r
         ELSE Failed("E0206", r.errs)

ArithType(op, l, r) ==
    LET kinds == {l, r}
    IN  CASE kinds \subseteq Numeric /\ op \in {"+", "-", "*", "/"} ->
               IF "Float" \in kinds THEN "Float" ELSE "Int"
          [] kinds = {"Int"} /\ op = "%" -> "Int"
          [] kinds = {"Duration"} /\ op \in {"+", "-"} -> "Duration"
          [] kinds = {"Duration"} /\ op = "/" -> "Float"
          [] l = "Duration" /\ r \in Numeric /\ op \in {"*", "/"} -> "Duration"
          [] l \in Numeric /\ r = "Duration" /\ op = "*" -> "Duration"
          [] kinds = {"Str"} /\ op = "+" -> "Str"
          [] OTHER -> "None"

CompareType(op, l, r) ==
    IF \/ {l, r} \subseteq Numeric
       \/ {l, r} = {"Duration"}
       \/ op \in {"==", "!="} /\ l = r /\ l \in {"Str", "Bool"}
    THEN "Bool" ELSE "None"

BinaryExpr(op, l, r) ==
    LET errs == l.errs \cup r.errs
        t == CASE op \in {"&&", "||"} -> IF {l.t, r.t} = {"Bool"} THEN "Bool" ELSE "None"
               [] op \in {"==", "!=", "<", ">", "<=", ">="} -> CompareType(op, l.t, r.t)
               [] OTHER -> ArithType(op, l.t, r.t)
    IN  IF "Error" \in {l.t, r.t} THEN Typed("Error", errs)
        ELSE IF t = "None" THEN Failed("E0206", errs) ELSE Typed(t, errs)

RECURSIVE TypeOf(_, _)

(* An argument of result r against its parameter: argTypeErr is silent when  *)
(* it is already Error; stream_set then stops walking, and lets an index or *)
(* a value of type Error pass.                                              *)
Argument(acc, stream, param, r) ==
    LET errs == acc.errs \cup r.errs
    IN  IF acc.t = "Error" THEN IF stream THEN acc ELSE Typed("Error", errs)
        ELSE IF Accepts(param, r.t) \/ (stream /\ param # "Stream" /\ r.t = "Error")
        THEN Typed(acc.t, errs)
        ELSE IF r.t = "Error" THEN Typed("Error", errs) ELSE Failed("E0206", errs)

StreamName(env, e) ==
    IF e.k = "Ident" /\ e.n \in DOMAIN env.g.streams THEN Typed("Stream", {})
    ELSE Failed("E0201", {})

Call(env, e, sig) ==
    IF Len(e.args) # Len(sig.params)
    THEN Failed("E0206", IF e.n = "stream_set" THEN {}
                         ELSE UNION {TypeOf(env, e.args[i].e).errs : i \in DOMAIN e.args})
    ELSE FoldLeft(LAMBDA acc, i :
                    Argument(acc, e.n = "stream_set", sig.params[i],
                             IF sig.params[i] = "Stream" THEN StreamName(env, e.args[i].e)
                             ELSE TypeOf(env, e.args[i].e)),
                  Typed(sig.res, {}), [i \in DOMAIN e.args |-> i])

(* A call that cannot be matched with a builtin only walks its arguments.   *)
CallExpr(env, e) ==
    LET positional == \A i \in DOMAIN e.args : e.args[i].name = ""
    IN  IF positional /\ e.n \in BuiltinNames
        THEN The({Call(env, e, sig) : sig \in {b \in Builtins : b.name = e.n}})
        ELSE Failed(IF positional THEN "E0201" ELSE "E0206",
                    IF e.n = "stream_set" THEN {}
                    ELSE UNION {TypeOf(env, e.args[i].e).errs : i \in DOMAIN e.args})

TypeOf(env, e) ==
    CASE e.k \in {"Int", "Float", "Duration", "Str", "Bool"} -> Typed(e.k, {})
      [] e.k = "Ident" -> IdentExpr(env, e.n)
      [] e.k = "Unary" -> The({UnaryExpr(e.op, r) : r \in {TypeOf(env, e.a)}})
      [] e.k = "Binary" -> The({BinaryExpr(e.op, l, r) : l \in {TypeOf(env, e.a)},
                                                         r \in {TypeOf(env, e.b)}})
      [] e.k = "Call" -> CallExpr(env, e)
      [] OTHER -> Typed("Error", {})

-----------------------------------------------------------------------------
(* Pass 2: placement, declaration order and types of every statement.       *)

Types == {"Int", "Float", "Bool", "Str", "Duration", "Group", "Tensor", "Void"}
RunTime == Numeric \cup {"Duration"}
InnerCtx_Block(ctx) == IF ctx = "ContBody" THEN ctx ELSE "Block"
InnerCtx(ctx) == IF ctx \in {"Handler", "ContBody"} THEN ctx ELSE "Block"

When(cond, code) == IF cond THEN {code} ELSE {}
Report(env, errs) == [env EXCEPT !.errs = @ \cup errs]
UnknownGroup(env, names) == When(~(names \subseteq DOMAIN env.g.groups), "E0201")
Given(opts, n) == {opts[i].e : i \in {j \in DOMAIN opts : opts[j].name = n}}

(* The options of a statement: the ones in idents name something and are    *)
(* not values, the others have a type.                                      *)
OptionTypes(s) ==
    CASE s.k = "Connect" -> [weight |-> Numeric, weight_func |-> Types, density |-> Numeric,
                             plastic |-> {"Bool"}]
      [] s.k = "Stdp" -> [n \in {"lr_pot", "lr_dep", "window_ms"} |-> Numeric]
      [] s.k = "Oscillator" -> [n \in {"frequency", "amplitude", "phase"} |-> Numeric]
      [] s.k = "Bind" -> [n \in {"max_freq", "kick"} |-> Numeric]
      [] s.k = "Prune" -> [threshold |-> Numeric]
      [] s.k = "SetPlasticity" -> [enabled |-> {"Bool"}]
OptionIdents(s) == CASE s.k = "Stdp" -> {"modulator"}
                     [] s.k = "Oscillator" -> {"target"}
                     [] s.k = "Bind" -> {"encoding"}
                     [] OTHER -> {}

(* The expressions of a statement, each with the types it may have; a       *)
(* misplaced option is only walked.                                         *)
Present(e) == {e} \ {NoExpr}
Expected(s) ==
    LET of(e, kinds) == {<<x, kinds>> : x \in Present(e)}
        option(o) == IF o.name \in OptionIdents(s) THEN {}
                     ELSE IF o.name \in DOMAIN OptionTypes(s) THEN of(o.e, OptionTypes(s)[o.name])
                     ELSE of(o.e, Types)
    IN  CASE s.k = "NodeGroup" -> of(s.size, Types)
                                  \cup UNION {of(p.e, Numeric) : p \in ToSet(s.params)}
          [] s.k \in {"Connect", "Stdp", "Oscillator", "Bind", "Prune", "SetPlasticity"} ->
               UNION {option(o) : o \in ToSet(s.opts)}
          [] s.k \in {"Let", "Assign"} -> of(s.init, Types)
          [] s.k = "Print" -> UNION {of(e, Types \ {"Void"}) : e \in ToSet(s.args)}
          [] s.k \in {"Save", "Load", "Export"} -> of(s.path, {"Str"})
          [] s.k \in {"If", "While"} -> of(s.cond, {"Bool"})
          [] s.k = "For" -> of(s.lo, {"Int"}) \cup of(s.hi, {"Int"})
          [] s.k = "Run" -> of(s.duration, RunTime) \cup of(s.dt, RunTime)
          [] s.k = "RunCont" -> of(s.dt, RunTime)
          [] s.k = "AtEmit" -> of(s.time, RunTime) \cup of(s.current, Numeric)
                               \cup (IF s.slice # "All" THEN of(s.lo, {"Int"}) ELSE {})
                               \cup (IF s.slice = "Range" THEN of(s.hi, {"Int"}) ELSE {})
          [] s.k = "Signal" -> of(s.init, Numeric)
          [] s.k = "Stream" -> of(s.size, Types)
          [] s.k = "Expr" -> of(s.e, Types)
          [] OTHER -> {}

Checked(env, s) ==
    UNION {LET r == TypeOf(env, x[1])
           IN  r.errs \cup When(r.t \notin x[2] \cup {"Error"}, "E0206") : x \in Expected(s)}

OptionsGiven(s, required) ==
    OptionErrs(s.opts, DOMAIN OptionTypes(s) \cup OptionIdents(s)) \cup Missing(s.opts, required)

(* What else a statement must satisfy, by kind.                             *)
NodeGroup(env, ctx, s) ==
    Report(env, When(ctx \in {"Handler", "Block"}, "E0207")
                \cup IF ctx = "Top" THEN {}
                     ELSE GroupParamErrs(s.params) \cup SizeErrs(GroupSize(env.g, s.size)))

Connect(env, ctx, s) ==
    LET has(n) == Given(s.opts, n) # {}
        sampler(e) == e.k = "Call" /\ e.n \in {"random_gaussian", "random_uniform"}
        errs == When(ctx \in {"Handler", "Block"}, "E0207")
                \cup UnknownGroup(env, {s.src, s.dst}) \cup OptionsGiven(s, {})
                \cup When(\E e \in Given(s.opts, "weight_func") : ~sampler(e), "E0206")
                \cup When(\E e \in Given(s.opts, "density") :
                            \E v \in ConstFloat(env.g, e) : v \notin 1..10, "E0205")
                \cup When(CASE s.ck = "Dense" -> has("weight") = has("weight_func")
                             [] s.ck = "Sparse" -> ~has("density") \/ ~has("weight")
                             [] OTHER -> ~has("weight"), "E0205")
    IN  [env EXCEPT !.errs = @ \cup errs,
                    !.plastic = IF [k |-> "Bool", v |-> 1] \in Given(s.opts, "plastic")
                                THEN @ \cup {<<s.src, s.dst>>} ELSE @,
                    !.conns = @ \cup {<<s.src, s.dst>>}]

Stdp(env, ctx, s) ==
    LET modulators == Given(s.opts, "modulator")
    IN  Report(env, When(ctx \in {"Handler", "Block"}, "E0207")
                    \cup UnknownGroup(env, {s.src, s.dst})
                    \cup OptionsGiven(s, DOMAIN OptionTypes(s))
                    \cup When(\E e \in modulators : e.k # "Ident", "E0205")
                    \cup When(\E e \in modulators : e.k = "Ident" /\ e.n \notin env.g.signals,
                              "E0201")
                    \cup When(<<s.src, s.dst>> \notin env.plastic, "E0209"))

(* At the top level a second let of a name was reported by pass 1 and binds *)
(* nothing, nor does a let in a run body; the last let of a scope wins.     *)
LetType(env, s) == IF s.anno # "None" THEN s.anno ELSE TypeOf(env, s.init).t
LetErrs_AnyInit(anno, t) == When(anno # "None" /\ ~Assignable(anno, t), "E0206")
LetErrs(anno, t) == When(IF anno # "None" THEN ~Assignable(anno, t) ELSE t = "Void", "E0206")

Let(env, ctx, s) ==
    LET own == IF ctx = "Top" THEN s.name \in env.g.lets \ env.owned ELSE ctx # "BlockNoTop"
        again == ctx # "Top" /\ s.name \in DOMAIN env.scopes[Len(env.scopes)]
        errs == LetErrs(s.anno, TypeOf(env, s.init).t) \cup When(again, "E0202")
    IN  [env EXCEPT
          !.errs = IF ctx = "BlockNoTop" THEN @ ELSE @ \cup errs,
          !.scopes[Len(env.scopes)] = IF own THEN Bind(@, s.name, LetType(env, s)) ELSE @,
          !.owned = IF ctx = "Top" THEN @ \cup {s.name} ELSE @]

(* set: a variable in scope, otherwise a signal.                            *)
Assign(env, s) ==
    LET named == {Innermost(env.scopes, n) : n \in {x \in {s.name} : Visible(env.scopes, x) # {}}}
    IN  Report(env, IF named # {}
                    THEN When(\E t \in named : ~Assignable(t, TypeOf(env, s.init).t), "E0206")
                    ELSE IF s.name \in env.g.signals
                    THEN When(TypeOf(env, s.init).t \notin Numeric \cup {"Error"}, "E0206")
                    ELSE {IF s.name \in DOMAIN env.g.groups \cup BuiltinNames
                          THEN "E0206" ELSE "E0201"})

(* A run quantity is positive when it is constant.                          *)
PositiveTime(env, e) == When(e # NoExpr /\ NotPositive(env.g, e), "E0206")

AtEmit(env, ctx, s) ==
    LET size == IF s.name \in DOMAIN env.g.groups THEN env.g.groups[s.name] ELSE 0
        outside(e, top) == When(size > 0 /\ \E v \in ConstInt(env.g.ints, e) : v \notin 0..top,
                                "E0203")
    IN  Report(env, When(ctx = "Handler", "E0214")
                    \cup When(ctx \notin {"Handler", "RunBody"}, "E0212")
                    \cup UnknownGroup(env, {s.name})
                    \cup (CASE s.slice = "Index" -> outside(s.lo, size - 1)
                            [] s.slice = "Range" -> outside(s.lo, size) \cup outside(s.hi, size)
                            [] OTHER -> {}))

Signal(env, ctx, s) ==
    [env EXCEPT !.errs = @ \cup When(ctx \notin {"Top", "RunBody"}, "E0207"),
                !.scopes = IF ctx = "Top" THEN [@ EXCEPT ![1] = Bind(@, s.name, "Float")] ELSE @]

Oscillator(env, ctx, s) ==
    LET targets == Given(s.opts, "target")
    IN  Report(env, When(ctx \notin {"Top", "RunBody"}, "E0207")
                    \cup OptionsGiven(s, {"frequency", "amplitude", "target"})
                    \cup When(\E e \in targets : e.k # "Ident", "E0205")
                    \cup UnknownGroup(env, {e.n : e \in {x \in targets : x.k = "Ident"}})
                    \cup When(\E e \in Given(s.opts, "frequency") : NotPositive(env.g, e),
                              "E0205"))

BindInputStream(env, ctx, s) ==
    Report(env, When(ctx = "RunBody", "E0210")
                \cup UnknownGroup(env, {s.dst})
                \cup When(s.src \notin DOMAIN env.g.streams, "E0201")
                \cup OptionsGiven(s, {})
                \cup When(~(Given(s.opts, "encoding") \subseteq {[k |-> "Ident", n |-> "Poisson"]}),
                          "E0205")
                \cup When(\E e \in Given(s.opts, "max_freq") : NotPositive(env.g, e), "E0205"))

Structural(env, ctx, s) ==
    Report(env, When(ctx = "RunBody", "E0210")
                \cup UnknownGroup(env, {s.src, s.dst})
                \cup OptionsGiven(s, DOMAIN OptionTypes(s))
                \cup When(<<s.src, s.dst>> \notin env.conns, "E0216"))

(* A program is discrete or continuous: the first mixture is reported.      *)
Mix(env, errs, clash) ==
    [env EXCEPT !.errs = @ \cup errs \cup When(clash /\ ~env.mixed, "E0215"),
                !.mixed = @ \/ clash]

Run_InHandlers(env, ctx, s) ==
    [Mix(env, When(ctx \in {"RunBody", "ContBody"}, "E0211"), env.sawCont)
     EXCEPT !.sawRun = TRUE]
Run(env, ctx, s) ==
    [Mix(env, When(ctx \in {"RunBody", "Handler", "ContBody"}, "E0211")
              \cup When(s.duration = NoExpr, "E0205")
              \cup PositiveTime(env, s.duration) \cup PositiveTime(env, s.dt),
         env.sawCont) EXCEPT !.sawRun = TRUE]

OnSpike(env, ctx, s) ==
    Report(env, When(ctx = "Handler", "E0214")
                \cup When(ctx \notin {"Handler", "Top", "ContBody"}, "E0213")
                \cup UnknownGroup(env, {s.name}))

RunContinuous(env, ctx, s) ==
    [Mix(env, When(ctx # "Top", "E0207") \cup PositiveTime(env, s.dt),
         env.sawRun \/ env.sawCont) EXCEPT !.sawCont = TRUE]

Rule(env, ctx, s) ==
    CASE s.k \in {"Import", "Use"} ->
           Report(env, When(ctx \in {"Handler", "Block", "BlockNoTop"}, "E0207"))
      [] s.k = "NodeGroup" -> NodeGroup(env, ctx, s)
      [] s.k = "Connect" -> Connect(env, ctx, s)
      [] s.k = "Stdp" -> Stdp(env, ctx, s)
      [] s.k = "Let" -> Let(env, ctx, s)
      [] s.k = "Assign" -> Assign(env, s)
      [] s.k = "Export" -> Report(env, UnknownGroup(env, {s.src}))
      [] s.k = "Run" -> Run(env, ctx, s)
      [] s.k = "AtEmit" -> AtEmit(env, ctx, s)
      [] s.k = "OnSpike" -> OnSpike(env, ctx, s)
      [] s.k = "Signal" -> Signal(env, ctx, s)
      [] s.k = "Oscillator" -> Oscillator(env, ctx, s)
      [] s.k = "Stream" -> Report(env, When(ctx \notin {"Top", "RunBody"}, "E0207"))
      [] s.k = "Bind" -> BindInputStream(env, ctx, s)
      [] s.k = "RunCont" -> RunContinuous(env, ctx, s)
      [] s.k = "Stop" -> Report(env, When(ctx = "RunBody", "E0210"))
      [] s.k = "Wait" -> Report(env, When(ctx \in {"RunBody", "ContBody", "Handler"}, "E0210"))
      [] s.k \in {"SetPlasticity", "Prune"} -> Structural(env, ctx, s)
      [] OTHER -> env

-----------------------------------------------------------------------------
(* The bodies of a statement: the context in which each is walked and the   *)
(* scope opened for it, if any.  The body of run_continuous opens none.     *)
Handled == [neuron_index |-> "Int", spike_time |-> "Float"]
Bodies(ctx, s) ==
    LET body(inner, scope, stmts) == [ctx |-> inner, scope |-> scope, stmts |-> stmts]
    IN  CASE s.k = "If" -> <<body(InnerCtx(ctx), <<(<<>>)>>, s.body),
                             body(InnerCtx(ctx), <<(<<>>)>>, s.els)>>
          [] s.k = "For" -> <<body(InnerCtx(ctx), <<[x \in {s.var} |-> "Int"]>>, s.body)>>
          [] s.k = "While" -> <<body(InnerCtx(ctx), <<(<<>>)>>, s.body)>>
          [] s.k = "Run" -> <<body("RunBody", <<>>, s.body)>>
          [] s.k = "OnSpike" -> <<body("Handler", <<Handled>>, s.body)>>
          [] s.k = "RunCont" -> <<body("ContBody", <<>>, s.body)>>
          [] OTHER -> <<>>

(* Directly inside a run body only at ... emit is legal; anything else is   *)
(* reported there and walked as a block of its own.                         *)
Placement(ctx, s) ==
    IF ctx = "RunBody" /\ s.k \notin {"AtEmit", "Run", "OnSpike"} THEN "BlockNoTop" ELSE ctx

RECURSIVE Stmts(_, _, _)
Stmt(env, ctx, s) ==
    LET entered == [Rule(env, ctx, s) EXCEPT
                      !.errs = @ \cup Checked(env, s) \cup When(ctx = "BlockNoTop", "E0210")]
        walk(en, b) == Stmts([en EXCEPT !.scopes = @ \o b.scope], b.ctx, b.stmts)
    IN  FoldLeft(LAMBDA en, b : [walk(en, b) EXCEPT !.scopes = SubSeq(@, 1, Len(en.scopes))],
                 entered, Bodies(ctx, s))

Stmts(env, ctx, body) ==
    FoldLeft(LAMBDA en, s : Stmt(en, Placement(ctx, s), s), env, body)

Pass2(g, prog) ==
    Stmts([g |-> g, scopes |-> <<(<<>>)>>, owned |-> {}, plastic |-> {}, conns |-> {},
           sawRun |-> FALSE, sawCont |-> FALSE, mixed |-> FALSE, errs |-> g.errs], "Top", prog)

(* Sema::run: the codes reported for a program; none means it is accepted.  *)
Analysis(prog) == Pass2(Pass1(prog), prog)
Accepted(prog) == Analysis(prog).errs = {}
=============================================================================
