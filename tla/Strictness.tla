------------------------------- MODULE Strictness -------------------------------
(***************************************************************************)
(* The demand analysis of the compiler (demand.rs): which parameters a     *)
(* function forces on every path to its result, so that a call may         *)
(* evaluate them on entry.  Every parameter starts out strict and the      *)
(* demand equations are iterated down to a fixpoint.                       *)
(*                                                                         *)
(* A row is then tried: the function is run by name with an argument that  *)
(* diverges in a position the row calls strict.  What a condition or a     *)
(* literal pattern decides is left open, an unknown argument is a number   *)
(* or a function that ignores its own arguments, and evaluation in actions *)
(* is left out, as are the analyses of fields and elements.                *)
(***************************************************************************)
EXTENDS Naturals, Sequences, FiniteSets, SequencesExt, FiniteSetsExt, Functions, TLC

CONSTANTS Modules       \* sequences of [name, arrows, clauses]

VARIABLES functions,    \* the module being compiled
          rows,         \* strict_params: name -> the strict positions
          settled,      \* the loop saw no row change
          result        \* of a run: "", "value" or "bottom"

vars == <<functions, rows, settled, result>>

-------------------------------------------------------------------------------
(* Expressions, by `is`: var (x), lit, data (l, r: a constructor or tuple),*)
(* lam (ps, body), app (f, args), comp (f, g), op (op, l, r), tick (x, l,  *)
(* r: a function in backticks), if (c, l, r), case (of, branches), let     *)
(* (wh, body).  A clause or branch has ps, guards, body, wh; a binding of  *)
(* wh has name, ps, body; a guard has cond, body.  Patterns, by `p`: var   *)
(* (x), any, lit, as (x: a name for a literal).                            *)

Forces(p) == p.p \in {"lit", "as"}
PatternVars(ps) == {p.x : p \in {q \in ToSet(ps) : q.p \in {"var", "as"}}}

IsValue(b) == b.ps = <<>>
ValueNames(wh) == {b.name : b \in {c \in ToSet(wh) : IsValue(c)}}
FunctionNames(wh) == {b.name : b \in {c \in ToSet(wh) : ~IsValue(c)}}
Equations(wh, f) ==
    LET mine == SelectSeq(wh, LAMBDA b : b.name = f) IN
    [i \in DOMAIN mine |-> [ps |-> mine[i].ps, guards |-> <<>>, body |-> mine[i].body, wh |-> <<>>]]
Bodies(cl) ==
    IF cl.guards = <<>> THEN {cl.body}
    ELSE {g.cond : g \in ToSet(cl.guards)} \cup {g.body : g \in ToSet(cl.guards)}

-------------------------------------------------------------------------------
(* Names.                                                                  *)

(* collect_rebound_names: what lambdas, cases and lets bind inside.        *)
RECURSIVE Rebound(_)
Rebound(e) ==
    LET within(S) == UNION {Rebound(s) : s \in S} IN
    CASE e.is \in {"var", "lit"} -> {}
      [] e.is = "lam" -> PatternVars(e.ps) \cup Rebound(e.body)
      [] e.is = "app" -> within({e.f} \cup ToSet(e.args))
      [] e.is = "comp" -> within({e.f, e.g})
      [] e.is \in {"op", "tick", "data"} -> within({e.l, e.r})
      [] e.is = "if" -> within({e.c, e.l, e.r})
      [] e.is = "case" ->
           within({e.of}) \cup UNION {PatternVars(br.ps) \cup within(Bodies(br)) : br \in ToSet(e.branches)}
      [] e.is = "let" ->
           within({e.body} \cup {b.body : b \in ToSet(e.wh)})
           \cup UNION {{b.name} \cup PatternVars(b.ps) : b \in ToSet(e.wh)}

ReboundIn(cl) ==
    UNION {Rebound(e) : e \in Bodies(cl)}
    \cup UNION {Rebound(b.body) \cup PatternVars(b.ps) : b \in ToSet(cl.wh)}

(* The where functions that get a row (clean_where_fn_groups).             *)
LocalFunctions(cl) == FunctionNames(cl.wh) \ (ReboundIn(cl) \cup ValueNames(cl.wh))

(* clause_shadowed_names, with the where functions that have no row.       *)
ShadowedNames(cl) ==
    (PatternVars(cl.ps) \cup ReboundIn(cl) \cup ValueNames(cl.wh) \cup FunctionNames(cl.wh))
    \ LocalFunctions(cl)

-------------------------------------------------------------------------------
(* What an expression demands when it is evaluated (demanded_vars_in).     *)
(* r holds the rows by name, caps what the where functions force outside   *)
(* themselves, sh the names that may be local.                             *)

CallSaturates(supplied, arity) == supplied >= arity

Both == {"+", "=="}                                     \* the operators by rule
Lhs == {"&&", "++", "seq", "$"}

IsOtherwise(e, sh) == e.is = "var" /\ e.x = "otherwise" /\ "otherwise" \notin sh

RECURSIVE CompStrict(_, _, _)
CompStrict(e, r, sh) ==
    CASE e.is = "var" -> e.x \notin sh /\ e.x \in DOMAIN r /\ r[e.x] = <<TRUE>>
      [] e.is = "comp" -> CompStrict(e.f, r, sh) /\ CompStrict(e.g, r, sh)
      [] OTHER -> FALSE

(* guard_chain, over the demands of the conditions and the bodies.         *)
\* Mutant of GuardChain: every condition runs.
GuardChainUnion(gs) ==
    FoldRight(LAMBDA g, rest : IF g.always THEN g.body ELSE g.cond \cup rest, gs, {})
GuardChain(gs) ==
    FoldRight(LAMBDA g, rest : IF g.always THEN g.body ELSE g.cond \cup (g.body \cap rest), gs, {})

(* A set of names with what the values among them demand in turn.          *)
RECURSIVE Close(_, _)
Close(S, rhs) ==
    LET more == S \cup UNION {rhs[x] : x \in S \cap DOMAIN rhs} IN
    IF more = S THEN S ELSE Close(more, rhs)

RECURSIVE Demanded(_, _, _, _)

ClauseDemand(cl, rhs, r, caps, sh) ==
    IF cl.guards = <<>> THEN Close(Demanded(cl.body, r, caps, sh), rhs)
    ELSE GuardChain([i \in DOMAIN cl.guards |->
            [always |-> IsOtherwise(cl.guards[i].cond, sh),
             cond |-> Close(Demanded(cl.guards[i].cond, r, caps, sh), rhs),
             body |-> Close(Demanded(cl.guards[i].body, r, caps, sh), rhs)]])

(* A call: the callee, its strict arguments and what it captures, if the   *)
(* call runs it; the argument of a composition of strict functions.        *)
Call(f, args, r, caps, sh) ==
    LET named == f.is = "var" /\ f.x \notin sh
        strict == IF named /\ f.x \in DOMAIN r /\ CallSaturates(Len(args), Len(r[f.x]))
                  THEN {i \in DOMAIN args : i <= Len(r[f.x]) /\ r[f.x][i]}
                  ELSE IF Len(args) = 1 /\ f.is = "comp" /\ CompStrict(f, r, sh) THEN {1} ELSE {}
    IN Demanded(f, r, caps, sh)
       \cup UNION {Demanded(args[i], r, caps, sh) : i \in strict}
       \cup IF named /\ f.x \in DOMAIN caps /\ CallSaturates(Len(args), caps[f.x].arity)
            THEN caps[f.x].names ELSE {}

Case(e, r, caps, sh) ==
    LET body == [i \in DOMAIN e.branches |-> ClauseDemand(e.branches[i], <<>>, r, caps, sh)]
        bound == [i \in DOMAIN e.branches |-> PatternVars(e.branches[i].ps)]
        forced == Forces(e.branches[1].ps[1]) \/ body[1] \cap bound[1] # {}
    IN (IF forced THEN Demanded(e.of, r, caps, sh) ELSE {})
       \cup {x \in body[1] \ bound[1] : \A i \in DOMAIN body : x \in body[i] \ bound[i]}

(* One pass over the value bindings, in order.                             *)
Let(e, r, caps, sh) ==
    FoldLeft(LAMBDA S, b : IF IsValue(b) /\ b.name \in S THEN S \cup Demanded(b.body, r, caps, sh) ELSE S,
             Demanded(e.body, r, caps, sh), e.wh)
    \ {b.name : b \in ToSet(e.wh)}

Demanded(e, r, caps, sh) ==
    LET demand(d) == Demanded(d, r, caps, sh) IN
    CASE e.is = "var" -> {e.x}
      [] e.is \in {"lit", "lam", "data", "comp"} -> {}
      [] e.is = "app" -> Call(e.f, e.args, r, caps, sh)
      [] e.is = "tick" -> IF e.x \in sh THEN {e.x} ELSE {}
      [] e.is = "op" -> demand(e.l) \cup (IF e.op \in Both THEN demand(e.r) ELSE {})
      [] e.is = "if" -> IF IsOtherwise(e.c, sh) THEN demand(e.l)
                        ELSE demand(e.c) \cup (demand(e.l) \cap demand(e.r))
      [] e.is = "case" -> Case(e, r, caps, sh)
      [] e.is = "let" -> Let(e, r, caps, sh)

-------------------------------------------------------------------------------
(* Clauses and the where functions in them.                                *)

Meet(a, b) ==
    [i \in 1 .. (IF Len(a) > Len(b) THEN Len(a) ELSE Len(b)) |->
        i <= Len(a) /\ i <= Len(b) /\ a[i] /\ b[i]]
All(n) == [i \in 1..n |-> TRUE]
AndRows(rs, n) == FoldLeft(Meet, All(n), rs)

(* analyze_equation, once the where functions have their rows.             *)
EquationRow(cl, r, caps) ==
    LET sh == ShadowedNames(cl)
        rhs == [x \in ValueNames(cl.wh) |->
                    UNION {Demanded(b.body, r, caps, sh) : b \in {c \in ToSet(cl.wh) : c.name = x /\ IsValue(c)}}]
        demanded == ClauseDemand(cl, rhs, r, caps, sh) \ {b.name : b \in ToSet(cl.wh)}
    IN [i \in DOMAIN cl.ps |-> Forces(cl.ps[i]) \/ PatternVars(<<cl.ps[i]>>) \cap demanded # {}]

(* The equations of a where function are analysed with no name around them *)
(* taken for local: parent_shadowed is the caller's, not this clause's.    *)
RECURSIVE LocalRows(_, _)
LocalRows(cl, r) ==             \* greatest: from all strict downwards
    LET row(eqs) == AndRows([i \in DOMAIN eqs |-> EquationRow(eqs[i], r, <<>>)], Len(eqs[1].ps))
        from(next) == IF next = r THEN r ELSE LocalRows(cl, next)
    IN from([f \in LocalFunctions(cl) |-> row(Equations(cl.wh, f))] @@ r)

RECURSIVE Captured(_, _, _)
Captured(cl, r, caps) ==        \* least: from nothing upwards
    LET outside(eq) == Demanded(eq.body, r, caps, {}) \ PatternVars(eq.ps)
        every(sets) == {x \in sets[1] : \A i \in DOMAIN sets : x \in sets[i]}
        outer(eqs) == every([i \in DOMAIN eqs |-> outside(eqs[i])]) \ (ReboundIn(cl) \cup FunctionNames(cl.wh))
        from(next) == IF next = caps THEN caps ELSE Captured(cl, r, next)
    IN from([f \in DOMAIN caps |-> [caps[f] EXCEPT !.names = outer(Equations(cl.wh, f))]])

ClauseRow(cl, r) ==
    LET arity == [f \in LocalFunctions(cl) |-> Len(Equations(cl.wh, f)[1].ps)]
        none == [f \in LocalFunctions(cl) |-> [arity |-> arity[f], names |-> {}]]
        under(local) == EquationRow(cl, local, Captured(cl, local, none))
    IN under(LocalRows(cl, [f \in LocalFunctions(cl) |-> All(arity[f])] @@ r))

-------------------------------------------------------------------------------
(* The module.                                                             *)

(* eta_padded_view: a clause as emitted, one parameter to an arrow.        *)
EtaPadded(cl, arrows) ==
    LET missing == 1 .. (arrows - Len(cl.ps))
        names == [i \in missing |-> "eta" \o ToString(i)]
        apply(e) == IF missing = {} THEN e
                    ELSE LET args == [i \in missing |-> [is |-> "var", x |-> names[i]]] IN
                         IF e.is = "app" THEN [e EXCEPT !.args = @ \o args]
                         ELSE [is |-> "app", f |-> e, args |-> args]
    IN [cl EXCEPT !.ps = @ \o [i \in missing |-> [p |-> "var", x |-> names[i]]],
                  !.body = apply(@),
                  !.guards = [i \in DOMAIN @ |-> [@[i] EXCEPT !.body = apply(@)]]]

FunctionRow(fn, r) ==
    LET cls == [i \in DOMAIN fn.clauses |-> EtaPadded(fn.clauses[i], fn.arrows)] IN
    AndRows([i \in DOMAIN cls |-> ClauseRow(cls[i], r)], Len(cls[1].ps))

Names == {functions[i].name : i \in DOMAIN functions}
Members(name) == SelectSeq(functions, LAMBDA fn : fn.name = name)

(* A name stands for all the functions that bear it (group_by_name).       *)
GroupRow(name, r) ==
    LET own == [i \in DOMAIN Members(name) |-> FunctionRow(Members(name)[i], r)] IN
    FoldLeft(Meet, own[1], Tail(own))

(* One turn of the loop of `analyze`: each row from the ones before it.    *)
Round ==
    /\ ~settled
    /\ rows' = FoldLeft(LAMBDA r, fn : [r EXCEPT ![fn.name] = GroupRow(fn.name, r)], rows, functions)
    /\ settled' = (rows' = rows)
    /\ UNCHANGED <<functions, result>>

-------------------------------------------------------------------------------
(* A run.  A scope is a sequence of frames, the innermost first; a frame   *)
(* maps names to what they stand for: a known result, a suspended          *)
(* expression, or a binding of a where or let, which sees its own frame.   *)

Bottom == [is |-> "bottom"]
Datum == [is |-> "value"]
Falls == [is |-> "falls"]                               \* no guard holds
Function(eqs, scope) == [is |-> "function", eqs |-> eqs, scope |-> scope, args |-> <<>>]

Known(v) == [as |-> "known", v |-> v]
Suspended(e, scope) == [as |-> "suspended", e |-> e, scope |-> scope]
Frame(wh) == [x \in {b.name : b \in ToSet(wh)} |->
                IF x \in ValueNames(wh)
                THEN [as |-> "value", e |-> (CHOOSE b \in ToSet(wh) : b.name = x).body]
                ELSE [as |-> "local", eqs |-> Equations(wh, x)]]

Clause(ps, body) == [ps |-> ps, guards |-> <<>>, body |-> body, wh |-> <<>>]
Param(x) == [p |-> "var", x |-> x]
Ref(x) == [is |-> "var", x |-> x]
Applied(f, args) == [is |-> "app", f |-> f, args |-> args]

(* The frames from the one that binds x on.                                *)
RECURSIVE Binding(_, _)
Binding(x, scope) == IF scope = <<>> \/ x \in DOMAIN scope[1] THEN scope ELSE Binding(x, Tail(scope))

RECURSIVE Evaluate(_, _, _, _)          \* what to do, with what, where; n bounds the calls
Values(e, scope, n) == Evaluate("expression", e, scope, n)
ValuesOf(entry, n) == Evaluate("entry", entry, <<>>, n)
Enter(eqs, args, scope, n) == Evaluate("enter", [eqs |-> eqs, args |-> args], scope, n)
Apply(v, args, n) == Evaluate("apply", [v |-> v, args |-> args], <<>>, n)
Matches(ps, args, n) == Evaluate("match", [ps |-> ps, args |-> args], <<>>, n)
Guarded(guards, scope, n) == Evaluate("guards", guards, scope, n)

(* Once the first is evaluated, unless it diverges.                        *)
Then(first, next) == (first \cap {Bottom}) \cup (IF first \subseteq {Bottom} THEN {} ELSE next)

(* The results of the first equation that fits, and of falling through.    *)
EnterFirst(eqs, args, scope, n) ==
    LET eq == eqs[1]
        rest == Enter(Tail(eqs), args, scope, n)
        bound == [x \in PatternVars(eq.ps) |-> args[CHOOSE i \in DOMAIN eq.ps : x \in PatternVars(<<eq.ps[i]>>)]]
        body(inner) == IF eq.guards = <<>> THEN Values(eq.body, inner, n) ELSE Guarded(eq.guards, inner, n)
        results(m) == {v \in {Bottom} : "bottom" \in m}
                      \cup (IF "fits" \in m THEN body(<<Frame(eq.wh), bound>> \o scope) ELSE {})
                      \cup {v \in {Falls} : "fails" \in m}
        fallen(vs) == (vs \ {Falls}) \cup (IF Falls \in vs THEN rest ELSE {})
    IN fallen(results(Matches(eq.ps, args, n)))

(* Patterns force from left to right.                                      *)
MatchFirst(ps, args, n) ==
    LET rest == Matches(Tail(ps), Tail(args), n)
        forced(vs) == {m \in {"bottom"} : Bottom \in vs}
                      \cup (IF vs \subseteq {Bottom} THEN {} ELSE {"fails"} \cup rest)
    IN IF Forces(ps[1]) THEN forced(ValuesOf(args[1], n)) ELSE rest

Local(x, scope) == Binding(x, scope) # <<>>
GuardFirst(gs, scope, n) ==
    LET body == Values(gs[1].body, scope, n) IN
    IF IsOtherwise(gs[1].cond, {}) /\ ~Local("otherwise", scope) THEN body
    ELSE Then(Values(gs[1].cond, scope, n), body \cup Guarded(Tail(gs), scope, n))

(* A call with too few arguments is a function, with more it goes on.      *)
ApplyFunction(f, args, n) ==
    LET k == Len(f.eqs[1].ps) IN
    IF Len(args) < k THEN {[f EXCEPT !.args = args]}
    ELSE IF n = 0 THEN {}
    ELSE UNION {Apply(v, SubSeq(args, k + 1, Len(args)), n - 1) :
                  v \in Enter(f.eqs, SubSeq(args, 1, k), f.scope, n - 1)}

EntryValues(entry, n) ==
    IF entry.as = "known" THEN {entry.v} ELSE Values(entry.e, entry.scope, n)

NameValues(x, scope, n) ==
    IF scope = <<>>
    THEN IF x \notin Names THEN {Datum}
         ELSE UNION {Apply(Function(fn.clauses, <<>>), <<>>, n) : fn \in ToSet(Members(x))}
    ELSE LET b == scope[1][x] IN
         CASE b.as = "value" -> IF n = 0 THEN {} ELSE Values(b.e, scope, n - 1)
           [] b.as = "local" -> {Function(b.eqs, scope)}
           [] OTHER -> ValuesOf(b, n)

RightOf(e, scope, n) ==                 \* the left operand of an operator evaluated
    CASE e.op \in Both -> Then(Values(e.r, scope, n), {Datum})
      [] e.op = "seq" -> Values(e.r, scope, n)
      [] e.op = "++" -> {Datum}
      [] e.op = "&&" -> {Datum} \cup Values(e.r, scope, n)

ExpressionValues(e, scope, n) ==
    LET args(es) == [i \in DOMAIN es |-> Suspended(es[i], scope)]
        call(f, es) == UNION {Apply(v, args(es), n) : v \in Values(f, scope, n)}
    IN
    CASE e.is = "var" -> NameValues(e.x, Binding(e.x, scope), n)
      [] e.is \in {"lit", "data"} -> {Datum}
      [] e.is = "lam" -> {Function(<<Clause(e.ps, e.body)>>, scope)}
      [] e.is = "app" -> call(e.f, e.args)
      [] e.is = "comp" -> {Function(<<Clause(<<Param("arg")>>, Applied(Ref("outer"), <<Applied(Ref("inner"), <<Ref("arg")>>)>>))>>,
                                    <<[x \in {"outer", "inner"} |-> Suspended(IF x = "outer" THEN e.f ELSE e.g, scope)]>>)}
      [] e.is = "tick" -> call(Ref(e.x), <<e.l, e.r>>)
      [] e.is = "op" -> IF e.op = "$" THEN call(e.l, <<e.r>>)
                        ELSE Then(Values(e.l, scope, n), RightOf(e, scope, n))
      [] e.is = "if" -> IF IsOtherwise(e.c, {}) /\ ~Local("otherwise", scope) THEN Values(e.l, scope, n)
                        ELSE Then(Values(e.c, scope, n), Values(e.l, scope, n) \cup Values(e.r, scope, n))
      [] e.is = "case" -> Enter(e.branches, <<Suspended(e.of, scope)>>, scope, n)
      [] e.is = "let" -> Values(e.body, <<Frame(e.wh)>> \o scope, n)

Evaluate(what, a, scope, n) ==
    CASE what = "expression" -> ExpressionValues(a, scope, n)
      [] what = "entry" -> EntryValues(a, n)
      [] what = "enter" -> IF a.eqs = <<>> THEN {Bottom} ELSE EnterFirst(a.eqs, a.args, scope, n)
      [] what = "match" -> IF a.ps = <<>> THEN {"fits"} ELSE MatchFirst(a.ps, a.args, n)
      [] what = "guards" -> IF a = <<>> THEN {Falls} ELSE GuardFirst(a, scope, n)
      [] what = "apply" -> IF a.v.is # "function" THEN {a.v}
                           ELSE ApplyFunction(a.v, a.v.args \o a.args, n)

(* A function run with a diverging argument its row calls strict.          *)
Calls == 4                                                      \* bound
Arguments(row, i) == [j \in DOMAIN row |-> Known(IF j = i THEN Bottom ELSE Datum)]
Run ==
    /\ settled /\ result = ""
    /\ \E fn \in ToSet(functions) :
       \E i \in {j \in DOMAIN rows[fn.name] : rows[fn.name][j]} :
       \E v \in Apply(Function(fn.clauses, <<>>), Arguments(rows[fn.name], i), Calls) :
          result' = IF v = Bottom THEN "bottom" ELSE "value"
    /\ UNCHANGED <<functions, rows, settled>>

\* Mutant of Seed: nothing is strict until it is shown to be.
SeedLazy(fn) == [i \in 1 .. fn.arrows |-> FALSE]
Seed(fn) == All(fn.arrows)

Init ==
    /\ functions \in Modules
    /\ rows = [x \in Names |-> Seed(Members(x)[1])]
    /\ settled = FALSE /\ result = ""

Next == Round \/ Run

Spec == Init /\ [][Next]_vars

-------------------------------------------------------------------------------
TypeOK ==
    /\ \A x \in Names : rows[x] \in Seq(BOOLEAN)
    /\ settled \in BOOLEAN /\ result \in {"", "value", "bottom"}

(* "A parameter is kept strict only if forcing the result genuinely forces *)
(* it, so evaluating it eagerly at entry cannot introduce a bottom the     *)
(* callee would not itself have produced" (demand.rs 486-489).             *)
StrictIsForced == result # "value"

(* A clause with where functions that binds the name of a function of the  *)
(* module, or `otherwise`.                                                 *)
WhereUnderShadow ==
    \E fn \in ToSet(functions) : \E cl \in ToSet(fn.clauses) :
       FunctionNames(cl.wh) # {} /\ ShadowedNames(cl) \cap (Names \cup {"otherwise"}) # {}

(* ... wherever no local name hides a global one from a where function.    *)
StrictIsForcedUnlessHidden == WhereUnderShadow \/ StrictIsForced

(* The rows only go down, so that the loop ends (demand.rs 502-504).       *)
RowsOnlyShrink ==
    [][\A x \in Names : \A i \in DOMAIN rows'[x] :
          rows'[x][i] => i \in DOMAIN rows[x] /\ rows[x][i]]_vars
===============================================================================
