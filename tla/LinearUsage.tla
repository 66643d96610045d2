------------------------------ MODULE LinearUsage ------------------------------
(***************************************************************************)
(* The usage checker of `%1` arrows (typechecker/usage.rs): a walk over    *)
(* the typed definition counts the uses of every variable on the lattice   *)
(* one / one at a multiplicity variable / many, and refuses a definition   *)
(* whose linear binders it cannot see consumed exactly once.               *)
(*                                                                         *)
(* An accepted definition is then run: the reference evaluates it by name, *)
(* lazily, branch by branch, and counts what becomes of the argument, a    *)
(* resource of two parts.  Types matter only as far as `()` goes; host     *)
(* functions consume their argument as often as their arrow lets them, or  *)
(* hand it on.                                                             *)
(***************************************************************************)
EXTENDS Naturals, Sequences, FiniteSets, SequencesExt, FiniteSetsExt, Functions, TLC

CONSTANTS Programs      \* [mult, pat, body]: one clause f pat = body, f : T %mult -> r

VARIABLES definition,      \* the definition being checked
          verdict,      \* "", "accepted" or "rejected"
          gap,          \* the walk let something pass that it does not follow
          used          \* how often a run consumed each part of the argument

vars == <<definition, verdict, gap, used>>

Parts == {"a", "b"}

-------------------------------------------------------------------------------
(* Counts, and usages: functions from the variables an expression uses.    *)

(* join_count, join_factor and the scaling of a count all take the larger  *)
(* of two; different multiplicity variables have no common bound.          *)
Larger(c, d) == IF c = "one" THEN d ELSE IF d \in {"one", c} THEN c ELSE "many"

Add(u, w) == [x \in DOMAIN u \cup DOMAIN w |->
                 IF x \notin DOMAIN w THEN u[x] ELSE IF x \notin DOMAIN u THEN w[x] ELSE "many"]
Join(u, w) == [x \in DOMAIN u \cup DOMAIN w |->
                 IF x \notin DOMAIN w THEN u[x] ELSE IF x \notin DOMAIN u THEN w[x]
                 ELSE Larger(u[x], w[x])]
Scale(u, factor) == [x \in DOMAIN u |-> Larger(u[x], factor)]
Without(f, S) == Restrict(f, DOMAIN f \ S)

(* What a walk returns; `gap` marks what it does not follow.               *)
Seen(u) == [u |-> u, ok |-> TRUE, gap |-> FALSE]
Unused == Seen(<<>>)
Both(r, s) == [u |-> Add(r.u, s.u), ok |-> r.ok /\ s.ok, gap |-> r.gap \/ s.gap]
Scaled(r, factor) == [r EXCEPT !.u = Scale(@, factor)]
Refuse(r, when) == [r EXCEPT !.ok = @ /\ ~when]
Gap(r, when) == [r EXCEPT !.gap = @ \/ when]
Hide(r, names) == [r EXCEPT !.u = Without(@, names)]

-------------------------------------------------------------------------------
(* Patterns: [pat |-> "var", x, ty], "_", "as" (x, of) and "pair" (l, r).   *)

RECURSIVE Binders(_), HasWildcard(_), HasAs(_)
Binders(p) ==
    CASE p.pat = "var" -> {<<p.x, p.ty>>}
      [] p.pat = "_" -> {}
      [] p.pat = "as" -> {<<p.x, "val">>} \cup Binders(p.of)
      [] p.pat = "pair" -> Binders(p.l) \cup Binders(p.r)
HasWildcard(p) ==
    CASE p.pat = "as" -> HasWildcard(p.of)
      [] p.pat = "pair" -> HasWildcard(p.l) \/ HasWildcard(p.r)
      [] OTHER -> p.pat = "_"
HasAs(p) == p.pat = "as" \/ (p.pat = "pair" /\ (HasAs(p.l) \/ HasAs(p.r)))

Names(p) == {b[1] : b \in Binders(p)}
NotUnit(p) == {b[1] : b \in {c \in Binders(p) : c[2] # "unit"}}

-------------------------------------------------------------------------------
(* The scope: the linear names with their bounds, and the local functions  *)
(* with how they use their parameter.                                      *)

Shadow(k, names) == [linear |-> Without(k.linear, names), fns |-> Without(k.fns, names)]
Track(k, names, bound) == [k EXCEPT !.linear = [x \in names |-> bound] @@ @]

(* check_binder: used, and not beyond its bound.                           *)
Kept(k, u, x) == x \in DOMAIN k.linear => x \in DOMAIN u /\ u[x] \in {"one", k.linear[x]}

(* taint_source: the strictest bound of a linear variable that is used.    *)
Tainting(k, u) == {k.linear[x] : x \in DOMAIN u \cap DOMAIN k.linear}
Tainted(k, u) == Tainting(k, u) # {}
Bound(k, u) == IF "one" \in Tainting(k, u) THEN "one" ELSE CHOOSE b \in Tainting(k, u) : TRUE

(* flag_skippable                                                          *)
Skippable(k, r) == Refuse(r, Tainted(k, r.u))

(* join_alternatives: what one alternative consumes, all must.             *)
Parity(k, rs) ==
    \A x \in DOMAIN k.linear : \A i, j \in DOMAIN rs : x \in DOMAIN rs[i].u => x \in DOMAIN rs[j].u

Alternatives(k, rs) ==
    [u |-> FoldLeft(LAMBDA u, r : Join(u, r.u), rs[1].u, rs),
     ok |-> Parity(k, rs) /\ \A i \in DOMAIN rs : rs[i].ok,
     gap |-> \E i \in DOMAIN rs : rs[i].gap]

-------------------------------------------------------------------------------
(* Local functions.                                                        *)

(* param_factor, and how a clause uses the argument its pattern matches.   *)
ParamFactor(u, x) ==
    IF x \in DOMAIN u THEN [factor |-> u[x], may_drop |-> FALSE] ELSE [factor |-> "one", may_drop |-> TRUE]
JoinFactor(f, g) == [factor |-> Larger(f.factor, g.factor), may_drop |-> f.may_drop \/ g.may_drop]
PatternFactor(p, u) ==
    FoldSet(LAMBDA x, f : JoinFactor(f, ParamFactor(u, x)),
            [factor |-> IF HasAs(p) THEN "many" ELSE "one", may_drop |-> HasWildcard(p)], Names(p))

IsFunction(b) == b.kind = "function" \/ b.rhs.is = "lam"
FunctionNames(binds) == {b.x : b \in {c \in ToSet(binds) : IsFunction(c)}}
BindNames(binds) == {b.x : b \in ToSet(binds)}

(* The scope a group's right-hand sides and body are walked in.            *)
Within(k, st) == [linear |-> st.taint @@ k.linear, fns |-> st.factors @@ k.fns]

RECURSIVE Walk(_, _), Rhs(_, _), GroupFix(_, _, _)

(* Would the walk see to it that this body consumes x?                     *)
Follows(k, body, x, bound) ==
    LET kt == Track(k, {x}, bound)
        r == Walk(body, kt) IN r.ok /\ ~r.gap /\ Kept(kt, r.u, x)

(* binding_rhs_usage: a clause of a local function, or a value.            *)
Rhs(b, k) ==
    IF b.kind = "function"
    THEN LET inner == Shadow(k, Names(b.pat))
             r == Walk(b.rhs, inner) IN
         [r |-> Gap(Hide(r, Names(b.pat)),
                    \E x \in Names(b.pat) \cap DOMAIN r.u :
                        r.u[x] # "many" /\ ~Follows(inner, b.rhs, x, r.u[x])),
          factor |-> PatternFactor(b.pat, r.u)]
    ELSE IF b.rhs.is = "lam"
    THEN LET r == Walk(b.rhs.body, Shadow(k, {b.rhs.x})) IN
         [r |-> Gap(Walk(b.rhs, k),
                    /\ b.rhs.x \in DOMAIN r.u /\ r.u[b.rhs.x] # "many"
                    /\ ~Follows(Shadow(k, {b.rhs.x}), b.rhs.body, b.rhs.x, r.u[b.rhs.x])),
          factor |-> ParamFactor(r.u, b.rhs.x)]
    ELSE [r |-> Walk(b.rhs, k), factor |-> [factor |-> "one", may_drop |-> FALSE]]

(* group_enter: what the functions do with their parameters and which      *)
(* values hold something linear, to a fixpoint.                            *)
Holding(binds, rhs, k) == {i \in DOMAIN binds : /\ binds[i].kind = "value" /\ binds[i].ty # "unit"
                                                /\ Tainted(k, rhs[i].r.u)}

GrownBy(binds, rhs, k, st) ==
    LET clauses(f) == {i \in DOMAIN binds : binds[i].x = f} IN
    [factors |-> [f \in FunctionNames(binds) |->
                    FoldSet(LAMBDA i, g : JoinFactor(g, rhs[i].factor), st.factors[f], clauses(f))],
     taint |-> st.taint @@ [x \in {binds[i].x : i \in Holding(binds, rhs, k)} |->
                    Bound(k, rhs[CHOOSE i \in Holding(binds, rhs, k) : binds[i].x = x].r.u)]]

Grown(binds, k, st) ==
    GrownBy(binds, [i \in DOMAIN binds |-> Rhs(binds[i], Within(k, st))], Within(k, st), st)

\* Mutant of GroupFix: one round of it.
GroupOnce(binds, k, st) == Grown(binds, k, st)
GroupFix(binds, k, st) ==
    LET from(next) == IF next = st THEN st ELSE GroupFix(binds, k, next) IN from(Grown(binds, k, st))

(* group_exit: each right-hand side counts as often as its name is used.   *)
GroupUsage(binds, rhs, body) ==
    LET stripped(i) == Hide(rhs[i].r, BindNames(binds))
        recursive(x) == \E i \in DOMAIN binds : x \in DOMAIN rhs[i].r.u
        factor(b) == IF b.kind = "function" \/ recursive(b.x) THEN "many" ELSE body.u[b.x]
        charged(i) == IF binds[i].x \in DOMAIN body.u \/ recursive(binds[i].x)
                      THEN Scaled(stripped(i), factor(binds[i]))
                      ELSE [stripped(i) EXCEPT !.u = <<>>] IN
    Hide(FoldLeft(LAMBDA r, i : Both(r, charged(i)), body, [i \in DOMAIN binds |-> i]),
         BindNames(binds))

GroupIn(binds, rhs, body, inner) ==
    Gap(GroupUsage(binds, rhs, Walk(body, inner)),
        \E i \in DOMAIN binds :
            /\ binds[i].kind = "value" /\ binds[i].ty = "unit"
            /\ Tainted(inner, rhs[i].r.u)
            /\ ~Follows(inner, body, binds[i].x, Bound(inner, rhs[i].r.u)))

InScope(binds, body, inner) ==
    GroupIn(binds, [i \in DOMAIN binds |-> Rhs(binds[i], inner)], body, inner)

NoFactors(binds) == [f \in FunctionNames(binds) |-> [factor |-> "one", may_drop |-> FALSE]]
Group(binds, body, k) ==
    LET outer == Shadow(k, BindNames(binds)) IN
    InScope(binds, body,
            Within(outer, GroupFix(binds, outer, [factors |-> NoFactors(binds), taint |-> <<>>])))

-------------------------------------------------------------------------------
(* Expressions.                                                            *)

(* A case branch: the pattern's names alias the scrutinee, unless unit.    *)
Branch(br, k, taint, bound) ==
    LET inner == Shadow(k, Names(br.pat))
        tracked == IF taint THEN NotUnit(br.pat) ELSE {}
        kt == Track(inner, tracked, bound)
        r == Walk(br.body, kt) IN
    Hide(Gap(Refuse(r, \/ taint /\ (HasAs(br.pat) \/ HasWildcard(br.pat))
                       \/ \E x \in tracked : ~Kept(kt, r.u, x)),
             taint /\ \E x \in Names(br.pat) \ tracked : ~Follows(kt, br.body, x, bound)),
         Names(br.pat))

Case(e, k) ==
    LET s == Walk(e.of, k)
        taint == Tainted(k, s.u)
        bound == IF taint THEN Bound(k, s.u) ELSE "one" IN
    Both(s, Alternatives(k, [i \in DOMAIN e.branches |-> Branch(e.branches[i], k, taint, bound)]))

(* Guarded bodies: later conditions may be skipped.                        *)
Guards(gs, k) ==
    LET cond == [i \in DOMAIN gs |-> IF i = 1 THEN Walk(gs[i].cond, k) ELSE Skippable(k, Walk(gs[i].cond, k))] IN
    Both(FoldLeft(LAMBDA r, c : Both(r, c), Unused, cond),
         Alternatives(k, [i \in DOMAIN gs |-> Walk(gs[i].body, k)]))

(* The continuation of a bind; Maybe may skip it, an unknown monad may run *)
(* it many times.                                                          *)
Bind(e, k) ==
    LET m == Walk(e.of, k)
        taint == Tainted(k, m.u)
        bound == IF taint THEN Bound(k, m.u) ELSE "one"
        inner == Shadow(k, {e.x})
        tracked == taint /\ e.res # "unit" /\ e.x # "_"
        kt == IF tracked THEN Track(inner, {e.x}, bound) ELSE inner
        r == Walk(e.body, kt)
        cont == Hide(Refuse(r, tracked /\ ~Kept(kt, r.u, e.x)), {e.x})
        once == e.monad \in {"IO", "Maybe"} IN
    Both(Gap(Refuse(m, taint /\ e.x = "_" /\ e.res # "unit"),
             taint /\ e.res = "unit" /\ e.of.is # "act" /\ ~Follows(inner, e.body, e.x, bound)),
         Scaled(IF e.monad = "Maybe" THEN Skippable(k, cont) ELSE cont, IF once THEN "one" ELSE "many"))

(* m >>= f, for a host function f.                                         *)
BindFunction(e, k) ==
    LET m == Walk(e.of, k) IN
    Refuse(m, Tainted(k, m.u) /\ e.mult \notin {"one", Bound(k, m.u)})

Lambda(e, k) ==
    LET kt == IF e.mult = "many" THEN Shadow(k, {e.x}) ELSE Track(Shadow(k, {e.x}), {e.x}, e.mult)
        r == Walk(e.body, kt) IN
    Scaled(Hide(Refuse(r, ~Kept(kt, r.u, e.x)), {e.x}), "many")

(* The argument of a local function.                                       *)
Call(e, k) ==
    LET arg == Walk(e.of, k)
        f == IF e.f \in DOMAIN k.fns THEN k.fns[e.f] ELSE [factor |-> "many", may_drop |-> FALSE] IN
    Both(Seen(e.f :> "one"),
         Scaled(IF f.may_drop THEN Skippable(k, arg) ELSE arg, f.factor))

Walk(e, k) ==
    CASE e.is = "var" -> Seen(e.x :> "one")
      [] e.is \in {"unit", "lit"} -> Unused
      [] e.is \in {"use", "pass", "act"} -> Scaled(Walk(e.of, k), e.mult)
      [] e.is = "pure" -> Walk(e.of, k)
      [] e.is = "pair" -> Both(Walk(e.l, k), Walk(e.r, k))
      [] e.is = "and" -> Both(Walk(e.l, k), Skippable(k, Walk(e.r, k)))
      [] e.is = "update" -> Both(Skippable(k, Walk(e.of, k)), Walk(e.r, k))
      [] e.is = "if" -> Alternatives(k, <<Walk(e.l, k), Walk(e.r, k)>>)
      [] e.is = "case" -> Case(e, k)
      [] e.is = "guards" -> Guards(e.guards, k)
      [] e.is = "let" -> Group(e.binds, e.body, k)
      [] e.is = "call" -> Call(e, k)
      [] e.is = "lam" -> Lambda(e, k)
      [] e.is = "bind" -> Bind(e, k)
      [] e.is = "bindf" -> BindFunction(e, k)

(* check_function_usage, for a clause of one argument.                     *)
Judged(r, k, names) ==
    LET p == definition.pat IN
    Gap(Refuse(r, HasAs(p) \/ HasWildcard(p) \/ \E x \in names : ~Kept(k, r.u, x)),
        \E x \in Names(p) \ names : ~Follows(k, definition.body, x, definition.mult))

Verdict(names) ==
    LET k == Track([linear |-> <<>>, fns |-> <<>>], names, definition.mult)
    IN Judged(Walk(definition.body, k), k, names)

ArgumentNames(p) == {b[1] : b \in {c \in Binders(p) : p.pat \in {"var", "as"} \/ c[2] # "unit"}}

Check ==
    /\ verdict = ""
    /\ \E v \in {Verdict(ArgumentNames(definition.pat))} :
          verdict' = (IF v.ok THEN "accepted" ELSE "rejected") /\ gap' = v.gap
    /\ UNCHANGED <<definition, used>>

-------------------------------------------------------------------------------
(* What a run consumes.  An entry is what a variable stands for, and also  *)
(* what an expression evaluates to: parts of the argument, something inert,*)
(* a suspended expression, a member of a group, a pair, a function or an   *)
(* action.  Each result comes with what its evaluation consumed.           *)

Counts == [Parts \cup {"lambda"} -> 0 .. 2]             \* 2: twice or more
Zero == [p \in Parts \cup {"lambda"} |-> 0]
Broken == [p \in Parts \cup {"lambda"} |-> 2]
Plus(c, d) == [p \in DOMAIN c |-> IF c[p] + d[p] > 2 THEN 2 ELSE c[p] + d[p]]
Sums(C, D) == {Plus(c, d) : c \in C, d \in D}

(* How often a function consumes its argument: as its arrow says.  The     *)
(* multiplicity variable that bounds the argument counts as one: only that *)
(* instance owes anything.                                                 *)
Often(C, mult) == IF mult \in {"one", definition.mult} THEN C ELSE {Zero} \cup C \cup Sums(C, C)

Resource(S) == [as |-> "token", parts |-> S]
Inert == [as |-> "inert"]
Suspended(e, env) == [as |-> "term", e |-> e, env |-> env]
GroupEnv(binds, env) ==
    [x \in BindNames(binds) |-> [as |-> "group", binds |-> binds, x |-> x, env |-> env]] @@ env

After(c, S) == {[s EXCEPT !.cost = Plus(c, @)] : s \in S}

RECURSIVE Evaluate(_, _, _, _)          \* what to do with an expression, entry or action
Heads(e, env, n) == Evaluate("heads", e, env, n)
HeadsOf(entry, n) == Evaluate("entry", entry, <<>>, n)
Consume(entry, n) == Evaluate("consume", entry, <<>>, n)
Match(p, entry, n) == Evaluate("match", p, entry, n)
Perform(a, n) == Evaluate("perform", a, <<>>, n)

(* Consuming what an expression in an environment evaluates to; n bounds   *)
(* the nesting of calls and of recursive values.                           *)
Consumed(e, env, n) == Consume(Suspended(e, env), n)

ConsumeEntry(entry, n) ==
    UNION {{Plus(h.cost, c) : c \in
              CASE h.head.as = "token" -> {[p \in DOMAIN Zero |-> IF p \in h.head.parts THEN 1 ELSE 0]}
                [] h.head.as = "inert" -> {Zero}
                [] h.head.as = "pair" -> Sums(Consume(h.head.l, n), Consume(h.head.r, n))
                [] h.head.as = "lambda" ->
                     LET f == h.head.e
                         runs == Consumed(f.body, (f.x :> IF f.mult = "many" THEN Inert ELSE Resource({"lambda"}))
                                                  @@ h.head.env, n)
                     IN Often({IF c["lambda"] = (IF f.mult = "many" THEN 0 ELSE 1)
                               THEN [c EXCEPT !["lambda"] = 0] ELSE Broken : c \in runs}, "many")
                [] h.head.as = "action" ->
                     UNION {Sums({r.cost}, Consume(r.result, n)) : r \in Perform(h.head, n)}}
           : h \in HeadsOf(entry, n)}

(* The ways a pattern matches, with what the match consumed.               *)
MatchPattern(p, entry, n) ==
    CASE p.pat = "var" -> {[cost |-> Zero, env |-> p.x :> entry]}
      [] p.pat = "_" -> {[cost |-> Zero, env |-> <<>>]}
      [] p.pat = "as" -> {[m EXCEPT !.env = (p.x :> entry) @@ @] : m \in Match(p.of, entry, n)}
      [] p.pat = "pair" ->
           UNION {LET l == IF h.head.as = "pair" THEN h.head.l
                           ELSE IF h.head.as = "token" THEN Resource(h.head.parts \cap {"a"}) ELSE Inert
                      r == IF h.head.as = "pair" THEN h.head.r
                           ELSE IF h.head.as = "token" THEN Resource(h.head.parts \ {"a"}) ELSE Inert
                  IN {[cost |-> Plus(h.cost, Plus(ml.cost, mr.cost)), env |-> ml.env @@ mr.env] :
                         ml \in Match(p.l, l, n), mr \in Match(p.r, r, n)}
                  : h \in HeadsOf(entry, n)}

EntryHeads(entry, n) ==
    CASE entry.as = "term" -> Heads(entry.e, entry.env, n)
      [] entry.as = "group" ->
           IF n = 0 THEN {}
           ELSE LET b == CHOOSE c \in ToSet(entry.binds) : c.x = entry.x
                IN Heads(b.rhs, GroupEnv(entry.binds, entry.env), n - 1)
      [] OTHER -> {[cost |-> Zero, head |-> entry]}

(* The clauses of the local function f, their patterns and right-hand sides.*)
Clauses(group, f) ==
    {IF b.kind = "function" THEN [pat |-> b.pat, rhs |-> b.rhs]
     ELSE [pat |-> [pat |-> "var", x |-> b.rhs.x], rhs |-> b.rhs.body] :
        b \in {c \in ToSet(group.binds) : c.x = f}}

(* To weak head normal form.                                               *)
ExpressionHeads(e, env, n) ==
    LET now(h) == {[cost |-> Zero, head |-> h]}
        inert(C) == {[cost |-> c, head |-> Inert] : c \in C}
        consumed(x) == Consumed(x, env, n)
    IN
    CASE e.is = "var" -> HeadsOf(env[e.x], n)
      [] e.is \in {"unit", "lit"} -> now(Inert)
      [] e.is = "use" -> inert(Often(consumed(e.of), e.mult))
      [] e.is = "pass" -> Heads(e.of, env, n)
      [] e.is = "pair" -> now([as |-> "pair", l |-> Suspended(e.l, env), r |-> Suspended(e.r, env)])
      [] e.is = "and" -> inert(consumed(e.l) \cup Sums(consumed(e.l), consumed(e.r)))
      [] e.is = "update" -> inert(consumed(e.r) \cup Sums(consumed(e.of), consumed(e.r)))
      [] e.is = "if" -> Heads(e.l, env, n) \cup Heads(e.r, env, n)
      [] e.is = "case" ->
           UNION {UNION {After(m.cost, Heads(br.body, m.env @@ env, n)) :
                           m \in Match(br.pat, Suspended(e.of, env), n)} : br \in ToSet(e.branches)}
      [] e.is = "guards" ->
           UNION {LET conds == FoldLeft(LAMBDA C, g : Sums(C, consumed(g.cond)), {Zero}, SubSeq(e.guards, 1, i))
                  IN UNION {After(c, Heads(e.guards[i].body, env, n)) : c \in conds} : i \in DOMAIN e.guards}
      [] e.is = "let" -> Heads(e.body, GroupEnv(e.binds, env), n)
      [] e.is = "call" ->
           IF n = 0 THEN {}
           ELSE LET group == env[e.f] IN
                UNION {UNION {After(m.cost, Heads(cl.rhs, m.env @@ GroupEnv(group.binds, group.env), n - 1)) :
                                m \in Match(cl.pat, Suspended(e.of, env), n)} : cl \in Clauses(group, e.f)}
      [] e.is = "lam" -> now([as |-> "lambda", e |-> e, env |-> env])
      [] OTHER -> now([as |-> "action", e |-> e, env |-> env])

(* Running an action: what it consumes and the result it leaves.           *)
PerformAction(a, n) ==
    LET first == UNION {After(h.cost, Perform(h.head, n)) : h \in Heads(a.e.of, a.env, n)}
        then(r) == UNION {UNION {After(Plus(r.cost, h.cost), Perform(h.head, n)) : h \in S} :
                            S \in {Heads(a.e.body, (a.e.x :> r.result) @@ a.env, n)}}
        skipped == {r \in first : r.result.as = "inert"}    \* not the `pure` of anything
    IN
    CASE a.e.is = "act" -> {[cost |-> c, result |-> Inert] : c \in Often(Consumed(a.e.of, a.env, n), a.e.mult)}
      [] a.e.is = "pure" -> {[cost |-> Zero, result |-> Suspended(a.e.of, a.env)]}
      [] a.e.is = "bindf" ->
           UNION {{[cost |-> Plus(r.cost, c), result |-> Inert] : c \in Often(Consume(r.result, n), a.e.mult)} : r \in first}
           \cup (IF a.e.monad = "Maybe" THEN skipped ELSE {})
      [] a.e.is = "bind" ->
           CASE a.e.monad = "IO" -> UNION {then(r) : r \in first}
             [] a.e.monad = "Maybe" -> skipped \cup UNION {then(r) : r \in first}
             [] OTHER -> skipped \cup UNION {then(r) : r \in first}
                         \cup UNION {UNION {After(s.cost, then([r EXCEPT !.cost = Zero])) : s \in then(r)}
                                      : r \in skipped}

Evaluate(what, a, env, n) ==
    CASE what = "heads" -> ExpressionHeads(a, env, n)
      [] what = "entry" -> EntryHeads(a, n)
      [] what = "consume" -> ConsumeEntry(a, n)
      [] what = "match" -> MatchPattern(a, env, n)
      [] what = "perform" -> PerformAction(a, n)

(* One run of an accepted definition, to the end of its result.            *)
Calls == 3                                                      \* bound
Run ==
    /\ verdict = "accepted" /\ used = <<>>
    /\ \E m \in Match(definition.pat, Resource(Parts), Calls) :
          \E c \in Consumed(definition.body, m.env, Calls) : used' = Plus(m.cost, c)
    /\ UNCHANGED <<definition, verdict, gap>>

Init == definition \in Programs /\ verdict = "" /\ gap = FALSE /\ used = <<>>

Next == Check \/ Run

Spec == Init /\ [][Next]_vars

-------------------------------------------------------------------------------
TypeOK ==
    /\ verdict \in {"", "accepted", "rejected"} /\ gap \in BOOLEAN
    /\ used = <<>> \/ used \in Counts

ConsumedOnce == used # <<>> => \A p \in Parts : used[p] = 1

\* Every binder of a `%1` arrow "must be consumed exactly once on every evaluation
\* path" (usage.rs 1770-1772): in an accepted definition no path leaks a part of
\* the argument and none consumes one twice ("there is no remaining accept-direction
\* gap where a double-use or a leak slips past the checker", doc/articles/HASKDIFF.md
\* 1058-1060).
AcceptedConsumesOnce == ConsumedOnce

\* ... wherever every local function consumes its parameter on each path on which
\* it promises to, and no `()` that still has something to consume is passed over.
ConsumesOnceUnlessGap == ~gap => ConsumedOnce
===============================================================================
