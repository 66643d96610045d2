----------------------------- MODULE LuaExpressions -----------------------------
(***************************************************************************)
(* Passes 1 to 4 over the finished tree (codegen/opt.rs): parentheses that *)
(* the position makes redundant, branches and statements that are never    *)
(* reached, function literals that are called where they stand, and forces *)
(* of what is known to be evaluated.  The first three make work for each   *)
(* other and run in rounds.                                                *)
(*                                                                         *)
(* A position is where a prefix expression must stand ("prefix"), where    *)
(* grouping matters ("grouped"), where one value is taken ("single") or    *)
(* all of them ("last"), or a statement ("stmt").                          *)
(***************************************************************************)
EXTENDS LuaLoops

ArgAt(i, n) == IF i = n THEN "last" ELSE "single"
PartAt(x, i) ==
    CASE x.e # "call" -> "grouped"
      [] i = 1 -> "prefix"
      [] OTHER -> ArgAt(i, Len(x.of))
ExprAt(s, i, return) ==
    CASE s.s = "return" -> return
      [] s.s = "multi" -> ArgAt(i, Len(s.es))
      [] s.s = "local" /\ Len(s.ns) > 1 -> "last"
      [] OTHER -> "single"

(* May x stand there on its own (annot.rs, fits)?                          *)
Fits(x, at) ==
    CASE at = "stmt" -> x.e = "call"
      [] at = "prefix" -> x.e \in {"name", "slot", "paren", "call"}
      [] at = "grouped" -> x.e \in {"name", "slot", "paren", "call", "lit"}
      [] at = "single" -> TRUE
      [] OTHER -> x.e # "raw" /\ (x.e = "call" => OneValueCallee(x.of[1]))

-----------------------------------------------------------------------------
(* Pass 1.  The paren around a call cuts its values down to one.           *)

\* Mutant of Sheds: the values of a returned or last call are cut in any case.
ShedsCalls(x, at) == x.e # "raw" /\ (at = "last" \/ Fits(x, at))
Sheds(x, at) == x.e # "raw" /\ Fits(x, at) /\ (at = "grouped" => x.e # "call")

(* One value is taken of what a thunk's body returns, lifted or not.       *)
ThunkTable == "__mll_tkf"
Suspends(x) == Calls(x, "__thunk") /\ Len(x.of) = 2 /\ x.of[2].e = "func"
BodyReturns(s, return) ==
    CASE s.s # "function" -> return
      [] s.lhs # <<>> /\ s.lhs[1].n = ThunkTable -> "single"
      [] OTHER -> "last"

RECURSIVE Normal(_, _), NormalBlock(_, _)
Normal(x, at) ==
    CASE x.e = "paren" /\ Sheds(x.of[1], at) -> Normal(x.of[1], at)
      [] Suspends(x) -> Call(x.of[1], <<Func(x.of[2].ps, NormalBlock(x.of[2].body, "single"))>>)
      [] x.e = "func" -> Func(x.ps, NormalBlock(x.body, "last"))
      [] "of" \in DOMAIN x -> [x EXCEPT !.of = [i \in DOMAIN x.of |-> Normal(x.of[i], PartAt(x, i))]]
      [] OTHER -> x
NormalStmt(s, return) ==
    [s EXCEPT !.es = [i \in DOMAIN s.es |-> Normal(s.es[i], ExprAt(s, i, return))],
              !.blocks = Each(s.blocks, LAMBDA c : NormalBlock(c, BodyReturns(s, return)))]
NormalBlock(b, return) == Each(b, LAMBDA s : NormalStmt(s, return))

-----------------------------------------------------------------------------
(* Pass 2.                                                                 *)

TrueLit == Lit(Bool(TRUE))
Complements(p, q) ==
    p.e = "op" /\ q.e = "op" /\ {p.op, q.op} = {"==", "~="} /\ p.of = q.of

(* The arms of a chain of elseifs, and its else.                           *)
IsElseIf(b) == Len(b) = 1 /\ b[1].s = "if"
RECURSIVE Arms(_), Chained(_, _)
Arms(s) ==
    <<[when |-> s.es[1], then |-> s.blocks[1]]>>
    \o IF Len(s.blocks) = 2 /\ IsElseIf(s.blocks[2]) THEN Arms(s.blocks[2][1]) ELSE <<>>
RECURSIVE ElseOf(_)
ElseOf(s) ==
    CASE Len(s.blocks) = 1 -> <<>>
      [] IsElseIf(s.blocks[2]) -> ElseOf(s.blocks[2][1])
      [] OTHER -> <<s.blocks[2]>>
Chained(arms, else) ==
    LET rest == IF Len(arms) = 1 THEN else ELSE <<<<Chained(Tail(arms), else)>>>>
    IN Stmt("if", <<>>, <<>>, <<arms[1].when>>, <<arms[1].then>> \o rest, <<>>)

Collapsed(arms, else) ==
    CASE arms[1].when = TrueLit -> Do(arms[1].then)
      [] Len(arms) = 2 /\ Complements(arms[1].when, arms[2].when) -> Chained(<<arms[1]>>, <<arms[2].then>>)
      [] OTHER -> Chained(arms, else)
CleanedChain(arms, else) ==
    LET certain == {i \in 2..Len(arms) : arms[i].when = TrueLit}
        i == CHOOSE j \in certain : \A k \in certain : j <= k
    IN IF certain = {} THEN Collapsed(arms, else)
       ELSE Collapsed(SubSeq(arms, 1, i - 1), <<arms[i].then>>)

\* Mutant of Reached: what follows an if is never reached when one arm diverges.
ReachedUnlessArm(b) ==
    LET ends == {i \in DOMAIN b : Diverges(<<b[i]>>) \/ (b[i].s = "if" /\ Diverges(b[i].blocks[1]))}
    IN IF ends = {} THEN b ELSE SubSeq(b, 1, CHOOSE i \in ends : \A j \in ends : i <= j)
Reached(b) ==
    LET ends == {i \in DOMAIN b : Diverges(<<b[i]>>)}
    IN IF ends = {} THEN b ELSE SubSeq(b, 1, CHOOSE i \in ends : \A j \in ends : i <= j)
LastOpened(b) == IF b # <<>> /\ Last(b).s = "do" THEN Front(b) \o Last(b).blocks[1] ELSE b
Shortened(b) ==
    IF \E s \in ToSet(b) : s.s \in {"goto", "label"} THEN b ELSE LastOpened(Reached(b))

RECURSIVE Clean(_), CleanInside(_), CleanStmt(_)
CleanInside(x) ==
    CASE x.e = "func" -> Func(x.ps, Clean(x.body))
      [] "of" \in DOMAIN x -> [x EXCEPT !.of = Each(x.of, CleanInside)]
      [] OTHER -> x
CleanStmt(s) ==
    IF s.s = "if"
    THEN CleanedChain(Each(Arms(s), LAMBDA a : [when |-> CleanInside(a.when), then |-> Clean(a.then)]),
                      Each(ElseOf(s), Clean))
    ELSE [s EXCEPT !.es = Each(s.es, CleanInside), !.blocks = Each(s.blocks, Clean)]
Clean(b) == Shortened(Each(b, CleanStmt))

-----------------------------------------------------------------------------
(* Pass 3.                                                                 *)

IsCalledLiteral(x) ==
    x.e = "call" /\ x.of[1].e = "paren" /\ x.of[1].of[1].e = "func"
    /\ Len(x.of) = Len(x.of[1].of[1].ps) + 1
Literal(x) == x.of[1].of[1]

(* try_splice_return.  An argument sees none of the parameters before it.  *)
\* Mutant of ArgumentsApart: they may.
ArgumentsMixed(x) == TRUE
ArgumentsApart(x) ==
    \A k \in 3..Len(x.of) : \A j \in 1..(k - 2) :
        Literal(x).ps[j] \notin Tokens(<<Run(x.of[k])>>)
ReturnCost(s) == Len(Literal(s.es[1]).ps) + CountLocals(Literal(s.es[1]).body)
ReturnSplices(b, i, budget) ==
    /\ i = Len(b) /\ b[i].s = "return" /\ b[i].es # <<>>
    /\ IsCalledLiteral(b[i].es[1]) /\ ArgumentsApart(b[i].es[1])
    /\ ReturnCost(b[i]) <= budget
ReturnSpliced(b) ==
    LET x == Last(b).es[1]
        bound == [k \in DOMAIN Literal(x).ps |->
                     NormalStmt(Local(<<Literal(x).ps[k]>>, <<x.of[k + 1]>>), "single")]
    IN Front(b) \o bound \o Literal(x).body

(* tail_rewrite_ok: every return of a tail can be an assignment instead.   *)
RECURSIVE Assignable(_, _)
Assignable(s, strict) ==
    CASE s.s = "return" -> s.es # <<>>
      [] s.s = "if" ->
            /\ \A c \in ToSet(s.blocks) : IF c = <<>> THEN ~strict ELSE Assignable(Last(c), strict)
            /\ Len(s.blocks) = 2 \/ ~strict
      [] s.s = "expr" -> Calls(s.es[1], "error")
      [] OTHER -> s.s \in {"local", "assign", "multi", "function"} /\ ~strict

RECURSIVE AssignReturns(_, _)
AssignReturns(s, to) ==
    CASE s.s = "return" -> Assign(<<to>>, s.es)
      [] s.s = "if" -> [s EXCEPT !.blocks = Each(s.blocks, LAMBDA c :
                            IF c = <<>> THEN c ELSE Append(Front(c), AssignReturns(Last(c), to)))]
      [] OTHER -> s

(* try_splice_value.  The literal's locals join the rest of the block.     *)
Introduced(b) == UNION {ToSet(s.ns) : s \in ToSet(Front(b))}
NamesOfTarget(s) == IF s.s = "local" THEN ToSet(s.ns) ELSE {x.n : x \in {y \in ToSet(s.lhs) : y.e = "name"}}

\* Mutant of NamesApart: what follows may mention the literal's locals.
NamesApartBefore(s, body, rest) == s.s = "assign" => Introduced(body) \cap NamesOfTarget(s) = {}
NamesApart(s, body, rest) ==
    /\ s.s = "local" /\ Last(body).s = "if" => Tokens(body) \cap NamesOfTarget(s) = {}
    /\ s.s = "assign" => Introduced(body) \cap NamesOfTarget(s) = {}
    /\ Introduced(body) \cap Tokens(rest) = {}
LiteralOf(s) == Literal(s.es[1]).body
ValueCost(s) == Total(Front(LiteralOf(s)), LAMBDA t : Len(t.ns))
ValueSplices(b, i, budget) ==
    LET s == b[i] IN
    /\ s.s \in {"local", "assign"} /\ Len(s.es) = 1 /\ Len(s.ns) <= 1
    /\ IsCalledLiteral(s.es[1]) /\ Literal(s.es[1]).ps = <<>>
    /\ LiteralOf(s) # <<>>
    /\ \A t \in ToSet(Front(LiteralOf(s))) : t.s \in {"local", "assign", "expr"}
    /\ Last(LiteralOf(s)).s \in {"return", "if"}
    /\ Assignable(Last(LiteralOf(s)), s.s = "assign")
    /\ NamesApart(s, LiteralOf(s), SubSeq(b, i + 1, Len(b)))
    /\ ValueCost(s) <= budget
ValueSpliced(b, i) ==
    LET s == b[i]
        body == LiteralOf(s)
        to == IF s.s = "local" THEN Name(s.ns[1]) ELSE s.lhs[1]
        spliced == CASE Last(body).s = "return" -> Append(Front(body), [s EXCEPT !.es = Last(body).es])
                     [] s.s = "local" -> <<Local(s.ns, <<>>)>> \o Front(body) \o <<AssignReturns(Last(body), to)>>
                     [] OTHER -> Append(Front(body), AssignReturns(Last(body), to))
    IN SubSeq(b, 1, i - 1) \o spliced \o SubSeq(b, i + 1, Len(b))

(* flatten_scope: what was spliced is looked at again; the locals a        *)
(* function has left are spent as the walk goes on.                        *)
RECURSIVE Flatten(_, _, _, _), FlattenInside(_, _), FlattenStmt(_, _, _)
FlattenBody(b, in) == Flatten(b, 1, Budget(CountLocals(b), in), in).out
FlattenInside(x, in) ==
    CASE x.e = "func" -> Func(x.ps, FlattenBody(x.body, in))
      [] "of" \in DOMAIN x -> [x EXCEPT !.of = Each(x.of, LAMBDA y : FlattenInside(y, in))]
      [] OTHER -> x
WithBlocks(s, r, in) ==
    Done([s EXCEPT !.blocks = r.out, !.es = Each(s.es, LAMBDA x : FlattenInside(x, in))], r.st)
FlattenStmt(s, budget, in) ==
    IF s.s = "function" THEN Done([s EXCEPT !.blocks = <<FlattenBody(s.blocks[1], in)>>], budget)
    ELSE WithBlocks(s, Threaded(s.blocks, budget, LAMBDA c, left : Flatten(c, 1, left, in)), in)
FlattenRest(b, i, r, in) == Flatten([b EXCEPT ![i] = r.out], i + 1, r.st, in)
Flatten(b, i, budget, in) ==
    CASE i > Len(b) -> Done(b, budget)
      [] ReturnSplices(b, i, budget) -> Flatten(ReturnSpliced(b), i, budget - ReturnCost(b[i]), in)
      [] ValueSplices(b, i, budget) -> Flatten(ValueSpliced(b, i), i, budget - ValueCost(b[i]), in)
      [] OTHER -> FlattenRest(b, i, FlattenStmt(b[i], budget, in), in)

-----------------------------------------------------------------------------
(* Pass 4.  `env` holds the names known to be evaluated, of those a scope  *)
(* gives a value once (annot.rs, qualifies).                               *)

\* Mutant of GivenOnce: any name that was given an evaluated value.
GivenOften(s, n, scope) == TRUE
GivenOnce(s, n, scope) ==
    /\ ~RawMentions(scope, n)
    /\ IF s.s = "local" THEN Binds(scope, n) = 1 /\ Assigns(scope, n) = 0
       ELSE Binds(scope, n) = 2 /\ Assigns(scope, n) = 1

(* derive, call_stamp, binop_stamp, as far as they claim "evaluated".      *)
RECURSIVE Evaluated(_, _)
Evaluated(x, env) ==
    CASE x.e = "name" -> x.n \in env
      [] x.e = "paren" -> Evaluated(x.of[1], env)
      [] x.e = "op" -> x.op \in {"==", "~="}
      [] x.e = "call" -> Calls(x, "__force") /\ Len(x.of) = 2
      [] OTHER -> x.e \in {"lit", "table", "func"}

Unforced(x, at, env) ==
    IF Calls(x, "__force") /\ Len(x.of) = 2 /\ Evaluated(x.of[2], env) /\ Fits(x.of[2], at)
    THEN x.of[2] ELSE x

RECURSIVE Collapse(_, _, _, _), CollapseBlock(_, _, _), CollapseStmt(_, _, _)
Collapse(x, at, env, scope) ==
    CASE x.e = "func" -> Func(x.ps, CollapseBlock(x.body, env \ ToSet(x.ps), scope))
      [] "of" \in DOMAIN x ->
            Unforced([x EXCEPT !.of = [i \in DOMAIN x.of |-> Collapse(x.of[i], PartAt(x, i), env, scope)]],
                     at, env)
      [] OTHER -> x

Given(s) ==
    CASE s.s = "local" /\ Len(s.ns) = 1 /\ s.es # <<>> -> {s.ns[1]}
      [] s.s = "assign" /\ s.lhs[1].e = "name" -> {s.lhs[1].n}
      [] OTHER -> {}
Knowing(s, env, scope) ==
    Done(s, env \cup {n \in Given(s) : Evaluated(s.es[1], env) /\ GivenOnce(s, n, scope)})
CollapseStmt(s, env, scope) ==
    IF s.s = "function" THEN Done([s EXCEPT !.blocks = <<CollapseBlock(s.blocks[1], {}, s.blocks[1])>>], env)
    ELSE Knowing([s EXCEPT
             !.es = [i \in DOMAIN s.es |->
                        Collapse(s.es[i], IF s.s = "expr" THEN "stmt" ELSE ExprAt(s, i, "last"), env, scope)],
             !.blocks = Each(s.blocks, LAMBDA c : CollapseBlock(c, env, scope))], env, scope)
CollapseBlock(b, env, scope) ==
    Threaded(b, env, LAMBDA s, known : CollapseStmt(s, known, scope)).out
===============================================================================
