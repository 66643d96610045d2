------------------------------- MODULE LuaLoops -------------------------------
(***************************************************************************)
(* Passes 5, 6 and 7 over the finished tree of a module (codegen/opt.rs):  *)
(* a function that calls itself in tail position becomes a loop            *)
(* (tailloop.rs), an action that ends by running itself becomes one        *)
(* closure with a loop in it (ioloop.rs), and literals that do not change  *)
(* in a loop move before it (hoist.rs).  The engine of annot.rs offers     *)
(* every named function to them.  `in` is the module a pass works on and   *)
(* the locals a function may have.                                         *)
(***************************************************************************)
EXTENDS LuaMachine

FnTable == "__mll_fn"

(* used_tokens and fresh_with_prefix: underscores until nothing collides.  *)
RECURSIVE Fresh(_, _, _)
Fresh(used, prefix, n) ==
    LET names == [i \in 1..n |-> prefix \o ToString(i - 1)] IN
    IF ToSet(names) \cap used = {} THEN names ELSE Fresh(used, prefix \o "_", n)

RECURSIVE FreshName(_, _)
FreshName(used, name) == IF name \in used THEN FreshName(used, name \o "_") ELSE name

(* The first of prefix0, prefix1, ... that is not used.                    *)
RECURSIVE Numbered(_, _, _)
Numbered(used, prefix, i) ==
    LET n == prefix \o ToString(i) IN IF n \in used THEN Numbered(used, prefix, i + 1) ELSE n

Used(f) == Tokens(<<f>>)

\* Mutant of MapTo: the loop works on the parameters, one cell for all the turns.
MapToThemselves(ps, names) == [p \in ToSet(ps) |-> p]
MapTo(ps, names) ==
    [p \in ToSet(ps) |-> names[CHOOSE i \in DOMAIN ps : ps[i] = p]]

-----------------------------------------------------------------------------
(* Which function a call calls.                                            *)

Self(f) == IF f.ns # <<>> THEN Name(f.ns[1]) ELSE f.lhs[1]
InFnTable(x) == x.e = "slot" /\ x.n = FnTable

(* self_target: no spilled target, no parameter twice.                     *)
HasSelf(f) ==
    /\ Self(f).e = "name" \/ InFnTable(Self(f))
    /\ Cardinality(ToSet(f.ps)) = Len(f.ps)

(* The census of a scope: how often a name is bound, and how often assigned*)
Occurs(seq, x) == Len(SelectSeq(seq, LAMBDA y : y = x))
Assigns(scope, n) ==
    Total(AllStmts(scope), LAMBDA s : IF s.s \in {"assign", "multi"} THEN Occurs(s.lhs, Name(n)) ELSE 0)
Binds(scope, n) ==
    Assigns(scope, n)
    + Total(AllStmts(scope), LAMBDA s : Occurs(s.ns, n) + Occurs(s.ps, n)
              + (IF s.s = "function" THEN Occurs(s.lhs, Name(n)) ELSE 0))
    + Total(AllExprs(scope), LAMBDA x : IF x.e = "func" THEN Occurs(x.ps, n) ELSE 0)
RawMentions(b, n) == \E x \in ToSet(AllExprs(b)) : x = Raw(n)

(* slot_single_store, over the whole module.                               *)
StoredOnce(module, x) ==
    /\ Total(AllStmts(module), LAMBDA s : Occurs(s.lhs, x)) = 1
    /\ Total(AllStmts(module), LAMBDA s : IF s.s = "local" THEN Occurs(s.ns, x.n) ELSE 0) = 1
    /\ Total(AllStmts(module), LAMBDA s : Occurs(s.lhs, Name(x.n))) = 0
    /\ ~RawMentions(module, x.n)

(* self_qualifies: nothing but f is called by f's name.                    *)
SelfQualifies(f, scope, locals, in) ==
    LET x == Self(f) IN
    IF x.e = "slot" THEN StoredOnce(in.module, x)
    ELSE /\ Assigns(scope, x.n) = 0 /\ ~RawMentions(scope, x.n)
         /\ \/ f.ns # <<>> /\ Binds(scope, x.n) = 1
            \/ f.ns = <<>> /\ Binds(scope, x.n) = 2 /\ x.n \in locals

(* A call of f itself, peeled or wrapped in the forwarding runner; without *)
(* parameters there is no assignment to evaluate arguments in.             *)
CallsSelf(x, f) ==
    x.e = "call" /\ x.of[1] = Self(f) /\ (f.ps = <<>> => Len(x.of) = 1)
IsSite(x, f, via) ==
    IF via = "call" THEN CallsSelf(Peel(x), f)
    ELSE Calls(x, "__mll_run_tail") /\ Len(x.of) = 2 /\ CallsSelf(x.of[2], f)
SiteArgs(x, via) == Tail((IF via = "call" THEN Peel(x) ELSE x.of[2]).of)

(* rewrite_tails, rewrite_run_tail_sites: one assignment for all the       *)
(* parameters, then the jump.                                              *)
Update(to, args) == IF to = <<>> THEN <<>> ELSE <<Multi(Each(to, Name), args)>>

RECURSIVE RewriteTails(_, _, _, _, _)
RewriteTails(b, f, via, to, jump) ==
    IF b = <<>> THEN b
    ELSE LET s == Last(b) IN
         CASE s.s \in {"if", "do"} ->
                Append(Front(b), [s EXCEPT !.blocks =
                    Each(s.blocks, LAMBDA c : RewriteTails(c, f, via, to, jump))])
           [] s.s = "return" /\ s.es # <<>> /\ IsSite(s.es[1], f, via) ->
                Front(b) \o Update(to, SiteArgs(s.es[1], via))
                \o (IF jump THEN <<Goto>> ELSE <<>>)
           [] OTHER -> b

-----------------------------------------------------------------------------
(* Pass 5.                                                                 *)

(* single_return_callee and single_return_body.                            *)
OneValueCallee(x) ==
    \/ x.e = "name" /\ x.n \in ToSet(Prelude) \ {"__mll_run_tail"}
    \/ InFnTable(x)
OneValue(x, f) ==
    CASE x.e = "paren" -> TRUE
      [] x.e = "call" -> OneValueCallee(x.of[1]) \/ x.of[1] = Self(f)
      [] OTHER -> x.e # "raw"
ReturnsOneValue(f) ==
    \A s \in ToSet(OwnStmts(f.blocks[1])) :
        s.s = "return" => s.es # <<>> /\ OneValue(s.es[1], f)

Copies(to, from) == [i \in DOMAIN to |-> Local(<<to[i]>>, <<Name(from[i])>>)]

TailLoop(f, scope, locals, in) ==
    LET body == f.blocks[1]
        ws == Fresh(Used(f), "_w", Len(f.ps))
        jump == ~Diverges(body)
        turn == RewriteTails(RenameBlock(body, MapTo(f.ps, ws)), f, "call", f.ps, jump)
        exit == IF jump THEN <<Do(<<ReturnNone>>), Label>> ELSE <<>>
    IN IF /\ HasSelf(f) /\ SelfQualifies(f, scope, locals, in)
          /\ \E x \in TailReturns(body) : IsSite(x, f, "call")
          /\ ~RenameBlocked(body, ToSet(f.ps))
          /\ InFnTable(Self(f)) \/ ReturnsOneValue(f)
          /\ CountLocals(body) + 2 * Len(f.ps) <= in.locals
       THEN <<WhileTrue(Copies(ws, f.ps) \o turn \o exit)>>
       ELSE body

-----------------------------------------------------------------------------
(* Pass 6.                                                                 *)

(* closure_stmts: a branch that returns an action it builds.               *)
IsAction(x) == Peel(x).e = "func" /\ Peel(x).ps = <<>>

(* repeat_safe_expr, repeat_safe_stmt: what may run at the build and again *)
(* in the first turn.                                                      *)
Repeatable == {"__force", "__thunk", "__mll_pure", "error"}
RECURSIVE SafeExpr(_), SafeBlock(_)
SafeExpr(x) ==
    CASE x.e \in {"name", "slot", "lit", "func", "table"} -> TRUE
      [] x.e = "raw" -> FALSE
      [] x.e = "call" -> /\ x.of[1].e = "name" /\ x.of[1].n \in Repeatable
                         /\ \A i \in 2..Len(x.of) : SafeExpr(x.of[i])
      [] OTHER -> \A y \in ToSet(x.of) : SafeExpr(y)
SafeBlock(b) ==
    \A s \in ToSet(b) :
        CASE s.s = "return" -> s.es # <<>>
          [] s.s = "local" -> \A x \in ToSet(s.es) : SafeExpr(x)
          [] s.s = "assign" -> s.lhs[1].e = "name" /\ SafeExpr(s.es[1])
          [] s.s \in {"if", "do"} -> /\ \A x \in ToSet(s.es) : SafeExpr(x)
                                     /\ \A c \in ToSet(s.blocks) : SafeBlock(c)
          [] s.s = "expr" -> Calls(s.es[1], "error") /\ SafeExpr(s.es[1])
          [] s.s = "function" -> \A x \in ToSet(s.lhs) : x.e = "name"
          [] OTHER -> FALSE

(* to_skeleton: the build, with every action it would return the one loop. *)
RECURSIVE Skeleton(_, _)
Skeleton(b, lp) ==
    Each(b, LAMBDA s :
        CASE s.s = "return" /\ s.es # <<>> -> IF IsAction(s.es[1]) THEN Return(Name(lp)) ELSE s
          [] s.s \in {"if", "do"} -> [s EXCEPT !.blocks = Each(s.blocks, LAMBDA c : Skeleton(c, lp))]
          [] OTHER -> s)

(* to_loop: the actions' bodies where they were returned, and any other    *)
(* returned action run in place.                                           *)
RECURSIVE Turn(_, _, _)
Turn(b, f, ss) ==
    FlattenSeq(Each(b, LAMBDA s :
        CASE s.s = "return" /\ s.es # <<>> ->
                IF IsAction(s.es[1]) THEN RewriteTails(Peel(s.es[1]).body, f, "run", ss, TRUE)
                ELSE <<Return(Call(Name("__mll_run_tail"), s.es))>>
          [] s.s \in {"if", "do"} -> <<[s EXCEPT !.blocks = Each(s.blocks, LAMBDA c : Turn(c, f, ss))]>>
          [] OTHER -> <<s>>))

(* build_loop_scaffold: the copies of one turn.                            *)
Scaffold(f, ss, ws, turn) ==
    WhileTrue(Copies(ws, ss) \o turn
              \o (IF Diverges(turn) THEN <<>> ELSE <<Do(<<ReturnNone>>)>>) \o <<Label>>)

\* Mutant of LoopAction: all runs of the action share the state.
LoopActionShared(f, lp, ss, loop) ==
    Append(Copies(ss, f.ps), Local(<<lp>>, <<Func(<<>>, <<loop>>)>>))

(* The action: its state belongs to one run, and starts from the build's   *)
(* arguments.                                                              *)
LoopAction(f, lp, ss, loop) ==
    <<Local(<<lp>>, <<Func(<<>>, Append(Copies(ss, f.ps), loop))>>)>>

IoLoop(f, scope, locals, in) ==
    LET body == f.blocks[1]
        actions == {Peel(x).body : x \in {y \in ReturnsOf(body) : IsAction(y)}}
        ws == Fresh(Used(f), "_w", Len(f.ps))
        ss == Fresh(Used(f), "_s", Len(f.ps))
        lp == FreshName(Used(f), "_lp")
        loop == Scaffold(f, ss, ws, Turn(RenameBlock(body, MapTo(f.ps, ws)), f, ss))
    IN IF /\ HasSelf(f) /\ SelfQualifies(f, scope, locals, in)
          /\ \E a \in actions : \E x \in TailReturns(a) : IsSite(x, f, "run")
          /\ \A a \in actions : Diverges(a)
          /\ SafeBlock(body)
          /\ ~RenameBlocked(body, ToSet(f.ps))
          /\ CountLocals(body) + 1 <= in.locals
          /\ CountLocals(<<loop>>) + 3 * Len(f.ps) <= in.locals
       THEN LoopAction(f, lp, ss, loop) \o Skeleton(body, lp)
       ELSE body

-----------------------------------------------------------------------------
(* Pass 7.                                                                 *)

(* A sequence worked through from left to right with something carried,    *)
(* and what a pass makes of an expression or a statement with it.          *)
Done(out, st) == [out |-> out, st |-> st]
Threaded(seq, st, f(_, _)) ==
    FoldLeft(LAMBDA acc, y : LET r == f(y, acc.st) IN Done(Append(acc.out, r.out), r.st),
             Done(<<>>, st), seq)
WithNewParts(x, r) == Done([x EXCEPT !.of = r.out], r.st)

(* collect_expr, collect_block and hoist_from_loop: the outermost literals *)
(* of a turn that take nothing from the loop get a name before it.         *)
IsLiteral(x) == x.e = "func" \/ (x.e = "paren" /\ x.of[1].e = "func")
Moved(h, lit, st) ==
    Done(Name(h), [st EXCEPT !.used = @ \cup {h}, !.budget = @ - 1,
                             !.hoisted = Append(@, Local(<<h>>, <<lit>>))])

RECURSIVE HoistLiterals(_, _), HoistTurn(_, _)
HoistLiterals(x, st) ==
    CASE IsLiteral(x) ->
            LET lit == IF x.e = "paren" THEN x.of[1] ELSE x IN
            IF st.budget = 0 \/ FreeNames(lit) \cap st.bound # {} THEN Done(x, st)
            ELSE Moved(Numbered(st.used, "_h", 0), lit, st)
      [] "of" \in DOMAIN x -> WithNewParts(x, Threaded(x.of, st, HoistLiterals))
      [] OTHER -> Done(x, st)

HoistTurn(b, st) ==
    Threaded(b, st, LAMBDA s, t :
        IF s.s \in {"while", "function"} THEN Done(s, t)
        ELSE LET es == Threaded(s.es, t, HoistLiterals)
                 bs == Threaded(s.blocks, es.st, HoistTurn)
             IN Done([s EXCEPT !.es = es.out, !.blocks = bs.out], bs.st))

\* Mutant of BoundIn: the names the turn binds outside its inner blocks.
BoundOutside(b) == UNION {ToSet(s.ns) : s \in ToSet(b)}
BoundIn(b) == UNION {ToSet(s.ns) : s \in ToSet(BlockStmts(b))}
HasRaw(b) == \E s \in ToSet(BlockStmts(b)) : s.s = "raw"

AfterHoisted(r) ==
    Done(Append(r.st.hoisted, WhileTrue(r.out)), [used |-> r.st.used, budget |-> r.st.budget])
HoistFromLoop(r) ==
    IF HasRaw(r.out) THEN Done(<<WhileTrue(r.out)>>, r.st)
    ELSE AfterHoisted(HoistTurn(r.out, [used |-> r.st.used, budget |-> r.st.budget,
                                        bound |-> BoundIn(r.out), hoisted |-> <<>>]))

(* hoist_fn_scope, hoist_block, descend_literals: inner loops first, and   *)
(* the body of a literal is a scope of its own.                            *)
Budget(locals, in) == IF locals < in.locals THEN in.locals - locals ELSE 0
NamesOf(r) == Done(r.out, r.st.used)
InFunc(ps, r) == Done(Func(ps, r.out), r.st)
WithNewExprs(s, bs, es) ==
    Done(<<[s EXCEPT !.blocks = bs.out, !.es = es.out]>>, [bs.st EXCEPT !.used = es.st])

RECURSIVE HoistScope(_, _, _, _), HoistBlock(_, _, _), HoistInside(_, _, _), HoistRest(_, _, _)
HoistScope(n, b, used, in) ==
    NamesOf(HoistBlock(b, [used |-> used, budget |-> Budget(CountLocals(b) + n, in)], in))

HoistInside(x, used, in) ==
    CASE x.e = "func" -> InFunc(x.ps, HoistScope(Len(x.ps), x.body, used, in))
      [] "of" \in DOMAIN x -> WithNewParts(x, Threaded(x.of, used, LAMBDA y, t : HoistInside(y, t, in)))
      [] OTHER -> Done(x, used)

HoistRest(s, bs, in) ==
    WithNewExprs(s, bs, Threaded(s.es, bs.st.used, LAMBDA x, u : HoistInside(x, u, in)))

HoistBlock(b, st, in) ==
    LET r == Threaded(b, st, LAMBDA s, t :
            CASE s.s = "function" -> Done(<<s>>, t)
              [] s.s = "while" -> HoistFromLoop(HoistBlock(s.blocks[1], t, in))
              [] OTHER -> HoistRest(s, Threaded(s.blocks, t, LAMBDA c, u : HoistBlock(c, u, in)), in))
    IN Done(FlattenSeq(r.out), r.st)

Hoist(f, in) == HoistScope(Len(f.ps), f.blocks[1], Used(f), in).out

-----------------------------------------------------------------------------
(* The engine that offers functions to the passes (annot.rs).              *)

(* structured_valid: a bare return and the label come last, a jump has a   *)
(* loop that ends in the label, and several targets are plain names.       *)
RECURSIVE Valid(_, _)
Valid(b, label) ==
    \A i \in DOMAIN b :
        LET s == b[i] IN
        /\ \A x \in ToSet(s.es) : \A y \in ToSet(WithParts(x)) : y.e = "func" => Valid(y.body, FALSE)
        /\ CASE s.s = "return" -> s.es = <<>> => i = Len(b)
             [] s.s = "goto" -> label
             [] s.s = "label" -> FALSE
             [] s.s = "multi" -> \A x \in ToSet(s.lhs) : x.e = "name"
             [] s.s = "while" ->
                   LET t == s.blocks[1] IN
                   t # <<>> /\ IF Last(t) = Label THEN Valid(Front(t), TRUE) ELSE Valid(t, label)
             [] s.s = "function" -> Valid(s.blocks[1], FALSE)
             [] OTHER -> \A c \in ToSet(s.blocks) : Valid(c, label)

Request(pass, f, scope, locals, in) ==
    CASE pass = "tailloop" -> TailLoop(f, scope, locals, in)
      [] pass = "ioloop" -> IoLoop(f, scope, locals, in)
      [] OTHER -> Hoist(f, in)

(* offer_block: the functions declared in a scope, each with the locals in *)
(* sight; structured_scope: the scopes inside it before.                   *)
Accepted(f, body) == IF Valid(body, FALSE) THEN [f EXCEPT !.blocks = <<body>>] ELSE f

RECURSIVE Offer(_, _, _, _, _), Converted(_, _, _), Descend(_, _, _), DescendExpr(_, _, _)
Offer(pass, b, scope, locals, in) ==
    IF b = <<>> THEN <<>>
    ELSE LET s == Head(b) IN
         <<IF s.s = "function" THEN Accepted(s, Request(pass, s, scope, locals, in))
           ELSE [s EXCEPT !.blocks = Each(@, LAMBDA c : Offer(pass, c, scope, locals, in))]>>
         \o Offer(pass, Tail(b), scope,
                  IF s.s = "local" THEN locals \cup ToSet(s.ns) ELSE locals, in)

Offers(pass, scope, in) == Offer(pass, scope, scope, {}, in)
Converted(pass, b, in) == Offers(pass, Each(b, LAMBDA s : Descend(pass, s, in)), in)
Descend(pass, s, in) ==
    IF s.s = "function" THEN [s EXCEPT !.blocks = <<Converted(pass, s.blocks[1], in)>>]
    ELSE [s EXCEPT !.es = Each(s.es, LAMBDA x : DescendExpr(pass, x, in)),
                   !.blocks = Each(s.blocks, LAMBDA c : Each(c, LAMBDA t : Descend(pass, t, in)))]
DescendExpr(pass, x, in) ==
    CASE x.e = "func" -> Func(x.ps, Converted(pass, x.body, in))
      [] "of" \in DOMAIN x -> [x EXCEPT !.of = Each(x.of, LAMBDA y : DescendExpr(pass, y, in))]
      [] OTHER -> x
===============================================================================
