------------------------------ MODULE LuaUpvalues -----------------------------
(***************************************************************************)
(* Pass 8 (codegen/upvalues.rs): a function that captures more variables   *)
(* than the host allows gets them through a table.  A captured variable is *)
(* replaced by a slot of a table that belongs to the innermost function or *)
(* loop body that declares it, so that the slot is as fresh as the         *)
(* variable was.                                                           *)
(*                                                                         *)
(* Places in a tree are paths, and their order is that of the walk.        *)
(***************************************************************************)
EXTENDS LuaLoops

Before(p, q) ==
    \E k \in 1..Len(q) : /\ k > Len(p) \/ p[k] < q[k]
                         /\ \A j \in 1..(k - 1) : j <= Len(p) /\ p[j] = q[j]
At(p, k) == Append(p, k)
Block1 == 50             \* blocks come after expressions

(* Where the walk is: what a name denotes there, the functions and the     *)
(* table blocks around it, the locals of the innermost function.           *)
Chunk(b) == [env |-> <<>>, fns |-> <<>>, tbls |-> <<<<>>>>, locals |-> CountLocals(b)]
Bound(at, ns, p) ==
    [at EXCEPT !.env = [n \in ToSet(ns) |->
        [id |-> At(p, 90 + (CHOOSE i \in DOMAIN ns : ns[i] = n)), depth |-> Len(at.fns)]] @@ @]
InFunction(at, p, ps, b) ==
    Bound([at EXCEPT !.fns = Append(@, p), !.tbls = Append(@, p), !.locals = CountLocals(b) + Len(ps)],
          ps, p)
\* Mutant of InLoop: a table serves all the turns of a loop.
InLoopShared(at, p) == at
InLoop(at, p) == [at EXCEPT !.tbls = Append(@, p)]
After(s, at, p) ==
    IF s.s \in {"local", "function"} THEN Bound(at, s.ns, p) ELSE at

-----------------------------------------------------------------------------
(* What one walk of the tree learns, as a set of facts.                    *)

Capture(f, kind, id, n) ==
    [is |-> "capture", f |-> f, cap |-> [kind |-> kind, id |-> id, n |-> n]]

(* A mention costs an upvalue in every function between it and the         *)
(* declaration; a name of the prelude in every function around it.         *)

\* Mutant of Mention: only the function that mentions a name pays for it.
MentionInside(n, at) ==
    IF n \in DOMAIN at.env /\ at.env[n].depth < Len(at.fns)
    THEN {Capture(Last(at.fns), "binding", at.env[n].id, n)} ELSE {}
Mention(n, at) ==
    CASE n \in DOMAIN at.env ->
            {Capture(at.fns[k], "binding", at.env[n].id, n) : k \in (at.env[n].depth + 1)..Len(at.fns)}
      [] n \in ToSet(Prelude) -> {Capture(f, "prelude", <<>>, n) : f \in ToSet(at.fns)}
      [] OTHER -> {}
Opaque(n, at) == Mention(n, at) \cup {[is |-> "opaque", t |-> t, n |-> n] : t \in ToSet(at.tbls)}
Bindings(ns, kind, at, p) ==
    {[is |-> "binding", id |-> At(p, 90 + i), n |-> ns[i], kind |-> kind, t |-> Last(at.tbls)] : i \in DOMAIN ns}
Block(b, at, tables) ==
    {[is |-> "block", t |-> Last(at.tbls), locals |-> at.locals]}
    \cup IF b # <<>> /\ b[1].ns # <<>> /\ b[1].ns[1] \in tables
         THEN {[is |-> "table", t |-> Last(at.tbls), n |-> b[1].ns[1]]} ELSE {}

RECURSIVE ExprFacts(_, _, _, _), BlockFacts(_, _, _, _, _), FunctionFacts(_, _, _, _, _)
ExprFacts(x, p, at, tables) ==
    CASE x.e = "name" -> Mention(x.n, at)
      [] x.e \in {"slot", "raw"} -> Opaque(x.n, at)
      [] x.e = "func" -> FunctionFacts(x.ps, x.body, p, at, tables)
      [] OTHER -> UNION {ExprFacts(Parts(x)[k], At(p, k), at, tables) : k \in DOMAIN Parts(x)}

FunctionFacts(ps, b, p, at, tables) ==
    LET in == InFunction(at, p, ps, b) IN
    {[is |-> "function", f |-> p]} \cup Bindings(ps, "param", in, p) \cup Block(b, in, tables)
    \cup BlockFacts(b, 1, p, in, tables)

BlockFacts(b, i, p, at, tables) ==
    IF i > Len(b) THEN {}
    ELSE LET s == b[i]
             q == At(p, i)
             then == After(s, at, q)
             lvalues == {x.n : x \in {y \in ToSet(s.lhs) : y.e = "name"}}
             assigned == lvalues \cup (IF s.s = "local" /\ s.es = <<>> THEN ToSet(s.ns) ELSE {})
             inside == CASE s.s = "function" -> FunctionFacts(s.ps, s.blocks[1], At(q, Block1), then, tables)
                         [] s.s = "while" ->
                               LET t == InLoop(at, At(q, Block1)) IN
                               Block(s.blocks[1], t, tables)
                               \cup BlockFacts(s.blocks[1], 1, At(q, Block1), t, tables)
                         [] OTHER -> UNION {BlockFacts(s.blocks[k], 1, At(q, Block1 + k), at, tables) :
                                               k \in DOMAIN s.blocks}
         IN UNION {ExprFacts(s.es[k], At(q, k), at, tables) : k \in DOMAIN s.es}
            \cup UNION {ExprFacts(x, q, at, tables) : x \in ToSet(s.lhs)}
            \cup {[is |-> "assigned", n |-> n] : n \in assigned}
            \cup Bindings(s.ns, "local", at, q)
            \cup inside
            \cup BlockFacts(b, i + 1, p, then, tables)

Facts(b, tables) == Block(b, Chunk(b), tables) \cup BlockFacts(b, 1, <<>>, Chunk(b), tables)
Of(facts, is) == {x \in facts : x.is = is}
Captures(facts, f) == {x.cap : x \in {y \in Of(facts, "capture") : y.f = f}}
Functions(facts) == {x.f : x \in Of(facts, "function")}
Rank(facts, f) == Cardinality({g \in Functions(facts) : Before(g, f)})

-----------------------------------------------------------------------------
(* choose: what to route for f, or that it cannot be brought to the budget *)

CapBefore(a, b) ==
    CASE a.kind # b.kind -> a.kind = "binding"
      [] a.kind = "binding" -> Before(a.id, b.id)
      [] OTHER -> \E i, j \in DOMAIN Prelude : Prelude[i] = a.n /\ Prelude[j] = b.n /\ i < j

BlockOf(facts, cap) ==
    IF cap.kind = "prelude" THEN <<>>
    ELSE (CHOOSE x \in Of(facts, "binding") : x.id = cap.id).t
TableOf(facts, t) == {x.n : x \in {y \in Of(facts, "table") : y.t = t}}
Routable(facts, cap) ==
    IF cap.kind = "prelude" THEN \A x \in Of(facts, "assigned") : x.n # cap.n
    ELSE LET t == BlockOf(facts, cap) IN
         /\ [is |-> "opaque", t |-> t, n |-> cap.n] \notin facts
         /\ cap.n \notin TableOf(facts, t)

\* Mutant of HasRoom: there is always room for one more local.
HasRoomAlways(facts, t, limits) == TRUE
HasRoom(facts, t, limits) ==
    \/ TableOf(facts, t) # {}
    \/ \A x \in Of(facts, "block") : x.t = t => x.locals + 1 <= limits.host

\* Mutant of Price: the table itself is not counted.
PriceNone(facts, caps, t) == 0

(* The table is a capture as well, unless f has it already.                *)
Price(facts, caps, t) ==
    IF \E c \in caps : c.kind = "binding" /\ BlockOf(facts, c) = t /\ c.n \in TableOf(facts, t)
    THEN 0 ELSE 1

Choice(facts, f, limits) ==
    LET caps == Captures(facts, f)
        members(t) == SetToSortSeq({c \in caps : Routable(facts, c) /\ BlockOf(facts, c) = t}, CapBefore)
        price(t) == Price(facts, caps, t)
        gain(t) == Len(members(t)) - price(t)
        ranked == SetToSortSeq({t \in {BlockOf(facts, c) : c \in caps} :
                                    HasRoom(facts, t, limits) /\ gain(t) > 0},
                               LAMBDA a, b : gain(a) > gain(b) \/ (gain(a) = gain(b) /\ Before(a, b)))
    IN FoldLeft(LAMBDA acc, t :
           IF acc.left = 0 THEN acc
           ELSE LET wanted == acc.left + price(t)
                    take == IF wanted < Len(members(t)) THEN wanted ELSE Len(members(t))
                IN [left |-> IF take - price(t) > acc.left THEN 0 ELSE acc.left - (take - price(t)),
                    groups |-> Append(acc.groups, [t |-> t, caps |-> SubSeq(members(t), 1, take)])],
         [left |-> Cardinality(caps) - limits.upvalues, groups |-> <<>>], ranked)

(* The tables of the chosen groups: name, first free slot, whether new.    *)
Tables(facts, groups, used, routed) ==
    FoldLeft(LAMBDA acc, g :
        LET old == TableOf(facts, g.t)
            n == IF old # {} THEN CHOOSE x \in old : TRUE ELSE Numbered(acc.used, "_uv", 0)
        IN [used |-> acc.used \cup {n},
            decls |-> Append(acc.decls,
                [t |-> g.t, n |-> n, new |-> old = {}, caps |-> g.caps,
                 next |-> IF n \in DOMAIN routed THEN routed[n] ELSE 1])],
      [used |-> used, decls |-> <<>>], groups).decls

(* What replaces a capture everywhere, and what is copied at the start of  *)
(* a block: parameters and names of the prelude.                           *)
SlotsOf(d) == [i \in DOMAIN d.caps |-> [cap |-> d.caps[i], slot |-> Slot(d.n, d.next + i - 1)]]
Plan(facts, f, groups, used, routed) ==
    LET decls == Tables(facts, groups, used, routed)
        params == {x.id : x \in {y \in Of(facts, "binding") : y.kind = "param"}}
        entry(d) ==
            (IF d.new THEN <<Local(<<d.n>>, <<NewTable>>)>> ELSE <<>>)
            \o Each(SelectSeq(SlotsOf(d), LAMBDA x : x.cap.kind = "prelude" \/ x.cap.id \in params),
                    LAMBDA x : Assign(<<x.slot>>, <<Name(x.cap.n)>>))
        routes == UNION {ToSet(SlotsOf(d)) : d \in ToSet(decls)}
    IN [f |-> f,
        routes |-> [c \in {x.cap : x \in routes} |-> (CHOOSE x \in routes : x.cap = c).slot],
        entries |-> [t \in {d.t : d \in ToSet(decls)} |->
            LET d == CHOOSE d \in ToSet(decls) : d.t = t IN [new |-> d.new, stmts |-> entry(d)]],
        next |-> [n \in {d.n : d \in ToSet(decls)} |->
            LET d == CHOOSE d \in ToSet(decls) : d.n = n IN d.next + Len(d.caps)]]

-----------------------------------------------------------------------------
(* apply: the same walk, replacing what the plan routes.                   *)

(* The binding a mention resolves to, or a name of the prelude inside f.   *)
Denotes(n, at, plan) ==
    CASE n \in DOMAIN at.env -> [kind |-> "binding", id |-> at.env[n].id, n |-> n]
      [] plan.f \in ToSet(at.fns) -> [kind |-> "prelude", id |-> <<>>, n |-> n]
      [] OTHER -> [kind |-> "global", id |-> <<>>, n |-> n]
Routed(x, at, plan) ==
    LET c == Denotes(x.n, at, plan) IN
    IF x.e = "name" /\ c \in DOMAIN plan.routes THEN plan.routes[c] ELSE x

(* A declaration with an initializer becomes an assignment, one without    *)
(* needs no statement: the slot of a fresh table is nil.                   *)
Declared(s, then, plan) ==
    LET to == Each(s.ns, LAMBDA n : Routed(Name(n), then, plan))
        kept == SelectSeq(s.ns, LAMBDA n : Routed(Name(n), then, plan) = Name(n))
    IN CASE Len(kept) = Len(s.ns) -> <<s>>
         [] s.es = <<>> -> IF kept = <<>> THEN <<>> ELSE <<Local(kept, <<>>)>>
         [] OTHER -> (IF kept = <<>> THEN <<>> ELSE <<Local(kept, <<>>)>>)
                     \o <<IF Len(to) = 1 THEN Assign(to, s.es) ELSE Multi(to, s.es)>>

(* The entries come first in their block, after a table of an earlier round*)
Entered(b, new, t, plan) ==
    IF t \notin DOMAIN plan.entries THEN new
    ELSE LET e == plan.entries[t] IN
         IF e.new THEN e.stmts \o new ELSE <<Head(new)>> \o e.stmts \o Tail(new)

RECURSIVE RouteExpr(_, _, _, _), RouteBlock(_, _, _, _, _)
RouteExpr(x, p, at, plan) ==
    CASE x.e = "name" -> Routed(x, at, plan)
      [] x.e = "func" ->
            Func(x.ps, Entered(x.body, RouteBlock(x.body, 1, p, InFunction(at, p, x.ps, x.body), plan), p, plan))
      [] "of" \in DOMAIN x -> [x EXCEPT !.of = [k \in DOMAIN x.of |-> RouteExpr(x.of[k], At(p, k), at, plan)]]
      [] OTHER -> x

RouteBlock(b, i, p, at, plan) ==
    IF i > Len(b) THEN <<>>
    ELSE LET s == b[i]
             q == At(p, i)
             c == At(q, Block1)
             then == After(s, at, q)
             es == [k \in DOMAIN s.es |-> RouteExpr(s.es[k], At(q, k), at, plan)]
             body == s.blocks[1]
             own == Routed(Name(s.ns[1]), then, plan)
             new == CASE s.s = "local" -> Declared([s EXCEPT !.es = es], then, plan)
                      [] s.s = "function" ->
                            LET b2 == Entered(body, RouteBlock(body, 1, c, InFunction(then, c, s.ps, body), plan), c, plan)
                            IN IF s.ns # <<>> /\ own.e = "name" THEN <<LocalFunction(s.ns[1], s.ps, b2)>>
                               ELSE <<AssignFunction(IF s.ns # <<>> THEN own ELSE Routed(s.lhs[1], at, plan), s.ps, b2)>>
                      [] s.s = "while" ->
                            <<WhileTrue(Entered(body, RouteBlock(body, 1, c, InLoop(at, c), plan), c, plan))>>
                      [] OTHER ->
                            <<[s EXCEPT !.es = es, !.lhs = Each(@, LAMBDA x : Routed(x, at, plan)),
                                        !.blocks = [k \in DOMAIN s.blocks |->
                                            RouteBlock(s.blocks[k], 1, At(q, Block1 + k), at, plan)]]>>
         IN new \o RouteBlock(b, i + 1, p, then, plan)

Routing(b, plan) == Entered(b, RouteBlock(b, 1, <<>>, Chunk(b), plan), <<>>, plan)

-----------------------------------------------------------------------------
(* What the host counts: the names a function takes from the functions     *)
(* around it or from the chunk, globals aside.                             *)

RECURSIVE HostUpvalues(_, _)
HostUpvalues(b, bound) ==
    IF b = <<>> THEN {}
    ELSE LET s == Head(b)
             here == bound \cup (IF s.s = "function" THEN ToSet(s.ns) ELSE {})
             literals == {y \in UNION {ToSet(WithParts(x)) : x \in ToSet(s.es)} : y.e = "func"}
             functions == literals \cup (IF s.s = "function" THEN {Func(s.ps, s.blocks[1])} ELSE {})
         IN {Cardinality(FreeNames(g) \cap (here \cup ToSet(Prelude))) : g \in functions}
            \cup UNION {HostUpvalues(g.body, here \cup ToSet(g.ps)) : g \in functions}
            \cup (IF s.s = "function" THEN {} ELSE UNION {HostUpvalues(c, here) : c \in ToSet(s.blocks)})
            \cup HostUpvalues(Tail(b), bound \cup ToSet(s.ns))
===============================================================================
