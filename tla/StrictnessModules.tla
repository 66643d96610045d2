---------------------------- MODULE StrictnessModules ----------------------------
(***************************************************************************)
(* Small modules for Strictness: a function f of two parameters x and y    *)
(* among helpers, whose body is one or two constructs deep, with guards,   *)
(* where bindings and where functions.                                     *)
(***************************************************************************)
EXTENDS Naturals, Sequences, SequencesExt

V(n) == [is |-> "var", x |-> n]
Lit == [is |-> "lit"]
Lam(x, e) == [is |-> "lam", ps |-> <<[p |-> "var", x |-> x]>>, body |-> e]
Comp(f, g) == [is |-> "comp", f |-> f, g |-> g]
Op(o, l, r) == [is |-> "op", op |-> o, l |-> l, r |-> r]
Data(l, r) == [is |-> "data", l |-> l, r |-> r]
Tick(f, l, r) == [is |-> "tick", x |-> f, l |-> l, r |-> r]
If(c, l, r) == [is |-> "if", c |-> c, l |-> l, r |-> r]
Call(f, args) == [is |-> "app", f |-> V(f), args |-> args]
CallOf(f, args) == [is |-> "app", f |-> f, args |-> args]

PVar(n) == [p |-> "var", x |-> n]
PLit == [p |-> "lit"]
PAny == [p |-> "any"]
PAs(n) == [p |-> "as", x |-> n]

Guard(c, e) == [cond |-> c, body |-> e]
Clause(ps, e) == [ps |-> ps, guards |-> <<>>, body |-> e, wh |-> <<>>]
ClauseWhere(ps, e, wh) == [ps |-> ps, guards |-> <<>>, body |-> e, wh |-> wh]
Guarded(ps, gs, wh) == [ps |-> ps, guards |-> gs, body |-> Lit, wh |-> wh]
Value(n, e) == [name |-> n, ps |-> <<>>, body |-> e]
Equation(n, ps, e) == [name |-> n, ps |-> ps, body |-> e]
Case(e, brs) == [is |-> "case", of |-> e, branches |-> brs]
Branch(p, e) == Clause(<<p>>, e)
LetIn(wh, e) == [is |-> "let", wh |-> wh, body |-> e]
Define(n, k, cls) == [name |-> n, arrows |-> k, clauses |-> cls]

XY == <<PVar("x"), PVar("y")>>
Atoms == {V("x"), V("y"), Lit}

-------------------------------------------------------------------------------
(* Helpers: both a + b; left drops its second argument; inc forces, const  *)
(* does not; a recursive loop that forces its accumulator at the end.      *)
Helpers == <<
    Define("add", 2, <<Clause(<<PVar("a"), PVar("b")>>, Op("+", V("a"), V("b")))>>),
    Define("left", 2, <<Clause(<<PVar("a"), PVar("b")>>, V("a"))>>),
    Define("inc", 1, <<Clause(<<PVar("a")>>, Op("+", V("a"), Lit))>>),
    Define("drop", 1, <<Clause(<<PVar("a")>>, Lit)>>),
    Define("loop", 2, <<Clause(<<PLit, PVar("b")>>, V("b")),
                        Clause(<<PVar("a"), PVar("b")>>, Call("loop", <<V("a"), Op("+", V("b"), V("a"))>>))>>)>>
Uses(e) == {Call(h, <<e>>) : h \in {"inc", "drop"}}

(* One construct over expressions.                                         *)
Over(S, T) ==
    {Op(o, l, r) : o \in {"+", "&&", "seq", "++"}, l \in S, r \in T}
    \cup {Call(h, <<l, r>>) : h \in {"add", "left", "loop", "f"}, l \in S, r \in T}
    \cup {Call(h, <<l>>) : h \in {"inc", "drop"}, l \in S}
    \cup {Data(l, r) : l \in S, r \in T}
    \cup {If(c, l, r) : c \in Atoms, l \in S, r \in T}
    \cup {If(V("otherwise"), l, r) : l \in S, r \in T}
    \cup {Case(l, <<Branch(PLit, r), Branch(PVar("z"), V(v))>>) : l \in S, r \in T, v \in {"x", "z"}}
    \cup {Case(l, <<Branch(PVar("z"), Op("+", V("z"), r))>>) : l \in S, r \in T}
    \cup {Case(l, <<Branch(PVar("x"), r)>>) : l \in S, r \in T}
    \cup {LetIn(<<Value("z", l)>>, r) : l \in S, r \in T \cup {V("z"), Op("+", V("z"), V("x"))}}
    \cup {LetIn(<<Value("x", l)>>, r) : l \in S, r \in T}
    \cup {LetIn(<<Equation("g", <<PVar("a")>>, Op("+", V("a"), l))>>, r) :
            l \in S, r \in {Call("g", <<V("x")>>), Op("seq", V("g"), Lit)} \cup T}

(* Partial and surplus applications, compositions, shadowed names.         *)
Special ==
    {Op("seq", Call(h, <<l>>), r) : h \in {"add", "left", "loop", "f"}, l \in Atoms, r \in Atoms}
    \cup {Op("$", Call(h, <<l>>), r) : h \in {"add", "left"}, l \in Atoms, r \in Atoms}
    \cup {CallOf(Comp(V(g), V(h)), <<l>>) : g, h \in {"inc", "drop"}, l \in Atoms}
    \cup {CallOf(Comp(V("inc"), Comp(V(g), V(h))), <<l>>) : g, h \in {"inc", "drop"}, l \in Atoms}
    \cup {Op("seq", Lam("z", l), r) : l \in Atoms, r \in Atoms}
    \cup {Tick(h, l, r) : h \in {"add", "left"}, l \in Atoms, r \in Atoms}
    \cup {Case(V("y"), <<Branch(PVar(h), Call(h, <<V("x")>>))>>) : h \in {"inc", "drop"}}
    \cup {Case(Lit, <<Branch(PVar(h), Call(h, <<V("x")>>))>>) : h \in {"inc", "drop"}}
    \cup {LetIn(<<Equation(h, <<PAny>>, Lit)>>, Call(h, <<V("x")>>)) : h \in {"inc", "drop"}}
    \cup {LetIn(<<Value(h, Lam("z", Lit))>>, Call(h, <<V("x")>>)) : h \in {"inc", "drop"}}
    \cup {Case(V("x"), <<Branch(PVar("otherwise"), If(V("otherwise"), V("y"), Lit))>>)}

Flat == Over(Atoms, Atoms)
Deep == {Op(o, l, r) : o \in {"+", "&&"}, l \in Flat, r \in {V("y")}}
        \cup {If(V("x"), l, r) : l \in Flat, r \in {V("y"), Op("+", V("x"), V("y"))}}
        \cup {Call(h, <<Lit, l>>) : h \in {"left", "loop", "f"}, l \in Flat}
        \cup {LetIn(<<Value("z", l)>>, Op("&&", V("z"), V("x"))) : l \in Flat}
        \cup {Case(V("x"), <<Branch(PLit, l), Branch(PAny, V("y"))>>) : l \in Flat}

Plain(e) == Define("f", 2, <<Clause(XY, e)>>)

(* Several clauses, some of which match on an argument.                    *)
Patterned ==
    {Define("f", 2, <<Clause(<<p, q>>, e), Clause(XY, g)>>) :
        p \in {PLit, PAny, PVar("x"), PAs("x")}, q \in {PLit, PAny}, e \in {Lit, Call("f", <<Lit, Lit>>)},
        g \in Atoms \cup {Op("+", V("x"), V("y")), Call("f", <<V("x"), Op("+", V("y"), V("x"))>>),
                          Call("f", <<V("y"), V("x")>>), Op("&&", V("x"), V("y"))}}

(* Guards, and where values they read.                                     *)
Chains ==
    {Define("f", 2, <<Guarded(XY, <<Guard(c, e), Guard(d, g)>>, wh)>>) :
        c \in {V("x"), V("z"), Lit}, e \in {V("y"), V("z"), Lit}, d \in {V("y"), V("z"), V("otherwise")},
        g \in {V("y"), V("z"), Lit},
        wh \in {<<Value("z", v)>> : v \in {V("x"), V("y"), Op("+", V("x"), V("y")), Call("left", <<V("x"), V("y")>>)}}}
    \cup {Define("f", 2, <<Guarded(<<PVar(n), PVar("y")>>, <<Guard(V(n), e), Guard(Lit, g)>>, <<>>),
                           Clause(XY, b)>>) : n \in {"x", "otherwise"}, e, g, b \in {V("y"), Lit}}

(* Where functions: what they capture, accumulate and rebind.              *)
Go(ps, e) == Equation("go", ps, e)
GoEquations ==
    {<<Go(<<PVar("a")>>, e)>> : e \in
        {V("a"), Lit, Op("+", V("a"), V("y")), Op("&&", V("a"), V("y")), V("y"), Call("left", <<V("y"), V("a")>>),
         If(V("y"), V("a"), Lit), If(V("a"), V("y"), Call("go", <<V("a")>>)), Call("go", <<Op("+", V("a"), V("y"))>>)}}
    \cup {<<Go(<<PLit>>, e), Go(<<PVar("a")>>, g)>> : e \in {Lit, V("y"), V("x")},
            g \in {V("y"), Call("go", <<V("y")>>), Call("go", <<Op("+", V("a"), V("x"))>>)}}
    \cup {<<Go(<<PVar(n)>>, Op("+", V(n), V("y")))>> : n \in {"x", "y"}}
GoTwo ==
    {<<Go(<<PLit, PVar("b")>>, V("b")), Go(<<PVar("a"), PVar("b")>>, Call("go", <<V("a"), g>>))>> :
        g \in {V("b"), V("y"), Op("+", V("b"), V("a")), Lit}}
GoBodies ==
    {Call("go", <<e>>) : e \in {V("x"), Lit, Op("+", V("x"), V("y"))}}
    \cup {Op("seq", V("go"), V("x")), Op("&&", V("x"), Call("go", <<Lit>>)),
          Case(Lam("z", Lit), <<Branch(PVar("go"), Call("go", <<V("x")>>))>>),
          LetIn(<<Value("y", Lit)>>, Call("go", <<V("x")>>)), LetIn(<<Value("y", V("x"))>>, Call("go", <<V("y")>>)),
          Case(V("x"), <<Branch(PLit, Call("go", <<Lit>>)), Branch(PVar("y"), Call("go", <<V("y")>>))>>)}
Wheres ==
    {Define("f", 2, <<ClauseWhere(XY, e, go \o wh)>>) :
        e \in GoBodies, go \in GoEquations,
        wh \in {<<>>, <<Value("z", V("x"))>>, <<Equation("h", <<PVar("b")>>, Call("go", <<V("b")>>))>>}}
    \cup {Define("f", 2, <<ClauseWhere(XY, e, go)>>) :
            e \in {Call("go", <<V("x"), V("y")>>), Call("go", <<V("x")>>), Call("go", <<Lit, V("x")>>),
                   Op("seq", Call("go", <<V("x")>>), V("y")), Call("go", <<V("x"), Op("+", V("x"), V("y"))>>)},
            go \in GoTwo}
    \cup {Define("f", 2, <<ClauseWhere(<<PVar("go"), PVar("y")>>, Call("go", <<V("y")>>), go)>>) : go \in GoEquations}

(* Definitions with fewer patterns than arrows, and two of one name.       *)
PointFree ==
    {<<Define("f", 1, <<Clause(<<>>, e)>>)>> :
        e \in {Comp(V(g), V(h)) : g, h \in {"inc", "drop"}}
              \cup {Call("add", <<Lit>>), Call("left", <<Lit>>), V("inc"), Lam("z", V("z")), LetIn(<<Value("z", V("inc"))>>, V("z"))}}
    \cup {<<Define("f", 2, <<Clause(<<PVar("x")>>, e)>>)>> :
            e \in {Call("add", <<V("x")>>), Call("left", <<Lit>>), If(V("x"), V("inc"), V("drop")), Lam("y", V("x"))}}
Namesakes ==
    {<<Define("g", n, <<Clause(SubSeq(<<PVar("a"), PVar("b")>>, 1, n), c)>>),
       Define("g", m, <<Clause(SubSeq(<<PVar("a"), PVar("b")>>, 1, m), d)>>), Plain(e)>> :
        n, m \in {1, 2}, c, d \in {V("a"), Lit, Op("+", V("a"), Lit)},
        e \in {Op("seq", Call("g", <<V("x")>>), V("y")), Call("g", <<V("x"), V("y")>>), Call("g", <<V("x")>>)}}

Ordinary ==
    {Append(Helpers, Plain(e)) : e \in Flat \cup Special \cup Deep}
    \cup {Append(Helpers, fn) : fn \in Patterned \cup Chains \cup Wheres}
    \cup {Helpers \o fns : fns \in PointFree \cup Namesakes}

-------------------------------------------------------------------------------
(* Where functions under a parameter with the name of a function.          *)
Hidden ==
    {Append(Helpers, Define("f", 2, <<ClauseWhere(<<PVar(h), PVar("y")>>, Call("go", <<e>>), go)>>)) :
        h \in {"inc", "drop"}, e \in {V("y"), Lit},
        go \in {<<Go(<<PVar("a")>>, Call("inc", <<V("a")>>))>>, <<Go(<<PVar("a")>>, Call("inc", <<V("y")>>))>>,
                <<Go(<<PVar("inc")>>, Call("inc", <<V("y")>>))>>}}
===============================================================================
