----------------------------- MODULE LinearPrograms -----------------------------
(***************************************************************************)
(* Small definitions of one linear argument for LinearUsage: every         *)
(* construct over simple uses of what is in scope, and the constructs      *)
(* that bind once more over those.                                         *)
(***************************************************************************)
EXTENDS Naturals, Sequences, SequencesExt

Lit == [is |-> "lit"]
Unit == [is |-> "unit"]
V(n) == [is |-> "var", x |-> n]
UseOf(e, mu) == [is |-> "use", of |-> e, mult |-> mu]
Use(n) == UseOf(V(n), "one")
PairOf(e, g) == [is |-> "pair", l |-> e, r |-> g]
AndOf(e, g) == [is |-> "and", l |-> e, r |-> g]
UpdateOf(e, g) == [is |-> "update", of |-> e, r |-> g]
IfOf(e, g) == [is |-> "if", l |-> e, r |-> g]
PureOf(e) == [is |-> "pure", of |-> e]
ActOf(e, mu) == [is |-> "act", of |-> e, mult |-> mu]
CallOf(f, e) == [is |-> "call", f |-> f, of |-> e]
LetOf(bs, e) == [is |-> "let", binds |-> bs, body |-> e]
CaseOf(e, bs) == [is |-> "case", of |-> e, branches |-> bs]
GuardsOf(gs) == [is |-> "guards", guards |-> gs]
LamOf(n, mu, e) == [is |-> "lam", x |-> n, mult |-> mu, body |-> e]
BindOf(mo, e, re, n, k) == [is |-> "bind", monad |-> mo, of |-> e, res |-> re, x |-> n, body |-> k]
BindfOf(mo, e, mu, re) == [is |-> "bindf", monad |-> mo, of |-> e, mult |-> mu, res |-> re]

PVar(n, ty) == [pat |-> "var", x |-> n, ty |-> ty]
PAny == [pat |-> "_"]
PAs(n, p) == [pat |-> "as", x |-> n, of |-> p]
PPair(p, r) == [pat |-> "pair", l |-> p, r |-> r]

ValueBind(n, ty, e) == [x |-> n, kind |-> "value", ty |-> ty, rhs |-> e]
FunctionBind(f, p, e) == [x |-> f, kind |-> "function", pat |-> p, rhs |-> e]
BranchOf(p, e) == [pat |-> p, body |-> e]
GuardOf(e, g) == [cond |-> e, body |-> g]

(* Uses of the names in scope.                                             *)
Uses(N) == {Lit} \cup {Use(n) : n \in N}
AnyUse(N) == Uses(N) \cup {UseOf(V(n), mu) : n \in N, mu \in {"m", "many"}}
Of(N) == {V(n) : n \in N}

(* One construct over the names, none of them bound.                       *)
Flat(N) ==
    {PairOf(e, g) : e, g \in Uses(N)} \cup {AndOf(e, g) : e, g \in Uses(N)}
    \cup {UpdateOf(e, g) : e, g \in Uses(N)} \cup {IfOf(e, g) : e, g \in Uses(N)}
    \cup {GuardsOf(<<GuardOf(c, e), GuardOf(d, g)>>) : c, d, e, g \in Uses(N)}
    \cup {LamOf("z", mu, PairOf(e, Use("z"))) : mu \in {"one", "m"}, e \in Uses(N)}
    \cup {LamOf("z", "many", e) : e \in Uses(N)}

(* Bodies over a name just bound and the ones in scope.                    *)
Over(N, n) == AnyUse(N \cup {n}) \cup {V(n)} \cup {AndOf(e, g) : e, g \in Uses({n})}
              \cup {PairOf(e, g) : e \in Uses({n}), g \in Uses(N \cup {n})}
              \cup {IfOf(e, g) : e, g \in Uses({n})}

Patterns == {PVar("p", "val"), PAny, PAs("p", PAny), PPair(PVar("p", "val"), PVar("q", "val")),
             PPair(PVar("p", "val"), PAny)}
PatternUses(p, N) ==
    IF p.pat = "pair"
    THEN {PairOf(e, g) : e \in Uses({"p"}), g \in Uses(N \cup (IF p.r.pat = "_" THEN {} ELSE {"q"}))}
    ELSE IF p.pat = "_" THEN Uses(N) ELSE Uses(N \cup {"p"})

Cases(N) ==
    UNION {{CaseOf(e, <<BranchOf(p, g), BranchOf(PVar("r", "val"), h)>>) :
              e \in Of(N), g \in PatternUses(p, N), h \in Uses(N \cup {"r"})} : p \in Patterns}
    \cup {CaseOf(UseOf(V(n), mu), <<BranchOf(PVar("p", ty), g)>>) :
            n \in N, mu \in {"one", "many"}, ty \in {"val", "unit"}, g \in Uses({"p"})}

Values(N) ==
    {LetOf(<<ValueBind("v", ty, e)>>, g) :
        ty \in {"val", "unit"}, e \in {Use(n) : n \in N}, g \in Over(N, "v")}
    \cup {LetOf(<<ValueBind("v", "val", V(n))>>, g) : n \in N, g \in Over(N, "v")}
    \cup {LetOf(<<ValueBind("v", "val", e), ValueBind("w", "val", V("v"))>>, g) :
             e \in Of(N), g \in Over({"v"}, "w")}
    \cup {LetOf(<<ValueBind("w", "val", V("v")), ValueBind("v", "val", e)>>, g) :
             e \in Of(N), g \in Over({"v"}, "w")}

(* Functions that use their parameter on one path only.                    *)
OnePath(p) == {IfOf(Use(p), Lit), AndOf(Lit, Use(p))}

(* Local functions: a parameter used, dropped, doubled, on one path only,  *)
(* or handed to another function.                                          *)
Bodies(p) ==
    {Lit, Use(p), UseOf(V(p), "m"), UseOf(V(p), "many"), PairOf(Use(p), Use(p)), IfOf(Use(p), Use(p)),
     AndOf(Use(p), Lit)} \cup OnePath(p)
CallsOn(N) == {CallOf("g", e) : e \in Of(N)}
Locals(N) ==
    {LetOf(<<FunctionBind("g", PVar("p", "val"), b)>>, g) :
        b \in Bodies("p"), g \in CallsOn(N) \cup {PairOf(c, d) : c \in CallsOn(N), d \in Uses(N)}
                                \cup {IfOf(c, d) : c \in CallsOn(N), d \in Uses(N)}}
    \cup {LetOf(<<ValueBind("g", "val", LamOf("p", "many", b))>>, c) : b \in Bodies("p"), c \in CallsOn(N)}
    \cup {LetOf(<<FunctionBind("g", PPair(PVar("p", "val"), r), b)>>, c) :
             r \in {PAny, PVar("q", "val")}, b \in {Use("p"), PairOf(Use("p"), Lit)}, c \in CallsOn(N)}
    \cup {LetOf(<<FunctionBind("g", PPair(PVar("p", "val"), PVar("q", "val")), PairOf(Use("p"), Use("q")))>>, c) :
             c \in CallsOn(N)}
    \cup {LetOf(<<FunctionBind("g", PVar("p", "val"), CallOf("k", V("p"))),
                  FunctionBind("k", PVar("q", "val"), b)>>, c) : b \in Bodies("q"), c \in CallsOn(N)}
    \cup {LetOf(<<FunctionBind("g", PVar("p", "val"), a), FunctionBind("g", PVar("q", "val"), b)>>, c) :
             a \in {Lit, Use("p")}, b \in Bodies("q"), c \in CallsOn(N)}
    \cup {LetOf(<<FunctionBind("g", PVar("p", "val"), PairOf(b, Use(n)))>>, CallOf("g", Lit)) :
             b \in Bodies("p"), n \in N}
    \cup {LetOf(<<FunctionBind("g", PVar("p", "val"), e)>>, c) :
             e \in {Use(n) : n \in N}, c \in {CallOf("g", Lit), PairOf(CallOf("g", Lit), CallOf("g", Lit))}}

Actions(N) == {ActOf(V(n), mu) : n \in N, mu \in {"one", "m", "many"}} \cup {PureOf(V(n)) : n \in N}
Binds(N) ==
    {BindOf(mo, m, "val", x, k) : mo \in {"IO", "Maybe", "Other"}, m \in {PureOf(V(n)) : n \in N},
        x \in {"y", "_"}, k \in {PureOf(Lit)} \cup {ActOf(V(n), "one") : n \in N}}
    \cup {BindOf(mo, m, "val", "y", k) : mo \in {"IO", "Maybe", "Other"}, m \in {PureOf(V(n)) : n \in N} \cup {PureOf(Lit)},
        k \in Actions(N \cup {"y"}) \cup {PureOf(PairOf(Use("y"), e)) : e \in Uses(N)}}
    \cup {BindOf(mo, m, "unit", x, k) : mo \in {"IO", "Maybe"},
             m \in {ActOf(V(n), "one") : n \in N} \cup {PureOf(Use(n)) : n \in N},
             x \in {"y", "_"}, k \in {PureOf(Lit)}}
    \cup {BindOf(mo, PureOf(Use(n)), "unit", "y", PureOf(V("y"))) : mo \in {"IO", "Maybe"}, n \in N}
    \cup {BindfOf(mo, m, mu, "val") : mo \in {"IO", "Maybe"}, m \in {PureOf(V(n)) : n \in N},
             mu \in {"one", "m", "many"}}

One(N) == AnyUse(N) \cup Of(N) \cup Flat(N) \cup Cases(N) \cup Values(N) \cup Locals(N) \cup Binds(N)

(* ... and once more, under a construct that binds or chooses.             *)
Two(N) ==
    {LetOf(<<ValueBind("s", "val", V(n))>>, e) : n \in N, e \in One({"s"})}
    \cup {IfOf(Use(n), e) : n \in N, e \in One(N)}
    \cup {CaseOf(V(n), <<BranchOf(PVar("s", "val"), e)>>) : n \in N, e \in One({"s"})}
    \cup {LetOf(<<FunctionBind("h", PVar("s", "val"), e)>>, CallOf("h", V(n))) : n \in N, e \in One({"s"})}

Definitions ==
    {[mult |-> mu, pat |-> PVar("t", "val"), body |-> e] : mu \in {"one", "m"}, e \in One({"t"}) \cup Two({"t"})}
    \cup {[mult |-> mu, pat |-> PPair(PVar("a", ty), PVar("b", "val")), body |-> e] :
             mu \in {"one"}, ty \in {"val", "unit"}, e \in One({"a", "b"})}
    \cup {[mult |-> "one", pat |-> p, body |-> e] :
             p \in {PAny, PAs("t", PAny), PPair(PVar("t", "val"), PAny)}, e \in {Lit} }
    \cup {[mult |-> "one", pat |-> p, body |-> Use("t")] :
             p \in {PAs("t", PAny), PPair(PVar("t", "val"), PAny)}}

(* `f t = g t where g p = if .. then use p else 0`, and the like.          *)
OnePathLocals ==
    {[mult |-> "one", pat |-> PVar("t", "val"),
      body |-> LetOf(<<FunctionBind("g", PVar("p", "val"), b)>>, CallOf("g", V("t")))] : b \in OnePath("p")}
===============================================================================
