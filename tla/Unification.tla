------------------------------ MODULE Unification ------------------------------
(***************************************************************************)
(* Unification of types (mllc/src/types.rs), as type inference uses it: it *)
(* solves one equation after another, each under the substitution so far,  *)
(* and composes.  The constructor patterns of one match are solved by      *)
(* unify_refining, which may refine a rigid variable for the branch.       *)
(*                                                                         *)
(* Variables are their ids, the younger ones the higher; a rigid variable  *)
(* keeps its id when it is made flexible.  IO is left out, since it goes   *)
(* the way of lists, as are LuaIO, whose parameter is a phantom,           *)
(* user-written variables, quantifiers inside quantifiers, and the fuel    *)
(* that bounds the reduction of families.                                  *)
(***************************************************************************)
EXTENDS GroundTypes

CONSTANTS Problems,     \* [equations, match]
          Families,     \* family -> its equations [pats, result], in order
          Injective,    \* families that take no two types to one
          Closed,       \* id -> what the variable may stand for
          Rigids,       \* the ids of rigid variables,
          Mults,        \* of flexible multiplicities
          RigidMults    \* and of rigid ones

VARIABLES match,        \* the equations are those of the patterns of a match
          todo,         \* the equations [l, r] still to be solved
          solved,       \* those solved, and the one that failed
          subst,        \* what the variables are bound to, on the way here
          givens,       \* what the rigid ones are refined to
          dropped,      \* an equation between rigid variables was lost
          status        \* "ok" or "failed"

vars == <<match, todo, solved, subst, givens, dropped, status>>

Image(s) == {s[i] : i \in DOMAIN s}

-------------------------------------------------------------------------------
(* Types and substitutions.                                                *)

\* Ty::app: the constructor `[]` applied is a list.
App(f, a) == IF f = ListCon THEN List(a) ELSE Apply1(f, a)
Rebuilt(ty, parts) == IF ty.k = "app" THEN App(parts[1], parts[2]) ELSE [ty EXCEPT !.s = parts]

\* The ids of the variables of kind k in a type: free_vars, collect_skolems.
RECURSIVE Ids(_, _)
Ids(k, ty) ==
    (IF ty.k = k THEN {ty.n} ELSE UNION {Ids(k, p) : p \in Image(ty.s)})
    \ (IF ty.k = "forall" THEN {ty.n} ELSE {})
Skolems(ty) == Ids("skolem", ty)

\* A substitution maps ids of type variables to types, and ids of
\* multiplicity variables to multiplicities.
Empty == <<>>
Resolve(s, m) == IF m \in DOMAIN s THEN s[m] ELSE m
Without(s, v) == [w \in DOMAIN s \ {v} |-> s[w]]

RECURSIVE Subst(_, _)
Subst(s, ty) ==
    CASE ty.k = "var" -> IF ty.n \in DOMAIN s THEN Subst(s, s[ty.n]) ELSE ty
      [] ty.k = "arrow" -> Arrow(Subst(s, ty.s[1]), Subst(s, ty.s[2]), Resolve(s, ty.n))
      [] ty.k = "forall" -> Forall(ty.n, Subst(Without(s, ty.n), ty.s[1]))
      [] OTHER -> Rebuilt(ty, [i \in DOMAIN ty.s |-> Subst(s, ty.s[i])])

\* Subst::compose: s first, then r.
Compose(s, r) ==
    [v \in DOMAIN s |-> IF v \in Mults THEN Resolve(r, s[v]) ELSE Subst(r, s[v])] @@ r

\* demote_skolems: each rigid variable in the domain of d gives way.
RECURSIVE Demote(_, _)
Demote(d, ty) ==
    IF ty.k = "skolem" THEN IF ty.n \in DOMAIN d THEN d[ty.n] ELSE ty
    ELSE Rebuilt(ty, [i \in DOMAIN ty.s |-> Demote(d, ty.s[i])])

\* Equality of types does not see multiplicities.
RECURSIVE Blind(_)
Blind(ty) ==
    [ty EXCEPT !.n = IF ty.k = "arrow" THEN 0 ELSE @, !.s = [i \in DOMAIN ty.s |-> Blind(ty.s[i])]]
Equal(l, r) == Blind(l) = Blind(r)

-------------------------------------------------------------------------------
(* Type families.                                                          *)

Stuck(ty) == Spine(ty).head.k \in DOMAIN Families

\* tf_match: the bindings of the pattern's variables, or nothing.
RECURSIVE Match(_, _, _)
RECURSIVE MatchAll(_, _, _)
MatchAll(pats, tys, b) ==
    IF pats = <<>> THEN {b}
    ELSE UNION {MatchAll(Tail(pats), Tail(tys), c) : c \in Match(Head(pats), Head(tys), b)}
Match(pat, ty, b) ==
    CASE pat.k = "var" /\ pat.n \in DOMAIN b -> IF Equal(b[pat.n], ty) THEN {b} ELSE {}
      [] pat.k = "var" -> {b @@ (pat.n :> ty)}
      [] OTHER -> IF ty.k = pat.k THEN MatchAll(pat.s, ty.s, b) ELSE {}

\* The names by which tf_maybe_unifiable tells variables apart: the rigid
\* variables of a match are made flexible under the name the source gave
\* them, here the same for all, and every other name holds its id.
Name(ty) == IF ty.n \in Rigids THEN 0 ELSE ty.n

RECURSIVE Walk(_, _)
Walk(b, ty) == IF ty.k = "var" /\ Name(ty) \in DOMAIN b THEN Walk(b, b[Name(ty)]) ELSE ty

\* Mutant of MaybeUnifiable: an argument not known yet is taken to be apart.
MaybeUnifiableIfKnown(pat, ty, b) == Match(pat, ty, b)

\* tf_maybe_unifiable: whether the type can come to match the pattern.
RECURSIVE MaybeUnifiable(_, _, _)
RECURSIVE MaybeUnifiableAll(_, _, _)
MaybeUnifiableAll(pats, tys, b) ==
    IF pats = <<>> THEN {b}
    ELSE UNION {MaybeUnifiableAll(Tail(pats), Tail(tys), c) : c \in MaybeUnifiable(Head(pats), Head(tys), b)}
MaybeUnifiable(pat, ty, b) ==
    LET p == Walk(b, pat)
        t == Walk(b, ty)
    IN  CASE Stuck(p) \/ Stuck(t) \/ "skolem" \in {p.k, t.k} -> {b}
          [] p.k = "var" /\ t.k = "var" /\ Name(p) = Name(t) -> {b}
          [] p.k = "var" -> {b @@ (Name(p) :> t)}
          [] t.k = "var" -> {b @@ (Name(t) :> p)}
          [] OTHER -> IF p.k = t.k /\ p.k # "forall" THEN MaybeUnifiableAll(p.s, t.s, b) ELSE {}

\* tf_reduce_head: the first equation that matches fires if the arguments
\* can match no earlier one.  The set holds the result, if any.
ReduceHead(ty) ==
    IF ~Stuck(ty) THEN {}
    ELSE LET args == Spine(ty).args
             equations == Families[Spine(ty).head.k]
             Matches(i) == MatchAll(equations[i].pats, args, Empty)
             Saturated(i) == Len(equations[i].pats) = Len(args)
             Matching == {i \in DOMAIN equations : Saturated(i) /\ Matches(i) # {}}
             First == {i \in Matching : \A j \in Matching : i <= j}
             Apart(i) == MaybeUnifiableAll(equations[i].pats, args, Empty) = {}
         IN  UNION {{Subst(b, equations[i].result) : b \in Matches(i)} :
                        i \in {f \in First : \A j \in 1..(f - 1) : Saturated(j) => Apart(j)}}

\* tf_normalize: the parts first, then the head for as long as it reduces.
RECURSIVE Normal(_)
Normal(ty) ==
    LET parts == Rebuilt(ty, [i \in DOMAIN ty.s |-> Normal(ty.s[i])])
        reduced == ReduceHead(parts)
    IN  IF reduced = {} THEN parts ELSE Normal(CHOOSE t \in reduced : TRUE)

-------------------------------------------------------------------------------
(* The unifier: the set holds the substitution it returns, if any.         *)

\* Mutant of UnifyMult: equal multiplicities are settled at once.
UnifyMultSettled(m, n) ==
    CASE m = n -> IF m \in Mults THEN {m :> Many} ELSE {Empty}
      [] m \in Mults -> {m :> n}
      [] n \in Mults -> {n :> m}
      [] OTHER -> {}

UnifyMult(m, n) ==
    CASE m = n -> {Empty}
      [] m \in Mults -> {m :> n}
      [] n \in Mults -> {n :> m}
      [] OTHER -> {}

\* A variable against a type that is not a variable.
BindTo(v, ty) == IF v \in Ids("var", ty) THEN {} ELSE {v :> ty}

\* The constant that the variables of two quantifiers are renamed to.
Bound == 99
Opened(ty) == Subst(ty.n :> Skolem(Bound), ty.s[1])
Keeps(s) == \A v \in DOMAIN s \ Mults : Bound \notin Skolems(s[v])

RECURSIVE UnifyNormal(_, _)
Unify(l, r) == UnifyNormal(Normal(l), Normal(r))      \* unify_tf

RECURSIVE UnifyAll(_, _, _)
UnifyAll(ls, rs, s) ==
    IF ls = <<>> THEN {s}
    ELSE UNION {UnifyAll(Tail(ls), Tail(rs), Compose(s, t)) : t \in Unify(Subst(s, Head(ls)), Subst(s, Head(rs)))}

\* Two stuck applications of one family are unified by their arguments.
UnifyStuck(l, r) ==
    LET a == Spine(l)
        b == Spine(r)
    IN  CASE Equal(l, r) -> {Empty}
          [] a.head = b.head /\ Len(a.args) = Len(b.args) -> UnifyAll(a.args, b.args, Empty)
          [] OTHER -> {}

\* unify_inner; the parts of a list are those of its constructor's
\* application when the other side is an application.
UnifyNormal(l, r) ==
    CASE l.k = "var" /\ r.k = "var" ->
            IF l = r THEN {Empty} ELSE IF l.n > r.n THEN {l.n :> r} ELSE {r.n :> l}
      [] l.k = "forall" /\ r.k = "forall" -> {s \in Unify(Opened(l), Opened(r)) : Keeps(s)}
      [] "forall" \in {l.k, r.k} /\ l.k # r.k -> {}
      [] l.k = "var" /\ r.k # "var" -> BindTo(l.n, r)
      [] r.k = "var" /\ l.k # "var" -> BindTo(r.n, l)
      [] OTHER ->
            CASE Stuck(l) \/ Stuck(r) -> UnifyStuck(l, r)
              [] l.k = "arrow" /\ r.k = "arrow" -> UNION {UnifyAll(l.s, r.s, s) : s \in UnifyMult(l.n, r.n)}
              [] l.k = "app" /\ r.k = "list" -> UnifyAll(l.s, <<ListCon>> \o r.s, Empty)
              [] l.k = "list" /\ r.k = "app" -> UnifyAll(r.s, <<ListCon>> \o l.s, Empty)
              [] l.k = r.k /\ l.k # "arrow" -> IF l.n = r.n THEN UnifyAll(l.s, r.s, Empty) ELSE {}
              [] OTHER -> {}

\* unify_refining: the rigid variables are flexible for once.  One bound to
\* a flexible variable is turned around, and where several are bound to the
\* same the last of an unordered map stays; any other binding of a rigid
\* variable is a given.
UnifyRefining(l, r) ==
    LET rigid == Skolems(l) \cup Skolems(r)
        back == [v \in rigid |-> Skolem(v)]
        Flexible(ty) == Demote([v \in rigid |-> Var(v)], ty)
        Sorted(raw) ==
            LET image == [v \in DOMAIN raw |-> IF v \in Mults THEN raw[v] ELSE Subst(back, raw[v])]
                turned == {v \in rigid \cap DOMAIN raw : image[v].k = "var"}
                adopted == {f \in [{image[v].n : v \in turned} -> turned] :
                                \A v \in DOMAIN f : image[f[v]].n = v}
                Flex(f) == [v \in DOMAIN f |-> Skolem(f[v])]
                           @@ [v \in DOMAIN raw \ rigid |-> image[v]]
            IN  {[subst |-> Flex(f),
                  givens |-> [v \in (rigid \cap DOMAIN raw) \ turned |-> Subst(Flex(f), image[v])],
                  dropped |-> Image(f) # turned] :
                        f \in adopted}
    IN  UNION {Sorted(raw) : raw \in Unify(Flexible(l), Flexible(r))}

-------------------------------------------------------------------------------
Init ==
    /\ \E p \in Problems : match = p.match /\ todo = p.equations
    /\ solved = <<>> /\ subst = Empty /\ givens = Empty /\ dropped = FALSE /\ status = "ok"

Tried ==
    /\ status = "ok" /\ todo # <<>>
    /\ todo' = Tail(todo) /\ solved' = Append(solved, Head(todo))
    /\ UNCHANGED match

Refused(solutions) == solutions = {} /\ status' = "failed" /\ UNCHANGED <<subst, givens, dropped>>

\* Inference solves the next equation under the substitution so far.
Solve ==
    /\ ~match /\ Tried
    /\ LET solutions == Unify(Subst(subst, Head(todo).l), Subst(subst, Head(todo).r)) IN
       \/ Refused(solutions)
       \/ \E s \in solutions : subst' = Compose(subst, s) /\ UNCHANGED <<givens, dropped, status>>

\* check_pattern matches the next constructor pattern, the left side being
\* the type of the scrutinee, or of a field of the pattern around it.
ExtendGivens(acc, new) == [v \in DOMAIN acc |-> Demote(new, acc[v])] @@ new

Refine ==
    /\ match /\ Tried
    /\ LET solutions == UnifyRefining(Demote(givens, Subst(subst, Head(todo).l)), Head(todo).r) IN
       \/ Refused(solutions)
       \/ \E s \in solutions : /\ subst' = Compose(subst, s.subst)
                               /\ givens' = ExtendGivens(givens, s.givens)
                               /\ dropped' = (dropped \/ s.dropped)
                               /\ UNCHANGED status

Next == Solve \/ Refine

Spec == Init /\ [][Next]_vars
-------------------------------------------------------------------------------
(* What the equations mean: the assignments of closed types that solve     *)
(* them, against those that agree with the substitution and the givens.    *)

RECURSIVE Within(_)
Within(ty) == {ty} \cup UNION {Within(p) : p \in Image(ty.s)}

SidesTried == UNION {{e.l, e.r} : e \in Image(solved)}
PartsTried == UNION {Within(ty) : ty \in SidesTried}
Flexibles == UNION {Ids("var", ty) : ty \in SidesTried}
RigidsTried == UNION {Skolems(ty) : ty \in SidesTried}
MultsTried == {ty.n : ty \in PartsTried} \cap (Mults \cup RigidMults)

RECURSIVE Assignments(_)
Assignments(ids) ==
    IF ids = {} THEN {Empty}
    ELSE LET v == CHOOSE w \in ids : TRUE
         IN  {theta @@ (v :> ty) : theta \in Assignments(ids \ {v}), ty \in Closed[v]}
All == Assignments(Flexibles \cup RigidsTried \cup MultsTried)

Meaning(theta, ty) == Stands(Families, theta, ty)
Solves(theta) == \A e \in Image(solved) : Meaning(theta, e.l) = Meaning(theta, e.r)
Agrees(theta) ==
    /\ \A v \in DOMAIN subst :
          theta[v] = IF v \in Mults THEN Resolve(theta, subst[v]) ELSE Meaning(theta, subst[v])
    /\ \A v \in DOMAIN givens : theta[v] = Meaning(theta, givens[v])

FamiliesTried == {ty \in PartsTried : Stuck(ty)}
Arguments == UNION {UNION {Within(t) : t \in Image(Spine(f).args)} : f \in FamiliesTried}

\* Where a family reduces by less than the types it is applied to: the
\* application of an unknown constructor is taken to be apart from a list,
\* arrows are compared without multiplicities, and what were two rigid
\* variables by the name the source gave them.
ReducedBlindly ==
    \/ \E t \in Arguments : t.k = "app" /\ Spine(t).head.k \in {"var", "skolem"}
    \/ \E t \in Arguments : t.k = "arrow"
    \/ match /\ Cardinality(UNION {Skolems(t) : t \in Arguments}) > 1

\* Whether the equation that failed has an application of a stuck family.
FailedOnFamily ==
    LET last == solved[Len(solved)] IN
    \E ty \in {last.l, last.r} : \E part \in Within(Normal(Demote(givens, Subst(subst, ty)))) : Stuck(part)

-------------------------------------------------------------------------------
(* Properties                                                              *)

\* No rigid variable is ever bound, none is refined to a type that mentions
\* a refined one, also across the patterns of a match, and no chain of
\* bindings leads back to its start (types.rs 1457-1477, infer.rs 2191-2205).
TypeOK ==
    /\ DOMAIN subst \cap (Rigids \cup RigidMults) = {} /\ DOMAIN givens \subseteq Rigids
    /\ \A v \in DOMAIN givens : Skolems(givens[v]) \cap DOMAIN givens = {}
    /\ \A v \in DOMAIN subst \ Mults : v \notin Ids("var", Subst(subst, subst[v]))
    /\ status = "failed" => solved # <<>>

\* What agrees with the bindings and the givens solves every equation, unless
\* an equation between rigid variables was dropped (types.rs 1457-1471).
SolvedUnlessBlind ==
    status = "ok" /\ ~ReducedBlindly /\ ~dropped => \A theta \in All : Agrees(theta) => Solves(theta)

\* What solves the equations agrees with the bindings: inference never commits
\* to more than it must, but for families that take two types to one
\* (types.rs 1519-1745).
MostGeneralIfInjective ==
    status = "ok" /\ {Spine(f).head.k : f \in FamiliesTried} \subseteq Injective /\ ~ReducedBlindly =>
        \A theta \in All : Solves(theta) => Agrees(theta)

\* Equations are refused only if nothing solves them, for some choice of what
\* the rigid variables stand for; in a match, for any (types.rs 1519-1745).
RefusedUnlessStuck ==
    status = "failed" /\ ~FailedOnFamily /\ ~ReducedBlindly =>
        IF match THEN \A theta \in All : ~Solves(theta)
        ELSE \E rigid \in Assignments(RigidsTried \cup (MultsTried \ Mults)) :
                \A theta \in Assignments(Flexibles \cup (MultsTried \cap Mults)) : ~Solves(theta @@ rigid)

\* "A closed-family clause may only be skipped in favor of a later one when
\* the argument can never come to match it" (types.rs 1183-1184): whatever its
\* variables turn out to be, a type means what it is reduced to.
ReductionKeepsMeaning ==
    \A f \in FamiliesTried : \A theta \in All : Meaning(theta, Normal(f)) = Meaning(theta, f)
===============================================================================
