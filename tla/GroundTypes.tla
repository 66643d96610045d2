------------------------------ MODULE GroundTypes ------------------------------
(***************************************************************************)
(* Types and what they stand for: the reference for Unification.           *)
(*                                                                         *)
(* A type is a node [k: its kind or, of a constructor, its name; n: the id *)
(* of a variable, or an arrow's multiplicity; s: its parts].  Under an     *)
(* assignment of closed types to its variables it stands for a closed      *)
(* type, in which a closed type family is reduced as Haskell reduces it:   *)
(* by the first equation that matches, once the arguments are known.       *)
(***************************************************************************)
EXTENDS Integers, Sequences, FiniteSets, TLC

Node(k, n, s) == [k |-> k, n |-> n, s |-> s]

Con(c) == Node(c, 0, <<>>)
Var(v) == Node("var", v, <<>>)             \* flexible
Skolem(v) == Node("skolem", v, <<>>)       \* rigid
Apply1(f, a) == Node("app", 0, <<f, a>>)
List(a) == Node("list", 0, <<a>>)
Arrow(a, b, m) == Node("arrow", m, <<a, b>>)
Pair(a, b) == Node("tuple", 0, <<a, b>>)
Forall(v, a) == Node("forall", v, <<a>>)

ListCon == Con("[]")

\* Multiplicities share the numbers with the ids of variables.
One == -1
Many == -2

\* The head of an application, and its arguments.
RECURSIVE Spine(_)
Spine(ty) ==
    IF ty.k = "app" THEN LET f == Spine(ty.s[1]) IN [head |-> f.head, args |-> Append(f.args, ty.s[2])]
    ELSE [head |-> ty, args |-> <<>>]

-------------------------------------------------------------------------------
\* The pattern of an equation against a closed type: the set holds the
\* bindings of its variables, or nothing when it does not match.
RECURSIVE Binds(_, _, _)
RECURSIVE BindsAll(_, _, _)
BindsAll(pats, tys, b) ==
    IF pats = <<>> THEN {b}
    ELSE UNION {BindsAll(Tail(pats), Tail(tys), c) : c \in Binds(Head(pats), Head(tys), b)}
Binds(pat, ty, b) ==
    CASE pat.k = "var" /\ pat.n \in DOMAIN b -> IF b[pat.n] = ty THEN {b} ELSE {}
      [] pat.k = "var" -> {b @@ (pat.n :> ty)}
      [] pat.k = "list" -> Binds(Apply1(ListCon, pat.s[1]), ty, b)
      [] pat.k = "app" -> IF ty.k = "app" THEN BindsAll(pat.s, ty.s, b) ELSE {}
      [] OTHER -> IF pat = ty THEN {b} ELSE {}

\* The closed type that ty stands for when its variables stand for those of
\* theta.  A list is the application of its constructor, a bound variable
\* a constant; a family that no equation serves stays as it is.
RECURSIVE Stands(_, _, _)
Reduced(families, ty) ==
    LET spine == Spine(ty) IN
    IF spine.head.k \notin DOMAIN families THEN ty
    ELSE LET equations == families[spine.head.k]
             Matches(i) == BindsAll(equations[i].pats, spine.args, <<>>)
             Serving == {i \in DOMAIN equations :
                            Len(equations[i].pats) = Len(spine.args) /\ Matches(i) # {}}
         IN  IF Serving = {} THEN ty
             ELSE LET first == CHOOSE i \in Serving : \A j \in Serving : i <= j
                      b == CHOOSE c \in Matches(first) : TRUE
                  IN  Stands(families, b, equations[first].result)
Stands(families, theta, ty) ==
    LET Part(i) == Stands(families, theta, ty.s[i]) IN
    CASE ty.k \in {"var", "skolem"} -> theta[ty.n]
      [] ty.k = "list" -> Apply1(ListCon, Part(1))
      [] ty.k = "app" -> Reduced(families, Apply1(Part(1), Part(2)))
      [] ty.k = "arrow" -> Arrow(Part(1), Part(2), IF ty.n \in DOMAIN theta THEN theta[ty.n] ELSE ty.n)
      [] ty.k = "tuple" -> Pair(Part(1), Part(2))
      [] ty.k = "forall" -> Forall(0, Stands(families, (ty.n :> Con("bound")) @@ theta, ty.s[1]))
      [] OTHER -> ty
===============================================================================
