-------------------------- MODULE UnificationProblems --------------------------
(***************************************************************************)
(* Equations for Unification: one or two over variables of every sort,     *)
(* the patterns of a match over a data type with two indices, and type     *)
(* families.                                                               *)
(***************************************************************************)
EXTENDS GroundTypes

Char == Con("Char")
Bool == Con("Bool")
MaybeCon == Con("Maybe")
A == Var(1)                 \* older than
B == Var(5)                 \* a flexible variable made later
C == Var(6)
R == Skolem(3)              \* the rigid variables were made in between
S == Skolem(4)
M == Var(12)                \* constructor variables
K == Skolem(11)
P == 41                     \* multiplicities: flexible,
Q == 42
W == 49                     \* and rigid
X == 51                     \* bound by a quantifier
RigidIds == {3, 4, 9, 11, 33}

Problem(equations, m) == [equations |-> equations, match |-> m]
Eq(t, u) == [l |-> t, r |-> u]

Leaves == {A, B, R, S, Char}
Types == Leaves
         \cup {List(t) : t \in {A, B, R, Char}}
         \cup {Apply1(f, t) : f \in {M, K, MaybeCon}, t \in {A, B, R, Char}}
         \cup {Arrow(t, u, m) : t \in {A, Char}, u \in {A, B, Char}, m \in {One, P, W}}
         \cup {Pair(t, u) : t \in {A, B, R}, u \in {A, B, S, Char}}
         \cup {Forall(X, Arrow(t, u, One)) : t \in {Var(X), Char}, u \in {Var(X), A, R, Char}}

Singles == {Problem(<<Eq(t, u)>>, FALSE) : t \in Types, u \in Types}
Fewer == {A, B, R, Char, List(A), Apply1(M, B), Pair(A, B), Arrow(A, Char, P), Arrow(B, A, One)}
Eqs(T) == {Eq(t, u) : t \in T, u \in T}
Doubles == {Problem(<<e, f>>, FALSE) : e \in Eqs(Fewer), f \in Eqs(Fewer)}

(* Patterns: constructors of `data T i j` whose result types fix, share or *)
(* leave open the indices, matched against scrutinees of known, rigid and  *)
(* unknown indices, one in a field of the other.                           *)
T(i, j) == Apply1(Apply1(Con("T"), i), j)
Scrutinees ==
    {T(i, j) : i \in {A, R, S, List(R), Char}, j \in {A, R, S, B, Apply1(K, S), Pair(R, S)}}
Results(v, w, f) ==
    {T(i, j) : i \in {v, Char, List(v)}, j \in {v, w, List(w), Apply1(f, w), Pair(v, v)}}
Matches == {Problem(<<Eq(s, c)>>, TRUE) : s \in Scrutinees, c \in Results(Var(7), Var(8), Var(13))}

Nested ==
    {Problem(<<Eq(s, c), Eq(x, d)>>, TRUE) :
        s \in {T(A, R), T(R, S), T(R, A), T(List(R), S)},
        c \in {T(Var(7), Var(7)), T(Var(7), Var(8)), T(List(Var(7)), Var(8)), T(Char, Var(8))},
        x \in {T(Var(7), Var(8)), T(Var(8), Skolem(9)), T(Var(8), Char)},
        d \in {T(Var(21), Var(21)), T(Char, Var(22)), T(List(Var(21)), Var(22)), T(Apply1(Var(14), Var(21)), Var(22))}}
(* Families: Swap is injective, IsList tells lists from the rest, Same     *)
(* compares, Plus adds.                                                    *)
E == Var(101)               \* variables of equations
F == Var(102)
Eqn(pats, result) == [pats |-> pats, result |-> result]
Zero == Con("Z")
Succ(n) == Apply1(Con("S"), n)
Fam1(f, t) == Apply1(Con(f), t)
Fam2(f, t, u) == Apply1(Fam1(f, t), u)

Families ==
    [Swap |-> <<Eqn(<<Char>>, Bool), Eqn(<<Bool>>, Char)>>,
     IsList |-> <<Eqn(<<List(E)>>, Bool), Eqn(<<E>>, Char)>>,
     Same |-> <<Eqn(<<E, E>>, Bool), Eqn(<<E, F>>, Char)>>,
     First |-> <<Eqn(<<Char, Bool>>, Bool), Eqn(<<E, F>>, E)>>,
     Plus |-> <<Eqn(<<Zero, E>>, E), Eqn(<<Succ(E), F>>, Succ(Fam2("Plus", E, F)))>>]

Linear == Arrow(Char, Char, One)
Args == {A, R, Char, List(A), Apply1(M, A), Apply1(K, Char), Linear}
Applied(f) ==
    IF f \in {"Swap", "IsList"} THEN {Fam1(f, t) : t \in Args \cup {Fam1(f, A), List(Fam1(f, R))}}
    ELSE {Fam2(f, t, u) : t \in Args, u \in {A, B, R, S, Bool, Arrow(Char, Char, P)}}
Unreduced ==
    UNION {{Problem(<<Eq(t, u)>>, m) : t \in Applied(f), u \in Applied(f) \cup {A, B, Char, Bool}} :
              f \in {"Swap", "IsList", "Same", "First"}, m \in BOOLEAN}
Later ==
    UNION {{Problem(<<Eq(t, u), Eq(A, v)>>, FALSE) :
                t \in Applied(f), u \in {B, Char, Bool}, v \in {B, Char, R, List(B)}} :
              f \in {"Swap", "IsList", "Same", "First"}}

N1 == Var(31)               \* numbers
N2 == Var(32)
N3 == Skolem(33)
Sums == {Fam2("Plus", t, u) : t \in {Zero, Succ(N1), N1, N3, Succ(N3)}, u \in {N1, N2, Zero, Succ(Zero)}}
Arithmetic ==
    {Problem(<<Eq(t, u)>>, m) : t \in Sums, u \in Sums \cup {N1, N2, Zero, Succ(N2), N3}, m \in BOOLEAN}

Ordinary ==
    Singles \cup Doubles \cup Matches \cup Nested \cup Unreduced \cup Later \cup Arithmetic

\* What tells lists from other types, applied to every sort of argument.
ListFamily ==
    {Problem(<<Eq(Fam1("IsList", t), u)>>, FALSE) : t \in Args \ {Linear}, u \in {B, Char, Bool}}

(* What the variables may stand for.                                       *)
ClosedTypes ==
    [v \in {1, 3, 4, 5, 6} |-> {Char, Bool, Apply1(ListCon, Char), Apply1(MaybeCon, Char)}]
    @@ [v \in {7, 8, 9, 21, 22} |-> {Char, Bool, Apply1(ListCon, Char)}]
    @@ [v \in {11, 12, 13, 14} |-> {ListCon, MaybeCon}]
    @@ [v \in {31, 32, 33} |-> {Zero, Succ(Zero), Succ(Succ(Zero)), Succ(Succ(Succ(Zero)))}]
    @@ [v \in {P, Q, W} |-> {One, Many}]
===============================================================================
