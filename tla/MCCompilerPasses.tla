--------------------------- MODULE MCCompilerPasses ---------------------------
(***************************************************************************)
(* The module loader and the monomorphiser, the two passes of the compiler *)
(* that must be shown to end, for TLC.  A behaviour runs one of the two,   *)
(* and the variables of the other stay idle.                               *)
(***************************************************************************)
EXTENDS ModuleLoader, Specializer, TLC

CONSTANTS A, B, Main, Main1

(* The loader: every import graph of three modules.  A module called Main  *)
(* competes for the entry module's prefix.                                 *)
MCMods == {A, B, Main}
MCPrefixes == <<Main, Main1>>

\* At most two imports each, in either order, the module itself included.
MCImportLists == {s \in BoundedSeq(MCMods, 2) : IsInjective(s)}

\* At most one module is flawed; A and B are interchangeable, so A never is.
Sound == [m \in MCMods \cup {Root} |-> "none"]
MCFlaws ==
    {Sound}
    \cup {[Sound EXCEPT ![B] = f] : f \in {"missing", "unparsable", "import", "syntax", "export"}}
    \cup {[Sound EXCEPT ![Main] = f] : f \in {"unparsable", "syntax"}}
    \cup {[Sound EXCEPT ![Root] = f] : f \in {"import", "syntax"}}

\* And when B is not flawed either, the entry module names A before B.
Representative ==
    flaw[B] = "none" => imports[Root] \notin {<<B>>, <<B, A>>, <<B, Main>>, <<Main, B>>}

-------------------------------------------------------------------------------
(* The monomorphiser: every program of two polymorphic functions.          *)

VARIABLE part           \* the pass that runs

NoFunctions ==
    [order |-> <<"main">>, constrained |-> {}, opens |-> {}, builtins |-> {},
     body |-> [main |-> <<>>]]

Arg(of, wrap) == [of |-> of, wrap |-> wrap]
U(f, a, b) == [fun |-> f, a |-> a, b |-> b]
G == Arg("ground", <<>>)
Fun1 == Arg("ground", <<"fun">>)
Wrapped(var) == {Arg(var, w) : w \in {<<>>, <<"list">>, <<"fun">>}}

\* What the body of f may use, where con are the constrained functions: its own
\* variables, bare or wrapped, or a ground type.
Uses(f, con) ==
    {U(g, G, b) : g \in {"f", "g"} \ con, b \in Wrapped("b")}
    \cup {U(g, a, b) : g \in con, a \in IF f \in con THEN {Arg("a", <<>>), Arg("a", <<"list">>)} ELSE {G},
                       b \in {Arg("b", <<>>), Arg("b", <<"fun">>)}}
    \cup {U(g, G, G) : g \in {"f", "g"}}

\* What main uses: a function at a ground type, at a result that is a function,
\* or at the hidden type of an existential.
MainUses(con) ==
    {U(g, G, b) : g \in {"f", "g"}, b \in {G, Fun1}}
    \cup {U(g, Arg("hidden", <<>>), b) : g \in con, b \in {G, Fun1}}

UpTo(S, n) == UNION {[1 .. k -> S] : k \in 0 .. n}

ProgramsOf(order, con, n) ==
    [order : {order}, constrained : {con}, opens : {{"f", "g"}}, builtins : SUBSET ({"g"} \ con),
     body : [f : UpTo(Uses("f", con), 1), g : UpTo(Uses("g", con), 1), main : UpTo(MainUses(con), n)]]

SourceOrder == <<"f", "g", "main">>
MainFirst == <<"main", "f", "g">>

TwoFunctions ==
    ProgramsOf(SourceOrder, {}, 1) \cup ProgramsOf(SourceOrder, {"f"}, 2)
    \cup ProgramsOf(SourceOrder, {"g"}, 1) \cup ProgramsOf(SourceOrder, {"f", "g"}, 1)
    \cup ProgramsOf(MainFirst, {"f"}, 1) \cup ProgramsOf(MainFirst, {"f", "g"}, 1)

MCPrograms == {NoFunctions} \cup TwoFunctions

-------------------------------------------------------------------------------
\* The pass that does not run stays in one of its initial states.
LoaderIdle == imports = [m \in Mods \cup {Root} |-> <<>>] /\ flaw = Sound /\ Init
MonoIdle == compiled = NoFunctions /\ MonoInit

PassesInit ==
    \/ part = "loader" /\ Init /\ Representative /\ MonoIdle
    \/ part = "specializer" /\ MonoInit /\ LoaderIdle

PassesNext ==
    \/ part = "loader" /\ Next /\ UNCHANGED <<part, monoVars>>
    \/ part = "specializer" /\ MonoNext /\ UNCHANGED <<part, vars>>

allVars == <<part, vars, monoVars>>

PassesSpec == PassesInit /\ [][PassesNext]_allVars /\ WF_allVars(PassesNext)

\* Resolution comes to a verdict and unwinds, cyclic imports or not (modules.rs
\* 861-1290), and the monomorphiser ends on every polymorphic recursion: "the trip
\* cannot loop" (mono.rs 1967).
PassEnds == <>(IF part = "loader" THEN status # "running" /\ frames = <<>> ELSE phase = "done")
===============================================================================
