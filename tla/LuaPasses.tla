------------------------------- MODULE LuaPasses ------------------------------
(***************************************************************************)
(* The passes in the order of codegen/opt.rs, run_with: the expression     *)
(* passes go round until nothing changes, the last pass works in rounds,   *)
(* one function a round, and when it changed anything all run again over   *)
(* the changed tree.                                                       *)
(***************************************************************************)
EXTENDS LuaUpvalues, LuaThunks

CONSTANTS Programs,      \* the modules, as the emitter hands them over
          Limits         \* locals the passes leave a function, captures it may
                         \* keep, locals the host allows

VARIABLES
    program,             \* the module as emitted
    limits,
    tree,                \* the module as it stands
    stage,               \* the pass to run, or "done", "refused" (an error
                         \* message) or "stuck" (an internal one)
    routed,              \* the tables this run of pass 8 declared, and next slots
    sweep,               \* how often the passes have begun
    round                \* how often the expression passes have, in this sweep

vars == <<program, limits, tree, stage, routed, sweep, round>>

MaxRounds == 16          \* of opt.rs, for both loops

Init == /\ program \in Programs
        /\ limits \in Limits
        /\ tree = program /\ stage = "thunklift" /\ routed = <<>> /\ sweep = 1 /\ round = 1

On(b) == [module |-> b, locals |-> limits.locals]

LiftSuspensions ==
    /\ stage = "thunklift"
    /\ tree' = LiftThunks(tree)
    /\ stage' = "expressions" /\ round' = 1
    /\ UNCHANGED <<program, limits, routed, sweep>>

(* One round of passes 1, 2 and 3.                                         *)
Simplified(b) == FlattenBody(Clean(NormalBlock(b, "last")), On(b))
\* Mutant of Simplify: one round is taken for enough.
SimplifyOnce ==
    /\ stage = "expressions"
    /\ tree' = Simplified(tree) /\ stage' = "force"
    /\ UNCHANGED <<program, limits, routed, sweep, round>>
Simplify ==
    /\ stage = "expressions"
    /\ tree' = Simplified(tree)
    /\ IF tree' = tree \/ round = MaxRounds THEN stage' = "force" /\ UNCHANGED round
       ELSE stage' = stage /\ round' = round + 1
    /\ UNCHANGED <<program, limits, routed, sweep>>

DropForces ==
    /\ stage = "force"
    /\ tree' = CollapseBlock(tree, {}, tree)
    /\ stage' = "tailloop"
    /\ UNCHANGED <<program, limits, routed, sweep, round>>

Pass(pass, next) ==
    /\ stage = pass
    /\ tree' = Converted(pass, tree, On(tree))
    /\ stage' = next
    /\ UNCHANGED <<program, limits, routed, sweep, round>>

TailLoops == Pass("tailloop", "ioloop")
IoLoops == Pass("ioloop", "hoist")
HoistClosures == Pass("hoist", "upvalues")

(* One round of upvalues.rs, run: the first function over the budget has   *)
(* captures routed, and must come out with fewer; or it cannot be helped.  *)
OverBudget(facts) ==
    {f \in Functions(facts) : Cardinality(Captures(facts, f)) > limits.upvalues}

FirstOverBudget(facts) ==
    CHOOSE f \in OverBudget(facts) : \A g \in OverBudget(facts) : g = f \/ Before(f, g)
Lowered(facts, f, after) ==
    \A g \in Functions(after) :
        Rank(after, g) = Rank(facts, f) =>
            Cardinality(Captures(after, g)) < Cardinality(Captures(facts, f))

Route(facts, f, plan) ==
    LET next == plan.next @@ routed IN
    /\ tree' = Routing(tree, plan)
    /\ routed' = next
    /\ stage' = IF Lowered(facts, f, Facts(tree', DOMAIN next)) THEN "upvalues" ELSE "stuck"

RouteOrRefuse(facts, f, choice) ==
    IF choice.left > 0 THEN stage' = "refused" /\ UNCHANGED <<tree, routed>>
    ELSE Route(facts, f, Plan(facts, f, choice.groups, Tokens(tree), routed))

RouteIn(facts) ==
    /\ OverBudget(facts) # {}
    /\ \E f \in {FirstOverBudget(facts)} : RouteOrRefuse(facts, f, Choice(facts, f, limits))

RouteCaptures ==
    /\ stage = "upvalues"
    /\ RouteIn(Facts(tree, DOMAIN routed))
    /\ UNCHANGED <<program, limits, sweep, round>>

EndSweep ==
    /\ stage = "upvalues" /\ OverBudget(Facts(tree, DOMAIN routed)) = {}
    /\ IF routed = <<>> THEN stage' = "done" /\ UNCHANGED sweep
       ELSE /\ stage' = IF sweep = MaxRounds THEN "stuck" ELSE "thunklift"
            /\ sweep' = sweep + 1
    /\ routed' = <<>>
    /\ UNCHANGED <<program, limits, tree, round>>

Next ==
    \/ LiftSuspensions \/ Simplify \/ DropForces \/ TailLoops \/ IoLoops
    \/ HoistClosures \/ RouteCaptures \/ EndSweep

Spec == Init /\ [][Next]_vars

-----------------------------------------------------------------------------
(* After each pass the module does what the emitted one does: what it      *)
(* emits, returns and raises, run after run of an action, with what each   *)
(* closure kept of the turn that made it (tailloop.rs 20-97, ioloop.rs     *)
(* 38-140, hoist.rs 20-60, upvalues.rs 20-60).                             *)
MeaningPreserved == Behaviour(tree) = Behaviour(program)

(* The passes that make work for each other have left none: another round  *)
(* over the final tree changes nothing (opt.rs 349-372).                   *)
NothingLeft == stage = "done" => Simplified(tree) = tree

FunctionsOf(b) ==
    {Func(<<>>, b)}
    \cup {Func(s.ps, s.blocks[1]) : s \in {x \in ToSet(AllStmts(b)) : x.s = "function"}}
    \cup {x \in ToSet(AllExprs(b)) : x.e = "func"}

(* No function is left with more upvalues than the budget, counted as the  *)
(* host counts them, nor ever given more locals than a function may have   *)
(* (upvalues.rs 90-104).                                                   *)
HostAccepts ==
    /\ stage = "done" => \A n \in HostUpvalues(tree, {}) : n <= limits.upvalues
    /\ \A f \in FunctionsOf(tree) : CountLocals(f.body) + Len(f.ps) <= limits.host
===============================================================================
