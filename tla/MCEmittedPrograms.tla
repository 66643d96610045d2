--------------------------- MODULE MCEmittedPrograms --------------------------
(***************************************************************************)
(* What the compiler hands to the host, for TLC: the emitted tree, as the  *)
(* passes of codegen/opt.rs rework it, and the map operations of the       *)
(* runtime it runs on, which must return.  A behaviour runs one of the     *)
(* two, and the variables of the other stay idle.                          *)
(***************************************************************************)
EXTENDS HashMapStore

VARIABLE part                   \* "runtime", or "tree" for the passes

-------------------------------------------------------------------------------
(* The passes over the emitted tree: every module of LuaPrograms, with     *)
(* room, with few captures allowed, and with few locals as well.           *)

VARIABLES emitted, limits, tree, stage, routed, sweep, round

treeVars == <<emitted, limits, tree, stage, routed, sweep, round>>

Room == [locals |-> 180, upvalues |-> 50, host |-> 200]
TreeLimits == {Room, [Room EXCEPT !.upvalues = 3], [locals |-> 6, upvalues |-> 3, host |-> 8]}

Chunks == INSTANCE LuaPrograms
Lua == INSTANCE LuaPasses
           WITH program <- emitted, Fuel <- 60,
                Programs <- Chunks!Modules, Limits <- TreeLimits

-------------------------------------------------------------------------------
TreeIdle == /\ emitted = <<>> /\ tree = <<>> /\ routed = <<>>
            /\ limits = Room /\ stage = "done" /\ sweep = 1 /\ round = 1

\* Any one store does for a runtime that does not run.
RuntimeIdle == Init /\ node[Empty].t = CHOOSE s \in Stores : TRUE

EmittedInit ==
    \/ part = "runtime" /\ Init /\ TreeIdle
    \/ part = "tree" /\ Lua!Init /\ RuntimeIdle

EmittedNext ==
    \/ part = "runtime" /\ Next /\ UNCHANGED <<part, treeVars>>
    \/ part = "tree" /\ Lua!Next /\ UNCHANGED <<part, vars>>

\* The runtime's loops run on once entered.  The passes over the tree are not asked
\* to end but to come out right: each works through a tree once, and a round of
\* routing that gets nowhere is an error of its own.
EmittedSpec ==
    EmittedInit /\ [][EmittedNext]_<<part, vars, treeVars>> /\ Fairness

-------------------------------------------------------------------------------
(* The properties of LuaPasses; that of the runtime is OperationsReturn.   *)

\* After every pass the module does what the emitted one does: what it emits, returns
\* and raises, run after run of an action, with what each closure kept of the turn that
\* made it (thunklift.rs 97-514, opt.rs 395-1165, tailloop.rs 20-97, ioloop.rs 38-140,
\* hoist.rs 20-60, upvalues.rs 20-60).
EmittedMeaningKept == part = "tree" => Lua!MeaningPreserved

\* No function is left with more upvalues than the budget, counted as the host counts
\* them, nor ever given more locals than a function may have; and a round of routing
\* lowers the count it works on, so that neither internal error of the passes is reported;
\* and the final tree holds no paren, branch or called literal that the passes would still
\* rewrite (upvalues.rs 90-104, 199-213; opt.rs 222-228, 319-321, 349-372).
SettledWithinHostLimits ==
    part = "tree" => Lua!HostAccepts /\ stage # "stuck" /\ Lua!NothingLeft
===============================================================================
