---------------------------- MODULE ActionRunners ----------------------------
(***************************************************************************)
(* How an action is emitted and run: the shapes of mllc/src/codegen/       *)
(* action.rs, the performer / builder pair of function.rs, and the two     *)
(* runners, the pure box and the handlers of codegen/runtime.lua.          *)
(*                                                                         *)
(* An action is a source term over one bound variable; its compiled code   *)
(* runs on a stack of Lua frames, where a tail call pushes none.           *)
(* ActionMeaning has the reference: what the term does in Haskell.         *)
(***************************************************************************)
EXTENDS Integers, Sequences, SequencesExt

CONSTANTS Programs,    \* records [main, cell]: an action, and what the one
                       \* IORef holds at the start
          Terms,       \* the actions they are made of
          TailCalls    \* those that go on with one of their own kind in tail
                       \* position, and before it only run single statements

Single == {"pure", "emit", "fail", "read", "write", "demand"}

(* What `pure` and writeIORef are given: data, the variable or an action.  *)
PayloadKinds == {"datum", "bottom", "x", "action"}
PayloadParts(p) == IF p.is = "action" THEN {p.of} ELSE {}

(* An action by its kind, and the actions it is made of.                   *)
Kinds == Single \cup {"run", "error", "if", "try", "catch", "bind", "seq", "let", "bindf", "call"}

WellFormed(a) ==
    /\ a.is \in Kinds
    /\ a.is \in {"pure", "write"} => a.of.is \in PayloadKinds
    /\ a.is = "call" => a.fn \in {"performer", "builder"}

Parts(a) ==
    (IF a.is \in {"pure", "write"} THEN PayloadParts(a.of) ELSE {})
    \cup (IF a.is \in {"if", "try", "catch", "bind", "seq", "let", "bindf"} THEN {a.of} ELSE {})
    \cup (IF a.is \in {"bind", "seq", "let"} THEN {a.then} ELSE {})
    \cup (IF a.is = "catch" THEN {a.handler} ELSE {})
    \cup (IF a.is = "bindf" THEN {a.fn} ELSE {})
    \cup (IF a.is = "call" THEN {a.body} ELSE {})

CallsInTail(a) ==
    \/ a.is \in Single
    \/ a.is = "call" /\ a.body \in TailCalls
    \/ a.is = "if" /\ a.of \in TailCalls
    \/ a.is = "let" /\ a.then \in TailCalls
    \/ a.is \in {"bind", "seq"} /\ a.of.is \in Single /\ a.then \in TailCalls

ActionsAssumption ==
    /\ {p.main : p \in Programs} \subseteq Terms
    /\ \A p \in Programs : p.cell.is \in PayloadKinds
    /\ UNION {PayloadParts(p.cell) : p \in Programs} \subseteq Terms
    /\ \A a \in Terms : WellFormed(a)
    /\ UNION {Parts(a) : a \in Terms} \subseteq Terms
    /\ TailCalls \subseteq Terms /\ \A a \in TailCalls : CallsInTail(a)
ASSUME ActionsAssumption

VARIABLES
    program,
    focus,       \* what Lua does next
    pending,     \* pending frames, innermost first
    slot,        \* the IORef's slot
    trace,       \* observable effects so far
    exposed      \* history: a terminal handed a raw thunk or function to a
                 \* consumer that runs it again, or a box to a function

actVars == <<program, focus, pending, slot, trace, exposed>>

(***************************************************************************)
(* Run-time values.  A thunk is `bottom` or computes an action; a function *)
(* is an action closure: its body, its environment, and how it runs it.    *)
(***************************************************************************)
Datum == [is |-> "datum"]
Bottom == [is |-> "bottom"]
LeftOf == [is |-> "left"]
RightOf(v) == [is |-> "right", of |-> v]
Later(v) == [is |-> "later", of |-> v]
Boxed(v) == [is |-> "box", of |-> v]
Closure(a, env, pos) == [is |-> "closure", body |-> a, env |-> env, pos |-> pos]

Unbox(v) == IF v.is = "box" THEN v.of ELSE v
IsRaw(v) == v.is \in {"bottom", "later", "closure"}

(* The bound variable: its value, and whether the emitter may read it bare *)
(* (concrete_vars).                                                        *)
Lazy(v) == [value |-> v, whnf |-> FALSE]

(* An action in value position: a call of a builder, `try`, `catch`, a     *)
(* first-class intrinsic or `pure` is a closure; a conditional is computed *)
(* late where an argument is lazy.                                         *)
ActionValue(a, env) ==
    CASE a.is = "run" -> env.value
      [] a.is = "error" -> Bottom
      [] a.is = "if" -> Later(Closure(a.of, env, "tail"))
      [] a.is = "call" /\ a.fn = "builder" -> Closure(a.body, Lazy(env.value), "tail")
      [] OTHER -> Closure(a, env, "tail")

Payload(p, env) ==
    CASE p.is = "x" -> env.value
      [] p.is = "action" -> ActionValue(p.of, env)
      [] OTHER -> p

(* pure_value_bare_is_safe: the payload is WHNF and never a Lua function.  *)
BareIsSafe(p, env) == p.is = "datum" \/ (p.is = "x" /\ env.whnf)

\* Mutant of PureAction: the payload always escapes bare.
PureBare(p, env) == Payload(p, env)
PureAction(p, env) == IF BareIsSafe(p, env) THEN Payload(p, env) ELSE Boxed(Payload(p, env))

(* action_result_is_whnf, for a variable bound to the action's result.     *)
ResultIsWhnf(a) ==
    CASE a.is = "pure" -> a.of.is = "datum"
      [] a.is \in {"emit", "write"} -> TRUE
      [] OTHER -> FALSE

(* action_binding_ast: a builder call is its own value, anything else a    *)
(* closure that runs it again on every run.                                *)
LetValue(a, env) ==
    IF a.is = "call" THEN ActionValue(a, env) ELSE Closure(a, env, "arg")

(***************************************************************************)
(* Positions: "bind" (the right side of a bind), "arg" (a result that is   *)
(* inspected), "stmt" (discarded) and "tail" (returned).                   *)
(***************************************************************************)
Runner(pos) == IF pos \in {"bind", "arg"} THEN "consume" ELSE "forward"

Perform(a, env, pos) == [do |-> "perform", act |-> a, env |-> env, pos |-> pos]
RunBy(v, runner) == [do |-> "run", value |-> v, runner |-> runner]
Returned(v) == [do |-> "return", value |-> v]
Raise == [do |-> "raise"]

ActInit ==
    /\ program \in Programs
    /\ focus = RunBy(ActionValue(program.main, Lazy(Datum)), "consume")
    /\ pending = <<>>
    /\ slot = Payload(program.cell, Lazy(Datum))
    /\ trace = <<>>
    /\ exposed = FALSE

Act == focus.act
Env == focus.env
Performing(kinds) == focus.do = "perform" /\ Act.is \in kinds

(***************************************************************************)
(* bind_chain_block: the spine of a chain, flattened into statements.      *)
(***************************************************************************)
Spine == {"bind", "seq", "let", "if"}

ChainBind ==
    /\ Performing({"bind"}) /\ focus.pos = "tail"
    /\ focus' = Perform(Act.of, Env, "bind")
    /\ pending' = <<[wait |-> "bind", then |-> Act.then, whnf |-> ResultIsWhnf(Act.of)]>> \o pending
    /\ UNCHANGED <<program, slot, trace, exposed>>

(* A discarded `pure` is no statement at all.                              *)
ChainSeq ==
    /\ Performing({"seq"}) /\ focus.pos = "tail"
    /\ IF Act.of.is = "pure"
       THEN /\ focus' = Perform(Act.then, Env, "tail")
            /\ UNCHANGED pending
       ELSE /\ focus' = Perform(Act.of, Env, "stmt")
            /\ pending' = <<[wait |-> "stmt", then |-> Act.then, env |-> Env]>> \o pending
    /\ UNCHANGED <<program, slot, trace, exposed>>

ChainLet ==
    /\ Performing({"let"}) /\ focus.pos = "tail"
    /\ focus' = Perform(Act.then, Lazy(LetValue(Act.of, Env)), "tail")
    /\ UNCHANGED <<program, pending, slot, trace, exposed>>

ChainIf ==
    /\ Performing({"if"}) /\ focus.pos = "tail"
    /\ focus' = Perform(Act.of, Env, "tail")
    /\ UNCHANGED <<program, pending, slot, trace, exposed>>

(* `print x`: forces the variable.  A box or a function is no number.      *)
Forced(v) == IF v.is \in {"right", "later"} THEN v.of ELSE v
Demand ==
    /\ Performing({"demand"})
    /\ IF Forced(Env.value) = Bottom
       THEN focus' = Raise /\ UNCHANGED trace
       ELSE /\ focus' = Returned(Datum)
            /\ trace' = Append(trace, IF Forced(Env.value).is \in {"datum", "left"}
                                      THEN "shown" ELSE "garbage")
    /\ UNCHANGED <<program, pending, slot, exposed>>

(***************************************************************************)
(* action_run_ast and bound_action_ast, arm by arm.                        *)
(***************************************************************************)

(* Bound directly, a payload stays unboxed; a function's argument does not *)
(* go through that arm.                                                    *)
BoundPure(p, env) == Payload(p, env)

PerformPure ==
    /\ Performing({"pure"})
    /\ focus' = Returned(IF focus.pos = "bind" THEN BoundPure(Act.of, Env)
                       ELSE PureAction(Act.of, Env))
    /\ UNCHANGED <<program, pending, slot, trace, exposed>>

PerformHost ==
    /\ Performing({"emit", "fail"})
    /\ IF Act.is = "fail"
       THEN focus' = Raise /\ UNCHANGED trace
       ELSE focus' = Returned(Datum) /\ trace' = Append(trace, "effect")
    /\ UNCHANGED <<program, pending, slot, exposed>>

(* The frame that will look at a result: a handler only passes it on.      *)
Receiver ==
    LET i == SelectInSeq(pending, LAMBDA f : f.wait # "catch")
    IN IF i = 0 THEN "root" ELSE pending[i].wait

PerformRead ==
    /\ Performing({"read"})
    /\ focus' = Returned(slot)
    /\ exposed' = (exposed \/ (IsRaw(slot) /\ Receiver = "run"))
    /\ UNCHANGED <<program, pending, slot, trace>>

PerformWrite ==
    /\ Performing({"write"})
    /\ slot' = Payload(Act.of, Env)
    /\ focus' = Returned(Datum)
    /\ UNCHANGED <<program, pending, trace, exposed>>

(* A saturated call of a performer runs its body; a consumer applies the   *)
(* runner to what the call returns.                                        *)
\* Mutant of CallFrames: the runner is kept around a forwarding call.
CallFramesKept(pos) == <<[wait |-> "run"]>> \o pending
CallFrames(pos) == IF Runner(pos) = "consume" THEN <<[wait |-> "run"]>> \o pending ELSE pending

PerformCall ==
    /\ Performing({"call"}) /\ Act.fn = "performer"
    /\ focus' = Perform(Act.body, Lazy(Env.value), "tail")
    /\ pending' = CallFrames(focus.pos)
    /\ UNCHANGED <<program, slot, trace, exposed>>

(* Everything else is a value handed to the runner.                        *)
PerformRunner ==
    /\ \/ Performing({"run", "error", "try", "catch", "bindf"})
       \/ Performing({"call"}) /\ Act.fn = "builder"
       \/ Performing(Spine) /\ focus.pos # "tail"
    /\ focus' = RunBy(ActionValue(Act, Env), Runner(focus.pos))
    /\ UNCHANGED <<program, pending, slot, trace, exposed>>

(***************************************************************************)
(* __mll_run and __mll_run_tail (866-891).                                 *)
(***************************************************************************)
RunsA(kinds) == focus.do = "run" /\ focus.value.is \in kinds

RunBox ==
    /\ RunsA({"box"})
    /\ focus' = Returned(IF focus.runner = "consume" THEN focus.value.of ELSE focus.value)
    /\ UNCHANGED <<program, pending, slot, trace, exposed>>

RunThunk ==
    /\ RunsA({"bottom", "later"})
    /\ focus' = IF focus.value.is = "bottom" THEN Raise ELSE RunBy(focus.value.of, focus.runner)
    /\ UNCHANGED <<program, pending, slot, trace, exposed>>

RunDatum ==
    /\ RunsA({"datum", "left", "right"})
    /\ focus' = Returned(focus.value)
    /\ UNCHANGED <<program, pending, slot, trace, exposed>>

(* The function arm.  The closures of try_, catch_ and `m >>= f` run their *)
(* own operands; any other runs its body.  A closure that consumes its     *)
(* body's result hands it on bare.                                         *)
Below == IF focus.runner = "consume" THEN <<[wait |-> "unbox"]>> \o pending ELSE pending

RunClosure ==
    /\ RunsA({"closure"})
    /\ LET a == focus.value.body
           env == focus.value.env
       IN CASE a.is = "try" ->
                 /\ focus' = RunBy(ActionValue(a.of, env), "consume")
                 /\ pending' = <<[wait |-> "try"]>> \o Below
            [] a.is = "catch" ->
                 /\ focus' = RunBy(ActionValue(a.of, env), "forward")
                 /\ pending' = <<[wait |-> "catch", handler |-> a.handler, env |-> env]>> \o Below
            [] a.is = "bindf" ->
                 /\ focus' = Perform(a.of, env, "arg")
                 /\ pending' = <<[wait |-> "apply", fn |-> a.fn]>> \o Below
            [] OTHER ->
                 /\ focus' = Perform(a, env, focus.value.pos)
                 /\ pending' = IF focus.value.pos = "arg" /\ a.is \notin {"pure", "emit", "fail", "read", "write"}
                             THEN <<[wait |-> "bare"]>> \o Below ELSE Below
    /\ UNCHANGED <<program, slot, trace, exposed>>

(***************************************************************************)
(* A result, or an exception, reaches the innermost frame.                 *)
(***************************************************************************)
Receiving(kinds) == focus.do = "return" /\ pending # <<>> /\ Head(pending).wait \in kinds
Innermost == Head(pending)

Continue ==
    /\ Receiving({"bind", "stmt"})
    /\ focus' = Perform(Innermost.then,
                        IF Innermost.wait = "stmt" THEN Innermost.env
                        ELSE [value |-> focus.value, whnf |-> Innermost.whnf], "tail")
    /\ pending' = Tail(pending)
    /\ UNCHANGED <<program, slot, trace, exposed>>

(* The bookkeeping frame of a consuming closure; Lua has a tail call there.*)
BareResult ==
    /\ Receiving({"bare"})
    /\ pending' = Tail(pending)
    /\ exposed' = (exposed \/ (IsRaw(focus.value) /\
                    LET i == SelectInSeq(Tail(pending), LAMBDA f : f.wait \notin {"catch", "bare"})
                    IN i # 0 /\ Tail(pending)[i].wait = "run"))
    /\ UNCHANGED <<program, focus, slot, trace>>

Consume ==
    /\ Receiving({"unbox"})
    /\ focus' = Returned(Unbox(focus.value))
    /\ pending' = Tail(pending)
    /\ UNCHANGED <<program, slot, trace, exposed>>

RunResult ==
    /\ Receiving({"run"})
    /\ focus' = RunBy(focus.value, "consume")
    /\ pending' = Tail(pending)
    /\ UNCHANGED <<program, slot, trace, exposed>>

Apply ==
    /\ Receiving({"apply"})
    /\ focus' = RunBy(ActionValue(Innermost.fn, Lazy(focus.value)), "forward")
    /\ pending' = Tail(pending)
    /\ exposed' = (exposed \/ focus.value.is = "box")
    /\ UNCHANGED <<program, slot, trace>>

Handled ==
    /\ Receiving({"try", "catch"})
    /\ focus' = Returned(IF Innermost.wait = "try" THEN RightOf(focus.value) ELSE focus.value)
    /\ pending' = Tail(pending)
    /\ UNCHANGED <<program, slot, trace, exposed>>

Unwind ==
    /\ focus = Raise /\ pending # <<>>
    /\ focus' = CASE Innermost.wait = "try" -> Returned(LeftOf)
                  [] Innermost.wait = "catch" -> RunBy(ActionValue(Innermost.handler, Innermost.env), "forward")
                  [] OTHER -> Raise
    /\ pending' = Tail(pending)
    /\ UNCHANGED <<program, slot, trace, exposed>>

Ended == pending = <<>> /\ focus.do \in {"return", "raise"}
ActDone == Ended /\ UNCHANGED actVars

ActNext == \/ ChainBind \/ ChainSeq \/ ChainLet \/ ChainIf \/ Demand
        \/ PerformPure \/ PerformHost \/ PerformRead \/ PerformWrite
        \/ PerformCall \/ PerformRunner
        \/ RunBox \/ RunThunk \/ RunDatum \/ RunClosure
        \/ Continue \/ BareResult \/ Consume \/ RunResult \/ Apply \/ Handled
        \/ Unwind \/ ActDone

ActSpec == ActInit /\ [][ActNext]_actVars

(***************************************************************************)
(* Properties.                                                             *)
(***************************************************************************)
Positions == {"bind", "arg", "stmt", "tail"}

(* The types of the variables; a variable read without a force holds no    *)
(* thunk (action.rs 75-111).                                               *)
ActTypeOK ==
    /\ focus.do \in {"perform", "run", "return", "raise"}
    /\ focus.do = "perform" => /\ focus.pos \in Positions
                               /\ Env.whnf => ~IsRaw(Env.value)
    /\ focus.do = "run" => focus.runner \in {"consume", "forward"}
    /\ \A i \in DOMAIN pending :
          pending[i].wait \in {"bind", "stmt", "unbox", "run", "apply", "try", "catch", "bare"}
    /\ exposed \in BOOLEAN

(* A variable never holds a pending box: every consumer strips the one a   *)
(* result may carry, and there is never a second (runtime.lua 832-846).    *)
OneBoxAtMost ==
    ~exposed =>
        /\ focus.do = "perform" => Env.value.is # "box"
        /\ focus.do = "return" /\ focus.value.is = "box" => focus.value.of.is # "box"

(* A chain of tail calls runs in constant stack, however long it is and    *)
(* whichever of performer and builder it goes through (runtime.lua         *)
(* 837-842, action.rs 262-275).                                            *)
TailChainsFlat == Len(pending) > 2 => program.main \notin TailCalls
=============================================================================
