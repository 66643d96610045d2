---------------------------- MODULE ActionMeaning ----------------------------
(***************************************************************************)
(* What an action means in Haskell, and that its compiled code does it:    *)
(* the reference for ActionRunners, by recursion over the action.          *)
(***************************************************************************)
EXTENDS ActionRunners

(***************************************************************************)
(* The meaning of an action is the state after it.                         *)
(* A result is data, a suspended bottom, or an action with its variable.   *)
(***************************************************************************)
SuspendedAction(a, x) == [is |-> "action", act |-> a, x |-> x]
PayloadMeans(p, x) ==
    CASE p.is = "x" -> x
      [] p.is = "action" -> IF p.of.is = "run" THEN x ELSE SuspendedAction(p.of, x)
      [] OTHER -> p

Gives(s, v) == [s EXCEPT !.result = v]
Shows(s, t) == [s EXCEPT !.result = Datum, !.trace = Append(@, t)]
Fails(s) == [s EXCEPT !.raised = TRUE]
Caught(s) == [s EXCEPT !.raised = FALSE]

RECURSIVE Means(_, _, _)
Means(a, x, s) ==
    LET first == Means(a.of, x, s) IN
    CASE a.is = "pure" -> Gives(s, PayloadMeans(a.of, x))
      [] a.is = "emit" -> Shows(s, "effect")
      [] a.is \in {"fail", "error"} -> Fails(s)
      [] a.is = "read" -> Gives(s, s.cell)
      [] a.is = "write" -> [Gives(s, Datum) EXCEPT !.cell = PayloadMeans(a.of, x)]
      [] a.is = "demand" -> IF Forced(x) = Bottom THEN Fails(s) ELSE Shows(s, "shown")
      [] a.is = "run" -> Means(x.act, x.x, s)
      [] a.is = "call" -> Means(a.body, x, s)
      [] a.is = "if" -> first
      [] a.is = "bind" -> IF first.raised THEN first ELSE Means(a.then, first.result, first)
      [] a.is = "seq" -> IF first.raised THEN first ELSE Means(a.then, x, first)
      [] a.is = "let" -> Means(a.then, SuspendedAction(a.of, x), s)
      [] a.is = "bindf" -> IF first.raised THEN first ELSE Means(a.fn, first.result, first)
      [] a.is = "try" -> IF first.raised THEN Gives(Caught(first), LeftOf)
                         ELSE Gives(first, RightOf(first.result))
      [] a.is = "catch" -> IF first.raised THEN Means(a.handler, x, Caught(first)) ELSE first

Haskell ==
    Means(program.main, Datum,
          [cell |-> PayloadMeans(program.cell, Datum), result |-> Datum, trace |-> <<>>, raised |-> FALSE])

(* A run-time value stands for a meaning.                                  *)
StandsFor(v, m) ==
    CASE v.is \in {"closure", "later"} -> m.is = "action"
      [] v.is = "right" -> m.is = "right" /\ ((v.of.is \in {"closure", "later"}) = (m.of.is = "action"))
      [] OTHER -> v = m

(* The compiled action does what the action means: the same effects in the *)
(* same order, the same exception or none, the same result, no suspended   *)
(* payload forced and no action-valued payload run before it is asked for. *)
AsInHaskell ==
    Ended =>
        /\ trace = Haskell.trace
        /\ (focus = Raise) = Haskell.raised
        /\ focus # Raise => StandsFor(focus.value, Haskell.result)

(* ... wherever no terminal exposed a raw result; no variable holds a      *)
(* pending box, no box another (action.rs 276-460, runtime.lua 829-905,    *)
(* 2265-2318).                                                             *)
AsInHaskellUnlessExposed == (~exposed => AsInHaskell) /\ OneBoxAtMost
=============================================================================
