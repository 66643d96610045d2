----------------------------- MODULE MCKnownGaps -----------------------------
(***************************************************************************)
(* Where parts of the system are known not to do what their comments say,  *)
(* for TLC: each configuration runs one part on the programs that show it, *)
(* while the variables of the others stay idle.                            *)
(***************************************************************************)
EXTENDS Integers, Sequences

VARIABLES program, focus, pending, slot, trace, exposed,
          definition, verdict, gap, used,
          functions, rows, settled, outcome

actVars == <<program, focus, pending, slot, trace, exposed>>
linVars == <<definition, verdict, gap, used>>
demVars == <<functions, rows, settled, outcome>>
gapVars == <<actVars, linVars, demVars>>

(* `x <- f; emit`: the result of a performer whose last statement reads    *)
(* the IORef is bound and never looked at.                                 *)
Emit == [is |-> "emit"]
EmitThen(a) == [is |-> "seq", of |-> Emit, then |-> a]
Performer(a) == [is |-> "call", fn |-> "performer", body |-> a]
ReadLast == EmitThen([is |-> "read"])
Stored == {[is |-> "datum"], [is |-> "bottom"], [is |-> "action", of |-> Emit]}

Bodies == {ReadLast, EmitThen(Performer(ReadLast))}
BoundTo(a) == [is |-> "bind", of |-> Performer(a), then |-> Emit]

ReadPrograms == [main : {BoundTo(a) : a \in Bodies}, cell : Stored]
ReadParts == UNION {{BoundTo(a), Performer(a), a} : a \in Bodies} \cup {Emit, [is |-> "read"]}

Acts == INSTANCE ActionMeaning WITH
    Programs <- ReadPrograms, Terms <- ReadParts, TailCalls <- {}

(* Linear arguments handed to local functions that use them on one path.   *)
Linear == INSTANCE LinearPrograms
Lin == INSTANCE LinearUsage WITH Programs <- Linear!OnePathLocals

(* Where functions under a parameter with the name of a function.          *)
Strict == INSTANCE StrictnessModules
Dem == INSTANCE Strictness WITH Modules <- Strict!Hidden, result <- outcome

NoActs == /\ program = <<>> /\ focus = <<>> /\ pending = <<>> /\ slot = <<>>
          /\ trace = <<>> /\ exposed = FALSE
NoLin == definition = <<>> /\ verdict = "" /\ gap = FALSE /\ used = <<>>
NoDem == functions = <<>> /\ rows = <<>> /\ settled = FALSE /\ outcome = ""

ActionSpec ==
    /\ Acts!ActInit /\ NoLin /\ NoDem
    /\ [][Acts!ActNext /\ UNCHANGED <<linVars, demVars>>]_gapVars

LinearSpec ==
    /\ Lin!Init /\ NoActs /\ NoDem
    /\ [][Lin!Next /\ UNCHANGED <<actVars, demVars>>]_gapVars

DemandSpec ==
    /\ Dem!Init /\ NoActs /\ NoLin
    /\ [][Dem!Next /\ UNCHANGED <<actVars, linVars>>]_gapVars

(***************************************************************************)
(* What the comments say, as stated in the modules.                        *)
(***************************************************************************)

(* A compiled action does what the source action means, whatever its       *)
(* terminal hands to the runner (runtime.lua 851-853).                     *)
AsInHaskell == Acts!AsInHaskell

(* An accepted definition consumes its `%1` argument exactly once on every *)
(* path (usage.rs 1770-1772).                                              *)
AcceptedConsumesOnce == Lin!AcceptedConsumesOnce

(* A parameter judged strict is forced on every path (demand.rs 486-489).  *)
StrictIsForced == Dem!StrictIsForced
===============================================================================
