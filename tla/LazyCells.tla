------------------------------- MODULE LazyCells -------------------------------
(***************************************************************************)
(* Lazy lists in mllc/src/codegen/runtime.lua: cons cells, thunks and the  *)
(* protocol by which they memoize (__force, __mll_tail, __mll_tail_lazy).  *)
(*                                                                         *)
(* A cell is {head, tail}.  A cell whose tail still has to be computed     *)
(* holds a generator there and says in which form in its __lazy flag: true *)
(* for a closure ("fn"), 1 for a shared function with the values it        *)
(* captured ("gen").  __mll_tail runs the generator in place;              *)
(* __mll_tail_lazy moves it into a thunk without running it.               *)
(*                                                                         *)
(* Generators are program code: while one runs it reads tails, its own     *)
(* cell's among them (xs = 1 : go xs), forces thunks, and raises errors    *)
(* that unwind to a pcall anywhere below.  Generator c is the one the      *)
(* cell c was built with.  Heads are left out: they play no part in the    *)
(* protocol.                                                               *)
(***************************************************************************)
EXTENDS Integers, Sequences, FiniteSets, SequencesExt

CONSTANTS Cells,        \* bound: the cells a run may allocate
          Lists,        \* what lists a cell may stand for
          Rest,         \* the tail of each of them
          nil,          \* Lua's nil: [] and a cleared field
          MaxDepth      \* bound: generators running at once (the Lua stack)

ASSUME LazyCellsAssumption == nil \notin Cells \cup Lists /\ Rest \in [Lists -> Lists \cup {nil}]

VARIABLES cell,         \* the cells allocated: the list meant, __lazy, l[2]
          thunk,        \* the thunks __mll_tail_lazy made, by generator
          stack,        \* the runtime's activations, innermost last
          runs,         \* history: how often each generator returned, 2 for more
          again         \* history: generators read again while running

lazyVars == <<cell, thunk, stack, runs, again>>

-------------------------------------------------------------------------------

Forms == {"fn", "gen"}

\* What l[2] holds: a generator, a thunk, or a value (a cell or nil).
Generator(form, c) == [is |-> form, of |-> c]
Suspended(c) == [is |-> "thunk", of |-> c]
Value(v) == [is |-> "value", of |-> v]

NewCell(list, form, tail) == [list |-> list, lazy |-> form, tail |-> tail]

\* A thunk: its done flag, [1] as the generator or the value, and the form it
\* is called in; a carried thunk is "spent" once its captured slots are nil.
Suspension(c, form) == [done |-> FALSE, code |-> c, val |-> nil, form |-> form]
Evaluated(v) == [done |-> TRUE, code |-> nil, val |-> v, form |-> "spent"]

Put(f, x, y) == [z \in DOMAIN f \cup {x} |-> IF z = x THEN y ELSE f[z]]

\* The list a value or a tail stands for.
Meaning(v) == IF v = nil THEN nil ELSE cell[v].list
TailMeaning(tail) ==
    IF tail.is = "value" THEN Meaning(tail.of) ELSE Rest[cell[tail.of].list]

Running == {stack[i].c : i \in {j \in 1 .. Len(stack) : stack[j].at # "memo"}}
Push(frames) == Len(stack) < MaxDepth /\ stack' = stack \o frames
Top == Last(stack)

\* Program code runs: the main program's, or the innermost generator's.
Code == stack # <<>> => Top.at # "memo"

LazyInit ==
    /\ \E c \in Cells, list \in Lists, form \in Forms :
        /\ cell = [x \in {c} |-> NewCell(list, form, Generator(form, c))]
        /\ runs = [x \in {c} |-> 0]
    /\ thunk = [x \in {} |-> nil]
    /\ stack = <<>>
    /\ again = {}

-------------------------------------------------------------------------------
(* __mll_tail *)

\* A generator in the cell is run in place.
TailRuns(c) ==
    /\ Code
    /\ cell[c].lazy # "no"
    /\ Push(<<[at |-> "tail", c |-> c]>>)
    /\ again' = IF c \in Running THEN again \cup {c} ELSE again
    /\ UNCHANGED <<cell, thunk, runs>>

\* Mutant of TailForces: the done flag of the thunk is not looked at.
TailForcesUndone(c) ==
    /\ Code
    /\ cell[c].lazy = "no" /\ cell[c].tail.is = "thunk"
    /\ cell' = [cell EXCEPT ![c].tail = Value(thunk[cell[c].tail.of].val)]
    /\ UNCHANGED <<thunk, stack, runs, again>>

\* A thunk is forced first, then memoized.
TailForces(c) ==
    /\ Code
    /\ cell[c].lazy = "no" /\ cell[c].tail.is = "thunk"
    /\ LET x == cell[c].tail.of IN
        IF thunk[x].done
        THEN /\ cell' = [cell EXCEPT ![c].tail = Value(thunk[x].val)]
             /\ UNCHANGED <<stack, again>>
        ELSE /\ Push(<<[at |-> "memo", c |-> c, x |-> x], [at |-> "force", c |-> x]>>)
             /\ again' = IF x \in Running THEN again \cup {x} ELSE again
             /\ UNCHANGED cell
    /\ UNCHANGED <<thunk, runs>>

\* l[2] = t, for the thunk x that was in l[2] when the tail was read.
Memo ==
    /\ stack # <<>> /\ Top.at = "memo"
    /\ cell' = [cell EXCEPT ![Top.c].tail = Value(thunk[Top.x].val)]
    /\ stack' = Front(stack)
    /\ UNCHANGED <<thunk, runs, again>>

-------------------------------------------------------------------------------
(* __mll_tail_lazy *)

\* Mutant of TailLazy: the thunk is handed out but not stored in the cell, so
\* the cell keeps its own generator.
TailLazyUnshared(c) ==
    /\ Code
    /\ cell[c].lazy # "no"
    /\ thunk' = Put(thunk, c, Suspension(c, cell[c].lazy))
    /\ again' = IF c \in Running THEN again \cup {c} ELSE again
    /\ UNCHANGED <<cell, stack, runs>>

\* A generator in the cell is moved into a thunk; any other tail is handed
\* out as it is.
TailLazy(c) ==
    /\ Code
    /\ cell[c].lazy # "no"
    /\ thunk' = Put(thunk, c, Suspension(c, cell[c].lazy))
    /\ cell' = [cell EXCEPT ![c].lazy = "no", ![c].tail = Suspended(c)]
    /\ again' = IF c \in Running THEN again \cup {c} ELSE again
    /\ UNCHANGED <<stack, runs>>

-------------------------------------------------------------------------------
(* __force *)

\* A variable bound to a thunk is demanded.
VariableForces(x) ==
    /\ Code
    /\ ~thunk[x].done
    /\ Push(<<[at |-> "force", c |-> x]>>)
    /\ again' = IF x \in Running THEN again \cup {x} ELSE again
    /\ UNCHANGED <<cell, thunk, runs>>

-------------------------------------------------------------------------------
(* The generators *)

\* A new cell d for a list: its tail is a generator (__mll_lazy_cons and
\* __mll_lazy_consg) or a reference at hand (__mll_cons).
Fresh(d, list) ==
    {NewCell(list, form, Generator(form, d)) : form \in Forms}
    \cup {NewCell(list, "no", ref) :
            ref \in {r \in {Value(v) : v \in DOMAIN cell \cup {nil}}
                           \cup {Suspended(x) : x \in DOMAIN thunk} :
                        TailMeaning(r) = Rest[list]}}

\* The generator returns v to the frame that runs it.
Deliver(cells, v) ==
    LET c == Top.c IN
    /\ IF Top.at = "tail"
       THEN /\ cell' = [cells EXCEPT ![c].lazy = "no", ![c].tail = Value(v)]
            /\ UNCHANGED thunk
       ELSE /\ thunk' = [thunk EXCEPT ![c] = Evaluated(v)]
            /\ cell' = cells
    /\ runs' = [x \in DOMAIN cells |->
                    IF x \notin DOMAIN cell THEN 0
                    ELSE IF x = c THEN IF runs[c] = 0 THEN 1 ELSE 2 ELSE runs[x]]
    /\ stack' = Front(stack)
    /\ UNCHANGED again

\* What a generator hands back is nil, a cell at hand or a new one, never a
\* thunk (the WHNF-return invariant, runtime.lua 139-151).
ReturnKnown ==
    /\ Code /\ stack # <<>>
    /\ \E v \in DOMAIN cell \cup {nil} :
        /\ Meaning(v) = Rest[cell[Top.c].list]
        /\ Deliver(cell, v)

ReturnFresh ==
    /\ Code /\ stack # <<>>
    /\ Rest[cell[Top.c].list] # nil
    /\ \E d \in Cells \ DOMAIN cell :
        \E new \in Fresh(d, Rest[cell[Top.c].list]) : Deliver(Put(cell, d, new), d)

\* An error unwinds to a pcall outside some of the activations; so does the
\* overflow of the Lua stack, when a generator demands its own result.
GeneratorRaises ==
    /\ \E i \in {j \in 1 .. Len(stack) : j > 1 => stack[j - 1].at # "memo"} :
        stack' = SubSeq(stack, 1, i - 1)
    /\ UNCHANGED <<cell, thunk, runs, again>>

Reads ==
    \/ \E c \in DOMAIN cell : TailRuns(c) \/ TailForces(c) \/ TailLazy(c)
    \/ \E x \in DOMAIN thunk : VariableForces(x)

LazyNext == Reads \/ Memo \/ ReturnKnown \/ ReturnFresh \/ GeneratorRaises

LazySpec == LazyInit /\ [][LazyNext]_lazyVars

-------------------------------------------------------------------------------
(* Properties *)

\* The fields hold what the readers take them for: tails and thunk values
\* refer to what has been allocated.
LazyTypeOK ==
    /\ DOMAIN cell \subseteq Cells /\ DOMAIN thunk \subseteq DOMAIN cell
    /\ DOMAIN runs = DOMAIN cell /\ again \subseteq DOMAIN cell
    /\ \A c \in DOMAIN cell :
        /\ cell[c].list \in Lists /\ cell[c].lazy \in Forms \cup {"no"}
        /\ cell[c].tail.is = "value" => cell[c].tail.of \in DOMAIN cell \cup {nil}
        /\ cell[c].tail.is = "thunk" => cell[c].tail.of \in DOMAIN thunk
    /\ \A i \in 1 .. Len(stack) : stack[i].at = "force" => stack[i].c \in DOMAIN thunk

\* Memoization keeps the meaning of every list, whoever finishes last: a tail
\* that was written back is the rest of its list, one that was not is still the
\* generator its flag promises, and a thunk is evaluated to the rest of its list
\* or, when its force raised, still holds what its generator takes.
MeaningKept ==
    /\ \A c \in DOMAIN cell :
        IF cell[c].lazy = "no"
        THEN cell[c].tail.is \notin Forms /\ TailMeaning(cell[c].tail) = Rest[cell[c].list]
        ELSE cell[c].tail = Generator(cell[c].lazy, c)
    /\ \A x \in DOMAIN thunk :
        IF thunk[x].done
        THEN Meaning(thunk[x].val) = Rest[cell[x].list]
        ELSE thunk[x].code = x /\ thunk[x].form \in Forms

\* A generator that no running code reads again returns at most once: its
\* work is shared by every reader of the tail.
SharedUnlessReentered ==
    \A c \in DOMAIN cell : runs[c] > 1 => c \in again
===============================================================================
