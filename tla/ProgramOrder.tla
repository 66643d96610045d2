----------------------------- MODULE ProgramOrder -----------------------------
(***************************************************************************)
(* What import resolution promises (mllc/src/modules.rs 6-15 and the cycle *)
(* message at 468-476): a program is one list of modules in which every    *)
(* module comes once and after the modules it imports, or it is rejected,  *)
(* and then for a reason.                                                  *)
(***************************************************************************)
EXTENDS Integers, Sequences, SequencesExt, Functions

CONSTANTS Mods,         \* the modules that may be imported
          Root          \* the entry module

VARIABLES imports,      \* what each module imports, in order
          flaw,         \* what is wrong with each module, if anything
          status,       \* "running", "done", or why the program is rejected
          program       \* the modules in the order they are compiled

Imports(a, b) == b \in ToSet(imports[a])

\* r lists its last module's import closure, dependencies first, each once.
Ordered(r) ==
    /\ IsInjective(r)
    /\ \A i \in DOMAIN r : \A c \in ToSet(imports[r[i]]) : \E j \in 1 .. i - 1 : r[j] = c
    /\ \A i \in 1 .. Len(r) - 1 : \E j \in i + 1 .. Len(r) : Imports(r[j], r[i])

\* Some modules all import one of themselves.
Cyclic == \E S \in SUBSET Mods : S # {} /\ \A m \in S : \E c \in S : Imports(m, c)

Init == status = "running" /\ program = <<>>

Compile ==
    /\ status = "running" /\ status' = "done"
    /\ program' # <<>> /\ Last(program') = Root
    /\ Ordered(program')
    /\ \A i \in DOMAIN program' : flaw[program'[i]] = "none"

Reject ==
    /\ status = "running"
    /\ \/ status' = "cycle" /\ Cyclic
       \/ status' = "import" /\ \E m \in Mods \cup {Root} : flaw[m] # "none"
       \/ status' = "syntax" /\ flaw[Root] = "syntax"
    /\ UNCHANGED program

Next == (Compile \/ Reject) /\ UNCHANGED <<imports, flaw>>

Spec == Init /\ [][Next]_<<imports, flaw, status, program>>
===============================================================================
