---------------------------- MODULE MCHashMapStore ----------------------------
(***************************************************************************)
(* HashMapStore and StructuralKeys on one small heap.  A behaviour uses    *)
(* scalar keys, or structural keys in a heap whose values are only those   *)
(* Lua represents as nil; the reads of the other kind stay idle.           *)
(***************************************************************************)
EXTENDS StructuralKeys, TLC

\* Map values other than hmEmpty, tables and keys are interchangeable.
Symmetry ==
    Permutations(Handles \ {Empty}) \cup Permutations(Stores) \cup Permutations(Keys)

VARIABLE part           \* the kind of keys the program's maps have

\* Bound: no operation on structural keys writes a value of Vals.
Valueless ==
    /\ call.v \notin Vals
    /\ call.op = "fromList" => \A k \in Keys : call.v[k] \notin Vals

MCInit == SInit /\ part \in {"scalar", "structural"}

MCNext ==
    \/ part = "scalar" /\ Next /\ UNCHANGED <<part, reads, got>>
    \/ part = "structural" /\ SNext /\ Valueless' /\ UNCHANGED part

MCSpec == MCInit /\ [][MCNext]_<<part, svars>>
===============================================================================
