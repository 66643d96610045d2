--------------------------- MODULE MCStuckFamilies ---------------------------
(* A type family that tells lists from other types, for TLC. *)
EXTENDS UnificationProblems

VARIABLES match, todo, solved, subst, givens, dropped, status

Uni == INSTANCE Unification WITH
    Problems <- ListFamily, Injective <- {}, Closed <- ClosedTypes, Rigids <- RigidIds,
    Mults <- {P, Q}, RigidMults <- {W}

Spec == Uni!Spec

\* A type means what it is reduced to, whatever its variables turn out to be
\* (types.rs 1181-1190).
ReductionKeepsMeaning == Uni!ReductionKeepsMeaning
===============================================================================
