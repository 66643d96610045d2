SPECIFICATION Spec
INVARIANTS
    ReductionKeepsMeaning
CHECK_DEADLOCK FALSE
