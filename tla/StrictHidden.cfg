SPECIFICATION DemandSpec
INVARIANTS
    StrictIsForced
CHECK_DEADLOCK FALSE
