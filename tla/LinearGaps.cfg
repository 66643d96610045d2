SPECIFICATION LinearSpec
INVARIANTS
    AcceptedConsumesOnce
CHECK_DEADLOCK FALSE
