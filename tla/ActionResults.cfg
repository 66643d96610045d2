SPECIFICATION ActionSpec
INVARIANTS
    AsInHaskell
CHECK_DEADLOCK FALSE
