SPECIFICATION EmittedSpec
CONSTANTS
    Handles = {hE, h1, h2, h3}
    Stores = {s0, s1, s2, s3}
    Keys = {k1}
    Vals = {}
    Empty = hE
    nil = nil
    nilv = nilv
    absent = absent
    CapBase = 1
    MaxShows = 1
INVARIANTS
    EmittedMeaningKept
    SettledWithinHostLimits
PROPERTIES
    OperationsReturn
CHECK_DEADLOCK FALSE
