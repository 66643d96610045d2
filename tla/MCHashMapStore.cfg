SPECIFICATION MCSpec
CONSTANTS
    Handles = {hE, h1, h2, h3}
    Stores = {s0, s1, s2, s3}
    Keys = {k1, k2}
    Vals = {a}
    Empty = hE
    nil = nil
    nilv = nilv
    absent = absent
    CapBase = 1
    MaxShows = 1
    MaxReads = 2
SYMMETRY Symmetry
INVARIANTS
    Consistent
    OneRootPerStore
    AnswersFaithful
PROPERTIES
    ImplementsPersistentMaps
    AnswersUnlessRerooted
    AnswersTableOwner
