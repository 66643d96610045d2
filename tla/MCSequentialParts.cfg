SPECIFICATION PartsSpec
CONSTANTS
    mE = mE
    m4 = m4
    k1 = k1
    k2 = k2
    nan = nan
    nil = nil
    knot = knot
    two = two
    one = one
    Maps <- MapNames
    EmptyMap = mE
    OrdinaryKeys <- PlainKeys
    MaxWidth = 2
    MaxNested = 2
    MaxSeq = 4
    Cells = {t1, t2, t3}
    Lists <- Meanings
    Rest <- Tails
    MaxDepth = 3
    Base = 5
    Radix = 2
    GroupDigits = 2
    FastProduct = 60
    IntWidth = 6
    Dividends <- BigDividends
    Operands <- BigOperands
    Programs <- ActionPrograms
    Terms <- ProgramParts
    TailCalls <- ChainParts
    Assocs = {"left", "right", "none"}
    Precs = {5, 6, 7}
    MaxOps = 3
    MaxNesting = 2
SYMMETRY Symmetry
INVARIANTS
    TypesOK
    NanInOrder
    ArithmeticExact
    AsInHaskellUnlessExposed
    TailChainsFlat
    MeaningKept
    SharedUnlessReentered
    ConsumesOnceUnlessGap
    StrictIsForcedUnlessHidden
    GroupedAsHaskell
    LaidOutAsHaskellUnlessGap
    SolvedIfAndOnlyIfSolvable
    MostGeneralIfInjective
PROPERTIES
    RowsOnlyShrink
CHECK_DEADLOCK FALSE
