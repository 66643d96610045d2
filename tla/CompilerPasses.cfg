SPECIFICATION PassesSpec
CONSTANTS
    A = A
    B = B
    Main = Main
    Main1 = Main1
    Root = Root
    none = none
    Mods <- MCMods
    ImportLists <- MCImportLists
    Flaws <- MCFlaws
    PrefixNames <- MCPrefixes
    SpecLimit = 1
    Programs <- MCPrograms
    MainFn = "main"
INVARIANTS
    StackIsPath
    RegionsOrdered
    FixitiesKnown
    PrefixFresh
    CopiesTyped
    CopiesBounded
    OneDefinition
    NamesLead
    NamedCallsServed
PROPERTIES
    ImplementsProgramOrder
    PassEnds
CHECK_DEADLOCK FALSE
