SPECIFICATION Spec
CONSTANTS
    A = A
    B = B
    Main = Main
    f = f
    T = T
    C = C
    Std = Std
    Prefix = Prefix
    none = none
    Prelude = Std
    RootPrefix = Prefix
    Names <- MCNames
    Aliases = {A}
    Order <- MCOrder
    Worlds <- PrivateWorlds
    bare = bare
    full = full
    same = same
    Claimed = {f}
INVARIANTS
    NoCapture
CHECK_DEADLOCK FALSE
