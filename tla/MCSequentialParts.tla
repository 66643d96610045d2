--------------------------- MODULE MCSequentialParts ---------------------------
(***************************************************************************)
(* The parts of the system that share no state with any other, for TLC:    *)
(* a behaviour runs one of them, and the variables of the rest stay idle.  *)
(***************************************************************************)
EXTENDS Integers, Sequences, TLC, NanKeys, LazyCells, BigIntegers, Fixity,
        ActionMeaning

(* Integers in base 5, shown in base 2 two digits at a time, machine       *)
(* integers of 6 bits.  The dividends reach four limbs, the divisors       *)
(* three; the add-back of the long division is rare, hence the range.      *)
BigDividends == {-629, -126, -125, -24, -7, -1} \cup (0..7) \cup {24, 25, 26}
                \cup {124 + 3 * k : k \in 0..170}
BigOperands == {-126, -26, -3} \cup (0..6) \cup (24..70) \cup (120..130)

CONSTANTS mE, m4, k1, k2, knot, two, one

(* Cells name cons cells in one part and maps in another; they are         *)
(* interchangeable in both.                                                *)
Symmetry == Permutations(Cells)
MapNames == {mE, m4} \cup Cells
PlainKeys == {k1, k2}

(* Lists: knot = h : knot (defined by itself), two = [a, b], one = [b].    *)
Meanings == {knot, two, one}
Tails == (knot :> knot) @@ (two :> one) @@ (one :> nil)

(***************************************************************************)
(* Actions: every program `x <- m; use x` where m is two constructs deep   *)
(* and wrapped once more, over a cell that holds data or an action, and    *)
(* chains of up to six tail calls.                                         *)
(***************************************************************************)
Data == {[is |-> "datum"], [is |-> "bottom"]}
Emit == [is |-> "emit"]
ReadCell == [is |-> "read"]
Show == [is |-> "demand"]
RunX == [is |-> "run"]
TheX == [is |-> "x"]
Pure(p) == [is |-> "pure", of |-> p]
Write(p) == [is |-> "write", of |-> p]
ActionOf(a) == [is |-> "action", of |-> a]
BindTo(m, k) == [is |-> "bind", of |-> m, then |-> k]
Sequence(m, k) == [is |-> "seq", of |-> m, then |-> k]
LetBe(m, k) == [is |-> "let", of |-> m, then |-> k]
Branch(m) == [is |-> "if", of |-> m]
Call(f, b) == [is |-> "call", fn |-> f, body |-> b, of |-> b]
Try(m) == [is |-> "try", of |-> m]
Catch(m) == [is |-> "catch", of |-> m, handler |-> Emit]
BindFunction(m, f) == [is |-> "bindf", of |-> m, fn |-> f]

Types == {"data", "action"}       \* of a result, or of what the cell holds
Functions == {"performer", "builder"}
PayloadsOf(t) ==
    IF t = "data" THEN Data ELSE {ActionOf(Emit), ActionOf(Pure([is |-> "bottom"]))}

Leaves(t, c) ==
    {Pure(p) : p \in PayloadsOf(t)}
    \cup (IF t = c THEN {ReadCell} ELSE {})
    \cup (IF t = "data" THEN {Emit, [is |-> "fail"], [is |-> "error"]} \cup {Write(p) : p \in PayloadsOf(c)}
                        ELSE {})

(* What is made of a variable of type vt, for a result of type t.           *)
UsesOf(vt, t) ==
    CASE t = "action" -> IF vt = "action" THEN {Pure(TheX)} ELSE {}
      [] t = "data" /\ vt = "data" -> {Show, Pure(TheX)}
      [] t = "data" /\ vt = "action" ->
            {RunX, Sequence(RunX, RunX), Call("performer", Sequence(Emit, RunX))}

Two(t, c) ==
    {Sequence(m, k) : m \in Leaves("data", c), k \in Leaves(t, c)}
    \cup UNION {{BindTo(m, k) : m \in Leaves(vt, c), k \in UsesOf(vt, t)} : vt \in Types}
    \cup UNION {{BindFunction(m, k) : m \in Leaves(vt, c), k \in UsesOf(vt, t)} : vt \in Types}
    \cup {LetBe(m, k) : m \in Leaves("data", c), k \in UsesOf("action", t)}
    \cup {Branch(m) : m \in {l \in Leaves(t, c) : l.is # "error"}}
    \cup {Call(f, m) : f \in Functions, m \in Leaves(t, c)}
    \cup (IF t = "data" THEN {Try(m) : m \in Leaves("data", c)} \cup {Catch(m) : m \in Leaves("data", c)}
                        ELSE {})

Three(t, c) ==
    Two(t, c)
    \cup {Call(f, m) : f \in Functions, m \in Two(t, c)}
    \cup {Branch(m) : m \in {s \in Two(t, c) : s.is # "if"}}
    \cup {Sequence(Emit, m) : m \in Two(t, c)}
    \cup (IF t = "data" THEN {LetBe(m, k) : m \in Two(t, c), k \in UsesOf("action", t)} ELSE {})

Chain(f, n) ==
    LET link[i \in 0..n] == IF i = 0 THEN Pure([is |-> "bottom"])
                            ELSE Sequence(Emit, Call(f, link[i - 1]))
    IN Call(f, link[n])

Chains6 == {Chain(f, n) : f \in Functions, n \in 1..6}

MainsOver(c) == UNION {{BindTo(m, k) : m \in Three(vt, c), k \in UsesOf(vt, "data")} : vt \in Types}

ActionPrograms ==
    UNION {[main : MainsOver(c), cell : IF c = "data" THEN Data ELSE {ActionOf(Emit)}] : c \in Types}
    \cup [main : Chains6, cell : Data]

(* The actions they are made of.                                           *)
ChainParts ==
    UNION {{Chain(f, n), Chain(f, n).body, Sequence(Emit, Chain(f, n))} : f \in Functions, n \in 0..6}

ProgramParts ==
    UNION {MainsOver(c) : c \in Types}
    \cup UNION {Three(t, c) \cup Leaves(t, c) : t \in Types, c \in Types}
    \cup UNION {UsesOf(vt, t) : vt \in Types, t \in Types}
    \cup {Emit, RunX, Sequence(Emit, RunX)} \cup ChainParts

(***************************************************************************)
(* The parts.                                                              *)
(***************************************************************************)
VARIABLES part,
          definition, verdict, gap, used,
          functions, rows, settled, outcome,
          tokens, mll, haskell,
          ematch, etodo, esolved, esubst, egivens, edropped, estatus

linVars == <<definition, verdict, gap, used>>
demVars == <<functions, rows, settled, outcome>>
layVars == <<tokens, mll, haskell>>
eqVars == <<ematch, etodo, esolved, esubst, egivens, edropped, estatus>>

Linear == INSTANCE LinearPrograms
Lin == INSTANCE LinearUsage WITH Programs <- Linear!Definitions

Strict == INSTANCE StrictnessModules
Dem == INSTANCE Strictness WITH Modules <- Strict!Ordinary, result <- outcome

Text == INSTANCE LayoutPrograms
Lay == INSTANCE Layout WITH Programs <- Text!Texts

Eqs == INSTANCE UnificationProblems
Uni == INSTANCE Unification WITH
    Problems <- Eqs!Ordinary, Families <- Eqs!Families, Injective <- {"Swap"},
    Closed <- Eqs!ClosedTypes, Rigids <- Eqs!RigidIds, Mults <- {41, 42}, RigidMults <- {49},
    match <- ematch, todo <- etodo, solved <- esolved, subst <- esubst, givens <- egivens,
    dropped <- edropped, status <- estatus

NoNan == maps = <<>> /\ nan_seq = 0 /\ inserts = <<>>
NoBig == /\ op = "" /\ x = 0 /\ y = 0 /\ phase = "" /\ u = <<>> /\ v = <<>> /\ d = 0
         /\ j = 0 /\ qhat = 0 /\ rhat = 0 /\ q = <<>> /\ result = <<>>
NoActs == /\ program = [main |-> Emit] /\ focus = [do |-> "idle"] /\ pending = <<>> /\ slot = <<>>
          /\ trace = <<>> /\ exposed = FALSE
NoLazy == cell = <<>> /\ thunk = <<>> /\ stack = <<>> /\ runs = <<>> /\ again = {}
NoLin == definition = <<>> /\ verdict = "" /\ gap = FALSE /\ used = <<>>
NoDem == functions = <<>> /\ rows = <<>> /\ settled = FALSE /\ outcome = ""
NoFix == /\ chain = <<>> /\ use = <<>> /\ nextOp = 0 /\ operand = 0 /\ frames = <<>>
         /\ nodes = {} /\ status = ""
NoLay == tokens = <<>> /\ mll = <<>> /\ haskell = <<>>
NoUni == /\ ematch = FALSE /\ etodo = <<>> /\ esolved = <<>> /\ esubst = <<>> /\ egivens = <<>>
         /\ edropped = FALSE /\ estatus = ""

PartsInit ==
        \/ part = "nan" /\ NanInit /\ NoBig /\ NoActs /\ NoLazy /\ NoLin /\ NoDem /\ NoFix /\ NoLay /\ NoUni
        \/ part = "big" /\ IntInit /\ NoNan /\ NoActs /\ NoLazy /\ NoLin /\ NoDem /\ NoFix /\ NoLay /\ NoUni
        \/ part = "acts" /\ ActInit /\ NoNan /\ NoBig /\ NoLazy /\ NoLin /\ NoDem /\ NoFix /\ NoLay /\ NoUni
        \/ part = "lazy" /\ LazyInit /\ NoNan /\ NoBig /\ NoActs /\ NoLin /\ NoDem /\ NoFix /\ NoLay /\ NoUni
        \/ part = "lin" /\ Lin!Init /\ NoNan /\ NoBig /\ NoActs /\ NoLazy /\ NoDem /\ NoFix /\ NoLay /\ NoUni
        \/ part = "dem" /\ Dem!Init /\ NoNan /\ NoBig /\ NoActs /\ NoLazy /\ NoLin /\ NoFix /\ NoLay /\ NoUni
        \/ part = "fix" /\ FixInit /\ NoNan /\ NoBig /\ NoActs /\ NoLazy /\ NoLin /\ NoDem /\ NoLay /\ NoUni
        \/ part = "lay" /\ Lay!Init /\ NoNan /\ NoBig /\ NoActs /\ NoLazy /\ NoLin /\ NoDem /\ NoFix /\ NoUni
        \/ part = "uni" /\ Uni!Init /\ NoNan /\ NoBig /\ NoActs /\ NoLazy /\ NoLin /\ NoDem /\ NoFix /\ NoLay

PartsNext ==
        \/ part = "nan" /\ NanNext /\ UNCHANGED <<part, intVars, actVars, lazyVars, linVars, demVars, fixVars, layVars, eqVars>>
        \/ part = "big" /\ IntNext /\ UNCHANGED <<part, nanVars, actVars, lazyVars, linVars, demVars, fixVars, layVars, eqVars>>
        \/ part = "acts" /\ ActNext /\ UNCHANGED <<part, nanVars, intVars, lazyVars, linVars, demVars, fixVars, layVars, eqVars>>
        \/ part = "lazy" /\ LazyNext /\ UNCHANGED <<part, nanVars, intVars, actVars, linVars, demVars, fixVars, layVars, eqVars>>
        \/ part = "lin" /\ Lin!Next /\ UNCHANGED <<part, nanVars, intVars, actVars, lazyVars, demVars, fixVars, layVars, eqVars>>
        \/ part = "dem" /\ Dem!Next /\ UNCHANGED <<part, nanVars, intVars, actVars, lazyVars, linVars, fixVars, layVars, eqVars>>
        \/ part = "fix" /\ FixNext /\ UNCHANGED <<part, nanVars, intVars, actVars, lazyVars, linVars, demVars, layVars, eqVars>>
        \/ part = "lay" /\ Lay!Next /\ UNCHANGED <<part, nanVars, intVars, actVars, lazyVars, linVars, demVars, fixVars, eqVars>>
        \/ part = "uni" /\ Uni!Next /\ UNCHANGED <<part, nanVars, intVars, actVars, lazyVars, linVars, demVars, fixVars, layVars>>

PartsSpec == PartsInit /\ [][PartsNext]_<<part, nanVars, intVars, actVars, lazyVars, linVars, demVars, fixVars, layVars, eqVars>>

(***************************************************************************)
(* The properties of each part, as stated in its module.                   *)
(***************************************************************************)

(* Types of each part's state; for the actions, that a variable read       *)
(* without a force holds no thunk (action.rs 75-111); for the layouts,     *)
(* that the groups nest (parser.rs 574-641); for the equations, that no    *)
(* rigid variable is bound and the givens are resolved (types.rs 1457).    *)
TypesOK == CASE part = "nan" -> NanTypeOK
             [] part = "big" -> IntTypeOK
             [] part = "acts" -> ActTypeOK
             [] part = "lazy" -> LazyTypeOK
             [] part = "lin" -> Lin!TypeOK
             [] part = "dem" -> Dem!TypeOK
             [] part = "fix" -> FixTypeOK
             [] part = "lay" -> Lay!TypeOK
             [] part = "uni" -> Uni!TypeOK

(* A definition the usage checker accepts consumes its `%1` argument       *)
(* exactly once on every path, wherever the walk follows what it accepts   *)
(* (usage.rs 566-615, 621-672, 1243-1336, 1363-1497, 1575-1744).           *)
ConsumesOnceUnlessGap == part = "lin" => Lin!ConsumesOnceUnlessGap

(* A parameter the demand analysis calls strict is forced on every path,   *)
(* unless a where function calls by a name that hides a global one         *)
(* (demand.rs 486-489).                                                    *)
StrictIsForcedUnlessHidden == part = "dem" => Dem!StrictIsForcedUnlessHidden

(* From all strict the rows only go down, so that the analysis ends        *)
(* (demand.rs 502-504).                                                    *)
RowsOnlyShrink == Dem!RowsOnlyShrink

(* Where the parser and the layout rule of Haskell both accept a program,  *)
(* they group it alike, and a layout Haskell accepts is refused at certain *)
(* tokens only (parser.rs 562-641, 2111-2124, 3087-3127, 3232-3268, 4002,  *)
(* 4122-4138).                                                             *)
LaidOutAsHaskellUnlessGap ==
    part = "lay" => Lay!GroupedAsHaskellUnlessGap /\ Lay!AcceptsHaskellUnlessGap

(* Equations between types that were solved hold, and those refused have   *)
(* no solution, but where a family is reduced blindly or is stuck and      *)
(* where a match dropped one (types.rs 1181-1302, 1423-1479, 1519-1745).   *)
SolvedIfAndOnlyIfSolvable == part = "uni" => Uni!SolvedUnlessBlind /\ Uni!RefusedUnlessStuck

(* Inference commits to no more than the equations force, as long as the   *)
(* families are injective (types.rs 1519-1745).                            *)
MostGeneralIfInjective == part = "uni" => Uni!MostGeneralIfInjective
=============================================================================
