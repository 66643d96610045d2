------------------------------- MODULE Fixity -------------------------------
(***************************************************************************)
(* Grouping of infix chains (mllc/src/fixity.rs), driven by module         *)
(* resolution (modules.rs 2338-2388), which hands over a flat chain with   *)
(* the fixity of the entity every operator denotes.                        *)
(*                                                                         *)
(* A chain has operands 1..n+1, operator i standing between operands i and *)
(* i+1; an operand may carry a prefix minus.  Expressions are not built: a *)
(* node is the interval of operands it covers, so a grouping is a set of   *)
(* nodes, one per operator and per minus.  Native recursion (infix, prefix *)
(* and continue_infix calling each other) is a stack of frames.            *)
(***************************************************************************)
EXTENDS Integers, Sequences, FiniteSets

CONSTANTS Assocs,      \* {"left", "right", "none"}
          Precs,       \* precedences in play, within 0..9
          MaxOps,      \* operators of a chain, its section operator included
          MaxNesting   \* crate::MAX_NESTING_DEPTH

FixityAssumption ==
    /\ Assocs \subseteq {"left", "right", "none"}
    /\ Precs \subseteq 0..9
    /\ MaxOps \in Nat /\ MaxNesting \in Nat
ASSUME FixityAssumption

Fixities == [assoc : Assocs, prec : Precs]

Chains(n) == [ops : [1..n -> Fixities], neg : [1..(n + 1) -> BOOLEAN]]

(* What a chain is used as: an expression, or the operand of a section.    *)
Uses(n) == [side : {"expr"}]
           \cup IF n < MaxOps THEN [side : {"left", "right"}, op : Fixities] ELSE {}

VARIABLES
    chain,     \* the flat chain
    use,       \* what it is used as
    nextOp,    \* index of the next operator not yet taken by any level
    operand,   \* index of the next operand not yet read
    frames,    \* activations of prefix / continue_infix, innermost first
    nodes,     \* the nodes built so far
    status     \* "start", "prefix", "continue", "grouped", "accepted" or an error

fixVars == <<chain, use, nextOp, operand, frames, nodes, status>>

N == Len(chain.ops)

(***************************************************************************)
(* fixity.rs 99-114.  A fixity as binding powers, doubled so that the      *)
(* associativity can make one side bind one tighter.                       *)
(***************************************************************************)
NEGATION_OPERAND_MIN_PREC == 14

Left(f) == IF f.assoc = "right" THEN 2 * f.prec + 1 ELSE 2 * f.prec
Right(f) == IF f.assoc = "right" THEN 2 * f.prec ELSE 2 * f.prec + 1

Frame(kind, from, min, parent) ==
    [kind |-> kind, from |-> from, min |-> min, parent |-> parent,
     negated |-> FALSE, last |-> 0]

OpNode(i, from, to) == [kind |-> "op", at |-> i, from |-> from, to |-> to]
MinusNode(from, to) == [kind |-> "minus", at |-> from, from |-> from, to |-> to]

FixInit ==
    /\ \E n \in 0..MaxOps : /\ chain \in Chains(n)
                            /\ use \in Uses(n)
                            /\ n = 0 => chain.neg[1]
    /\ nextOp = 1
    /\ operand = 1
    /\ frames = <<>>
    /\ nodes = {}
    /\ status = "start"

Stop(why) ==
    /\ status' = why
    /\ UNCHANGED <<chain, use, nextOp, operand, frames, nodes>>

(* check_right_section_minus: a right section whose operand starts with    *)
(* a minus is settled before its chain is grouped.                         *)
MinusUnder(f) == f.prec >= 6

RejectSectionMinus ==
    /\ status = "start"
    /\ use.side = "right" /\ chain.neg[1] /\ MinusUnder(use.op)
    /\ Stop("minus_rhs")

(* group: the outermost level, entered through prefix without a parent.    *)
Group ==
    /\ status = "start"
    /\ ~(use.side = "right" /\ chain.neg[1] /\ MinusUnder(use.op))
    /\ frames' = <<Frame("whole", 1, 0, 0)>>
    /\ status' = "prefix"
    /\ UNCHANGED <<chain, use, nextOp, operand, nodes>>

Level == Head(frames)

(* prefix: read the next operand of the innermost level.                   *)
RejectMinus ==
    /\ status = "prefix"
    /\ chain.neg[operand] /\ Level.parent # 0 /\ MinusUnder(chain.ops[Level.parent])
    /\ Stop("minus_rhs")

ReadOperand ==
    /\ status = "prefix"
    /\ ~(chain.neg[operand] /\ Level.parent # 0 /\ MinusUnder(chain.ops[Level.parent]))
    /\ operand' = operand + 1
    /\ frames' = IF chain.neg[operand]
                 THEN <<Frame("minus", operand, NEGATION_OPERAND_MIN_PREC, 0)>> \o frames
                 ELSE frames
    /\ status' = "continue"
    /\ UNCHANGED <<chain, use, nextOp, nodes>>

(* continue_infix and should_consume, for the operator at nextOp.          *)
AfterMinus(f) ==
    Level.negated /\ f.prec >= 6 /\ f # [assoc |-> "left", prec |-> 6]

Equal(f) == Level.parent # 0 /\ chain.ops[Level.parent].prec = f.prec

\* Mutant of Chained: the enclosing operator's associativity is not asked.
ChainedByNext(f, dir) == f.assoc = dir
Chained(f, dir) == chain.ops[Level.parent].assoc = dir /\ f.assoc = dir

Mixed(f) == Equal(f) /\ ~Chained(f, "left") /\ ~Chained(f, "right")

Consumed(f) == IF Equal(f) THEN Chained(f, "right") ELSE Left(f) >= Level.min

More == status = "continue" /\ nextOp <= N

RejectAfterMinus ==
    /\ More /\ AfterMinus(chain.ops[nextOp])
    /\ Stop("minus_lhs")

RejectMixed ==
    /\ More /\ ~AfterMinus(chain.ops[nextOp]) /\ Mixed(chain.ops[nextOp])
    /\ Stop("conflict")

Takes == LET f == chain.ops[nextOp] IN ~AfterMinus(f) /\ ~Mixed(f) /\ Consumed(f)

Depth == Cardinality({i \in DOMAIN frames : frames[i].kind = "rhs"})

TooDeep ==
    /\ More /\ Takes /\ Depth >= MaxNesting
    /\ Stop("too_deep")

Take ==
    /\ More /\ Takes /\ Depth < MaxNesting
    /\ nextOp' = nextOp + 1
    /\ frames' = <<Frame("rhs", operand, Right(chain.ops[nextOp]), nextOp)>> \o frames
    /\ status' = "prefix"
    /\ UNCHANGED <<chain, use, operand, nodes>>

(* This level takes no more: its expression becomes the right operand of   *)
(* its parent, or the operand of its minus.  A finished outermost level    *)
(* leaves its frame, whose `last` tells what stands at the root.           *)
Return ==
    /\ status = "continue"
    /\ nextOp <= N => LET f == chain.ops[nextOp]
                      IN ~AfterMinus(f) /\ ~Mixed(f) /\ ~Consumed(f)
    /\ LET below == IF Level.kind = "whole" THEN Level ELSE frames[2]
           rest  == IF Level.kind = "whole" THEN <<>> ELSE Tail(Tail(frames))
       IN CASE Level.kind = "whole" ->
                 /\ status' = "grouped"
                 /\ UNCHANGED <<nodes, frames>>
            [] Level.kind = "rhs" ->
                 /\ nodes' = nodes \cup {OpNode(Level.parent, below.from, operand - 1)}
                 /\ frames' = <<[below EXCEPT !.negated = FALSE, !.last = Level.parent]>> \o rest
                 /\ UNCHANGED status
            [] Level.kind = "minus" ->
                 /\ nodes' = nodes \cup {MinusNode(Level.from, operand - 1)}
                 /\ frames' = <<[below EXCEPT !.negated = TRUE]>> \o rest
                 /\ UNCHANGED status
    /\ UNCHANGED <<chain, use, nextOp, operand>>

(* check_section_operand, against what stands at the root of the operand.  *)
Minus == [assoc |-> "left", prec |-> 6]
RootFixity == IF Level.last # 0 THEN chain.ops[Level.last] ELSE Minus

\* Mutant of OperandFits: an equally tight operand is accepted on either side.
OperandFitsEither(op, side, top) == op.prec <= top.prec
OperandFits(op, side, top) ==
    op.prec < top.prec \/ (op.prec = top.prec /\ top.assoc = side)

CheckSection ==
    /\ status = "grouped"
    /\ use.side # "expr"
    /\ Stop(IF OperandFits(use.op, use.side, RootFixity) THEN "accepted" ELSE "section")

Stopped ==
    status \notin {"start", "prefix", "continue"} /\ (status = "grouped" => use.side = "expr")

Done == Stopped /\ UNCHANGED fixVars

FixNext == \/ RejectSectionMinus \/ Group
        \/ RejectMinus \/ ReadOperand
        \/ RejectAfterMinus \/ RejectMixed \/ TooDeep \/ Take \/ Return
        \/ CheckSection
        \/ Done

FixSpec == FixInit /\ [][FixNext]_fixVars

(***************************************************************************)
(* fixity.rs 267-285.  Types are climbed by precedence alone: a left       *)
(* associative operator takes only tighter ones on its right, any other    *)
(* re-enters at its own precedence.                                        *)
(***************************************************************************)
NextMin(f) == IF f.assoc = "left" THEN f.prec + 1 ELSE f.prec

(* A call of climb, with at most `left` operators to come: where it stops  *)
(* and the nodes it builds.                                                *)
Climbing(ops) ==
    LET n == Len(ops)
        climb[call \in (0..n) \X (1..(n + 1)) \X (1..(n + 1)) \X (0..10)] ==
            LET left == call[1]
                from == call[2]
                next == call[3]
                min  == call[4]
                rhs  == climb[<<left - 1, next + 1, next + 1, NextMin(ops[next])>>]
                rest == climb[<<left - 1, from, rhs.next, min>>]
            IN IF left = 0 \/ next > n \/ ops[next].prec < min
               THEN [next |-> next, nodes |-> {}]
               ELSE [next |-> rest.next,
                     nodes |-> rhs.nodes \cup rest.nodes \cup {OpNode(next, from, rhs.next)}]
    IN climb

GroupTypes(ops) == Climbing(ops)[<<Len(ops), 1, 1, 0>>].nodes

(***************************************************************************)
(* The reference: Haskell 2010 section 10.6, stated without an algorithm.  *)
(* A grouping of operands a..b puts one operator, or a minus over all of   *)
(* them, at the root, and each of its sides is grouped by something that   *)
(* binds tighter, or as tight in the same direction as the root.           *)
(***************************************************************************)
Operand == [assoc |-> "left", prec |-> 10]

Fits(root, f, dir) ==
    root.prec > f.prec \/ (root.prec = f.prec /\ root.assoc = dir /\ f.assoc = dir)

(* The groupings of operands a..b, by those of shorter spans; signed, when *)
(* the minus of a is within.                                               *)
Joined(c, a, i, b, left, right) ==
    {[root |-> c.ops[i], nodes |-> l.nodes \cup r.nodes \cup {OpNode(i, a, b)}] :
       l \in {h \in left : Fits(h.root, c.ops[i], "left")},
       r \in {h \in right : Fits(h.root, c.ops[i], "right")}}
Infix(c, a, b, signed, g) ==
    UNION {Joined(c, a, i, b, g[<<<<a, i>>, signed>>], g[<<<<i + 1, b>>, TRUE>>]) : i \in a..(b - 1)}
Negation(a, b, g) ==
    {[root |-> Minus, nodes |-> h.nodes \cup {MinusNode(a, b)}] :
       h \in {k \in g[<<<<a, b>>, FALSE>>] : Fits(k.root, Minus, "right")}}

Spans(c) == {p \in (1..Len(c.neg)) \X (1..Len(c.neg)) : p[1] <= p[2]}
Phrases(c) ==
    LET g[p \in Spans(c) \X BOOLEAN] ==
            LET a == p[1][1]
                b == p[1][2]
            IN IF p[2] /\ c.neg[a] THEN Infix(c, a, b, TRUE, g) \cup Negation(a, b, g)
               ELSE IF a = b THEN {[root |-> Operand, nodes |-> {}]}
               ELSE Infix(c, a, b, p[2], g)
    IN g

Groupings(c) == Phrases(c)[<<<<1, Len(c.neg)>>, TRUE>>]

(* A section with its missing operand written out.                         *)
Expansion ==
    IF use.side = "left"
    THEN [ops |-> Append(chain.ops, use.op), neg |-> Append(chain.neg, FALSE)]
    ELSE [ops |-> <<use.op>> \o chain.ops, neg |-> <<FALSE>> \o chain.neg]

(* The expansion means `operand op x`: the section operator is at the root.*)
MeansSection(g) ==
    /\ OpNode(IF use.side = "left" THEN N + 1 ELSE 1, 1, N + 2) \in g.nodes
    /\ MinusNode(1, N + 2) \notin g.nodes

(***************************************************************************)
(* Properties.                                                             *)
(***************************************************************************)

(* The types of the variables; operator i stands between operands i and    *)
(* i + 1, so the two cursors advance together, and the outermost level     *)
(* leaves none over (fixity.rs 133, 155-157).                              *)
FixTypeOK ==
    /\ nextOp \in 1..(N + 1)
    /\ operand \in 1..(N + 2)
    /\ operand = (IF status \in {"start", "prefix"} \/ status = "minus_rhs" THEN nextOp ELSE nextOp + 1)
    /\ status \in {"grouped", "accepted", "section"} => nextOp = N + 1
    /\ \A i \in DOMAIN frames : /\ frames[i].kind \in {"whole", "rhs", "minus"}
                                /\ frames[i].parent \in 0..N /\ frames[i].last \in 0..N
    /\ \A x \in nodes : x.from \in 1..(N + 1) /\ x.to \in 1..(N + 1)
    /\ status \in {"start", "prefix", "continue", "grouped", "accepted", "minus_rhs",
                   "minus_lhs", "conflict", "too_deep", "section"}

(* Precedence climbing finds the one grouping the Haskell rules allow, and *)
(* refuses a chain only when they allow none (fixity.rs 122-261), apart    *)
(* from chains nested deeper than the limit.                               *)
ChainsGrouped ==
    /\ status \in {"grouped", "accepted", "section"} =>
          {g.nodes : g \in Groupings(chain)} = {nodes}
    /\ status \in {"minus_lhs", "conflict"} => Groupings(chain) = {}
    /\ status = "minus_rhs" /\ frames # <<>> => Groupings(chain) = {}
    /\ status = "too_deep" => N > MaxNesting

(* The type grouping never refuses (263-285); wherever the chain would be  *)
(* accepted as an expression it builds the same nodes.                     *)
TypesGrouped ==
    status = "grouped" /\ (\A i \in DOMAIN chain.neg : ~chain.neg[i]) => GroupTypes(chain.ops) = nodes

(* A section never regroups its operand (392-407): when it is accepted,    *)
(* the written-out form groups around the section operator or not at all;  *)
(* when its operand or its minus refuses it, the written-out form does not *)
(* mean the section.                                                       *)
SectionsMeanTheirExpansion ==
    /\ status = "accepted" => \A g \in Groupings(Expansion) : MeansSection(g)
    /\ status = "section" \/ (status = "minus_rhs" /\ frames = <<>>) =>
          \A g \in Groupings(Expansion) : ~MeansSection(g)

(* Chains, types and sections are grouped as Haskell groups them           *)
(* (fixity.rs 122-285, 385-421).                                           *)
GroupedAsHaskell == ChainsGrouped /\ TypesGrouped /\ SectionsMeanTheirExpansion
=============================================================================
