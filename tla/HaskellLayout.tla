----------------------------- MODULE HaskellLayout -----------------------------
(***************************************************************************)
(* Layout as Haskell 2010 defines it (section 10.3), with the grammar of   *)
(* expressions, statements, alternatives and equations: the reference for  *)
(* Layout.                                                                 *)
(*                                                                         *)
(* A token that starts a line is compared with the innermost open block:   *)
(* at its column it begins the next item, left of it it closes the block.  *)
(* A token that cannot continue an item closes the block too: parsing an   *)
(* item as far as it goes is the parse-error(t) rule.                      *)
(*                                                                         *)
(* A parse is the set of the intervals of tokens it groups, by kind.       *)
(***************************************************************************)
EXTENDS Integers, Sequences

VARIABLE tokens      \* sequence of [t: its kind, col: 0-based, first: starts a line]

Kind(p) == IF p \in DOMAIN tokens THEN tokens[p].t ELSE IF p = 0 THEN "failed" ELSE "eof"
Col(p) == IF p \in DOMAIN tokens THEN tokens[p].col ELSE 0
First(p) == p \in DOMAIN tokens /\ tokens[p].first

Operators == {"op", "-"}
Simple == {"name", "lit"}

(* A state of a parser; position 0 is a failed parse, which no token       *)
(* continues.  `nl`: the break before the token has not been dealt with.   *)
Advance(st) == IF st.pos = 0 THEN st
               ELSE [st EXCEPT !.pos = @ + 1, !.nl = First(st.pos + 1)]
Mark(kind, from, st) == [st EXCEPT !.nodes = @ \cup {<<kind, from, st.pos - 1>>}]

-------------------------------------------------------------------------------
(* Here `ctx` are the columns of the open blocks, innermost first, and     *)
(* `last` what the last statement read was.                                *)

Fail(st) == [st EXCEPT !.pos = 0]

Next1(st) ==
    CASE st.pos = 0 -> "failed"
      [] Kind(st.pos) = "eof" -> IF st.ctx = <<>> THEN "eof" ELSE "close"
      [] st.nl /\ st.ctx # <<>> /\ Col(st.pos) = Head(st.ctx) -> ";"
      [] st.nl /\ st.ctx # <<>> /\ Col(st.pos) < Head(st.ctx) -> "close"
      [] OTHER -> Kind(st.pos)

Take(k, st) == IF Next1(st) = k THEN Advance(st) ELSE Fail(st)
Semi(st) == [st EXCEPT !.nl = FALSE]
Close(st) == [st EXCEPT !.ctx = Tail(@)]

\* `if` in a do block: a `;` may stand before `then` and `else`.
OptSemi(k, st) == IF Next1(st) = ";" /\ Kind(st.pos) = k THEN Semi(st) ELSE st

RECURSIVE H(_, _, _)

Exp(st) == H("chain", "", st)

\* n > m opens a block; otherwise it is empty, which only declarations may be,
\* and the token is compared again.
Block(item, st) ==
    IF Kind(st.pos) # "eof" /\ Col(st.pos) > Head(st.ctx)
    THEN H("items", item, [st EXCEPT !.ctx = <<Col(st.pos)>> \o @, !.nl = FALSE])
    ELSE IF item = "decl" THEN [st EXCEPT !.nl = TRUE] ELSE Fail(st)

Starts(item) ==
    CASE item = "decl" -> {"name", "("}
      [] item = "alt" -> {"name", "lit", "-", "("}
      [] item = "stmt" -> {"name", "lit", "-", "(", "\\", "let", "if", "case", "do"}

AfterItem(item, st) ==
    CASE st.pos = 0 -> st
      [] Next1(st) = ";" -> H("items", item, Semi(st))
      [] OTHER -> Close(st)

Items(item, st) ==
    IF Next1(st) \in Starts(item)
    THEN AfterItem(item, Mark("item", st.pos, H(item, "", st)))
    ELSE Close(st)

HPattern1(st) ==
    IF Next1(st) \in Simple THEN Advance(st)
    ELSE Take("lit", Take("-", st))
HPattern(st) ==
    IF Next1(st) = "(" THEN Take(")", HPattern1(Take(",", HPattern1(Advance(st)))))
    ELSE HPattern1(st)

HParams(st) ==
    IF Next1(st) \in Simple \cup {"("} THEN H("params", "", HPattern(st)) ELSE st

Generator(st) == Next1(HPattern(st)) = "<-"

LetThen(st) ==                                   \* after the block of a let
    IF Next1(st) = "in" THEN [Exp(Advance(st)) EXCEPT !.last = "expr"]
    ELSE [st EXCEPT !.last = "let"]

Statement(st) ==
    CASE Next1(st) = "let" -> LetThen(Block("decl", Advance(st)))
      [] Generator(st) -> [Exp(Advance(HPattern(st))) EXCEPT !.last = "bind"]
      [] OTHER -> [Exp(st) EXCEPT !.last = "expr"]

HQualifiers(st) ==
    IF Next1(st) = "," THEN H("quals", "", Statement(Advance(st))) ELSE st

HGuard(sep, st) == Mark("guard", st.pos, Exp(Take(sep, HQualifiers(Statement(Advance(st))))))

HGuards(sep, st) == IF Next1(st) = "|" THEN H("guards", sep, HGuard(sep, st)) ELSE st

HRhs(sep, st) == IF Next1(st) = "|" THEN HGuards(sep, st) ELSE Exp(Take(sep, st))

HWhere(st) == IF Next1(st) = "where" THEN Block("decl", Advance(st)) ELSE st

Equation1(st) ==
    HWhere(HRhs("=", IF Next1(st) = "(" THEN HPattern(st) ELSE HParams(Take("name", st))))

AlternativeWhere(st) ==
    IF Next1(st) = "where" THEN Mark("alternative's where", st.pos, HWhere(st)) ELSE st
Alternative1(st) == AlternativeWhere(HRhs("->", HPattern(st)))

HOperand(st) ==
    Mark("operand", st.pos, H("lexp", "", IF Next1(st) = "-" THEN Advance(st) ELSE st))

HChain(st) == H("operators", "", HOperand(st))
HOperators(st) ==
    IF Next1(st) \in Operators THEN H("operators", "", HOperand(Advance(st))) ELSE st

DoEnds(st) == IF st.last = "expr" THEN st ELSE Fail(st)

HTuple(st) == IF Next1(st) = "," THEN H("tuple", "", Exp(Advance(st))) ELSE Take(")", st)

HAtom(st) ==
    CASE Next1(st) \in Simple -> Advance(st)
      [] Next1(st) = "(" -> HTuple(Exp(Advance(st)))
      [] OTHER -> Fail(st)

HArguments(st) ==
    IF Next1(st) \in Simple \cup {"("} THEN H("args", "", Mark("arg", st.pos, HAtom(st))) ELSE st

HLexp(st) ==
    CASE Next1(st) = "\\" -> Exp(Take("->", HParams(HPattern(Advance(st)))))
      [] Next1(st) = "let" -> Exp(Take("in", Block("decl", Advance(st))))
      [] Next1(st) = "if" ->
            Exp(Take("else", OptSemi("else",
                Exp(Take("then", OptSemi("then", Exp(Advance(st))))))))
      [] Next1(st) = "case" -> Block("alt", Take("of", Exp(Advance(st))))
      [] Next1(st) = "do" -> DoEnds(Block("stmt", [Advance(st) EXCEPT !.last = "none"]))
      [] OTHER -> HArguments(HAtom(st))

H(rule, arg, st) ==
    CASE st.pos = 0 -> st
      [] rule = "items" -> Items(arg, st)
      [] rule = "stmt" -> Statement(st)
      [] rule = "decl" -> Equation1(st)
      [] rule = "alt" -> Alternative1(st)
      [] rule = "params" -> HParams(st)
      [] rule = "quals" -> HQualifiers(st)
      [] rule = "guards" -> HGuards(arg, st)
      [] rule = "chain" -> HChain(st)
      [] rule = "operators" -> HOperators(st)
      [] rule = "lexp" -> HLexp(st)
      [] rule = "args" -> HArguments(st)
      [] rule = "tuple" -> HTuple(st)

Complete(st) == [ok |-> Next1(st) = "eof", nodes |-> st.nodes]

(* A module is a block of declarations at column 0.                        *)
HaskellParse ==
    Complete(H("items", "decl",
               [pos |-> 1, nl |-> FALSE, ctx |-> <<0>>, last |-> "none", nodes |-> {}]))
===============================================================================
