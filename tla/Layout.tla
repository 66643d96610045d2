--------------------------------- MODULE Layout ---------------------------------
(***************************************************************************)
(* The layout-sensitive part of the parser (mllc/src/parser.rs).  There is *)
(* no layout pass: the lexer marks where lines begin, and every rule of    *)
(* the recursive descent decides what a line break means to it from three  *)
(* columns, `current_indent` (ci) of the line last entered,                *)
(* `expr_min_indent` (em) where the expression began and `block_indent`    *)
(* (bi) of the items of the block.                                         *)
(*                                                                         *)
(* Names are not told apart, and operator sections, records, lists, types  *)
(* and the declarations other than equations are left out.                 *)
(***************************************************************************)
EXTENDS HaskellLayout

CONSTANT Programs

VARIABLES mll,         \* what the parser made of the program
          haskell      \* what Haskell makes of it

vars == <<tokens, mll, haskell>>

-------------------------------------------------------------------------------
(* The token that is next: a line break that was not skipped comes first.  *)

Failed(st) == IF st.pos = 0 THEN st ELSE [st EXCEPT !.pos = 0, !.nl = FALSE, !.at = st.pos]

Peek(st) == IF st.nl THEN "newline" ELSE Kind(st.pos)
Expect(k, st) == IF Peek(st) = k THEN Advance(st) ELSE Failed(st)
Skip(st) == IF st.nl THEN [st EXCEPT !.nl = FALSE, !.ci = Col(st.pos)] ELSE st

Over(st) == Peek(st) \in {"eof", "failed"}

(* open_item_block: the next token's column is the block's.                *)
OpenAt(st) == [st EXCEPT !.ci = Col(st.pos), !.bi = Col(st.pos)]
Open(st) == OpenAt(Skip(st))

(* at_block_closer, and the other reasons for which a block of statements  *)
(* or alternatives ends.                                                   *)

\* Mutant of Closers: an `if` in a do block is not ended by its keywords.
ClosersOfBrackets == {")", ",", "of", "in", "where"}

Closers == {")", ",", "then", "else", "of", "in", "where"}
BlockEnds(column, st) == Over(st) \/ st.ci < column \/ Peek(st) \in Closers

-------------------------------------------------------------------------------
RECURSIVE Parse(_, _, _)

Expression(st) == Parse("expr", "", st)

(* parse_pattern: a name, a literal, a pair.                               *)
Negative(st) == Peek(st) = "-" /\ Kind(st.pos + 1) = "lit" /\ ~First(st.pos + 1)
PatternAtom(st) ==
    CASE Peek(st) \in Simple -> Advance(st)
      [] Negative(st) -> Advance(Advance(st))
      [] OTHER -> Failed(st)
Pattern(st) ==
    IF Peek(st) = "(" THEN Expect(")", PatternAtom(Expect(",", PatternAtom(Advance(st)))))
    ELSE PatternAtom(st)
StartsPattern(st) == Peek(st) \in Simple \cup {"("}

Parameters(st) == IF StartsPattern(st) THEN Parse("params", "", Pattern(st)) ELSE st

(* is_neg_literal_context: the previous token may be a line break.         *)
NegativeContext(st) == First(st.pos) \/ Kind(st.pos - 1) \notin Simple \cup {")"}

(* is_expr_atom_start, and in_context: not at the start of a line that is  *)
(* no deeper than where the expression began.                              *)
StartsAtom(st) == \/ Peek(st) \in Simple \cup {"("}
                  \/ Negative(st) /\ NegativeContext(st)

\* Mutant of InContext: arguments are taken wherever an atom starts.
InContextAnywhere(st) == StartsAtom(st)

InContext(st) == StartsAtom(st) /\ ~(st.ci <= st.em /\ Col(st.pos) = st.ci)

(* parse_expr_app: arguments on the line, or on a line deeper than the     *)
(* block.                                                                  *)
Argument(st) ==
    LET got == Mark("arg", st.pos, Parse("atom", "", st))
    IN  IF Kind(st.pos) = "-" /\ First(st.pos) THEN Mark("negative line", st.pos, got) ELSE got
NextLineArgument(st) == st.nl /\ Col(st.pos) > st.bi /\ StartsAtom(Skip(st))
Arguments(st) ==
    CASE InContext(st) -> Parse("args", "", Argument(st))
      [] NextLineArgument(st) -> Parse("args", "", Argument(Skip(st)))
      [] OTHER -> st

(* parse_chain_operand, parse_infix_chain_inner: an operator on a new line *)
(* continues the chain when it is deeper than the block.                   *)
Operand(st) ==
    Mark("operand", st.pos,
         Parse("args", "", Parse("atom", "", IF Peek(st) = "-" THEN Advance(st) ELSE st)))

Continued(st) ==
    IF st.nl /\ Col(st.pos) > st.bi /\ Kind(st.pos) \in Operators THEN Skip(st) ELSE st
ChainOn(st) == Parse("operators", "", Operand(Skip(Advance(st))))
OperatorsOf(st) ==
    CASE Peek(st) \notin Operators -> st
      [] First(st.pos) /\ Col(st.pos) <= st.bi -> Mark("resumed", st.pos, ChainOn(st))
      [] OTHER -> ChainOn(st)

(* parse_expr.                                                             *)
ExpressionAt(st, em) ==
    [Parse("operators", "", Operand([st EXCEPT !.em = st.ci])) EXCEPT !.em = em]

Tuple(st) ==
    IF Peek(st) = "," THEN Parse("tuple", "", Skip(Expression(Advance(st)))) ELSE Expect(")", st)

If(st) ==
    Expression(Expect("else", Skip(Expression(Expect("then", Skip(Expression(st)))))))

(* parse_guard_chain: a `|` on a line that is no deeper than min belongs   *)
(* to an enclosing construct.                                              *)
Generates(st) == StartsPattern(st) /\ Peek(Pattern(st)) = "<-"

\* parse_let_binds
Bindings(st) ==
    [Skip(Parse("bindings", <<"let", Col(st.pos)>>, Open(st))) EXCEPT !.bi = st.bi]

Qualifier(st) ==
    CASE Peek(st) = "let" -> Bindings(Advance(st))
      [] Generates(st) -> Expression(Advance(Pattern(st)))
      [] OTHER -> Expression(st)
Qualifiers(st) == IF Peek(st) = "," THEN Parse("quals", "", Qualifier(Advance(st))) ELSE st

Guard(sep, st) ==
    Mark("guard", st.pos, Expression(Expect(sep, Qualifiers(Qualifier(Advance(st))))))
AfterGuard(arg, st) ==
    CASE Peek(Skip(st)) # "|" -> Skip(st)
      [] Skip(st).ci <= arg[2] -> st
      [] OTHER -> Parse("guards", arg, Skip(st))

RightSide(sep, min, st) ==
    IF Peek(st) = "|" THEN Parse("guards", <<sep, min>>, st) ELSE Expression(Expect(sep, st))

(* parse_where, after open_layout_block: a block on a later line that is   *)
(* no deeper than the enclosing one is empty.                              *)
WhereItems(later, st) ==
    IF Over(st) \/ (later /\ Col(st.pos) <= st.bi) THEN st
    ELSE [Parse("bindings", <<"where", Col(st.pos)>>, OpenAt(st)) EXCEPT !.bi = st.bi]
Where(st) ==
    IF Kind(st.pos) = "where" THEN WhereItems(First(st.pos + 1), Skip(Advance(Skip(st))))
    ELSE Skip(st)

(* parse_local_where: on the equation's own line, or deeper than its group.*)
LocalWhere(column, st) ==
    IF Kind(st.pos) = "where" /\ (~st.nl \/ Col(st.pos) > column) THEN Where(st) ELSE st

(* One entry of a group, and the loop over it.                             *)
Equation(column, st) ==
    LocalWhere(column, RightSide("=", 0, Skip(Parameters(Advance(st)))))
PairEquation(st) == Expression(Expect("=", Pattern(st)))

BindingAt(arg, st) ==
    CASE Over(st) \/ st.ci < arg[2] \/ Peek(st) \notin {"name", "("} -> st
      [] Peek(st) = "name" ->
            Parse("bindings", arg, Mark("item", st.pos, Equation(arg[2], st)))
      [] Peek(st) = "(" /\ (arg[1] = "let" \/ Peek(Pattern(st)) = "=") ->
            Parse("bindings", arg, Mark("item", st.pos, PairEquation(st)))
      [] OTHER -> st

(* parse_case_expr.                                                        *)
GuardAhead(column, st) ==
    IF st.nl /\ Kind(st.pos) = "|" /\ Col(st.pos) > column THEN Skip(st) ELSE st
Alternative(column, st) == RightSide("->", column, GuardAhead(column, Pattern(st)))
Alternatives(column, st) ==
    IF BlockEnds(column, Skip(st)) THEN st
    ELSE Parse("alternatives", column,
               Mark("item", Skip(st).pos, Alternative(column, Skip(st))))
Case(st) == [Parse("alternatives", Col(st.pos), Open(st)) EXCEPT !.bi = st.bi]

(* parse_do_block: the last statement is an expression.  The line break    *)
(* that ends the block stays skipped.                                      *)
Statements(arg, st) ==
    CASE BlockEnds(arg[1], st) -> IF arg[2] = "expr" THEN st ELSE Failed(st)
      [] Peek(st) = "let" /\ Kind(st.pos + 1) \notin {"name", "("} -> Failed(st)
      [] Peek(st) = "let" ->
            Parse("stmts", <<arg[1], "let">>, Mark("item", st.pos, Bindings(Advance(st))))
      [] Generates(st) ->
            Parse("stmts", <<arg[1], "bind">>,
                  Mark("item", st.pos, Expression(Advance(Pattern(st)))))
      [] OTHER -> Parse("stmts", <<arg[1], "expr">>, Mark("item", st.pos, Expression(st)))
Do(st) == [Parse("stmts", <<Col(st.pos), "none">>, Open(st)) EXCEPT !.bi = st.bi]

Atom(st) ==
    CASE Negative(st) /\ NegativeContext(st) -> Advance(Advance(st))
      [] Peek(st) \in Simple -> Advance(st)
      [] Peek(st) = "(" -> Parse("tuple", "", Skip(Expression(Advance(st))))
      [] Peek(st) = "\\" -> Expression(Expect("->", Parameters(Pattern(Advance(st)))))
      [] Peek(st) = "let" -> Expression(Skip(Expect("in", Bindings(Advance(st)))))
      [] Peek(st) = "if" -> If(Advance(st))
      [] Peek(st) = "case" -> Case(Expect("of", Expression(Advance(st))))
      [] Peek(st) = "do" -> Do(Advance(st))
      [] OTHER -> Failed(st)

(* parse_module, parse_value_decl, parse_clause and finish_clause.         *)
Clause(st) ==
    [Where(RightSide("=", 0, Skip(Parameters(Expect("name", [st EXCEPT !.bi = st.ci])))))
        EXCEPT !.bi = st.bi]
Declarations(st) ==
    IF Over(st) THEN st ELSE Parse("module", "", Skip(Mark("item", st.pos, Clause(st))))

Parse(rule, arg, st) ==
    CASE st.pos = 0 -> st
      [] rule = "module" -> Declarations(st)
      [] rule = "expr" -> ExpressionAt(Skip(st), st.em)
      [] rule = "operators" -> OperatorsOf(Continued(st))
      [] rule = "args" -> Arguments(st)
      [] rule = "atom" -> Atom(st)
      [] rule = "tuple" -> Tuple(st)
      [] rule = "params" -> Parameters(st)
      [] rule = "quals" -> Qualifiers(st)
      [] rule = "guards" -> AfterGuard(arg, Guard(arg[1], st))
      [] rule = "bindings" -> BindingAt(arg, Skip(st))
      [] rule = "alternatives" -> Alternatives(arg, st)
      [] rule = "stmts" -> Statements(arg, Skip(st))

Start == [pos |-> 1, nl |-> First(1), ci |-> 0, em |-> 0, bi |-> 0, nodes |-> {}, at |-> 0]
Finished(st) == [ok |-> Peek(st) = "eof", nodes |-> st.nodes, at |-> IF st.pos = 0 THEN st.at ELSE st.pos]

-------------------------------------------------------------------------------
Unknown == [ok |-> FALSE, nodes |-> {}, at |-> 0]

Init == tokens \in Programs /\ mll = Unknown /\ haskell = Unknown

Read ==
    /\ mll = Unknown /\ haskell = Unknown
    /\ mll' = Finished(Parse("module", "", Skip(Start)))
    /\ haskell' = HaskellParse
    /\ UNCHANGED tokens

Next == Read

Spec == Init /\ [][Next]_vars

-------------------------------------------------------------------------------
(* Properties *)

Grouping(parse) == {g \in parse.nodes : g[1] \in {"arg", "operand", "item", "guard"}}
Apart(g, h) == g[3] < h[2]
Within(g, h) == h[2] <= g[2] /\ g[3] <= h[3]

\* The groups of a program that is accepted lie in it and nest, although no
\* pass lays the blocks out before they are parsed (parser.rs 574-641).
TypeOK ==
    mll.ok => \A g, h \in Grouping(mll) :
                 /\ 1 <= g[2] /\ g[2] <= g[3] /\ g[3] <= Len(tokens)
                 /\ Apart(g, h) \/ Apart(h, g) \/ Within(g, h) \/ Within(h, g)

(* Known gaps, by the marks the parses leave: a chain that goes on at a    *)
(* line its block's items begin at (4116-4118), an argument that is a      *)
(* line's leading `- literal` (3638-3646), a `where` in an alternative,    *)
(* which mllc leaves to the clause (592-606).                              *)
Gaps == {"resumed", "negative line", "alternative's where"}
Gap == \E g \in mll.nodes \cup haskell.nodes : g[1] \in Gaps

\* What both accept they group alike: every argument, operand, guard,
\* statement, alternative and binding takes the same tokens.  A line break
\* read by one rule is judged again by the rules it returns to (562-572,
\* 3087-3127, 3232-3268), each from columns another one set.
GroupedAsHaskellUnlessGap ==
    mll.ok /\ haskell.ok /\ ~Gap => Grouping(mll) = Grouping(haskell)

\* A layout Haskell accepts is refused at one of these tokens only: a `|` that
\* its chain left (2117-2124), an `in` after the `let` of a statement
\* (4122-4138), or a line that starts with an operator at its block's column,
\* or with a token the rule looks for on the line it is in (4002, 2111, 2115).
AcceptsHaskellUnlessGap ==
    haskell.ok /\ ~mll.ok /\ ~Gap =>
        \/ Kind(mll.at) \in {"in", "|"}
        \/ First(mll.at) /\ Kind(mll.at) \in Operators \cup {"of", "->", "<-", "=", ","}
===============================================================================
