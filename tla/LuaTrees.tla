------------------------------- MODULE LuaTrees -------------------------------
(***************************************************************************)
(* The trees of codegen/lua.rs, as far as the passes over them look.       *)
(*                                                                         *)
(* An expression has a kind e and, when it is composite, its parts `of`;   *)
(* a statement has a kind s and the same five fields whatever the kind:    *)
(* the names it declares, its assignment targets, its own expressions, its *)
(* blocks and, for a function, the parameters.  An elseif is an if in the  *)
(* else block.                                                             *)
(*                                                                         *)
(* A name that is not a plain identifier is a slot: __mll_fn[i], where a   *)
(* module's functions live, or t[i] of a table the passes made.  Raw text  *)
(* stands for opaque text that mentions one name.                          *)
(***************************************************************************)
EXTENDS Integers, Sequences, FiniteSets, SequencesExt

Name(n) == [e |-> "name", n |-> n]
Slot(t, i) == [e |-> "slot", n |-> t, i |-> i]
Raw(n) == [e |-> "raw", n |-> n]
Lit(v) == [e |-> "lit", v |-> v]
NewTable == [e |-> "table"]
Paren(x) == [e |-> "paren", of |-> <<x>>]
Op(o, l, r) == [e |-> "op", op |-> o, of |-> <<l, r>>]
Call(f, args) == [e |-> "call", of |-> <<f>> \o args]
Func(ps, body) == [e |-> "func", ps |-> ps, body |-> body]

Stmt(s, ns, lhs, es, blocks, ps) ==
    [s |-> s, ns |-> ns, lhs |-> lhs, es |-> es, blocks |-> blocks, ps |-> ps]
Local(ns, es) == Stmt("local", ns, <<>>, es, <<>>, <<>>)
Assign(lhs, es) == Stmt("assign", <<>>, lhs, es, <<>>, <<>>)
Multi(lhs, es) == Stmt("multi", <<>>, lhs, es, <<>>, <<>>)
Return(x) == Stmt("return", <<>>, <<>>, <<x>>, <<>>, <<>>)
ReturnNone == Stmt("return", <<>>, <<>>, <<>>, <<>>, <<>>)
Do(b) == Stmt("do", <<>>, <<>>, <<>>, <<b>>, <<>>)
Run(x) == Stmt("expr", <<>>, <<>>, <<x>>, <<>>, <<>>)
RawStmt(n) == Stmt("raw", <<>>, <<>>, <<Raw(n)>>, <<>>, <<>>)
If(c, t) == Stmt("if", <<>>, <<>>, <<c>>, <<t>>, <<>>)
IfElse(c, t, f) == Stmt("if", <<>>, <<>>, <<c>>, <<t, f>>, <<>>)
WhileTrue(b) == Stmt("while", <<>>, <<>>, <<>>, <<b>>, <<>>)
Goto == Stmt("goto", <<>>, <<>>, <<>>, <<>>, <<>>)
Label == Stmt("label", <<>>, <<>>, <<>>, <<>>, <<>>)
LocalFunction(f, ps, b) == Stmt("function", <<f>>, <<>>, <<>>, <<b>>, ps)
AssignFunction(lhs, ps, b) == Stmt("function", <<>>, <<lhs>>, <<>>, <<b>>, ps)

(* for_each_subexpr.  The body of a literal is statements.                 *)
Parts(x) == IF "of" \in DOMAIN x THEN x.of ELSE <<>>
Is(x, n) == x = Name(n)
Calls(x, n) == x.e = "call" /\ Is(x.of[1], n)

RECURSIVE Peel(_)
Peel(x) == IF x.e = "paren" THEN Peel(x.of[1]) ELSE x

Each(seq, f(_)) == SubSeq([i \in DOMAIN seq |-> f(seq[i])], 1, Len(seq))
Total(seq, f(_)) == FoldLeft(LAMBDA sum, x : sum + f(x), 0, seq)

-----------------------------------------------------------------------------
(* All that a block holds: its expressions with those inside, the          *)
(* statements of its own scope, and of the functions inside it as well.    *)

RECURSIVE WithParts(_)
WithParts(x) == <<x>> \o FlattenSeq(Each(Parts(x), WithParts))

RECURSIVE OwnStmts(_)
OwnStmts(b) ==
    FlattenSeq(Each(b, LAMBDA s : <<s>> \o
        (IF s.s = "function" THEN <<>> ELSE FlattenSeq(Each(s.blocks, OwnStmts)))))

RECURSIVE AllStmts(_)
AllStmts(b) ==
    FlattenSeq(Each(b, LAMBDA s : <<s>>
        \o FlattenSeq(Each(s.blocks, AllStmts))
        \o FlattenSeq(Each(s.es, LAMBDA x :
              FlattenSeq(Each(WithParts(x), LAMBDA y :
                  IF y.e = "func" THEN AllStmts(y.body) ELSE <<>>))))))

AllExprs(b) ==
    FlattenSeq(Each(AllStmts(b), LAMBDA s : FlattenSeq(Each(s.lhs \o s.es, WithParts))))

(* The statements of the blocks, bodies of named functions included.       *)
RECURSIVE BlockStmts(_)
BlockStmts(b) ==
    FlattenSeq(Each(b, LAMBDA s : <<s>> \o FlattenSeq(Each(s.blocks, BlockStmts))))

(* token_set over the rendered text: every identifier there is.            *)
Tokens(b) ==
    UNION {ToSet(s.ns) \cup ToSet(s.ps) : s \in ToSet(AllStmts(b))}
    \cup {x.n : x \in {y \in ToSet(AllExprs(b)) : y.e \in {"name", "slot", "raw"}}}
    \cup UNION {ToSet(x.ps) : x \in {y \in ToSet(AllExprs(b)) : y.e = "func"}}

(* opt.rs, count_locals: the locals of this function scope, all branches.  *)
CountLocals(b) == Total(OwnStmts(b), LAMBDA s : Len(s.ns))

(* opt.rs, stmt_diverges: control does not pass the statement.             *)
RECURSIVE Diverges(_)
Diverges(b) ==
    /\ b # <<>>
    /\ LET s == Last(b) IN
         \/ s.s \in {"return", "while"}
         \/ s.s = "expr" /\ Calls(s.es[1], "error")
         \/ s.s = "if" /\ Len(s.blocks) = 2 /\ \A i \in 1..2 : Diverges(s.blocks[i])
         \/ s.s = "do" /\ Diverges(s.blocks[1])

(* tailloop.rs, tail_position_has: the operands returned in tail position. *)
RECURSIVE TailReturns(_)
TailReturns(b) ==
    IF b = <<>> THEN {}
    ELSE LET s == Last(b) IN
         CASE s.s \in {"if", "do"} -> UNION {TailReturns(s.blocks[i]) : i \in DOMAIN s.blocks}
           [] s.s = "return" -> ToSet(s.es)
           [] OTHER -> {}

(* ioloop.rs, each_return: the operands of a body's own returns.           *)
RECURSIVE ReturnsOf(_)
ReturnsOf(b) ==
    UNION {CASE s.s = "return" -> ToSet(s.es)
             [] s.s \in {"if", "do"} -> UNION {ReturnsOf(s.blocks[i]) : i \in DOMAIN s.blocks}
             [] OTHER -> {} : s \in ToSet(b)}

-----------------------------------------------------------------------------
(* Renaming, with the map narrowed where a name is shadowed.               *)

Without(m, S) == [n \in DOMAIN m \ S |-> m[n]]

RECURSIVE RenameExpr(_, _), RenameBlock(_, _)
RenameExpr(x, m) ==
    CASE x.e = "name" -> IF x.n \in DOMAIN m THEN Name(m[x.n]) ELSE x
      [] x.e = "func" -> Func(x.ps, RenameBlock(x.body, Without(m, ToSet(x.ps))))
      [] "of" \in DOMAIN x -> [x EXCEPT !.of = Each(x.of, LAMBDA y : RenameExpr(y, m))]
      [] OTHER -> x

(* An initializer reads the outer binding: the shadow starts after it.     *)
RenameBlock(b, m) ==
    IF b = <<>> THEN <<>>
    ELSE LET s == Head(b) IN
         <<[s EXCEPT !.es = Each(s.es, LAMBDA x : RenameExpr(x, m)),
                     !.lhs = Each(s.lhs, LAMBDA x : RenameExpr(x, m)),
                     !.blocks = Each(s.blocks, LAMBDA c : RenameBlock(c, m))]>>
         \o RenameBlock(Tail(b), IF s.s = "local" THEN Without(m, ToSet(s.ns)) ELSE m)

(* Mentions the renaming could not follow: opaque text, a slot of a table  *)
(* so named, a declaration that shadows.                                   *)
RenameBlocked(b, ps) ==
    \/ \E s \in ToSet(AllStmts(b)) :
         (s.s \in {"local", "function"}) /\ (ToSet(s.ns) \cup ToSet(s.ps)) \cap ps # {}
    \/ \E s \in ToSet(AllStmts(b)) : s.s = "function" /\ \E x \in ToSet(s.lhs) : x.n \in ps
    \/ \E x \in ToSet(AllExprs(b)) : x.e \in {"raw", "slot"} /\ x.n \in ps

(* hoist.rs, free_names_func: the names a literal takes from outside.      *)
RECURSIVE FreeOfExpr(_, _), FreeOfBlock(_, _)
FreeOfExpr(x, bound) ==
    CASE x.e \in {"name", "slot", "raw"} -> {x.n} \ bound
      [] x.e = "func" -> FreeOfBlock(x.body, bound \cup ToSet(x.ps))
      [] OTHER -> UNION {FreeOfExpr(y, bound) : y \in ToSet(Parts(x))}

FreeOfBlock(b, bound) ==
    IF b = <<>> THEN {}
    ELSE LET s == Head(b)
             inside == bound \cup (IF s.s = "function" THEN ToSet(s.ns) \cup ToSet(s.ps) ELSE {})
         IN UNION {FreeOfExpr(x, bound) : x \in ToSet(s.es \o s.lhs)}
            \cup UNION {FreeOfBlock(c, inside) : c \in ToSet(s.blocks)}
            \cup FreeOfBlock(Tail(b), bound \cup ToSet(s.ns))

FreeNames(f) == FreeOfBlock(f.body, ToSet(f.ps))
===============================================================================
