------------------------------ MODULE LuaMachine ------------------------------
(***************************************************************************)
(* What a Lua host does with a tree: a local is a fresh cell each time its *)
(* declaration runs, a closure keeps the cells it mentions, an assignment  *)
(* evaluates all of its right side first, a call spreads the values of its *)
(* last argument, and a jump to the label ends one turn of a loop.         *)
(*                                                                         *)
(* A program is observed through emit, a host function that records what   *)
(* it is given.  Turns and calls are counted, so that a loop that never    *)
(* ends is told from one that does.                                        *)
(***************************************************************************)
EXTENDS LuaTrees, TLC

CONSTANT Fuel

Nil == [v |-> "nil"]
Num(n) == [v |-> "int", n |-> n]
Bool(b) == [v |-> "bool", b |-> b]
Failure == <<[v |-> "failure"]>>

(* What the prelude of the runtime binds, and what the host adds.          *)
Carriers == <<"__mll_tk1", "__mll_tk2", "__mll_tk3", "__mll_tk4">>
Prelude == <<"__force", "__mll_pure", "__mll_run", "__mll_run_tail">> \o Carriers
           \o <<"__thunk", "error_">>
HostFunctions == {"emit", "error", "both", "try"}

(* A machine: the cells, what was emitted, the fuel left.  The outcome of  *)
(* a piece of program is a machine, where control goes and the values.     *)
Outcome(m, flow, vals) == [m |-> m, flow |-> flow, vals |-> vals]
Next1(m, v) == Outcome(m, "next", <<v>>)
Allocate(m, v) == [m EXCEPT !.cells = Append(@, v)]
Spent(m) == [m EXCEPT !.fuel = @ - 1]
First(vals) == IF vals = <<>> THEN Nil ELSE vals[1]
Truthy(v) == v # Nil /\ v # Bool(FALSE)
Seen(v) == CASE v.v = "int" -> v [] v.v = "bool" -> v [] OTHER -> [v |-> v.v]

(* Fresh cells for names, holding values; missing ones are nil.            *)
Declare(m, env, ns, vals) ==
    LET k == Len(m.cells) IN
    [m |-> [m EXCEPT !.cells = @ \o [i \in 1..Len(ns) |-> IF i <= Len(vals) THEN vals[i] ELSE Nil]],
     env |-> [n \in ToSet(ns) |-> k + (CHOOSE i \in 1..Len(ns) :
                 ns[i] = n /\ \A j \in (i + 1)..Len(ns) : ns[j] # n)] @@ env]

Lookup(m, env, n) ==
    CASE n \in DOMAIN env -> m.cells[env[n]]
      [] n \in ToSet(Prelude) \cup HostFunctions -> [v |-> "host", n |-> n]
      [] OTHER -> Nil

(* What follows an outcome, unless that left the normal course.            *)
Then(r, continue(_)) == IF r.flow = "next" THEN continue(r) ELSE r
Truncated(r) == Outcome(r.m, "next", <<First(r.vals)>>)
InFront(v, r) == Outcome(r.m, "next", <<v>> \o r.vals)
Returned(r) == Outcome(r.m, "return", r.vals)
CallOver(r) == IF r.flow = "return" THEN Outcome(r.m, "next", r.vals) ELSE r
Caught(r) ==
    IF r.flow = "raise" THEN Next1([r.m EXCEPT !.out = Append(@, Failure)], Nil) ELSE r
Memoized(at, r) == Next1([r.m EXCEPT !.cells[at] = First(r.vals)], First(r.vals))
Unboxed(r) == IF First(r.vals).v = "box" THEN Next1(r.m, First(r.vals).of) ELSE r

Operated(op, a, b, m) ==
    CASE op = "==" -> Next1(m, Bool(a = b))
      [] op = "~=" -> Next1(m, Bool(a # b))
      [] a.v # "int" \/ b.v # "int" -> Outcome(m, "raise", <<>>)
      [] op = "+" -> Next1(m, Num(a.n + b.n))
      [] OTHER -> Next1(m, Num(a.n - b.n))

Indexed(t, i, m) ==
    IF t.v # "table" THEN Outcome(m, "raise", <<>>)
    ELSE Next1(m, IF i \in DOMAIN m.cells[t.at] THEN m.cells[t.at][i] ELSE Nil)

Closure(ps, body, env) == [v |-> "function", ps |-> ps, body |-> body, env |-> env]

RECURSIVE Eval(_, _, _), EvalAll(_, _, _), Apply(_, _, _), Host(_, _, _), Exec(_, _, _), Store(_, _, _, _)

Eval(x, env, m) ==
    CASE x.e = "lit" -> Next1(m, x.v)
      [] x.e \in {"name", "raw"} -> Next1(m, Lookup(m, env, x.n))
      [] x.e = "slot" -> Indexed(Lookup(m, env, x.n), x.i, m)
      [] x.e = "table" -> Next1(Allocate(m, <<>>), [v |-> "table", at |-> Len(m.cells) + 1])
      [] x.e = "func" -> Next1(m, Closure(x.ps, x.body, env))
      [] x.e = "paren" -> Then(Eval(x.of[1], env, m), Truncated)
      [] x.e = "op" -> Then(EvalAll(x.of, env, m),
                            LAMBDA r : Operated(x.op, r.vals[1], First(Tail(r.vals)), r.m))
      [] OTHER -> Then(EvalAll(x.of, env, m),
                       LAMBDA r : Apply(First(r.vals), Tail(r.vals), r.m))

(* One value each, and all of the last one's.                              *)
EvalAll(es, env, m) ==
    CASE es = <<>> -> Outcome(m, "next", <<>>)
      [] Len(es) = 1 -> Eval(es[1], env, m)
      [] OTHER -> Then(Eval(es[1], env, m),
                       LAMBDA r : Then(EvalAll(Tail(es), env, r.m),
                                       LAMBDA rest : InFront(First(r.vals), rest)))

(* A call that fell off its end returned nothing.                          *)
Apply(f, args, m) ==
    CASE m.fuel = 0 -> Outcome(m, "stuck", <<>>)
      [] f.v = "function" ->
            LET d == Declare(Spent(m), f.env, f.ps, args) IN
            CallOver(Then(Exec(f.body, d.env, d.m), LAMBDA r : Outcome(r.m, "next", <<>>)))
      [] f.v = "host" -> Host(f.n, args, m)
      [] OTHER -> Outcome(m, "raise", <<>>)

Forced(t, m) == Host("__force", <<t>>, m)

(* The functions of the runtime and of the host; only __mll_run opens a    *)
(* box, __mll_run_tail hands it on.                                        *)
Host(n, args, m) ==
    LET x == First(args) IN
    CASE n = "emit" -> Next1([m EXCEPT !.out = Append(@, Each(args, Seen))], Nil)
      [] n \in {"error", "error_"} -> Outcome(m, "raise", <<>>)
      [] n = "both" -> Outcome(m, "next", <<Num(8), Num(9)>>)
      [] n = "try" -> Caught(Apply(x, <<>>, Spent(m)))
      [] n = "__thunk" \/ n \in ToSet(Carriers) ->
            Next1(Allocate(m, [v |-> "suspended", by |-> x, with |-> Tail(args)]),
                  [v |-> "thunk", at |-> Len(m.cells) + 1])
      [] n = "__force" ->
            CASE x.v # "thunk" -> Next1(m, x)
              [] m.cells[x.at].v # "suspended" -> Next1(m, m.cells[x.at])
              [] OTHER -> Then(Apply(m.cells[x.at].by, m.cells[x.at].with, m),
                               LAMBDA r : Memoized(x.at, r))
      [] n = "__mll_pure" -> Next1(m, [v |-> "box", of |-> x])
      [] n = "__mll_run" -> Then(Host("__mll_run_tail", args, m), Unboxed)
      [] OTHER -> Then(Forced(x, m),
                       LAMBDA a : IF First(a.vals).v = "function"
                                  THEN Apply(First(a.vals), <<>>, a.m) ELSE a)

(* What a statement does before it declares or assigns anything.           *)
Turns(b, env, m) == Exec(<<WhileTrue(b)>>, env, m)
Here(s, env, m) ==
    CASE s.s \in {"local", "assign", "multi", "expr"} -> EvalAll(s.es, env, m)
      [] s.s = "return" -> Then(EvalAll(s.es, env, m), Returned)
      [] s.s = "raw" -> Eval(Call(Name("emit"), s.es), env, m)
      [] s.s = "if" ->
            Then(Eval(s.es[1], env, m),
                 LAMBDA c : CASE Truthy(First(c.vals)) -> Exec(s.blocks[1], env, c.m)
                              [] Len(s.blocks) = 2 -> Exec(s.blocks[2], env, c.m)
                              [] OTHER -> Outcome(c.m, "next", <<>>))
      [] s.s = "do" -> Exec(s.blocks[1], env, m)
      [] s.s = "while" /\ m.fuel = 0 -> Outcome(m, "stuck", <<>>)
      [] s.s = "while" ->
            LET again(r) == Turns(s.blocks[1], env, r.m)
                jumped(r) == IF r.flow = "goto" THEN again(r) ELSE r
            IN jumped(Then(Exec(s.blocks[1], env, Spent(m)), again))
      [] s.s = "goto" -> Outcome(m, "goto", <<>>)
      [] OTHER -> Outcome(m, "next", <<>>)

(* A block: each statement in the environment those before it made.        *)
Exec(b, env, m) ==
    IF b = <<>> THEN Outcome(m, "next", <<>>)
    ELSE LET s == b[1]
             declares(r) ==
                 IF s.s \in {"local", "function"} THEN Declare(r.m, env, s.ns, r.vals)
                 ELSE [m |-> r.m, env |-> env]
             stores(r, d) ==
                 CASE s.s \in {"assign", "multi"} -> Store(s.lhs, r.vals, env, d.m)
                   [] s.s = "function" ->
                         Store(IF s.ns = <<>> THEN s.lhs ELSE <<Name(s.ns[1])>>,
                               <<Closure(s.ps, s.blocks[1], d.env)>>, d.env, d.m)
                   [] OTHER -> Outcome(d.m, "next", <<>>)
             goesOn(r, d) == Then(stores(r, d), LAMBDA w : Exec(Tail(b), d.env, w.m))
         IN Then(Here(s, env, m), LAMBDA r : goesOn(r, declares(r)))

(* The values go into the targets; a name nobody declared is a global.     *)
Store(lhs, vals, env, m) ==
    IF lhs = <<>> THEN Outcome(m, "next", <<>>)
    ELSE LET to == lhs[1]
             t == Lookup(m, env, to.n)
             rest == IF vals = <<>> THEN <<>> ELSE Tail(vals)
         IN CASE to.e = "name" /\ to.n \in DOMAIN env ->
                    Store(Tail(lhs), rest, env, [m EXCEPT !.cells[env[to.n]] = First(vals)])
              [] to.e = "slot" /\ t.v = "table" ->
                    Store(Tail(lhs), rest, env,
                          [m EXCEPT !.cells[t.at] = (to.i :> First(vals)) @@ @])
              [] OTHER -> Outcome(m, "raise", <<>>)

(* What a chunk is seen to do.                                             *)
Behaviour(b) ==
    LET r == Exec(b, <<>>, [cells |-> <<>>, out |-> <<>>, fuel |-> Fuel])
    IN [out |-> r.m.out, flow |-> r.flow, vals |-> Each(r.vals, Seen)]
===============================================================================
