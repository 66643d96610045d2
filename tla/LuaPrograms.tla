------------------------------ MODULE LuaPrograms -----------------------------
(***************************************************************************)
(* Modules for the passes over the tree, in the shapes the emitter hands   *)
(* over: functions in slots, locals and forward declared locals, that call *)
(* themselves with new arguments until the first is 0, actions that run    *)
(* themselves, and closures that outlive the turn that made them.          *)
(***************************************************************************)
EXTENDS LuaTrees

NumLit(n) == Lit([v |-> "int", n |-> n])
NilLit == Lit([v |-> "nil"])
a == Name("_arg0")
b == Name("_arg1")
n == Name("n")
c == Name("c")
saved == Name("saved")
Is0(x) == Op("==", x, NumLit(0))
Less(x) == Op("-", x, NumLit(1))
Plus(x, y) == Op("+", x, y)
Emit(x) == Call(Name("emit"), <<x>>)
Force(x) == Call(Name("__force"), <<x>>)
Thunk(x) == Call(Name("__thunk"), <<Func(<<>>, <<Return(x)>>)>>)
RunAction(x) == Call(Name("__mll_run"), <<x>>)
RunTail(x) == Call(Name("__mll_run_tail"), <<x>>)
Try(x) == Call(Name("try"), <<x>>)
Error == Call(Name("error"), <<>>)
Const(x) == Func(<<>>, <<Return(x)>>)

Header == <<Local(<<"__mll_fn">>, <<NewTable>>), Local(<<"saved">>, <<>>), Local(<<"c">>, <<NumLit(7)>>)>>

(***************************************************************************)
(* Where a function lives: what defines it, and how it is called.  The     *)
(* last is assigned a second time, by a function that never runs.          *)
(***************************************************************************)
Homes == {"slot", "local", "forward", "rebound"}
SelfOf(home) == IF home = "slot" THEN Slot("__mll_fn", 1) ELSE Name("go")
Defined(home, ps, body) ==
    CASE home = "slot" -> <<AssignFunction(SelfOf(home), ps, body)>>
      [] home = "local" -> <<LocalFunction("go", ps, body)>>
      [] home = "forward" -> <<Local(<<"go">>, <<>>), AssignFunction(Name("go"), ps, body)>>
      [] OTHER -> <<Local(<<"go">>, <<>>), AssignFunction(Name("go"), ps, body),
                    Local(<<"old">>, <<Name("go")>>),
                    AssignFunction(Name("go"), <<"_arg0", "_arg1">>, <<Return(NumLit(5))>>)>>
Entry(home) == IF home = "rebound" THEN Name("old") ELSE SelfOf(home)

(***************************************************************************)
(* Functions of two arguments that end by calling themselves, by what the  *)
(* second argument is: a number, a thunk or a closure.                     *)
(***************************************************************************)
Again(home, x, y) == Return(Call(SelfOf(home), <<x, y>>))
Down(home, y) == Again(home, Less(a), y)
Until(base, then) == <<IfElse(Is0(a), <<Return(base)>>, then)>>

NumberBodies(home) ==
    LET down(y) == Down(home, y)
    IN {Until(b, <<down(Plus(b, a))>>),
        Until(b, <<Again(home, b, Less(a))>>),
        Until(Call(Name("both"), <<>>), <<down(b)>>),
        Until(Paren(Call(Name("both"), <<>>)), <<Return(Paren(Call(SelfOf(home), <<Less(a), b>>)))>>),
        Until(b, <<Do(<<Local(<<"n">>, <<Plus(a, b)>>), down(n)>>)>>),
        Until(b, <<Local(<<"_arg1">>, <<Less(a)>>), Again(home, b, b)>>),
        Until(Raw("_arg1"), <<down(a)>>),
        Until(b, <<LocalFunction("n", <<>>, <<Return(a)>>), down(Plus(b, Call(n, <<>>)))>>),
        Until(b, <<Local(<<"_w0">>, <<a>>), down(Name("_w0"))>>),
        <<Assign(<<a>>, <<Force(a)>>), IfElse(Is0(a), <<Return(b)>>, <<Again(home, Thunk(Less(a)), a)>>)>>,
        <<If(Is0(a), <<Return(b)>>), down(Plus(b, b))>>,
        <<IfElse(Is0(a), <<Run(Emit(b))>>, <<down(a)>>)>>,
        <<If(Is0(Less(a)), <<Again(home, NumLit(0), NumLit(3))>>),
          IfElse(Is0(a), <<Return(b)>>, <<down(a)>>)>>,
        <<IfElse(Is0(a), <<Return(b)>>, <<IfElse(Is0(b), <<down(a)>>, <<Run(Emit(a)), down(NumLit(0))>>)>>)>>,
        <<IfElse(Is0(a), <<Run(Error)>>, <<Run(Emit(b)), down(a)>>)>>}

ThunkBodies(home) ==
    {Until(Force(b), <<Down(home, Thunk(Plus(a, Force(b))))>>)}

ClosureBodies(home) ==
    {Until(Call(b, <<>>), <<Down(home, y)>>) :
        y \in {Const(a), Const(Plus(a, Call(b, <<>>))),
               Func(<<"_arg0">>, <<Return(Plus(Call(b, <<>>), NumLit(1)))>>)}}

(* Closures made in a turn: some the same in every turn, some kept.        *)
KeepingBodies(home) ==
    LET keep(y) == Assign(<<saved>>, <<Const(y)>>)
        then(effects) == Until(b, effects \o <<Down(home, b)>>)
    IN {then(<<Run(Try(Func(<<>>, <<Run(Emit(c))>>))), Assign(<<c>>, <<Plus(c, a)>>)>>),
        then(<<Run(Try(Func(<<>>, <<Run(Emit(a))>>)))>>),
        then(<<Local(<<"n">>, <<Plus(a, a)>>), Run(Try(Func(<<>>, <<Run(Emit(n))>>)))>>),
        then(<<Local(<<"c">>, <<a>>), keep(c)>>),
        then(<<If(Is0(Less(a)), <<keep(Plus(a, c))>>)>>),
        then(<<keep(Call(Paren(Func(<<"n">>, <<Return(Plus(n, c))>>)), <<a>>))>>),
        <<Local(<<"n">>, <<Plus(a, b)>>), keep(Plus(Plus(a, b), Plus(n, c))),
          Assign(<<n>>, <<Plus(n, NumLit(1))>>)>> \o Until(b, <<Down(home, b)>>),
        <<Local(<<"m", "n">>, <<Call(Name("both"), <<>>)>>),
          If(Is0(Less(a)), <<keep(Call(Const(Plus(Plus(a, Name("m")), Plus(n, c))), <<>>))>>),
          Assign(<<Name("m")>>, <<b>>)>> \o Until(b, <<Down(home, n)>>)}

(***************************************************************************)
(* What the emitter leaves to be tidied: parentheses, arms that are never  *)
(* taken, literals called on the spot, forces of values, and suspensions   *)
(* of variables that are assigned before, after or in between.             *)
(***************************************************************************)
Here(ps, args, body) == Call(Paren(Func(ps, body)), args)
Now(body) == Here(<<>>, <<>>, body)
m == Name("m")
Not0(x) == Op("~=", x, NumLit(0))
True == Lit([v |-> "bool", b |-> TRUE])
Both == Call(Name("both"), <<>>)
Inner(ns, es, body) == Now(<<Local(ns, es)>> \o body)

TidyBodies(home) ==
    LET down(y) == Down(home, y)
        then(effects) == Until(b, effects \o <<down(b)>>)
    IN {Until(b, <<Run(Call(Name("emit"), <<Paren(Both)>>)), Again(home, Paren(Less(a)), Paren(Paren(b)))>>),
        Until(b, <<Run(Emit(Force(Thunk(Paren(Both))))), Return(Paren(Call(SelfOf(home), <<Less(a), b>>)))>>),
        Until(Paren(Both), <<down(b)>>),
        <<IfElse(Is0(a), <<Return(b)>>, <<IfElse(Not0(a), <<down(a)>>, <<Run(Error)>>)>>)>>,
        <<IfElse(Is0(a), <<Return(b)>>, <<IfElse(Not0(b), <<down(NumLit(0))>>, <<Run(Emit(a)), down(NumLit(4))>>)>>)>>,
        <<IfElse(Is0(a), <<Return(b)>>, <<IfElse(True, <<Local(<<"n">>, <<a>>), down(n)>>, <<Run(Error)>>)>>),
          Run(Error)>>,
        <<Local(<<"n">>, <<a>>), If(Is0(a), <<Return(b)>>), If(True, <<Local(<<"n">>, <<b>>), Run(Emit(n))>>),
          Run(Emit(n)), down(n)>>,
        <<If(Is0(a), <<Return(b)>>), Run(Emit(a)), down(b), Run(Error)>>,
        Until(b, <<Return(Here(<<"n">>, <<Paren(Both)>>, <<down(n)>>))>>),
        Until(b, <<Return(Here(<<"_arg1", "_arg0">>, <<a, b>>,
                              <<Run(Emit(a)), IfElse(Is0(a), <<down(b)>>, <<Again(home, Less(b), a)>>)>>))>>),
        <<Return(Now(Until(b, <<down(Plus(b, a))>>)))>>,
        then(<<Local(<<"n">>, <<Now(<<Return(Paren(Call(SelfOf(home), <<Less(a), b>>)))>>)>>), Run(Emit(n))>>),
        then(<<Local(<<"n">>, <<Inner(<<"m">>, <<Plus(a, b)>>, <<Return(Plus(m, m))>>)>>), Run(Emit(n))>>),
        then(<<Local(<<"n">>, <<a>>),
               Do(<<Local(<<"n">>, <<Now(<<IfElse(Is0(n), <<Return(b)>>, <<Return(Less(n))>>)>>)>>), Run(Emit(n))>>)>>),
        then(<<Local(<<"n">>, <<Now(<<IfElse(Is0(Less(a)), <<Return(b)>>, <<Run(Emit(a))>>)>>)>>),
               Run(Call(Name("emit"), <<Op("==", n, NilLit)>>))>>),
        then(<<Assign(<<c>>, <<Now(<<If(Is0(Less(a)), <<Return(b)>>)>>)>>), Run(Call(Name("emit"), <<Op("==", c, NilLit)>>))>>),
        then(<<Assign(<<c>>, <<Now(<<IfElse(Is0(Less(a)), <<Return(a)>>, <<Run(Emit(a)), Return(b)>>)>>)>>), Run(Emit(c))>>),
        then(<<Assign(<<c>>, <<Inner(<<"c">>, <<Plus(a, c)>>, <<Return(Plus(c, b))>>)>>)>>),
        then(<<Assign(<<saved>>, <<Const(c)>>), Assign(<<c>>, <<Inner(<<"c">>, <<a>>, <<Return(Plus(c, b))>>)>>)>>),
        then(<<Local(<<"n">>, <<Inner(<<"c">>, <<a>>, <<Return(Plus(c, b))>>)>>), Run(Emit(Plus(n, c)))>>)}

EvaluatedBodies(home) ==
    LET then(effects) == Until(Force(b), effects \o <<Down(home, Thunk(Plus(a, Force(b))))>>)
        one(x) == Local(<<"n">>, <<x>>)
        settle(x) == Assign(<<n>>, <<x>>)
        atOne(effects) == If(Is0(Less(a)), effects)
    IN {then(<<one(Force(b)), Run(Emit(Force(n))), Run(Emit(Plus(Force(n), a)))>>),
        then(<<one(Force(b)), atOne(<<settle(Thunk(a))>>), Run(Emit(Force(n)))>>),
        then(<<one(b), Local(<<"m">>, <<Force(n)>>), Run(Emit(Plus(Force(n), Force(m))))>>),
        <<Assign(<<b>>, <<Force(b)>>)>> \o Until(Force(b), <<Down(home, Thunk(Plus(a, Force(b))))>>),
        then(<<Local(<<"n">>, <<>>), IfElse(Is0(Less(a)), <<settle(Force(b)), Run(Emit(Force(n)))>>, <<settle(b)>>),
               Run(Emit(Force(n)))>>),
        then(<<Local(<<"n">>, <<b>>), atOne(<<settle(Force(n)), Run(Emit(Force(n)))>>), Run(Emit(Force(n)))>>),
        then(<<Run(Emit(Force(Call(Func(<<"n">>, <<Return(Force(n))>>), <<b>>))))>>),
        then(<<one(Force(b)), Run(Emit(Call(Paren(Func(<<"n">>, <<Return(Force(n))>>)), <<b>>)))>>),
        then(<<Run(Emit(Force(Paren(Force(Both)))))>>),
        then(<<Local(<<"n">>, <<>>), Local(<<"m">>, <<Thunk(Plus(n, a))>>), settle(NumLit(3)), Run(Emit(Force(m)))>>),
        then(<<Local(<<"n">>, <<>>), settle(a), Local(<<"m">>, <<Thunk(Plus(n, Force(b)))>>), Run(Emit(Force(m)))>>),
        then(<<one(a), Local(<<"m">>, <<Thunk(Plus(n, Force(b)))>>), settle(NumLit(3)), Run(Emit(Force(m)))>>),
        then(<<Local(<<"n">>, <<>>), settle(a), Local(<<"m">>, <<Thunk(Plus(n, a))>>), settle(NumLit(3)), Run(Emit(Force(m)))>>),
        then(<<one(a), atOne(<<settle(NumLit(4))>>), Local(<<"m">>, <<Thunk(Plus(n, a))>>), Run(Emit(Force(m)))>>),
        then(<<one(a), atOne(<<Local(<<"m">>, <<Thunk(Plus(n, a))>>), settle(NumLit(4)), Run(Emit(Force(m)))>>)>>),
        then(<<one(a), Local(<<"m">>, <<Func(<<>>, <<settle(Plus(n, NumLit(1)))>>)>>),
               Assign(<<saved>>, <<Thunk(Plus(n, a))>>), Run(Call(m, <<>>)), Run(Emit(Force(saved))), Assign(<<saved>>, <<NilLit>>)>>),
        then(<<Local(<<"m">>, <<Thunk(Plus(Force(b), a))>>), Assign(<<b>>, <<Force(b)>>), Run(Emit(Plus(Force(m), b)))>>),
        then(<<Local(<<"m">>, <<Thunk(Force(Thunk(Plus(Force(b), a))))>>), Run(Emit(Force(m)))>>),
        then(<<Run(Emit(Force(Thunk(Now(<<Assign(<<a>>, <<Less(a)>>), Return(a)>>))))), Run(Emit(a)), Assign(<<a>>, <<Plus(a, NumLit(1))>>)>>),
        then(<<Run(Emit(Force(Thunk(Force(c)))))>>)}

(***************************************************************************)
(* Functions of two arguments that return an action which ends by running  *)
(* the action of the next arguments.                                       *)
(***************************************************************************)
ActionBodies(home) ==
    LET next(x, y) == <<Return(RunTail(Call(SelfOf(home), <<x, y>>)))>>
        action(effects, y) == <<Return(Func(<<>>, effects \o next(Less(a), y)))>>
        until(base, then) == <<IfElse(Is0(a), base, then)>>
        ended == <<Return(Const(b))>>
        emits == <<Run(Emit(a))>>
        atOne(effects) == <<If(Is0(Less(a)), effects)>>
    IN {until(base, action(emits, Plus(b, a))) :
            base \in {ended, <<Return(Call(Name("__mll_pure"), <<b>>))>>, <<Return(Const(Call(Name("both"), <<>>)))>>,
                      <<Run(Error)>>, <<Run(Emit(b)), Return(NilLit)>>}}
       \cup
       {until(ended, <<Return(Func(<<>>, emits \o next(b, Less(a))))>>),
        until(ended, action(<<Assign(<<saved>>, <<Const(a)>>)>>, b)),
        until(ended, action(<<If(saved, <<Local(<<"n">>, <<saved>>), Assign(<<saved>>, <<NilLit>>),
                                          Run(Emit(RunAction(n)))>>)>> \o emits, b)),
        until(ended, action(emits \o atOne(<<If(Op("==", c, NumLit(7)),
                                               <<Assign(<<c>>, <<NumLit(8)>>), Run(Error)>>)>>), b)),
        until(ended, <<Return(Func(<<>>, atOne(next(Less(a), b)) \o emits))>>),
        until(ended, <<Return(Func(<<>>, <<IfElse(Is0(b), next(Less(a), NumLit(1)), next(Less(a), NumLit(0)))>>))>>),
        until(ended, action(<<Local(<<"_arg0">>, <<b>>)>>, b)),
        until(ended, <<Return(Func(<<>>, <<Return(RunAction(Call(SelfOf(home), <<Less(a), b>>)))>>))>>),
        <<Run(Emit(a))>> \o until(ended, action(emits, b)),
        <<Local(<<"n">>, <<Plus(a, b)>>)>> \o until(<<Return(Const(n))>>, action(<<Run(Emit(n))>>, n)),
        <<Assign(<<a>>, <<Force(a)>>)>>
            \o until(ended, <<Return(Func(<<>>, emits \o next(Thunk(Less(a)), Thunk(a))))>>),
        <<LocalFunction("n", <<>>, <<Return(Plus(a, b))>>)>>
            \o until(<<Return(n)>>, action(<<Run(Emit(Call(n, <<>>)))>>, a))}

(* A branch that hands over an action it was given.                        *)
ForwardingBodies(home) ==
    {<<IfElse(Is0(a), <<Return(b)>>,
              <<Return(Func(<<>>, <<Run(Emit(a)), Return(RunTail(Call(SelfOf(home), <<Less(a), Const(a)>>)))>>))>>)>>}

(* Functions that hand actions on without calling themselves.              *)
CaptureBodies ==
    {<<Return(Const(Plus(Plus(a, b), c)))>>,
     <<Return(Const(Force(RunAction(Call(Name("__mll_pure"), <<a>>)))))>>,
     <<Local(<<"n">>, <<NilLit>>), Assign(<<n>>, <<Const(Plus(a, b))>>), Return(Const(Const(Plus(Call(n, <<>>), c))))>>,
     <<Local(<<"n">>, <<>>), AssignFunction(n, <<"m">>, <<IfElse(Is0(Name("m")), <<Return(Plus(b, c))>>,
                                                      <<Return(Call(n, <<Less(Name("m"))>>))>>)>>),
       Return(Const(Call(n, <<a>>)))>>,
     <<LocalFunction("n", <<>>, <<Return(Plus(a, b))>>), Return(Const(Plus(Call(n, <<>>), Plus(a, c))))>>,
     <<WhileTrue(<<Local(<<"n">>, <<a>>), If(Is0(n), <<Return(Force(Thunk(Plus(a, b))))>>),
                   Assign(<<a>>, <<Less(a)>>),
                   Assign(<<saved>>, <<Const(Plus(Plus(n, a), Plus(b, c)))>>)>>)>>,
     <<Local(<<"n">>, <<a>>), Local(<<"m">>, <<b>>), Local(<<"o">>, <<c>>),
       Return(Const(Plus(Force(Thunk(Plus(n, m))),
                         Force(Thunk(Plus(Plus(a, b), Plus(n, Plus(m, Name("o")))))))))>>,
     <<Local(<<"n">>, <<>>), RawStmt("_arg1"),
       Return(Const(Force(Thunk(Plus(Plus(a, b), c)))))>>}

-----------------------------------------------------------------------------
(* The chunks: two turns and what comes back, then what was kept.          *)

One == NumLit(1)
Observed == <<If(saved, <<Run(Emit(Call(saved, <<>>)))>>)>>
Defining(home, body) == Header \o Defined(home, <<"_arg0", "_arg1">>, body)
Entered(home, x, y) == Call(Entry(home), <<NumLit(x), y>>)

Calling(home, bodies, start) ==
    {Defining(home, body) \o <<Run(Emit(Entered(home, 2, start)))>> \o Observed : body \in bodies}

TailPrograms ==
    UNION {Calling(h, NumberBodies(h) \cup KeepingBodies(h), One)
           \cup Calling(h, ThunkBodies(h), Thunk(One))
           \cup Calling(h, ClosureBodies(h), Const(One)) : h \in Homes}
    \cup UNION {Calling(h, TidyBodies(h), One) \cup Calling(h, EvaluatedBodies(h), Thunk(One)) :
                   h \in {"slot", "local"}}

(* An action is built, at once and in a failing attempt, and run twice.    *)
Running(home, bodies, start) ==
    {Defining(home, body)
       \o <<Run(Try(Const(Entered(home, 0, start)))),
            Local(<<"act">>, <<Entered(home, 2, start)>>),
            Assign(<<saved>>, <<Name("act")>>),
            Run(Try(Const(Call(Name("emit"), <<RunAction(Name("act"))>>)))),
            Run(Emit(RunAction(Name("act"))))>>
       \o Observed : body \in bodies}

ActionPrograms ==
    UNION {Running(h, ActionBodies(h), One) \cup Running(h, ForwardingBodies(h), Const(One)) : h \in Homes}

CapturePrograms ==
    {Defining("local", body)
       \o <<Local(<<"r">>, <<Entered("local", 2, One)>>), Assign(<<c>>, <<NumLit(9)>>),
            Local(<<"r">>, <<RunAction(Name("r"))>>), Run(Emit(RunAction(Name("r"))))>> \o Observed :
        body \in CaptureBodies}

Modules == TailPrograms \cup ActionPrograms \cup CapturePrograms
===============================================================================
