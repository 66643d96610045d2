------------------------------- MODULE LuaThunks -------------------------------
(***************************************************************************)
(* Pass 0 (codegen/thunklift.rs): the body of a suspension becomes a       *)
(* function of the module, made once, and the suspension carries the       *)
(* values of what the body captured.  A closure captures variables, so     *)
(* each of them must have its last value when the suspension is made.      *)
(*                                                                         *)
(* A frame is a function around the place of the walk: its body, the names *)
(* bound so far, and those of them that are settled, assigned for the last *)
(* time.                                                                   *)
(***************************************************************************)
EXTENDS LuaExpressions

MaxCarried == 4          \* of __mll_tk1 .. __mll_tk4

Frame(ps, b) == [body |-> b, bound |-> ToSet(ps), settled |-> {}]
Opaques(b) == \E s \in ToSet(AllStmts(b)) : s.s = "raw"

(* A force of a variable into itself is not an assignment: it only changes *)
(* how the value is represented.                                           *)
InPlaceForce(s) == s.s = "assign" /\ s.es[1] = Call(Name("__force"), s.lhs)
Targets(s) ==
    IF s.s \in {"assign", "multi"} /\ ~InPlaceForce(s)
    THEN {x.n : x \in {y \in ToSet(s.lhs) : y.e = "name"}} ELSE {}
CountIn(stmts, n) == Cardinality({i \in DOMAIN stmts : n \in Targets(stmts[i])})
AssignedAnywhere(b) ==
    UNION {Targets(s) \cup (IF s.s = "local" /\ s.es = <<>> THEN ToSet(s.ns) ELSE {}) :
              s \in ToSet(AllStmts(b))}

(* walk_block: at the i-th statement, what the block has declared, and     *)
(* which of it has been assigned as often as the function ever does; what  *)
(* the literals inside assign counts to that, and never happens here.      *)
Locals(b, i) == UNION {ToSet(b[j].ns) : j \in {k \in 1..i : b[k].s = "local"}}
\* Mutant of SettledBefore: a local is settled once the block has assigned it.
SettledOnce(b, i, body) == UNION {Targets(s) : s \in ToSet(OwnStmts(SubSeq(b, 1, i - 1)))}
SettledBefore(b, i, body) ==
    {n \in UNION {Targets(s) : s \in ToSet(OwnStmts(SubSeq(b, 1, i - 1)))} :
        /\ CountIn(OwnStmts(SubSeq(b, 1, i - 1)), n) = CountIn(AllStmts(body), n)
        /\ \E j \in 1..(i - 1) : /\ n \in Locals(b, j)
                                 /\ \E s \in ToSet(OwnStmts(<<b[j]>>)) : n \in Targets(s)}

Inside(frames, b, i) ==
    IF frames = <<>> THEN <<>>
    ELSE Append(Front(frames),
            [Last(frames) EXCEPT
                !.bound = @ \cup Locals(b, i - 1)
                            \cup UNION {ToSet(b[j].ns) : j \in {k \in 1..i : b[k].s = "function"}},
                !.settled = @ \cup SettledBefore(b, i, Last(frames).body)])

(* try_lift.                                                               *)
Binding(frames, n) ==
    LET at == {k \in DOMAIN frames : n \in frames[k].bound}
    IN frames[CHOOSE k \in at : \A j \in at : j <= k]
Captured(b, frames) ==
    {n \in FreeNames(Func(<<>>, b)) : \E k \in DOMAIN frames : n \in frames[k].bound}
Final(n, frame) == ~Opaques(frame.body) /\ (n \in AssignedAnywhere(frame.body) => n \in frame.settled)
Liftable(b, frames) ==
    /\ frames # <<>>
    /\ \A s \in ToSet(AllStmts(b)) : s.s # "raw"
    /\ \A x \in ToSet(AllExprs(b)) : x.e # "raw"
    /\ \A n \in Captured(b, frames) : Final(n, Binding(frames, n)) /\ n \notin AssignedAnywhere(b)
    /\ Cardinality(Captured(b, frames)) <= MaxCarried

(* The suspension with what it carries, and the function to define.        *)
Carrier(slot, captures) ==
    IF captures = <<>> THEN Call(Name("__thunk"), <<slot>>)
    ELSE Call(Name("__mll_tk" \o ToString(Len(captures))), <<slot>> \o Each(captures, Name))
Lifted(b, captures, st) ==
    Done(Carrier(Slot(ThunkTable, st.next), captures),
         [next |-> st.next + 1,
          defs |-> Append(st.defs, AssignFunction(Slot(ThunkTable, st.next), captures, b))])
LiftOrKeep(r, frames) ==
    IF Liftable(r.out, frames) THEN Lifted(r.out, SetToSeq(Captured(r.out, frames)), r.st)
    ELSE Done(Call(Name("__thunk"), <<Func(<<>>, r.out)>>), r.st)

RECURSIVE LiftExpr(_, _, _), LiftBlock(_, _, _), LiftStmt(_, _, _)
LiftExpr(x, frames, st) ==
    CASE Suspends(x) /\ x.of[2].ps = <<>> ->
            LiftOrKeep(LiftBlock(x.of[2].body, Append(frames, Frame(<<>>, x.of[2].body)), st), frames)
      [] x.e = "func" -> InFunc(x.ps, LiftBlock(x.body, Append(frames, Frame(x.ps, x.body)), st))
      [] "of" \in DOMAIN x -> WithNewParts(x, Threaded(x.of, st, LAMBDA y, t : LiftExpr(y, frames, t)))
      [] OTHER -> Done(x, st)
Restated(s, es, frames) ==
    LET bs == Threaded(s.blocks, es.st, LAMBDA c, t : LiftBlock(c, frames, t))
    IN Done([s EXCEPT !.es = es.out, !.blocks = bs.out], bs.st)
LiftStmt(s, frames, st) ==
    IF s.s = "function" THEN Restated(s, Done(<<>>, st), Append(frames, Frame(s.ps, s.blocks[1])))
    ELSE Restated(s, Threaded(s.es, st, LAMBDA x, t : LiftExpr(x, frames, t)), frames)
LiftBlock(b, frames, st) ==
    Threaded([i \in DOMAIN b |-> i], st, LAMBDA i, t : LiftStmt(b[i], Inside(frames, b, i), t))

(* run: the functions go before the statement of the chunk they come from, *)
(* and are numbered on when the passes run again.                          *)
SlotsTaken(b) == {s.lhs[1].i : s \in {t \in ToSet(b) : t.s = "function" /\ BodyReturns(t, "") = "single"}}
Following(b) == Cardinality(SlotsTaken(b))
Placed(r) == Done(r.st.defs \o <<r.out>>, [r.st EXCEPT !.defs = <<>>])
WithTable(b, new) ==
    IF Len(new) = Len(b) \/ \E s \in ToSet(b) : s.s = "local" /\ s.ns = <<ThunkTable>> THEN new
    ELSE <<Local(<<ThunkTable>>, <<NewTable>>)>> \o new
LiftThunks(b) ==
    WithTable(b, FlattenSeq(
        Threaded(b, [next |-> Following(b), defs |-> <<>>],
                 LAMBDA s, st : Placed(LiftStmt(s, <<>>, st))).out))
===============================================================================
