------------------------- MODULE ActionRunnersProofs -------------------------
(***************************************************************************)
(* Compiled actions: a variable read bare holds no thunk, no variable ever *)
(* holds a pending box and no box another, and a chain of tail calls runs  *)
(* in constant stack, for every set of programs.                           *)
(*                                                                         *)
(* A value reaches the code that inspects it after a stay in a frame, the  *)
(* IORef or another value, so the invariant speaks of all of them: there   *)
(* is a set V of values, closed under their parts, that the state is made  *)
(* of.  A box may come back only to a frame that looks for one; a bind     *)
(* frame does not, so none lies where the result of a forwarding runner    *)
(* goes.                                                                   *)
(***************************************************************************)
EXTENDS ActionRunners, SequenceTheorems, TLAPS

(***************************************************************************)
(* The values of a state.  ex says that a raw result was exposed.          *)
(***************************************************************************)

\* A variable read bare holds no thunk; none holds a box.
Envs(V, ex) ==
    {e \in [value : V, whnf : BOOLEAN] :
        (e.whnf => ~IsRaw(e.value)) /\ (~ex => e.value.is # "box")}

Closures(V, ex) ==
    [is : {"closure"}, body : Terms, env : Envs(V, ex), pos : {"arg", "tail"}]

MadeOf(v, V, ex) ==
    /\ v.is = "closure" => v \in Closures(V, ex)
    /\ v.is \in {"later", "right", "box"} => v.of \in V
    /\ v.is = "box" /\ ~ex => v.of.is # "box"

Closed(V, ex) ==
    {Datum, Bottom, LeftOf} \subseteq V /\ \A v \in V : MadeOf(v, V, ex)

BindFrames == [wait : {"bind"}, then : Terms, whnf : BOOLEAN]
StmtFrames(V, ex) == [wait : {"stmt"}, then : Terms, env : Envs(V, ex)]
CatchFrames(V, ex) == [wait : {"catch"}, handler : Terms, env : Envs(V, ex)]
ApplyFrames == [wait : {"apply"}, fn : Terms]
PlainFrames == [wait : {"unbox", "run", "try", "bare"}]

Frames(V, ex) ==
    BindFrames \cup StmtFrames(V, ex) \cup CatchFrames(V, ex) \cup ApplyFrames \cup PlainFrames

Performs(V, ex) == [do : {"perform"}, act : Terms, env : Envs(V, ex), pos : Positions]
RunsOf(V) == [do : {"run"}, value : V, runner : {"consume", "forward"}]
Returns(V) == [do : {"return"}, value : V]
Focuses(V, ex) == Performs(V, ex) \cup RunsOf(V) \cup Returns(V) \cup {Raise}

(***************************************************************************)
(* The order of the frames.                                                *)
(***************************************************************************)

\* Frames whose own result is that of code run in tail position.
Passing == {"bind", "stmt", "apply", "catch", "bare"}

NoBind(fs) == Len(fs) > 0 => fs[1].wait # "bind"
NoWhnf(fs) == Len(fs) > 0 => (fs[1].wait = "bind" => ~fs[1].whnf)

\* No bind frame is where such a result goes, and only the innermost frame binds
\* a variable that is read bare.
Ordered(fs) ==
    \A i \in 1 .. (Len(fs) - 1) :
        /\ fs[i].wait \in Passing => fs[i + 1].wait # "bind"
        /\ fs[i + 1].wait = "bind" => ~fs[i + 1].whnf

\* What a bind frame gets: never a box, and no thunk if it is read bare.
Fits(fo, fs, ex) ==
    Len(fs) > 0 /\ fs[1].wait = "bind" =>
        /\ fo.do = "perform" => fo.pos = "bind" /\ (fs[1].whnf => ResultIsWhnf(fo.act))
        /\ fo.do = "run" => fo.runner = "consume" /\ ~fs[1].whnf
        /\ fo.do = "return" => /\ ~ex => fo.value.is # "box"
                               /\ fs[1].whnf => ~IsRaw(fo.value)

State(V, fo, fs, s, ex) ==
    /\ Closed(V, ex) /\ ex \in BOOLEAN
    /\ s \in V /\ (~ex => s.is # "box")
    /\ fo \in Focuses(V, ex)
    /\ fs \in Seq(Frames(V, ex))
    /\ Ordered(fs) /\ Fits(fo, fs, ex)

ActInv == \E V : State(V, focus, pending, slot, exposed)

(***************************************************************************)
(* Stacks.                                                                 *)
(***************************************************************************)
LEMMA Pushed ==
    ASSUME NEW S, NEW s \in Seq(S), NEW f \in S
    PROVE  /\ <<f>> \o s \in Seq(S) /\ Len(<<f>> \o s) = Len(s) + 1
           /\ (<<f>> \o s)[1] = f
           /\ \A i \in 1 .. Len(s) : (<<f>> \o s)[i + 1] = s[i]
  OBVIOUS

LEMMA Popped ==
    ASSUME NEW S, NEW s \in Seq(S), s # <<>>
    PROVE  /\ Len(s) > 0 /\ s[1] \in S /\ Head(s) = s[1]
           /\ Tail(s) \in Seq(S) /\ Len(Tail(s)) = Len(s) - 1
           /\ \A i \in 1 .. (Len(s) - 1) : Tail(s)[i] = s[i + 1]
  OBVIOUS

LEMMA SeqGrown ==
    ASSUME NEW S, NEW T, S \subseteq T, NEW s \in Seq(S)
    PROVE  s \in Seq(T)
  OBVIOUS

(* A frame put on a stack: the one below is no bind frame if its result is *)
(* passed on, and binds nothing that is read bare.                         *)
LEMMA OrderedPush ==
    ASSUME NEW S, NEW s \in Seq(S), NEW f \in S, Ordered(s), NoWhnf(s), f.wait \in Passing => NoBind(s)
    PROVE  Ordered(<<f>> \o s)
<1> DEFINE t == <<f>> \o s
<1>1. /\ t[1] = f /\ Len(t) = Len(s) + 1 /\ Len(s) \in Nat
      /\ \A i \in 1 .. Len(s) : t[i + 1] = s[i]
  BY Pushed
<1> HIDE DEF t
<1>2. ASSUME NEW i \in 1 .. (Len(t) - 1)
      PROVE  /\ t[i].wait \in Passing => t[i + 1].wait # "bind"
             /\ t[i + 1].wait = "bind" => ~t[i + 1].whnf
  <2>1. t[i + 1] = s[i] /\ i \in 1 .. Len(s) BY <1>1
  <2>2. CASE i = 1 BY <1>1, <2>1, <2>2 DEF NoWhnf, NoBind
  <2>3. CASE i # 1
    <3>1. i - 1 \in 1 .. (Len(s) - 1) BY <1>1, <2>1, <2>3
    <3>2. t[i] = s[i - 1] /\ t[i + 1] = s[(i - 1) + 1] BY <1>1, <2>1, <3>1
    <3>3. QED BY <3>1, <3>2 DEF Ordered
  <2>4. QED BY <2>2, <2>3
<1>3. QED BY <1>2 DEF Ordered, t

(* A frame taken off.                                                      *)
LEMMA OrderedPop ==
    ASSUME NEW S, NEW s \in Seq(S), s # <<>>, Ordered(s)
    PROVE  /\ Ordered(Tail(s)) /\ NoWhnf(Tail(s))
           /\ s[1].wait \in Passing => NoBind(Tail(s))
<1>1. /\ Len(s) > 0 /\ Len(s) \in Nat /\ Len(Tail(s)) = Len(s) - 1
      /\ \A i \in 1 .. (Len(s) - 1) : Tail(s)[i] = s[i + 1]
  BY Popped
<1> DEFINE t == Tail(s)
<1>2. Len(t) = Len(s) - 1 /\ \A i \in 1 .. (Len(s) - 1) : t[i] = s[i + 1] BY <1>1
<1> HIDE DEF t
<1>3. Ordered(t)
  <2>1. ASSUME NEW i \in 1 .. (Len(t) - 1)
        PROVE  /\ t[i].wait \in Passing => t[i + 1].wait # "bind"
               /\ t[i + 1].wait = "bind" => ~t[i + 1].whnf
    <3>1. i + 1 \in 1 .. (Len(s) - 1) /\ t[i] = s[i + 1] /\ t[i + 1] = s[(i + 1) + 1]
      BY <1>1, <1>2
    <3>2. QED BY <3>1 DEF Ordered
  <2>2. QED BY <2>1 DEF Ordered
<1>4. ASSUME Len(t) > 0 PROVE t[1] = s[1 + 1] /\ 1 \in 1 .. (Len(s) - 1)
  BY <1>1, <1>2, <1>4
<1>5. NoWhnf(t) /\ (s[1].wait \in Passing => NoBind(t))
  BY <1>4 DEF Ordered, NoWhnf, NoBind
<1>6. QED BY <1>3, <1>5 DEF t

(***************************************************************************)
(* Values.                                                                 *)
(***************************************************************************)

(* More values, or an exposure, only allow more.                           *)
LEMMA Grown ==
    ASSUME NEW V, NEW W, NEW ex, NEW fx, V \subseteq W, ex => fx
    PROVE  /\ Envs(V, ex) \subseteq Envs(W, fx)
           /\ Closures(V, ex) \subseteq Closures(W, fx)
           /\ Frames(V, ex) \subseteq Frames(W, fx)
           /\ Performs(V, ex) \subseteq Performs(W, fx)
           /\ Focuses(V, ex) \subseteq Focuses(W, fx)
<1>1. Envs(V, ex) \subseteq Envs(W, fx) BY DEF Envs
<1>2. Closures(V, ex) \subseteq Closures(W, fx) BY <1>1 DEF Closures
<1>3. StmtFrames(V, ex) \subseteq StmtFrames(W, fx) BY <1>1 DEF StmtFrames
<1>4. CatchFrames(V, ex) \subseteq CatchFrames(W, fx) BY <1>1 DEF CatchFrames
<1>5. Performs(V, ex) \subseteq Performs(W, fx) BY <1>1 DEF Performs
<1>6. RunsOf(V) \subseteq RunsOf(W) BY DEF RunsOf
<1>7. Returns(V) \subseteq Returns(W) BY DEF Returns
<1>8. QED BY <1>1, <1>2, <1>3, <1>4, <1>5, <1>6, <1>7 DEF Frames, Focuses

LEMMA ExposureKeeps ==
    ASSUME NEW V, NEW ex, NEW fx, Closed(V, ex), ex => fx
    PROVE  Closed(V, fx)
  BY Grown DEF Closed, MadeOf

LEMMA WithValue ==
    ASSUME NEW V, NEW ex, Closed(V, ex), NEW v, MadeOf(v, V, ex)
    PROVE  Closed(V \cup {v}, ex)
<1>1. Closures(V, ex) \subseteq Closures(V \cup {v}, ex) BY Grown
<1>2. ASSUME NEW w \in V \cup {v} PROVE MadeOf(w, V \cup {v}, ex)
  <2>1. MadeOf(w, V, ex) BY DEF Closed
  <2>2. QED BY <1>1, <2>1 DEF MadeOf
<1>3. QED BY <1>2 DEF Closed

LEMMA LazyEnv ==
    ASSUME NEW V, NEW ex, NEW v \in V, ~ex => v.is # "box"
    PROVE  Lazy(v) \in Envs(V, ex) /\ Lazy(v).value = v
  BY DEF Lazy, Envs

LEMMA ClosureMade ==
    ASSUME NEW V, NEW ex, NEW a \in Terms, NEW e \in Envs(V, ex), NEW p \in {"arg", "tail"}
    PROVE  /\ MadeOf(Closure(a, e, p), V, ex)
           /\ Closure(a, e, p).is = "closure"
  BY DEF MadeOf, Closure, Closures

(* W is V with room for the value v, which is no box.                      *)
Room(V, W, ex, v) == V \subseteq W /\ Closed(W, ex) /\ v \in W /\ (~ex => v.is # "box")

LEMMA ClosureRoom ==
    ASSUME NEW V, NEW ex, Closed(V, ex), NEW a \in Terms, NEW e \in Envs(V, ex), NEW p \in {"arg", "tail"}
    PROVE  Room(V, V \cup {Closure(a, e, p)}, ex, Closure(a, e, p))
  BY ClosureMade, WithValue DEF Room

LEMMA PartsOf ==
    ASSUME NEW a \in Terms
    PROVE  /\ a.is \in {"if", "try", "catch", "bind", "seq", "let", "bindf"} => a.of \in Terms
           /\ a.is \in {"bind", "seq", "let"} => a.then \in Terms
           /\ a.is = "catch" => a.handler \in Terms
           /\ a.is = "bindf" => a.fn \in Terms
           /\ a.is = "call" => a.body \in Terms
           /\ a.is \in {"pure", "write"} => a.of.is \in PayloadKinds /\ PayloadParts(a.of) \subseteq Terms
           /\ a.is \in Kinds
<1>1. Parts(a) \subseteq Terms /\ WellFormed(a) BY ActionsAssumption DEF ActionsAssumption
<1>2. QED BY <1>1 DEF Parts, WellFormed

LEMMA ValueRoom ==
    ASSUME NEW V, NEW ex, Closed(V, ex), NEW a \in Terms, NEW e \in Envs(V, ex)
    PROVE  \E W : Room(V, W, ex, ActionValue(a, e))
<1>0. e.value \in V /\ (~ex => e.value.is # "box") BY DEF Envs
<1>1. CASE a.is = "run"
  <2>1. ActionValue(a, e) = e.value BY <1>1 DEF ActionValue
  <2>2. QED BY <1>0, <2>1 DEF Room
<1>2. CASE a.is = "error"
  <2>1. ActionValue(a, e) = Bottom BY <1>2 DEF ActionValue
  <2>2. QED BY <2>1 DEF Room, Closed, Bottom
<1>3. CASE a.is = "if"
  <2> DEFINE c == Closure(a.of, e, "tail")
             W == V \cup {c}
  <2>1. ActionValue(a, e) = Later(c) BY <1>3 DEF ActionValue
  <2>2. Room(V, W, ex, c) BY <1>3, ClosureRoom, PartsOf
  <2> HIDE DEF c
  <2>3. MadeOf(Later(c), W, ex) /\ Later(c).is # "box" BY DEF MadeOf, Later
  <2>4. Closed(W \cup {Later(c)}, ex) BY <2>2, <2>3, WithValue DEF Room
  <2>5. Room(V, W \cup {Later(c)}, ex, Later(c)) BY <2>3, <2>4 DEF Room
  <2>6. QED BY <2>1, <2>5
<1>4. CASE a.is = "call" /\ a.fn = "builder"
  <2>1. ActionValue(a, e) = Closure(a.body, Lazy(e.value), "tail") BY <1>4 DEF ActionValue
  <2>2. Lazy(e.value) \in Envs(V, ex) BY <1>0, LazyEnv
  <2>3. a.body \in Terms BY <1>4, PartsOf
  <2>4. QED BY <2>1, <2>2, <2>3, ClosureRoom
<1>5. CASE a.is \notin {"run", "error", "if"} /\ ~(a.is = "call" /\ a.fn = "builder")
  <2>1. ActionValue(a, e) = Closure(a, e, "tail") BY <1>5 DEF ActionValue
  <2>2. QED BY <2>1, ClosureRoom
<1>6. QED BY <1>1, <1>2, <1>3, <1>4, <1>5

LEMMA PayloadRoom ==
    ASSUME NEW V, NEW ex, Closed(V, ex), NEW e \in Envs(V, ex),
           NEW p, p.is \in PayloadKinds, PayloadParts(p) \subseteq Terms
    PROVE  \E W : Room(V, W, ex, Payload(p, e))
<1>1. CASE p.is = "x"
  <2>1. Payload(p, e) = e.value /\ e.value \in V /\ (~ex => e.value.is # "box")
    BY <1>1 DEF Payload, Envs
  <2>2. QED BY <2>1 DEF Room
<1>2. CASE p.is = "action"
  <2>1. Payload(p, e) = ActionValue(p.of, e) BY <1>2 DEF Payload
  <2>2. p.of \in Terms BY <1>2 DEF PayloadParts
  <2>3. QED BY <2>1, <2>2, ValueRoom
<1>3. CASE p.is \in {"datum", "bottom"}
  <2>1. Payload(p, e) = p BY <1>3 DEF Payload
  <2>2. MadeOf(p, V, ex) BY <1>3 DEF MadeOf
  <2>3. Room(V, V \cup {p}, ex, p) BY <1>3, <2>2, WithValue DEF Room
  <2>4. QED BY <2>1, <2>3
<1>4. QED BY <1>1, <1>2, <1>3 DEF PayloadKinds

LEMMA FocusKinds ==
    ASSUME NEW V, NEW ex, NEW fo \in Focuses(V, ex)
    PROVE  /\ fo.do = "perform" => fo.act \in Terms /\ fo.env \in Envs(V, ex) /\ fo.pos \in Positions
           /\ fo.do = "run" => fo.value \in V /\ fo.runner \in {"consume", "forward"}
           /\ fo.do = "return" => fo.value \in V
           /\ fo.do \in {"perform", "run", "return", "raise"}
<1>1. CASE fo \in Performs(V, ex) BY <1>1 DEF Performs
<1>2. CASE fo \in RunsOf(V) BY <1>2 DEF RunsOf
<1>3. CASE fo \in Returns(V) BY <1>3 DEF Returns
<1>4. CASE fo = Raise BY <1>4 DEF Raise
<1>5. QED BY <1>1, <1>2, <1>3, <1>4 DEF Focuses

LEMMA FrameKinds ==
    ASSUME NEW V, NEW ex, NEW f \in Frames(V, ex)
    PROVE  /\ f.wait \in {"bind", "stmt"} => f.then \in Terms
           /\ f.wait = "bind" => f.whnf \in BOOLEAN
           /\ f.wait = "stmt" => f.env \in Envs(V, ex)
           /\ f.wait = "catch" => f.handler \in Terms /\ f.env \in Envs(V, ex)
           /\ f.wait = "apply" => f.fn \in Terms
           /\ f.wait \in {"bind", "stmt", "unbox", "run", "apply", "try", "catch", "bare"}
<1>1. CASE f \in BindFrames BY <1>1 DEF BindFrames
<1>2. CASE f \in StmtFrames(V, ex) BY <1>2 DEF StmtFrames
<1>3. CASE f \in CatchFrames(V, ex) BY <1>3 DEF CatchFrames
<1>4. CASE f \in ApplyFrames BY <1>4 DEF ApplyFrames
<1>5. CASE f \in PlainFrames BY <1>5 DEF PlainFrames
<1>6. QED BY <1>1, <1>2, <1>3, <1>4, <1>5 DEF Frames

LEMMA FocusMade ==
    ASSUME NEW V, NEW ex
    PROVE  /\ \A a \in Terms, e \in Envs(V, ex), p \in Positions :
                 /\ Perform(a, e, p) \in Focuses(V, ex) /\ Perform(a, e, p).do = "perform"
                 /\ Perform(a, e, p).act = a /\ Perform(a, e, p).pos = p
           /\ \A v \in V, r \in {"consume", "forward"} :
                 /\ RunBy(v, r) \in Focuses(V, ex) /\ RunBy(v, r).do = "run"
                 /\ RunBy(v, r).value = v /\ RunBy(v, r).runner = r
           /\ \A v \in V : /\ Returned(v) \in Focuses(V, ex) /\ Returned(v).do = "return"
                           /\ Returned(v).value = v
           /\ Raise \in Focuses(V, ex) /\ Raise.do = "raise"
<1>1. ASSUME NEW a \in Terms, NEW e \in Envs(V, ex), NEW p \in Positions
      PROVE  /\ Perform(a, e, p) \in Focuses(V, ex) /\ Perform(a, e, p).do = "perform"
             /\ Perform(a, e, p).act = a /\ Perform(a, e, p).pos = p
  <2>1. Perform(a, e, p) \in Performs(V, ex) BY DEF Perform, Performs
  <2>2. QED BY <2>1 DEF Perform, Focuses
<1>2. ASSUME NEW v \in V, NEW r \in {"consume", "forward"}
      PROVE  /\ RunBy(v, r) \in Focuses(V, ex) /\ RunBy(v, r).do = "run"
             /\ RunBy(v, r).value = v /\ RunBy(v, r).runner = r
  <2>1. RunBy(v, r) \in RunsOf(V) BY DEF RunBy, RunsOf
  <2>2. QED BY <2>1 DEF RunBy, Focuses
<1>3. ASSUME NEW v \in V
      PROVE  Returned(v) \in Focuses(V, ex) /\ Returned(v).do = "return" /\ Returned(v).value = v
  <2>1. Returned(v) \in Returns(V) BY DEF Returned, Returns
  <2>2. QED BY <2>1 DEF Returned, Focuses
<1>4. Raise \in Focuses(V, ex) /\ Raise.do = "raise" BY DEF Focuses, Raise
<1>5. QED BY <1>1, <1>2, <1>3, <1>4

(***************************************************************************)
(* The three ways a state goes on: with the same frames, with one more and *)
(* with one less.                                                          *)
(***************************************************************************)

\* What a bind frame that is not read bare may get.
Bindable(fo, ex) ==
    /\ fo.do # "perform"
    /\ fo.do = "run" => fo.runner = "consume"
    /\ fo.do = "return" => (~ex => fo.value.is # "box")

LEMMA SameFrames ==
    ASSUME NEW V, NEW fo, NEW fs, NEW s, NEW ex, State(V, fo, fs, s, ex),
           NEW W, V \subseteq W, NEW fx \in BOOLEAN, ex => fx, Closed(W, fx),
           NEW go \in Focuses(W, fx), NoBind(fs) \/ Fits(go, fs, fx),
           NEW t \in W, ~fx => t.is # "box"
    PROVE  State(W, go, fs, t, fx)
<1>1. fs \in Seq(Frames(W, fx)) BY Grown, SeqGrown DEF State
<1>2. Fits(go, fs, fx) BY DEF Fits, NoBind
<1>3. QED BY <1>1, <1>2 DEF State

LEMMA OneMore ==
    ASSUME NEW V, NEW fo, NEW fs, NEW s, NEW ex, State(V, fo, fs, s, ex),
           NEW W, V \subseteq W, Closed(W, ex), NEW go \in Focuses(W, ex),
           NEW f \in Frames(W, ex), f.wait # "bind",
           NoWhnf(fs), f.wait \in Passing => NoBind(fs)
    PROVE  State(W, go, <<f>> \o fs, s, ex)
<1>1. fs \in Seq(Frames(W, ex)) BY Grown, SeqGrown DEF State
<1>2. /\ <<f>> \o fs \in Seq(Frames(W, ex)) /\ (<<f>> \o fs)[1] = f
  BY <1>1, Pushed
<1>3. Ordered(<<f>> \o fs) BY <1>1, OrderedPush DEF State
<1>4. Fits(go, <<f>> \o fs, ex) BY <1>2 DEF Fits
<1>5. QED BY <1>2, <1>3, <1>4 DEF State

LEMMA OneLess ==
    ASSUME NEW V, NEW fo, NEW fs, NEW s, NEW ex, State(V, fo, fs, s, ex), fs # <<>>,
           NEW W, V \subseteq W, NEW fx \in BOOLEAN, ex => fx, Closed(W, fx),
           NEW go \in Focuses(W, fx), fs[1].wait \in Passing \/ Bindable(go, fx)
    PROVE  State(W, go, Tail(fs), s, fx)
<1>1. fs \in Seq(Frames(W, fx)) BY Grown, SeqGrown DEF State
<1>2. Tail(fs) \in Seq(Frames(W, fx)) BY <1>1, Popped
<1>3. /\ Ordered(Tail(fs)) /\ NoWhnf(Tail(fs)) /\ (fs[1].wait \in Passing => NoBind(Tail(fs)))
  BY <1>1, OrderedPop DEF State
<1>4. Fits(go, Tail(fs), fx)
  <2>1. CASE fs[1].wait \in Passing BY <1>3, <2>1 DEF NoBind, Fits
  <2>2. CASE Bindable(go, fx) BY <1>3, <2>2 DEF NoWhnf, Fits, Bindable
  <2>3. QED BY <2>1, <2>2
<1>5. s \in W /\ (~fx => s.is # "box") BY DEF State
<1>6. QED BY <1>2, <1>3, <1>4, <1>5 DEF State

\* What the order of the frames says of the code that runs.
LEMMA ForwardsToNoBind ==
    ASSUME NEW V, NEW fo, NEW fs, NEW s, NEW ex, State(V, fo, fs, s, ex)
    PROVE  /\ fo.do = "perform" /\ fo.pos # "bind" => NoBind(fs)
           /\ fo.do = "perform" /\ ~ResultIsWhnf(fo.act) => NoWhnf(fs)
           /\ fo.do = "run" => NoWhnf(fs)
           /\ fo.do = "run" /\ fo.runner # "consume" => NoBind(fs)
           /\ fo.do = "return" /\ fo.value.is = "box" /\ ~ex => NoBind(fs)
           /\ NoBind(fs) => NoWhnf(fs)
  BY DEF State, Fits, NoBind, NoWhnf

LEMMA ActInvInit == ActInit => ActInv
<1> SUFFICES ASSUME ActInit PROVE ActInv
  OBVIOUS
<1>1. program.main \in Terms /\ program.cell.is \in PayloadKinds /\ PayloadParts(program.cell) \subseteq Terms
  BY ActionsAssumption DEF ActInit, ActionsAssumption
<1> DEFINE V0 == {Datum, Bottom, LeftOf}
<1>2. Closed(V0, exposed) BY DEF Closed, MadeOf, Datum, Bottom, LeftOf
<1>3. Lazy(Datum) \in Envs(V0, exposed) BY LazyEnv DEF Datum
<1> HIDE DEF V0
<1>4. PICK W : Room(V0, W, exposed, ActionValue(program.main, Lazy(Datum)))
  BY <1>1, <1>2, <1>3, ValueRoom
<1>5. PICK X : Room(W, X, exposed, Payload(program.cell, Lazy(Datum)))
  <2>1. Closed(W, exposed) /\ Lazy(Datum) \in Envs(W, exposed) BY <1>3, <1>4, Grown DEF Room
  <2>2. QED BY <1>1, <2>1, PayloadRoom
<1>6. focus \in Focuses(X, exposed) BY <1>4, <1>5, FocusMade DEF ActInit, Room
<1>7. State(X, focus, pending, slot, exposed)
  <2>1. Closed(X, exposed) /\ slot \in X /\ slot.is # "box" /\ exposed \in BOOLEAN
    BY <1>5 DEF ActInit, Room
  <2>2. pending = <<>> /\ pending \in Seq(Frames(X, exposed)) BY DEF ActInit
  <2>3. Ordered(pending) BY <2>2 DEF Ordered
  <2>4. Fits(focus, pending, exposed) BY <2>2 DEF Fits
  <2>5. QED BY <1>6, <2>1, <2>2, <2>3, <2>4 DEF State
<1>8. QED BY <1>7 DEF ActInv

(***************************************************************************)
(* The steps.                                                              *)
(***************************************************************************)
Here(V) == State(V, focus, pending, slot, exposed)

\* What is performed, and what is run.
LEMMA Performed ==
    ASSUME NEW V, Here(V), focus.do = "perform"
    PROVE  /\ Act \in Terms /\ Env \in Envs(V, exposed) /\ focus.pos \in Positions
           /\ Env.value \in V /\ (~exposed => Env.value.is # "box")
           /\ focus.pos # "bind" => NoBind(pending)
           /\ ~ResultIsWhnf(Act) => NoWhnf(pending)
           /\ NoBind(pending) => NoWhnf(pending)
<1>1. focus \in Focuses(V, exposed) BY DEF Here, State
<1>2. Act \in Terms /\ Env \in Envs(V, exposed) /\ focus.pos \in Positions
  BY <1>1, FocusKinds DEF Act, Env
<1>3. Env.value \in V /\ (~exposed => Env.value.is # "box") BY <1>2 DEF Envs
<1>4. QED BY <1>2, <1>3, ForwardsToNoBind DEF Here, Act

LEMMA ValueRun ==
    ASSUME NEW V, Here(V), focus.do = "run"
    PROVE  /\ focus.value \in V /\ focus.runner \in {"consume", "forward"}
           /\ MadeOf(focus.value, V, exposed)
           /\ NoWhnf(pending) /\ (focus.runner # "consume" => NoBind(pending))
<1>1. focus \in Focuses(V, exposed) BY DEF Here, State
<1>2. focus.value \in V /\ focus.runner \in {"consume", "forward"} BY <1>1, FocusKinds
<1>3. MadeOf(focus.value, V, exposed) BY <1>2 DEF Here, State, Closed
<1>4. QED BY <1>2, <1>3, ForwardsToNoBind DEF Here

\* What a frame that is not read bare gets may be anything but a box, and a frame
\* on top of which no bind lies anything.
LEMMA AnyToNoWhnf ==
    ASSUME NEW fs, NEW fo, NEW ex, NoWhnf(fs), Bindable(fo, ex)
    PROVE  Fits(fo, fs, ex)
  BY DEF NoWhnf, Fits, Bindable

LEMMA Basics ==
    ASSUME NEW V, Here(V)
    PROVE  /\ Closed(V, exposed) /\ Datum \in V /\ Bottom \in V /\ LeftOf \in V
           /\ exposed \in BOOLEAN /\ slot \in V /\ (~exposed => slot.is # "box")
  BY DEF Here, State, Closed

LEMMA ChainBindKeeps == ASSUME NEW V, Here(V), ChainBind PROVE ActInv'
<1>1. /\ Act \in Terms /\ Env \in Envs(V, exposed) /\ NoBind(pending) /\ NoWhnf(pending)
      /\ Act.of \in Terms /\ Act.then \in Terms
  BY Performed, PartsOf DEF ChainBind, Performing
<1> DEFINE f == [wait |-> "bind", then |-> Act.then, whnf |-> ResultIsWhnf(Act.of)]
           go == Perform(Act.of, Env, "bind")
<1>2. ResultIsWhnf(Act.of) \in BOOLEAN
  <2>1. CASE Act.of.is = "pure" BY <2>1 DEF ResultIsWhnf
  <2>2. CASE Act.of.is \in {"emit", "write"} BY <2>2 DEF ResultIsWhnf
  <2>3. CASE Act.of.is \notin {"pure", "emit", "write"} BY <2>3 DEF ResultIsWhnf
  <2>4. QED BY <2>1, <2>2, <2>3
<1>3. f \in Frames(V, exposed) BY <1>1, <1>2 DEF BindFrames, Frames
<1>4. /\ f.wait = "bind" /\ (f.whnf <=> ResultIsWhnf(Act.of)) BY <1>2
<1>5. /\ go \in Focuses(V, exposed) /\ go.do = "perform" /\ go.act = Act.of /\ go.pos = "bind"
  BY <1>1, FocusMade DEF Positions
<1>6. focus' = go /\ pending' = <<f>> \o pending /\ UNCHANGED <<slot, exposed>> BY DEF ChainBind
<1> HIDE DEF f, go
<1>7. pending \in Seq(Frames(V, exposed)) /\ Ordered(pending) BY DEF Here, State
<1>8. <<f>> \o pending \in Seq(Frames(V, exposed)) /\ (<<f>> \o pending)[1] = f
  BY <1>3, <1>7, Pushed
<1>9. Ordered(<<f>> \o pending) BY <1>1, <1>3, <1>7, OrderedPush
<1>10. Fits(go, <<f>> \o pending, exposed) BY <1>4, <1>5, <1>8 DEF Fits
<1>11. State(V, go, <<f>> \o pending, slot, exposed) BY <1>5, <1>8, <1>9, <1>10 DEF Here, State
<1>12. QED BY <1>6, <1>11 DEF ActInv

LEMMA ChainSeqKeeps == ASSUME NEW V, Here(V), ChainSeq PROVE ActInv'
<1>1. /\ Act \in Terms /\ Env \in Envs(V, exposed) /\ NoBind(pending) /\ NoWhnf(pending)
      /\ Act.of \in Terms /\ Act.then \in Terms
  BY Performed, PartsOf DEF ChainSeq, Performing
<1>2. CASE Act.of.is = "pure"
  <2>1. Perform(Act.then, Env, "tail") \in Focuses(V, exposed) BY <1>1, FocusMade DEF Positions
  <2>2. State(V, Perform(Act.then, Env, "tail"), pending, slot, exposed)
    BY <1>1, <2>1, SameFrames, Basics DEF Here
  <2>3. QED BY <1>2, <2>2 DEF ActInv, ChainSeq
<1>3. CASE Act.of.is # "pure"
  <2> DEFINE f == [wait |-> "stmt", then |-> Act.then, env |-> Env]
  <2>1. f \in Frames(V, exposed) /\ f.wait = "stmt" BY <1>1 DEF StmtFrames, Frames
  <2>2. Perform(Act.of, Env, "stmt") \in Focuses(V, exposed) BY <1>1, FocusMade DEF Positions
  <2>3. focus' = Perform(Act.of, Env, "stmt") /\ pending' = <<f>> \o pending /\ UNCHANGED <<slot, exposed>>
    BY <1>3 DEF ChainSeq
  <2> HIDE DEF f
  <2>4. State(V, Perform(Act.of, Env, "stmt"), <<f>> \o pending, slot, exposed)
    BY <1>1, <2>1, <2>2, OneMore, Basics DEF Here
  <2>5. QED BY <2>3, <2>4 DEF ActInv
<1>4. QED BY <1>2, <1>3

LEMMA ChainLetKeeps == ASSUME NEW V, Here(V), ChainLet PROVE ActInv'
<1>1. /\ Act \in Terms /\ Env \in Envs(V, exposed) /\ NoBind(pending) /\ Closed(V, exposed)
      /\ Act.of \in Terms /\ Act.then \in Terms
  BY Performed, PartsOf, Basics DEF ChainLet, Performing
<1>2. PICK W : Room(V, W, exposed, LetValue(Act.of, Env))
  <2>1. CASE Act.of.is = "call" BY <1>1, <2>1, ValueRoom DEF LetValue
  <2>2. CASE Act.of.is # "call" BY <1>1, <2>2, ClosureRoom DEF LetValue
  <2>3. QED BY <2>1, <2>2
<1>3. Lazy(LetValue(Act.of, Env)) \in Envs(W, exposed) BY <1>2, LazyEnv DEF Room
<1> DEFINE go == Perform(Act.then, Lazy(LetValue(Act.of, Env)), "tail")
<1>4. go \in Focuses(W, exposed) BY <1>1, <1>3, FocusMade DEF Positions
<1>5. focus' = go /\ UNCHANGED <<pending, slot, exposed>> BY DEF ChainLet
<1> HIDE DEF go
<1>6. State(W, go, pending, slot, exposed)
  <2>1. slot \in W /\ V \subseteq W /\ Closed(W, exposed) BY <1>2, Basics DEF Room
  <2>2. QED BY <1>1, <1>4, <2>1, SameFrames, Basics DEF Here
<1>7. QED BY <1>5, <1>6 DEF ActInv

LEMMA ChainIfKeeps == ASSUME NEW V, Here(V), ChainIf PROVE ActInv'
<1>1. Act \in Terms /\ Env \in Envs(V, exposed) /\ NoBind(pending) /\ Act.of \in Terms
  BY Performed, PartsOf DEF ChainIf, Performing
<1>2. Perform(Act.of, Env, "tail") \in Focuses(V, exposed) BY <1>1, FocusMade DEF Positions
<1>3. State(V, Perform(Act.of, Env, "tail"), pending, slot, exposed)
  BY <1>1, <1>2, SameFrames, Basics DEF Here
<1>4. QED BY <1>3 DEF ActInv, ChainIf

\* Data, and an exception, suit every frame.
LEMMA PlainResult ==
    ASSUME NEW V, Here(V)
    PROVE  /\ State(V, Returned(Datum), pending, slot, exposed)
           /\ State(V, Raise, pending, slot, exposed)
<1>1. Fits(Returned(Datum), pending, exposed) /\ Fits(Raise, pending, exposed)
  BY DEF Fits, Returned, Datum, Raise, IsRaw
<1>2. Returned(Datum) \in Focuses(V, exposed) /\ Raise \in Focuses(V, exposed)
  BY Basics, FocusMade
<1>3. QED BY <1>1, <1>2, SameFrames, Basics DEF Here

LEMMA DemandKeeps == ASSUME NEW V, Here(V), Demand PROVE ActInv'
  BY PlainResult DEF Demand, ActInv

LEMMA PerformHostKeeps == ASSUME NEW V, Here(V), PerformHost PROVE ActInv'
  BY PlainResult DEF PerformHost, ActInv

LEMMA PerformPureKeeps == ASSUME NEW V, Here(V), PerformPure PROVE ActInv'
<1> DEFINE p == Payload(Act.of, Env)
<1>1. /\ Act \in Terms /\ Env \in Envs(V, exposed) /\ Act.is = "pure" /\ Closed(V, exposed)
      /\ Act.of.is \in PayloadKinds /\ PayloadParts(Act.of) \subseteq Terms
      /\ focus.do = "perform"
  BY Performed, PartsOf, Basics DEF PerformPure, Performing
<1>2. PICK W : Room(V, W, exposed, p) BY <1>1, PayloadRoom
<1>3. CASE focus.pos = "bind"
  <2>1. focus' = Returned(p) /\ UNCHANGED <<pending, slot, exposed>>
    BY <1>3 DEF PerformPure, BoundPure
  <2>2. Fits(Returned(p), pending, exposed)
    <3>1. ASSUME Len(pending) > 0, pending[1].wait = "bind", pending[1].whnf
          PROVE  ~IsRaw(p)
      <4>1. ResultIsWhnf(Act) BY <1>1, <3>1 DEF Here, State, Fits, Act
      <4>2. Act.of.is = "datum" BY <1>1, <4>1 DEF ResultIsWhnf
      <4>3. p = Act.of BY <4>2 DEF Payload
      <4>4. QED BY <4>2, <4>3 DEF IsRaw
    <3>2. ~exposed => p.is # "box" BY <1>2 DEF Room
    <3> HIDE DEF p
    <3>3. QED BY <3>1, <3>2 DEF Fits, Returned
  <2> HIDE DEF p
  <2>3. Returned(p) \in Focuses(W, exposed) BY <1>2, FocusMade DEF Room
  <2>4. slot \in W /\ V \subseteq W /\ Closed(W, exposed) BY <1>2, Basics DEF Room
  <2>5. State(W, Returned(p), pending, slot, exposed)
    BY <2>2, <2>3, <2>4, SameFrames, Basics DEF Here
  <2>6. QED BY <2>1, <2>5 DEF ActInv
<1>4. CASE focus.pos # "bind"
  <2> DEFINE v == PureAction(Act.of, Env)
  <2>1. focus' = Returned(v) /\ UNCHANGED <<pending, slot, exposed>> BY <1>4 DEF PerformPure
  <2>2. NoBind(pending) BY <1>1, <1>4, Performed
  <2>3. v \in {p, Boxed(p)} BY DEF PureAction
  <2> HIDE DEF p, v
  <2>4. \E X : W \subseteq X /\ Closed(X, exposed) /\ v \in X
    <3>1. CASE v = p BY <1>2, <3>1 DEF Room
    <3>2. CASE v = Boxed(p)
      <4>1. MadeOf(v, W, exposed) BY <1>2, <3>2 DEF MadeOf, Boxed, Room
      <4>2. Closed(W \cup {v}, exposed) BY <1>2, <4>1, WithValue DEF Room
      <4>3. QED BY <4>2
    <3>3. QED BY <2>3, <3>1, <3>2
  <2>5. PICK X : W \subseteq X /\ Closed(X, exposed) /\ v \in X BY <2>4
  <2>6. slot \in X /\ V \subseteq X BY <1>2, <2>5, Basics DEF Room
  <2>7. Returned(v) \in Focuses(X, exposed) BY <2>5, FocusMade
  <2>8. State(X, Returned(v), pending, slot, exposed)
    BY <2>2, <2>5, <2>6, <2>7, SameFrames, Basics DEF Here
  <2>9. QED BY <2>1, <2>8 DEF ActInv
<1>5. QED BY <1>3, <1>4

LEMMA PerformReadKeeps == ASSUME NEW V, Here(V), PerformRead PROVE ActInv'
<1>1. NoWhnf(pending) /\ focus.do = "perform" /\ Act.is = "read"
  BY Performed DEF PerformRead, Performing, ResultIsWhnf
<1>2. focus' = Returned(slot) /\ UNCHANGED <<pending, slot>> /\ exposed' \in BOOLEAN /\ (exposed => exposed')
  BY Basics DEF PerformRead
<1>3. Closed(V, exposed') BY <1>2, Basics, ExposureKeeps
<1>4. slot \in V /\ (~exposed' => slot.is # "box") BY <1>2, Basics
<1>5. Returned(slot) \in Focuses(V, exposed') /\ Returned(slot).do = "return" /\ Returned(slot).value = slot
  BY <1>4, FocusMade
<1>6. Fits(Returned(slot), pending, exposed') BY <1>1, <1>4, <1>5, AnyToNoWhnf DEF Bindable
<1>7. State(V, Returned(slot), pending, slot, exposed')
  BY <1>2, <1>3, <1>4, <1>5, <1>6, SameFrames DEF Here
<1>8. QED BY <1>2, <1>7 DEF ActInv

LEMMA PerformWriteKeeps == ASSUME NEW V, Here(V), PerformWrite PROVE ActInv'
<1> DEFINE p == Payload(Act.of, Env)
<1>1. /\ Act \in Terms /\ Env \in Envs(V, exposed) /\ Closed(V, exposed)
      /\ Act.of.is \in PayloadKinds /\ PayloadParts(Act.of) \subseteq Terms
  BY Performed, PartsOf, Basics DEF PerformWrite, Performing
<1>2. PICK W : Room(V, W, exposed, p) BY <1>1, PayloadRoom
<1>3. focus' = Returned(Datum) /\ slot' = p /\ UNCHANGED <<pending, exposed>> BY DEF PerformWrite
<1> HIDE DEF p
<1>4. Fits(Returned(Datum), pending, exposed) BY DEF Fits, Returned, Datum, IsRaw
<1>5. Returned(Datum) \in Focuses(W, exposed) BY <1>2, Basics, FocusMade DEF Room
<1>6. State(W, Returned(Datum), pending, p, exposed)
  BY <1>2, <1>4, <1>5, SameFrames, Basics DEF Here, Room
<1>7. QED BY <1>3, <1>6 DEF ActInv

LEMMA PerformCallKeeps == ASSUME NEW V, Here(V), PerformCall PROVE ActInv'
<1>1. /\ Act \in Terms /\ Act.body \in Terms /\ Env.value \in V /\ (~exposed => Env.value.is # "box")
      /\ focus.pos \in Positions /\ (focus.pos # "bind" => NoBind(pending)) /\ NoWhnf(pending)
  BY Performed, PartsOf DEF PerformCall, Performing, ResultIsWhnf
<1>2. Lazy(Env.value) \in Envs(V, exposed) BY <1>1, LazyEnv
<1> DEFINE go == Perform(Act.body, Lazy(Env.value), "tail")
<1>3. go \in Focuses(V, exposed) BY <1>1, <1>2, FocusMade DEF Positions
<1>4. focus' = go /\ pending' = CallFrames(focus.pos) /\ UNCHANGED <<slot, exposed>>
  BY DEF PerformCall
<1> HIDE DEF go
<1>5. CASE Runner(focus.pos) = "consume"
  <2> DEFINE f == [wait |-> "run"]
  <2>1. f \in Frames(V, exposed) /\ f.wait = "run" BY DEF PlainFrames, Frames
  <2>2. pending' = <<f>> \o pending BY <1>4, <1>5 DEF CallFrames
  <2> HIDE DEF f
  <2>3. State(V, go, <<f>> \o pending, slot, exposed)
    BY <1>1, <1>3, <2>1, OneMore, Basics DEF Here, Passing
  <2>4. QED BY <1>4, <2>2, <2>3 DEF ActInv
<1>6. CASE Runner(focus.pos) # "consume"
  <2>1. NoBind(pending) /\ pending' = pending BY <1>1, <1>4, <1>6 DEF Runner, CallFrames
  <2>2. State(V, go, pending, slot, exposed) BY <1>3, <2>1, SameFrames, Basics DEF Here
  <2>3. QED BY <1>4, <2>1, <2>2 DEF ActInv
<1>7. QED BY <1>5, <1>6

LEMMA PerformRunnerKeeps == ASSUME NEW V, Here(V), PerformRunner PROVE ActInv'
<1>1. /\ focus.do = "perform" /\ Act \in Terms /\ Env \in Envs(V, exposed) /\ Closed(V, exposed)
      /\ focus.pos \in Positions /\ (focus.pos # "bind" => NoBind(pending)) /\ NoWhnf(pending)
  BY Performed, Basics DEF PerformRunner, Performing, ResultIsWhnf, Spine
<1> DEFINE v == ActionValue(Act, Env)
           r == Runner(focus.pos)
<1>2. PICK W : Room(V, W, exposed, v) BY <1>1, ValueRoom
<1>3. r \in {"consume", "forward"} /\ (r # "consume" => NoBind(pending)) BY <1>1 DEF Runner
<1>4. focus' = RunBy(v, r) /\ UNCHANGED <<pending, slot, exposed>> BY DEF PerformRunner
<1> HIDE DEF v, r
<1>5. RunBy(v, r) \in Focuses(W, exposed) /\ RunBy(v, r).do = "run" /\ RunBy(v, r).runner = r
  BY <1>2, <1>3, FocusMade DEF Room
<1>6. NoBind(pending) \/ Fits(RunBy(v, r), pending, exposed)
  BY <1>1, <1>3, <1>5, AnyToNoWhnf DEF Bindable
<1>7. State(W, RunBy(v, r), pending, slot, exposed)
  BY <1>2, <1>5, <1>6, SameFrames, Basics DEF Here, Room
<1>8. QED BY <1>4, <1>7 DEF ActInv

LEMMA RunBoxKeeps == ASSUME NEW V, Here(V), RunBox PROVE ActInv'
<1> DEFINE v == IF focus.runner = "consume" THEN focus.value.of ELSE focus.value
<1>1. /\ focus.value \in V /\ focus.value.is = "box" /\ MadeOf(focus.value, V, exposed)
      /\ NoWhnf(pending) /\ (focus.runner # "consume" => NoBind(pending))
  BY ValueRun DEF RunBox, RunsA
<1>2. v \in V /\ (focus.runner = "consume" => (~exposed => v.is # "box")) BY <1>1 DEF MadeOf
<1>3. focus' = Returned(v) /\ UNCHANGED <<pending, slot, exposed>> BY DEF RunBox
<1> HIDE DEF v
<1>4. Returned(v) \in Focuses(V, exposed) /\ Returned(v).do = "return" /\ Returned(v).value = v
  BY <1>2, FocusMade
<1>5. NoBind(pending) \/ Fits(Returned(v), pending, exposed)
  BY <1>1, <1>2, <1>4, AnyToNoWhnf DEF Bindable
<1>6. State(V, Returned(v), pending, slot, exposed)
  BY <1>4, <1>5, SameFrames, Basics DEF Here
<1>7. QED BY <1>3, <1>6 DEF ActInv

LEMMA RunThunkKeeps == ASSUME NEW V, Here(V), RunThunk PROVE ActInv'
<1>1. CASE focus.value.is = "bottom" BY <1>1, PlainResult DEF RunThunk, ActInv
<1>2. CASE focus.value.is # "bottom"
  <2> DEFINE v == focus.value.of
             r == focus.runner
  <2>1. v \in V /\ r \in {"consume", "forward"} /\ NoWhnf(pending) /\ (r # "consume" => NoBind(pending))
    BY <1>2, ValueRun DEF RunThunk, RunsA, MadeOf
  <2>2. focus' = RunBy(v, r) /\ UNCHANGED <<pending, slot, exposed>> BY <1>2 DEF RunThunk
  <2> HIDE DEF v, r
  <2>3. RunBy(v, r) \in Focuses(V, exposed) /\ RunBy(v, r).do = "run" /\ RunBy(v, r).runner = r
    BY <2>1, FocusMade
  <2>4. NoBind(pending) \/ Fits(RunBy(v, r), pending, exposed)
    BY <2>1, <2>3, AnyToNoWhnf DEF Bindable
  <2>5. State(V, RunBy(v, r), pending, slot, exposed) BY <2>3, <2>4, SameFrames, Basics DEF Here
  <2>6. QED BY <2>2, <2>5 DEF ActInv
<1>3. QED BY <1>1, <1>2

LEMMA RunDatumKeeps == ASSUME NEW V, Here(V), RunDatum PROVE ActInv'
<1> DEFINE v == focus.value
<1>1. v \in V /\ v.is \in {"datum", "left", "right"} /\ NoWhnf(pending)
  BY ValueRun DEF RunDatum, RunsA
<1>2. focus' = Returned(v) /\ UNCHANGED <<pending, slot, exposed>> BY DEF RunDatum
<1> HIDE DEF v
<1>3. Returned(v) \in Focuses(V, exposed) /\ Returned(v).do = "return" /\ Returned(v).value = v
  BY <1>1, FocusMade
<1>4. Fits(Returned(v), pending, exposed) BY <1>1, <1>3, AnyToNoWhnf DEF Bindable
<1>5. State(V, Returned(v), pending, slot, exposed) BY <1>3, <1>4, SameFrames, Basics DEF Here
<1>6. QED BY <1>2, <1>5 DEF ActInv

\* Below a closure lies no bind frame: a consumer leaves a frame that unboxes.
LEMMA BelowIs ==
    ASSUME NEW V, Here(V), focus.do = "run", NEW go \in Focuses(V, exposed)
    PROVE  NoBind(Below) /\ State(V, go, Below, slot, exposed)
<1>1. /\ NoWhnf(pending) /\ (focus.runner # "consume" => NoBind(pending)) BY ValueRun
<1>2. CASE focus.runner = "consume"
  <2> DEFINE f == [wait |-> "unbox"]
  <2>1. f \in Frames(V, exposed) /\ f.wait = "unbox" BY DEF PlainFrames, Frames
  <2>2. Below = <<f>> \o pending BY <1>2 DEF Below
  <2> HIDE DEF f
  <2>3. State(V, go, <<f>> \o pending, slot, exposed)
    BY <1>1, <2>1, OneMore, Basics DEF Here, Passing
  <2>4. (<<f>> \o pending)[1] = f BY <2>1, Pushed DEF Here, State
  <2>5. QED BY <2>1, <2>2, <2>3, <2>4 DEF NoBind
<1>3. CASE focus.runner # "consume"
  <2>1. Below = pending BY <1>3 DEF Below
  <2>2. State(V, go, pending, slot, exposed) BY <1>1, <1>3, SameFrames, Basics DEF Here
  <2>3. QED BY <1>1, <1>3, <2>1, <2>2
<1>4. QED BY <1>2, <1>3

\* What a closure runs, and the frame it leaves.
LEMMA ClosureRuns ==
    ASSUME NEW V, Here(V), focus.do = "run", NEW W, V \subseteq W, Closed(W, exposed),
           NEW go \in Focuses(W, exposed), NEW f \in Frames(W, exposed), f.wait # "bind"
    PROVE  /\ State(W, go, <<f>> \o Below, slot, exposed)
           /\ State(W, go, Below, slot, exposed)
<1>1. NoBind(Below) /\ State(V, Raise, Below, slot, exposed) BY BelowIs, FocusMade
<1>2. NoWhnf(Below) BY <1>1 DEF NoBind, NoWhnf
<1>3. State(W, go, <<f>> \o Below, slot, exposed) BY <1>1, <1>2, OneMore
<1>4. State(W, go, Below, slot, exposed) BY <1>1, SameFrames, Basics
<1>5. QED BY <1>3, <1>4

LEMMA RunClosureKeeps == ASSUME NEW V, Here(V), RunClosure PROVE ActInv'
<1> DEFINE a == focus.value.body
           env == focus.value.env
           pos == focus.value.pos
<1>1. /\ focus.do = "run" /\ focus.value \in Closures(V, exposed) /\ Closed(V, exposed)
  BY ValueRun, Basics DEF RunClosure, RunsA, MadeOf
<1>2. a \in Terms /\ env \in Envs(V, exposed) /\ pos \in {"arg", "tail"} BY <1>1 DEF Closures
<1>3. UNCHANGED <<slot, exposed>> BY DEF RunClosure
<1>4. CASE a.is = "try"
  <2> DEFINE f == [wait |-> "try"]
             v == ActionValue(a.of, env)
  <2>1. focus' = RunBy(v, "consume") /\ pending' = <<f>> \o Below BY <1>4 DEF RunClosure
  <2>2. f \in Frames(V, exposed) /\ f.wait = "try" BY DEF PlainFrames, Frames
  <2>3. PICK W : Room(V, W, exposed, v) BY <1>1, <1>2, <1>4, ValueRoom, PartsOf
  <2> HIDE DEF f, v, a, env, pos
  <2>4. /\ V \subseteq W /\ Closed(W, exposed) /\ f \in Frames(W, exposed)
        /\ RunBy(v, "consume") \in Focuses(W, exposed)
    BY <2>2, <2>3, Grown, FocusMade DEF Room
  <2>5. State(W, RunBy(v, "consume"), <<f>> \o Below, slot, exposed)
    BY <1>1, <2>2, <2>4, ClosureRuns
  <2>6. QED BY <1>3, <2>1, <2>5 DEF ActInv
<1>5. CASE a.is = "catch"
  <2> DEFINE f == [wait |-> "catch", handler |-> a.handler, env |-> env]
             v == ActionValue(a.of, env)
  <2>1. focus' = RunBy(v, "forward") /\ pending' = <<f>> \o Below BY <1>5 DEF RunClosure
  <2>2. f \in Frames(V, exposed) /\ f.wait = "catch"
    BY <1>2, <1>5, PartsOf DEF CatchFrames, Frames
  <2>3. PICK W : Room(V, W, exposed, v) BY <1>1, <1>2, <1>5, ValueRoom, PartsOf
  <2> HIDE DEF f, v, a, env, pos
  <2>4. /\ V \subseteq W /\ Closed(W, exposed) /\ f \in Frames(W, exposed)
        /\ RunBy(v, "forward") \in Focuses(W, exposed)
    BY <2>2, <2>3, Grown, FocusMade DEF Room
  <2>5. State(W, RunBy(v, "forward"), <<f>> \o Below, slot, exposed)
    BY <1>1, <2>2, <2>4, ClosureRuns
  <2>6. QED BY <1>3, <2>1, <2>5 DEF ActInv
<1>6. CASE a.is = "bindf"
  <2> DEFINE f == [wait |-> "apply", fn |-> a.fn]
             go == Perform(a.of, env, "arg")
  <2>1. focus' = go /\ pending' = <<f>> \o Below BY <1>6 DEF RunClosure
  <2>2. f \in Frames(V, exposed) /\ f.wait = "apply"
    BY <1>2, <1>6, PartsOf DEF ApplyFrames, Frames
  <2>3. go \in Focuses(V, exposed) BY <1>2, <1>6, PartsOf, FocusMade DEF Positions
  <2> HIDE DEF f, go, a, env, pos
  <2>4. State(V, go, <<f>> \o Below, slot, exposed) BY <1>1, <2>2, <2>3, ClosureRuns
  <2>5. QED BY <1>3, <2>1, <2>4 DEF ActInv
<1>7. CASE a.is \notin {"try", "catch", "bindf"}
  <2> DEFINE f == [wait |-> "bare"]
             go == Perform(a, env, pos)
  <2>1. focus' = go /\ pending' \in {<<f>> \o Below, Below} BY <1>7 DEF RunClosure
  <2>2. f \in Frames(V, exposed) /\ f.wait = "bare" BY DEF PlainFrames, Frames
  <2>3. go \in Focuses(V, exposed) BY <1>2, FocusMade DEF Positions
  <2> HIDE DEF f, go, a, env, pos
  <2>4. State(V, go, <<f>> \o Below, slot, exposed) /\ State(V, go, Below, slot, exposed)
    BY <1>1, <2>2, <2>3, ClosureRuns
  <2>5. QED BY <1>3, <2>1, <2>4 DEF ActInv
<1>8. QED BY <1>4, <1>5, <1>6, <1>7

\* A result, and the frame it reaches.
LEMMA Received ==
    ASSUME NEW V, Here(V), focus.do \in {"return", "raise"}, pending # <<>>
    PROVE  /\ focus.do = "return" => focus.value \in V /\ MadeOf(focus.value, V, exposed)
           /\ Innermost = pending[1] /\ Innermost \in Frames(V, exposed) /\ Len(pending) > 0
<1>1. focus \in Focuses(V, exposed) /\ pending \in Seq(Frames(V, exposed)) BY DEF Here, State
<1>2. focus.do = "return" => focus.value \in V BY <1>1, FocusKinds
<1>3. focus.do = "return" => MadeOf(focus.value, V, exposed) BY <1>2 DEF Here, State, Closed
<1>4. Innermost = pending[1] /\ Innermost \in Frames(V, exposed) /\ Len(pending) > 0
  BY <1>1, Popped DEF Innermost
<1>5. QED BY <1>2, <1>3, <1>4

LEMMA ContinueKeeps == ASSUME NEW V, Here(V), Continue PROVE ActInv'
<1> DEFINE e == IF Innermost.wait = "stmt" THEN Innermost.env
                ELSE [value |-> focus.value, whnf |-> Innermost.whnf]
           go == Perform(Innermost.then, e, "tail")
<1>1. /\ pending # <<>> /\ focus.do = "return" /\ Innermost.wait \in {"bind", "stmt"}
      /\ Innermost = pending[1] /\ Innermost \in Frames(V, exposed) /\ focus.value \in V
      /\ Len(pending) > 0
  BY Received DEF Continue, Receiving, Innermost
<1>2. e \in Envs(V, exposed)
  <2>1. CASE Innermost.wait = "stmt" BY <1>1, <2>1, FrameKinds
  <2>2. CASE Innermost.wait = "bind"
    <3>1. e = [value |-> focus.value, whnf |-> Innermost.whnf] /\ Innermost.whnf \in BOOLEAN
      BY <1>1, <2>2, FrameKinds
    <3>2. /\ ~exposed => focus.value.is # "box"
          /\ Innermost.whnf => ~IsRaw(focus.value)
      BY <1>1, <2>2 DEF Here, State, Fits
    <3> HIDE DEF e
    <3>3. QED BY <1>1, <3>1, <3>2 DEF Envs
  <2>3. QED BY <1>1, <2>1, <2>2
<1>3. go \in Focuses(V, exposed) BY <1>1, <1>2, FrameKinds, FocusMade DEF Positions
<1>4. focus' = go /\ pending' = Tail(pending) /\ UNCHANGED <<slot, exposed>> BY DEF Continue
<1> HIDE DEF go
<1>5. State(V, go, Tail(pending), slot, exposed)
  BY <1>1, <1>3, OneLess, Basics DEF Here, Passing
<1>6. QED BY <1>4, <1>5 DEF ActInv

LEMMA BareResultKeeps == ASSUME NEW V, Here(V), BareResult PROVE ActInv'
<1>1. /\ pending # <<>> /\ focus.do = "return" /\ pending[1].wait = "bare" /\ focus \in Focuses(V, exposed)
  BY Received DEF BareResult, Receiving, Innermost, Here, State
<1>2. pending' = Tail(pending) /\ UNCHANGED <<focus, slot>> /\ exposed' \in BOOLEAN /\ (exposed => exposed')
  BY Basics DEF BareResult
<1>3. Closed(V, exposed') BY <1>2, Basics, ExposureKeeps
<1>4. focus \in Focuses(V, exposed') BY <1>1, <1>2, Grown
<1>5. State(V, focus, Tail(pending), slot, exposed')
  BY <1>1, <1>2, <1>3, <1>4, OneLess DEF Here, Passing
<1>6. QED BY <1>2, <1>5 DEF ActInv

\* A result handed on as it is, or changed to one that is no box.
LEMMA HandedOn ==
    ASSUME NEW V, Here(V), pending # <<>>, NEW W, V \subseteq W, Closed(W, exposed),
           NEW v \in W, (~exposed => v.is # "box") \/ pending[1].wait \in Passing
    PROVE  State(W, Returned(v), Tail(pending), slot, exposed)
<1>1. Returned(v) \in Focuses(W, exposed) /\ Returned(v).do = "return" /\ Returned(v).value = v
  BY FocusMade
<1>2. pending[1].wait \in Passing \/ Bindable(Returned(v), exposed) BY <1>1 DEF Bindable
<1>3. QED BY <1>1, <1>2, OneLess, Basics DEF Here

LEMMA ConsumeKeeps == ASSUME NEW V, Here(V), Consume PROVE ActInv'
<1>1. pending # <<>> /\ focus.value \in V /\ MadeOf(focus.value, V, exposed)
  BY Received DEF Consume, Receiving
<1> DEFINE v == Unbox(focus.value)
<1>2. v \in V /\ (~exposed => v.is # "box") BY <1>1 DEF Unbox, MadeOf
<1>3. focus' = Returned(v) /\ pending' = Tail(pending) /\ UNCHANGED <<slot, exposed>> BY DEF Consume
<1> HIDE DEF v
<1>4. State(V, Returned(v), Tail(pending), slot, exposed) BY <1>1, <1>2, HandedOn, Basics
<1>5. QED BY <1>3, <1>4 DEF ActInv

LEMMA RunResultKeeps == ASSUME NEW V, Here(V), RunResult PROVE ActInv'
<1>1. pending # <<>> /\ focus.value \in V BY Received DEF RunResult, Receiving
<1> DEFINE go == RunBy(focus.value, "consume")
<1>2. go \in Focuses(V, exposed) /\ go.do = "run" /\ go.runner = "consume" BY <1>1, FocusMade
<1>3. focus' = go /\ pending' = Tail(pending) /\ UNCHANGED <<slot, exposed>> BY DEF RunResult
<1> HIDE DEF go
<1>4. Bindable(go, exposed) BY <1>2 DEF Bindable
<1>5. State(V, go, Tail(pending), slot, exposed) BY <1>1, <1>2, <1>4, OneLess, Basics DEF Here
<1>6. QED BY <1>3, <1>5 DEF ActInv

LEMMA ApplyKeeps == ASSUME NEW V, Here(V), Apply PROVE ActInv'
<1>1. /\ pending # <<>> /\ focus.value \in V /\ pending[1].wait = "apply"
      /\ Innermost = pending[1] /\ Innermost \in Frames(V, exposed)
  BY Received DEF Apply, Receiving, Innermost
<1>2. /\ exposed' = (exposed \/ focus.value.is = "box") /\ pending' = Tail(pending) /\ slot' = slot
      /\ exposed' \in BOOLEAN /\ (exposed => exposed')
  BY Basics DEF Apply
<1>3. Closed(V, exposed') BY <1>2, Basics, ExposureKeeps
<1>4. Lazy(focus.value) \in Envs(V, exposed') BY <1>1, <1>2, LazyEnv
<1> DEFINE v == ActionValue(Innermost.fn, Lazy(focus.value))
<1>5. PICK W : Room(V, W, exposed', v) BY <1>1, <1>3, <1>4, FrameKinds, ValueRoom
<1>6. focus' = RunBy(v, "forward") BY DEF Apply
<1> HIDE DEF v
<1>7. RunBy(v, "forward") \in Focuses(W, exposed') BY <1>5, FocusMade DEF Room
<1>8. State(W, RunBy(v, "forward"), Tail(pending), slot, exposed')
  <2>1. V \subseteq W /\ Closed(W, exposed') /\ pending[1].wait \in Passing
    BY <1>1, <1>5 DEF Room, Passing
  <2> DEFINE go == RunBy(v, "forward")
             fx == exposed'
  <2>2. /\ go \in Focuses(W, fx) /\ fx \in BOOLEAN /\ (exposed => fx) /\ Closed(W, fx)
        /\ State(V, focus, pending, slot, exposed) /\ pending # <<>>
    BY <1>1, <1>2, <1>7, <2>1 DEF Here
  <2> HIDE DEF go, fx
  <2>3. State(W, go, Tail(pending), slot, fx) BY <2>1, <2>2, OneLess
  <2>4. QED BY <2>3 DEF go, fx
<1>9. QED BY <1>2, <1>6, <1>8 DEF ActInv

LEMMA HandledKeeps == ASSUME NEW V, Here(V), Handled PROVE ActInv'
<1>1. /\ pending # <<>> /\ focus.value \in V /\ Innermost = pending[1]
      /\ Innermost.wait \in {"try", "catch"} /\ Closed(V, exposed)
  BY Received, Basics DEF Handled, Receiving, Innermost
<1>2. pending' = Tail(pending) /\ UNCHANGED <<slot, exposed>> BY DEF Handled
<1>3. CASE Innermost.wait = "try"
  <2> DEFINE v == RightOf(focus.value)
  <2>1. MadeOf(v, V, exposed) /\ v.is # "box" BY <1>1 DEF MadeOf, RightOf
  <2>2. focus' = Returned(v) BY <1>3 DEF Handled
  <2> HIDE DEF v
  <2>3. Closed(V \cup {v}, exposed) BY <1>1, <2>1, WithValue
  <2>4. State(V \cup {v}, Returned(v), Tail(pending), slot, exposed) BY <1>1, <2>1, <2>3, HandedOn
  <2>5. QED BY <1>2, <2>2, <2>4 DEF ActInv
<1>4. CASE Innermost.wait = "catch"
  <2>1. focus' = Returned(focus.value) BY <1>4 DEF Handled
  <2>2. State(V, Returned(focus.value), Tail(pending), slot, exposed)
    BY <1>1, <1>4, HandedOn DEF Passing
  <2>3. QED BY <1>2, <2>1, <2>2 DEF ActInv
<1>5. QED BY <1>1, <1>3, <1>4

LEMMA UnwindKeeps == ASSUME NEW V, Here(V), Unwind PROVE ActInv'
<1>1. focus.do = "raise" BY DEF Unwind, Raise
<1>2. /\ pending # <<>> /\ Innermost = pending[1] /\ Innermost \in Frames(V, exposed)
      /\ Closed(V, exposed) /\ LeftOf \in V
  BY <1>1, Received, Basics DEF Unwind
<1>3. pending' = Tail(pending) /\ UNCHANGED <<slot, exposed>> BY DEF Unwind
<1>4. CASE Innermost.wait = "try"
  <2>1. focus' = Returned(LeftOf) BY <1>4 DEF Unwind
  <2>2. State(V, Returned(LeftOf), Tail(pending), slot, exposed)
    BY <1>2, HandedOn DEF LeftOf
  <2>3. QED BY <1>3, <2>1, <2>2 DEF ActInv
<1>5. CASE Innermost.wait = "catch"
  <2> DEFINE v == ActionValue(Innermost.handler, Innermost.env)
  <2>1. focus' = RunBy(v, "forward") BY <1>5 DEF Unwind
  <2>2. PICK W : Room(V, W, exposed, v) BY <1>2, <1>5, FrameKinds, ValueRoom
  <2> HIDE DEF v
  <2>3. RunBy(v, "forward") \in Focuses(W, exposed) BY <2>2, FocusMade DEF Room
  <2>4. State(W, RunBy(v, "forward"), Tail(pending), slot, exposed)
    BY <1>2, <1>5, <2>2, <2>3, OneLess, Basics DEF Here, Room, Passing
  <2>5. QED BY <1>3, <2>1, <2>4 DEF ActInv
<1>6. CASE Innermost.wait \notin {"try", "catch"}
  <2>1. focus' = Raise BY <1>6 DEF Unwind
  <2>2. Raise \in Focuses(V, exposed) /\ Bindable(Raise, exposed) BY FocusMade DEF Bindable, Raise
  <2>3. State(V, Raise, Tail(pending), slot, exposed)
    BY <1>2, <2>2, OneLess, Basics DEF Here
  <2>4. QED BY <1>3, <2>1, <2>3 DEF ActInv
<1>7. QED BY <1>4, <1>5, <1>6

(* The invariant is inductive.                                             *)
THEOREM ActInvInductive == ActInv /\ [ActNext]_actVars => ActInv'
<1> SUFFICES ASSUME ActInv, [ActNext]_actVars PROVE ActInv'
  OBVIOUS
<1>1. PICK V : Here(V) BY DEF ActInv, Here
<1>2. CASE ChainBind BY <1>1, <1>2, ChainBindKeeps
<1>3. CASE ChainSeq BY <1>1, <1>3, ChainSeqKeeps
<1>4. CASE ChainLet BY <1>1, <1>4, ChainLetKeeps
<1>5. CASE ChainIf BY <1>1, <1>5, ChainIfKeeps
<1>6. CASE Demand BY <1>1, <1>6, DemandKeeps
<1>7. CASE PerformPure BY <1>1, <1>7, PerformPureKeeps
<1>8. CASE PerformHost BY <1>1, <1>8, PerformHostKeeps
<1>9. CASE PerformRead BY <1>1, <1>9, PerformReadKeeps
<1>10. CASE PerformWrite BY <1>1, <1>10, PerformWriteKeeps
<1>11. CASE PerformCall BY <1>1, <1>11, PerformCallKeeps
<1>12. CASE PerformRunner BY <1>1, <1>12, PerformRunnerKeeps
<1>13. CASE RunBox BY <1>1, <1>13, RunBoxKeeps
<1>14. CASE RunThunk BY <1>1, <1>14, RunThunkKeeps
<1>15. CASE RunDatum BY <1>1, <1>15, RunDatumKeeps
<1>16. CASE RunClosure BY <1>1, <1>16, RunClosureKeeps
<1>17. CASE Continue BY <1>1, <1>17, ContinueKeeps
<1>18. CASE BareResult BY <1>1, <1>18, BareResultKeeps
<1>19. CASE Consume BY <1>1, <1>19, ConsumeKeeps
<1>20. CASE RunResult BY <1>1, <1>20, RunResultKeeps
<1>21. CASE Apply BY <1>1, <1>21, ApplyKeeps
<1>22. CASE Handled BY <1>1, <1>22, HandledKeeps
<1>23. CASE Unwind BY <1>1, <1>23, UnwindKeeps
<1>24. CASE ActDone \/ UNCHANGED actVars
  <2>1. UNCHANGED <<focus, pending, slot, exposed>> BY <1>24 DEF ActDone, actVars
  <2>2. QED BY <1>1, <2>1 DEF Here, ActInv
<1>25. QED
  BY <1>2, <1>3, <1>4, <1>5, <1>6, <1>7, <1>8, <1>9, <1>10, <1>11, <1>12, <1>13, <1>14, <1>15, <1>16,
     <1>17, <1>18, <1>19, <1>20, <1>21, <1>22, <1>23, <1>24 DEF ActNext

THEOREM ActInvHolds == ActSpec => []ActInv
<1>1. QED BY ActInvInit, ActInvInductive, PTL DEF ActSpec

(* The types of the variables; a variable read without a force holds no    *)
(* thunk (action.rs 75-111).                                               *)
THEOREM ActTypes == ActSpec => []ActTypeOK
<1>1. ActInv => ActTypeOK
  <2> SUFFICES ASSUME NEW V, Here(V) PROVE ActTypeOK
    BY DEF ActInv, Here
  <2>1. focus \in Focuses(V, exposed) /\ pending \in Seq(Frames(V, exposed)) /\ exposed \in BOOLEAN
    BY DEF Here, State
  <2>2. focus.do = "perform" => (Env.whnf => ~IsRaw(Env.value))
    BY <2>1, FocusKinds DEF Env, Envs
  <2>3. ASSUME NEW i \in DOMAIN pending
        PROVE  pending[i].wait \in {"bind", "stmt", "unbox", "run", "apply", "try", "catch", "bare"}
    <3>1. pending[i] \in Frames(V, exposed) BY <2>1, <2>3
    <3>2. QED BY <3>1, FrameKinds
  <2>4. /\ focus.do \in {"perform", "run", "return", "raise"}
        /\ focus.do = "perform" => focus.pos \in Positions
        /\ focus.do = "run" => focus.runner \in {"consume", "forward"}
    BY <2>1, FocusKinds
  <2>5. QED BY <2>1, <2>2, <2>3, <2>4 DEF ActTypeOK
<1>2. QED BY <1>1, ActInvHolds, PTL

(* No variable holds a pending box, and no box another, wherever no        *)
(* terminal exposed a raw result (runtime.lua 832-846).                    *)
THEOREM OneBox == ActSpec => []OneBoxAtMost
<1>1. ActInv => OneBoxAtMost
  <2> SUFFICES ASSUME NEW V, Here(V) PROVE OneBoxAtMost
    BY DEF ActInv, Here
  <2>1. focus \in Focuses(V, exposed) BY DEF Here, State
  <2>2. focus.do = "perform" => (~exposed => Env.value.is # "box")
    BY <2>1, FocusKinds DEF Env, Envs
  <2>3. focus.do = "return" /\ focus.value.is = "box" => (~exposed => focus.value.of.is # "box")
    BY <2>1, FocusKinds DEF Here, State, Closed, MadeOf
  <2>4. QED BY <2>2, <2>3 DEF OneBoxAtMost
<1>2. QED BY <1>1, ActInvHolds, PTL

(***************************************************************************)
(* A chain of tail calls.  Its call forwards, so it leaves no frame, and   *)
(* the single statements before the next call leave only their own: the    *)
(* stack is the outermost runner's frame and at most a statement's.        *)
(***************************************************************************)

\* A closure of the chain, or its branch computed late.
ChainClosure(v) == v.is = "closure" /\ v.pos = "tail" /\ v.body \in TailCalls
ChainValue(v) == ChainClosure(v) \/ (v.is = "later" /\ ChainClosure(v.of))

Starting == pending = <<>> /\ focus.do = "run" /\ focus.runner = "consume" /\ ChainValue(focus.value)
Over == pending = <<>> /\ focus.do \in {"return", "raise"}

InChain ==
    /\ Len(pending) = 1 /\ pending[1].wait = "unbox"
    /\ \/ focus.do = "perform" /\ focus.pos = "tail" /\ focus.act \in TailCalls
       \/ focus.do = "run" /\ focus.runner = "forward" /\ ChainValue(focus.value)
       \/ focus.do \in {"return", "raise"}

InStatement ==
    /\ Len(pending) = 2 /\ pending[1].wait \in {"bind", "stmt"} /\ pending[2].wait = "unbox"
    /\ pending[1].then \in TailCalls
    /\ \/ focus.do = "perform" /\ focus.act.is \in Single
       \/ focus.do \in {"return", "raise"}

ChainShape == Starting \/ Over \/ InChain \/ InStatement

ChainInv == ActInv /\ (program.main \in TailCalls => ChainShape)

LEMMA TailCallParts ==
    ASSUME NEW a \in TailCalls
    PROVE  /\ a.is \in Single \cup {"call", "if", "let", "bind", "seq"}
           /\ a.is = "call" => a.body \in TailCalls /\ a.fn \in {"performer", "builder"}
           /\ a.is = "if" => a.of \in TailCalls
           /\ a.is = "let" => a.then \in TailCalls
           /\ a.is \in {"bind", "seq"} => a.of.is \in Single /\ a.then \in TailCalls
  BY ActionsAssumption DEF ActionsAssumption, CallsInTail, WellFormed, Single

LEMMA ChainValueOf ==
    ASSUME NEW a \in TailCalls, NEW e
    PROVE  ChainValue(ActionValue(a, e))
<1>1. CASE a.is = "if"
  <2>1. ActionValue(a, e) = Later(Closure(a.of, e, "tail")) /\ a.of \in TailCalls
    BY <1>1, TailCallParts DEF ActionValue
  <2>2. QED BY <2>1 DEF ChainValue, ChainClosure, Later, Closure
<1>2. CASE a.is = "call" /\ a.fn = "builder"
  <2>1. ActionValue(a, e) = Closure(a.body, Lazy(e.value), "tail") /\ a.body \in TailCalls
    BY <1>2, TailCallParts DEF ActionValue
  <2>2. QED BY <2>1 DEF ChainValue, ChainClosure, Closure
<1>3. CASE a.is # "if" /\ ~(a.is = "call" /\ a.fn = "builder")
  <2>1. a.is \notin {"run", "error"} BY TailCallParts DEF Single
  <2>2. ActionValue(a, e) = Closure(a, e, "tail") BY <1>3, <2>1 DEF ActionValue
  <2>3. QED BY <2>2 DEF ChainValue, ChainClosure, Closure
<1>4. QED BY <1>1, <1>2, <1>3

\* Frames put on and taken off.
LEMMA ChainPush ==
    ASSUME ActInv, NEW f
    PROVE  /\ pending = <<>> => Len(<<f>> \o pending) = 1 /\ (<<f>> \o pending)[1] = f
           /\ Len(pending) = 1 => /\ Len(<<f>> \o pending) = 2 /\ (<<f>> \o pending)[1] = f
                                  /\ (<<f>> \o pending)[2] = pending[1]
<1>1. PICK V : pending \in Seq(Frames(V, exposed)) BY DEF ActInv, State
<1> DEFINE S == Frames(V, exposed) \cup {f}
<1>2. pending \in Seq(S) /\ f \in S BY <1>1, SeqGrown
<1> HIDE DEF S
<1>3. /\ Len(<<f>> \o pending) = Len(pending) + 1 /\ (<<f>> \o pending)[1] = f
      /\ \A i \in 1 .. Len(pending) : (<<f>> \o pending)[i + 1] = pending[i]
  BY <1>2, Pushed
<1>4. pending = <<>> => Len(pending) = 0 OBVIOUS
<1> DEFINE t == <<f>> \o pending
<1>5. /\ Len(t) = Len(pending) + 1 /\ t[1] = f
      /\ \A i \in 1 .. Len(pending) : t[i + 1] = pending[i]
  BY <1>3
<1> HIDE DEF t
<1>6. Len(pending) = 1 => t[2] = pending[1] BY <1>5
<1>7. QED BY <1>4, <1>5, <1>6 DEF t

LEMMA ChainPop ==
    ASSUME ActInv
    PROVE  /\ Len(pending) = 1 => Tail(pending) = <<>> /\ Innermost = pending[1]
           /\ Len(pending) = 2 => /\ Len(Tail(pending)) = 1 /\ Tail(pending)[1] = pending[2]
                                  /\ Innermost = pending[1]
<1>1. PICK V : pending \in Seq(Frames(V, exposed)) BY DEF ActInv, State
<1>2. ASSUME pending # <<>>
      PROVE  /\ Innermost = pending[1] /\ Len(Tail(pending)) = Len(pending) - 1
             /\ Tail(pending) \in Seq(Frames(V, exposed))
             /\ \A i \in 1 .. (Len(pending) - 1) : Tail(pending)[i] = pending[i + 1]
  BY <1>1, <1>2, Popped DEF Innermost
<1>3. ASSUME Len(pending) = 1 PROVE Tail(pending) = <<>> /\ Innermost = pending[1]
  <2>1. pending # <<>> BY <1>3
  <2> DEFINE t == Tail(pending)
  <2>2. Len(t) = 0 /\ t \in Seq(Frames(V, exposed)) BY <1>2, <1>3, <2>1
  <2> HIDE DEF t
  <2>3. t = <<>> BY <2>2, EmptySeq
  <2>4. QED BY <1>2, <2>1, <2>3 DEF t
<1>4. ASSUME Len(pending) = 2
      PROVE  Len(Tail(pending)) = 1 /\ Tail(pending)[1] = pending[2] /\ Innermost = pending[1]
  <2>1. Tail(pending)[1] = pending[1 + 1] BY <1>2, <1>4
  <2>2. QED BY <1>2, <1>4, <2>1
<1>5. QED BY <1>3, <1>4

\* A single statement gives a result at once.
LEMMA SingleSteps ==
    ASSUME focus.do = "perform", focus.act.is \in Single, ActNext
    PROVE  pending' = pending /\ focus'.do \in {"return", "raise"}
<1>1. Demand \/ PerformPure \/ PerformHost \/ PerformRead \/ PerformWrite \/ ActDone
  BY DEF ActNext, ChainBind, ChainSeq, ChainLet, ChainIf, PerformCall, PerformRunner, RunBox, RunThunk,
         RunDatum, RunClosure, Continue, BareResult, Consume, RunResult, Apply, Handled, Unwind,
         Performing, RunsA, Receiving, Raise, Act, Single, Spine
<1>2. ~ActDone BY DEF ActDone, Ended
<1>3. QED
  BY <1>1, <1>2 DEF Demand, PerformPure, PerformHost, PerformRead, PerformWrite, Returned, Raise

LEMMA StartStep ==
    ASSUME ActInv, Starting, ActNext
    PROVE  ChainShape'
<1>1. RunThunk \/ RunClosure
  BY DEF Starting, ChainValue, ChainClosure, ActNext, ChainBind, ChainSeq, ChainLet, ChainIf, Demand,
         PerformPure, PerformHost, PerformRead, PerformWrite, PerformCall, PerformRunner, RunBox, RunDatum,
         Continue, BareResult, Consume, RunResult, Apply, Handled, Unwind, ActDone, Ended,
         Performing, RunsA, Receiving, Raise
<1>2. CASE RunThunk
  <2>1. focus' = RunBy(focus.value.of, "consume") /\ pending' = <<>> /\ ChainClosure(focus.value.of)
    BY <1>2 DEF RunThunk, RunsA, Starting, ChainValue, ChainClosure
  <2>2. Starting' BY <2>1 DEF Starting, RunBy, ChainValue
  <2>3. QED BY <2>2 DEF ChainShape
<1>3. CASE RunClosure
  <2>1. ChainClosure(focus.value) BY <1>3 DEF RunClosure, RunsA, Starting, ChainValue
  <2>2. focus.value.body.is \notin {"try", "catch", "bindf"} BY <2>1, TailCallParts DEF ChainClosure, Single
  <2>3. focus' = Perform(focus.value.body, focus.value.env, "tail") /\ pending' = Below
    BY <1>3, <2>1, <2>2 DEF RunClosure, ChainClosure
  <2>4. Len(Below) = 1 /\ Below[1].wait = "unbox" BY ChainPush DEF Starting, Below
  <2>5. InChain' BY <2>1, <2>3, <2>4 DEF InChain, ChainClosure, Perform
  <2>6. QED BY <2>5 DEF ChainShape
<1>4. QED BY <1>1, <1>2, <1>3

LEMMA ChainStep ==
    ASSUME ActInv, InChain, ActNext
    PROVE  ChainShape'
<1>0. pending # <<>> BY DEF InChain
<1>1. CASE focus.do = "run"
  <2>0. focus.runner = "forward" /\ ChainValue(focus.value) /\ Below = pending
    BY <1>1 DEF InChain, Below
  <2>1. RunThunk \/ RunClosure
    BY <1>1, <2>0 DEF ChainValue, ChainClosure, ActNext, ChainBind, ChainSeq, ChainLet, ChainIf, Demand,
           PerformPure, PerformHost, PerformRead, PerformWrite, PerformCall, PerformRunner, RunBox, RunDatum,
           Continue, BareResult, Consume, RunResult, Apply, Handled, Unwind, ActDone, Ended,
           Performing, RunsA, Receiving, Raise
  <2>2. CASE RunThunk
    <3>1. focus' = RunBy(focus.value.of, "forward") /\ pending' = pending /\ ChainClosure(focus.value.of)
      BY <2>0, <2>2 DEF RunThunk, RunsA, ChainValue, ChainClosure
    <3>2. InChain' BY <3>1 DEF InChain, RunBy, ChainValue
    <3>3. QED BY <3>2 DEF ChainShape
  <2>3. CASE RunClosure
    <3>1. ChainClosure(focus.value) BY <2>0, <2>3 DEF RunClosure, RunsA, ChainValue
    <3>2. focus.value.body.is \notin {"try", "catch", "bindf"} BY <3>1, TailCallParts DEF ChainClosure, Single
    <3>3. focus' = Perform(focus.value.body, focus.value.env, "tail") /\ pending' = pending
      BY <2>0, <2>3, <3>1, <3>2 DEF RunClosure, ChainClosure
    <3>4. InChain' BY <3>1, <3>3 DEF InChain, ChainClosure, Perform
    <3>5. QED BY <3>4 DEF ChainShape
  <2>4. QED BY <2>1, <2>2, <2>3
<1>2. CASE focus.do = "perform" /\ focus.act.is \in Single
  <2>1. InChain' BY <1>2, SingleSteps DEF InChain
  <2>2. QED BY <2>1 DEF ChainShape
<1>3. CASE focus.do = "perform" /\ focus.act.is \notin Single
  <2>0. focus.act \in TailCalls /\ focus.pos = "tail" BY <1>3 DEF InChain
  <2>1. ChainBind \/ ChainSeq \/ ChainLet \/ ChainIf \/ PerformCall \/ PerformRunner
    BY <1>3 DEF ActNext, Demand, PerformPure, PerformHost, PerformRead, PerformWrite, RunBox, RunThunk,
           RunDatum, RunClosure, Continue, BareResult, Consume, RunResult, Apply, Handled, Unwind,
           ActDone, Ended, Performing, RunsA, Receiving, Raise, Act, Single
  <2>2. CASE ChainBind
    <3>1. Act.of.is \in Single /\ Act.then \in TailCalls
      BY <2>0, <2>2, TailCallParts DEF ChainBind, Performing, Act
    <3>2. InStatement'
      BY <2>2, <3>1, ChainPush DEF ChainBind, InChain, InStatement, Perform
    <3>3. QED BY <3>2 DEF ChainShape
  <2>3. CASE ChainSeq
    <3>1. Act.of.is \in Single /\ Act.then \in TailCalls
      BY <2>0, <2>3, TailCallParts DEF ChainSeq, Performing, Act
    <3>2. CASE Act.of.is = "pure"
      <4>1. InChain' BY <2>3, <3>1, <3>2 DEF ChainSeq, InChain, Perform
      <4>2. QED BY <4>1 DEF ChainShape
    <3>3. CASE Act.of.is # "pure"
      <4>1. InStatement'
        BY <2>3, <3>1, <3>3, ChainPush DEF ChainSeq, InChain, InStatement, Perform
      <4>2. QED BY <4>1 DEF ChainShape
    <3>4. QED BY <3>2, <3>3
  <2>4. CASE ChainLet
    <3>1. Act.then \in TailCalls BY <2>0, <2>4, TailCallParts DEF ChainLet, Performing, Act
    <3>2. InChain' BY <2>4, <3>1 DEF ChainLet, InChain, Perform
    <3>3. QED BY <3>2 DEF ChainShape
  <2>5. CASE ChainIf
    <3>1. Act.of \in TailCalls BY <2>0, <2>5, TailCallParts DEF ChainIf, Performing, Act
    <3>2. InChain' BY <2>5, <3>1 DEF ChainIf, InChain, Perform
    <3>3. QED BY <3>2 DEF ChainShape
  <2>6. CASE PerformCall
    <3>1. Act.body \in TailCalls BY <2>0, <2>6, TailCallParts DEF PerformCall, Performing, Act
    <3>2. pending' = pending BY <2>0, <2>6 DEF PerformCall, CallFrames, Runner
    <3>3. InChain' BY <2>6, <3>1, <3>2 DEF PerformCall, InChain, Perform
    <3>4. QED BY <3>3 DEF ChainShape
  <2>7. CASE PerformRunner
    <3>1. ChainValue(ActionValue(Act, Env)) BY <2>0, ChainValueOf DEF Act
    <3>2. focus' = RunBy(ActionValue(Act, Env), "forward") /\ pending' = pending
      BY <2>0, <2>7 DEF PerformRunner, Runner
    <3>3. InChain' BY <3>1, <3>2 DEF InChain, RunBy
    <3>4. QED BY <3>3 DEF ChainShape
  <2>8. QED BY <2>1, <2>2, <2>3, <2>4, <2>5, <2>6, <2>7
<1>4. CASE focus.do \in {"return", "raise"}
  <2>1. Consume \/ Unwind
    BY <1>0, <1>4, ChainPop DEF InChain, ActNext, ChainBind, ChainSeq, ChainLet, ChainIf, Demand, PerformPure,
           PerformHost, PerformRead, PerformWrite, PerformCall, PerformRunner, RunBox, RunThunk,
           RunDatum, RunClosure, Continue, BareResult, RunResult, Apply, Handled,
           ActDone, Ended, Performing, RunsA, Receiving, Innermost
  <2>2. Tail(pending) = <<>> /\ Innermost = pending[1] /\ pending[1].wait = "unbox"
    BY ChainPop DEF InChain
  <2>3. CASE Consume
    <3>1. Over' BY <2>2, <2>3 DEF Over, Consume, Returned
    <3>2. QED BY <3>1 DEF ChainShape
  <2>4. CASE Unwind
    <3>1. focus' = Raise BY <2>2, <2>4 DEF Unwind
    <3>2. Over' BY <2>2, <2>4, <3>1 DEF Over, Unwind, Raise
    <3>3. QED BY <3>2 DEF ChainShape
  <2>5. QED BY <2>1, <2>3, <2>4
<1>5. QED BY <1>1, <1>2, <1>3, <1>4 DEF InChain

LEMMA StatementStep ==
    ASSUME ActInv, InStatement, ActNext
    PROVE  ChainShape'
<1>0. pending # <<>> BY DEF InStatement
<1>1. CASE focus.do = "perform"
  <2>1. InStatement' BY <1>1, SingleSteps DEF InStatement
  <2>2. QED BY <2>1 DEF ChainShape
<1>2. CASE focus.do \in {"return", "raise"}
  <2>1. Continue \/ Unwind
    BY <1>0, <1>2, ChainPop DEF InStatement, ActNext, ChainBind, ChainSeq, ChainLet, ChainIf, Demand, PerformPure,
           PerformHost, PerformRead, PerformWrite, PerformCall, PerformRunner, RunBox, RunThunk,
           RunDatum, RunClosure, Consume, BareResult, RunResult, Apply, Handled,
           ActDone, Ended, Performing, RunsA, Receiving, Innermost
  <2>2. Len(pending') = 1 /\ pending'[1].wait = "unbox"
    BY <2>1, ChainPop DEF InStatement, Continue, Unwind
  <2>3. CASE Continue
    <3>1. InChain' BY <2>2, <2>3, ChainPop DEF InStatement, InChain, Continue, Perform
    <3>2. QED BY <3>1 DEF ChainShape
  <2>4. CASE Unwind
    <3>1. focus' = Raise BY <2>4, ChainPop DEF InStatement, Unwind
    <3>2. InChain' BY <2>2, <3>1 DEF InChain, Raise
    <3>3. QED BY <3>2 DEF ChainShape
  <2>5. QED BY <2>1, <2>3, <2>4
<1>3. QED BY <1>1, <1>2 DEF InStatement

LEMMA OverStep ==
    ASSUME Over, ActNext
    PROVE  UNCHANGED actVars
  BY DEF Over, ActNext, ChainBind, ChainSeq, ChainLet, ChainIf, Demand, PerformPure, PerformHost, PerformRead,
         PerformWrite, PerformCall, PerformRunner, RunBox, RunThunk, RunDatum, RunClosure, Continue,
         Consume, BareResult, RunResult, Apply, Handled, Unwind, ActDone, Performing, RunsA, Receiving

(* A chain of tail calls runs in constant stack, however long it is and    *)
(* whichever of performer and builder it goes through (runtime.lua         *)
(* 837-842, action.rs 262-275).                                            *)
THEOREM ConstantStack == ActSpec => []TailChainsFlat
<1>1. ActInit => ChainInv
  <2> SUFFICES ASSUME ActInit, program.main \in TailCalls PROVE Starting
    BY ActInvInit DEF ChainInv, ChainShape
  <2>1. ChainValue(ActionValue(program.main, Lazy(Datum))) BY ChainValueOf
  <2>2. QED BY <2>1 DEF ActInit, Starting, RunBy
<1>2. ChainInv /\ [ActNext]_actVars => ChainInv'
  <2> SUFFICES ASSUME ChainInv, [ActNext]_actVars, (program.main \in TailCalls)' PROVE ChainShape'
    BY ActInvInductive DEF ChainInv
  <2>1. program' = program
    BY DEF ActNext, ChainBind, ChainSeq, ChainLet, ChainIf, Demand, PerformPure, PerformHost, PerformRead,
           PerformWrite, PerformCall, PerformRunner, RunBox, RunThunk, RunDatum, RunClosure, Continue,
           Consume, BareResult, RunResult, Apply, Handled, Unwind, ActDone, actVars
  <2>2. ActInv /\ ChainShape BY <2>1 DEF ChainInv
  <2>3. CASE UNCHANGED actVars
    BY <2>2, <2>3 DEF actVars, ChainShape, Starting, Over, InChain, InStatement
  <2>4. CASE ActNext /\ Over BY <2>3, <2>4, OverStep
  <2>5. CASE ActNext /\ ~Over
    BY <2>2, <2>5, StartStep, ChainStep, StatementStep DEF ChainShape
  <2>6. QED BY <2>3, <2>4, <2>5
<1>3. ChainInv => TailChainsFlat
  <2>1. ChainShape => pending = <<>> \/ Len(pending) = 1 \/ Len(pending) = 2
    BY DEF ChainShape, Starting, Over, InChain, InStatement
  <2>2. pending = <<>> => Len(pending) = 0 OBVIOUS
  <2> DEFINE n == Len(pending)
  <2>3. ChainShape => n = 0 \/ n = 1 \/ n = 2 BY <2>1, <2>2
  <2> HIDE DEF n
  <2>4. n = 0 \/ n = 1 \/ n = 2 => ~(n > 2) OBVIOUS
  <2>5. ChainShape => ~(Len(pending) > 2) BY <2>3, <2>4 DEF n
  <2>6. QED BY <2>5 DEF ChainInv, TailChainsFlat
<1>4. QED BY <1>1, <1>2, <1>3, PTL DEF ActSpec
=============================================================================
