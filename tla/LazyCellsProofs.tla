---------------------------- MODULE LazyCellsProofs ----------------------------
(***************************************************************************)
(* Memoization keeps the meaning of every list and shares the work of its  *)
(* generator, for every set of cells and lists and every depth of nesting. *)
(*                                                                         *)
(* What a memoizing write stores was read before the force it waits for,   *)
(* so the invariant says what such a frame may rely on: the thunk above it *)
(* belongs to a cell with the same tail, the lists cells stand for never   *)
(* change, and a thunk that is done stays done.  For the sharing: as long  *)
(* as nobody reads a generator while it runs, it runs in one activation at *)
(* most, in one form at most, and is out of reach once it has returned.    *)
(***************************************************************************)
EXTENDS LazyCells, TLAPS

Kinds == Forms \cup {"thunk", "value"}
Cell == [list : Lists, lazy : Forms \cup {"no"}, tail : [is : Kinds, of : Cells \cup {nil}]]
Thunk == [done : BOOLEAN, code : Cells \cup {nil}, val : Cells \cup {nil},
          form : Forms \cup {"spent"}]
Frame == [at : {"tail", "force"}, c : Cells] \cup [at : {"memo"}, c : Cells, x : Cells]

Records ==
    /\ DOMAIN cell \subseteq Cells /\ cell \in [DOMAIN cell -> Cell]
    /\ DOMAIN thunk \subseteq DOMAIN cell /\ thunk \in [DOMAIN thunk -> Thunk]
    /\ runs \in [DOMAIN cell -> {0, 1, 2}] /\ again \subseteq DOMAIN cell
    /\ stack \in Seq(Frame)

Refers(tail) ==
    IF tail.is = "value" THEN tail.of \in DOMAIN cell \cup {nil}
                         ELSE tail.is = "thunk" /\ tail.of \in DOMAIN thunk

GoodCell(c) ==
    IF cell[c].lazy = "no"
    THEN Refers(cell[c].tail) /\ TailMeaning(cell[c].tail) = Rest[cell[c].list]
    ELSE cell[c].tail = Generator(cell[c].lazy, c) /\ c \notin DOMAIN thunk

GoodThunk(x) ==
    IF thunk[x].done
    THEN thunk[x].val \in DOMAIN cell \cup {nil} /\ Meaning(thunk[x].val) = Rest[cell[x].list]
    ELSE thunk[x].code = x /\ thunk[x].form \in Forms

GoodFrame(i) ==
    /\ stack[i].c \in DOMAIN cell
    /\ stack[i].at = "force" => stack[i].c \in DOMAIN thunk
    /\ stack[i].at = "memo" =>
        /\ stack[i].x \in DOMAIN thunk /\ cell[stack[i].c].lazy = "no"
        /\ Rest[cell[stack[i].x].list] = Rest[cell[stack[i].c].list]
        /\ IF i = Len(stack) THEN thunk[stack[i].x].done
                             ELSE stack[i + 1].at = "force" /\ stack[i + 1].c = stack[i].x

Runs(i, c) == stack[i].at # "memo" /\ stack[i].c = c

\* What holds of a generator nobody has read while it ran.
Undisturbed(c) ==
    /\ runs[c] <= 1
    /\ \A i, j \in DOMAIN stack : Runs(i, c) /\ Runs(j, c) => i = j
    /\ \A i \in DOMAIN stack : Runs(i, c) =>
        runs[c] = 0 /\ (stack[i].at = "tail" => c \notin DOMAIN thunk)
    /\ runs[c] > 0 => cell[c].lazy = "no" /\ (c \in DOMAIN thunk => thunk[c].done)

Heap == (\A c \in DOMAIN cell : GoodCell(c)) /\ (\A x \in DOMAIN thunk : GoodThunk(x))
Frames == \A i \in DOMAIN stack : GoodFrame(i)
Shared == \A c \in DOMAIN cell \ again : Undisturbed(c)

LazyInv == Records /\ Heap /\ Frames /\ Shared

-------------------------------------------------------------------------------
(* What every step keeps of the heap. *)

\* Cells and thunks stay, with the lists they stand for; a cell that is no
\* generator and a thunk that is done remain so.
Grows ==
    /\ DOMAIN cell \subseteq DOMAIN cell' /\ DOMAIN thunk \subseteq DOMAIN thunk'
    /\ \A c \in DOMAIN cell : cell'[c].list = cell[c].list
    /\ \A c \in DOMAIN cell : cell[c].lazy = "no" => cell'[c].lazy = "no"
    /\ \A x \in DOMAIN thunk : thunk[x].done => thunk'[x].done

\* What a cell, a thunk and a value stood for, they stand for.
LEMMA MeaningsStay ==
    ASSUME LazyCellsAssumption, Records, Grows
    PROVE  /\ \A v \in DOMAIN cell \cup {nil} :
                v \in DOMAIN cell' \cup {nil} /\ Meaning(v)' = Meaning(v)
           /\ \A c \in DOMAIN cell :
                cell'[c] = cell[c] => (Refers(cell[c].tail) => Refers(cell[c].tail)')
  BY DEF LazyCellsAssumption, Records, Grows, Meaning, Refers

LEMMA CellStays ==
    ASSUME LazyCellsAssumption, LazyInv, Grows, NEW c \in DOMAIN cell, cell'[c] = cell[c],
           c \in DOMAIN thunk' => c \in DOMAIN thunk \/ cell[c].lazy = "no"
    PROVE  GoodCell(c)'
<1>1. Records /\ GoodCell(c)
  BY DEF LazyInv, Heap
<1>2. CASE cell[c].lazy = "no"
  <2>1. Refers(cell[c].tail) /\ TailMeaning(cell[c].tail) = Rest[cell[c].list]
    BY <1>1, <1>2 DEF GoodCell
  <2>2. Refers(cell[c].tail)'
    BY <1>1, <2>1, MeaningsStay
  <2>3. TailMeaning(cell[c].tail)' = TailMeaning(cell[c].tail)
    <3>1. CASE cell[c].tail.is = "value"
      BY <1>1, <2>1, <3>1, MeaningsStay DEF TailMeaning, Refers
    <3>2. CASE cell[c].tail.is # "value"
      <4>1. cell[c].tail.of \in DOMAIN cell
        BY <1>1, <2>1, <3>2 DEF Refers, Records
      <4> QED BY <3>2, <4>1 DEF TailMeaning, Grows
    <3> QED BY <3>1, <3>2
  <2> QED BY <1>2, <2>1, <2>2, <2>3 DEF GoodCell
<1>3. CASE cell[c].lazy # "no"
  BY <1>1, <1>3 DEF GoodCell
<1> QED BY <1>2, <1>3

LEMMA ThunkStays ==
    ASSUME LazyCellsAssumption, LazyInv, Grows, NEW x \in DOMAIN thunk, thunk'[x] = thunk[x]
    PROVE  GoodThunk(x)'
<1>1. Records /\ GoodThunk(x) /\ x \in DOMAIN cell
  BY DEF LazyInv, Heap, Records
<1>2. cell'[x].list = cell[x].list
  BY <1>1 DEF Grows
<1> QED BY <1>1, <1>2, MeaningsStay DEF GoodThunk

\* A frame stays good as long as what it waits for is above it, or is done.
LEMMA FrameStays ==
    ASSUME LazyInv, Grows, NEW i \in DOMAIN stack, i \in DOMAIN stack', stack'[i] = stack[i],
           stack[i].at = "memo" =>
                IF i = Len(stack') THEN thunk'[stack[i].x].done
                ELSE i # Len(stack) /\ stack'[i + 1] = stack[i + 1]
    PROVE  GoodFrame(i)'
<1>1. Records /\ GoodFrame(i)
  BY DEF LazyInv, Frames
<1>2. CASE stack[i].at = "memo"
  <2>1. stack[i].x \in DOMAIN cell /\ stack[i].c \in DOMAIN cell
    BY <1>1, <1>2 DEF GoodFrame, Records
  <2> QED BY <1>1, <1>2, <2>1 DEF GoodFrame, Grows
<1>3. CASE stack[i].at # "memo"
  BY <1>1, <1>3 DEF GoodFrame, Grows
<1> QED BY <1>2, <1>3

\* A generator stays undisturbed when no frame that runs it and no thunk of it is
\* new, or when it has no such frame and has not returned.
LEMMA UndisturbedStays ==
    ASSUME LazyInv, Grows, NEW c \in DOMAIN cell, c \notin again, runs'[c] = runs[c],
           \A i \in DOMAIN stack' : Runs(i, c)' =>
                i \in DOMAIN stack /\ stack'[i] = stack[i],
           \/ c \in DOMAIN thunk' => c \in DOMAIN thunk
           \/ runs[c] = 0 /\ \A i \in DOMAIN stack : ~Runs(i, c)
    PROVE  Undisturbed(c)'
<1>1. Undisturbed(c)
  BY DEF LazyInv, Shared
<1>2. runs[c] \in {0, 1, 2}
  BY DEF LazyInv, Records
<1>3. \A i \in DOMAIN stack' : Runs(i, c)' => i \in DOMAIN stack /\ Runs(i, c) /\ stack'[i] = stack[i]
  BY DEF Runs
<1>4. \A i, j \in DOMAIN stack' : Runs(i, c)' /\ Runs(j, c)' => i = j
  BY <1>1, <1>3 DEF Undisturbed
<1>5. \A i \in DOMAIN stack' : Runs(i, c)' =>
        runs'[c] = 0 /\ (stack'[i].at = "tail" => c \notin DOMAIN thunk')
  BY <1>1, <1>3 DEF Undisturbed
<1>6. runs'[c] > 0 => cell'[c].lazy = "no" /\ (c \in DOMAIN thunk' => thunk'[c].done)
  BY <1>1, <1>2 DEF Undisturbed, Grows
<1> QED BY <1>1, <1>4, <1>5, <1>6 DEF Undisturbed

LEMMA RunningFacts ==
    ASSUME Records, NEW c
    PROVE  c \in Running <=> \E i \in DOMAIN stack : Runs(i, c)
  BY DEF Records, Running, Runs

LEMMA TailsStay ==
    ASSUME LazyCellsAssumption, Records, Grows, NEW t, Refers(t)
    PROVE  Refers(t)' /\ TailMeaning(t)' = TailMeaning(t)
<1>1. CASE t.is = "value"
  BY <1>1, MeaningsStay DEF TailMeaning, Refers
<1>2. CASE t.is # "value"
  <2>1. t.of \in DOMAIN cell
    BY <1>2 DEF Refers, Records
  <2> QED BY <1>2, <2>1 DEF TailMeaning, Grows, Refers
<1> QED BY <1>1, <1>2

-------------------------------------------------------------------------------
(* The reads: frames are pushed, or a value is written back. *)

\* The innermost frame is not waiting while program code runs.
LEMMA CodeFacts ==
    ASSUME Records, Code
    PROVE  \A i \in DOMAIN stack : stack[i].at = "memo" => i # Len(stack)
  BY DEF Records, Code, Top, Last

\* A frame that runs generator c goes on top, over one that waits for it perhaps.
LEMMA PushInv ==
    ASSUME LazyCellsAssumption, LazyInv, Code, UNCHANGED <<cell, thunk, runs>>,
           NEW c \in DOMAIN cell, again' = IF c \in Running THEN again \cup {c} ELSE again,
           c \notin again => runs[c] = 0,
           stack' \in Seq(Frame), Len(stack') > Len(stack),
           \A i \in DOMAIN stack : stack'[i] = stack[i],
           \A i \in DOMAIN stack' \ DOMAIN stack :
                /\ GoodFrame(i)'
                /\ i # Len(stack') => stack'[i].at = "memo"
                /\ i = Len(stack') =>
                    stack'[i].c = c /\ (stack'[i].at = "tail" => c \notin DOMAIN thunk)
    PROVE  LazyInv'
<1>1. Records /\ Records'
  BY DEF LazyInv, Records
<1>2. Grows
  BY DEF Grows
<1>3. Heap'
  BY <1>2, CellStays, ThunkStays DEF Heap
<1>4. /\ DOMAIN stack = 1 .. Len(stack) /\ DOMAIN stack' = 1 .. Len(stack')
      /\ Len(stack) \in Nat /\ Len(stack') \in Nat
  BY <1>1 DEF Records
<1>5. Frames'
  <2>1. ASSUME NEW i \in DOMAIN stack PROVE GoodFrame(i)'
    <3>1. i \in DOMAIN stack' /\ i # Len(stack')
      BY <1>4
    <3>2. stack[i].at = "memo" => i # Len(stack) /\ stack'[i + 1] = stack[i + 1]
      BY <1>1, <1>4, CodeFacts
    <3> QED BY <1>2, <3>1, <3>2, FrameStays
  <2> QED BY <2>1 DEF Frames
<1>6. Shared'
  <2> SUFFICES ASSUME NEW b \in DOMAIN cell, b \notin again' PROVE Undisturbed(b)'
    BY DEF Shared
  <2>1. b \notin again /\ runs'[b] = runs[b]
    OBVIOUS
  <2>2. CASE b # c
    <3>1. \A i \in DOMAIN stack' : Runs(i, b)' => i \in DOMAIN stack /\ stack'[i] = stack[i]
      BY <1>4, <2>2 DEF Runs
    <3> QED BY <1>2, <2>1, <3>1, UndisturbedStays
  <2>3. CASE b = c
    <3>1. \A i \in DOMAIN stack : ~Runs(i, b)
      BY <1>1, <2>3, RunningFacts
    <3>2. \A i \in DOMAIN stack' : Runs(i, b)' => i = Len(stack')
      BY <1>4, <3>1 DEF Runs
    <3>3. runs'[b] = 0
      BY <2>1, <2>3
    <3>4. \A i \in DOMAIN stack' : Runs(i, b)' => (stack'[i].at = "tail" => b \notin DOMAIN thunk')
      BY <1>4, <2>3, <3>2
    <3> QED BY <3>2, <3>3, <3>4 DEF Undisturbed
  <2> QED BY <2>2, <2>3
<1> QED BY <1>1, <1>3, <1>5, <1>6 DEF LazyInv

\* A generator that has not raised its flag, or whose thunk is not done, has not
\* returned yet, unless it was read again.
LEMMA NotYetRun ==
    ASSUME LazyInv, NEW c \in DOMAIN cell, c \notin again,
           cell[c].lazy # "no" \/ (c \in DOMAIN thunk /\ ~thunk[c].done)
    PROVE  runs[c] = 0
<1>1. Undisturbed(c) /\ runs[c] \in {0, 1, 2}
  BY DEF LazyInv, Shared, Records
<1> QED BY <1>1 DEF Undisturbed

LEMMA TailRunsInv ==
    ASSUME LazyCellsAssumption, LazyInv, NEW c \in DOMAIN cell, TailRuns(c)
    PROVE  LazyInv'
<1> DEFINE f == [at |-> "tail", c |-> c]
<1>1. Code /\ cell[c].lazy # "no" /\ stack' = stack \o <<f>>
      /\ again' = (IF c \in Running THEN again \cup {c} ELSE again)
      /\ UNCHANGED <<cell, thunk, runs>>
  BY DEF TailRuns, Push
<1>2. Records /\ f \in Frame /\ f.at = "tail" /\ f.c = c
  BY DEF LazyInv, Records, Frame
<1> HIDE DEF f
<1>3. /\ stack' \in Seq(Frame) /\ Len(stack') = Len(stack) + 1 /\ stack'[Len(stack')] = f
      /\ DOMAIN stack' = 1 .. Len(stack) + 1 /\ DOMAIN stack = 1 .. Len(stack)
      /\ \A i \in DOMAIN stack : stack'[i] = stack[i]
  BY <1>1, <1>2 DEF Records
<1>4. c \notin DOMAIN thunk
  BY <1>1 DEF LazyInv, Heap, GoodCell
<1>5. ASSUME NEW i \in DOMAIN stack' \ DOMAIN stack PROVE GoodFrame(i)' /\ i = Len(stack')
  <2>1. i = Len(stack') /\ stack'[i] = f
    BY <1>3
  <2> QED BY <1>1, <1>2, <2>1 DEF GoodFrame
<1>6. c \notin again => runs[c] = 0
  BY <1>1, NotYetRun
<1>7. Len(stack') > Len(stack)
  BY <1>2, <1>3 DEF Records
<1>8. \A i \in DOMAIN stack' \ DOMAIN stack :
        i = Len(stack') => stack'[i].c = c /\ (stack'[i].at = "tail" => c \notin DOMAIN thunk)
  BY <1>2, <1>3, <1>4, <1>5
<1> QED BY <1>1, <1>3, <1>5, <1>6, <1>7, <1>8, PushInv

\* A thunk is evaluated, for a variable or for a tail.
LEMMA ForceInv ==
    ASSUME LazyCellsAssumption, LazyInv, NEW x \in DOMAIN thunk, VariableForces(x)
    PROVE  LazyInv'
<1> DEFINE f == [at |-> "force", c |-> x]
<1>1. Code /\ ~thunk[x].done /\ stack' = stack \o <<f>>
      /\ again' = (IF x \in Running THEN again \cup {x} ELSE again)
      /\ UNCHANGED <<cell, thunk, runs>>
  BY DEF VariableForces, Push
<1>2. Records /\ x \in DOMAIN cell /\ f \in Frame /\ f.at = "force" /\ f.c = x
  BY DEF LazyInv, Records, Frame
<1> HIDE DEF f
<1>3. /\ stack' \in Seq(Frame) /\ Len(stack') = Len(stack) + 1 /\ stack'[Len(stack')] = f
      /\ DOMAIN stack' = 1 .. Len(stack) + 1 /\ DOMAIN stack = 1 .. Len(stack)
      /\ \A i \in DOMAIN stack : stack'[i] = stack[i]
  BY <1>1, <1>2 DEF Records
<1>4. ASSUME NEW i \in DOMAIN stack' \ DOMAIN stack PROVE GoodFrame(i)' /\ i = Len(stack')
  <2>1. i = Len(stack') /\ stack'[i] = f
    BY <1>3
  <2> QED BY <1>1, <1>2, <2>1 DEF GoodFrame
<1>5. x \notin again => runs[x] = 0
  BY <1>1, <1>2, NotYetRun
<1>6. Len(stack') > Len(stack)
  BY <1>2, <1>3 DEF Records
<1>7. \A i \in DOMAIN stack' \ DOMAIN stack :
        i = Len(stack') => stack'[i].c = x /\ (stack'[i].at = "tail" => x \notin DOMAIN thunk)
  BY <1>2, <1>3
<1> QED BY <1>1, <1>2, <1>3, <1>4, <1>5, <1>6, <1>7, PushInv

\* A value that means the rest of the list is written into a cell.
LEMMA WriteBack ==
    ASSUME LazyCellsAssumption, LazyInv, NEW c \in DOMAIN cell, cell[c].lazy = "no",
           NEW v \in DOMAIN cell \cup {nil}, Meaning(v) = Rest[cell[c].list],
           cell' = [cell EXCEPT ![c].tail = Value(v)], UNCHANGED <<thunk, runs, again>>,
           stack' \in Seq(Frame)
    PROVE  Grows /\ Records' /\ Heap'
<1>1. Records
  BY DEF LazyInv
<1> DEFINE t == Value(v)
<1>2. t \in [is : Kinds, of : Cells \cup {nil}] /\ t.is = "value" /\ t.of = v
  BY <1>1 DEF Value, Kinds, Records
<1> HIDE DEF t
<1>3. /\ DOMAIN cell' = DOMAIN cell /\ cell' \in [DOMAIN cell -> Cell]
      /\ \A z \in DOMAIN cell : z # c => cell'[z] = cell[z]
      /\ cell'[c].list = cell[c].list /\ cell'[c].lazy = "no" /\ cell'[c].tail = t
  <2>1. cell[c] \in Cell /\ cell' = [cell EXCEPT ![c] = [cell[c] EXCEPT !.tail = t]]
    BY <1>1 DEF Records, t
  <2> DEFINE r == [cell[c] EXCEPT !.tail = t]
  <2>2. r \in Cell /\ r.list = cell[c].list /\ r.lazy = cell[c].lazy /\ r.tail = t
    BY <1>2, <2>1 DEF Cell
  <2> HIDE DEF r
  <2>3. cell' = [cell EXCEPT ![c] = r]
    BY <2>1 DEF r
  <2> QED BY <1>1, <2>2, <2>3 DEF Records
<1>4. Records'
  BY <1>1, <1>3 DEF Records
<1>5. Grows
  BY <1>3 DEF Grows
<1>6. GoodCell(c)'
  <2>1. Meaning(v)' = Meaning(v) /\ v \in DOMAIN cell' \cup {nil}
    BY <1>1, <1>5, MeaningsStay
  <2>2. Refers(t)' /\ TailMeaning(t)' = Meaning(v)'
    BY <1>2, <2>1 DEF Refers, TailMeaning, t, Value
  <2> QED BY <1>2, <1>3, <2>1, <2>2 DEF GoodCell, Refers, TailMeaning
<1>7. \A z \in DOMAIN cell : GoodCell(z)'
  BY <1>3, <1>5, <1>6, CellStays
<1>8. \A x \in DOMAIN thunk : GoodThunk(x)'
  BY <1>5, ThunkStays
<1> QED BY <1>3, <1>4, <1>5, <1>7, <1>8 DEF Heap

LEMMA TailForcesInv ==
    ASSUME LazyCellsAssumption, LazyInv, NEW c \in DOMAIN cell, TailForces(c)
    PROVE  LazyInv'
<1>1. PICK x : x = cell[c].tail.of
  OBVIOUS
<1>2. Code /\ cell[c].lazy = "no" /\ cell[c].tail.is = "thunk"
  BY DEF TailForces
<1>3. Records /\ x \in DOMAIN thunk /\ x \in DOMAIN cell /\ Rest[cell[x].list] = Rest[cell[c].list]
  BY <1>1, <1>2 DEF LazyInv, Heap, GoodCell, Refers, TailMeaning, Records
<1>4. CASE thunk[x].done
  <2>1. /\ cell' = [cell EXCEPT ![c].tail = Value(thunk[x].val)]
        /\ UNCHANGED <<thunk, stack, runs, again>>
    BY <1>1, <1>4 DEF TailForces
  <2>2. thunk[x].val \in DOMAIN cell \cup {nil} /\ Meaning(thunk[x].val) = Rest[cell[c].list]
    BY <1>3, <1>4 DEF LazyInv, Heap, GoodThunk
  <2>3. stack' \in Seq(Frame)
    BY <1>3, <2>1 DEF Records
  <2>4. PICK v : v = thunk[x].val
    OBVIOUS
  <2>5. Grows /\ Records' /\ Heap'
    BY <1>2, <2>1, <2>2, <2>3, <2>4, WriteBack
  <2>6. Frames'
    <3> SUFFICES ASSUME NEW i \in DOMAIN stack PROVE GoodFrame(i)'
      BY <2>1 DEF Frames
    <3>1. stack[i].at = "memo" => i # Len(stack)
      BY <1>2, <1>3, CodeFacts
    <3> QED BY <2>1, <2>5, <3>1, FrameStays
  <2>7. Shared'
    <3> SUFFICES ASSUME NEW b \in DOMAIN cell \ again PROVE Undisturbed(b)'
      BY <2>1, <2>5 DEF Shared, Records
    <3> QED BY <2>1, <2>5, UndisturbedStays
  <2> QED BY <2>5, <2>6, <2>7 DEF LazyInv
<1>5. CASE ~thunk[x].done
  <2> DEFINE f == [at |-> "memo", c |-> c, x |-> x]
             g == [at |-> "force", c |-> x]
  <2>1. /\ stack' = stack \o <<f, g>>
        /\ again' = (IF x \in Running THEN again \cup {x} ELSE again)
        /\ UNCHANGED <<cell, thunk, runs>>
    BY <1>1, <1>5 DEF TailForces, Push
  <2>2. /\ f \in Frame /\ f.at = "memo" /\ f.c = c /\ f.x = x
        /\ g \in Frame /\ g.at = "force" /\ g.c = x
    BY <1>3 DEF Records, Frame
  <2> HIDE DEF f, g
  <2>3. /\ stack' \in Seq(Frame) /\ Len(stack') = Len(stack) + 2
        /\ stack'[Len(stack) + 1] = f /\ stack'[Len(stack) + 2] = g
        /\ DOMAIN stack' = 1 .. Len(stack) + 2 /\ DOMAIN stack = 1 .. Len(stack)
        /\ \A i \in DOMAIN stack : stack'[i] = stack[i]
    BY <1>3, <2>1, <2>2 DEF Records
  <2>4. ASSUME NEW i \in DOMAIN stack' \ DOMAIN stack
        PROVE  /\ GoodFrame(i)'
               /\ i # Len(stack') => stack'[i].at = "memo"
               /\ i = Len(stack') => stack'[i].c = x /\ stack'[i].at = "force"
    <3>1. CASE i = Len(stack) + 1
      BY <1>2, <1>3, <2>1, <2>2, <2>3, <3>1 DEF GoodFrame, Records
    <3>2. CASE i = Len(stack) + 2
      BY <1>3, <2>1, <2>2, <2>3, <3>2 DEF GoodFrame, Records
    <3> QED BY <2>3, <3>1, <3>2
  <2>5. x \notin again => runs[x] = 0
    BY <1>3, <1>5, NotYetRun
  <2>6. Len(stack') > Len(stack)
    BY <1>3, <2>3 DEF Records
  <2> QED BY <1>2, <1>3, <2>1, <2>3, <2>4, <2>5, <2>6, PushInv
<1> QED BY <1>4, <1>5

-------------------------------------------------------------------------------
(* Frames go: their value is stored, or an error drops them. *)

\* The innermost frame, and the stack without it.
LEMMA TopFacts ==
    ASSUME Records, stack # <<>>
    PROVE  /\ Len(stack) \in DOMAIN stack /\ Top = stack[Len(stack)] /\ Top \in Frame
           /\ Front(stack) \in Seq(Frame) /\ DOMAIN stack = 1 .. Len(stack)
           /\ Len(Front(stack)) = Len(stack) - 1
           /\ DOMAIN Front(stack) = 1 .. Len(stack) - 1
           /\ \A i \in DOMAIN Front(stack) : i \in DOMAIN stack /\ Front(stack)[i] = stack[i]
<1>1. stack \in Seq(Frame) /\ Len(stack) \in Nat /\ Len(stack) > 0
  BY DEF Records
<1>2. Len(stack) \in DOMAIN stack /\ Top = stack[Len(stack)] /\ Top \in Frame
  BY <1>1 DEF Top, Last
<1>3. PICK n \in Nat : n = Len(stack) - 1
  BY <1>1
<1>4. Front(stack) = SubSeq(stack, 1, n)
  BY <1>3 DEF Front
<1>5. /\ SubSeq(stack, 1, n) \in Seq(Frame) /\ Len(SubSeq(stack, 1, n)) = n
      /\ \A i \in 1 .. n : SubSeq(stack, 1, n)[i] = stack[i]
  BY <1>1, <1>3
<1> QED BY <1>1, <1>2, <1>3, <1>4, <1>5

\* The frames below the innermost one stay good when it goes, as long as what it
\* ran is then done.
LEMMA PopFrames ==
    ASSUME LazyInv, Grows, stack # <<>>, stack' = Front(stack),
           Top.at = "force" => thunk'[Top.c].done
    PROVE  Frames'
<1>1. Records
  BY DEF LazyInv
<1> SUFFICES ASSUME NEW i \in DOMAIN stack' PROVE GoodFrame(i)'
  BY DEF Frames
<1>2. /\ i \in DOMAIN stack /\ stack'[i] = stack[i] /\ i # Len(stack) /\ i \in Nat
      /\ Len(stack') = Len(stack) - 1 /\ Len(stack) \in Nat
  BY <1>1, TopFacts DEF Records
<1>3. CASE stack[i].at = "memo" /\ i = Len(stack')
  <2>1. stack[i + 1].at = "force" /\ stack[i + 1].c = stack[i].x /\ i + 1 = Len(stack)
    BY <1>2, <1>3 DEF LazyInv, Frames, GoodFrame
  <2>2. thunk'[stack[i].x].done
    BY <1>1, <2>1, TopFacts
  <2> QED BY <1>2, <1>3, <2>2, FrameStays
<1>4. CASE stack[i].at = "memo" /\ i # Len(stack')
  <2>1. stack'[i + 1] = stack[i + 1]
    BY <1>1, <1>2, <1>4, TopFacts
  <2> QED BY <1>2, <1>4, <2>1, FrameStays
<1>5. CASE stack[i].at # "memo"
  BY <1>2, <1>5, FrameStays
<1> QED BY <1>3, <1>4, <1>5

LEMMA MemoInv ==
    ASSUME LazyCellsAssumption, LazyInv, Memo
    PROVE  LazyInv'
<1>1. /\ stack # <<>> /\ Top.at = "memo" /\ stack' = Front(stack)
      /\ cell' = [cell EXCEPT ![Top.c].tail = Value(thunk[Top.x].val)]
      /\ UNCHANGED <<thunk, runs, again>>
  BY DEF Memo
<1>2. Records
  BY DEF LazyInv
<1>3. PICK c, x, v : c = Top.c /\ x = Top.x /\ v = thunk[Top.x].val
  OBVIOUS
<1>4. GoodFrame(Len(stack)) /\ Top = stack[Len(stack)]
  BY <1>1, <1>2, TopFacts DEF LazyInv, Frames
<1>5. /\ c \in DOMAIN cell /\ x \in DOMAIN thunk /\ cell[c].lazy = "no" /\ thunk[x].done
      /\ Rest[cell[x].list] = Rest[cell[c].list]
  BY <1>1, <1>3, <1>4 DEF GoodFrame
<1>6. v \in DOMAIN cell \cup {nil} /\ Meaning(v) = Rest[cell[c].list]
  BY <1>3, <1>5 DEF LazyInv, Heap, GoodThunk
<1>7. stack' \in Seq(Frame)
  BY <1>1, <1>2, TopFacts
<1>8. Grows /\ Records' /\ Heap'
  BY <1>1, <1>3, <1>5, <1>6, <1>7, WriteBack
<1>9. Frames'
  BY <1>1, <1>8, PopFrames
<1>10. Shared'
  <2> SUFFICES ASSUME NEW b \in DOMAIN cell \ again PROVE Undisturbed(b)'
    <3>1. DOMAIN cell' = DOMAIN cell
      BY <1>1
    <3> QED BY <1>1, <3>1 DEF Shared
  <2>1. \A i \in DOMAIN stack' : i \in DOMAIN stack /\ stack'[i] = stack[i]
    BY <1>1, <1>2, TopFacts
  <2> QED BY <1>1, <1>8, <2>1, UndisturbedStays
<1> QED BY <1>8, <1>9, <1>10 DEF LazyInv

\* A generator moves from its cell into a thunk.
LEMMA TailLazyInv ==
    ASSUME LazyCellsAssumption, LazyInv, NEW c \in DOMAIN cell, TailLazy(c)
    PROVE  LazyInv'
<1>1. /\ Code /\ cell[c].lazy # "no"
      /\ thunk' = Put(thunk, c, Suspension(c, cell[c].lazy))
      /\ cell' = [cell EXCEPT ![c].lazy = "no", ![c].tail = Suspended(c)]
      /\ again' = (IF c \in Running THEN again \cup {c} ELSE again)
      /\ UNCHANGED <<stack, runs>>
  BY DEF TailLazy
<1>2. Records /\ cell[c] \in Cell /\ c \in Cells
  BY DEF LazyInv, Records
<1>3. c \notin DOMAIN thunk
  BY <1>1 DEF LazyInv, Heap, GoodCell
<1> DEFINE s == Suspension(c, cell[c].lazy)
           t == Suspended(c)
           r == [cell[c] EXCEPT !.lazy = "no", !.tail = t]
<1>4. /\ s \in Thunk /\ ~s.done /\ s.code = c /\ s.form \in Forms
      /\ t \in [is : Kinds, of : Cells \cup {nil}] /\ t.is = "thunk" /\ t.of = c
  BY <1>1, <1>2 DEF Suspension, Suspended, Thunk, Cell, Kinds
<1>5. cell' = [cell EXCEPT ![c] = r]
  BY <1>1
<1> HIDE DEF t
<1>6. r \in Cell /\ r.list = cell[c].list /\ r.lazy = "no" /\ r.tail = t
  <2> DEFINE q == [cell[c] EXCEPT !.lazy = "no"]
  <2>1. q \in Cell /\ q.list = cell[c].list /\ q.lazy = "no"
    BY <1>2 DEF Cell
  <2>2. r = [q EXCEPT !.tail = t]
    OBVIOUS
  <2> HIDE DEF q, r
  <2> QED BY <1>4, <2>1, <2>2 DEF Cell
<1>7. /\ DOMAIN thunk' = DOMAIN thunk \cup {c} /\ thunk'[c] = s
      /\ \A x \in DOMAIN thunk : thunk'[x] = thunk[x] /\ x # c
  BY <1>1, <1>3 DEF Put
<1> HIDE DEF s, r
<1>8. /\ DOMAIN cell' = DOMAIN cell /\ cell'[c] = r
      /\ \A z \in DOMAIN cell : z # c => cell'[z] = cell[z]
  BY <1>2, <1>5 DEF Records
<1>9. Grows
  BY <1>6, <1>7, <1>8 DEF Grows
<1>10. Records'
  <2>1. cell' \in [DOMAIN cell' -> Cell]
    BY <1>2, <1>5, <1>6 DEF Records
  <2>2. thunk' \in [DOMAIN thunk' -> Thunk]
    BY <1>1, <1>2, <1>4, <1>7 DEF Records, Put
  <2>3. again' \subseteq DOMAIN cell'
    BY <1>1, <1>2, <1>8 DEF Records
  <2> QED BY <1>1, <1>2, <1>7, <1>8, <2>1, <2>2, <2>3 DEF Records
<1>11. Heap'
  <2>1. GoodCell(c)'
    <3>1. TailMeaning(t)' = Rest[cell'[c].list]
      BY <1>4, <1>6, <1>8 DEF TailMeaning
    <3>2. Refers(t)'
      BY <1>4, <1>7 DEF Refers
    <3>3. PICK u : u = t
      OBVIOUS
    <3> QED BY <1>6, <1>8, <3>1, <3>2 DEF GoodCell, Refers, TailMeaning, t, Suspended
  <2>2. \A z \in DOMAIN cell : z # c => GoodCell(z)'
    <3> SUFFICES ASSUME NEW z \in DOMAIN cell, z # c PROVE GoodCell(z)'
      OBVIOUS
    <3>1. z \in DOMAIN thunk' => z \in DOMAIN thunk
      BY <1>7
    <3> QED BY <1>8, <1>9, <3>1, CellStays
  <2>3. GoodThunk(c)'
    BY <1>4, <1>7 DEF GoodThunk
  <2>4. \A x \in DOMAIN thunk : GoodThunk(x)'
    BY <1>7, <1>9, ThunkStays
  <2> QED BY <1>7, <1>8, <2>1, <2>2, <2>3, <2>4 DEF Heap
<1>12. Frames'
  <2> SUFFICES ASSUME NEW i \in DOMAIN stack PROVE GoodFrame(i)'
    BY <1>1 DEF Frames
  <2>1. stack[i].at = "memo" => i # Len(stack)
    BY <1>1, <1>2, CodeFacts
  <2> QED BY <1>1, <1>9, <2>1, FrameStays
<1>13. Shared'
  <2> SUFFICES ASSUME NEW b \in DOMAIN cell \ again' PROVE Undisturbed(b)'
    BY <1>8 DEF Shared
  <2>1. b \notin again /\ runs'[b] = runs[b]
    BY <1>1
  <2>2. CASE b # c
    <3>1. b \in DOMAIN thunk' => b \in DOMAIN thunk
      BY <1>7, <2>2
    <3> QED BY <1>1, <1>9, <2>1, <3>1, UndisturbedStays
  <2>3. CASE b = c
    <3>1. \A i \in DOMAIN stack : ~Runs(i, b)
      BY <1>1, <1>2, <2>3, RunningFacts
    <3>2. runs[b] = 0
      BY <1>1, <2>1, <2>3, NotYetRun
    <3> QED BY <1>1, <1>9, <2>1, <3>1, <3>2, UndisturbedStays
  <2> QED BY <2>2, <2>3
<1> QED BY <1>10, <1>11, <1>12, <1>13 DEF LazyInv

\* An error drops the frames above a place that is not waiting for one of them.
LEMMA RaisesInv ==
    ASSUME LazyCellsAssumption, LazyInv, GeneratorRaises
    PROVE  LazyInv'
<1>1. Records
  BY DEF LazyInv
<1>2. PICK n \in 1 .. Len(stack) :
        /\ n > 1 => stack[n - 1].at # "memo"
        /\ stack' = SubSeq(stack, 1, n - 1)
  BY DEF GeneratorRaises
<1>3. UNCHANGED <<cell, thunk, runs, again>>
  BY DEF GeneratorRaises
<1>4. /\ stack' \in Seq(Frame) /\ Len(stack') = n - 1 /\ DOMAIN stack' = 1 .. n - 1
      /\ Len(stack) \in Nat /\ DOMAIN stack = 1 .. Len(stack)
      /\ \A i \in DOMAIN stack' : i \in DOMAIN stack /\ stack'[i] = stack[i]
  BY <1>1, <1>2 DEF Records
<1>5. Grows
  BY <1>3 DEF Grows
<1>6. Records'
  BY <1>1, <1>3, <1>4 DEF Records
<1>7. Heap'
  BY <1>3, <1>5, CellStays, ThunkStays DEF Heap
<1>8. Frames'
  <2> SUFFICES ASSUME NEW i \in DOMAIN stack' PROVE GoodFrame(i)'
    BY DEF Frames
  <2>1. stack[i].at = "memo" => i # n - 1
    BY <1>2, <1>4
  <2>2. i # n - 1 => i # Len(stack) /\ stack'[i + 1] = stack[i + 1]
    BY <1>2, <1>4
  <2> QED BY <1>4, <1>5, <2>1, <2>2, FrameStays
<1>9. Shared'
  <2> SUFFICES ASSUME NEW b \in DOMAIN cell \ again PROVE Undisturbed(b)'
    BY <1>3 DEF Shared
  <2> QED BY <1>3, <1>4, <1>5, UndisturbedStays
<1> QED BY <1>6, <1>7, <1>8, <1>9 DEF LazyInv

\* The generator on top returns v, a value at hand or the new cell of cells.
LEMMA DeliverInv ==
    ASSUME LazyCellsAssumption, LazyInv, Code, stack # <<>>,
           NEW cells, cells \in [DOMAIN cells -> Cell],
           DOMAIN cell \subseteq DOMAIN cells, DOMAIN cells \subseteq Cells,
           \A z \in DOMAIN cell : cells[z] = cell[z],
           \A z \in DOMAIN cells \ DOMAIN cell :
                IF cells[z].lazy = "no"
                THEN Refers(cells[z].tail) /\ TailMeaning(cells[z].tail) = Rest[cells[z].list]
                ELSE cells[z].tail = Generator(cells[z].lazy, z),
           NEW v \in DOMAIN cells \cup {nil},
           (IF v = nil THEN nil ELSE cells[v].list) = Rest[cell[Top.c].list],
           Deliver(cells, v)
    PROVE  LazyInv'
<1>1. Records /\ Top.at # "memo"
  BY DEF LazyInv, Code
<1>2. PICK c : c = Top.c
  OBVIOUS
<1>3. /\ Top \in Frame /\ Top = stack[Len(stack)] /\ Len(stack) \in DOMAIN stack
      /\ GoodFrame(Len(stack))
  BY <1>1, TopFacts DEF LazyInv, Frames
<1>4. /\ c \in DOMAIN cell /\ c \in DOMAIN cells /\ c \in Cells
      /\ Top.at = "tail" \/ (Top.at = "force" /\ c \in DOMAIN thunk)
      /\ Runs(Len(stack), c) /\ stack[Len(stack)].at = Top.at
  BY <1>1, <1>2, <1>3 DEF GoodFrame, Frame, Records, Runs
<1>5. /\ stack' = Front(stack) /\ again' = again
      /\ runs' = [x \in DOMAIN cells |->
                    IF x \notin DOMAIN cell THEN 0
                    ELSE IF x = c THEN (IF runs[c] = 0 THEN 1 ELSE 2) ELSE runs[x]]
  BY <1>2 DEF Deliver
<1> DEFINE t == Value(v)
           r == [cells[c] EXCEPT !.lazy = "no", !.tail = t]
<1>6. t \in [is : Kinds, of : Cells \cup {nil}] /\ t.is = "value" /\ t.of = v
  BY <1>1 DEF Value, Kinds, Records
<1> HIDE DEF t
<1>7. r \in Cell /\ r.list = cell[c].list /\ r.lazy = "no" /\ r.tail = t
  <2> DEFINE q == [cells[c] EXCEPT !.lazy = "no"]
  <2>1. q \in Cell /\ q.list = cell[c].list /\ q.lazy = "no"
    BY <1>4 DEF Cell
  <2>2. r = [q EXCEPT !.tail = t]
    OBVIOUS
  <2> HIDE DEF q, r
  <2> QED BY <1>6, <2>1, <2>2 DEF Cell
<1>8. Top.at = "tail" => cell' = [cells EXCEPT ![c] = r] /\ thunk' = thunk
  BY <1>2 DEF Deliver, t
<1>9. Top.at # "tail" => cell' = cells /\ thunk' = [thunk EXCEPT ![c] = Evaluated(v)]
  BY <1>2 DEF Deliver
<1> DEFINE e == Evaluated(v)
<1>10. e \in Thunk /\ e.done /\ e.val = v
  BY <1>1 DEF Evaluated, Thunk, Records
<1> HIDE DEF r, e
<1>11. /\ DOMAIN cell' = DOMAIN cells /\ cell' \in [DOMAIN cells -> Cell]
       /\ \A z \in DOMAIN cells : z # c => cell'[z] = cells[z]
       /\ cell'[c] = IF Top.at = "tail" THEN r ELSE cells[c]
  BY <1>4, <1>7, <1>8, <1>9
<1>12. /\ DOMAIN thunk' = DOMAIN thunk /\ thunk' \in [DOMAIN thunk -> Thunk]
       /\ \A x \in DOMAIN thunk : x # c => thunk'[x] = thunk[x]
       /\ Top.at = "tail" => thunk' = thunk
       /\ Top.at = "force" => thunk'[c] = e /\ thunk'[c].done
  BY <1>1, <1>4, <1>8, <1>9, <1>10 DEF Records, e
<1>13. /\ \A z \in DOMAIN cell : cell'[z].list = cell[z].list
       /\ \A z \in DOMAIN cell : cell[z].lazy = "no" => cell'[z].lazy = "no"
  BY <1>7, <1>11
<1>14. Grows
  BY <1>4, <1>10, <1>11, <1>12, <1>13 DEF Grows
<1>15. Records'
  <2>1. runs' \in [DOMAIN cell' -> {0, 1, 2}]
    BY <1>1, <1>5, <1>11 DEF Records
  <2>2. stack' \in Seq(Frame)
    BY <1>1, <1>5, TopFacts
  <2> QED BY <1>1, <1>5, <1>11, <1>12, <2>1, <2>2 DEF Records
<1>16. v \in DOMAIN cell' \cup {nil} /\ Meaning(v)' = Rest[cell[c].list]
  <2>1. \A z \in DOMAIN cells : cell'[z].list = cells[z].list
    BY <1>4, <1>7, <1>11
  <2> QED BY <1>2, <1>11, <2>1 DEF Meaning
<1>17. Heap'
  <2>1. ASSUME NEW z \in DOMAIN cells PROVE GoodCell(z)'
    <3>1. CASE z = c /\ Top.at = "tail"
      BY <1>6, <1>7, <1>11, <1>16, <3>1 DEF GoodCell, Refers, TailMeaning, Meaning
    <3>2. CASE z \in DOMAIN cell /\ ~(z = c /\ Top.at = "tail")
      <4>1. cell'[z] = cell[z]
        BY <1>11, <3>2
      <4> QED BY <1>12, <1>14, <3>2, <4>1, CellStays
    <3>3. CASE z \notin DOMAIN cell
      <4>1. cell'[z] = cells[z] /\ z \notin DOMAIN thunk'
        BY <1>1, <1>4, <1>11, <1>12, <3>3 DEF Records
      <4>2. CASE cells[z].lazy = "no"
        <5>1. PICK u : u = cells[z].tail
          OBVIOUS
        <5>2. Refers(u) /\ TailMeaning(u) = Rest[cells[z].list]
          BY <3>3, <4>2, <5>1
        <5>3. Refers(u)' /\ TailMeaning(u)' = TailMeaning(u)
          BY <1>1, <1>14, <5>2, TailsStay
        <5> QED BY <4>1, <4>2, <5>1, <5>2, <5>3 DEF GoodCell, Refers, TailMeaning, Meaning
      <4>3. CASE cells[z].lazy # "no"
        BY <3>3, <4>1, <4>3 DEF GoodCell, Generator
      <4> QED BY <4>2, <4>3
    <3> QED BY <3>1, <3>2, <3>3
  <2>2. ASSUME NEW x \in DOMAIN thunk PROVE GoodThunk(x)'
    <3>1. CASE x = c /\ Top.at = "force"
      BY <1>4, <1>10, <1>12, <1>13, <1>16, <3>1 DEF GoodThunk, Meaning
    <3>2. CASE ~(x = c /\ Top.at = "force")
      <4>1. thunk'[x] = thunk[x]
        BY <1>4, <1>12, <3>2
      <4> QED BY <1>14, <4>1, ThunkStays
    <3> QED BY <3>1, <3>2
  <2> QED BY <1>11, <1>12, <2>1, <2>2 DEF Heap
<1>18. Frames'
  BY <1>2, <1>5, <1>12, <1>14, PopFrames
<1>19. Shared'
  <2> SUFFICES ASSUME NEW b \in DOMAIN cells \ again PROVE Undisturbed(b)'
    BY <1>5, <1>11 DEF Shared
  <2>1. /\ \A i \in DOMAIN stack' : i \in DOMAIN stack /\ stack'[i] = stack[i] /\ i # Len(stack)
        /\ Len(stack) \in DOMAIN stack
    BY <1>1, <1>5, TopFacts DEF Records
  <2>2. CASE b \notin DOMAIN cell
    <3>1. runs'[b] = 0
      BY <1>5, <2>2
    <3>2. \A i \in DOMAIN stack' : ~Runs(i, b)'
      BY <2>1, <2>2 DEF Runs, LazyInv, Frames, GoodFrame
    <3> QED BY <3>1, <3>2 DEF Undisturbed
  <2>3. CASE b \in DOMAIN cell /\ b # c
    <3>1. runs'[b] = runs[b]
      BY <1>5, <2>3
    <3> QED BY <1>12, <1>14, <2>1, <2>3, <3>1, UndisturbedStays
  <2>4. CASE b = c
    <3>1. Undisturbed(c)
      BY <1>4, <2>4 DEF LazyInv, Shared
    <3>2. runs[c] = 0 /\ (Top.at = "tail" => c \notin DOMAIN thunk)
      BY <1>4, <2>1, <3>1 DEF Undisturbed
    <3>3. runs'[c] = 1
      BY <1>4, <1>5, <3>2
    <3>4. \A i \in DOMAIN stack' : ~Runs(i, c)'
      BY <1>4, <2>1, <3>1 DEF Undisturbed, Runs
    <3>5. cell'[c].lazy = "no" /\ (c \in DOMAIN thunk' => thunk'[c].done)
      <4>1. CASE Top.at = "tail"
        BY <1>7, <1>11, <1>12, <3>2, <4>1
      <4>2. CASE Top.at # "tail"
        <5>1. cell[c].lazy = "no"
          BY <1>4, <4>2 DEF LazyInv, Heap, GoodCell
        <5> QED BY <1>4, <1>12, <1>13, <4>2, <5>1
      <4> QED BY <4>1, <4>2
    <3> QED BY <2>4, <3>3, <3>4, <3>5 DEF Undisturbed
  <2> QED BY <2>2, <2>3, <2>4
<1> QED BY <1>15, <1>17, <1>18, <1>19 DEF LazyInv

LEMMA ReturnKnownInv ==
    ASSUME LazyCellsAssumption, LazyInv, ReturnKnown
    PROVE  LazyInv'
<1>1. PICK v \in DOMAIN cell \cup {nil} :
        Meaning(v) = Rest[cell[Top.c].list] /\ Deliver(cell, v)
  BY DEF ReturnKnown
<1>2. Code /\ stack # <<>>
  BY DEF ReturnKnown
<1>3. Records
  BY DEF LazyInv
<1>4. (IF v = nil THEN nil ELSE cell[v].list) = Rest[cell[Top.c].list]
  BY <1>1 DEF Meaning
<1>5. PICK cells : cells = cell
  OBVIOUS
<1>6. /\ cells \in [DOMAIN cells -> Cell] /\ DOMAIN cell \subseteq DOMAIN cells
      /\ DOMAIN cells \subseteq Cells /\ \A z \in DOMAIN cell : cells[z] = cell[z]
      /\ DOMAIN cells \ DOMAIN cell = {} /\ v \in DOMAIN cells \cup {nil}
      /\ (IF v = nil THEN nil ELSE cells[v].list) = Rest[cell[Top.c].list]
  BY <1>3, <1>4, <1>5 DEF Records
<1>7. Deliver(cells, v)
  BY <1>1, <1>5
<1> QED BY <1>2, <1>6, <1>7, DeliverInv

LEMMA ReturnFreshInv ==
    ASSUME LazyCellsAssumption, LazyInv, ReturnFresh
    PROVE  LazyInv'
<1>1. Code /\ stack # <<>> /\ Rest[cell[Top.c].list] # nil
  BY DEF ReturnFresh
<1>2. PICK list : list = Rest[cell[Top.c].list]
  OBVIOUS
<1>3. PICK d \in Cells \ DOMAIN cell : \E n \in Fresh(d, list) : Deliver(Put(cell, d, n), d)
  BY <1>2 DEF ReturnFresh
<1>4. PICK new \in Fresh(d, list) : Deliver(Put(cell, d, new), d)
  BY <1>3
<1>5. Records
  BY DEF LazyInv
<1>6. list \in Lists
  <2>1. Top.c \in DOMAIN cell
    BY <1>1, <1>5, TopFacts DEF LazyInv, Frames, GoodFrame
  <2>2. cell[Top.c].list \in Lists
    BY <1>5, <2>1 DEF Records, Cell
  <2> QED BY <1>1, <1>2, <2>2 DEF LazyCellsAssumption
<1>7. /\ new \in Cell /\ new.list = list
      /\ IF new.lazy = "no" THEN Refers(new.tail) /\ TailMeaning(new.tail) = Rest[list]
                            ELSE new.tail = Generator(new.lazy, d)
  <2>1. CASE \E form \in Forms : new = NewCell(list, form, Generator(form, d))
    BY <1>6, <2>1 DEF NewCell, Generator, Cell, Kinds, Forms
  <2>2. CASE \E ref \in {Value(v) : v \in DOMAIN cell \cup {nil}} \cup {Suspended(x) : x \in DOMAIN thunk} :
                new = NewCell(list, "no", ref) /\ TailMeaning(ref) = Rest[list]
    <3>1. PICK ref \in {Value(v) : v \in DOMAIN cell \cup {nil}} \cup {Suspended(x) : x \in DOMAIN thunk} :
                new = NewCell(list, "no", ref) /\ TailMeaning(ref) = Rest[list]
      BY <2>2
    <3>2. Refers(ref) /\ ref \in [is : Kinds, of : Cells \cup {nil}]
      BY <1>5, <3>1 DEF Refers, Value, Suspended, Kinds, Records
    <3>3. new \in Cell /\ new.list = list /\ new.lazy = "no" /\ new.tail = ref
      BY <1>6, <3>1, <3>2 DEF NewCell, Cell
    <3> QED BY <3>1, <3>2, <3>3
  <2> QED BY <1>4, <2>1, <2>2 DEF Fresh
<1>8. PICK cells : cells = Put(cell, d, new)
  OBVIOUS
<1>9. /\ DOMAIN cells = DOMAIN cell \cup {d} /\ cells[d] = new
      /\ \A z \in DOMAIN cell : cells[z] = cell[z]
      /\ cells \in [DOMAIN cells -> Cell]
  BY <1>5, <1>7, <1>8 DEF Put, Records
<1>10. d # nil /\ DOMAIN cells \subseteq Cells
  BY <1>5, <1>9 DEF LazyCellsAssumption, Records
<1>11. Deliver(cells, d)
  BY <1>4, <1>8
<1>12. \A z \in DOMAIN cells \ DOMAIN cell : z = d
  BY <1>9
<1>13. (IF d = nil THEN nil ELSE cells[d].list) = Rest[cell[Top.c].list]
  BY <1>2, <1>7, <1>9, <1>10
<1>14. \A z \in DOMAIN cells \ DOMAIN cell :
            IF cells[z].lazy = "no"
            THEN Refers(cells[z].tail) /\ TailMeaning(cells[z].tail) = Rest[cells[z].list]
            ELSE cells[z].tail = Generator(cells[z].lazy, z)
  BY <1>7, <1>9, <1>12
<1> QED BY <1>1, <1>9, <1>10, <1>11, <1>13, <1>14, DeliverInv

-------------------------------------------------------------------------------
(* The specification. *)

LEMMA LazyInitInv ==
    ASSUME LazyCellsAssumption, LazyInit
    PROVE  LazyInv
<1>1. PICK c \in Cells, list \in Lists, form \in Forms :
        /\ cell = [x \in {c} |-> NewCell(list, form, Generator(form, c))]
        /\ runs = [x \in {c} |-> 0]
  BY DEF LazyInit
<1>2. thunk = [x \in {} |-> nil] /\ stack = <<>> /\ again = {}
  BY DEF LazyInit
<1>3. /\ DOMAIN cell = {c} /\ cell[c] \in Cell /\ cell[c].lazy = form /\ form # "no"
      /\ cell[c].tail = Generator(form, c)
  BY <1>1 DEF NewCell, Generator, Cell, Kinds, Forms
<1>4. Records
  <2>1. cell \in [{c} -> Cell]
    BY <1>1, <1>3
  <2>2. runs \in [{c} -> {0, 1, 2}]
    BY <1>1
  <2> QED BY <1>2, <1>3, <2>1, <2>2 DEF Records
<1>5. Heap
  BY <1>2, <1>3 DEF Heap, GoodCell
<1>6. Frames /\ Shared
  BY <1>1, <1>2, <1>3 DEF Frames, Shared, Undisturbed
<1> QED BY <1>4, <1>5, <1>6 DEF LazyInv

LEMMA LazyNextInv ==
    ASSUME LazyCellsAssumption, LazyInv, [LazyNext]_lazyVars
    PROVE  LazyInv'
<1>1. CASE Reads
  BY <1>1, TailRunsInv, TailForcesInv, TailLazyInv, ForceInv DEF Reads
<1>2. CASE UNCHANGED lazyVars
  BY <1>2 DEF lazyVars, LazyInv, Records, Heap, Frames, Shared, GoodCell, GoodThunk, GoodFrame,
     Undisturbed, Runs, Refers, TailMeaning, Meaning
<1> QED BY <1>1, <1>2, MemoInv, ReturnKnownInv, ReturnFreshInv, RaisesInv DEF LazyNext

\* Every state of every run satisfies the invariant.
THEOREM LazyInvHolds == LazySpec => []LazyInv
<1>1. LazyInit => LazyInv
  BY LazyCellsAssumption, LazyInitInv
<1>2. LazyInv /\ [LazyNext]_lazyVars => LazyInv'
  BY LazyCellsAssumption, LazyNextInv
<1> QED BY <1>1, <1>2, PTL DEF LazySpec

\* Tails and thunk values refer to what has been allocated, and only thunks are
\* forced (__force, __mll_tail).
THEOREM LazyTypeCorrect == LazySpec => []LazyTypeOK
<1>1. LazyInv => LazyTypeOK
  <2> SUFFICES ASSUME LazyInv PROVE LazyTypeOK
    OBVIOUS
  <2>1. Records
    BY DEF LazyInv
  <2>2. ASSUME NEW c \in DOMAIN cell
        PROVE  /\ cell[c].list \in Lists /\ cell[c].lazy \in Forms \cup {"no"}
               /\ cell[c].tail.is = "value" => cell[c].tail.of \in DOMAIN cell \cup {nil}
               /\ cell[c].tail.is = "thunk" => cell[c].tail.of \in DOMAIN thunk
    <3>1. cell[c] \in Cell /\ GoodCell(c)
      BY <2>1 DEF LazyInv, Heap, Records
    <3>2. cell[c].list \in Lists /\ cell[c].lazy \in Forms \cup {"no"}
      BY <3>1 DEF Cell
    <3>3. CASE cell[c].lazy = "no"
      BY <3>1, <3>2, <3>3 DEF GoodCell, Refers
    <3>4. CASE cell[c].lazy # "no"
      <4>1. cell[c].tail.is \in Forms
        BY <3>1, <3>2, <3>4 DEF GoodCell, Generator
      <4> QED BY <3>2, <4>1 DEF Forms
    <3> QED BY <3>3, <3>4
  <2>3. \A i \in 1 .. Len(stack) : stack[i].at = "force" => stack[i].c \in DOMAIN thunk
    BY <2>1 DEF LazyInv, Records, Frames, GoodFrame
  <2> QED BY <2>1, <2>2, <2>3 DEF LazyTypeOK, Records
<1> QED BY LazyInvHolds, <1>1, PTL

\* Memoization keeps the meaning of every list, whichever readers race for it, in
\* whatever order they finish, and after every error that is caught (__force,
\* __mll_tail, __mll_tail_lazy).
THEOREM ListsKeepTheirMeaning == LazySpec => []MeaningKept
<1>1. LazyInv => MeaningKept
  <2> SUFFICES ASSUME LazyInv PROVE MeaningKept
    OBVIOUS
  <2>1. ASSUME NEW c \in DOMAIN cell
        PROVE  IF cell[c].lazy = "no"
               THEN cell[c].tail.is \notin Forms /\ TailMeaning(cell[c].tail) = Rest[cell[c].list]
               ELSE cell[c].tail = Generator(cell[c].lazy, c)
    BY DEF LazyInv, Heap, GoodCell, Refers, Forms
  <2>2. ASSUME NEW x \in DOMAIN thunk
        PROVE  IF thunk[x].done THEN Meaning(thunk[x].val) = Rest[cell[x].list]
                                ELSE thunk[x].code = x /\ thunk[x].form \in Forms
    BY DEF LazyInv, Heap, GoodThunk
  <2> QED BY <2>1, <2>2 DEF MeaningKept
<1> QED BY LazyInvHolds, <1>1, PTL

\* A generator that is never read while it runs returns at most once, whatever
\* other generators do in between (__mll_tail, __mll_tail_lazy).
THEOREM WorkIsShared == LazySpec => []SharedUnlessReentered
<1>1. LazyInv => SharedUnlessReentered
  <2> SUFFICES ASSUME LazyInv, NEW c \in DOMAIN cell, c \notin again PROVE ~(runs[c] > 1)
    BY DEF SharedUnlessReentered
  <2>1. runs[c] \in {0, 1, 2} /\ runs[c] <= 1
    BY DEF LazyInv, Records, Shared, Undisturbed
  <2> QED BY <2>1
<1> QED BY LazyInvHolds, <1>1, PTL
===============================================================================
