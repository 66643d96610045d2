---------------------------- MODULE FixityProofs ----------------------------
(***************************************************************************)
(* Proofs about Fixity, for chains of every length over every set of       *)
(* precedences.                                                            *)
(*                                                                         *)
(* Phrases(c) is the Haskell rule written as a table: what may be grouped  *)
(* out of every span of operands.  It is shown to be the only function     *)
(* that satisfies its equations, so that facts about a span follow from    *)
(* those about shorter ones: the root of a phrase binds loosest of all     *)
(* operators and minuses in its span, hence a span has one phrase at most; *)
(* two equally tight neighbours with nothing looser between them that do   *)
(* not associate alike, or a minus right under a tight operator, leave a   *)
(* span without a phrase.                                                  *)
(*                                                                         *)
(* The invariant, FixInv, says what every activation of prefix and         *)
(* continue_infix has read: a phrase of the operands from its first one to *)
(* the last one read, which may become the right operand of the operator   *)
(* it was entered for; and the nodes built are those of these phrases.     *)
(***************************************************************************)
EXTENDS Fixity, FiniteSetTheorems, WellFoundedInduction, TLAPS

-------------------------------------------------------------------------------
(* Induction and recursion over numbers *)

\* Induction over the natural numbers, for a set.
LEMMA AllNumbers ==
    ASSUME NEW S, 0 \in S, \A i \in Nat : i \in S => i + 1 \in S
    PROVE  \A i \in Nat : i \in S
<1> DEFINE Missing == {i \in Nat : i \notin S}
<1> SUFFICES ASSUME Missing # {}
             PROVE  FALSE
  OBVIOUS
<1>1. Missing \subseteq Nat
  OBVIOUS
<1> HIDE DEF Missing
<1>2. PICK k \in Missing : \A i \in Missing : ~(<<i, k>> \in OpToRel(<, Nat))
  BY <1>1, NatLessThanWellFounded, WFMin, Zenon
<1>3. OpToRel(<, Nat) = {ss \in Nat \X Nat : ss[1] < ss[2]}
  BY Zenon DEF OpToRel
<1>4. \A i \in Missing : ~(<<i, k>> \in {ss \in Nat \X Nat : ss[1] < ss[2]})
  BY <1>2, <1>3, Zenon
<1>5. \A i \in Missing : ~(i < k)
  BY <1>1, <1>4
<1>6. k \in Nat /\ k \notin S /\ \A i \in Nat : i \notin S => ~(i < k)
  BY <1>5 DEF Missing
<1>7. k # 0 /\ k - 1 \in Nat
  BY <1>6
<1>8. k - 1 \in S
  BY <1>6, <1>7
<1>9. (k - 1) + 1 \in S
  BY <1>7, <1>8
<1> QED
  BY <1>6, <1>9

\* Induction from 0 up to a bound.
LEMMA UpTo ==
    ASSUME NEW bound \in Nat, NEW S, 0 \in S, \A i \in 1..bound : i - 1 \in S => i \in S
    PROVE  \A i \in 0..bound : i \in S
<1> DEFINE T == {i \in Nat : i <= bound => i \in S}
<1>1. 0 \in T
  OBVIOUS
<1>2. ASSUME NEW i \in Nat, i \in T
      PROVE  i + 1 \in T
  <2>1. CASE i + 1 <= bound
    <3>1. i + 1 \in 1..bound /\ (i + 1) - 1 = i /\ i \in S
      BY <1>2, <2>1
    <3> QED
      BY <3>1
  <2>2. CASE ~(i + 1 <= bound)
    BY <2>2
  <2> QED
    BY <2>1, <2>2
<1> HIDE DEF T
<1>3. \A i \in Nat : i \in T
  BY <1>1, <1>2, AllNumbers
<1> QED
  BY <1>3 DEF T

\* Induction from everything below.
LEMMA FromBelow ==
    ASSUME NEW bound \in Nat, NEW S, \A k \in 0..bound : (\A i \in 0..(k - 1) : i \in S) => k \in S
    PROVE  \A k \in 0..bound : k \in S
<1> DEFINE T == {k \in 0..bound : \A i \in 0..k : i \in S}
<1>1. 0 \in T
  <2>1. 0 \in S
    OBVIOUS
  <2> QED
    BY <2>1
<1>2. ASSUME NEW k \in 1..bound, k - 1 \in T
      PROVE  k \in T
  <2>1. \A i \in 0..(k - 1) : i \in S
    BY <1>2
  <2>2. k \in S
    BY <2>1
  <2> QED
    BY <2>1, <2>2
<1> HIDE DEF T
<1>3. \A k \in 0..bound : k \in T
  BY <1>1, <1>2, UpTo
<1> QED
  BY <1>3 DEF T

GoesUp(F, bound, T, start, step) ==
    F \in [0..bound -> T] /\ F[0] = start /\ \A i \in 1..bound : F[i] = step[F[i - 1]]

\* A function defined by what it is at 0 and how it goes on, up to a bound.
LEMMA DefinedUp ==
    ASSUME NEW T, NEW bound \in Nat, NEW start \in T, NEW step \in [T -> T]
    PROVE  \E F : GoesUp(F, bound, T, start, step)
<1> DEFINE Run(g, k) == g \in [0..k -> T] /\ g[0] = start /\ \A i \in 1..k : g[i] = step[g[i - 1]]
           Reached == {k \in 0..bound : \E g : Run(g, k)}
<1>1. 0 \in Reached
  <2>1. PICK g : g = [i \in 0..0 |-> start]
    OBVIOUS
  <2>2. Run(g, 0)
    BY <2>1
  <2> QED
    BY <2>2
<1>2. ASSUME NEW k \in 1..bound, k - 1 \in Reached
      PROVE  k \in Reached
  <2>1. PICK g : Run(g, k - 1)
    BY <1>2
  <2>2. PICK h : h = [i \in 0..k |-> IF i = k THEN step[g[k - 1]] ELSE g[i]]
    OBVIOUS
  <2>3. g[k - 1] \in T /\ step[g[k - 1]] \in T
    BY <2>1
  <2>4. h \in [0..k -> T] /\ h[0] = start
    BY <2>1, <2>2, <2>3
  <2>5. ASSUME NEW i \in 1..k
        PROVE  h[i] = step[h[i - 1]]
    <3>1. CASE i = k
      BY <2>2, <3>1
    <3>2. CASE i # k
      <4>1. i \in 1..(k - 1) /\ i - 1 \in 0..(k - 1)
        BY <3>2
      <4>2. h[i] = g[i] /\ h[i - 1] = g[i - 1]
        BY <2>2, <4>1
      <4> QED
        BY <2>1, <4>1, <4>2
    <3> QED
      BY <3>1, <3>2
  <2>6. Run(h, k)
    BY <2>4, <2>5
  <2> HIDE DEF Run
  <2> QED
    BY <2>6
<1> HIDE DEF Run, Reached
<1>3. bound \in Reached
  BY <1>1, <1>2, UpTo
<1>4. PICK g : Run(g, bound)
  BY <1>3 DEF Reached
<1> QED
  BY <1>4 DEF Run, GoesUp

-------------------------------------------------------------------------------
(* Chains, phrases and the positions of their operators *)

AnyFixity == [assoc : {"left", "right", "none"}, prec : 0..9]
ChainOK(c) ==
    /\ c.ops \in Seq(AnyFixity) /\ c.neg \in Seq(BOOLEAN)
    /\ Len(c.neg) = Len(c.ops) + 1

Roots == AnyFixity \cup {Operand}
Nodes == [kind : {"op", "minus"}, at : Nat, from : Nat, to : Nat]
AnyPhrase == [root : Roots, nodes : SUBSET Nodes]

Signings(c) == Spans(c) \X BOOLEAN
Tables(c) == [Signings(c) -> SUBSET AnyPhrase]
Body(c, p, g) ==
    LET a == p[1][1]
        b == p[1][2]
    IN IF p[2] /\ c.neg[a] THEN Infix(c, a, b, TRUE, g) \cup Negation(a, b, g)
       ELSE IF a = b THEN {[root |-> Operand, nodes |-> {}]}
       ELSE Infix(c, a, b, p[2], g)

\* What a chain is made of.
LEMMA ChainIs ==
    ASSUME NEW c, ChainOK(c)
    PROVE  /\ Len(c.ops) \in Nat /\ Len(c.neg) \in Nat /\ Len(c.neg) = Len(c.ops) + 1
           /\ \A i \in 1..Len(c.ops) : c.ops[i] \in AnyFixity
           /\ \A i \in 1..Len(c.neg) : c.neg[i] \in BOOLEAN
           /\ DOMAIN c.ops = 1..Len(c.ops) /\ DOMAIN c.neg = 1..Len(c.neg)
BY DEF ChainOK

\* A span and a sign are what a table of phrases is read at.
LEMMA SpanIs ==
    ASSUME NEW c, ChainOK(c), NEW p \in Signings(c)
    PROVE  \E a \in 1..Len(c.neg), b \in 1..Len(c.neg), s \in BOOLEAN :
              a <= b /\ p = <<<<a, b>>, s>> /\ p[1] = <<a, b>> /\ p[1][1] = a /\ p[1][2] = b /\ p[2] = s
<1>1. PICK t, s : t \in Spans(c) /\ s \in BOOLEAN /\ p = <<t, s>>
  BY DEF Signings
<1>2. PICK a \in 1..Len(c.neg), b \in 1..Len(c.neg) : t = <<a, b>> /\ a <= b
  BY <1>1 DEF Spans
<1> QED
  BY <1>1, <1>2

\* ... and every span and sign is one.
LEMMA SpanOf ==
    ASSUME NEW c, ChainOK(c), NEW a \in 1..Len(c.neg), NEW b \in 1..Len(c.neg), a <= b,
           NEW s \in BOOLEAN
    PROVE  <<<<a, b>>, s>> \in Signings(c)
<1>1. <<a, b>> \in Spans(c)
  BY DEF Spans
<1> QED
  BY <1>1 DEF Signings

\* A phrase at a minus or an operator is a phrase.
LEMMA BodyTyped ==
    ASSUME NEW c, ChainOK(c), NEW p \in Signings(c), NEW g \in Tables(c)
    PROVE  Body(c, p, g) \in SUBSET AnyPhrase
<1>1. PICK a \in 1..Len(c.neg), b \in 1..Len(c.neg), s \in BOOLEAN :
         a <= b /\ p = <<<<a, b>>, s>> /\ p[1][1] = a /\ p[1][2] = b /\ p[2] = s
  BY SpanIs
<1>2. Len(c.neg) = Len(c.ops) + 1 /\ Len(c.ops) \in Nat /\ \A i \in 1..Len(c.ops) : c.ops[i] \in AnyFixity
  BY ChainIs
<1>3. ASSUME NEW t \in BOOLEAN
      PROVE  Infix(c, a, b, t, g) \in SUBSET AnyPhrase
  <2> SUFFICES ASSUME NEW h \in Infix(c, a, b, t, g)
               PROVE  h \in AnyPhrase
    OBVIOUS
  <2>1. PICK i \in a..(b - 1) : h \in Joined(c, a, i, b, g[<<<<a, i>>, t>>], g[<<<<i + 1, b>>, TRUE>>])
    BY DEF Infix
  <2>2. PICK l \in g[<<<<a, i>>, t>>], r \in g[<<<<i + 1, b>>, TRUE>>] :
           h = [root |-> c.ops[i], nodes |-> l.nodes \cup r.nodes \cup {OpNode(i, a, b)}]
    <3>1. PICK ls, rs : ls = g[<<<<a, i>>, t>>] /\ rs = g[<<<<i + 1, b>>, TRUE>>]
      OBVIOUS
    <3>2. h \in Joined(c, a, i, b, ls, rs)
      BY <2>1, <3>1
    <3>3. \E l \in ls, r \in rs : h = [root |-> c.ops[i], nodes |-> l.nodes \cup r.nodes \cup {OpNode(i, a, b)}]
      BY <3>2 DEF Joined
    <3> QED
      BY <3>1, <3>3
  <2>3. i \in 1..Len(c.ops) /\ i \in 1..Len(c.neg) /\ i + 1 \in 1..Len(c.neg) /\ a <= i /\ i + 1 <= b
    BY <1>1, <1>2
  <2>4. <<<<a, i>>, t>> \in Signings(c) /\ <<<<i + 1, b>>, TRUE>> \in Signings(c)
    BY <2>3, SpanOf
  <2>5. l \in AnyPhrase /\ r \in AnyPhrase
    BY <2>4, <2>2 DEF Tables
  <2>6. OpNode(i, a, b) \in Nodes
    BY <2>3 DEF OpNode, Nodes
  <2>7. c.ops[i] \in Roots
    BY <1>2, <2>3 DEF Roots
  <2> QED
    BY <2>2, <2>5, <2>6, <2>7 DEF AnyPhrase
<1>4. Negation(a, b, g) \in SUBSET AnyPhrase
  <2> SUFFICES ASSUME NEW h \in Negation(a, b, g)
               PROVE  h \in AnyPhrase
    OBVIOUS
  <2>1. PICK k \in g[<<<<a, b>>, FALSE>>] : h = [root |-> Minus, nodes |-> k.nodes \cup {MinusNode(a, b)}]
    BY DEF Negation
  <2>2. k \in AnyPhrase
    BY <1>1, <2>1, SpanOf DEF Tables
  <2>3. MinusNode(a, b) \in Nodes /\ Minus \in Roots
    BY DEF MinusNode, Nodes, Minus, Roots, AnyFixity
  <2> QED
    BY <2>1, <2>2, <2>3 DEF AnyPhrase
<1>5. [root |-> Operand, nodes |-> {}] \in AnyPhrase
  BY DEF AnyPhrase, Roots
<1>6. Body(c, p, g) = IF s /\ c.neg[a] THEN Infix(c, a, b, TRUE, g) \cup Negation(a, b, g)
                      ELSE IF a = b THEN {[root |-> Operand, nodes |-> {}]}
                      ELSE Infix(c, a, b, s, g)
  BY <1>1 DEF Body
<1> QED
  BY <1>3, <1>4, <1>5, <1>6

Size(a, b, s) == 2 * (b - a) + (IF s THEN 1 ELSE 0)
SizeOf(p) == Size(p[1][1], p[1][2], p[2])

\* What a phrase is made of is smaller than it is.
LEMMA BodySame ==
    ASSUME NEW c, ChainOK(c), NEW p \in Signings(c), NEW g, NEW h,
           \A q \in Signings(c) : SizeOf(q) < SizeOf(p) => g[q] = h[q]
    PROVE  Body(c, p, g) = Body(c, p, h)
<1>1. PICK a \in 1..Len(c.neg), b \in 1..Len(c.neg), s \in BOOLEAN :
         a <= b /\ p = <<<<a, b>>, s>> /\ p[1][1] = a /\ p[1][2] = b /\ p[2] = s
  BY SpanIs
<1>2. Len(c.neg) = Len(c.ops) + 1 /\ Len(c.ops) \in Nat
  BY ChainIs
<1>3. \A e \in 1..Len(c.neg), f \in 1..Len(c.neg), t \in BOOLEAN :
         e <= f /\ Size(e, f, t) < Size(a, b, s) => g[<<<<e, f>>, t>>] = h[<<<<e, f>>, t>>]
  <2> TAKE e \in 1..Len(c.neg), f \in 1..Len(c.neg), t \in BOOLEAN
  <2> HAVE e <= f /\ Size(e, f, t) < Size(a, b, s)
  <2>1. PICK q : q = <<<<e, f>>, t>>
    OBVIOUS
  <2>2. q \in Signings(c)
    BY <2>1, SpanOf
  <2>3. SizeOf(q) = Size(e, f, t) /\ SizeOf(p) = Size(a, b, s)
    BY <1>1, <2>1 DEF SizeOf
  <2> QED
    BY <2>1, <2>2, <2>3
<1>4. ASSUME NEW t \in BOOLEAN, t = s
      PROVE  Infix(c, a, b, t, g) = Infix(c, a, b, t, h)
  <2>1. \A i \in a..(b - 1) : /\ g[<<<<a, i>>, t>>] = h[<<<<a, i>>, t>>]
                              /\ g[<<<<i + 1, b>>, TRUE>>] = h[<<<<i + 1, b>>, TRUE>>]
    <3> TAKE i \in a..(b - 1)
    <3>1. i \in 1..Len(c.neg) /\ i + 1 \in 1..Len(c.neg) /\ a <= i /\ i + 1 <= b
      BY <1>1, <1>2
    <3>2. Size(a, i, t) < Size(a, b, s) /\ Size(i + 1, b, TRUE) < Size(a, b, s)
      BY <1>1, <1>2, <1>4, <3>1 DEF Size
    <3> QED
      BY <1>3, <3>1, <3>2
  <2> QED
    <3>1. \A i \in a..(b - 1) :
             Joined(c, a, i, b, g[<<<<a, i>>, t>>], g[<<<<i + 1, b>>, TRUE>>])
             = Joined(c, a, i, b, h[<<<<a, i>>, t>>], h[<<<<i + 1, b>>, TRUE>>])
      BY <2>1
    <3> QED
      BY <3>1, Zenon DEF Infix
<1>5. s => Negation(a, b, g) = Negation(a, b, h)
  <2>1. ASSUME s
        PROVE  g[<<<<a, b>>, FALSE>>] = h[<<<<a, b>>, FALSE>>]
    <3>1. Size(a, b, FALSE) < Size(a, b, s)
      BY <1>1, <1>2, <2>1 DEF Size
    <3> QED
      BY <1>1, <1>3, <3>1
  <2> QED
    BY <2>1 DEF Negation
<1>6. \A t \in {g, h} : Body(c, p, t) = IF s /\ c.neg[a] THEN Infix(c, a, b, TRUE, t) \cup Negation(a, b, t)
                      ELSE IF a = b THEN {[root |-> Operand, nodes |-> {}]}
                      ELSE Infix(c, a, b, s, t)
  BY <1>1 DEF Body
<1> QED
  BY <1>4, <1>5, <1>6

\* The table of phrases is what its definition says.
LEMMA PhrasesAre ==
    ASSUME NEW c, ChainOK(c)
    PROVE  /\ Phrases(c) \in Tables(c)
           /\ \A p \in Signings(c) : Phrases(c)[p] = Body(c, p, Phrases(c))
<1>1. PICK bound \in Nat : bound = 2 * Len(c.neg)
  BY ChainIs
<1>2. PICK start : start = [p \in Signings(c) |-> {}]
  OBVIOUS
<1>3. start \in Tables(c)
  BY <1>2 DEF Tables
<1>4. PICK step : step = [g \in Tables(c) |-> [p \in Signings(c) |-> Body(c, p, g)]]
  OBVIOUS
<1>5. step \in [Tables(c) -> Tables(c)]
  BY <1>4, BodyTyped DEF Tables
<1>6. PICK up \in [0..(bound + 1) -> Tables(c)] :
         up[0] = start /\ \A i \in 1..(bound + 1) : up[i] = step[up[i - 1]]
  <2>1. PICK m \in Nat : m = bound + 1
    OBVIOUS
  <2>2. PICK F : GoesUp(F, m, Tables(c), start, step)
    BY <1>3, <1>5, DefinedUp
  <2> QED
    BY <2>1, <2>2 DEF GoesUp
<1>7. ASSUME NEW i \in 1..(bound + 1), NEW p \in Signings(c)
      PROVE  up[i][p] = Body(c, p, up[i - 1])
  <2>1. i - 1 \in 0..(bound + 1) /\ up[i - 1] \in Tables(c)
    BY <1>1, <1>6
  <2> QED
    BY <1>4, <1>6, <2>1
<1> DEFINE S == {k \in 0..bound : \A p \in Signings(c) : SizeOf(p) < k => up[k][p] = up[k + 1][p]}
<1>8. \A p \in Signings(c) : SizeOf(p) \in Nat /\ SizeOf(p) < bound
  <2> TAKE p \in Signings(c)
  <2>1. PICK a \in 1..Len(c.neg), b \in 1..Len(c.neg), s \in BOOLEAN :
           a <= b /\ p[1][1] = a /\ p[1][2] = b /\ p[2] = s
    BY SpanIs
  <2> QED
    BY <1>1, <2>1, ChainIs DEF SizeOf, Size
<1>9. 0 \in S
  BY <1>1, <1>8
<1>10. ASSUME NEW k \in 1..bound, k - 1 \in S
       PROVE  k \in S
  <2> SUFFICES ASSUME NEW p \in Signings(c), SizeOf(p) < k
               PROVE  up[k][p] = up[k + 1][p]
    BY <1>1
  <2>1. k \in 1..(bound + 1) /\ k + 1 \in 1..(bound + 1) /\ (k + 1) - 1 = k /\ (k - 1) + 1 = k
        /\ k - 1 \in 0..(bound + 1) /\ k \in 0..(bound + 1)
    BY <1>1
  <2>2. up[k - 1] \in Tables(c) /\ up[k] \in Tables(c)
    BY <1>6, <2>1
  <2>3. \A q \in Signings(c) : SizeOf(q) < SizeOf(p) => up[k - 1][q] = up[k][q]
    <3> TAKE q \in Signings(c)
    <3> HAVE SizeOf(q) < SizeOf(p)
    <3>1. SizeOf(q) < k - 1
      BY <1>8, <2>1
    <3> QED
      BY <1>10, <2>1, <3>1
  <2>4. Body(c, p, up[k - 1]) = Body(c, p, up[k])
    BY <2>2, <2>3, BodySame
  <2> QED
    BY <1>7, <2>1, <2>4
<1>11. bound \in S
  <2> HIDE DEF S
  <2>1. \A i \in 0..bound : i \in S
    BY <1>9, <1>10, UpTo
  <2> QED
    BY <2>1
<1>12. PICK F : F = up[bound]
  OBVIOUS
<1>13. F \in Tables(c)
  BY <1>1, <1>6, <1>12
<1>14. \A p \in Signings(c) : F[p] = Body(c, p, F)
  <2> TAKE p \in Signings(c)
  <2>1. up[bound][p] = up[bound + 1][p]
    BY <1>8, <1>11
  <2>2. up[bound + 1][p] = Body(c, p, up[(bound + 1) - 1]) /\ (bound + 1) - 1 = bound
    BY <1>1, <1>7
  <2> QED
    BY <1>12, <2>1, <2>2
<1>15. F = [p \in Signings(c) |-> Body(c, p, F)]
  BY <1>13, <1>14 DEF Tables
<1>16. Phrases(c) = CHOOSE g : g = [p \in Signings(c) |-> Body(c, p, g)]
  BY DEF Phrases, Signings, Body
<1> DEFINE G == Phrases(c)
<1>17. G = [p \in Signings(c) |-> Body(c, p, G)]
  BY <1>15, <1>16
<1> HIDE DEF G
<1> DEFINE R == {k \in 0..bound : \A p \in Signings(c) : SizeOf(p) < k => G[p] = F[p]}
<1>18. 0 \in R
  BY <1>1, <1>8
<1>19. ASSUME NEW k \in 1..bound, k - 1 \in R
       PROVE  k \in R
  <2> SUFFICES ASSUME NEW p \in Signings(c), SizeOf(p) < k
               PROVE  G[p] = F[p]
    BY <1>1
  <2>1. \A q \in Signings(c) : SizeOf(q) < SizeOf(p) => G[q] = F[q]
    <3> TAKE q \in Signings(c)
    <3> HAVE SizeOf(q) < SizeOf(p)
    <3>1. SizeOf(q) < k - 1
      BY <1>8
    <3> QED
      BY <1>19, <3>1
  <2>2. Body(c, p, G) = Body(c, p, F)
    BY <2>1, BodySame
  <2>3. G[p] = Body(c, p, G)
    BY <1>17
  <2> QED
    BY <1>14, <2>2, <2>3
<1>20. bound \in R
  <2> HIDE DEF R
  <2>1. \A i \in 0..bound : i \in R
    BY <1>18, <1>19, UpTo
  <2> QED
    BY <2>1
<1>21. \A p \in Signings(c) : G[p] = F[p]
  BY <1>8, <1>20
<1>22. G = F
  <2>1. G = [p \in Signings(c) |-> G[p]] /\ F = [p \in Signings(c) |-> F[p]]
    BY <1>13, <1>17 DEF Tables
  <2>2. [p \in Signings(c) |-> G[p]] = [p \in Signings(c) |-> F[p]]
    BY <1>21
  <2> QED
    BY <2>1, <2>2, Zenon
<1> QED
  BY <1>13, <1>14, <1>22 DEF G

Phrase(c, a, b, s) == Phrases(c)[<<<<a, b>>, s>>]

Leaf(c, a, b, s, h) == a = b /\ ~(s /\ c.neg[a]) /\ h = [root |-> Operand, nodes |-> {}]
Negates(c, a, b, s, h, k) ==
    /\ s /\ c.neg[a] /\ k \in Phrase(c, a, b, FALSE) /\ Fits(k.root, Minus, "right")
    /\ h = [root |-> Minus, nodes |-> k.nodes \cup {MinusNode(a, b)}]
Joins(c, a, b, s, h, i, l, r) ==
    /\ i \in a..(b - 1) /\ l \in Phrase(c, a, i, s) /\ r \in Phrase(c, i + 1, b, TRUE)
    /\ Fits(l.root, c.ops[i], "left") /\ Fits(r.root, c.ops[i], "right")
    /\ h = [root |-> c.ops[i], nodes |-> l.nodes \cup r.nodes \cup {OpNode(i, a, b)}]

\* What an operator joins.
LEMMA InfixIs ==
    ASSUME NEW c, NEW a, NEW b, NEW s, NEW h
    PROVE  h \in Infix(c, a, b, s, Phrases(c)) <=> \E i, l, r : Joins(c, a, b, s, h, i, l, r)
<1>1. \A i : h \in Joined(c, a, i, b, Phrase(c, a, i, s), Phrase(c, i + 1, b, TRUE)) /\ i \in a..(b - 1)
             <=> \E l, r : Joins(c, a, b, s, h, i, l, r)
  <2> TAKE i
  <2>1. PICK ls, rs : ls = Phrase(c, a, i, s) /\ rs = Phrase(c, i + 1, b, TRUE)
    OBVIOUS
  <2>2. h \in Joined(c, a, i, b, ls, rs)
        <=> \E l \in ls, r \in rs : /\ Fits(l.root, c.ops[i], "left") /\ Fits(r.root, c.ops[i], "right")
                                    /\ h = [root |-> c.ops[i], nodes |-> l.nodes \cup r.nodes \cup {OpNode(i, a, b)}]
    BY DEF Joined
  <2> QED
    BY <2>1, <2>2 DEF Joins
<1>2. h \in Infix(c, a, b, s, Phrases(c))
      <=> \E i \in a..(b - 1) : h \in Joined(c, a, i, b, Phrase(c, a, i, s), Phrase(c, i + 1, b, TRUE))
  BY DEF Infix, Phrase
<1> QED
  BY <1>1, <1>2

\* A phrase is an operand, a minus over a phrase or an operator between two.
LEMMA PhraseIs ==
    ASSUME NEW c, ChainOK(c), NEW a \in 1..Len(c.neg), NEW b \in 1..Len(c.neg), a <= b,
           NEW s \in BOOLEAN, NEW h
    PROVE  /\ h \in Phrase(c, a, b, s) => h \in AnyPhrase
           /\ h \in Phrase(c, a, b, s) <=> \/ Leaf(c, a, b, s, h)
                                           \/ \E k : Negates(c, a, b, s, h, k)
                                           \/ \E i, l, r : Joins(c, a, b, s, h, i, l, r)
<1>1. PICK p : p = <<<<a, b>>, s>>
  OBVIOUS
<1>2. p \in Signings(c) /\ p[1][1] = a /\ p[1][2] = b /\ p[2] = s
  BY <1>1, SpanOf
<1>3. Phrase(c, a, b, s) = Body(c, p, Phrases(c)) /\ Phrase(c, a, b, s) \in SUBSET AnyPhrase
  BY <1>1, <1>2, PhrasesAre DEF Phrase, Tables
<1>4. Body(c, p, Phrases(c)) =
         IF s /\ c.neg[a] THEN Infix(c, a, b, TRUE, Phrases(c)) \cup Negation(a, b, Phrases(c))
         ELSE IF a = b THEN {[root |-> Operand, nodes |-> {}]}
         ELSE Infix(c, a, b, s, Phrases(c))
  BY <1>2 DEF Body
<1>5. h \in Negation(a, b, Phrases(c)) /\ s /\ c.neg[a] <=> \E k : Negates(c, a, b, s, h, k)
  BY DEF Negation, Negates, Phrase
<1>6. c.neg[a] \in BOOLEAN
  BY ChainIs
<1>7. CASE s /\ c.neg[a]
  <2>1. ~Leaf(c, a, b, s, h)
    BY <1>7 DEF Leaf
  <2> QED
    BY <1>3, <1>4, <1>5, <1>7, <2>1, InfixIs
<1>8. CASE ~(s /\ c.neg[a]) /\ a = b
  <2>1. ~(\E i, l, r : Joins(c, a, b, s, h, i, l, r))
    <3>1. a..(b - 1) = {}
      BY <1>8, ChainIs
    <3> QED
      BY <3>1 DEF Joins
  <2>2. ~(\E k : Negates(c, a, b, s, h, k))
    BY <1>8 DEF Negates
  <2> QED
    BY <1>3, <1>4, <1>8, <2>1, <2>2 DEF Leaf
<1>9. CASE ~(s /\ c.neg[a]) /\ a # b
  <2>1. ~Leaf(c, a, b, s, h)
    BY <1>9 DEF Leaf
  <2>2. ~(\E k : Negates(c, a, b, s, h, k))
    BY <1>9 DEF Negates
  <2> QED
    BY <1>3, <1>4, <1>9, <2>1, <2>2, InfixIs
<1> QED
  BY <1>7, <1>8, <1>9

\* Induction over spans and signs.
LEMMA OverSpans ==
    ASSUME NEW c, ChainOK(c), NEW S,
           \A a, b \in 1..Len(c.neg), s \in BOOLEAN :
              /\ a <= b
              /\ \A i \in a..(b - 1) : <<<<a, i>>, s>> \in S /\ <<<<i + 1, b>>, TRUE>> \in S
              /\ s => <<<<a, b>>, FALSE>> \in S
              => <<<<a, b>>, s>> \in S
    PROVE  \A a, b \in 1..Len(c.neg), s \in BOOLEAN : a <= b => <<<<a, b>>, s>> \in S
<1>1. PICK bound \in Nat : bound = 2 * Len(c.neg)
  BY ChainIs
<1> DEFINE T == {k \in 0..bound : \A a, b \in 1..Len(c.neg), s \in BOOLEAN :
                    a <= b /\ Size(a, b, s) = k => <<<<a, b>>, s>> \in S}
<1>2. \A a, b \in 1..Len(c.neg), s \in BOOLEAN : a <= b => Size(a, b, s) \in 0..bound
  BY <1>1, ChainIs DEF Size
<1>3. ASSUME NEW k \in 0..bound, \A i \in 0..(k - 1) : i \in T
      PROVE  k \in T
  <2> SUFFICES ASSUME NEW a \in 1..Len(c.neg), NEW b \in 1..Len(c.neg), NEW s \in BOOLEAN,
                      a <= b, Size(a, b, s) = k
               PROVE  <<<<a, b>>, s>> \in S
    OBVIOUS
  <2>1. \A e, f \in 1..Len(c.neg), t \in BOOLEAN : e <= f /\ Size(e, f, t) < k => <<<<e, f>>, t>> \in S
    <3> TAKE e, f \in 1..Len(c.neg), t \in BOOLEAN
    <3> HAVE e <= f /\ Size(e, f, t) < k
    <3>1. Size(e, f, t) \in 0..(k - 1)
      BY <1>2
    <3>2. Size(e, f, t) \in T
      BY <1>3, <3>1
    <3> QED
      BY <3>2
  <2>2. ASSUME NEW i \in a..(b - 1)
        PROVE  <<<<a, i>>, s>> \in S /\ <<<<i + 1, b>>, TRUE>> \in S
    <3>1. i \in 1..Len(c.neg) /\ i + 1 \in 1..Len(c.neg) /\ a <= i /\ i + 1 <= b
      BY ChainIs
    <3>2. Size(a, i, s) < k /\ Size(i + 1, b, TRUE) < k
      BY <3>1, ChainIs DEF Size
    <3> QED
      BY <2>1, <3>1, <3>2
  <2>3. ASSUME s
        PROVE  <<<<a, b>>, FALSE>> \in S
    <3>1. Size(a, b, FALSE) < k
      BY <2>3, ChainIs DEF Size
    <3> QED
      BY <2>1, <3>1
  <2> QED
    BY <2>2, <2>3
<1> HIDE DEF T
<1>4. \A k \in 0..bound : k \in T
  BY <1>3, FromBelow
<1> QED
  BY <1>2, <1>4 DEF T

OpAtom(c, i) == [at |-> 2 * i, fix |-> c.ops[i]]
MinusAtom(k) == [at |-> 2 * k - 1, fix |-> Minus]
Atoms(c) ==
    {OpAtom(c, i) : i \in 1..Len(c.ops)} \cup {MinusAtom(k) : k \in {j \in 1..Len(c.neg) : c.neg[j]}}

First(a, s) == IF s THEN 2 * a - 1 ELSE 2 * a
Within(c, a, b, s) == {x \in Atoms(c) : First(a, s) <= x.at /\ x.at <= 2 * b - 1}

Typed(W) == \A x \in W : x.at \in Nat /\ x.fix \in AnyFixity

\* Operators and minuses stand at places of their own.
LEMMA AtomsAre ==
    ASSUME NEW c, ChainOK(c)
    PROVE  Typed(Atoms(c)) /\ \A x, y \in Atoms(c) : x.at = y.at => x = y
<1>1. \A x \in Atoms(c) : \/ \E i \in 1..Len(c.ops) : x = OpAtom(c, i)
                          \/ \E k \in 1..Len(c.neg) : c.neg[k] /\ x = MinusAtom(k)
  BY DEF Atoms
<1>2. Minus \in AnyFixity
  BY DEF Minus, AnyFixity
<1>3. Typed(Atoms(c))
  <2> SUFFICES ASSUME NEW x \in Atoms(c)
               PROVE  x.at \in Nat /\ x.fix \in AnyFixity
    BY DEF Typed
  <2>1. CASE \E i \in 1..Len(c.ops) : x = OpAtom(c, i)
    BY <2>1, ChainIs DEF OpAtom
  <2>2. CASE \E k \in 1..Len(c.neg) : c.neg[k] /\ x = MinusAtom(k)
    BY <1>2, <2>2, ChainIs DEF MinusAtom
  <2> QED
    BY <1>1, <2>1, <2>2
<1>4. ASSUME NEW x \in Atoms(c), NEW y \in Atoms(c), x.at = y.at
      PROVE  x = y
  <2>1. \A i, j \in 1..Len(c.ops) : OpAtom(c, i).at = OpAtom(c, j).at => i = j
    BY ChainIs DEF OpAtom
  <2>2. \A i \in 1..Len(c.ops), k \in 1..Len(c.neg) : OpAtom(c, i).at # MinusAtom(k).at
    BY ChainIs DEF OpAtom, MinusAtom
  <2>3. \A i, j \in 1..Len(c.neg) : MinusAtom(i).at = MinusAtom(j).at => i = j
    BY ChainIs DEF MinusAtom
  <2> QED
    BY <1>1, <1>4, <2>1, <2>2, <2>3
<1> QED
  BY <1>3, <1>4

Divides(W, R, Wl, Wr) ==
    /\ W = Wl \cup {R} \cup Wr
    /\ \A x \in Wl : x.at < R.at
    /\ \A x \in Wr : R.at < x.at

\* What stands around an operator of a span ...
LEMMA WithinJoin ==
    ASSUME NEW c, ChainOK(c), NEW a \in 1..Len(c.neg), NEW b \in 1..Len(c.neg), a <= b,
           NEW s \in BOOLEAN, NEW i \in a..(b - 1)
    PROVE  /\ OpAtom(c, i) \in Atoms(c)
           /\ Divides(Within(c, a, b, s), OpAtom(c, i), Within(c, a, i, s), Within(c, i + 1, b, TRUE))
<1>1. i \in 1..Len(c.ops) /\ OpAtom(c, i) \in Atoms(c)
  BY ChainIs DEF Atoms
<1>2. \A x \in Atoms(c) : x.at \in Nat /\ (x.at = OpAtom(c, i).at => x = OpAtom(c, i))
  BY <1>1, AtomsAre DEF Typed
<1>3. OpAtom(c, i).at = 2 * i
  BY DEF OpAtom
<1>4. First(a, s) <= 2 * i /\ First(a, s) \in Int /\ First(i + 1, TRUE) = 2 * i + 1
  BY DEF First
<1>5. \A x \in Atoms(c) :
         /\ x \in Within(c, a, b, s) <=> First(a, s) <= x.at /\ x.at <= 2 * b - 1
         /\ x \in Within(c, a, i, s) <=> First(a, s) <= x.at /\ x.at <= 2 * i - 1
         /\ x \in Within(c, i + 1, b, TRUE) <=> 2 * i + 1 <= x.at /\ x.at <= 2 * b - 1
  BY <1>4 DEF Within
<1>6. \A x \in Atoms(c) :
         x \in Within(c, a, b, s) <=> x \in Within(c, a, i, s) \/ x = OpAtom(c, i) \/ x \in Within(c, i + 1, b, TRUE)
  <2> TAKE x \in Atoms(c)
  <2>1. PICK t : t = x.at
    OBVIOUS
  <2>2. t \in Nat /\ i \in Int /\ b \in Int /\ i <= b - 1
    BY <1>2, <2>1, ChainIs
  <2>3. x = OpAtom(c, i) <=> t = 2 * i
    BY <1>2, <1>3, <2>1
  <2>4. First(a, s) <= t /\ t <= 2 * b - 1
        <=> (First(a, s) <= t /\ t <= 2 * i - 1) \/ t = 2 * i \/ (2 * i + 1 <= t /\ t <= 2 * b - 1)
    BY <1>4, <2>2
  <2> QED
    BY <1>5, <2>1, <2>3, <2>4
<1>7. \A t, e, f : Within(c, e, f, t) \subseteq Atoms(c)
  BY DEF Within
<1>8. Within(c, a, b, s) = Within(c, a, i, s) \cup {OpAtom(c, i)} \cup Within(c, i + 1, b, TRUE)
  BY <1>1, <1>6, <1>7
<1>9. i \in Int
  BY ChainIs
<1>10. \A x \in Within(c, a, i, s) : x.at < OpAtom(c, i).at
  <2> TAKE x \in Within(c, a, i, s)
  <2>1. x \in Atoms(c)
    BY <1>7
  <2>2. x.at \in Nat /\ x.at <= 2 * i - 1
    BY <1>2, <1>5, <2>1
  <2> QED
    BY <1>3, <1>9, <2>2
<1>11. \A x \in Within(c, i + 1, b, TRUE) : OpAtom(c, i).at < x.at
  <2> TAKE x \in Within(c, i + 1, b, TRUE)
  <2>1. x \in Atoms(c)
    BY <1>7
  <2>2. x.at \in Nat /\ 2 * i + 1 <= x.at
    BY <1>2, <1>5, <2>1
  <2> QED
    BY <1>3, <1>9, <2>2
<1> QED
  BY <1>1, <1>8, <1>10, <1>11 DEF Divides

\* ... and behind its minus.
LEMMA WithinMinus ==
    ASSUME NEW c, ChainOK(c), NEW a \in 1..Len(c.neg), NEW b \in 1..Len(c.neg), a <= b, c.neg[a]
    PROVE  /\ MinusAtom(a) \in Atoms(c)
           /\ Divides(Within(c, a, b, TRUE), MinusAtom(a), {}, Within(c, a, b, FALSE))
<1>1. MinusAtom(a) \in Atoms(c)
  BY DEF Atoms
<1>2. \A x \in Atoms(c) : x.at \in Nat /\ (x.at = MinusAtom(a).at => x = MinusAtom(a))
  BY <1>1, AtomsAre DEF Typed
<1>3. MinusAtom(a).at = 2 * a - 1
  BY DEF MinusAtom
<1>5. \A x \in Atoms(c) :
         /\ x \in Within(c, a, b, TRUE) <=> 2 * a - 1 <= x.at /\ x.at <= 2 * b - 1
         /\ x \in Within(c, a, b, FALSE) <=> 2 * a <= x.at /\ x.at <= 2 * b - 1
  BY DEF Within, First
<1>6. \A x \in Atoms(c) : x \in Within(c, a, b, TRUE) <=> x = MinusAtom(a) \/ x \in Within(c, a, b, FALSE)
  <2> TAKE x \in Atoms(c)
  <2>1. PICK t : t = x.at
    OBVIOUS
  <2>2. t \in Nat /\ a \in Int /\ b \in Int
    BY <1>2, <2>1, ChainIs
  <2>3. x = MinusAtom(a) <=> t = 2 * a - 1
    BY <1>2, <1>3, <2>1
  <2>4. 2 * a - 1 <= t /\ t <= 2 * b - 1 <=> t = 2 * a - 1 \/ (2 * a <= t /\ t <= 2 * b - 1)
    BY <2>2
  <2> QED
    BY <1>5, <2>1, <2>3, <2>4
<1>7. \A t, e, f : Within(c, e, f, t) \subseteq Atoms(c)
  BY DEF Within
<1>8. Within(c, a, b, TRUE) = {MinusAtom(a)} \cup Within(c, a, b, FALSE)
  BY <1>1, <1>6, <1>7
<1>9. \A x \in Within(c, a, b, FALSE) : MinusAtom(a).at < x.at
  <2> TAKE x \in Within(c, a, b, FALSE)
  <2>1. x \in Atoms(c)
    BY <1>7
  <2>2. x.at \in Nat
    BY <1>2, <2>1
  <2>3. 2 * a <= x.at
    BY <1>5, <2>1
  <2>4. a \in Int
    BY ChainIs
  <2> QED
    BY <1>3, <2>2, <2>3, <2>4
<1> QED
  BY <1>1, <1>8, <1>9 DEF Divides

-------------------------------------------------------------------------------
(* The root of a phrase *)

Dominates(W, R) ==
    \A x \in W : /\ R.fix.prec <= x.fix.prec
                 /\ x.fix.prec = R.fix.prec =>
                       \/ x = R
                       \/ x.at < R.at /\ x.fix.assoc = "left" /\ R.fix.assoc = "left"
                       \/ R.at < x.at /\ x.fix.assoc = "right" /\ R.fix.assoc = "right"

Lowest(W, f) == IF f = Operand THEN W = {} ELSE \E R \in W : R.fix = f /\ Dominates(W, R)

\* What fits on the left of an operator binds tighter or is chained with it.
LEMMA LeftDominated ==
    ASSUME NEW W, NEW R, NEW f \in Roots, Typed(W \cup {R}), Lowest(W, f), Fits(f, R.fix, "left"),
           \A x \in W : x.at < R.at
    PROVE  Dominates(W, R)
<1> SUFFICES ASSUME NEW x \in W
             PROVE  /\ R.fix.prec <= x.fix.prec
                    /\ x.fix.prec = R.fix.prec => x.fix.assoc = "left" /\ R.fix.assoc = "left"
  BY DEF Dominates
<1>1. f # Operand /\ f \in AnyFixity
  BY DEF Lowest, Roots
<1>2. PICK L \in W : L.fix = f /\ Dominates(W, L)
  BY <1>1 DEF Lowest
<1>3. /\ f.prec > R.fix.prec \/ (f.prec = R.fix.prec /\ f.assoc = "left" /\ R.fix.assoc = "left")
  BY DEF Fits
<1>4. /\ f.prec <= x.fix.prec
      /\ x.fix.prec = f.prec => x = L \/ (x.fix.assoc = "left" /\ f.assoc = "left")
                                \/ (x.fix.assoc = "right" /\ f.assoc = "right")
  BY <1>2 DEF Dominates
<1>5. f.prec \in Nat /\ R.fix.prec \in Nat /\ x.fix.prec \in Nat
  BY <1>1 DEF Typed, AnyFixity
<1> QED
  BY <1>2, <1>3, <1>4, <1>5

\* ... and so does what fits on its right.
LEMMA RightDominated ==
    ASSUME NEW W, NEW R, NEW f \in Roots, Typed(W \cup {R}), Lowest(W, f), Fits(f, R.fix, "right"),
           \A x \in W : R.at < x.at
    PROVE  Dominates(W, R)
<1> SUFFICES ASSUME NEW x \in W
             PROVE  /\ R.fix.prec <= x.fix.prec
                    /\ x.fix.prec = R.fix.prec => x.fix.assoc = "right" /\ R.fix.assoc = "right"
  BY DEF Dominates
<1>1. f # Operand /\ f \in AnyFixity
  BY DEF Lowest, Roots
<1>2. PICK L \in W : L.fix = f /\ Dominates(W, L)
  BY <1>1 DEF Lowest
<1>3. /\ f.prec > R.fix.prec \/ (f.prec = R.fix.prec /\ f.assoc = "right" /\ R.fix.assoc = "right")
  BY DEF Fits
<1>4. /\ f.prec <= x.fix.prec
      /\ x.fix.prec = f.prec => x = L \/ (x.fix.assoc = "left" /\ f.assoc = "left")
                                \/ (x.fix.assoc = "right" /\ f.assoc = "right")
  BY <1>2 DEF Dominates
<1>5. f.prec \in Nat /\ R.fix.prec \in Nat /\ x.fix.prec \in Nat
  BY <1>1 DEF Typed, AnyFixity
<1> QED
  BY <1>2, <1>3, <1>4, <1>5

\* An operator that joins two phrases binds loosest in what they cover ...
LEMMA JoinDominates ==
    ASSUME NEW c, ChainOK(c), NEW a \in 1..Len(c.neg), NEW b \in 1..Len(c.neg), a <= b,
           NEW s \in BOOLEAN, NEW i \in a..(b - 1), NEW f \in Roots, NEW g \in Roots,
           Lowest(Within(c, a, i, s), f), Lowest(Within(c, i + 1, b, TRUE), g),
           Fits(f, c.ops[i], "left"), Fits(g, c.ops[i], "right")
    PROVE  /\ OpAtom(c, i) \in Within(c, a, b, s)
           /\ Dominates(Within(c, a, b, s), OpAtom(c, i))
<1>1. PICK Wl, Wr, R : Wl = Within(c, a, i, s) /\ Wr = Within(c, i + 1, b, TRUE) /\ R = OpAtom(c, i)
  OBVIOUS
<1>2. /\ R \in Atoms(c) /\ Within(c, a, b, s) = Wl \cup {R} \cup Wr
      /\ (\A x \in Wl : x.at < R.at) /\ \A x \in Wr : R.at < x.at
  <2>1. /\ OpAtom(c, i) \in Atoms(c)
        /\ Divides(Within(c, a, b, s), OpAtom(c, i), Within(c, a, i, s), Within(c, i + 1, b, TRUE))
    BY WithinJoin
  <2> QED
    BY <1>1, <2>1 DEF Divides
<1>3. R.fix = c.ops[i]
  BY <1>1 DEF OpAtom
<1>4. Typed(Wl \cup {R}) /\ Typed(Wr \cup {R})
  BY <1>1, <1>2, AtomsAre DEF Typed, Within
<1>5. Dominates(Wl, R)
  BY <1>1, <1>2, <1>3, <1>4, LeftDominated
<1>6. Dominates(Wr, R)
  BY <1>1, <1>2, <1>3, <1>4, RightDominated
<1>7. Dominates({R}, R)
  <2>1. R.fix.prec \in Nat
    BY <1>4 DEF Typed, AnyFixity
  <2> QED
    BY <2>1 DEF Dominates
<1> QED
  BY <1>1, <1>2, <1>5, <1>6, <1>7 DEF Dominates

\* ... and a minus does in what it is put before.
LEMMA MinusDominates ==
    ASSUME NEW c, ChainOK(c), NEW a \in 1..Len(c.neg), NEW b \in 1..Len(c.neg), a <= b, c.neg[a],
           NEW f \in Roots, Lowest(Within(c, a, b, FALSE), f), Fits(f, Minus, "right")
    PROVE  /\ MinusAtom(a) \in Within(c, a, b, TRUE)
           /\ Dominates(Within(c, a, b, TRUE), MinusAtom(a))
<1>1. PICK W, R : W = Within(c, a, b, FALSE) /\ R = MinusAtom(a)
  OBVIOUS
<1>2. /\ R \in Atoms(c) /\ Within(c, a, b, TRUE) = {R} \cup W
      /\ \A x \in W : R.at < x.at
  <2>1. /\ MinusAtom(a) \in Atoms(c)
        /\ Divides(Within(c, a, b, TRUE), MinusAtom(a), {}, Within(c, a, b, FALSE))
    BY WithinMinus
  <2> QED
    BY <1>1, <2>1 DEF Divides
<1>3. R.fix = Minus
  BY <1>1 DEF MinusAtom
<1>4. Typed(W \cup {R})
  BY <1>1, <1>2, AtomsAre DEF Typed, Within
<1>5. Dominates(W, R)
  BY <1>1, <1>2, <1>3, <1>4, RightDominated
<1>6. Dominates({R}, R)
  <2>1. R.fix.prec \in Nat
    BY <1>4 DEF Typed, AnyFixity
  <2> QED
    BY <2>1 DEF Dominates
<1> QED
  BY <1>1, <1>2, <1>5, <1>6 DEF Dominates

\* Nothing stands in a single operand without its minus.
LEMMA LeafEmpty ==
    ASSUME NEW c, ChainOK(c), NEW a \in 1..Len(c.neg), NEW s \in BOOLEAN, ~(s /\ c.neg[a])
    PROVE  Within(c, a, a, s) = {}
<1> SUFFICES ASSUME NEW x \in Within(c, a, a, s)
             PROVE  FALSE
  OBVIOUS
<1>1. x \in Atoms(c) /\ First(a, s) <= x.at /\ x.at <= 2 * a - 1
  BY DEF Within
<1>2. CASE \E i \in 1..Len(c.ops) : x = OpAtom(c, i)
  BY <1>1, <1>2, ChainIs DEF First, OpAtom
<1>3. CASE \E k \in 1..Len(c.neg) : c.neg[k] /\ x = MinusAtom(k)
  <2>1. PICK k \in 1..Len(c.neg) : c.neg[k] /\ x = MinusAtom(k)
    BY <1>3
  <2>2. x.at = 2 * k - 1
    BY <2>1 DEF MinusAtom
  <2>3. k = a /\ s
    BY <1>1, <2>2, ChainIs DEF First
  <2> QED
    BY <2>1, <2>3
<1> QED
  BY <1>1, <1>2, <1>3 DEF Atoms

\* The root of every phrase binds loosest in it.
LEMMA LowestRoot ==
    ASSUME NEW c, ChainOK(c), NEW a \in 1..Len(c.neg), NEW b \in 1..Len(c.neg), a <= b,
           NEW s \in BOOLEAN, NEW h \in Phrase(c, a, b, s)
    PROVE  h.root \in Roots /\ Lowest(Within(c, a, b, s), h.root)
<1> DEFINE S == {p \in Signings(c) : \A k \in Phrases(c)[p] :
                    k.root \in Roots /\ Lowest(Within(c, p[1][1], p[1][2], p[2]), k.root)}
<1>1. \A e, f \in 1..Len(c.neg), t \in BOOLEAN :
         e <= f => (<<<<e, f>>, t>> \in S
                    <=> \A k \in Phrase(c, e, f, t) : k.root \in Roots /\ Lowest(Within(c, e, f, t), k.root))
  BY SpanOf DEF Phrase
<1> HIDE DEF S
<1>2. ASSUME NEW e \in 1..Len(c.neg), NEW f \in 1..Len(c.neg), NEW t \in BOOLEAN, e <= f,
             \A i \in e..(f - 1) : <<<<e, i>>, t>> \in S /\ <<<<i + 1, f>>, TRUE>> \in S,
             t => <<<<e, f>>, FALSE>> \in S
      PROVE  <<<<e, f>>, t>> \in S
  <2> SUFFICES ASSUME NEW k \in Phrase(c, e, f, t)
               PROVE  k.root \in Roots /\ Lowest(Within(c, e, f, t), k.root)
    BY <1>1, <1>2
  <2>1. k \in AnyPhrase
    BY <1>2, PhraseIs
  <2>2. k.root \in Roots
    BY <2>1 DEF AnyPhrase
  <2>3. CASE Leaf(c, e, f, t, k)
    <3>1. Within(c, e, f, t) = {} /\ k.root = Operand
      BY <2>3, LeafEmpty DEF Leaf
    <3> QED
      BY <2>2, <3>1 DEF Lowest
  <2>4. CASE \E m : Negates(c, e, f, t, k, m)
    <3>1. PICK m : Negates(c, e, f, t, k, m)
      BY <2>4
    <3>2. m.root \in Roots /\ Lowest(Within(c, e, f, FALSE), m.root)
      BY <1>1, <1>2, <3>1 DEF Negates
    <3>3. MinusAtom(e) \in Within(c, e, f, TRUE) /\ Dominates(Within(c, e, f, TRUE), MinusAtom(e))
      BY <1>2, <3>1, <3>2, MinusDominates DEF Negates
    <3>4. t /\ k.root = Minus /\ MinusAtom(e).fix = Minus /\ Minus # Operand
      BY <3>1 DEF Negates, MinusAtom, Minus, Operand
    <3> QED
      BY <2>2, <3>3, <3>4 DEF Lowest
  <2>5. CASE \E i, l, r : Joins(c, e, f, t, k, i, l, r)
    <3>1. PICK i, l, r : Joins(c, e, f, t, k, i, l, r)
      BY <2>5
    <3>2. i \in e..(f - 1) /\ i \in 1..Len(c.neg) /\ i + 1 \in 1..Len(c.neg) /\ e <= i /\ i + 1 <= f
          /\ i \in 1..Len(c.ops)
      BY <1>2, <3>1, ChainIs DEF Joins
    <3>3. l.root \in Roots /\ Lowest(Within(c, e, i, t), l.root)
      BY <1>1, <1>2, <3>1, <3>2 DEF Joins
    <3>4. r.root \in Roots /\ Lowest(Within(c, i + 1, f, TRUE), r.root)
      BY <1>1, <1>2, <3>1, <3>2 DEF Joins
    <3>5. OpAtom(c, i) \in Within(c, e, f, t) /\ Dominates(Within(c, e, f, t), OpAtom(c, i))
      BY <1>2, <3>1, <3>2, <3>3, <3>4, JoinDominates DEF Joins
    <3>6. k.root = c.ops[i] /\ OpAtom(c, i).fix = c.ops[i] /\ c.ops[i] # Operand
      <4>1. c.ops[i] \in AnyFixity
        BY <3>2, ChainIs
      <4>2. c.ops[i].prec # Operand.prec
        BY <4>1 DEF AnyFixity, Operand
      <4> QED
        BY <3>1, <4>2 DEF Joins, OpAtom
    <3> QED
      BY <2>2, <3>5, <3>6 DEF Lowest
  <2> QED
    BY <1>2, <2>3, <2>4, <2>5, PhraseIs
<1>3. <<<<a, b>>, s>> \in S
  BY <1>2, OverSpans
<1> QED
  BY <1>1, <1>3

\* The operator at the root of a phrase.
LEMMA JoinRoot ==
    ASSUME NEW c, ChainOK(c), NEW a \in 1..Len(c.neg), NEW b \in 1..Len(c.neg), a <= b,
           NEW s \in BOOLEAN, NEW h, NEW i, NEW l, NEW r, Joins(c, a, b, s, h, i, l, r)
    PROVE  /\ i \in 1..Len(c.ops) /\ i + 1 \in 1..Len(c.neg) /\ i \in 1..Len(c.neg)
           /\ i \in a..(b - 1) /\ a <= i /\ i + 1 <= b
           /\ l.root \in Roots /\ Lowest(Within(c, a, i, s), l.root)
           /\ r.root \in Roots /\ Lowest(Within(c, i + 1, b, TRUE), r.root)
           /\ OpAtom(c, i) \in Within(c, a, b, s) /\ Dominates(Within(c, a, b, s), OpAtom(c, i))
           /\ Divides(Within(c, a, b, s), OpAtom(c, i), Within(c, a, i, s), Within(c, i + 1, b, TRUE))
<1>1. i \in 1..Len(c.ops) /\ i + 1 \in 1..Len(c.neg) /\ i \in 1..Len(c.neg)
      /\ i \in a..(b - 1) /\ a <= i /\ i + 1 <= b
  BY ChainIs DEF Joins
<1>2. l.root \in Roots /\ Lowest(Within(c, a, i, s), l.root)
  BY <1>1, LowestRoot DEF Joins
<1>3. r.root \in Roots /\ Lowest(Within(c, i + 1, b, TRUE), r.root)
  BY <1>1, LowestRoot DEF Joins
<1>4. OpAtom(c, i) \in Within(c, a, b, s) /\ Dominates(Within(c, a, b, s), OpAtom(c, i))
  BY <1>1, <1>2, <1>3, JoinDominates DEF Joins
<1>5. Divides(Within(c, a, b, s), OpAtom(c, i), Within(c, a, i, s), Within(c, i + 1, b, TRUE))
  BY <1>1, WithinJoin
<1> QED
  BY <1>1, <1>2, <1>3, <1>4, <1>5

\* The minus at the root of a phrase.
LEMMA MinusRoot ==
    ASSUME NEW c, ChainOK(c), NEW a \in 1..Len(c.neg), NEW b \in 1..Len(c.neg), a <= b,
           NEW s \in BOOLEAN, NEW h, NEW k, Negates(c, a, b, s, h, k)
    PROVE  /\ s = TRUE /\ c.neg[a] /\ k \in Phrase(c, a, b, FALSE)
           /\ k.root \in Roots /\ Lowest(Within(c, a, b, FALSE), k.root)
           /\ MinusAtom(a) \in Within(c, a, b, s) /\ Dominates(Within(c, a, b, s), MinusAtom(a))
           /\ Divides(Within(c, a, b, s), MinusAtom(a), {}, Within(c, a, b, FALSE))
<1>1. s = TRUE /\ c.neg[a] /\ k \in Phrase(c, a, b, FALSE)
  BY DEF Negates
<1>2. k.root \in Roots /\ Lowest(Within(c, a, b, FALSE), k.root)
  BY <1>1, LowestRoot
<1>3. MinusAtom(a) \in Within(c, a, b, TRUE) /\ Dominates(Within(c, a, b, TRUE), MinusAtom(a))
  BY <1>1, <1>2, MinusDominates DEF Negates
<1>4. Divides(Within(c, a, b, TRUE), MinusAtom(a), {}, Within(c, a, b, FALSE))
  BY <1>1, WithinMinus
<1> QED
  BY <1>1, <1>2, <1>3, <1>4

\* Only one of them binds loosest.
LEMMA OneDominator ==
    ASSUME NEW W, Typed(W), NEW R \in W, NEW Q \in W, Dominates(W, R), Dominates(W, Q)
    PROVE  R = Q
<1>1. R.fix.prec \in Nat /\ Q.fix.prec \in Nat /\ R.at \in Nat /\ Q.at \in Nat
  BY DEF Typed, AnyFixity
<1>2. R.fix.prec <= Q.fix.prec /\ Q.fix.prec <= R.fix.prec
  BY DEF Dominates
<1>3. R.fix.prec = Q.fix.prec
  BY <1>1, <1>2
<1>4. \/ Q = R
      \/ Q.at < R.at /\ R.fix.assoc = "left"
      \/ R.at < Q.at /\ R.fix.assoc = "right"
  BY <1>3 DEF Dominates
<1>5. \/ Q = R
      \/ R.at < Q.at /\ R.fix.assoc = "left"
      \/ Q.at < R.at /\ R.fix.assoc = "right"
  BY <1>3 DEF Dominates
<1> QED
  BY <1>1, <1>4, <1>5

\* What stands in a span is typed.
LEMMA WithinTyped ==
    ASSUME NEW c, ChainOK(c), NEW a, NEW b, NEW s
    PROVE  Typed(Within(c, a, b, s)) /\ Within(c, a, b, s) \subseteq Atoms(c)
BY AtomsAre DEF Typed, Within

\* The Haskell rules leave no choice: a span has one phrase at most, so that what
\* infix and continue_infix (fixity.rs 148-261) find is the grouping if they find any.
THEOREM OnePhrase ==
    ASSUME NEW c, ChainOK(c), NEW a \in 1..Len(c.neg), NEW b \in 1..Len(c.neg), a <= b,
           NEW s \in BOOLEAN, NEW h \in Phrase(c, a, b, s), NEW k \in Phrase(c, a, b, s)
    PROVE  h = k
<1> DEFINE S == {p \in Signings(c) : \A m, n \in Phrases(c)[p] : m = n}
<1>1. \A e, f \in 1..Len(c.neg), t \in BOOLEAN :
         e <= f => (<<<<e, f>>, t>> \in S <=> \A m, n \in Phrase(c, e, f, t) : m = n)
  BY SpanOf DEF Phrase
<1> HIDE DEF S
<1>2. ASSUME NEW e \in 1..Len(c.neg), NEW f \in 1..Len(c.neg), NEW t \in BOOLEAN, e <= f,
             \A i \in e..(f - 1) : <<<<e, i>>, t>> \in S /\ <<<<i + 1, f>>, TRUE>> \in S,
             t => <<<<e, f>>, FALSE>> \in S
      PROVE  <<<<e, f>>, t>> \in S
  <2> SUFFICES ASSUME NEW m \in Phrase(c, e, f, t), NEW n \in Phrase(c, e, f, t)
               PROVE  m = n
    BY <1>1, <1>2
  <2> DEFINE W == Within(c, e, f, t)
  <2>1. \A g \in Phrase(c, e, f, t) : \/ Leaf(c, e, f, t, g)
                                      \/ \E o : Negates(c, e, f, t, g, o)
                                      \/ \E i, l, r : Joins(c, e, f, t, g, i, l, r)
    BY <1>2, PhraseIs
  <2>2. ASSUME NEW g, Leaf(c, e, f, t, g)
        PROVE  W = {} /\ g = [root |-> Operand, nodes |-> {}]
    BY <2>2, LeafEmpty DEF Leaf
  <2>3. ASSUME NEW g, NEW o, Negates(c, e, f, t, g, o)
        PROVE  MinusAtom(e) \in W /\ Dominates(W, MinusAtom(e))
    BY <1>2, <2>3, MinusRoot
  <2>4. ASSUME NEW g, NEW i, NEW l, NEW r, Joins(c, e, f, t, g, i, l, r)
        PROVE  OpAtom(c, i) \in W /\ Dominates(W, OpAtom(c, i))
    BY <1>2, <2>4, JoinRoot
  <2>5. Typed(W)
    BY WithinTyped
  <2>6. \A i \in e..(f - 1) : OpAtom(c, i) # MinusAtom(e)
    BY <1>2, ChainIs DEF OpAtom, MinusAtom
  <2>7. \A i, j \in e..(f - 1) : OpAtom(c, i) = OpAtom(c, j) => i = j
    BY <1>2, ChainIs DEF OpAtom
  <2>8. CASE Leaf(c, e, f, t, m)
    <3>1. W = {}
      BY <2>2, <2>8
    <3>2. Leaf(c, e, f, t, n)
      BY <2>1, <2>3, <2>4, <3>1
    <3> QED
      BY <2>8, <3>2 DEF Leaf
  <2>9. CASE \E o : Negates(c, e, f, t, m, o)
    <3>1. PICK o : Negates(c, e, f, t, m, o)
      BY <2>9
    <3>2. MinusAtom(e) \in W /\ Dominates(W, MinusAtom(e))
      BY <2>3, <3>1
    <3>3. ~Leaf(c, e, f, t, n)
      BY <2>2, <3>2
    <3>4. ASSUME NEW i, NEW l, NEW r, Joins(c, e, f, t, n, i, l, r)
          PROVE  FALSE
      <4>1. OpAtom(c, i) \in W /\ Dominates(W, OpAtom(c, i)) /\ i \in e..(f - 1)
        BY <2>4, <3>4 DEF Joins
      <4> HIDE DEF W
      <4> QED
        BY <2>5, <2>6, <3>2, <4>1, OneDominator
    <3>5. PICK q : Negates(c, e, f, t, n, q)
      BY <2>1, <3>3, <3>4
    <3>6. o = q
      BY <1>1, <1>2, <3>1, <3>5 DEF Negates
    <3> QED
      BY <3>1, <3>5, <3>6 DEF Negates
  <2>10. CASE \E i, l, r : Joins(c, e, f, t, m, i, l, r)
    <3>1. PICK i, l, r : Joins(c, e, f, t, m, i, l, r)
      BY <2>10
    <3>2. OpAtom(c, i) \in W /\ Dominates(W, OpAtom(c, i)) /\ i \in e..(f - 1)
      BY <2>4, <3>1 DEF Joins
    <3>3. ~Leaf(c, e, f, t, n)
      BY <2>2, <3>2
    <3>4. ASSUME NEW o, Negates(c, e, f, t, n, o)
          PROVE  FALSE
      <4>1. MinusAtom(e) \in W /\ Dominates(W, MinusAtom(e))
        BY <2>3, <3>4
      <4> HIDE DEF W
      <4> QED
        BY <2>5, <2>6, <3>2, <4>1, OneDominator
    <3>5. PICK j, u, v : Joins(c, e, f, t, n, j, u, v)
      BY <2>1, <3>3, <3>4
    <3>6. OpAtom(c, j) \in W /\ Dominates(W, OpAtom(c, j)) /\ j \in e..(f - 1)
      BY <2>4, <3>5 DEF Joins
    <3>7. i = j
      <4> HIDE DEF W
      <4> QED
        BY <2>5, <2>7, <3>2, <3>6, OneDominator
    <3>8. i \in 1..Len(c.neg) /\ i + 1 \in 1..Len(c.neg) /\ e <= i /\ i + 1 <= f
      BY <1>2, <3>1, JoinRoot
    <3>9. l \in Phrase(c, e, i, t) /\ u \in Phrase(c, e, i, t)
          /\ r \in Phrase(c, i + 1, f, TRUE) /\ v \in Phrase(c, i + 1, f, TRUE)
      BY <3>1, <3>5, <3>7 DEF Joins
    <3>10. <<<<e, i>>, t>> \in S /\ <<<<i + 1, f>>, TRUE>> \in S
      BY <1>2, <3>2
    <3>11. \A x, y \in Phrase(c, e, i, t) : x = y
      BY <1>1, <3>8, <3>10
    <3>12. \A x, y \in Phrase(c, i + 1, f, TRUE) : x = y
      BY <1>1, <1>2, <3>8, <3>10
    <3>13. l = u /\ r = v
      BY <3>9, <3>11, <3>12
    <3> QED
      BY <3>1, <3>5, <3>7, <3>13 DEF Joins
  <2> QED
    BY <2>1, <2>8, <2>9, <2>10
<1>3. <<<<a, b>>, s>> \in S
  BY <1>2, OverSpans
<1> QED
  BY <1>1, <1>3

-------------------------------------------------------------------------------
(* Chains that have no grouping *)

Alike(x, y) ==
    \/ x.fix.assoc = "left" /\ y.fix.assoc = "left"
    \/ x.fix.assoc = "right" /\ y.fix.assoc = "right"
Neighbours(W, x, y) ==
    /\ x.at < y.at /\ x.fix.prec = y.fix.prec
    /\ \A z \in W : x.at < z.at /\ z.at < y.at => x.fix.prec <= z.fix.prec
Peaceful(W) == \A x, y \in W : Neighbours(W, x, y) => Alike(x, y)

\* Around an operator that binds loosest there is peace if there is on its sides.
LEMMA PeaceJoin ==
    ASSUME NEW W, NEW R, NEW Wl, NEW Wr, Typed(W), Divides(W, R, Wl, Wr), Dominates(W, R),
           Peaceful(Wl), Peaceful(Wr)
    PROVE  Peaceful(W)
<1> SUFFICES ASSUME NEW x \in W, NEW y \in W, Neighbours(W, x, y)
             PROVE  Alike(x, y)
  BY DEF Peaceful
<1>1. W = Wl \cup {R} \cup Wr /\ (\A z \in Wl : z.at < R.at) /\ \A z \in Wr : R.at < z.at
  BY DEF Divides
<1>2. x.at \in Nat /\ y.at \in Nat /\ R.at \in Nat
      /\ x.fix.prec \in Nat /\ y.fix.prec \in Nat /\ R.fix.prec \in Nat
  BY <1>1 DEF Typed, AnyFixity
<1>3. x.at < y.at /\ x.fix.prec = y.fix.prec
      /\ \A z \in W : x.at < z.at /\ z.at < y.at => x.fix.prec <= z.fix.prec
  BY DEF Neighbours
<1>4. CASE x \in Wl /\ y \in Wl
  <2>1. Neighbours(Wl, x, y)
    BY <1>1, <1>3 DEF Neighbours
  <2> QED
    BY <1>4, <2>1 DEF Peaceful
<1>5. CASE x \in Wr /\ y \in Wr
  <2>1. Neighbours(Wr, x, y)
    BY <1>1, <1>3 DEF Neighbours
  <2> QED
    BY <1>5, <2>1 DEF Peaceful
<1>6. CASE ~(x \in Wl /\ y \in Wl) /\ ~(x \in Wr /\ y \in Wr)
  <2>1. (x \in Wl \/ x = R) /\ (y \in Wr \/ y = R)
    <3>1. x \notin Wr
      BY <1>1, <1>2, <1>3, <1>6
    <3>2. y \notin Wl
      BY <1>1, <1>2, <1>3, <1>6
    <3> QED
      BY <1>1, <3>1, <3>2
  <2>2. /\ R.fix.prec <= x.fix.prec
        /\ x.fix.prec = R.fix.prec => x = R \/ (x.at < R.at /\ x.fix.assoc = "left" /\ R.fix.assoc = "left")
                                            \/ R.at < x.at
        /\ y.fix.prec = R.fix.prec => y = R \/ (R.at < y.at /\ y.fix.assoc = "right" /\ R.fix.assoc = "right")
                                            \/ y.at < R.at
    BY DEF Dominates
  <2>3. CASE x = R
    BY <1>1, <1>2, <1>3, <2>1, <2>2, <2>3 DEF Alike
  <2>4. CASE x # R /\ y = R
    BY <1>1, <1>2, <1>3, <2>1, <2>2, <2>4 DEF Alike
  <2>5. CASE x # R /\ y # R
    <3>1. x.at < R.at /\ R.at < y.at
      BY <1>1, <2>1, <2>5
    <3>2. x.fix.prec = R.fix.prec
      BY <1>1, <1>2, <1>3, <2>2, <3>1
    <3> QED
      BY <1>2, <1>3, <2>2, <2>5, <3>1, <3>2
  <2> QED
    BY <2>3, <2>4, <2>5
<1> QED
  BY <1>4, <1>5, <1>6

\* Within a phrase, equals with nothing looser between them associate alike.
LEMMA PeacefulPhrase ==
    ASSUME NEW c, ChainOK(c), NEW a \in 1..Len(c.neg), NEW b \in 1..Len(c.neg), a <= b,
           NEW s \in BOOLEAN, NEW h \in Phrase(c, a, b, s)
    PROVE  Peaceful(Within(c, a, b, s))
<1> DEFINE S == {p \in Signings(c) : Phrases(c)[p] # {} => Peaceful(Within(c, p[1][1], p[1][2], p[2]))}
<1>1. \A e, f \in 1..Len(c.neg), t \in BOOLEAN :
         e <= f => (<<<<e, f>>, t>> \in S <=> (Phrase(c, e, f, t) # {} => Peaceful(Within(c, e, f, t))))
  BY SpanOf DEF Phrase
<1> HIDE DEF S
<1>2. ASSUME NEW e \in 1..Len(c.neg), NEW f \in 1..Len(c.neg), NEW t \in BOOLEAN, e <= f,
             \A i \in e..(f - 1) : <<<<e, i>>, t>> \in S /\ <<<<i + 1, f>>, TRUE>> \in S,
             t => <<<<e, f>>, FALSE>> \in S
      PROVE  <<<<e, f>>, t>> \in S
  <2> SUFFICES ASSUME NEW k \in Phrase(c, e, f, t)
               PROVE  Peaceful(Within(c, e, f, t))
    BY <1>1, <1>2
  <2>1. Typed(Within(c, e, f, t))
    BY WithinTyped
  <2>2. CASE Leaf(c, e, f, t, k)
    BY <2>2, LeafEmpty DEF Leaf, Peaceful
  <2>3. ASSUME NEW o, Negates(c, e, f, t, k, o)
        PROVE  Peaceful(Within(c, e, f, t))
    <3>1. /\ t = TRUE /\ o \in Phrase(c, e, f, FALSE)
          /\ Dominates(Within(c, e, f, t), MinusAtom(e))
          /\ Divides(Within(c, e, f, t), MinusAtom(e), {}, Within(c, e, f, FALSE))
      BY <1>2, <2>3, MinusRoot
    <3>2. Peaceful(Within(c, e, f, FALSE)) /\ Peaceful({})
      BY <1>1, <1>2, <3>1 DEF Peaceful
    <3> QED
      BY <2>1, <3>1, <3>2, PeaceJoin
  <2>4. ASSUME NEW i, NEW l, NEW r, Joins(c, e, f, t, k, i, l, r)
        PROVE  Peaceful(Within(c, e, f, t))
    <3>1. /\ i + 1 \in 1..Len(c.neg) /\ i \in 1..Len(c.neg)
          /\ i \in e..(f - 1) /\ e <= i /\ i + 1 <= f
          /\ Dominates(Within(c, e, f, t), OpAtom(c, i))
          /\ Divides(Within(c, e, f, t), OpAtom(c, i), Within(c, e, i, t), Within(c, i + 1, f, TRUE))
      BY <1>2, <2>4, JoinRoot
    <3>2. l \in Phrase(c, e, i, t) /\ r \in Phrase(c, i + 1, f, TRUE)
      BY <2>4 DEF Joins
    <3>3. Peaceful(Within(c, e, i, t)) /\ Peaceful(Within(c, i + 1, f, TRUE))
      BY <1>1, <1>2, <3>1, <3>2
    <3> QED
      BY <2>1, <3>1, <3>3, PeaceJoin
  <2> QED
    BY <1>2, <2>2, <2>3, <2>4, PhraseIs
<1>3. <<<<a, b>>, s>> \in S
  BY <1>2, OverSpans
<1> QED
  BY <1>1, <1>3

Loose(c, a, b) == \A i \in a..(b - 1) : c.neg[i + 1] => c.ops[i].prec < 6

\* Nothing that starts with a minus fits on the right of a tight operator.
LEMMA MinusTooLoose ==
    ASSUME NEW c, ChainOK(c), NEW a \in 1..Len(c.neg), NEW b \in 1..Len(c.neg), a <= b, c.neg[a],
           NEW r \in Phrase(c, a, b, TRUE), NEW f \in AnyFixity, Fits(r.root, f, "right")
    PROVE  f.prec < 6
<1> DEFINE W == Within(c, a, b, TRUE)
<1>1. r.root \in Roots /\ Lowest(W, r.root) /\ Typed(W)
  BY LowestRoot, WithinTyped
<1>2. MinusAtom(a) \in W
  BY WithinMinus DEF Divides
<1> HIDE DEF W
<1>3. r.root # Operand /\ r.root \in AnyFixity
  BY <1>1, <1>2 DEF Lowest, Roots
<1>4. PICK R \in W : R.fix = r.root /\ Dominates(W, R)
  BY <1>1, <1>3 DEF Lowest
<1>5. MinusAtom(a).fix.prec = 6 /\ MinusAtom(a).fix.assoc = "left" /\ MinusAtom(a).fix = Minus
  BY DEF MinusAtom, Minus
<1>6. /\ r.root.prec <= 6
      /\ 6 = r.root.prec => MinusAtom(a) = R \/ r.root.assoc = "left"
  BY <1>2, <1>4, <1>5 DEF Dominates
<1>7. r.root.prec \in Nat /\ f.prec \in Nat
  BY <1>3 DEF AnyFixity
<1>8. 6 = r.root.prec => r.root.assoc = "left"
  BY <1>4, <1>5, <1>6
<1>9. r.root.prec > f.prec \/ (r.root.prec = f.prec /\ r.root.assoc = "right")
  BY DEF Fits
<1> QED
  BY <1>6, <1>7, <1>8, <1>9

\* A span with a minus right under a tight operator has no phrase.
LEMMA UnderTight ==
    ASSUME NEW c, ChainOK(c), NEW a \in 1..Len(c.neg), NEW b \in 1..Len(c.neg), a <= b,
           NEW s \in BOOLEAN, NEW h \in Phrase(c, a, b, s)
    PROVE  Loose(c, a, b)
<1> DEFINE S == {p \in Signings(c) : Phrases(c)[p] # {} => Loose(c, p[1][1], p[1][2])}
<1>1. \A e, f \in 1..Len(c.neg), t \in BOOLEAN :
         e <= f => (<<<<e, f>>, t>> \in S <=> (Phrase(c, e, f, t) # {} => Loose(c, e, f)))
  BY SpanOf DEF Phrase
<1> HIDE DEF S
<1>2. ASSUME NEW e \in 1..Len(c.neg), NEW f \in 1..Len(c.neg), NEW t \in BOOLEAN, e <= f,
             \A i \in e..(f - 1) : <<<<e, i>>, t>> \in S /\ <<<<i + 1, f>>, TRUE>> \in S,
             t => <<<<e, f>>, FALSE>> \in S
      PROVE  <<<<e, f>>, t>> \in S
  <2> SUFFICES ASSUME NEW k \in Phrase(c, e, f, t)
               PROVE  Loose(c, e, f)
    BY <1>1, <1>2
  <2>1. CASE Leaf(c, e, f, t, k)
    BY <2>1, ChainIs DEF Leaf, Loose
  <2>2. ASSUME NEW o, Negates(c, e, f, t, k, o)
        PROVE  Loose(c, e, f)
    BY <1>1, <1>2, <2>2, MinusRoot
  <2>3. ASSUME NEW i, NEW l, NEW r, Joins(c, e, f, t, k, i, l, r)
        PROVE  Loose(c, e, f)
    <3>1. /\ i + 1 \in 1..Len(c.neg) /\ i \in 1..Len(c.neg) /\ i \in 1..Len(c.ops)
          /\ i \in e..(f - 1) /\ e <= i /\ i + 1 <= f
      BY <1>2, <2>3, ChainIs DEF Joins
    <3>2. l \in Phrase(c, e, i, t) /\ r \in Phrase(c, i + 1, f, TRUE) /\ Fits(r.root, c.ops[i], "right")
      BY <2>3 DEF Joins
    <3>3. Loose(c, e, i) /\ Loose(c, i + 1, f)
      BY <1>1, <1>2, <3>1, <3>2
    <3>4. c.neg[i + 1] => c.ops[i].prec < 6
      BY <3>1, <3>2, MinusTooLoose, ChainIs
    <3>5. \A j \in e..(f - 1) : j \in e..(i - 1) \/ j = i \/ j \in (i + 1)..(f - 1)
      BY <3>1
    <3> QED
      BY <3>3, <3>4, <3>5 DEF Loose
  <2> QED
    BY <1>2, <2>1, <2>2, <2>3, PhraseIs
<1>3. <<<<a, b>>, s>> \in S
  BY <1>2, OverSpans
<1> QED
  BY <1>1, <1>3

\* A clash of neighbours leaves a chain without a grouping.
LEMMA Clash ==
    ASSUME NEW c, ChainOK(c), NEW x \in Atoms(c), NEW y \in Atoms(c),
           Neighbours(Atoms(c), x, y), ~Alike(x, y)
    PROVE  Groupings(c) = {}
<1>1. Groupings(c) = Phrase(c, 1, Len(c.neg), TRUE)
  BY DEF Groupings, Phrase
<1>2. Len(c.neg) \in Nat /\ 1 \in 1..Len(c.neg) /\ Len(c.neg) \in 1..Len(c.neg)
  BY ChainIs
<1>3. Within(c, 1, Len(c.neg), TRUE) \subseteq Atoms(c)
  BY DEF Within
<1>4. x \in Within(c, 1, Len(c.neg), TRUE) /\ y \in Within(c, 1, Len(c.neg), TRUE)
  <2>1. \A i \in 1..Len(c.ops) : 1 <= 2 * i /\ 2 * i <= 2 * Len(c.neg) - 1
    BY ChainIs
  <2>2. \A k \in 1..Len(c.neg) : 1 <= 2 * k - 1 /\ 2 * k - 1 <= 2 * Len(c.neg) - 1
    BY ChainIs
  <2>3. \A z \in Atoms(c) : 1 <= z.at /\ z.at <= 2 * Len(c.neg) - 1
    BY <2>1, <2>2 DEF Atoms, OpAtom, MinusAtom
  <2> QED
    BY <1>2, <2>3 DEF Within, First
<1>5. Neighbours(Within(c, 1, Len(c.neg), TRUE), x, y)
  BY <1>3 DEF Neighbours
<1>6. ~Peaceful(Within(c, 1, Len(c.neg), TRUE))
  BY <1>4, <1>5 DEF Peaceful
<1>7. ASSUME NEW h \in Groupings(c)
      PROVE  FALSE
  <2>1. h \in Phrase(c, 1, Len(c.neg), TRUE)
    BY <1>1, Zenon
  <2>2. 1 <= Len(c.neg)
    BY <1>2
  <2>3. Peaceful(Within(c, 1, Len(c.neg), TRUE))
    BY <1>2, <2>1, <2>2, PeacefulPhrase, Zenon
  <2> QED
    BY <1>6, <2>3
<1> QED
  BY <1>7

\* What stands in a phrase binds at least as tight as what the phrase fits.
LEMMA NoLooser ==
    ASSUME NEW c, ChainOK(c), NEW a \in 1..Len(c.neg), NEW b \in 1..Len(c.neg), a <= b,
           NEW s \in BOOLEAN, NEW h \in Phrase(c, a, b, s), NEW m \in Nat,
           h.root # Operand => m <= h.root.prec, NEW x \in Within(c, a, b, s)
    PROVE  m <= x.fix.prec
<1>1. h.root \in Roots /\ Lowest(Within(c, a, b, s), h.root) /\ Typed(Within(c, a, b, s))
  BY LowestRoot, WithinTyped
<1>2. h.root # Operand /\ h.root \in AnyFixity
  BY <1>1 DEF Lowest, Roots
<1>3. PICK R \in Within(c, a, b, s) : R.fix = h.root /\ Dominates(Within(c, a, b, s), R)
  BY <1>1, <1>2 DEF Lowest
<1>4. h.root.prec <= x.fix.prec /\ x.fix.prec \in Nat /\ h.root.prec \in Nat
  BY <1>1, <1>2, <1>3 DEF Dominates, Typed, AnyFixity
<1> QED
  BY <1>2, <1>4

\* An operator that meets its equal across a phrase, not chained with it, clashes.
LEMMA MixedClash ==
    ASSUME NEW c, ChainOK(c), NEW p \in 1..Len(c.ops), NEW q \in 1..Len(c.ops), p < q,
           NEW h \in Phrase(c, p + 1, q, TRUE), Fits(h.root, c.ops[p], "right"),
           c.ops[p].prec = c.ops[q].prec,
           ~(c.ops[p].assoc = "left" /\ c.ops[q].assoc = "left"),
           ~(c.ops[p].assoc = "right" /\ c.ops[q].assoc = "right")
    PROVE  Groupings(c) = {}
<1>1. OpAtom(c, p) \in Atoms(c) /\ OpAtom(c, q) \in Atoms(c)
  BY DEF Atoms
<1>2. /\ p \in Int /\ q \in Int /\ p + 1 \in 1..Len(c.neg) /\ q \in 1..Len(c.neg) /\ p + 1 <= q
      /\ c.ops[p].prec \in Nat
  BY ChainIs DEF AnyFixity
<1>3. ASSUME NEW z \in Atoms(c), 2 * p < z.at, z.at < 2 * q
      PROVE  c.ops[p].prec <= z.fix.prec
  <2>1. z.at \in Nat
    BY AtomsAre DEF Typed
  <2>2. 2 * (p + 1) - 1 <= z.at /\ z.at <= 2 * q - 1
    BY <1>2, <1>3, <2>1
  <2>3. z \in Within(c, p + 1, q, TRUE)
    BY <2>2 DEF Within, First
  <2>4. h.root # Operand => c.ops[p].prec <= h.root.prec
    <3>1. h.root \in Roots
      BY <1>2, LowestRoot
    <3> QED
      BY <1>2, <3>1 DEF Fits, Roots, AnyFixity
  <2> QED
    BY <1>2, <2>3, <2>4, NoLooser
<1>4. Neighbours(Atoms(c), OpAtom(c, p), OpAtom(c, q))
  BY <1>2, <1>3 DEF Neighbours, OpAtom
<1>5. ~Alike(OpAtom(c, p), OpAtom(c, q))
  BY DEF Alike, OpAtom
<1> QED
  BY <1>1, <1>4, <1>5, Clash

\* A minus that meets an operator as tight that is not left associative clashes.
LEMMA MinusClash ==
    ASSUME NEW c, ChainOK(c), NEW a \in 1..Len(c.neg), NEW q \in 1..Len(c.ops), a <= q, c.neg[a],
           NEW h \in Phrase(c, a, q, TRUE), h.root = Minus,
           c.ops[q].prec = 6, c.ops[q].assoc # "left"
    PROVE  Groupings(c) = {}
<1>1. MinusAtom(a) \in Atoms(c) /\ OpAtom(c, q) \in Atoms(c)
  BY DEF Atoms
<1>2. a \in Int /\ q \in Int /\ q \in 1..Len(c.neg)
  BY ChainIs
<1>3. ASSUME NEW z \in Atoms(c), 2 * a - 1 < z.at, z.at < 2 * q
      PROVE  6 <= z.fix.prec
  <2>1. z.at \in Nat
    BY AtomsAre DEF Typed
  <2>2. 2 * a - 1 <= z.at /\ z.at <= 2 * q - 1
    BY <1>2, <1>3, <2>1
  <2>3. z \in Within(c, a, q, TRUE)
    BY <2>2 DEF Within, First
  <2>4. PICK m \in Nat : m = 6
    OBVIOUS
  <2>5. h.root # Operand => m <= h.root.prec
    BY <2>4 DEF Minus
  <2>6. m <= z.fix.prec
    BY <1>2, <2>3, <2>5, NoLooser
  <2> QED
    BY <2>4, <2>6
<1>4. Neighbours(Atoms(c), MinusAtom(a), OpAtom(c, q))
  BY <1>2, <1>3 DEF Neighbours, OpAtom, MinusAtom, Minus
<1>5. ~Alike(MinusAtom(a), OpAtom(c, q))
  BY DEF Alike, OpAtom, MinusAtom, Minus
<1> QED
  BY <1>1, <1>4, <1>5, Clash

-------------------------------------------------------------------------------
(* Phrases in progress *)

Bare == [root |-> Operand, nodes |-> {}]

\* An operand is a phrase,
LEMMA LeafPhrase ==
    ASSUME NEW c, ChainOK(c), NEW a \in 1..Len(c.neg), NEW s \in BOOLEAN, ~(s /\ c.neg[a])
    PROVE  Bare \in Phrase(c, a, a, s)
<1>1. Leaf(c, a, a, s, Bare)
  BY DEF Leaf, Bare
<1>2. a <= a
  BY ChainIs
<1> QED
  BY <1>1, <1>2, PhraseIs

\* ... a minus over a phrase that fits it,
LEMMA MinusPhrase ==
    ASSUME NEW c, ChainOK(c), NEW a \in 1..Len(c.neg), NEW b \in 1..Len(c.neg), a <= b, c.neg[a],
           NEW k \in Phrase(c, a, b, FALSE), Fits(k.root, Minus, "right")
    PROVE  [root |-> Minus, nodes |-> k.nodes \cup {MinusNode(a, b)}] \in Phrase(c, a, b, TRUE)
<1>1. PICK h : h = [root |-> Minus, nodes |-> k.nodes \cup {MinusNode(a, b)}]
  OBVIOUS
<1>2. Negates(c, a, b, TRUE, h, k)
  BY <1>1 DEF Negates
<1> QED
  BY <1>1, <1>2, PhraseIs

\* ... and an operator between two that fit it.
LEMMA JoinPhrase ==
    ASSUME NEW c, ChainOK(c), NEW a \in 1..Len(c.neg), NEW b \in 1..Len(c.neg), a <= b,
           NEW s \in BOOLEAN, NEW i \in a..(b - 1),
           NEW l \in Phrase(c, a, i, s), NEW r \in Phrase(c, i + 1, b, TRUE),
           Fits(l.root, c.ops[i], "left"), Fits(r.root, c.ops[i], "right")
    PROVE  [root |-> c.ops[i], nodes |-> l.nodes \cup r.nodes \cup {OpNode(i, a, b)}] \in Phrase(c, a, b, s)
<1>1. PICK h : h = [root |-> c.ops[i], nodes |-> l.nodes \cup r.nodes \cup {OpNode(i, a, b)}]
  OBVIOUS
<1>2. Joins(c, a, b, s, h, i, l, r)
  BY <1>1 DEF Joins
<1> QED
  BY <1>1, <1>2, PhraseIs

-------------------------------------------------------------------------------
(* The levels at work *)

Levels(c) ==
    [kind : {"whole", "rhs", "minus"}, from : 1..(Len(c.ops) + 1), min : 0..20,
     parent : 0..Len(c.ops), negated : BOOLEAN, last : 0..Len(c.ops)]

\* What a level has read, and the nodes of it and of the levels below.
Works == [read : AnyPhrase, all : SUBSET Nodes]

Signed(F) == F.kind # "minus"
RootOf(c, F) == IF F.negated THEN Minus ELSE IF F.last # 0 THEN c.ops[F.last] ELSE Operand

\* An operator may stand at the root of what a level is to return.
Suits(c, f, F) ==
    /\ F.kind = "rhs" => Fits(f, c.ops[F.parent], "right")
    /\ F.kind = "minus" => Fits(f, Minus, "right")

\* A level and the one that entered it.
Link(c, F, B, w, v) ==
    /\ F.kind \in {"rhs", "minus"}
    /\ w.all = w.read.nodes \cup v.all
    /\ F.kind = "rhs" =>
          /\ F.parent \in 1..Len(c.ops) /\ F.from = F.parent + 1 /\ B.from <= F.parent
          /\ F.min = Right(c.ops[F.parent])
          /\ v.read \in Phrase(c, B.from, F.parent, Signed(B))
          /\ Fits(v.read.root, c.ops[F.parent], "left")
          /\ Suits(c, c.ops[F.parent], B)
    /\ F.kind = "minus" =>
          /\ F.parent = 0 /\ F.from = B.from /\ c.neg[F.from] /\ F.min = 14
          /\ Signed(B) /\ B.last = 0 /\ v.read = Bare /\ Suits(c, Minus, B)

Outermost(F, w) ==
    F.kind = "whole" /\ F.from = 1 /\ F.min = 0 /\ F.parent = 0 /\ w.all = w.read.nodes

Linked(c, frs, ws) ==
    /\ frs \in Seq(Levels(c)) /\ ws \in Seq(Works) /\ Len(ws) = Len(frs) /\ Len(frs) >= 1
    /\ \A i \in 1..(Len(frs) - 1) : Link(c, frs[i], frs[i + 1], ws[i], ws[i + 1])
    /\ Outermost(frs[Len(frs)], ws[Len(frs)])

\* Of two levels one entered for its right operand, the inner one's comes later.
Nested(frs, next) ==
    /\ \A i \in 1..Len(frs) : frs[i].parent < next
    /\ \A i, j \in 1..Len(frs) : i < j /\ frs[i].kind = "rhs" /\ frs[j].kind = "rhs"
                                 => frs[j].parent < frs[i].parent

InFront(S, x, s, t) ==
    /\ t \in Seq(S) /\ Len(t) = Len(s) + 1 /\ t[1] = x /\ Head(t) = x
    /\ \A i \in 1..Len(s) : t[i + 1] = s[i]
InPlaceOfTwo(S, x, s, t) ==
    /\ t \in Seq(S) /\ Len(t) = Len(s) - 1 /\ t[1] = x /\ Head(t) = x
    /\ \A i \in 2..(Len(s) - 1) : t[i] = s[i + 1]

\* A sequence with one element put in front ...
LEMMA Pushed ==
    ASSUME NEW S, NEW s \in Seq(S), NEW x \in S, NEW t, t = <<x>> \o s
    PROVE  InFront(S, x, s, t)
BY DEF InFront

\* ... and with one element in place of its first two.
LEMMA Popped ==
    ASSUME NEW S, NEW s \in Seq(S), Len(s) >= 2, NEW x \in S, NEW t, t = <<x>> \o Tail(Tail(s))
    PROVE  InPlaceOfTwo(S, x, s, t)
<1>1. PICK u : u = Tail(s)
  OBVIOUS
<1>2. u \in Seq(S) /\ Len(u) = Len(s) - 1 /\ \A i \in 1..(Len(s) - 1) : u[i] = s[i + 1]
  <2>1. s # <<>>
    OBVIOUS
  <2> QED
    BY <1>1, <2>1
<1>3. PICK r : r = Tail(u)
  OBVIOUS
<1>4. r \in Seq(S) /\ Len(r) = Len(s) - 2 /\ \A i \in 1..(Len(s) - 2) : r[i] = u[i + 1]
  <2>1. u # <<>>
    BY <1>2
  <2> QED
    BY <1>2, <1>3, <2>1
<1>5. t = <<x>> \o r
  BY <1>1, <1>3
<1>6. t \in Seq(S) /\ Len(t) = Len(r) + 1 /\ t[1] = x /\ Head(t) = x /\ \A i \in 1..Len(r) : t[i + 1] = r[i]
  <2>1. r \in Seq(S)
    BY <1>4
  <2>2. InFront(S, x, r, t)
    BY <2>1, <1>5, Pushed
  <2> QED
    BY <2>2 DEF InFront
<1>7. ASSUME NEW i \in 2..(Len(s) - 1)
      PROVE  t[i] = s[i + 1]
  <2>1. PICK j : j = i - 1
    OBVIOUS
  <2>2. j \in 1..Len(r) /\ j \in 1..(Len(s) - 2) /\ j + 1 = i /\ i \in 1..(Len(s) - 1)
    BY <1>4, <2>1
  <2>3. t[j + 1] = r[j] /\ r[j] = u[j + 1] /\ u[i] = s[i + 1]
    BY <1>2, <1>4, <1>6, <2>2
  <2> QED
    BY <2>2, <2>3
<1> QED
  BY <1>4, <1>6, <1>7 DEF InPlaceOfTwo

\* A level is entered.
LEMMA Entered ==
    ASSUME NEW c, NEW frs, NEW ws, Linked(c, frs, ws), NEW F \in Levels(c), NEW w \in Works,
           Link(c, F, frs[1], w, ws[1]), NEW g, g = <<F>> \o frs, NEW v, v = <<w>> \o ws
    PROVE  Linked(c, g, v)
<1>1. /\ frs \in Seq(Levels(c)) /\ ws \in Seq(Works) /\ Len(ws) = Len(frs) /\ Len(frs) >= 1
      /\ Len(frs) \in Nat
      /\ \A i \in 1..(Len(frs) - 1) : Link(c, frs[i], frs[i + 1], ws[i], ws[i + 1])
      /\ Outermost(frs[Len(frs)], ws[Len(frs)])
  BY DEF Linked
<1>2. InFront(Levels(c), F, frs, g) /\ InFront(Works, w, ws, v)
  BY <1>1, Pushed
<1>3. /\ g \in Seq(Levels(c)) /\ Len(g) = Len(frs) + 1 /\ g[1] = F
      /\ \A i \in 1..Len(frs) : g[i + 1] = frs[i]
      /\ v \in Seq(Works) /\ Len(v) = Len(ws) + 1 /\ v[1] = w
      /\ \A i \in 1..Len(ws) : v[i + 1] = ws[i]
  BY <1>2 DEF InFront
<1>4. Outermost(g[Len(g)], v[Len(g)])
  BY <1>1, <1>3
<1>5. ASSUME NEW i \in 1..(Len(g) - 1)
      PROVE  Link(c, g[i], g[i + 1], v[i], v[i + 1])
  <2>1. CASE i = 1
    <3>1. g[i] = F /\ v[i] = w /\ g[i + 1] = frs[1] /\ v[i + 1] = ws[1]
      BY <1>1, <1>3, <2>1
    <3> QED
      BY <3>1
  <2>2. CASE i # 1
    <3>1. PICK j : j = i - 1
      OBVIOUS
    <3>2. j \in 1..(Len(frs) - 1) /\ j + 1 = i /\ j \in 1..Len(frs) /\ j + 1 \in 1..Len(frs)
      BY <1>1, <1>3, <2>2, <3>1
    <3>3. g[i] = frs[j] /\ v[i] = ws[j] /\ g[i + 1] = frs[j + 1] /\ v[i + 1] = ws[j + 1]
      BY <1>1, <1>3, <3>2
    <3> QED
      BY <1>1, <3>2, <3>3
  <2> QED
    BY <2>1, <2>2
<1>6. g \in Seq(Levels(c)) /\ v \in Seq(Works) /\ Len(v) = Len(g) /\ Len(g) >= 1
  BY <1>1, <1>3
<1> QED
  BY <1>4, <1>5, <1>6 DEF Linked

SameLevel(F, G) == F.kind = G.kind /\ F.from = G.from /\ F.min = G.min /\ F.parent = G.parent

\* A level returns a node to the one below.
LEMMA Returned ==
    ASSUME NEW c, NEW frs, NEW ws, Linked(c, frs, ws), Len(frs) >= 2,
           NEW G \in Levels(c), SameLevel(frs[2], G), NEW u \in Works, NEW nd,
           u.read.nodes = ws[2].read.nodes \cup ws[1].read.nodes \cup {nd},
           u.all = ws[1].all \cup {nd},
           NEW g, g = <<G>> \o Tail(Tail(frs)), NEW v, v = <<u>> \o Tail(Tail(ws))
    PROVE  Linked(c, g, v)
<1>1. /\ frs \in Seq(Levels(c)) /\ ws \in Seq(Works) /\ Len(ws) = Len(frs) /\ Len(frs) >= 2
      /\ Len(frs) \in Nat
      /\ \A i \in 1..(Len(frs) - 1) : Link(c, frs[i], frs[i + 1], ws[i], ws[i + 1])
      /\ Outermost(frs[Len(frs)], ws[Len(frs)])
  BY DEF Linked
<1>2. InPlaceOfTwo(Levels(c), G, frs, g)
  BY <1>1, Popped
<1>3. InPlaceOfTwo(Works, u, ws, v)
  BY <1>1, Popped
<1>4. /\ g \in Seq(Levels(c)) /\ Len(g) = Len(frs) - 1 /\ g[1] = G
      /\ \A i \in 2..(Len(frs) - 1) : g[i] = frs[i + 1]
      /\ v \in Seq(Works) /\ Len(v) = Len(frs) - 1 /\ v[1] = u
      /\ \A i \in 2..(Len(frs) - 1) : v[i] = ws[i + 1]
  BY <1>1, <1>2, <1>3 DEF InPlaceOfTwo
<1>5. Link(c, frs[1], frs[2], ws[1], ws[2])
  BY <1>1
<1>6. \A x : ws[2].all = ws[2].read.nodes \cup x => u.all = u.read.nodes \cup x
  <2>1. ws[1].all = ws[1].read.nodes \cup ws[2].all
    BY <1>5 DEF Link
  <2> QED
    BY <2>1, Zenon
<1>9. Len(frs) \in Nat /\ Len(frs) >= 2 /\ Len(g) = Len(frs) - 1
  BY <1>1, <1>4
<1>7. Outermost(g[Len(g)], v[Len(g)])
  <2>1. CASE Len(frs) = 2
    <3>1. g[Len(g)] = G /\ v[Len(g)] = u /\ Outermost(frs[2], ws[2])
      BY <1>1, <1>4, <2>1
    <3>2. ws[2].all = ws[2].read.nodes
      BY <3>1 DEF Outermost
    <3>3. u.all = u.read.nodes
      BY <1>6, <3>2, ws[2].all = ws[2].read.nodes \cup {}
    <3> QED
      BY <3>1, <3>3 DEF Outermost, SameLevel
  <2>2. CASE Len(frs) # 2
    <3>1. PICK k : k = Len(frs) - 1
      OBVIOUS
    <3>2. k \in 2..(Len(frs) - 1) /\ k + 1 = Len(frs) /\ k = Len(g)
      BY <1>9, <2>2, <3>1
    <3>3. g[k] = frs[k + 1] /\ v[k] = ws[k + 1]
      BY <1>4, <3>2
    <3> QED
      BY <1>1, <3>2, <3>3
  <2> QED
    BY <2>1, <2>2
<1>8. ASSUME NEW i \in 1..(Len(g) - 1)
      PROVE  Link(c, g[i], g[i + 1], v[i], v[i + 1])
  <2>1. CASE i = 1
    <3>1. g[i] = G /\ v[i] = u /\ g[i + 1] = frs[3] /\ v[i + 1] = ws[3]
      BY <1>1, <1>4, <2>1
    <3>2. 2 \in 1..(Len(frs) - 1) /\ 2 + 1 = 3
      BY <1>1, <1>4, <2>1
    <3>3. Link(c, frs[2], frs[3], ws[2], ws[3])
      BY <1>1, <3>2
    <3>4. u.all = u.read.nodes \cup ws[3].all
      BY <1>6, <3>3 DEF Link
    <3>5. Link(c, G, frs[3], u, ws[3])
      BY <3>3, <3>4 DEF Link, SameLevel
    <3> QED
      BY <3>1, <3>5
  <2>2. CASE i # 1
    <3>1. PICK j : j = i + 1
      OBVIOUS
    <3>2. j \in 1..(Len(frs) - 1) /\ i + 1 = j /\ i \in 2..(Len(frs) - 1) /\ j \in 2..(Len(frs) - 1)
      BY <1>9, <2>2, <3>1
    <3>3. g[i] = frs[j] /\ v[i] = ws[j] /\ g[i + 1] = frs[j + 1] /\ v[i + 1] = ws[j + 1]
      BY <1>1, <1>4, <3>2
    <3> QED
      BY <1>1, <3>2, <3>3
  <2> QED
    BY <2>1, <2>2
<1>10. g \in Seq(Levels(c)) /\ v \in Seq(Works) /\ Len(v) = Len(g) /\ Len(g) >= 1
  <2>1. g \in Seq(Levels(c)) /\ v \in Seq(Works) /\ Len(v) = Len(g)
    BY <1>4
  <2>2. Len(g) >= 1
    BY <1>9
  <2> QED
    BY <2>1, <2>2
<1> QED
  BY <1>7, <1>8, <1>10 DEF Linked

\* Entering a level keeps the levels nested ...
LEMMA NestedEntered ==
    ASSUME NEW c, ChainOK(c), NEW frs \in Seq(Levels(c)), NEW next \in Nat, Nested(frs, next),
           NEW F \in Levels(c), NEW later \in Nat, F.parent < later, next <= later,
           F.kind = "rhs" => F.parent = next, NEW g, g = <<F>> \o frs
    PROVE  Nested(g, later)
<1>1. InFront(Levels(c), F, frs, g)
  BY Pushed
<1>2. g \in Seq(Levels(c)) /\ Len(g) = Len(frs) + 1 /\ g[1] = F /\ \A i \in 1..Len(frs) : g[i + 1] = frs[i]
  BY <1>1 DEF InFront
<1>3. Len(frs) \in Nat /\ \A i \in 1..Len(frs) : frs[i].parent \in Nat /\ frs[i].parent < next
  <2>1. \A i \in 1..Len(frs) : frs[i] \in Levels(c)
    OBVIOUS
  <2>2. \A G \in Levels(c) : G.parent \in Nat
    BY ChainIs DEF Levels
  <2> QED
    BY <2>1, <2>2 DEF Nested
<1>4. \A i, j \in 1..Len(frs) : i < j /\ frs[i].kind = "rhs" /\ frs[j].kind = "rhs" => frs[j].parent < frs[i].parent
  BY DEF Nested
<1>5. ASSUME NEW i \in 1..Len(g), i # 1
      PROVE  i - 1 \in 1..Len(frs) /\ g[i] = frs[i - 1]
  <2>1. PICK j : j = i - 1
    OBVIOUS
  <2>2. j \in 1..Len(frs) /\ j + 1 = i
    BY <1>2, <1>3, <1>5, <2>1
  <2> QED
    BY <1>2, <2>1, <2>2
<1>6. ASSUME NEW i \in 1..Len(g)
      PROVE  g[i].parent < later
  <2>1. CASE i = 1
    BY <1>2, <2>1
  <2>2. CASE i # 1
    <3>1. PICK j \in 1..Len(frs) : g[i] = frs[j]
      BY <1>5, <2>2
    <3> QED
      BY <1>3, <3>1
  <2> QED
    BY <2>1, <2>2
<1>7. ASSUME NEW i \in 1..Len(g), NEW j \in 1..Len(g), i < j, g[i].kind = "rhs", g[j].kind = "rhs"
      PROVE  g[j].parent < g[i].parent
  <2>1. j # 1 /\ j - 1 \in 1..Len(frs) /\ g[j] = frs[j - 1]
    BY <1>5, <1>7
  <2>2. CASE i = 1
    BY <1>2, <1>3, <1>7, <2>1, <2>2
  <2>3. CASE i # 1
    <3>1. i - 1 \in 1..Len(frs) /\ g[i] = frs[i - 1] /\ i - 1 < j - 1
      BY <1>5, <1>7, <2>3
    <3> QED
      BY <1>4, <1>7, <2>1, <3>1
  <2> QED
    BY <2>2, <2>3
<1> QED
  BY <1>6, <1>7 DEF Nested

\* ... and so does leaving one.
LEMMA NestedReturned ==
    ASSUME NEW c, NEW frs \in Seq(Levels(c)), Len(frs) >= 2, NEW next \in Nat, Nested(frs, next),
           NEW G \in Levels(c), SameLevel(frs[2], G), NEW g, g = <<G>> \o Tail(Tail(frs))
    PROVE  Nested(g, next)
<1>1. InPlaceOfTwo(Levels(c), G, frs, g)
  BY Popped
<1>2. g \in Seq(Levels(c)) /\ Len(g) = Len(frs) - 1 /\ g[1] = G /\ \A i \in 2..(Len(frs) - 1) : g[i] = frs[i + 1]
  BY <1>1 DEF InPlaceOfTwo
<1>3. Len(frs) \in Nat /\ \A i \in 1..Len(frs) : frs[i].parent < next
  BY DEF Nested
<1>4. \A i, j \in 1..Len(frs) : i < j /\ frs[i].kind = "rhs" /\ frs[j].kind = "rhs" => frs[j].parent < frs[i].parent
  BY DEF Nested
<1>5. ASSUME NEW i \in 1..Len(g)
      PROVE  i + 1 \in 1..Len(frs) /\ g[i].kind = frs[i + 1].kind /\ g[i].parent = frs[i + 1].parent
  <2>1. CASE i = 1
    BY <1>2, <1>3, <2>1 DEF SameLevel
  <2>2. CASE i # 1
    BY <1>2, <1>3, <2>2
  <2> QED
    BY <2>1, <2>2
<1>6. \A i \in 1..Len(g) : g[i].parent < next
  BY <1>3, <1>5
<1>7. ASSUME NEW i \in 1..Len(g), NEW j \in 1..Len(g), i < j, g[i].kind = "rhs", g[j].kind = "rhs"
      PROVE  g[j].parent < g[i].parent
  <2>1. /\ i + 1 \in 1..Len(frs) /\ g[i].kind = frs[i + 1].kind /\ g[i].parent = frs[i + 1].parent
        /\ j + 1 \in 1..Len(frs) /\ g[j].kind = frs[j + 1].kind /\ g[j].parent = frs[j + 1].parent
    BY <1>5
  <2>2. i + 1 < j + 1
    BY <1>7
  <2> QED
    BY <1>4, <1>7, <2>1, <2>2
<1> QED
  BY <1>6, <1>7 DEF Nested

\* So there are fewer than operators taken.
LEMMA DepthBound ==
    ASSUME NEW c, ChainOK(c), NEW frs \in Seq(Levels(c)), NEW next \in Nat \ {0}, Nested(frs, next),
           \A i \in 1..Len(frs) : frs[i].kind = "rhs" => frs[i].parent # 0
    PROVE  /\ Cardinality({i \in DOMAIN frs : frs[i].kind = "rhs"}) \in Nat
           /\ Cardinality({i \in DOMAIN frs : frs[i].kind = "rhs"}) < next
<1>1. PICK T : T = {i \in 1..Len(frs) : frs[i].kind = "rhs"}
  OBVIOUS
<1>2. PICK m \in Nat : m = next - 1
  OBVIOUS
<1>3. PICK f : f = [i \in T |-> frs[i].parent]
  OBVIOUS
<1>4. \A i \in 1..Len(frs) : frs[i].parent \in Nat
  <2>1. \A i \in 1..Len(frs) : frs[i] \in Levels(c)
    OBVIOUS
  <2>2. \A G \in Levels(c) : G.parent \in Nat
    BY ChainIs DEF Levels
  <2> QED
    BY <2>1, <2>2
<1>5. f \in [T -> 1..m]
  BY <1>1, <1>2, <1>3, <1>4 DEF Nested
<1>6. ASSUME NEW i \in T, NEW j \in T, f[i] = f[j]
      PROVE  i = j
  <2>1. i \in Nat /\ j \in Nat /\ f[i] = frs[i].parent /\ f[j] = frs[j].parent /\ f[i] \in Nat
    BY <1>1, <1>3, <1>4
  <2>2. i < j => f[j] < f[i]
    BY <1>1, <2>1 DEF Nested
  <2>3. j < i => f[i] < f[j]
    BY <1>1, <2>1 DEF Nested
  <2> QED
    BY <1>6, <2>1, <2>2, <2>3
<1>7. f \in Injection(T, 1..m)
  BY <1>5, <1>6 DEF Injection, IsInjective
<1>8. IsFiniteSet(1..m) /\ Cardinality(1..m) = m
  BY <1>2, FS_Interval
<1>9. Cardinality(T) <= m /\ IsFiniteSet(T)
  BY <1>7, <1>8, FS_Injection
<1>10. Cardinality(T) \in Nat
  BY <1>9, FS_CardinalityType
<1>11. T = {i \in DOMAIN frs : frs[i].kind = "rhs"}
  BY <1>1
<1> QED
  BY <1>2, <1>9, <1>10, <1>11

\* The innermost level is the outermost one or was entered by the one below.
LEMMA Innermost ==
    ASSUME NEW c, NEW frs, NEW ws, Linked(c, frs, ws)
    PROVE  /\ frs # <<>> /\ Head(frs) = frs[1] /\ frs[1] \in Levels(c) /\ ws[1] \in Works
           /\ frs[1].kind = "whole" => Len(frs) = 1 /\ Outermost(frs[1], ws[1])
           /\ frs[1].kind # "whole" =>
                 /\ Len(frs) >= 2 /\ frs[2] \in Levels(c) /\ ws[2] \in Works
                 /\ Link(c, frs[1], frs[2], ws[1], ws[2])
<1>1. /\ frs \in Seq(Levels(c)) /\ ws \in Seq(Works) /\ Len(ws) = Len(frs) /\ Len(frs) >= 1
      /\ Len(frs) \in Nat
  BY DEF Linked
<1>2. frs # <<>> /\ Head(frs) = frs[1] /\ frs[1] \in Levels(c) /\ ws[1] \in Works
  BY <1>1
<1>3. CASE Len(frs) = 1
  <2>1. Outermost(frs[1], ws[1])
    BY <1>3 DEF Linked
  <2> QED
    BY <1>2, <1>3, <2>1 DEF Outermost
<1>4. CASE Len(frs) # 1
  <2>1. 1 \in 1..(Len(frs) - 1) /\ 1 + 1 = 2 /\ Len(frs) >= 2
    BY <1>1, <1>4
  <2>2. Link(c, frs[1], frs[2], ws[1], ws[2])
    BY <2>1 DEF Linked
  <2>3. frs[2] \in Levels(c) /\ ws[2] \in Works
    BY <1>1, <2>1
  <2> QED
    BY <1>2, <2>1, <2>2, <2>3 DEF Link
<1> QED
  BY <1>3, <1>4

Reading(F, w, next) ==
    Signed(F) /\ F.from = next /\ ~F.negated /\ F.last = 0 /\ w.read = Bare
Holding(c, F, w, next) ==
    /\ F.from <= next /\ w.read \in Phrase(c, F.from, next, Signed(F))
    /\ w.read.root = RootOf(c, F) /\ Suits(c, RootOf(c, F), F)
    /\ F.negated => F.last = 0 /\ Signed(F) /\ c.neg[F.from]
    /\ next <= Len(c.ops) => /\ F.negated => c.ops[next].prec <= 6
                             /\ F.last # 0 => Fits(c.ops[F.last], c.ops[next], "left")

Working(c, frs, ws, next, nds) == Linked(c, frs, ws) /\ Nested(frs, next) /\ ws[1].all = nds

RootAt(c, F) == IF F.last # 0 THEN c.ops[F.last] ELSE Minus
Whole(c, frs, nds) ==
    /\ Len(frs) = 1
    /\ \E h \in Groupings(c) : h.nodes = nds /\ h.root = RootAt(c, Head(frs))

ChainNodes(c) == {x \in Nodes : x.from \in 1..(Len(c.ops) + 1) /\ x.to \in 1..(Len(c.ops) + 1)}

Given ==
    /\ ChainOK(chain) /\ (N = 0 => chain.neg[1])
    /\ use.side \in {"expr", "left", "right"} /\ (use.side # "expr" => use.op \in AnyFixity)
Cursors ==
    /\ status \in {"start", "prefix", "continue", "grouped", "accepted", "minus_rhs",
                   "minus_lhs", "conflict", "too_deep", "section"}
    /\ nextOp \in 1..(N + 1)
    /\ operand = (IF status \in {"start", "prefix"} \/ status = "minus_rhs" THEN nextOp ELSE nextOp + 1)
    /\ status \in {"grouped", "accepted", "section"} => nextOp = N + 1
Filled == frames \in Seq(Levels(chain)) /\ nodes \in SUBSET ChainNodes(chain)
Reached ==
    /\ status = "start" => nextOp = 1 /\ frames = <<>> /\ nodes = {}
    /\ status = "prefix" => \E ws : /\ Working(chain, frames, ws, nextOp, nodes)
                                    /\ Reading(frames[1], ws[1], nextOp)
    /\ status = "continue" => \E ws : /\ Working(chain, frames, ws, nextOp, nodes)
                                      /\ Holding(chain, frames[1], ws[1], nextOp)
    /\ status \in {"grouped", "accepted", "section"} => Whole(chain, frames, nodes)
    /\ status \in {"minus_lhs", "conflict"} => Groupings(chain) = {}
    /\ status = "minus_rhs" => IF frames = <<>>
                               THEN use.side = "right" /\ chain.neg[1] /\ MinusUnder(use.op)
                               ELSE Groupings(chain) = {}
    /\ status = "too_deep" => N > MaxNesting
    /\ status = "accepted" => /\ use.side # "expr"
                              /\ OperandFits(use.op, use.side, RootAt(chain, Head(frames)))
    /\ status = "section" => /\ use.side # "expr"
                             /\ ~OperandFits(use.op, use.side, RootAt(chain, Head(frames)))

FixInv == Given /\ Cursors /\ Filled /\ Reached

\* The invariant holds initially.
LEMMA FixInvInit ==
    ASSUME FixityAssumption, FixInit
    PROVE  FixInv
<1>1. PICK n \in 0..MaxOps : chain \in Chains(n) /\ use \in Uses(n) /\ (n = 0 => chain.neg[1])
  BY DEF FixInit
<1>2. n \in Nat /\ Fixities \subseteq AnyFixity
  <2>1. n \in Nat
    BY DEF FixityAssumption
  <2>2. Assocs \subseteq {"left", "right", "none"} /\ Precs \subseteq 0..9
    BY DEF FixityAssumption
  <2> QED
    BY <2>1, <2>2 DEF Fixities, AnyFixity
<1>3. chain.ops \in [1..n -> AnyFixity] /\ chain.neg \in [1..(n + 1) -> BOOLEAN]
  BY <1>1, <1>2 DEF Chains
<1>4. chain.ops \in Seq(AnyFixity) /\ Len(chain.ops) = n
  BY <1>2, <1>3
<1>5. chain.neg \in Seq(BOOLEAN) /\ Len(chain.neg) = n + 1
  BY <1>2, <1>3
<1>6. ChainOK(chain) /\ (N = 0 => chain.neg[1])
  BY <1>1, <1>4, <1>5 DEF ChainOK, N
<1>7. use.side \in {"expr", "left", "right"} /\ (use.side # "expr" => use.op \in AnyFixity)
  BY <1>1, <1>2 DEF Uses
<1>8. nextOp = 1 /\ operand = 1 /\ frames = <<>> /\ nodes = {} /\ status = "start"
  BY DEF FixInit
<1>9. N \in Nat
  BY <1>2, <1>4 DEF N
<1> QED
  BY <1>6, <1>7, <1>8, <1>9 DEF FixInv, Given, Cursors, Filled, Reached

\* Reading and holding levels stand on a chain of their own span.
LEMMA GivenIs ==
    ASSUME FixInv
    PROVE  /\ ChainOK(chain) /\ N \in Nat /\ Len(chain.ops) = N /\ Len(chain.neg) = N + 1
           /\ \A i \in 1..N : chain.ops[i] \in AnyFixity
           /\ \A i \in 1..(N + 1) : chain.neg[i] \in BOOLEAN
           /\ nextOp \in 1..(N + 1) /\ nextOp \in Nat
BY ChainIs DEF FixInv, Given, Cursors, N

\* What a step leaves of the chain.
LEMMA GivenStays ==
    ASSUME FixInv, UNCHANGED <<chain, use>>
    PROVE  Given' /\ N' = N
BY DEF FixInv, Given, N, ChainOK

\* The outermost level is entered, or refused to a section.
LEMMA Started ==
    ASSUME FixInv, RejectSectionMinus \/ Group
    PROVE  FixInv'
<1>1. Given' /\ N' = N
  BY GivenStays DEF RejectSectionMinus, Group, Stop
<1>2. nextOp = 1 /\ operand = 1 /\ frames = <<>> /\ nodes = {} /\ status = "start" /\ N \in Nat
  BY GivenIs DEF FixInv, Cursors, Reached, RejectSectionMinus, Group
<1>3. CASE RejectSectionMinus
  <2>1. /\ status' = "minus_rhs" /\ UNCHANGED <<chain, use, nextOp, operand, frames, nodes>>
        /\ use.side = "right" /\ chain.neg[1] /\ MinusUnder(use.op)
    BY <1>3 DEF RejectSectionMinus, Stop
  <2>2. Cursors' /\ Filled'
    BY <1>1, <1>2, <2>1 DEF Cursors, Filled
  <2>3. Reached'
    BY <1>2, <2>1 DEF Reached, MinusUnder
  <2> QED
    BY <1>1, <2>2, <2>3 DEF FixInv
<1>4. CASE Group
  <2>1. PICK F : F = Frame("whole", 1, 0, 0)
    OBVIOUS
  <2>2. PICK w : w = [read |-> Bare, all |-> {}]
    OBVIOUS
  <2>3. frames' = <<F>> /\ status' = "prefix" /\ UNCHANGED <<chain, use, nextOp, operand, nodes>>
    BY <1>4, <2>1 DEF Group
  <2>4. /\ F \in Levels(chain) /\ w \in Works /\ Outermost(F, w)
        /\ F.parent = 0 /\ Reading(F, w, 1)
    <3>1. F = [kind |-> "whole", from |-> 1, min |-> 0, parent |-> 0, negated |-> FALSE, last |-> 0]
      BY <2>1 DEF Frame
    <3>2. F \in Levels(chain)
      BY <1>2, <3>1 DEF Levels, N
    <3>3. w \in Works
      BY <2>2 DEF Works, AnyPhrase, Bare, Roots
    <3> QED
      BY <2>2, <3>1, <3>2, <3>3 DEF Outermost, Reading, Signed, Bare
  <2>5. Working(chain, <<F>>, <<w>>, 1, {}) /\ <<F>>[1] = F /\ <<w>>[1] = w
    BY <2>2, <2>4 DEF Working, Linked, Nested
  <2>6. Cursors'
    BY <1>1, <1>2, <2>3 DEF Cursors
  <2>7. Filled'
    BY <1>2, <2>3, <2>4 DEF Filled
  <2>8. \E ws : Working(chain', frames', ws, nextOp', nodes') /\ Reading(frames'[1], ws[1], nextOp')
    BY <1>2, <2>3, <2>4, <2>5
  <2>9. Reached'
    BY <2>3, <2>8 DEF Reached
  <2> QED
    BY <1>1, <2>6, <2>7, <2>9 DEF FixInv
<1> QED
  BY <1>3, <1>4

\* A minus right under an operator as tight is refused, and the chain has no grouping.
LEMMA MinusRefused ==
    ASSUME FixInv, RejectMinus
    PROVE  FixInv'
<1>1. Given' /\ N' = N
  BY GivenStays DEF RejectMinus, Stop
<1>2. /\ status = "prefix" /\ status' = "minus_rhs"
      /\ UNCHANGED <<chain, use, nextOp, operand, frames, nodes>>
      /\ chain.neg[operand] /\ Level.parent # 0 /\ MinusUnder(chain.ops[Level.parent])
  BY DEF RejectMinus, Stop
<1>3. PICK ws : Working(chain, frames, ws, nextOp, nodes) /\ Reading(frames[1], ws[1], nextOp)
  BY <1>2 DEF FixInv, Reached
<1>4. frames # <<>> /\ Level = frames[1]
      /\ (Level.kind = "whole" => Outermost(Level, ws[1]))
      /\ (Level.kind # "whole" => Link(chain, Level, frames[2], ws[1], ws[2]))
  BY <1>3, Innermost DEF Working, Level
<1>5. Level.kind = "rhs"
  BY <1>2, <1>3, <1>4 DEF Outermost, Link, Reading, Signed
<1>6. PICK p : p = Level.parent
  OBVIOUS
<1>7. p \in 1..N /\ Level.from = p + 1 /\ operand = nextOp /\ Level.from = nextOp
  BY <1>2, <1>3, <1>4, <1>5, <1>6, GivenIs DEF Link, Reading, FixInv, Cursors
<1>8. chain.neg[p + 1] /\ ~(chain.ops[p].prec < 6) /\ p \in 1..((N + 1) - 1)
  <2>1. chain.ops[p].prec \in Nat
    <3>1. chain.ops[p] \in AnyFixity
      BY <1>7, GivenIs
    <3> QED
      BY <3>1 DEF AnyFixity
  <2> QED
    BY <1>2, <1>6, <1>7, <2>1, GivenIs DEF MinusUnder
<1>9. Groupings(chain) = {}
  <2> SUFFICES ASSUME NEW h \in Groupings(chain)
               PROVE  FALSE
    OBVIOUS
  <2>1. h \in Phrase(chain, 1, N + 1, TRUE)
    BY GivenIs DEF Groupings, Phrase
  <2>2. 1 \in 1..Len(chain.neg) /\ N + 1 \in 1..Len(chain.neg) /\ 1 <= N + 1 /\ ChainOK(chain)
    BY GivenIs
  <2>3. Loose(chain, 1, N + 1)
    BY <2>1, <2>2, UnderTight
  <2> QED
    BY <1>8, <2>3 DEF Loose
<1>10. Cursors' /\ Filled'
  BY <1>1, <1>2 DEF FixInv, Cursors, Filled
<1>11. Reached'
  <2>1. Groupings(chain') = {} /\ frames' # <<>>
    BY <1>2, <1>4, <1>9
  <2> QED
    BY <1>2, <2>1 DEF Reached
<1> QED
  BY <1>1, <1>10, <1>11 DEF FixInv

\* Everything fits next to an operand.
LEMMA OperandSuits ==
    ASSUME FixInv, NEW F \in Levels(chain), F.kind = "rhs" => F.parent # 0
    PROVE  Suits(chain, Operand, F)
<1>1. F.kind = "rhs" => F.parent \in 1..N
  BY GivenIs DEF Levels
<1>2. \A f \in AnyFixity : Fits(Operand, f, "right")
  BY DEF Fits, Operand, AnyFixity
<1>3. Minus \in AnyFixity
  BY DEF Minus, AnyFixity
<1> QED
  BY <1>1, <1>2, <1>3, GivenIs DEF Suits

\* An operand is read, and behind a minus a level entered for it.
LEMMA OperandRead ==
    ASSUME FixInv, ReadOperand
    PROVE  FixInv'
<1>1. Given' /\ N' = N
  BY GivenStays DEF ReadOperand
<1>2. /\ status = "prefix" /\ status' = "continue" /\ operand' = operand + 1
      /\ UNCHANGED <<chain, use, nextOp, nodes>>
      /\ ~(chain.neg[operand] /\ Level.parent # 0 /\ MinusUnder(chain.ops[Level.parent]))
      /\ frames' = IF chain.neg[operand]
                   THEN <<Frame("minus", operand, NEGATION_OPERAND_MIN_PREC, 0)>> \o frames
                   ELSE frames
  BY DEF ReadOperand
<1>3. PICK ws : Working(chain, frames, ws, nextOp, nodes) /\ Reading(frames[1], ws[1], nextOp)
  BY <1>2 DEF FixInv, Reached
<1>4. PICK B : B = frames[1]
  OBVIOUS
<1>5. Level = B /\ B \in Levels(chain) /\ ws[1] \in Works
      /\ (B.kind = "whole" => Outermost(B, ws[1]))
      /\ (B.kind # "whole" => Link(chain, B, frames[2], ws[1], ws[2]))
  BY <1>3, <1>4, Innermost DEF Working, Level
<1>6. Signed(B) /\ B.from = nextOp /\ ~B.negated /\ B.last = 0 /\ ws[1].read = Bare /\ operand = nextOp
  BY <1>2, <1>3, <1>4 DEF Reading, FixInv, Cursors
<1>7. nextOp \in 1..Len(chain.neg) /\ ChainOK(chain) /\ chain.neg[nextOp] \in BOOLEAN
  BY GivenIs
<1>8. Cursors'
  BY <1>1, <1>2, <1>6 DEF FixInv, Cursors
<1>9. B.kind = "rhs" => B.parent \in 1..N
  BY <1>5, GivenIs DEF Link
<1>10. CASE ~chain.neg[operand]
  <2>1. frames' = frames
    BY <1>2, <1>10
  <2>2. Holding(chain, B, ws[1], nextOp)
    <3>1. Bare \in Phrase(chain, nextOp, nextOp, TRUE)
      BY <1>6, <1>7, <1>10, LeafPhrase
    <3>2. RootOf(chain, B) = Operand /\ Bare.root = Operand /\ Signed(B) = TRUE
      BY <1>6 DEF RootOf, Bare, Signed
    <3>3. Suits(chain, Operand, B)
      <4>1. B.kind = "rhs" => B.parent # 0
        BY <1>9
      <4> QED
        BY <1>5, <4>1, OperandSuits
    <3>4. ws[1].read \in Phrase(chain, B.from, nextOp, Signed(B))
      BY <1>6, <3>1, <3>2, Zenon
    <3>5. B.from <= nextOp /\ ws[1].read.root = RootOf(chain, B) /\ Suits(chain, RootOf(chain, B), B)
      BY <1>6, <1>7, <3>2, <3>3
    <3> QED
      BY <1>6, <3>4, <3>5 DEF Holding
  <2>3. Filled'
    BY <1>2, <2>1 DEF FixInv, Filled
  <2>4. Reached'
    BY <1>2, <1>3, <1>4, <2>1, <2>2 DEF Reached
  <2> QED
    BY <1>1, <1>8, <2>3, <2>4 DEF FixInv
<1>11. CASE chain.neg[operand]
  <2>1. PICK F : F = Frame("minus", nextOp, 14, 0)
    OBVIOUS
  <2>2. F = [kind |-> "minus", from |-> nextOp, min |-> 14, parent |-> 0, negated |-> FALSE, last |-> 0]
    BY <2>1 DEF Frame
  <2>3. PICK w : w = [read |-> Bare, all |-> ws[1].all]
    OBVIOUS
  <2>4. F \in Levels(chain)
    BY <1>7, <2>2, GivenIs DEF Levels
  <2>5. w \in Works
    BY <1>5, <2>3 DEF Works, AnyPhrase, Bare, Roots
  <2>6. frames' = <<F>> \o frames
    BY <1>2, <1>6, <1>11, <2>1 DEF NEGATION_OPERAND_MIN_PREC
  <2>7. Suits(chain, Minus, B)
    <3>1. B.kind # "minus"
      BY <1>6 DEF Signed
    <3>2. CASE B.kind = "rhs"
      <4>1. B.parent \in 1..N /\ chain.ops[B.parent] \in AnyFixity
        BY <1>9, <3>2, GivenIs
      <4>2. B.parent # 0 /\ ~MinusUnder(chain.ops[B.parent])
        BY <1>2, <1>5, <1>11, <4>1
      <4>3. chain.ops[B.parent].prec < 6
        BY <4>1, <4>2 DEF MinusUnder, AnyFixity
      <4>4. Fits(Minus, chain.ops[B.parent], "right")
        BY <4>1, <4>3 DEF Fits, Minus, AnyFixity
      <4> QED
        BY <3>1, <4>4 DEF Suits
    <3> QED
      BY <3>1, <3>2 DEF Suits
  <2>8. Link(chain, F, B, w, ws[1])
    <3>1. w.all = w.read.nodes \cup ws[1].all
      BY <2>3 DEF Bare
    <3> QED
      BY <1>6, <1>11, <2>2, <2>7, <3>1 DEF Link
  <2>9. PICK g, v : g = <<F>> \o frames /\ v = <<w>> \o ws
    OBVIOUS
  <2>10. Linked(chain, frames, ws) /\ Nested(frames, nextOp) /\ ws[1].all = nodes
    BY <1>3 DEF Working
  <2>11. Linked(chain, g, v)
    BY <1>4, <2>4, <2>5, <2>8, <2>9, <2>10, Entered
  <2>12. frames \in Seq(Levels(chain)) /\ ws \in Seq(Works)
    BY <2>10 DEF Linked
  <2>13. Nested(g, nextOp)
    <3>1. F.parent < nextOp /\ nextOp <= nextOp /\ (F.kind = "rhs" => F.parent = nextOp) /\ nextOp \in Nat
      BY <2>2, GivenIs
    <3> QED
      BY <1>7, <2>4, <2>9, <2>10, <2>12, <3>1, NestedEntered
  <2>14. InFront(Levels(chain), F, frames, g) /\ InFront(Works, w, ws, v)
    BY <2>4, <2>5, <2>9, <2>12, Pushed
  <2>15. g \in Seq(Levels(chain)) /\ g[1] = F /\ v[1] = w
    BY <2>14 DEF InFront
  <2>16. Working(chain, g, v, nextOp, nodes)
    BY <2>3, <2>10, <2>11, <2>13, <2>15 DEF Working
  <2>17. Holding(chain, F, w, nextOp)
    <3>1. Bare \in Phrase(chain, nextOp, nextOp, FALSE)
      BY <1>7, LeafPhrase
    <3>2. RootOf(chain, F) = Operand /\ Bare.root = Operand /\ Signed(F) = FALSE /\ F.from = nextOp
          /\ ~F.negated /\ F.last = 0 /\ F.kind = "minus"
      BY <2>2 DEF RootOf, Bare, Signed
    <3>3. Suits(chain, Operand, F)
      BY <2>4, <3>2, OperandSuits
    <3>4. w.read = Bare
      BY <2>3
    <3>5. w.read \in Phrase(chain, F.from, nextOp, Signed(F))
      BY <3>1, <3>2, <3>4, Zenon
    <3>6. F.from <= nextOp /\ w.read.root = RootOf(chain, F) /\ Suits(chain, RootOf(chain, F), F)
      BY <1>7, <3>2, <3>3, <3>4
    <3> QED
      BY <3>2, <3>5, <3>6 DEF Holding
  <2>18. Filled'
    BY <1>2, <2>6, <2>9, <2>15 DEF FixInv, Filled
  <2>19. \E u : Working(chain', frames', u, nextOp', nodes') /\ Holding(chain', frames'[1], u[1], nextOp')
    BY <1>2, <2>6, <2>9, <2>15, <2>16, <2>17
  <2>20. Reached'
    BY <1>2, <2>19 DEF Reached
  <2> QED
    BY <1>1, <1>8, <2>18, <2>20 DEF FixInv
<1> QED
  BY <1>10, <1>11

\* A level that has read something, with an operator to come.
LEMMA AtOperator ==
    ASSUME FixInv, More
    PROVE  \E ws : /\ Working(chain, frames, ws, nextOp, nodes) /\ Holding(chain, frames[1], ws[1], nextOp)
                   /\ frames # <<>> /\ Level = frames[1] /\ Level \in Levels(chain) /\ ws[1] \in Works
                   /\ (Level.kind = "whole" => Outermost(Level, ws[1]))
                   /\ (Level.kind # "whole" => Link(chain, Level, frames[2], ws[1], ws[2]))
                   /\ nextOp \in 1..N /\ chain.ops[nextOp] \in AnyFixity
                   /\ operand = nextOp + 1 /\ status = "continue"
<1>1. status = "continue" /\ nextOp <= N
  BY DEF More
<1>2. PICK ws : Working(chain, frames, ws, nextOp, nodes) /\ Holding(chain, frames[1], ws[1], nextOp)
  BY <1>1 DEF FixInv, Reached
<1>3. nextOp \in 1..N /\ chain.ops[nextOp] \in AnyFixity
  BY <1>1, GivenIs
<1>4. operand = nextOp + 1
  BY <1>1 DEF FixInv, Cursors
<1> QED
  BY <1>1, <1>2, <1>3, <1>4, Innermost DEF Working, Level

\* A looser or differently associated operator behind a minus is refused rightly ...
LEMMA AfterMinusRefused ==
    ASSUME FixInv, RejectAfterMinus
    PROVE  FixInv'
<1>1. Given' /\ N' = N
  BY GivenStays DEF RejectAfterMinus, Stop
<1>2. /\ More /\ AfterMinus(chain.ops[nextOp]) /\ status' = "minus_lhs"
      /\ UNCHANGED <<chain, use, nextOp, operand, frames, nodes>>
  BY DEF RejectAfterMinus, Stop
<1>3. PICK ws : /\ Working(chain, frames, ws, nextOp, nodes) /\ Holding(chain, Level, ws[1], nextOp)
                /\ nextOp \in 1..N /\ chain.ops[nextOp] \in AnyFixity
                /\ operand = nextOp + 1 /\ status = "continue" /\ Level \in Levels(chain)
  BY <1>2, AtOperator
<1>4. PICK f : f = chain.ops[nextOp]
  OBVIOUS
<1>5. Level.negated /\ f.prec >= 6 /\ f # [assoc |-> "left", prec |-> 6] /\ f.prec <= 6
  BY <1>2, <1>3, <1>4, GivenIs DEF AfterMinus, Holding
<1>6. f.prec = 6 /\ f.assoc # "left"
  <2>1. f = [assoc |-> f.assoc, prec |-> f.prec] /\ f.prec \in Nat
    BY <1>3, <1>4 DEF AnyFixity
  <2> QED
    BY <1>5, <2>1
<1>7. PICK a \in 1..(N + 1) : a = Level.from
  BY <1>3, GivenIs DEF Levels
<1>8. a <= nextOp /\ chain.neg[a] /\ Signed(Level) = TRUE /\ RootOf(chain, Level) = Minus
  BY <1>3, <1>5, <1>7 DEF Holding, RootOf, Signed
<1>9. ws[1].read \in Phrase(chain, a, nextOp, TRUE) /\ ws[1].read.root = Minus
  BY <1>3, <1>7, <1>8, Zenon DEF Holding
<1>10. Groupings(chain) = {}
  <2>1. ChainOK(chain) /\ a \in 1..Len(chain.neg) /\ nextOp \in 1..Len(chain.ops)
    BY <1>3, <1>7, GivenIs
  <2> QED
    BY <1>4, <1>6, <1>8, <1>9, <2>1, MinusClash
<1>11. Cursors' /\ Filled'
  BY <1>1, <1>2, <1>3 DEF FixInv, Cursors, Filled
<1>12. Reached'
  BY <1>2, <1>10 DEF Reached
<1> QED
  BY <1>1, <1>11, <1>12 DEF FixInv

\* ... and so are operators of one precedence that do not chain.
LEMMA MixedRefused ==
    ASSUME FixInv, RejectMixed
    PROVE  FixInv'
<1>1. Given' /\ N' = N
  BY GivenStays DEF RejectMixed, Stop
<1>2. /\ More /\ Mixed(chain.ops[nextOp]) /\ status' = "conflict"
      /\ UNCHANGED <<chain, use, nextOp, operand, frames, nodes>>
  BY DEF RejectMixed, Stop
<1>3. PICK ws : /\ Holding(chain, Level, ws[1], nextOp)
                /\ (Level.kind = "whole" => Outermost(Level, ws[1]))
                /\ (Level.kind # "whole" => Link(chain, Level, frames[2], ws[1], ws[2]))
                /\ nextOp \in 1..N /\ chain.ops[nextOp] \in AnyFixity
                /\ operand = nextOp + 1 /\ status = "continue"
  BY <1>2, AtOperator
<1>4. Level.parent # 0 /\ chain.ops[Level.parent].prec = chain.ops[nextOp].prec
      /\ ~(chain.ops[Level.parent].assoc = "left" /\ chain.ops[nextOp].assoc = "left")
      /\ ~(chain.ops[Level.parent].assoc = "right" /\ chain.ops[nextOp].assoc = "right")
  BY <1>2 DEF Mixed, Equal, Chained
<1>5. Level.kind = "rhs"
  BY <1>3, <1>4 DEF Outermost, Link
<1>6. PICK p \in 1..N : p = Level.parent /\ Level.from = p + 1
  BY <1>3, <1>5, GivenIs DEF Link
<1>7. p < nextOp
  BY <1>3, <1>6, GivenIs DEF Holding
<1>8. Signed(Level) = TRUE
  BY <1>5 DEF Signed
<1>9. ws[1].read \in Phrase(chain, p + 1, nextOp, TRUE)
  BY <1>3, <1>6, <1>8, Zenon DEF Holding
<1>10. Fits(ws[1].read.root, chain.ops[p], "right")
  BY <1>3, <1>5, <1>6 DEF Holding, Suits
<1>11. Groupings(chain) = {}
  <2>1. ChainOK(chain) /\ p \in 1..Len(chain.ops) /\ nextOp \in 1..Len(chain.ops)
    BY <1>3, <1>6, GivenIs
  <2> QED
    BY <1>4, <1>6, <1>7, <1>9, <1>10, <2>1, MixedClash
<1>12. Cursors' /\ Filled'
  BY <1>1, <1>2, <1>3 DEF FixInv, Cursors, Filled
<1>13. Reached'
  BY <1>2, <1>11 DEF Reached
<1> QED
  BY <1>1, <1>12, <1>13 DEF FixInv

\* A chain refused for its depth has more operators than the limit.
LEMMA DepthRefused ==
    ASSUME FixityAssumption, FixInv, TooDeep
    PROVE  FixInv'
<1>1. Given' /\ N' = N
  BY GivenStays DEF TooDeep, Stop
<1>2. /\ More /\ Depth >= MaxNesting /\ status' = "too_deep"
      /\ UNCHANGED <<chain, use, nextOp, operand, frames, nodes>>
  BY DEF TooDeep, Stop
<1>3. PICK ws : /\ Working(chain, frames, ws, nextOp, nodes)
                /\ nextOp \in 1..N /\ operand = nextOp + 1 /\ status = "continue"
  BY <1>2, AtOperator
<1>4. Linked(chain, frames, ws) /\ Nested(frames, nextOp)
  BY <1>3 DEF Working
<1>5. frames \in Seq(Levels(chain)) /\ Len(frames) \in Nat /\ Len(frames) >= 1
      /\ Outermost(frames[Len(frames)], ws[Len(frames)])
      /\ \A i \in 1..(Len(frames) - 1) : Link(chain, frames[i], frames[i + 1], ws[i], ws[i + 1])
  BY <1>4 DEF Linked
<1>6. ASSUME NEW i \in 1..Len(frames), frames[i].kind = "rhs"
      PROVE  frames[i].parent # 0
  <2>1. i # Len(frames)
    BY <1>5, <1>6 DEF Outermost
  <2>2. i \in 1..(Len(frames) - 1)
    BY <1>5, <2>1
  <2>3. Link(chain, frames[i], frames[i + 1], ws[i], ws[i + 1])
    BY <1>5, <2>2
  <2> QED
    BY <1>6, <2>3 DEF Link
<1>7. Depth \in Nat /\ Depth < nextOp
  <2>1. ChainOK(chain) /\ nextOp \in Nat \ {0}
    BY GivenIs
  <2> QED
    BY <1>4, <1>5, <1>6, <2>1, DepthBound DEF Depth
<1>8. N > MaxNesting
  <2>1. MaxNesting \in Nat
    BY DEF FixityAssumption
  <2> QED
    BY <1>2, <1>3, <1>7, <2>1, GivenIs
<1>9. Cursors' /\ Filled'
  BY <1>1, <1>2, <1>3 DEF FixInv, Cursors, Filled
<1>10. Reached'
  BY <1>1, <1>2, <1>8 DEF Reached
<1> QED
  BY <1>1, <1>9, <1>10 DEF FixInv

\* The operator a level takes fits what the level has read and what entered the level.
LEMMA TakenFits ==
    ASSUME FixInv, More, Takes, NEW w, Holding(chain, Level, w, nextOp), Level \in Levels(chain),
           Level.kind = "whole" => Level.parent = 0,
           Level.kind = "rhs" => Level.parent \in 1..N /\ Level.min = Right(chain.ops[Level.parent]),
           Level.kind = "minus" => Level.parent = 0 /\ Level.min = 14
    PROVE  Fits(RootOf(chain, Level), chain.ops[nextOp], "left") /\ Suits(chain, chain.ops[nextOp], Level)
<1>1. PICK f : f = chain.ops[nextOp]
  OBVIOUS
<1>2. nextOp \in 1..N /\ f \in AnyFixity
  BY <1>1, GivenIs DEF More
<1>3. ~AfterMinus(f) /\ ~Mixed(f) /\ Consumed(f)
  BY <1>1 DEF Takes
<1>4. f.prec \in 0..9 /\ f.assoc \in {"left", "right", "none"} /\ f = [assoc |-> f.assoc, prec |-> f.prec]
  BY <1>2 DEF AnyFixity
<1>5. Fits(RootOf(chain, Level), f, "left")
  <2>1. CASE Level.negated
    <3>1. f.prec < 6 \/ f = [assoc |-> "left", prec |-> 6]
      BY <1>3, <1>4, <2>1 DEF AfterMinus
    <3> QED
      BY <1>4, <2>1, <3>1 DEF RootOf, Fits, Minus
  <2>2. CASE ~Level.negated /\ Level.last # 0
    BY <1>1, <1>2, <2>2, GivenIs DEF RootOf, Holding
  <2>3. CASE ~Level.negated /\ Level.last = 0
    BY <1>4, <2>3 DEF RootOf, Fits, Operand
  <2> QED
    BY <2>1, <2>2, <2>3
<1>6. CASE Level.kind = "rhs"
  <2>1. PICK p \in AnyFixity : p = chain.ops[Level.parent]
    BY <1>6, GivenIs
  <2>2. p.prec \in 0..9 /\ p.assoc \in {"left", "right", "none"}
    BY <2>1 DEF AnyFixity
  <2>3. Level.parent # 0 /\ Level.min = Right(p)
    BY <1>6, <2>1
  <2>4. CASE p.prec = f.prec
    <3>1. Equal(f)
      BY <2>1, <2>3, <2>4 DEF Equal
    <3>2. p.assoc = "right" /\ f.assoc = "right"
      BY <1>3, <2>1, <3>1 DEF Consumed, Chained
    <3> QED
      BY <1>1, <1>5, <1>6, <2>1, <2>4, <3>2 DEF Suits, Fits
  <2>5. CASE p.prec # f.prec
    <3>1. ~Equal(f)
      BY <2>1, <2>3, <2>5 DEF Equal
    <3>2. Left(f) >= Right(p)
      BY <1>3, <2>3, <3>1 DEF Consumed
    <3>3. f.prec > p.prec
      BY <1>4, <2>2, <2>5, <3>2 DEF Left, Right
    <3> QED
      BY <1>1, <1>5, <1>6, <2>1, <3>3 DEF Suits, Fits
  <2> QED
    BY <2>4, <2>5
<1>7. CASE Level.kind = "minus"
  <2>1. ~Equal(f) /\ Level.min = 14
    BY <1>7 DEF Equal
  <2>2. Left(f) >= 14
    BY <1>3, <2>1 DEF Consumed
  <2>3. f.prec > 6
    BY <1>4, <2>2 DEF Left
  <2> QED
    BY <1>1, <1>5, <1>7, <2>3 DEF Suits, Fits, Minus
<1>8. CASE Level.kind = "whole"
  BY <1>1, <1>5, <1>8 DEF Suits
<1> QED
  BY <1>6, <1>7, <1>8 DEF Levels

\* The next operator is taken, and a level entered for its right operand.
LEMMA OperatorTaken ==
    ASSUME FixInv, Take
    PROVE  FixInv'
<1>1. Given' /\ N' = N
  BY GivenStays DEF Take
<1>2. /\ More /\ Takes /\ nextOp' = nextOp + 1 /\ status' = "prefix"
      /\ frames' = <<Frame("rhs", operand, Right(chain.ops[nextOp]), nextOp)>> \o frames
      /\ UNCHANGED <<chain, use, operand, nodes>>
  BY DEF Take
<1>3. PICK ws : /\ Working(chain, frames, ws, nextOp, nodes) /\ Holding(chain, frames[1], ws[1], nextOp)
                /\ Level = frames[1] /\ Level \in Levels(chain) /\ ws[1] \in Works
                /\ (Level.kind = "whole" => Outermost(Level, ws[1]))
                /\ (Level.kind # "whole" => Link(chain, Level, frames[2], ws[1], ws[2]))
                /\ nextOp \in 1..N /\ chain.ops[nextOp] \in AnyFixity
                /\ operand = nextOp + 1 /\ status = "continue"
  BY <1>2, AtOperator
<1>4. PICK B : B = frames[1]
  OBVIOUS
<1>5. Fits(RootOf(chain, B), chain.ops[nextOp], "left") /\ Suits(chain, chain.ops[nextOp], B)
  <2>1. Holding(chain, Level, ws[1], nextOp)
    BY <1>3
  <2>2. /\ Level.kind = "whole" => Level.parent = 0
        /\ Level.kind = "rhs" => Level.parent \in 1..N /\ Level.min = Right(chain.ops[Level.parent])
        /\ Level.kind = "minus" => Level.parent = 0 /\ Level.min = 14
    BY <1>3, GivenIs DEF Outermost, Link
  <2> QED
    BY <1>2, <1>3, <1>4, <2>1, <2>2, TakenFits
<1>6. PICK F : F = Frame("rhs", nextOp + 1, Right(chain.ops[nextOp]), nextOp)
  OBVIOUS
<1>7. F = [kind |-> "rhs", from |-> nextOp + 1, min |-> Right(chain.ops[nextOp]), parent |-> nextOp,
           negated |-> FALSE, last |-> 0]
  BY <1>6 DEF Frame
<1>8. PICK w : w = [read |-> Bare, all |-> ws[1].all]
  OBVIOUS
<1>9. F \in Levels(chain)
  <2>1. Right(chain.ops[nextOp]) \in 0..20
    BY <1>3 DEF Right, AnyFixity
  <2>2. nextOp + 1 \in 1..(Len(chain.ops) + 1) /\ nextOp \in 0..Len(chain.ops)
    BY <1>3, GivenIs
  <2> QED
    BY <1>7, <2>1, <2>2 DEF Levels
<1>10. w \in Works
  BY <1>3, <1>8 DEF Works, AnyPhrase, Bare, Roots
<1>11. frames' = <<F>> \o frames
  BY <1>2, <1>3, <1>6
<1>12. Link(chain, F, B, w, ws[1])
  <2>1. w.all = w.read.nodes \cup ws[1].all
    BY <1>8 DEF Bare
  <2>2. /\ F.kind = "rhs" /\ F.parent = nextOp /\ F.from = nextOp + 1
        /\ F.min = Right(chain.ops[nextOp])
    BY <1>7
  <2>3. /\ B.from <= nextOp /\ ws[1].read \in Phrase(chain, B.from, nextOp, Signed(B))
        /\ ws[1].read.root = RootOf(chain, B)
    BY <1>3, <1>4 DEF Holding
  <2>4. F.parent \in 1..Len(chain.ops)
    BY <1>3, <2>2, GivenIs
  <2> QED
    BY <1>5, <2>1, <2>2, <2>3, <2>4 DEF Link
<1>13. PICK g, v : g = <<F>> \o frames /\ v = <<w>> \o ws
  OBVIOUS
<1>14. Linked(chain, frames, ws) /\ Nested(frames, nextOp) /\ ws[1].all = nodes
  BY <1>3 DEF Working
<1>15. Linked(chain, g, v)
  BY <1>4, <1>9, <1>10, <1>12, <1>13, <1>14, Entered
<1>16. frames \in Seq(Levels(chain)) /\ ws \in Seq(Works)
  BY <1>14 DEF Linked
<1>17. Nested(g, nextOp + 1)
  <2>1. PICK later \in Nat : later = nextOp + 1
    BY GivenIs
  <2>2. F.parent < later /\ nextOp <= later /\ (F.kind = "rhs" => F.parent = nextOp) /\ nextOp \in Nat
        /\ ChainOK(chain)
    BY <1>7, <2>1, GivenIs
  <2>3. Nested(g, later)
    BY <1>9, <1>13, <1>14, <1>16, <2>2, NestedEntered
  <2> QED
    BY <2>1, <2>3
<1>18. InFront(Levels(chain), F, frames, g) /\ InFront(Works, w, ws, v)
  BY <1>9, <1>10, <1>13, <1>16, Pushed
<1>19. g \in Seq(Levels(chain)) /\ g[1] = F /\ v[1] = w
  BY <1>18 DEF InFront
<1>20. Working(chain, g, v, nextOp + 1, nodes)
  BY <1>8, <1>14, <1>15, <1>17, <1>19 DEF Working
<1>21. Reading(F, w, nextOp + 1)
  BY <1>7, <1>8 DEF Reading, Signed
<1>22. Cursors'
  BY <1>1, <1>2, <1>3, GivenIs DEF FixInv, Cursors
<1>23. Filled'
  BY <1>2, <1>11, <1>13, <1>19 DEF FixInv, Filled
<1>24. \E u : Working(chain', frames', u, nextOp', nodes') /\ Reading(frames'[1], u[1], nextOp')
  BY <1>2, <1>11, <1>13, <1>19, <1>20, <1>21
<1>25. Reached'
  BY <1>2, <1>24 DEF Reached
<1> QED
  BY <1>1, <1>22, <1>23, <1>25 DEF FixInv

\* What a level leaves for the one below fits what the level returns.
LEMMA LeftFits ==
    ASSUME FixInv, nextOp \in 1..N, ~Mixed(chain.ops[nextOp]), ~Consumed(chain.ops[nextOp])
    PROVE  /\ Level.parent \in 1..N /\ Level.min = Right(chain.ops[Level.parent]) =>
                 Fits(chain.ops[Level.parent], chain.ops[nextOp], "left")
           /\ Level.parent = 0 /\ Level.min = 14 => chain.ops[nextOp].prec <= 6
           /\ ~(Level.parent = 0 /\ Level.min = 0)
<1>1. PICK f \in AnyFixity : f = chain.ops[nextOp]
  BY GivenIs
<1>2. f.prec \in 0..9 /\ f.assoc \in {"left", "right", "none"}
  BY <1>1 DEF AnyFixity
<1>3. ASSUME Level.parent \in 1..N, Level.min = Right(chain.ops[Level.parent])
      PROVE  Fits(chain.ops[Level.parent], chain.ops[nextOp], "left")
  <2>1. PICK p \in AnyFixity : p = chain.ops[Level.parent]
    BY <1>3, GivenIs
  <2>2. p.prec \in 0..9 /\ p.assoc \in {"left", "right", "none"} /\ Level.parent # 0 /\ Level.min = Right(p)
    BY <1>3, <2>1, GivenIs DEF AnyFixity
  <2>3. CASE p.prec = f.prec
    <3>1. Equal(f)
      BY <2>1, <2>2, <2>3 DEF Equal
    <3>2. Chained(f, "left")
      BY <1>1, <3>1 DEF Mixed, Consumed
    <3> QED
      BY <1>1, <2>1, <2>3, <3>2 DEF Chained, Fits
  <2>4. CASE p.prec # f.prec
    <3>1. ~(Left(f) >= Right(p))
      BY <1>1, <2>1, <2>2, <2>4 DEF Equal, Consumed
    <3>2. p.prec > f.prec
      BY <1>2, <2>2, <2>4, <3>1 DEF Left, Right
    <3> QED
      BY <1>1, <2>1, <3>2 DEF Fits
  <2> QED
    BY <2>3, <2>4
<1>4. ASSUME Level.parent = 0
      PROVE  ~(Left(f) >= Level.min)
  BY <1>1, <1>4 DEF Equal, Consumed
<1>5. Left(f) \in Int /\ Left(f) >= 0 /\ (~(Left(f) >= 14) => f.prec <= 6)
  BY <1>2 DEF Left
<1> QED
  BY <1>1, <1>3, <1>4, <1>5

\* A level that has read something.
LEMMA AtReturn ==
    ASSUME FixInv, Return
    PROVE  \E ws : /\ Working(chain, frames, ws, nextOp, nodes) /\ Holding(chain, frames[1], ws[1], nextOp)
                   /\ frames # <<>> /\ Level = frames[1] /\ Level \in Levels(chain) /\ ws[1] \in Works
                   /\ (Level.kind = "whole" => Len(frames) = 1 /\ Outermost(Level, ws[1]))
                   /\ (Level.kind # "whole" => /\ Len(frames) >= 2 /\ frames[2] \in Levels(chain)
                                             /\ ws[2] \in Works
                                             /\ Link(chain, Level, frames[2], ws[1], ws[2]))
                   /\ operand - 1 = nextOp
<1>1. status = "continue"
  BY DEF Return
<1>2. PICK ws : Working(chain, frames, ws, nextOp, nodes) /\ Holding(chain, frames[1], ws[1], nextOp)
  BY <1>1 DEF FixInv, Reached
<1>3. operand - 1 = nextOp
  BY <1>1, GivenIs DEF FixInv, Cursors
<1> QED
  BY <1>2, <1>3, Innermost DEF Working, Level

\* The outermost level has read the whole chain.
LEMMA WholeReturned ==
    ASSUME FixInv, Return, Level.kind = "whole"
    PROVE  FixInv'
<1>1. Given' /\ N' = N
  BY GivenStays DEF Return
<1>2. /\ status = "continue" /\ status' = "grouped"
      /\ UNCHANGED <<chain, use, nextOp, operand, frames, nodes>>
      /\ nextOp <= N => ~Mixed(chain.ops[nextOp]) /\ ~Consumed(chain.ops[nextOp])
  BY DEF Return
<1>3. PICK ws : /\ Working(chain, frames, ws, nextOp, nodes) /\ Holding(chain, Level, ws[1], nextOp)
                /\ frames # <<>> /\ Len(frames) = 1 /\ Outermost(Level, ws[1]) /\ Level \in Levels(chain)
                /\ operand - 1 = nextOp
  BY AtReturn
<1>4. nextOp = N + 1
  <2>1. ~(nextOp \in 1..N)
    BY <1>2, <1>3, LeftFits DEF Outermost
  <2> QED
    BY <2>1, GivenIs
<1>5. PICK h : h = ws[1].read
  OBVIOUS
<1>6. h.nodes = nodes /\ h.root = RootOf(chain, Level) /\ Level.from = 1 /\ Signed(Level) = TRUE
      /\ (Level.negated => Level.last = 0)
  BY <1>3, <1>5 DEF Holding, Working, Outermost, Signed
<1>7. h \in Phrase(chain, 1, N + 1, TRUE)
  BY <1>3, <1>4, <1>5, <1>6, Zenon DEF Holding
<1>8. h.root # Operand
  <2>1. ChainOK(chain) /\ 1 \in 1..Len(chain.neg) /\ N + 1 \in 1..Len(chain.neg) /\ 1 <= N + 1
    BY GivenIs
  <2>2. Lowest(Within(chain, 1, N + 1, TRUE), h.root)
    BY <1>7, <2>1, LowestRoot
  <2>3. Within(chain, 1, N + 1, TRUE) # {}
    <3>1. CASE N = 0
      <4>1. chain.neg[1]
        BY <3>1 DEF FixInv, Given
      <4>2. MinusAtom(1) \in Within(chain, 1, N + 1, TRUE)
        BY <2>1, <4>1, WithinMinus DEF Divides
      <4> QED
        BY <4>2
    <3>2. CASE N # 0
      <4>1. PICK i \in 1..((N + 1) - 1) : i = 1
        BY <3>2, GivenIs
      <4>3. Divides(Within(chain, 1, N + 1, TRUE), OpAtom(chain, i), Within(chain, 1, i, TRUE),
                    Within(chain, i + 1, N + 1, TRUE))
        BY <2>1, WithinJoin
      <4>2. OpAtom(chain, i) \in Within(chain, 1, N + 1, TRUE)
        BY <4>3 DEF Divides
      <4> QED
        BY <4>2
    <3> QED
      BY <3>1, <3>2
  <2> QED
    BY <2>2, <2>3 DEF Lowest
<1>9. h.root = RootAt(chain, Level)
  BY <1>6, <1>8 DEF RootOf, RootAt
<1>10. Whole(chain, frames, nodes)
  <2>1. h \in Groupings(chain)
    BY <1>7, GivenIs DEF Groupings, Phrase
  <2>2. Level = Head(frames)
    BY DEF Level
  <2> QED
    BY <1>3, <1>6, <1>9, <2>1, <2>2 DEF Whole
<1>11. Cursors' /\ Filled'
  BY <1>1, <1>2, <1>4 DEF FixInv, Cursors, Filled
<1>12. Reached'
  BY <1>2, <1>10 DEF Reached
<1> QED
  BY <1>1, <1>11, <1>12 DEF FixInv

\* The node of an operator, and that of a minus, lie on the chain.
LEMMA NodesOnChain ==
    ASSUME FixInv, NEW i \in 0..(N + 1), NEW a \in 1..(N + 1)
    PROVE  OpNode(i, a, nextOp) \in ChainNodes(chain) /\ MinusNode(a, nextOp) \in ChainNodes(chain)
BY GivenIs DEF OpNode, MinusNode, ChainNodes, Nodes

\* A right operand is returned: its operator joins it to what stands before.
LEMMA OperandReturned ==
    ASSUME FixInv, Return, Level.kind = "rhs"
    PROVE  FixInv'
<1>1. Given' /\ N' = N
  BY GivenStays DEF Return
<1>2. PICK B : B = frames[2]
  OBVIOUS
<1>3. PICK ws : /\ Working(chain, frames, ws, nextOp, nodes) /\ Holding(chain, Level, ws[1], nextOp)
                /\ frames # <<>> /\ Len(frames) >= 2 /\ Level \in Levels(chain) /\ B \in Levels(chain)
                /\ ws[1] \in Works /\ ws[2] \in Works /\ Link(chain, Level, B, ws[1], ws[2])
                /\ operand - 1 = nextOp
  BY <1>2, AtReturn
<1>4. PICK p \in 1..N : p = Level.parent
  BY <1>3, GivenIs DEF Link
<1>5. PICK a \in 1..(N + 1) : a = B.from
  BY <1>3, GivenIs DEF Levels
<1>6. PICK nd : nd = OpNode(p, a, nextOp)
  OBVIOUS
<1>7. PICK G : G = [B EXCEPT !.negated = FALSE, !.last = p]
  OBVIOUS
<1>8. /\ status = "continue" /\ status' = status /\ nodes' = nodes \cup {nd}
      /\ frames' = <<G>> \o Tail(Tail(frames))
      /\ UNCHANGED <<chain, use, nextOp, operand>>
      /\ nextOp <= N => ~Mixed(chain.ops[nextOp]) /\ ~Consumed(chain.ops[nextOp])
  BY <1>2, <1>3, <1>4, <1>5, <1>6, <1>7 DEF Return
<1>9. /\ G \in Levels(chain) /\ SameLevel(B, G) /\ ~G.negated /\ G.last = p
  <2>1. p \in 0..Len(chain.ops)
    BY GivenIs
  <2> QED
    BY <1>3, <1>7, <2>1 DEF Levels, SameLevel
<1>10. PICK l, r : l = ws[2].read /\ r = ws[1].read
  OBVIOUS
<1>11. PICK f : f = chain.ops[p]
  OBVIOUS
<1>12. PICK s \in BOOLEAN : s = Signed(B)
  BY DEF Signed
<1>13. /\ Level.from = p + 1 /\ a <= p /\ Level.min = Right(f)
       /\ l \in Phrase(chain, a, p, s) /\ Fits(l.root, f, "left") /\ Suits(chain, f, B)
  BY <1>3, <1>4, <1>5, <1>10, <1>11, <1>12 DEF Link
<1>14. p + 1 <= nextOp /\ Fits(r.root, f, "right") /\ Signed(Level) = TRUE
  BY <1>3, <1>4, <1>10, <1>11, <1>13 DEF Holding, Suits, Signed
<1>15. r \in Phrase(chain, p + 1, nextOp, TRUE)
  BY <1>3, <1>10, <1>13, <1>14, Zenon DEF Holding
<1>16. PICK h : h = [root |-> f, nodes |-> l.nodes \cup r.nodes \cup {nd}]
  OBVIOUS
<1>17. h \in Phrase(chain, a, nextOp, s) /\ h \in AnyPhrase
  <2>1. /\ ChainOK(chain) /\ a \in 1..Len(chain.neg) /\ nextOp \in 1..Len(chain.neg) /\ a <= nextOp
        /\ p \in a..(nextOp - 1)
    BY <1>13, <1>14, GivenIs
  <2>2. h \in Phrase(chain, a, nextOp, s)
    BY <1>6, <1>11, <1>13, <1>14, <1>15, <1>16, <2>1, JoinPhrase
  <2> QED
    BY <2>1, <2>2, PhraseIs
<1>18. PICK u : u = [read |-> h, all |-> ws[1].all \cup {nd}]
  OBVIOUS
<1>19. nd \in ChainNodes(chain)
  <2>1. p \in 0..(N + 1)
    BY GivenIs
  <2> QED
    BY <1>6, <2>1, NodesOnChain
<1>20. u \in Works
  BY <1>3, <1>17, <1>18, <1>19 DEF Works, ChainNodes
<1>21. /\ u.read.nodes = ws[2].read.nodes \cup ws[1].read.nodes \cup {nd} /\ u.all = ws[1].all \cup {nd}
       /\ u.read = h
  BY <1>10, <1>16, <1>18
<1>22. PICK g, v : g = <<G>> \o Tail(Tail(frames)) /\ v = <<u>> \o Tail(Tail(ws))
  OBVIOUS
<1>23. Linked(chain, frames, ws) /\ Nested(frames, nextOp) /\ ws[1].all = nodes
  BY <1>3 DEF Working
<1>24. Linked(chain, g, v)
  BY <1>2, <1>3, <1>9, <1>20, <1>21, <1>22, <1>23, Returned
<1>25. frames \in Seq(Levels(chain)) /\ ws \in Seq(Works) /\ Len(ws) = Len(frames)
  BY <1>23 DEF Linked
<1>26. Nested(g, nextOp)
  BY <1>2, <1>3, <1>9, <1>22, <1>23, <1>25, GivenIs, NestedReturned
<1>27. InPlaceOfTwo(Levels(chain), G, frames, g) /\ InPlaceOfTwo(Works, u, ws, v)
  BY <1>3, <1>9, <1>20, <1>22, <1>25, Popped
<1>28. g \in Seq(Levels(chain)) /\ g[1] = G /\ v[1] = u
  BY <1>27 DEF InPlaceOfTwo
<1>29. Working(chain, g, v, nextOp, nodes \cup {nd})
  BY <1>21, <1>23, <1>24, <1>26, <1>28 DEF Working
<1>30. Holding(chain, G, u, nextOp)
  <2>1. G.from = a /\ Signed(G) = s /\ RootOf(chain, G) = f
    BY <1>5, <1>9, <1>11, <1>12, GivenIs DEF SameLevel, Signed, RootOf
  <2>2. Suits(chain, f, G)
    BY <1>9, <1>13 DEF Suits, SameLevel
  <2>3. nextOp <= N => Fits(f, chain.ops[nextOp], "left")
    BY <1>4, <1>8, <1>11, <1>13, GivenIs, LeftFits
  <2>4. u.read \in Phrase(chain, G.from, nextOp, Signed(G))
    BY <1>17, <1>21, <2>1, Zenon
  <2>5. u.read.root = RootOf(chain, G) /\ Suits(chain, RootOf(chain, G), G)
    BY <1>16, <1>21, <2>1, <2>2
  <2>6. G.from <= nextOp
    BY <1>13, <1>14, <2>1, GivenIs
  <2> QED
    BY <1>9, <1>11, <2>3, <2>4, <2>5, <2>6, GivenIs DEF Holding
<1>31. Cursors'
  BY <1>1, <1>8 DEF FixInv, Cursors
<1>32. Filled'
  BY <1>8, <1>19, <1>22, <1>28 DEF FixInv, Filled
<1>33. \E z : Working(chain', frames', z, nextOp', nodes') /\ Holding(chain', frames'[1], z[1], nextOp')
  BY <1>8, <1>22, <1>28, <1>29, <1>30
<1>34. Reached'
  BY <1>8, <1>33 DEF Reached
<1> QED
  BY <1>1, <1>31, <1>32, <1>34 DEF FixInv

\* The operand of a minus is returned: the minus stands over it.
LEMMA MinusReturned ==
    ASSUME FixInv, Return, Level.kind = "minus"
    PROVE  FixInv'
<1>1. Given' /\ N' = N
  BY GivenStays DEF Return
<1>2. PICK B : B = frames[2]
  OBVIOUS
<1>3. PICK ws : /\ Working(chain, frames, ws, nextOp, nodes) /\ Holding(chain, Level, ws[1], nextOp)
                /\ frames # <<>> /\ Len(frames) >= 2 /\ Level \in Levels(chain) /\ B \in Levels(chain)
                /\ ws[1] \in Works /\ ws[2] \in Works /\ Link(chain, Level, B, ws[1], ws[2])
                /\ operand - 1 = nextOp
  BY <1>2, AtReturn
<1>4. PICK a \in 1..(N + 1) : a = Level.from
  BY <1>3, GivenIs DEF Levels
<1>5. PICK nd : nd = MinusNode(a, nextOp)
  OBVIOUS
<1>6. PICK G : G = [B EXCEPT !.negated = TRUE]
  OBVIOUS
<1>7. /\ status = "continue" /\ status' = status /\ nodes' = nodes \cup {nd}
      /\ frames' = <<G>> \o Tail(Tail(frames))
      /\ UNCHANGED <<chain, use, nextOp, operand>>
      /\ nextOp <= N => ~Mixed(chain.ops[nextOp]) /\ ~Consumed(chain.ops[nextOp])
  BY <1>2, <1>3, <1>4, <1>5, <1>6 DEF Return
<1>8. /\ G \in Levels(chain) /\ SameLevel(B, G) /\ G.negated /\ G.last = B.last
  BY <1>3, <1>6 DEF Levels, SameLevel
<1>9. /\ a = B.from /\ chain.neg[a] /\ Level.parent = 0 /\ Level.min = 14
      /\ Signed(B) = TRUE /\ B.last = 0 /\ ws[2].read = Bare /\ Suits(chain, Minus, B)
  BY <1>3, <1>4 DEF Link, Signed
<1>10. PICK k : k = ws[1].read
  OBVIOUS
<1>11. a <= nextOp /\ Fits(k.root, Minus, "right") /\ Signed(Level) = FALSE
  BY <1>3, <1>4, <1>10 DEF Holding, Suits, Signed
<1>12. k \in Phrase(chain, a, nextOp, FALSE)
  BY <1>3, <1>4, <1>10, <1>11, Zenon DEF Holding
<1>13. PICK h : h = [root |-> Minus, nodes |-> k.nodes \cup {nd}]
  OBVIOUS
<1>14. h \in Phrase(chain, a, nextOp, TRUE) /\ h \in AnyPhrase
  <2>1. ChainOK(chain) /\ a \in 1..Len(chain.neg) /\ nextOp \in 1..Len(chain.neg)
    BY GivenIs
  <2>2. h \in Phrase(chain, a, nextOp, TRUE)
    BY <1>5, <1>9, <1>11, <1>12, <1>13, <2>1, MinusPhrase
  <2> QED
    BY <1>11, <2>1, <2>2, PhraseIs
<1>15. PICK u : u = [read |-> h, all |-> ws[1].all \cup {nd}]
  OBVIOUS
<1>16. nd \in ChainNodes(chain)
  <2>1. 0 \in 0..(N + 1)
    BY GivenIs
  <2> QED
    BY <1>5, <2>1, NodesOnChain
<1>17. u \in Works
  BY <1>3, <1>14, <1>15, <1>16 DEF Works, ChainNodes
<1>18. /\ u.read.nodes = ws[2].read.nodes \cup ws[1].read.nodes \cup {nd} /\ u.all = ws[1].all \cup {nd}
       /\ u.read = h
  BY <1>9, <1>10, <1>13, <1>15 DEF Bare
<1>19. PICK g, v : g = <<G>> \o Tail(Tail(frames)) /\ v = <<u>> \o Tail(Tail(ws))
  OBVIOUS
<1>20. Linked(chain, frames, ws) /\ Nested(frames, nextOp) /\ ws[1].all = nodes
  BY <1>3 DEF Working
<1>21. Linked(chain, g, v)
  BY <1>2, <1>3, <1>8, <1>17, <1>18, <1>19, <1>20, Returned
<1>22. frames \in Seq(Levels(chain)) /\ ws \in Seq(Works) /\ Len(ws) = Len(frames)
  BY <1>20 DEF Linked
<1>23. Nested(g, nextOp)
  BY <1>2, <1>3, <1>8, <1>19, <1>20, <1>22, GivenIs, NestedReturned
<1>24. InPlaceOfTwo(Levels(chain), G, frames, g) /\ InPlaceOfTwo(Works, u, ws, v)
  BY <1>3, <1>8, <1>17, <1>19, <1>22, Popped
<1>25. g \in Seq(Levels(chain)) /\ g[1] = G /\ v[1] = u
  BY <1>24 DEF InPlaceOfTwo
<1>26. Working(chain, g, v, nextOp, nodes \cup {nd})
  BY <1>18, <1>20, <1>21, <1>23, <1>25 DEF Working
<1>27. Holding(chain, G, u, nextOp)
  <2>1. G.from = a /\ Signed(G) = TRUE /\ RootOf(chain, G) = Minus
    BY <1>8, <1>9 DEF SameLevel, Signed, RootOf
  <2>2. Suits(chain, Minus, G)
    BY <1>8, <1>9 DEF Suits, SameLevel
  <2>3. nextOp <= N => chain.ops[nextOp].prec <= 6
    BY <1>7, <1>9, GivenIs, LeftFits
  <2>4. u.read \in Phrase(chain, G.from, nextOp, Signed(G))
    BY <1>14, <1>18, <2>1, Zenon
  <2>5. u.read.root = RootOf(chain, G) /\ Suits(chain, RootOf(chain, G), G)
    BY <1>13, <1>18, <2>1, <2>2
  <2> QED
    BY <1>8, <1>9, <1>11, <2>1, <2>3, <2>4, <2>5, GivenIs DEF Holding
<1>28. Cursors'
  BY <1>1, <1>7 DEF FixInv, Cursors
<1>29. Filled'
  BY <1>7, <1>16, <1>19, <1>25 DEF FixInv, Filled
<1>30. \E z : Working(chain', frames', z, nextOp', nodes') /\ Holding(chain', frames'[1], z[1], nextOp')
  BY <1>7, <1>19, <1>25, <1>26, <1>27
<1>31. Reached'
  BY <1>7, <1>30 DEF Reached
<1> QED
  BY <1>1, <1>28, <1>29, <1>31 DEF FixInv

\* A section is settled by what stands at the root of its operand.
LEMMA SectionChecked ==
    ASSUME FixInv, CheckSection
    PROVE  FixInv'
<1>1. Given' /\ N' = N
  BY GivenStays DEF CheckSection, Stop
<1>2. /\ status = "grouped" /\ use.side # "expr"
      /\ status' = IF OperandFits(use.op, use.side, RootFixity) THEN "accepted" ELSE "section"
      /\ UNCHANGED <<chain, use, nextOp, operand, frames, nodes>>
  BY DEF CheckSection, Stop
<1>3. Whole(chain, frames, nodes)
  BY <1>2 DEF FixInv, Reached
<1>4. RootFixity = RootAt(chain, Head(frames))
  BY DEF RootFixity, RootAt, Level
<1>5. Cursors' /\ Filled'
  BY <1>1, <1>2 DEF FixInv, Cursors, Filled
<1>6. Reached'
  <2>1. CASE OperandFits(use.op, use.side, RootAt(chain, Head(frames)))
    <3>1. status' = "accepted" /\ OperandFits(use'.op, use'.side, RootAt(chain', Head(frames')))
      BY <1>2, <1>4, <2>1
    <3>2. Whole(chain', frames', nodes')
      BY <1>2, <1>3
    <3> QED
      BY <1>2, <3>1, <3>2 DEF Reached
  <2>2. CASE ~OperandFits(use.op, use.side, RootAt(chain, Head(frames)))
    <3>1. status' = "section" /\ ~OperandFits(use'.op, use'.side, RootAt(chain', Head(frames')))
      BY <1>2, <1>4, <2>2
    <3>2. Whole(chain', frames', nodes')
      BY <1>2, <1>3
    <3> QED
      BY <1>2, <3>1, <3>2 DEF Reached
  <2> QED
    BY <2>1, <2>2
<1> QED
  BY <1>1, <1>5, <1>6 DEF FixInv

\* A step that changes nothing keeps the invariant.
LEMMA FixStutter ==
    ASSUME FixInv, UNCHANGED fixVars
    PROVE  FixInv'
<1>1. UNCHANGED <<chain, use, nextOp, operand, frames, nodes, status>>
  BY DEF fixVars
<1>2. Given' /\ N' = N
  BY <1>1, GivenStays
<1>3. Cursors' /\ Filled'
  BY <1>1, <1>2 DEF FixInv, Cursors, Filled
<1>4. Reached'
  BY <1>1, <1>2 DEF FixInv, Reached
<1> QED
  BY <1>2, <1>3, <1>4 DEF FixInv

\* Every step of the grouping (fixity.rs 122-261, 385-421) keeps the phrases its
\* levels have read, and what it refuses has no grouping.
THEOREM FixInvInductive ==
    ASSUME FixityAssumption, FixInv, [FixNext]_fixVars
    PROVE  FixInv'
<1>1. CASE RejectSectionMinus \/ Group
  BY <1>1, Started
<1>2. CASE RejectMinus
  BY <1>2, MinusRefused
<1>3. CASE ReadOperand
  BY <1>3, OperandRead
<1>4. CASE RejectAfterMinus
  BY <1>4, AfterMinusRefused
<1>5. CASE RejectMixed
  BY <1>5, MixedRefused
<1>6. CASE TooDeep
  BY <1>6, DepthRefused
<1>7. CASE Take
  BY <1>7, OperatorTaken
<1>8. CASE Return
  <2>1. Level.kind \in {"whole", "rhs", "minus"}
    BY <1>8, AtReturn DEF Levels
  <2> QED
    BY <1>8, <2>1, WholeReturned, OperandReturned, MinusReturned
<1>9. CASE CheckSection
  BY <1>9, SectionChecked
<1>10. CASE Done \/ UNCHANGED fixVars
  BY <1>10, FixStutter DEF Done
<1> QED
  BY <1>1, <1>2, <1>3, <1>4, <1>5, <1>6, <1>7, <1>8, <1>9, <1>10 DEF FixNext

\* ... so it holds throughout.
THEOREM FixInvHolds == FixSpec => []FixInv
<1>1. FixInit => FixInv
  BY FixityAssumption, FixInvInit
<1>2. FixInv /\ [FixNext]_fixVars => FixInv'
  BY FixityAssumption, FixInvInductive
<1> QED
  BY <1>1, <1>2, PTL DEF FixSpec

\* The two cursors advance together, and nodes and levels stay on the chain
\* (fixity.rs 122-261): the type invariant, for chains of every length.
THEOREM FixTypes == FixSpec => []FixTypeOK
<1>1. FixInv => FixTypeOK
  <2> SUFFICES ASSUME FixInv
               PROVE  FixTypeOK
    OBVIOUS
  <2>1. N \in Nat /\ nextOp \in 1..(N + 1) /\ Len(chain.ops) = N
    BY GivenIs
  <2>2. operand = (IF status \in {"start", "prefix"} \/ status = "minus_rhs" THEN nextOp ELSE nextOp + 1)
        /\ operand \in 1..(N + 2)
        /\ (status \in {"grouped", "accepted", "section"} => nextOp = N + 1)
        /\ status \in {"start", "prefix", "continue", "grouped", "accepted", "minus_rhs",
                       "minus_lhs", "conflict", "too_deep", "section"}
    BY <2>1 DEF FixInv, Cursors
  <2>3. ASSUME NEW i \in DOMAIN frames
        PROVE  /\ frames[i].kind \in {"whole", "rhs", "minus"}
               /\ frames[i].parent \in 0..N /\ frames[i].last \in 0..N
    <3>1. frames[i] \in Levels(chain)
      BY DEF FixInv, Filled
    <3> QED
      BY <2>1, <3>1 DEF Levels
  <2>4. \A x \in nodes : x.from \in 1..(N + 1) /\ x.to \in 1..(N + 1)
    BY <2>1 DEF FixInv, Filled, ChainNodes
  <2> QED
    BY <2>1, <2>2, <2>3, <2>4 DEF FixTypeOK
<1> QED
  BY <1>1, FixInvHolds, PTL

-------------------------------------------------------------------------------
(* The grouping of types *)

Calls(ops) == (0..Len(ops)) \X (1..(Len(ops) + 1)) \X (1..(Len(ops) + 1)) \X (0..10)
Stops(ops) == [next : 1..(Len(ops) + 1), nodes : SUBSET Nodes]

\* What a call of climb is, by the calls it makes.
ClimbBody(ops, climb, left, from, next, min) ==
    LET rhs == climb[<<left - 1, next + 1, next + 1, NextMin(ops[next])>>]
        rest == climb[<<left - 1, from, rhs.next, min>>]
    IN IF left = 0 \/ next > Len(ops) \/ ops[next].prec < min
       THEN [next |-> next, nodes |-> {}]
       ELSE [next |-> rest.next,
             nodes |-> rhs.nodes \cup rest.nodes \cup {OpNode(next, from, rhs.next)}]

\* A call of climb, taken apart.
LEMMA CallIs ==
    ASSUME NEW ops \in Seq(AnyFixity), NEW q \in Calls(ops)
    PROVE  \E left \in 0..Len(ops), from \in 1..(Len(ops) + 1), next \in 1..(Len(ops) + 1), min \in 0..10 :
              /\ q = <<left, from, next, min>>
              /\ q[1] = left /\ q[2] = from /\ q[3] = next /\ q[4] = min
BY DEF Calls

\* The minimum of a right operand is one.
LEMMA NextMinIs ==
    ASSUME NEW f \in AnyFixity
    PROVE  NextMin(f) \in 0..10
BY DEF NextMin, AnyFixity

\* A table that does what climb does, one operator after another.
LEMMA ClimbExists ==
    ASSUME NEW ops \in Seq(AnyFixity)
    PROVE  \E climb : climb = [q \in Calls(ops) |-> ClimbBody(ops, climb, q[1], q[2], q[3], q[4])]
<1>1. PICK n \in Nat : n = Len(ops)
  OBVIOUS
<1> DEFINE Posts == (1..(n + 1)) \X (1..(n + 1)) \X (0..10)
           T == [Posts -> Stops(ops)]
           Next(g, from, next, min) ==
              LET rhs == g[<<next + 1, next + 1, NextMin(ops[next])>>]
                  rest == g[<<from, rhs.next, min>>]
              IN IF next > n \/ ops[next].prec < min
                 THEN [next |-> next, nodes |-> {}]
                 ELSE [next |-> rest.next,
                       nodes |-> rhs.nodes \cup rest.nodes \cup {OpNode(next, from, rhs.next)}]
<1>2. PICK start : start = [p \in Posts |-> [next |-> p[2], nodes |-> {}]]
  OBVIOUS
<1>3. start \in T
  <2>1. \A p \in Posts : p[2] \in 1..(n + 1)
    OBVIOUS
  <2> QED
    BY <1>1, <1>2, <2>1 DEF Stops
<1>4. PICK step : step = [g \in T |-> [p \in Posts |-> Next(g, p[1], p[2], p[3])]]
  OBVIOUS
<1>5. ASSUME NEW g \in T, NEW from \in 1..(n + 1), NEW next \in 1..(n + 1), NEW min \in 0..10
      PROVE  Next(g, from, next, min) \in Stops(ops)
  <2>1. CASE next > n \/ ops[next].prec < min
    BY <1>1, <2>1 DEF Stops
  <2>2. CASE ~(next > n \/ ops[next].prec < min)
    <3>1. next \in 1..n /\ ops[next] \in AnyFixity /\ next + 1 \in 1..(n + 1)
      BY <1>1, <2>2
    <3>2. PICK m \in 0..10 : m = NextMin(ops[next])
      BY <3>1, NextMinIs
    <3>3. PICK rhs \in Stops(ops) : rhs = g[<<next + 1, next + 1, m>>]
      BY <3>1
    <3>4. rhs.next \in 1..(n + 1) /\ rhs.nodes \in SUBSET Nodes
      BY <1>1, <3>3 DEF Stops
    <3>5. PICK rest \in Stops(ops) : rest = g[<<from, rhs.next, min>>]
      BY <3>4
    <3>6. rest.next \in 1..(n + 1) /\ rest.nodes \in SUBSET Nodes
      BY <1>1, <3>5 DEF Stops
    <3>7. OpNode(next, from, rhs.next) \in Nodes
      BY <3>1, <3>4 DEF OpNode, Nodes
    <3>8. Next(g, from, next, min) =
             [next |-> rest.next, nodes |-> rhs.nodes \cup rest.nodes \cup {OpNode(next, from, rhs.next)}]
      BY <2>2, <3>2, <3>3, <3>5
    <3> HIDE DEF Next
    <3> QED
      BY <1>1, <3>4, <3>6, <3>7, <3>8 DEF Stops
  <2> QED
    BY <2>1, <2>2
<1> HIDE DEF Next
<1>6. step \in [T -> T]
  <2>1. ASSUME NEW g \in T, NEW p \in Posts
        PROVE  Next(g, p[1], p[2], p[3]) \in Stops(ops)
    <3>1. p[1] \in 1..(n + 1) /\ p[2] \in 1..(n + 1) /\ p[3] \in 0..10
      OBVIOUS
    <3> HIDE DEF Posts, T
    <3> QED
      BY <1>5, <3>1
  <2> HIDE DEF Posts
  <2> QED
    BY <1>4, <2>1
<1> HIDE DEF T
<1>7. PICK F : GoesUp(F, n, T, start, step)
  BY <1>3, <1>6, DefinedUp
<1>8. F \in [0..n -> T] /\ F[0] = start /\ \A i \in 1..n : F[i] = step[F[i - 1]]
  BY <1>7 DEF GoesUp
<1>9. \A from \in 1..(n + 1), next \in 1..(n + 1), min \in 0..10 :
         F[0][<<from, next, min>>] = [next |-> next, nodes |-> {}]
  <2> TAKE from \in 1..(n + 1), next \in 1..(n + 1), min \in 0..10
  <2>1. PICK p : p = <<from, next, min>>
    OBVIOUS
  <2>2. p \in Posts /\ p[2] = next
    BY <2>1
  <2> HIDE DEF Posts
  <2> QED
    BY <1>2, <1>8, <2>1, <2>2
<1>10. ASSUME NEW i \in 1..n, NEW from \in 1..(n + 1), NEW next \in 1..(n + 1), NEW min \in 0..10
       PROVE  F[i][<<from, next, min>>] = Next(F[i - 1], from, next, min)
  <2>1. PICK p : p = <<from, next, min>>
    OBVIOUS
  <2>4. p \in Posts /\ p[1] = from /\ p[2] = next /\ p[3] = min
    BY <2>1
  <2>2. F[i - 1] \in T /\ F[i] = step[F[i - 1]]
    BY <1>8
  <2> HIDE DEF Posts
  <2>3. F[i] = [q \in Posts |-> Next(F[i - 1], q[1], q[2], q[3])]
    BY <1>4, <2>2
  <2> QED
    BY <2>1, <2>3, <2>4
<1>11. PICK climb : climb = [q \in Calls(ops) |-> F[q[1]][<<q[2], q[3], q[4]>>]]
  OBVIOUS
<1>12. ASSUME NEW left \in 0..n, NEW from \in 1..(n + 1), NEW next \in 1..(n + 1), NEW min \in 0..10
       PROVE  climb[<<left, from, next, min>>] = F[left][<<from, next, min>>]
  <2>1. PICK q : q = <<left, from, next, min>>
    OBVIOUS
  <2>2. q \in Calls(ops) /\ q[1] = left /\ q[2] = from /\ q[3] = next /\ q[4] = min
    BY <1>1, <2>1 DEF Calls
  <2> QED
    BY <1>11, <2>1, <2>2
<1>13. ASSUME NEW q \in Calls(ops)
       PROVE  climb[q] = ClimbBody(ops, climb, q[1], q[2], q[3], q[4])
  <2>1. PICK left \in 0..n, from \in 1..(n + 1), next \in 1..(n + 1), min \in 0..10 :
           q = <<left, from, next, min>> /\ q[1] = left /\ q[2] = from /\ q[3] = next /\ q[4] = min
    BY <1>1, CallIs
  <2>2. climb[q] = F[left][<<from, next, min>>]
    BY <1>12, <2>1
  <2>3. CASE left = 0
    BY <1>9, <2>1, <2>2, <2>3 DEF ClimbBody
  <2>4. CASE left # 0
    <3>1. left \in 1..n /\ left - 1 \in 0..n
      BY <2>4
    <3>2. climb[q] = Next(F[left - 1], from, next, min)
      BY <1>10, <2>2, <3>1
    <3>3. CASE next > n \/ ops[next].prec < min
      BY <1>1, <2>1, <3>2, <3>3 DEF ClimbBody, Next
    <3>4. CASE ~(next > n \/ ops[next].prec < min)
      <4>1. next \in 1..n /\ ops[next] \in AnyFixity /\ next + 1 \in 1..(n + 1)
        BY <1>1, <3>4
      <4>2. PICK m \in 0..10 : m = NextMin(ops[next])
        BY <4>1, NextMinIs
      <4>3. PICK rhs : rhs = F[left - 1][<<next + 1, next + 1, m>>]
        OBVIOUS
      <4>4. climb[<<left - 1, next + 1, next + 1, m>>] = rhs
        BY <1>12, <3>1, <4>1, <4>3
      <4>5. rhs \in Stops(ops)
        <5>1. F[left - 1] \in [Posts -> Stops(ops)]
          BY <1>8, <3>1 DEF T
        <5>2. <<next + 1, next + 1, m>> \in Posts
          BY <4>1
        <5> HIDE DEF Posts
        <5> QED
          BY <4>3, <5>1, <5>2
      <4>6. rhs.next \in 1..(n + 1)
        BY <1>1, <4>5 DEF Stops
      <4>7. PICK rest : rest = F[left - 1][<<from, rhs.next, min>>]
        OBVIOUS
      <4>8. climb[<<left - 1, from, rhs.next, min>>] = rest
        BY <1>12, <3>1, <4>6, <4>7
      <4>9. Next(F[left - 1], from, next, min) =
               [next |-> rest.next, nodes |-> rhs.nodes \cup rest.nodes \cup {OpNode(next, from, rhs.next)}]
        BY <3>4, <4>2, <4>3, <4>7 DEF Next
      <4>10. ClimbBody(ops, climb, left, from, next, min) =
               [next |-> rest.next, nodes |-> rhs.nodes \cup rest.nodes \cup {OpNode(next, from, rhs.next)}]
        BY <1>1, <2>4, <3>4, <4>2, <4>4, <4>8 DEF ClimbBody
      <4> QED
        BY <2>1, <3>2, <4>9, <4>10
    <3> QED
      BY <3>3, <3>4
  <2> QED
    BY <2>3, <2>4
<1>14. climb = [q \in Calls(ops) |-> climb[q]]
  BY <1>11
<1>15. [q \in Calls(ops) |-> climb[q]] = [q \in Calls(ops) |-> ClimbBody(ops, climb, q[1], q[2], q[3], q[4])]
  BY <1>13
<1>16. climb = [q \in Calls(ops) |-> ClimbBody(ops, climb, q[1], q[2], q[3], q[4])]
  BY <1>14, <1>15, Zenon
<1> QED
  BY <1>16

\* climb does what its definition says.
LEMMA ClimbIs ==
    ASSUME NEW ops \in Seq(AnyFixity),
           NEW left \in 0..Len(ops), NEW from \in 1..(Len(ops) + 1), NEW next \in 1..(Len(ops) + 1),
           NEW min \in 0..10
    PROVE  Climbing(ops)[<<left, from, next, min>>] = ClimbBody(ops, Climbing(ops), left, from, next, min)
<1>1. Climbing(ops) = CHOOSE climb :
         climb = [q \in Calls(ops) |-> ClimbBody(ops, climb, q[1], q[2], q[3], q[4])]
  BY DEF Climbing, Calls, ClimbBody
<1>2. PICK G : G = Climbing(ops)
  OBVIOUS
<1>3. G = [q \in Calls(ops) |-> ClimbBody(ops, G, q[1], q[2], q[3], q[4])]
  BY <1>1, <1>2, ClimbExists
<1>4. PICK q : q = <<left, from, next, min>>
  OBVIOUS
<1>5. q \in Calls(ops) /\ q[1] = left /\ q[2] = from /\ q[3] = next /\ q[4] = min
  BY <1>4 DEF Calls
<1>6. G[q] = ClimbBody(ops, G, left, from, next, min)
  BY <1>3, <1>5
<1> QED
  BY <1>2, <1>4, <1>6

\* Where equals associate alike, what precedence lets stand on the left fits ...
LEMMA PeaceFitsLeft ==
    ASSUME NEW c, ChainOK(c), Peaceful(Atoms(c)), NEW a \in 1..Len(c.neg), NEW q \in 1..Len(c.ops), a <= q,
           NEW h \in Phrase(c, a, q, TRUE), h.root # Operand => c.ops[q].prec < NextMin(h.root)
    PROVE  Fits(h.root, c.ops[q], "left")
<1>1. q \in 1..Len(c.neg) /\ c.ops[q] \in AnyFixity
  BY ChainIs
<1>2. h.root \in Roots /\ Lowest(Within(c, a, q, TRUE), h.root)
  BY <1>1, LowestRoot
<1>3. c.ops[q].prec \in 0..9
  BY <1>1 DEF AnyFixity
<1>4. CASE h.root = Operand
  BY <1>3, <1>4 DEF Fits, Operand
<1>5. CASE h.root # Operand
  <2>1. h.root \in AnyFixity
    BY <1>2, <1>5 DEF Roots
  <2>2. PICK R \in Within(c, a, q, TRUE) : R.fix = h.root /\ Dominates(Within(c, a, q, TRUE), R)
    BY <1>2, <1>5 DEF Lowest
  <2>3. h.root.prec \in 0..9 /\ h.root.assoc \in {"left", "right", "none"}
    BY <2>1 DEF AnyFixity
  <2>7. PICK x \in 0..9, y \in 0..9 : x = h.root.prec /\ y = c.ops[q].prec
    BY <1>3, <2>3
  <2>4. x \in 0..9 /\ y \in 0..9 /\ x >= y /\ (x = y => h.root.assoc = "left")
    <3>1. y < NextMin(h.root) /\ NextMin(h.root) = IF h.root.assoc = "left" THEN x + 1 ELSE x
      BY <1>5, <2>7 DEF NextMin
    <3> QED
      BY <2>7, <3>1
  <2>5. CASE x = y
    <3>1. R \in Atoms(c) /\ OpAtom(c, q) \in Atoms(c) /\ R.at \in Nat /\ R.at <= 2 * q - 1
      BY AtomsAre DEF Within, Atoms, Typed
    <3>2. ASSUME NEW z \in Atoms(c), R.at < z.at, z.at < OpAtom(c, q).at
          PROVE  R.fix.prec <= z.fix.prec
      <4>1. z.at \in Nat
        BY AtomsAre DEF Typed
      <4>2. First(a, TRUE) <= R.at /\ First(a, TRUE) \in Int
        BY ChainIs DEF Within, First
      <4>3. First(a, TRUE) <= z.at /\ z.at <= 2 * q - 1
        <5>1. PICK t \in Nat : t = z.at
          BY <4>1
        <5>2. t < 2 * q /\ q \in Int
          BY <3>2, <5>1, ChainIs DEF OpAtom
        <5>3. PICK u \in Nat, e \in Int : u = R.at /\ e = First(a, TRUE)
          BY <3>1, <4>2
        <5>4. e <= u /\ u < t
          BY <3>2, <4>2, <5>1, <5>3
        <5>5. e <= t /\ t <= 2 * q - 1
          BY <5>2, <5>4
        <5> QED
          BY <5>1, <5>3, <5>5
      <4>4. z \in Within(c, a, q, TRUE)
        BY <4>3 DEF Within
      <4> QED
        BY <2>2, <4>4 DEF Dominates
    <3>3. Neighbours(Atoms(c), R, OpAtom(c, q))
      <4>1. R.at < OpAtom(c, q).at
        BY <3>1, ChainIs DEF OpAtom
      <4>2. R.fix.prec = OpAtom(c, q).fix.prec
        BY <2>2, <2>5, <2>7 DEF OpAtom
      <4> QED
        BY <3>2, <4>1, <4>2 DEF Neighbours
    <3>4. Alike(R, OpAtom(c, q))
      BY <3>1, <3>3 DEF Peaceful
    <3> QED
      BY <2>2, <2>4, <2>5, <2>7, <3>4 DEF Alike, OpAtom, Fits
  <2>6. CASE x # y
    <3>1. x > y
      BY <2>4, <2>6
    <3> QED
      BY <2>7, <3>1 DEF Fits
  <2> QED
    BY <2>5, <2>6
<1> QED
  BY <1>4, <1>5

\* ... and so does what precedence lets stand on the right.
LEMMA PeaceFitsRight ==
    ASSUME NEW c, ChainOK(c), Peaceful(Atoms(c)), NEW q \in 1..Len(c.ops), NEW b \in 1..Len(c.neg),
           q + 1 <= b, NEW h \in Phrase(c, q + 1, b, TRUE),
           h.root # Operand => h.root.prec >= NextMin(c.ops[q])
    PROVE  Fits(h.root, c.ops[q], "right")
<1>1. q + 1 \in 1..Len(c.neg) /\ c.ops[q] \in AnyFixity
  BY ChainIs
<1>2. h.root \in Roots /\ Lowest(Within(c, q + 1, b, TRUE), h.root)
  BY <1>1, LowestRoot
<1>3. c.ops[q].prec \in 0..9 /\ c.ops[q].assoc \in {"left", "right", "none"}
  BY <1>1 DEF AnyFixity
<1>4. CASE h.root = Operand
  BY <1>3, <1>4 DEF Fits, Operand
<1>5. CASE h.root # Operand
  <2>1. h.root \in AnyFixity
    BY <1>2, <1>5 DEF Roots
  <2>2. PICK R \in Within(c, q + 1, b, TRUE) : R.fix = h.root /\ Dominates(Within(c, q + 1, b, TRUE), R)
    BY <1>2, <1>5 DEF Lowest
  <2>3. h.root.prec \in 0..9 /\ h.root.assoc \in {"left", "right", "none"}
    BY <2>1 DEF AnyFixity
  <2>7. PICK x \in 0..9, y \in 0..9 : x = h.root.prec /\ y = c.ops[q].prec
    BY <1>3, <2>3
  <2>4. x \in 0..9 /\ y \in 0..9 /\ x >= y /\ (x = y => c.ops[q].assoc # "left")
    <3>1. x >= NextMin(c.ops[q]) /\ NextMin(c.ops[q]) = IF c.ops[q].assoc = "left" THEN y + 1 ELSE y
      BY <1>5, <2>7 DEF NextMin
    <3> QED
      BY <2>7, <3>1
  <2>5. CASE x = y
    <3>1. R \in Atoms(c) /\ OpAtom(c, q) \in Atoms(c) /\ R.at \in Nat /\ 2 * (q + 1) - 1 <= R.at
          /\ R.at <= 2 * b - 1
      BY AtomsAre DEF Within, Atoms, Typed, First
    <3>2. ASSUME NEW z \in Atoms(c), OpAtom(c, q).at < z.at, z.at < R.at
          PROVE  R.fix.prec <= z.fix.prec
      <4>1. z.at \in Nat
        BY AtomsAre DEF Typed
      <4>2. First(q + 1, TRUE) <= z.at /\ z.at <= 2 * b - 1
        BY <1>1, <3>1, <3>2, <4>1, ChainIs DEF OpAtom, First
      <4>3. z \in Within(c, q + 1, b, TRUE)
        BY <4>2 DEF Within
      <4> QED
        BY <2>2, <4>3 DEF Dominates
    <3>3. Neighbours(Atoms(c), OpAtom(c, q), R)
      <4>1. OpAtom(c, q).at < R.at
        BY <3>1, ChainIs DEF OpAtom
      <4>2. R.fix.prec = OpAtom(c, q).fix.prec
        BY <2>2, <2>5, <2>7 DEF OpAtom
      <4> QED
        BY <3>2, <4>1, <4>2 DEF Neighbours
    <3>4. Alike(OpAtom(c, q), R)
      BY <3>1, <3>3 DEF Peaceful
    <3> QED
      BY <2>2, <2>4, <2>5, <2>7, <3>4 DEF Alike, OpAtom, Fits
  <2>6. CASE x # y
    <3>1. x > y
      BY <2>4, <2>6
    <3> QED
      BY <2>7, <3>1 DEF Fits
  <2> QED
    BY <2>5, <2>6
<1> QED
  BY <1>4, <1>5

\* What a call of climb is given, and what it answers.
Ready(c, h, next) == next <= Len(c.ops) /\ h.root # Operand => c.ops[next].prec < NextMin(h.root)
Answers(c, from, next, min, h, stop) ==
    /\ stop.next \in next..(Len(c.ops) + 1)
    /\ stop.next <= Len(c.ops) => c.ops[stop.next].prec < min
    /\ \E k \in Phrase(c, from, stop.next, TRUE) :
          /\ k.nodes = h.nodes \cup stop.nodes
          /\ k.root = h.root \/ (k.root \in AnyFixity /\ k.root.prec >= min)
Climbs(c, left) ==
    \A from, next \in 1..(Len(c.ops) + 1), min \in 0..10 :
       \A h \in Phrase(c, from, next, TRUE) :
          from <= next /\ Len(c.ops) + 1 - next <= left /\ Ready(c, h, next) =>
             Answers(c, from, next, min, h, Climbing(c.ops)[<<left, from, next, min>>])

\* Where equals associate alike, climb extends a phrase by phrases.
LEMMA ClimbsRight ==
    ASSUME NEW c, ChainOK(c), Peaceful(Atoms(c)), \A i \in 1..Len(c.neg) : ~c.neg[i],
           NEW left \in 0..Len(c.ops), left # 0 => Climbs(c, left - 1)
    PROVE  Climbs(c, left)
<1>1. PICK n \in Nat : n = Len(c.ops) /\ Len(c.neg) = n + 1
  BY ChainIs
<1>2. c.ops \in Seq(AnyFixity)
  BY DEF ChainOK
<1> SUFFICES ASSUME NEW from \in 1..(n + 1), NEW next \in 1..(n + 1), NEW min \in 0..10,
                    NEW h \in Phrase(c, from, next, TRUE),
                    from <= next, n + 1 - next <= left, Ready(c, h, next)
             PROVE  Answers(c, from, next, min, h, Climbing(c.ops)[<<left, from, next, min>>])
  BY <1>1 DEF Climbs
<1>3. PICK climb : climb = Climbing(c.ops)
  OBVIOUS
<1>4. climb[<<left, from, next, min>>] = ClimbBody(c.ops, climb, left, from, next, min)
  BY <1>1, <1>2, <1>3, ClimbIs
<1>5. CASE left = 0 \/ next > n \/ c.ops[next].prec < min
  <2>1. PICK R : R = climb[<<left, from, next, min>>]
    OBVIOUS
  <2>2. R = [next |-> next, nodes |-> {}]
    BY <1>1, <1>4, <1>5, <2>1 DEF ClimbBody
  <2>3. next <= n => c.ops[next].prec < min
    BY <1>5
  <2>4. R.next = next /\ h.nodes = h.nodes \cup R.nodes
    BY <2>2
  <2>5. /\ R.next \in next..(Len(c.ops) + 1)
        /\ R.next <= Len(c.ops) => c.ops[R.next].prec < min
    BY <1>1, <2>3, <2>4
  <2>6. h \in Phrase(c, from, R.next, TRUE)
    BY <2>4
  <2>7. Answers(c, from, next, min, h, R)
    BY <2>4, <2>5, <2>6 DEF Answers
  <2> QED
    BY <1>3, <2>1, <2>7
<1>6. CASE ~(left = 0 \/ next > n \/ c.ops[next].prec < min)
  <2>1. PICK f \in AnyFixity : f = c.ops[next] /\ next \in 1..n /\ f.prec \in Nat /\ ~(f.prec < min)
    <3>1. next \in 1..n /\ c.ops[next] \in AnyFixity
      BY <1>1, <1>2, <1>6
    <3> QED
      BY <1>6, <3>1 DEF AnyFixity
  <2>2. PICK m \in 0..10 : m = NextMin(f)
    BY NextMinIs
  <2>3. PICK e \in 1..(n + 1) : e = next + 1
    BY <2>1
  <2>4. PICK less \in 0..Len(c.ops) : less = left - 1 /\ Climbs(c, less)
    BY <1>6
  <2>5. PICK rhs : rhs = climb[<<less, e, e, m>>]
    OBVIOUS
  <2>6. Bare \in Phrase(c, e, e, TRUE) /\ Ready(c, Bare, e)
    <3>1. Bare \in Phrase(c, e, e, TRUE)
      BY <1>1, LeafPhrase
    <3> QED
      BY <3>1 DEF Ready, Bare
  <2>7. Answers(c, e, e, m, Bare, rhs)
    <3>1. e <= e /\ n + 1 - e <= less
      BY <1>6, <2>3, <2>4
    <3> QED
      BY <1>1, <1>3, <2>4, <2>5, <2>6, <3>1 DEF Climbs
  <2>8. /\ rhs.next \in e..(n + 1)
        /\ rhs.next <= n => c.ops[rhs.next].prec < m
    BY <1>1, <2>7 DEF Answers
  <2>9. PICK r \in Phrase(c, e, rhs.next, TRUE) :
           /\ r.nodes = rhs.nodes
           /\ r.root = Operand \/ (r.root \in AnyFixity /\ r.root.prec >= m)
    BY <2>7 DEF Answers, Bare
  <2>10. PICK d \in 1..(n + 1) : d = rhs.next /\ next + 1 <= d
    BY <2>3, <2>8
  <2>11. Fits(h.root, f, "left")
    <3>1. h.root # Operand => c.ops[next].prec < NextMin(h.root)
      BY <1>1, <2>1 DEF Ready
    <3>2. from \in 1..Len(c.neg) /\ next \in 1..Len(c.ops)
      BY <1>1, <2>1
    <3> QED
      BY <2>1, <3>1, <3>2, PeaceFitsLeft
  <2>12. Fits(r.root, f, "right")
    BY <1>1, <2>1, <2>2, <2>3, <2>9, <2>10, PeaceFitsRight
  <2>13. PICK j : j = [root |-> f, nodes |-> h.nodes \cup r.nodes \cup {OpNode(next, from, d)}]
    OBVIOUS
  <2>14. j \in Phrase(c, from, d, TRUE)
    <3>1. next \in from..(d - 1) /\ from <= d /\ from \in 1..Len(c.neg) /\ d \in 1..Len(c.neg)
      BY <1>1, <2>1, <2>10
    <3>2. r \in Phrase(c, next + 1, d, TRUE)
      BY <2>3, <2>9, <2>10
    <3> QED
      BY <2>1, <2>11, <2>12, <2>13, <3>1, <3>2, JoinPhrase
  <2>15. Ready(c, j, d)
    BY <1>1, <2>2, <2>8, <2>10, <2>13 DEF Ready
  <2>16. PICK rest : rest = climb[<<less, from, d, min>>]
    OBVIOUS
  <2>17. Answers(c, from, d, min, j, rest)
    <3>1. from <= d /\ n + 1 - d <= less
      BY <1>6, <2>1, <2>4, <2>10
    <3> QED
      BY <1>1, <1>3, <2>4, <2>14, <2>15, <2>16, <3>1 DEF Climbs
  <2>18. PICK k \in Phrase(c, from, rest.next, TRUE) :
            /\ k.nodes = j.nodes \cup rest.nodes
            /\ k.root = j.root \/ (k.root \in AnyFixity /\ k.root.prec >= min)
    BY <2>17 DEF Answers
  <2>19. rest.next \in d..(n + 1) /\ (rest.next <= n => c.ops[rest.next].prec < min)
    BY <1>1, <2>17 DEF Answers
  <2>20. PICK R : R = [next |-> rest.next,
                       nodes |-> rhs.nodes \cup rest.nodes \cup {OpNode(next, from, d)}]
    OBVIOUS
  <2>21. climb[<<left, from, next, min>>] = R
    BY <1>1, <1>4, <1>6, <2>1, <2>2, <2>3, <2>4, <2>5, <2>10, <2>16, <2>20 DEF ClimbBody
  <2>22. k.nodes = h.nodes \cup R.nodes
    BY <2>9, <2>13, <2>18, <2>20
  <2>23. k.root = h.root \/ (k.root \in AnyFixity /\ k.root.prec >= min)
    BY <2>1, <2>13, <2>18
  <2>24. R.next = rest.next /\ rest.next \in next..(n + 1)
    BY <2>10, <2>19, <2>20
  <2>25. Answers(c, from, next, min, h, R)
    BY <1>1, <2>18, <2>19, <2>22, <2>23, <2>24 DEF Answers
  <2> QED
    BY <1>3, <2>21, <2>25
<1> QED
  BY <1>5, <1>6

\* So a chain of types that has a grouping is given it by group_types, which never
\* refuses and asks no associativity but its own (fixity.rs 267-285).
THEOREM TypesClimbed ==
    ASSUME NEW c, ChainOK(c), \A i \in 1..Len(c.neg) : ~c.neg[i], NEW h \in Groupings(c)
    PROVE  GroupTypes(c.ops) = h.nodes
<1>1. PICK n \in Nat : n = Len(c.ops) /\ Len(c.neg) = n + 1
  BY ChainIs
<1>2. h \in Phrase(c, 1, n + 1, TRUE)
  BY <1>1 DEF Groupings, Phrase
<1>3. Peaceful(Atoms(c))
  <2> SUFFICES ASSUME NEW x \in Atoms(c), NEW y \in Atoms(c), Neighbours(Atoms(c), x, y), ~Alike(x, y)
               PROVE  FALSE
    BY DEF Peaceful
  <2>1. Groupings(c) = {}
    BY Clash
  <2> QED
    BY <2>1
<1> DEFINE S == {k \in 0..n : Climbs(c, k)}
<1>4. 0 \in S
  <2>1. 0 \in 0..Len(c.ops)
    BY <1>1
  <2> QED
    BY <1>1, <1>3, <2>1, ClimbsRight
<1>5. \A k \in 1..n : k - 1 \in S => k \in S
  BY <1>1, <1>3, ClimbsRight
<1>6. n \in S
  <2> HIDE DEF S
  <2>1. \A k \in 0..n : k \in S
    BY <1>4, <1>5, UpTo
  <2> QED
    BY <2>1
<1>7. PICK R : R = GroupTypes(c.ops)
  OBVIOUS
<1>8. PICK stop : stop = Climbing(c.ops)[<<n, 1, 1, 0>>]
  OBVIOUS
<1>9. R = stop.nodes
  BY <1>1, <1>7, <1>8 DEF GroupTypes
<1>10. Answers(c, 1, 1, 0, Bare, stop)
  <2>1. PICK e \in 1..(n + 1) : e = 1
    BY <1>1
  <2>2. Bare \in Phrase(c, e, e, TRUE) /\ Ready(c, Bare, e)
    <3>1. Bare \in Phrase(c, e, e, TRUE)
      BY <1>1, LeafPhrase
    <3> QED
      BY <3>1 DEF Ready, Bare
  <2>3. e <= e /\ n + 1 - e <= n
    BY <2>1
  <2>4. PICK m \in 0..10 : m = 0
    OBVIOUS
  <2>5. Answers(c, e, e, m, Bare, Climbing(c.ops)[<<n, e, e, m>>])
    BY <1>1, <1>6, <2>2, <2>3 DEF Climbs
  <2> QED
    BY <1>8, <2>1, <2>4, <2>5
<1>11. stop.next = n + 1
  <2>1. stop.next \in 1..(n + 1) /\ (stop.next <= n => c.ops[stop.next].prec < 0)
    BY <1>1, <1>10 DEF Answers
  <2>2. \A i \in 1..n : ~(c.ops[i].prec < 0)
    <3>1. \A i \in 1..n : c.ops[i] \in AnyFixity
      BY <1>1, ChainIs
    <3> QED
      BY <3>1 DEF AnyFixity
  <2> QED
    BY <2>1, <2>2
<1>12. PICK k \in Phrase(c, 1, n + 1, TRUE) : k.nodes = stop.nodes
  BY <1>10, <1>11 DEF Answers, Bare
<1>13. k = h
  <2>1. 1 \in 1..Len(c.neg) /\ n + 1 \in 1..Len(c.neg) /\ 1 <= n + 1
    BY <1>1
  <2> QED
    BY <1>2, <1>12, <2>1, OnePhrase
<1> QED
  BY <1>7, <1>9, <1>12, <1>13

-------------------------------------------------------------------------------
(* Sections *)

\* The nodes of a phrase lie within its span.
LEMMA NodesWithin ==
    ASSUME NEW c, ChainOK(c), NEW a \in 1..Len(c.neg), NEW b \in 1..Len(c.neg), a <= b,
           NEW s \in BOOLEAN, NEW h \in Phrase(c, a, b, s), NEW x \in h.nodes
    PROVE  a <= x.from /\ x.to <= b
<1> DEFINE Inside(e, f, k) == \A y \in k.nodes : y.from \in Nat /\ y.to \in Nat /\ e <= y.from /\ y.to <= f
           S == {p \in Signings(c) : \A k \in Phrases(c)[p] : Inside(p[1][1], p[1][2], k)}
<1>1. \A e, f \in 1..Len(c.neg), t \in BOOLEAN :
         e <= f => (<<<<e, f>>, t>> \in S <=> \A k \in Phrase(c, e, f, t) : Inside(e, f, k))
  BY SpanOf DEF Phrase
<1> HIDE DEF S
<1>2. ASSUME NEW e \in 1..Len(c.neg), NEW f \in 1..Len(c.neg), NEW t \in BOOLEAN, e <= f,
             \A i \in e..(f - 1) : <<<<e, i>>, t>> \in S /\ <<<<i + 1, f>>, TRUE>> \in S,
             t => <<<<e, f>>, FALSE>> \in S
      PROVE  <<<<e, f>>, t>> \in S
  <2> SUFFICES ASSUME NEW k \in Phrase(c, e, f, t)
               PROVE  Inside(e, f, k)
    BY <1>1, <1>2
  <2>1. CASE Leaf(c, e, f, t, k)
    BY <2>1 DEF Leaf
  <2>2. ASSUME NEW o, Negates(c, e, f, t, k, o)
        PROVE  Inside(e, f, k)
    <3>1. t = TRUE /\ o \in Phrase(c, e, f, FALSE) /\ k.nodes = o.nodes \cup {MinusNode(e, f)}
      BY <1>2, <2>2 DEF Negates
    <3>2. Inside(e, f, o)
      BY <1>1, <1>2, <3>1
    <3>3. MinusNode(e, f).from = e /\ MinusNode(e, f).to = f /\ e \in Nat /\ f \in Nat
      BY DEF MinusNode
    <3> QED
      BY <3>1, <3>2, <3>3
  <2>3. ASSUME NEW i, NEW l, NEW r, Joins(c, e, f, t, k, i, l, r)
        PROVE  Inside(e, f, k)
    <3>1. /\ i + 1 \in 1..Len(c.neg) /\ i \in 1..Len(c.neg) /\ i \in e..(f - 1) /\ e <= i /\ i + 1 <= f
      BY <1>2, <2>3, ChainIs DEF Joins
    <3>2. l \in Phrase(c, e, i, t) /\ r \in Phrase(c, i + 1, f, TRUE)
          /\ k.nodes = l.nodes \cup r.nodes \cup {OpNode(i, e, f)}
      BY <2>3 DEF Joins
    <3>3. <<<<e, i>>, t>> \in S /\ <<<<i + 1, f>>, TRUE>> \in S
      BY <1>2, <3>1
    <3>4. Inside(e, i, l)
      BY <1>1, <3>1, <3>2, <3>3
    <3>5. Inside(i + 1, f, r)
      BY <1>1, <3>1, <3>2, <3>3
    <3>6. OpNode(i, e, f).from = e /\ OpNode(i, e, f).to = f /\ e \in Nat /\ f \in Nat /\ i \in Nat
      BY <3>1 DEF OpNode
    <3>7. \A y \in l.nodes \cup r.nodes : y.from \in Nat /\ y.to \in Nat /\ e <= y.from /\ y.to <= f
      BY <3>1, <3>4, <3>5, <3>6
    <3> QED
      BY <1>2, <3>2, <3>6, <3>7
  <2> QED
    BY <1>2, <2>1, <2>2, <2>3, PhraseIs
<1>3. <<<<a, b>>, s>> \in S
  BY <1>2, OverSpans
<1> QED
  BY <1>1, <1>3

\* All operators and minuses stand within the whole chain.
LEMMA AllWithin ==
    ASSUME NEW c, ChainOK(c)
    PROVE  Within(c, 1, Len(c.neg), TRUE) = Atoms(c)
<1>1. \A i \in 1..Len(c.ops) : 1 <= 2 * i /\ 2 * i <= 2 * Len(c.neg) - 1
  BY ChainIs
<1>2. \A k \in 1..Len(c.neg) : 1 <= 2 * k - 1 /\ 2 * k - 1 <= 2 * Len(c.neg) - 1
  BY ChainIs
<1>3. \A z \in Atoms(c) : 1 <= z.at /\ z.at <= 2 * Len(c.neg) - 1
  BY <1>1, <1>2 DEF Atoms, OpAtom, MinusAtom
<1>4. First(1, TRUE) = 1
  BY DEF First
<1> QED
  BY <1>3, <1>4 DEF Within

\* A grouping means an operator over everything iff the operator binds loosest.
LEMMA MeansIffDominates ==
    ASSUME NEW c, ChainOK(c), NEW q \in 1..Len(c.ops), NEW g \in Groupings(c)
    PROVE  OpNode(q, 1, Len(c.neg)) \in g.nodes /\ MinusNode(1, Len(c.neg)) \notin g.nodes
           <=> Dominates(Atoms(c), OpAtom(c, q))
<1>1. PICK a \in 1..Len(c.neg), b \in 1..Len(c.neg) :
         a = 1 /\ b = Len(c.neg) /\ a < b /\ a <= b /\ b = Len(c.ops) + 1 /\ Len(c.ops) \in Nat
  BY ChainIs
<1>2. g \in Phrase(c, a, b, TRUE)
  BY <1>1, Zenon DEF Groupings, Phrase
<1>3. Within(c, a, b, TRUE) = Atoms(c) /\ Typed(Atoms(c)) /\ OpAtom(c, q) \in Atoms(c)
  BY <1>1, AllWithin, AtomsAre DEF Atoms
<1>4. \/ Leaf(c, a, b, TRUE, g)
      \/ \E k : Negates(c, a, b, TRUE, g, k)
      \/ \E i, l, r : Joins(c, a, b, TRUE, g, i, l, r)
  BY <1>1, <1>2, PhraseIs
<1>5. ~Leaf(c, a, b, TRUE, g)
  BY <1>1 DEF Leaf
<1>6. ASSUME NEW k, Negates(c, a, b, TRUE, g, k)
      PROVE  MinusNode(a, b) \in g.nodes /\ ~Dominates(Atoms(c), OpAtom(c, q))
  <2>1. MinusNode(a, b) \in g.nodes
    BY <1>6 DEF Negates
  <2>2. MinusAtom(a) \in Atoms(c) /\ Dominates(Atoms(c), MinusAtom(a))
    BY <1>1, <1>3, <1>6, MinusRoot
  <2>3. MinusAtom(a) # OpAtom(c, q)
    BY <1>1 DEF MinusAtom, OpAtom
  <2> QED
    BY <1>3, <2>1, <2>2, <2>3, OneDominator
<1>7. ASSUME NEW i, NEW l, NEW r, Joins(c, a, b, TRUE, g, i, l, r)
      PROVE  /\ OpNode(q, a, b) \in g.nodes <=> i = q
             /\ MinusNode(a, b) \notin g.nodes
             /\ Dominates(Atoms(c), OpAtom(c, q)) <=> i = q
  <2>1. i \in 1..Len(c.ops) /\ i + 1 \in 1..Len(c.neg) /\ i \in 1..Len(c.neg)
        /\ i \in a..(b - 1) /\ a <= i /\ i + 1 <= b
    BY <1>1, <1>7, ChainIs DEF Joins
  <2>2. OpAtom(c, i) \in Atoms(c) /\ Dominates(Atoms(c), OpAtom(c, i))
    <3>1. OpAtom(c, i) \in Within(c, a, b, TRUE) /\ Dominates(Within(c, a, b, TRUE), OpAtom(c, i))
      BY <1>1, <1>7, JoinRoot
    <3> QED
      BY <1>3, <3>1
  <2>3. Dominates(Atoms(c), OpAtom(c, q)) <=> i = q
    <3>1. ASSUME Dominates(Atoms(c), OpAtom(c, q))
          PROVE  i = q
      <4>1. OpAtom(c, i) = OpAtom(c, q)
        BY <1>3, <2>2, <3>1, OneDominator
      <4> QED
        BY <2>1, <4>1 DEF OpAtom
    <3> QED
      BY <2>2, <3>1
  <2>4. l \in Phrase(c, a, i, TRUE) /\ r \in Phrase(c, i + 1, b, TRUE)
        /\ g.nodes = l.nodes \cup r.nodes \cup {OpNode(i, a, b)}
    BY <1>7 DEF Joins
  <2>5. ASSUME NEW x \in l.nodes \cup r.nodes
        PROVE  ~(x.from = a /\ x.to = b)
    <3>1. CASE x \in l.nodes
      <4>1. x.to <= i
        BY <1>1, <2>1, <2>4, <3>1, NodesWithin
      <4> QED
        BY <2>1, <4>1
    <3>2. CASE x \in r.nodes
      <4>1. i + 1 <= x.from
        BY <1>1, <2>1, <2>4, <3>2, NodesWithin
      <4> QED
        BY <2>1, <4>1
    <3> QED
      BY <3>1, <3>2
  <2>6. OpNode(q, a, b).from = a /\ OpNode(q, a, b).to = b
        /\ MinusNode(a, b).from = a /\ MinusNode(a, b).to = b
        /\ MinusNode(a, b) # OpNode(i, a, b) /\ (OpNode(q, a, b) = OpNode(i, a, b) <=> i = q)
    BY DEF OpNode, MinusNode
  <2> QED
    BY <2>3, <2>4, <2>5, <2>6
<1> QED
  BY <1>1, <1>4, <1>5, <1>6, <1>7

\* An operator stands behind all others, or before them.
Beside(W, X, side) ==
    /\ side = "left" => \A x \in W : x.at < X.at
    /\ side = "right" => \A x \in W : X.at < x.at
OnlyOne(V, X) == \A R \in V : Dominates(V, R) => R = X

\* The operator of a section binds loosest iff it fits the root of the operand.
LEMMA SectionRoot ==
    ASSUME NEW W, NEW X, Typed(W \cup {X}), X \notin W, NEW H \in W, Dominates(W, H),
           NEW side \in {"left", "right"}, Beside(W, X, side)
    PROVE  /\ Dominates(W \cup {X}, X) => OperandFits(X.fix, side, H.fix)
           /\ OperandFits(X.fix, side, H.fix) => OnlyOne(W \cup {X}, X)
<1>1. X.fix \in AnyFixity /\ H.fix \in AnyFixity /\ X.at \in Nat /\ H.at \in Nat
  BY DEF Typed
<1>2. X.fix.prec \in Nat /\ H.fix.prec \in Nat
  BY <1>1 DEF AnyFixity
<1>3. ASSUME Dominates(W \cup {X}, X)
      PROVE  OperandFits(X.fix, side, H.fix)
  <2>1. /\ X.fix.prec <= H.fix.prec
        /\ H.fix.prec = X.fix.prec =>
              \/ H = X
              \/ H.at < X.at /\ H.fix.assoc = "left" /\ X.fix.assoc = "left"
              \/ X.at < H.at /\ H.fix.assoc = "right" /\ X.fix.assoc = "right"
    BY <1>3 DEF Dominates
  <2>2. H # X /\ (side = "left" => H.at < X.at) /\ (side = "right" => X.at < H.at)
    BY DEF Beside
  <2>3. H.fix.prec = X.fix.prec => H.fix.assoc = side
    BY <1>1, <2>1, <2>2
  <2> QED
    BY <1>2, <2>1, <2>3 DEF OperandFits
<1>4. ASSUME OperandFits(X.fix, side, H.fix), NEW R \in W, Dominates(W \cup {X}, R)
      PROVE  FALSE
  <2>1. R.fix \in AnyFixity /\ R.at \in Nat /\ R.fix.prec \in Nat
    BY DEF Typed, AnyFixity
  <2>2. /\ R.fix.prec <= X.fix.prec
        /\ X.fix.prec = R.fix.prec =>
              \/ X = R
              \/ X.at < R.at /\ X.fix.assoc = "left" /\ R.fix.assoc = "left"
              \/ R.at < X.at /\ X.fix.assoc = "right" /\ R.fix.assoc = "right"
    BY <1>4 DEF Dominates
  <2>3. /\ H.fix.prec <= R.fix.prec
        /\ R.fix.prec = H.fix.prec =>
              \/ R = H
              \/ R.at < H.at /\ R.fix.assoc = "left" /\ H.fix.assoc = "left"
              \/ H.at < R.at /\ R.fix.assoc = "right" /\ H.fix.assoc = "right"
    BY DEF Dominates
  <2>4. X.fix.prec <= H.fix.prec /\ (X.fix.prec = H.fix.prec => H.fix.assoc = side)
    BY <1>2, <1>4 DEF OperandFits
  <2>5. X.fix.prec = R.fix.prec /\ R.fix.prec = H.fix.prec
    BY <1>2, <2>1, <2>2, <2>3, <2>4
  <2>6. R.fix.assoc = side
    BY <2>3, <2>4, <2>5
  <2>7. X # R /\ (side = "left" => R.at < X.at) /\ (side = "right" => X.at < R.at)
    BY DEF Beside
  <2> QED
    BY <1>1, <2>1, <2>2, <2>5, <2>6, <2>7
<1>5. OperandFits(X.fix, side, H.fix) => OnlyOne(W \cup {X}, X)
  BY <1>4 DEF OnlyOne
<1> QED
  BY <1>3, <1>5

Moved(x) == [at |-> x.at + 2, fix |-> x.fix]

\* A chain with its section operator written behind it,
Behind(c, f) == [ops |-> Append(c.ops, f), neg |-> Append(c.neg, FALSE)]
\* ... or before it.
Before(c, f) == [ops |-> <<f>> \o c.ops, neg |-> <<FALSE>> \o c.neg]

\* What a chain with an operator behind it is made of.
LEMMA BehindIs ==
    ASSUME NEW c, ChainOK(c), NEW f \in AnyFixity, NEW e, e = Behind(c, f), NEW q, q = Len(c.ops) + 1
    PROVE  /\ ChainOK(e) /\ Len(e.ops) = q /\ Len(e.neg) = q + 1 /\ q \in 1..Len(e.ops)
           /\ Atoms(e) = Atoms(c) \cup {OpAtom(e, q)} /\ OpAtom(e, q).fix = f
           /\ \A x \in Atoms(c) : x.at < OpAtom(e, q).at
<1>1. PICK n \in Nat : n = Len(c.ops) /\ Len(c.neg) = n + 1 /\ q = n + 1
  BY ChainIs
<1>2. e.ops = Append(c.ops, f) /\ e.neg = Append(c.neg, FALSE) /\ c.ops \in Seq(AnyFixity) /\ c.neg \in Seq(BOOLEAN)
  BY DEF Behind, ChainOK
<1>3. /\ e.ops \in Seq(AnyFixity) /\ Len(e.ops) = n + 1 /\ e.ops[n + 1] = f
      /\ \A i \in 1..n : e.ops[i] = c.ops[i]
  BY <1>1, <1>2
<1>4. /\ e.neg \in Seq(BOOLEAN) /\ Len(e.neg) = n + 2 /\ e.neg[n + 2] = FALSE
      /\ \A i \in 1..(n + 1) : e.neg[i] = c.neg[i]
  <2>1. PICK s \in Seq(BOOLEAN) : s = c.neg
    BY <1>2
  <2>2. PICK t : t = Append(s, FALSE)
    OBVIOUS
  <2>3. Len(s) = n + 1
    BY <1>1, <2>1
  <2>4. t \in Seq(BOOLEAN)
    BY <2>2
  <2>5. Len(t) = n + 2
    BY <2>2, <2>3
  <2>6. t[Len(s) + 1] = FALSE /\ \A i \in 1..Len(s) : t[i] = s[i]
    BY <2>2
  <2>7. (n + 1) + 1 = n + 2
    OBVIOUS
  <2>8. t[n + 2] = FALSE /\ \A i \in 1..(n + 1) : t[i] = s[i]
    BY <2>3, <2>6, <2>7
  <2>9. e.neg = t
    BY <1>2, <2>1, <2>2
  <2> QED
    BY <2>1, <2>4, <2>5, <2>8, <2>9
<1>5. ChainOK(e)
  BY <1>3, <1>4 DEF ChainOK
<1>6. \A i \in 1..n : OpAtom(e, i) = OpAtom(c, i)
  BY <1>3 DEF OpAtom
<1>7. \A x : x \in Atoms(e) <=> \/ \E i \in 1..(n + 1) : x = OpAtom(e, i)
                                \/ \E k \in 1..(n + 2) : e.neg[k] /\ x = MinusAtom(k)
  BY <1>3, <1>4 DEF Atoms
<1>8. \A x : x \in Atoms(c) <=> \/ \E i \in 1..n : x = OpAtom(c, i)
                                \/ \E k \in 1..(n + 1) : c.neg[k] /\ x = MinusAtom(k)
  BY <1>1 DEF Atoms
<1>9. \A x : (\E i \in 1..(n + 1) : x = OpAtom(e, i)) <=> (\E i \in 1..n : x = OpAtom(c, i)) \/ x = OpAtom(e, q)
  <2>1. \A i : i \in 1..(n + 1) <=> i \in 1..n \/ i = q
    BY <1>1
  <2> QED
    BY <1>6, <2>1
<1>10. \A x : (\E k \in 1..(n + 2) : e.neg[k] /\ x = MinusAtom(k)) <=> \E k \in 1..(n + 1) : c.neg[k] /\ x = MinusAtom(k)
  <2>1. \A k : k \in 1..(n + 2) <=> k \in 1..(n + 1) \/ k = n + 2
    OBVIOUS
  <2> QED
    BY <1>4, <2>1
<1>11. Atoms(e) = Atoms(c) \cup {OpAtom(e, q)}
  BY <1>7, <1>8, <1>9, <1>10
<1>12. OpAtom(e, q).fix = f /\ OpAtom(e, q).at = 2 * n + 2
  BY <1>1, <1>3 DEF OpAtom
<1>13. \A x \in Atoms(c) : x.at < 2 * n + 2
  BY <1>8 DEF OpAtom, MinusAtom
<1> QED
  BY <1>1, <1>3, <1>4, <1>5, <1>11, <1>12, <1>13

\* What a chain with an operator before it is made of.
LEMMA BeforeIs ==
    ASSUME NEW c, ChainOK(c), NEW f \in AnyFixity, NEW e, e = Before(c, f)
    PROVE  /\ ChainOK(e) /\ Len(e.ops) = Len(c.ops) + 1 /\ Len(e.neg) = Len(c.neg) + 1
           /\ 1 \in 1..Len(e.ops) /\ e.ops[1] = f /\ e.neg[2] = c.neg[1]
           /\ Atoms(e) = {Moved(x) : x \in Atoms(c)} \cup {OpAtom(e, 1)} /\ OpAtom(e, 1).fix = f
           /\ \A x \in Atoms(c) : OpAtom(e, 1).at < Moved(x).at
<1>1. PICK n \in Nat : n = Len(c.ops) /\ Len(c.neg) = n + 1
  BY ChainIs
<1>2. e.ops = <<f>> \o c.ops /\ e.neg = <<FALSE>> \o c.neg /\ c.ops \in Seq(AnyFixity) /\ c.neg \in Seq(BOOLEAN)
  BY DEF Before, ChainOK
<1>3. /\ e.ops \in Seq(AnyFixity) /\ Len(e.ops) = n + 1 /\ e.ops[1] = f
      /\ \A i \in 1..n : e.ops[i + 1] = c.ops[i]
  BY <1>1, <1>2
<1>4. /\ e.neg \in Seq(BOOLEAN) /\ Len(e.neg) = n + 2 /\ e.neg[1] = FALSE
      /\ \A i \in 1..(n + 1) : e.neg[i + 1] = c.neg[i]
  BY <1>1, <1>2
<1>5. ChainOK(e)
  BY <1>3, <1>4 DEF ChainOK
<1>6. \A i \in 1..n : OpAtom(e, i + 1) = Moved(OpAtom(c, i))
  BY <1>3 DEF OpAtom, Moved
<1>7. \A k \in 1..(n + 1) : MinusAtom(k + 1) = Moved(MinusAtom(k))
  BY DEF MinusAtom, Moved
<1>8. \A x : x \in Atoms(e) <=> \/ \E i \in 1..(n + 1) : x = OpAtom(e, i)
                                \/ \E k \in 1..(n + 2) : e.neg[k] /\ x = MinusAtom(k)
  BY <1>3, <1>4 DEF Atoms
<1>9. \A x : x \in Atoms(c) <=> \/ \E i \in 1..n : x = OpAtom(c, i)
                                \/ \E k \in 1..(n + 1) : c.neg[k] /\ x = MinusAtom(k)
  BY <1>1 DEF Atoms
<1>10. \A x : x \in {Moved(y) : y \in Atoms(c)}
              <=> \/ \E i \in 1..n : x = Moved(OpAtom(c, i))
                  \/ \E k \in 1..(n + 1) : c.neg[k] /\ x = Moved(MinusAtom(k))
  BY <1>9
<1>11. \A x : (\E i \in 1..(n + 1) : x = OpAtom(e, i)) <=> (\E i \in 1..n : x = Moved(OpAtom(c, i))) \/ x = OpAtom(e, 1)
  <2>1. ASSUME NEW i \in 1..(n + 1), i # 1
        PROVE  \E j \in 1..n : i = j + 1
    <3>1. i - 1 \in 1..n /\ i = (i - 1) + 1
      BY <2>1
    <3> QED
      BY <3>1
  <2>2. 1 \in 1..(n + 1) /\ \A j \in 1..n : j + 1 \in 1..(n + 1)
    OBVIOUS
  <2> QED
    BY <1>6, <2>1, <2>2
<1>12. \A x : (\E k \in 1..(n + 2) : e.neg[k] /\ x = MinusAtom(k))
              <=> \E k \in 1..(n + 1) : c.neg[k] /\ x = Moved(MinusAtom(k))
  <2>1. ASSUME NEW i \in 1..(n + 2), i # 1
        PROVE  \E j \in 1..(n + 1) : i = j + 1
    <3>1. i - 1 \in 1..(n + 1) /\ i = (i - 1) + 1
      BY <2>1
    <3> QED
      BY <3>1
  <2>2. \A j \in 1..(n + 1) : j + 1 \in 1..(n + 2) /\ e.neg[j + 1] = c.neg[j] /\ MinusAtom(j + 1) = Moved(MinusAtom(j))
    <3>1. \A j \in 1..(n + 1) : j + 1 \in 1..(n + 2)
      OBVIOUS
    <3> QED
      BY <1>4, <1>7, <3>1
  <2>3. ASSUME NEW x, NEW k \in 1..(n + 2), e.neg[k], x = MinusAtom(k)
        PROVE  \E j \in 1..(n + 1) : c.neg[j] /\ x = Moved(MinusAtom(j))
    <3>1. k # 1
      BY <1>4, <2>3
    <3>2. PICK j \in 1..(n + 1) : k = j + 1
      BY <2>1, <3>1
    <3>3. c.neg[j] /\ x = Moved(MinusAtom(j))
      BY <2>2, <2>3, <3>2, Zenon
    <3> QED
      BY <3>3
  <2>4. ASSUME NEW x, NEW j \in 1..(n + 1), c.neg[j], x = Moved(MinusAtom(j))
        PROVE  \E k \in 1..(n + 2) : e.neg[k] /\ x = MinusAtom(k)
    <3>1. PICK k : k = j + 1
      OBVIOUS
    <3>2. k \in 1..(n + 2) /\ e.neg[k] /\ x = MinusAtom(k)
      BY <2>2, <2>4, <3>1, Zenon
    <3> QED
      BY <3>2
  <2> QED
    BY <2>3, <2>4, Zenon
<1>13. Atoms(e) = {Moved(x) : x \in Atoms(c)} \cup {OpAtom(e, 1)}
  <2>1. PICK M : M = {Moved(x) : x \in Atoms(c)}
    OBVIOUS
  <2>2. PICK W : W = Atoms(e)
    OBVIOUS
  <2>3. PICK X : X = OpAtom(e, 1)
    OBVIOUS
  <2>4. ASSUME NEW x
        PROVE  x \in W <=> x \in M \/ x = X
    <3>1. x \in W <=> \/ \E i \in 1..(n + 1) : x = OpAtom(e, i)
                      \/ \E k \in 1..(n + 2) : e.neg[k] /\ x = MinusAtom(k)
      BY <1>8, <2>2, Zenon
    <3>2. x \in M <=> \/ \E i \in 1..n : x = Moved(OpAtom(c, i))
                      \/ \E k \in 1..(n + 1) : c.neg[k] /\ x = Moved(MinusAtom(k))
      BY <1>10, <2>1, Zenon
    <3>3. (\E i \in 1..(n + 1) : x = OpAtom(e, i)) <=> (\E i \in 1..n : x = Moved(OpAtom(c, i))) \/ x = X
      BY <1>11, <2>3, Zenon
    <3>4. (\E k \in 1..(n + 2) : e.neg[k] /\ x = MinusAtom(k))
          <=> \E k \in 1..(n + 1) : c.neg[k] /\ x = Moved(MinusAtom(k))
      BY <1>12, Zenon
    <3> QED
      BY <3>1, <3>2, <3>3, <3>4, Zenon
  <2>5. W = M \cup {X}
    BY <2>4
  <2> QED
    BY <2>1, <2>2, <2>3, <2>5
<1>14. OpAtom(e, 1).fix = f /\ OpAtom(e, 1).at = 2
  BY <1>3 DEF OpAtom
<1>15. \A x \in Atoms(c) : 2 < Moved(x).at
  BY <1>9 DEF OpAtom, MinusAtom, Moved
<1>16. e.neg[2] = c.neg[1]
  <2>1. 1 \in 1..(n + 1) /\ 1 + 1 = 2
    OBVIOUS
  <2> QED
    BY <1>4, <2>1
<1> QED
  BY <1>1, <1>3, <1>4, <1>5, <1>13, <1>14, <1>15, <1>16


\* Where a chain is grouped, the root found for it binds loosest in it.
LEMMA WholeRoot ==
    ASSUME FixInv, status \in {"grouped", "accepted", "section"}
    PROVE  \E h \in Groupings(chain), H \in Atoms(chain) :
              h.nodes = nodes /\ H.fix = RootAt(chain, Head(frames)) /\ Dominates(Atoms(chain), H)
<1>1. PICK h \in Groupings(chain) : h.nodes = nodes /\ h.root = RootAt(chain, Head(frames))
  BY DEF FixInv, Reached, Whole
<1>2. Len(frames) = 1 /\ frames \in Seq(Levels(chain))
  BY DEF FixInv, Reached, Whole, Filled
<1>3. Head(frames) \in Levels(chain)
  BY <1>2
<1>4. h.root \in AnyFixity
  <2>1. Minus \in AnyFixity
    BY DEF Minus, AnyFixity
  <2> QED
    BY <1>1, <1>3, <2>1, GivenIs DEF RootAt, Levels
<1>5. h.root # Operand
  <2>1. h.root.prec # Operand.prec
    BY <1>4 DEF AnyFixity, Operand
  <2> QED
    BY <2>1
<1>6. PICK a \in 1..Len(chain.neg), b \in 1..Len(chain.neg) : a = 1 /\ b = Len(chain.neg) /\ a <= b /\ ChainOK(chain)
  BY GivenIs
<1>7. h \in Phrase(chain, a, b, TRUE)
  BY <1>1, <1>6, Zenon DEF Groupings, Phrase
<1>8. Lowest(Within(chain, a, b, TRUE), h.root)
  BY <1>6, <1>7, LowestRoot
<1>9. Within(chain, a, b, TRUE) = Atoms(chain)
  BY <1>6, AllWithin
<1>10. PICK H \in Atoms(chain) : H.fix = h.root /\ Dominates(Atoms(chain), H)
  BY <1>5, <1>8, <1>9 DEF Lowest
<1> QED
  BY <1>1, <1>10

\* A chain that has a grouping has something that binds loosest in it.
LEMMA GroupedDominated ==
    ASSUME NEW c, ChainOK(c), NEW g \in Groupings(c), Atoms(c) # {}
    PROVE  \E R \in Atoms(c) : Dominates(Atoms(c), R)
<1>1. PICK a \in 1..Len(c.neg), b \in 1..Len(c.neg) : a = 1 /\ b = Len(c.neg) /\ a <= b
  BY ChainIs
<1>2. g \in Phrase(c, a, b, TRUE)
  BY <1>1, Zenon DEF Groupings, Phrase
<1>3. Lowest(Within(c, a, b, TRUE), g.root) /\ Within(c, a, b, TRUE) = Atoms(c)
  BY <1>1, <1>2, LowestRoot, AllWithin
<1> QED
  BY <1>3 DEF Lowest

\* What binds loosest still does two places further on.
LEMMA MovedDominates ==
    ASSUME NEW W, Typed(W), NEW H \in W, Dominates(W, H)
    PROVE  Dominates({Moved(x) : x \in W}, Moved(H))
<1> SUFFICES ASSUME NEW x \in W
             PROVE  /\ Moved(H).fix.prec <= Moved(x).fix.prec
                    /\ Moved(x).fix.prec = Moved(H).fix.prec =>
                          \/ Moved(x) = Moved(H)
                          \/ /\ Moved(x).at < Moved(H).at
                             /\ Moved(x).fix.assoc = "left" /\ Moved(H).fix.assoc = "left"
                          \/ /\ Moved(H).at < Moved(x).at
                             /\ Moved(x).fix.assoc = "right" /\ Moved(H).fix.assoc = "right"
  BY DEF Dominates
<1>1. x.at \in Nat /\ H.at \in Nat
  BY DEF Typed
<1>2. Moved(x).fix = x.fix /\ Moved(H).fix = H.fix /\ Moved(x).at = x.at + 2 /\ Moved(H).at = H.at + 2
  BY DEF Moved
<1>3. x.at < H.at => Moved(x).at < Moved(H).at
  BY <1>1, <1>2
<1>4. H.at < x.at => Moved(H).at < Moved(x).at
  BY <1>1, <1>2
<1> QED
  BY <1>2, <1>3, <1>4 DEF Dominates

\* What a section means, by the root of its operand.
LEMMA SectionMeaning ==
    ASSUME NEW e, ChainOK(e), NEW q \in 1..Len(e.ops), NEW W, Atoms(e) = W \cup {OpAtom(e, q)},
           NEW H \in W, Dominates(W, H), NEW side \in {"left", "right"},
           side = "left" => \A x \in W : x.at < OpAtom(e, q).at,
           side = "right" => \A x \in W : OpAtom(e, q).at < x.at,
           NEW g \in Groupings(e)
    PROVE  OperandFits(OpAtom(e, q).fix, side, H.fix)
           <=> OpNode(q, 1, Len(e.neg)) \in g.nodes /\ MinusNode(1, Len(e.neg)) \notin g.nodes
<1>1. PICK X : X = OpAtom(e, q)
  OBVIOUS
<1>2. Typed(W \cup {X}) /\ Atoms(e) = W \cup {X}
  BY <1>1, AtomsAre
<1>3. X \notin W
  BY <1>1, <1>2 DEF Typed
<1>4. Dominates(W \cup {X}, X) <=> OpNode(q, 1, Len(e.neg)) \in g.nodes /\ MinusNode(1, Len(e.neg)) \notin g.nodes
  BY <1>1, <1>2, MeansIffDominates
<1>5. /\ Dominates(W \cup {X}, X) => OperandFits(X.fix, side, H.fix)
      /\ OperandFits(X.fix, side, H.fix) => OnlyOne(W \cup {X}, X)
  <2>1. Beside(W, X, side)
    BY <1>1 DEF Beside
  <2> QED
    BY <1>2, <1>3, <2>1, SectionRoot
<1>6. \E R \in W \cup {X} : Dominates(W \cup {X}, R)
  BY <1>2, GroupedDominated
<1> QED
  BY <1>1, <1>4, <1>5, <1>6 DEF OnlyOne

\* A right section whose operand starts with a minus that its operator refuses.
LEMMA MinusSection ==
    ASSUME FixInv, status = "minus_rhs", frames = <<>>
    PROVE  Groupings(Expansion) = {}
<1>1. use.side = "right" /\ chain.neg[1] /\ use.op.prec >= 6 /\ use.op \in AnyFixity /\ ChainOK(chain)
  BY DEF FixInv, Reached, Given, MinusUnder
<1>2. PICK e : e = Before(chain, use.op)
  OBVIOUS
<1>3. Expansion = e
  BY <1>1, <1>2 DEF Expansion, Before
<1>4. /\ ChainOK(e) /\ Len(e.ops) = Len(chain.ops) + 1 /\ Len(e.neg) = Len(chain.neg) + 1
      /\ e.ops[1] = use.op /\ e.neg[2] = chain.neg[1]
  <2>1. PICK f \in AnyFixity : f = use.op
    BY <1>1
  <2>2. e = Before(chain, f) /\ ChainOK(chain)
    BY <1>1, <1>2, <2>1
  <2>3. /\ ChainOK(e) /\ Len(e.ops) = Len(chain.ops) + 1 /\ Len(e.neg) = Len(chain.neg) + 1
        /\ e.ops[1] = f /\ e.neg[2] = chain.neg[1]
    BY <2>2, BeforeIs
  <2> QED
    BY <2>1, <2>3
<1>5. PICK a \in 1..Len(e.neg), b \in 1..Len(e.neg) : a = 1 /\ b = Len(e.neg) /\ a <= b /\ a \in a..(b - 1)
  <2>1. PICK n \in Nat : n = Len(chain.ops) /\ Len(chain.neg) = n + 1
    BY <1>1, ChainIs
  <2>2. Len(e.neg) = n + 2
    BY <1>4, <2>1
  <2> QED
    BY <2>2
<1> SUFFICES ASSUME NEW g \in Groupings(e)
             PROVE  FALSE
  BY <1>3
<1>6. g \in Phrase(e, a, b, TRUE)
  BY <1>5, Zenon DEF Groupings, Phrase
<1>7. Loose(e, a, b)
  BY <1>4, <1>5, <1>6, UnderTight
<1>8. a + 1 = 2
  BY <1>5
<1>9. e.neg[a + 1] => e.ops[a].prec < 6
  BY <1>5, <1>7 DEF Loose
<1>10. e.neg[2] => e.ops[1].prec < 6
  BY <1>5, <1>8, <1>9
<1>11. use.op.prec < 6
  BY <1>1, <1>4, <1>10
<1>12. use.op.prec \in Nat
  BY <1>1 DEF AnyFixity
<1> QED
  BY <1>1, <1>11, <1>12

\* A checked section means its written-out form iff its operand fits.
LEMMA SectionIs ==
    ASSUME FixInv, status \in {"accepted", "section"}, NEW g \in Groupings(Expansion)
    PROVE  OperandFits(use.op, use.side, RootAt(chain, Head(frames))) <=> MeansSection(g)
<1>1. PICK H \in Atoms(chain) : H.fix = RootAt(chain, Head(frames)) /\ Dominates(Atoms(chain), H)
  BY WholeRoot
<1>2. use.side \in {"left", "right"} /\ use.op \in AnyFixity /\ ChainOK(chain)
  BY DEF FixInv, Given, Reached
<1>3. N \in Nat /\ Len(chain.ops) = N /\ Len(chain.neg) = N + 1
  BY GivenIs
<1>4. CASE use.side = "left"
  <2>1. PICK e : e = Behind(chain, use.op)
    OBVIOUS
  <2>2. Expansion = e
    BY <1>4, <2>1 DEF Expansion, Behind
  <2>3. PICK q : q = N + 1
    OBVIOUS
  <2>4. /\ ChainOK(e) /\ Len(e.neg) = q + 1 /\ q \in 1..Len(e.ops)
        /\ Atoms(e) = Atoms(chain) \cup {OpAtom(e, q)} /\ OpAtom(e, q).fix = use.op
        /\ \A x \in Atoms(chain) : x.at < OpAtom(e, q).at
    BY <1>2, <1>3, <2>1, <2>3, BehindIs
  <2>5. OperandFits(OpAtom(e, q).fix, use.side, H.fix)
        <=> OpNode(q, 1, Len(e.neg)) \in g.nodes /\ MinusNode(1, Len(e.neg)) \notin g.nodes
    BY <1>1, <1>2, <1>4, <2>2, <2>4, SectionMeaning
  <2>6. Len(e.neg) = N + 2
    BY <1>3, <2>3, <2>4
  <2>7. MeansSection(g) <=> OpNode(q, 1, Len(e.neg)) \in g.nodes /\ MinusNode(1, Len(e.neg)) \notin g.nodes
    BY <1>4, <2>3, <2>6 DEF MeansSection
  <2> QED
    BY <1>1, <2>4, <2>5, <2>7
<1>5. CASE use.side = "right"
  <2>1. PICK e : e = Before(chain, use.op)
    OBVIOUS
  <2>2. Expansion = e
    BY <1>5, <2>1 DEF Expansion, Before
  <2>3. PICK q : q = 1
    OBVIOUS
  <2>4. PICK W : W = {Moved(x) : x \in Atoms(chain)}
    OBVIOUS
  <2>5. /\ ChainOK(e) /\ Len(e.neg) = Len(chain.neg) + 1 /\ q \in 1..Len(e.ops)
        /\ Atoms(e) = W \cup {OpAtom(e, q)} /\ OpAtom(e, q).fix = use.op
        /\ \A x \in Atoms(chain) : OpAtom(e, q).at < Moved(x).at
    BY <1>2, <2>1, <2>3, <2>4, BeforeIs
  <2>6. Moved(H) \in W /\ Dominates(W, Moved(H)) /\ Moved(H).fix = H.fix
    <3>1. Typed(Atoms(chain))
      BY <1>2, AtomsAre
    <3> QED
      BY <1>1, <2>4, <3>1, MovedDominates DEF Moved
  <2>7. \A x \in W : OpAtom(e, q).at < x.at
    BY <2>4, <2>5
  <2>8. OperandFits(OpAtom(e, q).fix, use.side, Moved(H).fix)
        <=> OpNode(q, 1, Len(e.neg)) \in g.nodes /\ MinusNode(1, Len(e.neg)) \notin g.nodes
    BY <1>2, <1>5, <2>2, <2>5, <2>6, <2>7, SectionMeaning
  <2>9. Len(e.neg) = N + 2
    BY <1>3, <2>5
  <2>10. MeansSection(g) <=> OpNode(q, 1, Len(e.neg)) \in g.nodes /\ MinusNode(1, Len(e.neg)) \notin g.nodes
    BY <1>5, <2>3, <2>9 DEF MeansSection
  <2> QED
    BY <1>1, <2>5, <2>6, <2>8, <2>10
<1> QED
  BY <1>2, <1>4, <1>5

\* A grouped chain has no grouping but the one found.
LEMMA GroupedOnce ==
    ASSUME FixInv, status \in {"grouped", "accepted", "section"}
    PROVE  {g.nodes : g \in Groupings(chain)} = {nodes}
<1>1. PICK h \in Groupings(chain) : h.nodes = nodes
  BY WholeRoot
<1>2. PICK a \in 1..Len(chain.neg), b \in 1..Len(chain.neg) : a = 1 /\ b = Len(chain.neg) /\ a <= b /\ ChainOK(chain)
  BY GivenIs
<1>3. Groupings(chain) = Phrase(chain, a, b, TRUE)
  BY <1>2, Zenon DEF Groupings, Phrase
<1>4. \A g \in Groupings(chain) : g = h
  <2> TAKE g \in Groupings(chain)
  <2>1. g \in Phrase(chain, a, b, TRUE) /\ h \in Phrase(chain, a, b, TRUE)
    BY <1>3
  <2> QED
    BY <1>2, <2>1, OnePhrase
<1> QED
  BY <1>1, <1>4

\* For chains of every length, of every fixities: precedence climbing finds the
\* one grouping the Haskell rules allow and refuses a chain only when they allow
\* none, types are grouped likewise, and a section is accepted only when its
\* written-out form could mean nothing else (fixity.rs 122-285, 385-421).
THEOREM GroupedRight == FixSpec => []GroupedAsHaskell
<1>1. FixInv => GroupedAsHaskell
  <2> SUFFICES ASSUME FixInv
               PROVE  GroupedAsHaskell
    OBVIOUS
  <2>1. ChainsGrouped
    <3>1. /\ status \in {"minus_lhs", "conflict"} => Groupings(chain) = {}
          /\ status = "minus_rhs" /\ frames # <<>> => Groupings(chain) = {}
          /\ status = "too_deep" => N > MaxNesting
      BY DEF FixInv, Reached
    <3> QED
      BY <3>1, GroupedOnce DEF ChainsGrouped
  <2>2. TypesGrouped
    <3> SUFFICES ASSUME status = "grouped", \A i \in DOMAIN chain.neg : ~chain.neg[i]
                 PROVE  GroupTypes(chain.ops) = nodes
      BY DEF TypesGrouped
    <3>1. PICK h \in Groupings(chain) : h.nodes = nodes
      BY WholeRoot
    <3>2. ChainOK(chain) /\ \A i \in 1..Len(chain.neg) : ~chain.neg[i]
      BY GivenIs, ChainIs
    <3> QED
      BY <3>1, <3>2, TypesClimbed
  <2>3. SectionsMeanTheirExpansion
    <3>1. status = "accepted" => OperandFits(use.op, use.side, RootAt(chain, Head(frames)))
      BY DEF FixInv, Reached
    <3>2. status = "section" => ~OperandFits(use.op, use.side, RootAt(chain, Head(frames)))
      BY DEF FixInv, Reached
    <3>3. ASSUME status = "accepted", NEW g \in Groupings(Expansion)
          PROVE  MeansSection(g)
      BY <3>1, <3>3, SectionIs
    <3>4. ASSUME status = "section", NEW g \in Groupings(Expansion)
          PROVE  ~MeansSection(g)
      BY <3>2, <3>4, SectionIs
    <3> QED
      BY <3>3, <3>4, MinusSection DEF SectionsMeanTheirExpansion
  <2> QED
    BY <2>1, <2>2, <2>3 DEF GroupedAsHaskell
<1> QED
  BY <1>1, FixInvHolds, PTL
=============================================================================
