-------------------------- MODULE SpecializerProofs --------------------------
(***************************************************************************)
(* The theorems of Specializer, for every program, limit and order of the  *)
(* walk.                                                                   *)
(***************************************************************************)
EXTENDS Specializer, FiniteSetTheorems, SequenceTheorems, TLAPS

-------------------------------------------------------------------------------
(* The inductive invariant.  What it says of a name is stated name by name.*)

Pairs == [a : Types, b : Types]

BodyFrames == [kind : {"original", "copy", "dict"}, name : NameSet,
               uses : Seq(UsesOf(FunNames)), calls : Seq(Calls), tripped_before : BOOLEAN]

TripFrames == [kind : {"trip"}, fun : FunNames, purged : SUBSET NameSet, gone : SUBSET NameSet]

StackFrames == BodyFrames \cup TripFrames

\* The function a frame walks: an original is walked first and once, a copy has
\* been handed out, and only flagged functions are rewritten.
Walks(fr, i) ==
    /\ fr.kind = "copy" => fr.name.copy
    /\ fr.kind = "original" =>
            i = 1 /\ fr.name = Original(fr.name.fun) /\ fr.name.fun \notin ToSet(todo)
    /\ fr.kind = "dict" => fr.name \in dict_passing_fns
    /\ fr.kind # "trip" /\ fr.tripped_before => fr.name.fun \in dict_passing_counts

Frames ==
    /\ compiled \in Programs
    /\ stack \in Seq(StackFrames)
    /\ batch \subseteq dict_passing_fns
    /\ IsInjective(todo)
    /\ \A i \in 1 .. Len(stack) : \A fr \in {stack[i]} : Walks(fr, i)

\* The copies at arrow shapes: what is left of the result is a hole.
Hole(name) == name.at.b.leaf = "hole"

\* A function that tripped is served by one function for all types, ...
Served == \A f \in dict_passing_counts : Shared(f) \/ DictPassing(f)

\* ... so that it has no other copies than those at arrow shapes.
Shapes ==
    /\ \A s \in specializations :
        /\ Hole(s) => Shared(s.fun) \/ DictPassing(s.fun)
        /\ Shared(s.fun) \/ s.fun \in dict_passing_counts =>
                Widening(s.fun, s.at) /\ s.at = Shape(s.fun, s.at)
    /\ \A name \in dict_passing_fns : name.copy => Hole(name)

WideningSpecs(f) == {s \in SpecsOf(f) : Widening(f, s.at)}
PlainSpecs(f) == {s \in SpecsOf(f) : ~Widening(f, s.at)}

\* The copies of each sort of every function stay within the limit.
Counted ==
    /\ IsFiniteSet(specializations)
    /\ \A f \in FunNames :
        /\ Cardinality(WideningSpecs(f)) <= SpecLimit + 1
        /\ Cardinality(PlainSpecs(f)) <= SpecLimit + 1
        /\ ~DictPassing(f) => Cardinality(SpecsOf(f)) <= SpecLimit + 1

\* A name that was purged and will not be handed out again.
Purged(name) == name.copy /\ name.fun \in dict_passing_counts /\ ~Hole(name)

\* Where a name stands: among functions it is emitted, called, always plain; on a
\* stack its copy is being made (tripped are the functions that tripped), a trip has
\* still to decide about it (and it was pending or under generation when the trip
\* began, or else emitted), its original is being walked, or a body calls it.
EmittedIn(fns, name) == \E i \in 1 .. Len(fns) : fns[i].name = name
CallsTo(calls, name) == \E k \in 1 .. Len(calls) : calls[k].to = name
CalledIn(fns, name) == \E i \in 1 .. Len(fns) : CallsTo(fns[i].calls, name)
PlainIn(fns, name) == \A i \in 1 .. Len(fns) : fns[i].name = name => fns[i].form = "plain"
Makes(fr, tripped) == fr.kind = "copy" /\ (fr.tripped_before \/ fr.name.fun \notin tripped)
MadeIn(st, tripped, name) == \E i \in 1 .. Len(st) : Makes(st[i], tripped) /\ st[i].name = name
GoneIn(st, name) == \E i \in 1 .. Len(st) : st[i].kind = "trip" /\ name \in st[i].purged \cap st[i].gone
KeptIn(st, name) == \E i \in 1 .. Len(st) : st[i].kind = "trip" /\ name \in st[i].purged \ st[i].gone
WalkedIn(st, name) == \E i \in 1 .. Len(st) : st[i].kind = "original" /\ st[i].name = name
BodiesCall(st, name) == \E i \in 1 .. Len(st) : st[i].kind # "trip" /\ CallsTo(st[i].calls, name)

EmittedAs(name) == EmittedIn(result_fns, name) \/ EmittedIn(generated, name)
MadeAs(name) == MadeIn(stack, dict_passing_counts, name)
DefinedAs(name) == EmittedAs(name) \/ MadeAs(name)
Called(name) == CalledIn(result_fns, name) \/ CalledIn(generated, name) \/ BodiesCall(stack, name)
AllPlain(name) == PlainIn(result_fns, name) /\ PlainIn(generated, name)

\* What is defined or being made was handed out and not taken back, unless it was
\* purged when it was emitted; and what is handed out is defined or being made.
Handed(name) ==
    /\ name.copy /\ DefinedAs(name) => name \in specializations \/ Purged(name)
    /\ name \in specializations => DefinedAs(name)

\* The originals are defined once, in the order of run.
WalkedOnce(name) ==
    ~name.copy /\ EmittedAs(name) =>
        name = Original(name.fun) /\ name.fun \notin ToSet(todo) /\ ~WalkedIn(stack, name)

\* What a trip has still to decide is undefined if it was pending or under
\* generation, and defined if it had joined the program.
Decided(name) ==
    /\ GoneIn(stack, name) \/ KeptIn(stack, name) => Purged(name)
    /\ GoneIn(stack, name) /\ name \notin ground_forms => ~DefinedAs(name)
    /\ KeptIn(stack, name) => EmittedAs(name)

\* The ground forms are defined, as plain functions.
Grounded(name) ==
    /\ name \in ground_forms => Purged(name) /\ EmittedAs(name)
    /\ name.copy /\ ~Hole(name) => AllPlain(name)

\* What replaces a purged copy is not purged itself.
Replaced(name) ==
    name \in DOMAIN purged_specs =>
        /\ Purged(name)
        /\ purged_specs[name].copy => purged_specs[name] \in specializations /\ Hole(purged_specs[name])

\* A copy that is called is known.
Leads(name) ==
    name.copy /\ Called(name) =>
        \/ DefinedAs(name)
        \/ name \in DOMAIN purged_specs
        \/ GoneIn(stack, name) \/ KeptIn(stack, name)

Named(name) ==
    /\ Handed(name) /\ WalkedOnce(name) /\ Decided(name)
    /\ Grounded(name) /\ Replaced(name) /\ Leads(name)

\* No name is defined twice.
Distinct(fns) == \A i, j \in 1 .. Len(fns) : fns[i].name = fns[j].name => i = j
DistinctMade(st, tripped) ==
    \A i, j \in 1 .. Len(st) :
        Makes(st[i], tripped) /\ Makes(st[j], tripped) /\ st[i].name = st[j].name => i = j
Once ==
    /\ Distinct(result_fns) /\ Distinct(generated) /\ DistinctMade(stack, dict_passing_counts)
    /\ \A name \in NameSet :
        /\ ~(EmittedIn(result_fns, name) /\ EmittedIn(generated, name))
        /\ ~(EmittedAs(name) /\ MadeAs(name))

MonoInv ==
    /\ CopiesTyped /\ Frames /\ Served /\ Shapes /\ Counted /\ Once
    /\ \A name \in NameSet : Named(name)

-------------------------------------------------------------------------------
(* Names and types *)

LastArrow(s) == SelectLastInSeq(s, LAMBDA c : c = "fun")
Cut(s) == SubSeq(s, 1, LastArrow(s))

LEMMA LastPosition ==
    ASSUME NEW s \in Seq({"list", "fun"})
    PROVE  /\ LastArrow(s) \in 0 .. Len(s)
           /\ LastArrow(s) > 0 => s[LastArrow(s)] = "fun"
           /\ \A i \in 1 .. Len(s) : s[i] = "fun" => i <= LastArrow(s)
<1> DEFINE I == {i \in 1 .. Len(s) : s[i] = "fun"}
<1>2. LastArrow(s) = IF I # {} THEN Max(I) ELSE 0
  BY Zenon DEF LastArrow, SelectLastInSeq
<1>3. ASSUME I # {}
      PROVE  Max(I) \in I /\ \A i \in I : Max(I) >= i
  <2> DEFINE D == {Len(s) - i : i \in I}
  <2>1. D # {} /\ D \subseteq Nat
    BY <1>3
  <2>2. PICK d \in D : \A e \in D : ~(<<e, d>> \in OpToRel(<, Nat))
    BY <2>1, NatLessThanWellFounded, WFMin, Zenon
  <2>3. OpToRel(<, Nat) = {ss \in Nat \X Nat : ss[1] < ss[2]}
    BY Zenon DEF OpToRel
  <2>4. \A e \in D : ~(<<e, d>> \in {ss \in Nat \X Nat : ss[1] < ss[2]})
    BY <2>2, <2>3, Zenon
  <2>5. PICK m \in I : d = Len(s) - m
    BY <2>2, Zenon
  <2>6. \A i \in I : m >= i
    <3> TAKE i \in I
    <3>1. Len(s) - i \in D /\ Len(s) - i \in Nat /\ d \in Nat
      BY <2>1, <2>2, Zenon
    <3>2. ~(Len(s) - i < d)
      <4> DEFINE e == Len(s) - i
      <4>1. ~(<<e, d>> \in {ss \in Nat \X Nat : ss[1] < ss[2]})
        BY <2>4, <3>1, Zenon
      <4>2. e \in Nat /\ d \in Nat
        BY <3>1
      <4> HIDE DEF D, e
      <4>3. ~(e < d)
        BY <4>1, <4>2
      <4> QED
        BY <4>3 DEF e
    <3>3. i \in Int /\ m \in Int /\ Len(s) \in Int
      OBVIOUS
    <3> HIDE DEF D
    <3> QED
      BY <2>5, <3>1, <3>2, <3>3
  <2>7. \E m1 \in I : \A i \in I : m1 >= i
    BY <2>6
  <2> QED
    BY <2>7, Zenon DEF Max
<1>4. PICK p : p = LastArrow(s)
  OBVIOUS
<1>5. p \in 0 .. Len(s) /\ (p > 0 => s[p] = "fun") /\ \A i \in 1 .. Len(s) : s[i] = "fun" => i <= p
  <2>1. CASE I = {}
    BY <1>2, <1>4, <2>1
  <2>2. CASE I # {}
    BY <1>2, <1>3, <1>4, <2>2
  <2> QED
    BY <2>1, <2>2
<1> QED
  BY <1>4, <1>5, Zenon

\* Cutting after the last arrow is idempotent and keeps an arrow that comes first.
LEMMA CutFacts ==
    ASSUME NEW s \in Seq({"list", "fun"})
    PROVE  /\ Cut(s) \in Seq({"list", "fun"})
           /\ Cut(Cut(s)) = Cut(s)
           /\ Len(Cut(s)) > 0 /\ Cut(s)[1] = "fun" <=> Len(s) > 0 /\ s[1] = "fun"
<1>1. PICK n : n = LastArrow(s)
  OBVIOUS
<1>2. n \in 0 .. Len(s) /\ (n > 0 => s[n] = "fun") /\ \A i \in 1 .. Len(s) : s[i] = "fun" => i <= n
  BY <1>1, LastPosition, Zenon
<1>3. PICK c : c = SubSeq(s, 1, n)
  OBVIOUS
<1>4. c \in Seq({"list", "fun"}) /\ Len(c) = n /\ \A i \in 1 .. n : c[i] = s[i]
  BY <1>2, <1>3
<1>5. PICK m : m = LastArrow(c)
  OBVIOUS
<1>6. m \in 0 .. Len(c) /\ (m > 0 => c[m] = "fun") /\ \A i \in 1 .. Len(c) : c[i] = "fun" => i <= m
  BY <1>4, <1>5, LastPosition, Zenon
<1>7. m = n
  BY <1>2, <1>4, <1>6
<1>8. SubSeq(c, 1, m) = c
  BY <1>4, <1>7
<1>9. Cut(s) = c /\ Cut(c) = SubSeq(c, 1, m)
  BY <1>1, <1>3, <1>5, Zenon DEF Cut
<1>10. Len(c) > 0 /\ c[1] = "fun" <=> Len(s) > 0 /\ s[1] = "fun"
  BY <1>2, <1>4
<1> QED
  BY <1>4, <1>8, <1>9, <1>10, Zenon

\* A use widens the arity if its result is an arrow before anything else.
LEMMA WideningIs ==
    ASSUME NEW f, NEW at \in Pairs
    PROVE  Widening(f, at) <=> f \in compiled.opens /\ Len(at.b.cons) > 0 /\ at.b.cons[1] = "fun"
<1> DEFINE I == {i \in DOMAIN at.b.cons : \A j \in 1 .. i : at.b.cons[j] = "fun"}
<1>1. at.b.cons \in Seq({"list", "fun"}) /\ I \subseteq 1 .. Len(at.b.cons) /\ Len(at.b.cons) \in Nat
  BY DEF Pairs, Types
<1>2. IsFiniteSet(1 .. Len(at.b.cons))
  BY <1>1, FS_Interval
<1>3. IsFiniteSet(I) /\ (Cardinality(I) = 0 <=> I = {}) /\ Cardinality(I) \in Nat
  BY <1>1, <1>2, FS_Subset, FS_EmptySet, FS_CardinalityType, Zenon
<1>4. I # {} <=> Len(at.b.cons) > 0 /\ at.b.cons[1] = "fun"
  BY <1>1
<1>5. Arrows(f, at) = IF f \notin compiled.opens THEN 0 ELSE Cardinality(I)
  BY Zenon DEF Arrows
<1> HIDE DEF I
<1> QED
  BY <1>3, <1>4, <1>5 DEF Widening

\* The shape of a use is a type with a hole, keeps its arity, and is its own shape.
LEMMA ShapeFacts ==
    ASSUME NEW f, NEW at \in Pairs
    PROVE  /\ Shape(f, at) \in Pairs
           /\ Shape(f, at).b.leaf = "hole"
           /\ Shape(f, Shape(f, at)) = Shape(f, at)
           /\ Widening(f, Shape(f, at)) <=> Widening(f, at)
<1>1. at.b.cons \in Seq({"list", "fun"})
  BY DEF Pairs, Types
<1>2. \A t : Skeleton(t) = [leaf |-> "hole", cons |-> Cut(t.cons)]
  BY Zenon DEF Skeleton, Cut, LastArrow
<1>3. PICK c : c = Cut(at.b.cons)
  OBVIOUS
<1>4. c \in Seq({"list", "fun"}) /\ Cut(c) = c
  BY <1>1, <1>3, CutFacts, Zenon
<1>5. Len(c) > 0 /\ c[1] = "fun" <=> Len(at.b.cons) > 0 /\ at.b.cons[1] = "fun"
  BY <1>1, <1>3, CutFacts, Zenon
<1>6. PICK d : d = Declared(f)
  OBVIOUS
<1>7. d.a \in Types /\ d = [a |-> d.a, b |-> d.b]
  BY <1>6 DEF Declared, Leaf, Ground, Types
<1>8. \A x : Shape(f, x) = [a |-> d.a, b |-> Skeleton(x.b)]
  BY <1>6, <1>7 DEF Shape
<1>9. Shape(f, at) = [a |-> d.a, b |-> [leaf |-> "hole", cons |-> c]]
  BY <1>2, <1>3, <1>8
<1>10. Shape(f, Shape(f, at)) = Shape(f, at)
  BY <1>2, <1>4, <1>8, <1>9
<1>11. Shape(f, at) \in Pairs
  BY <1>4, <1>7, <1>9 DEF Pairs, Types
<1>12. Shape(f, at).b.cons = c /\ Shape(f, at).b.leaf = "hole"
  BY <1>9
<1> QED
  BY <1>5, <1>10, <1>11, <1>12, WideningIs

\* What the assumption on the programs says of the one that is compiled.
LEMMA ProgramFacts ==
    ASSUME compiled \in Programs
    PROVE  /\ compiled.order \in Seq(FunNames) /\ IsInjective(compiled.order)
           /\ compiled.constrained \subseteq FunNames
           /\ compiled.builtins \subseteq FunNames \ compiled.constrained
           /\ compiled.body \in [FunNames -> Seq(UsesOf(FunNames))]
<1> QED
  BY SpecializerAssumption DEF FunNames

\* A name is a function's, its original's or its copy's.
LEMMA NameFacts ==
    /\ \A f \in FunNames : Original(f) \in NameSet
    /\ \A f \in FunNames, at \in Pairs : Copy(f, at) \in NameSet
    /\ \A f : Original(f).fun = f /\ ~Original(f).copy /\ Original(f).copy \in BOOLEAN
    /\ \A f, at : Copy(f, at).fun = f /\ Copy(f, at).copy /\ Copy(f, at).at = at
    /\ \A n \in NameSet : n.fun \in FunNames /\ n.copy \in BOOLEAN /\ n.at \in Pairs
<1>1. \A f : Declared(f) \in Pairs
  BY DEF Declared, Pairs, Types, Leaf, Ground
<1> QED
  BY <1>1 DEF Original, Copy, NameSet, Pairs

\* The program never changes, and with it nothing that depends on it alone.
LEMMA Same ==
    ASSUME compiled' = compiled
    PROVE  /\ FunNames' = FunNames /\ NameSet' = NameSet /\ Calls' = Calls
           /\ FunctionSet' = FunctionSet /\ StackFrames' = StackFrames
           /\ \A f : /\ Constrained(f)' <=> Constrained(f)
                     /\ Original(f)' = Original(f)
           /\ \A f, at : /\ Widening(f, at)' <=> Widening(f, at)
                         /\ Shape(f, at)' = Shape(f, at)
<1>1. FunNames' = FunNames
  BY DEF FunNames
<1>2. NameSet' = NameSet
  BY <1>1 DEF NameSet
<1>3. Calls' = Calls
  BY <1>2 DEF Calls
<1>4. FunctionSet' = FunctionSet
  BY <1>2, <1>3 DEF FunctionSet
<1>5. StackFrames' = StackFrames
  BY <1>1, <1>2, <1>3 DEF StackFrames, BodyFrames, TripFrames
<1>6. \A f : Constrained(f)' <=> Constrained(f)
  BY DEF Constrained
<1>7. \A f : Declared(f)' = Declared(f)
  BY <1>6, Zenon DEF Declared
<1>8. \A f : Original(f)' = Original(f)
  BY <1>7, Zenon DEF Original
<1>9. \A f, at : Widening(f, at)' <=> Widening(f, at)
  <2> TAKE f, at
  <2>1. Arrows(f, at)' = Arrows(f, at)
    BY Zenon DEF Arrows
  <2> QED
    BY <2>1, Zenon DEF Widening
<1>10. \A f, at : Shape(f, at)' = Shape(f, at)
  BY <1>7, Zenon DEF Shape
<1> QED
  BY <1>1, <1>2, <1>3, <1>4, <1>5, <1>6, <1>8, <1>9, <1>10, Zenon

\* The use at which the top body stands.
LEMMA UseFacts ==
    ASSUME Frames, Walking
    PROVE  /\ TopFrame = stack[Len(stack)] /\ Len(stack) \in Nat \ {0}
           /\ TopFrame \in BodyFrames
           /\ Fun \in FunNames /\ Use \in Pairs
           /\ Tail(TopFrame.uses) \in Seq(UsesOf(FunNames))
<1>1. stack \in Seq(StackFrames) /\ stack # <<>>
  BY DEF Frames, Walking
<1>2. TopFrame = stack[Len(stack)] /\ Len(stack) \in Nat \ {0}
  BY <1>1 DEF TopFrame, Last
<1>3. TopFrame \in StackFrames
  BY <1>1, <1>2
<1>4. TopFrame \in BodyFrames
  BY <1>3 DEF StackFrames, TripFrames, Walking
<1>5. PICK uses : uses = TopFrame.uses
  OBVIOUS
<1>6. uses \in Seq(UsesOf(FunNames)) /\ uses # <<>>
  BY <1>4, <1>5 DEF BodyFrames, Walking
<1>7. Head(uses) \in UsesOf(FunNames) /\ Tail(uses) \in Seq(UsesOf(FunNames))
  BY <1>6
<1>8. PICK use : use = Head(uses)
  OBVIOUS
<1>9. /\ use.fun \in FunNames
      /\ use.a.of \in {"a", "b", "ground", "hidden"} /\ use.a.wrap \in Seq({"list", "fun"})
      /\ use.b.of \in {"a", "b", "ground", "hidden"} /\ use.b.wrap \in Seq({"list", "fun"})
  BY <1>7, <1>8 DEF UsesOf
<1>10. PICK at : at = TopFrame.name.at
  OBVIOUS
<1>11. at \in Pairs
  BY <1>4, <1>10 DEF BodyFrames, NameSet, Pairs
<1>12. ASSUME NEW arg, arg.of \in {"a", "b", "ground", "hidden"}, arg.wrap \in Seq({"list", "fun"})
       PROVE  Substituted(arg, at) \in Types
  <2> DEFINE t == IF arg.of \in {"a", "b"} THEN at[arg.of] ELSE Leaf(arg.of)
  <2>1. t \in Types
    BY <1>11, <1>12 DEF Pairs, Types, Leaf
  <2>2. Substituted(arg, at) = [t EXCEPT !.cons = arg.wrap \o t.cons]
    BY DEF Substituted
  <2>3. arg.wrap \o t.cons \in Seq({"list", "fun"})
    BY <1>12, <2>1 DEF Types
  <2> HIDE DEF t
  <2> QED
    BY <2>1, <2>2, <2>3 DEF Types
<1>13. Instance(use, at) \in Pairs
  BY <1>9, <1>12 DEF Instance, Pairs
<1> QED
  BY <1>2, <1>4, <1>5, <1>7, <1>8, <1>9, <1>10, <1>13, Zenon DEF Fun, Use

-------------------------------------------------------------------------------
(* Sequences of functions and stacks, one element at a time *)

\* One more function.
LEMMA OneMore ==
    ASSUME NEW S, NEW fns \in Seq(S), NEW fn \in S, NEW name
    PROVE  /\ EmittedIn(Append(fns, fn), name) <=> EmittedIn(fns, name) \/ fn.name = name
           /\ CalledIn(Append(fns, fn), name) <=> CalledIn(fns, name) \/ CallsTo(fn.calls, name)
           /\ PlainIn(Append(fns, fn), name) <=> PlainIn(fns, name) /\ (fn.name = name => fn.form = "plain")
<1>1. PICK more : more = Append(fns, fn)
  OBVIOUS
<1>2. /\ Len(more) = Len(fns) + 1 /\ Len(fns) \in Nat
      /\ \A i \in 1 .. Len(fns) : more[i] = fns[i]
      /\ more[Len(fns) + 1] = fn
  BY <1>1
<1>3. \A i \in 1 .. Len(more) : i \in 1 .. Len(fns) \/ i = Len(fns) + 1
  BY <1>2
<1>4. \A i \in 1 .. Len(fns) : i \in 1 .. Len(more)
  BY <1>2
<1>5. Len(fns) + 1 \in 1 .. Len(more)
  BY <1>2
<1>6. EmittedIn(more, name) <=> EmittedIn(fns, name) \/ fn.name = name
  BY <1>2, <1>3, <1>4, <1>5, Zenon DEF EmittedIn
<1>7. CalledIn(more, name) <=> CalledIn(fns, name) \/ CallsTo(fn.calls, name)
  BY <1>2, <1>3, <1>4, <1>5, Zenon DEF CalledIn
<1>8. PlainIn(more, name) <=> PlainIn(fns, name) /\ (fn.name = name => fn.form = "plain")
  BY <1>2, <1>3, <1>4, <1>5, Zenon DEF PlainIn
<1> QED
  BY <1>1, <1>6, <1>7, <1>8, Zenon

LEMMA OneMoreDistinct ==
    ASSUME NEW S, NEW fns \in Seq(S), NEW fn \in S, Distinct(fns), ~EmittedIn(fns, fn.name)
    PROVE  Distinct(Append(fns, fn))
<1> QED
  BY DEF Distinct, EmittedIn

\* One more frame.
LEMMA Pushed ==
    ASSUME NEW S, NEW st \in Seq(S), NEW fr \in S, NEW tripped, NEW name
    PROVE  /\ MadeIn(Append(st, fr), tripped, name) <=>
                    MadeIn(st, tripped, name) \/ (Makes(fr, tripped) /\ fr.name = name)
           /\ GoneIn(Append(st, fr), name) <=>
                    GoneIn(st, name) \/ (fr.kind = "trip" /\ name \in fr.purged \cap fr.gone)
           /\ KeptIn(Append(st, fr), name) <=>
                    KeptIn(st, name) \/ (fr.kind = "trip" /\ name \in fr.purged \ fr.gone)
           /\ WalkedIn(Append(st, fr), name) <=>
                    WalkedIn(st, name) \/ (fr.kind = "original" /\ fr.name = name)
           /\ BodiesCall(Append(st, fr), name) <=>
                    BodiesCall(st, name) \/ (fr.kind # "trip" /\ CallsTo(fr.calls, name))
<1>1. PICK more : more = Append(st, fr)
  OBVIOUS
<1>2. /\ Len(more) = Len(st) + 1 /\ Len(st) \in Nat
      /\ \A i \in 1 .. Len(st) : more[i] = st[i]
      /\ more[Len(st) + 1] = fr
  BY <1>1
<1>3. \A i \in 1 .. Len(more) : i \in 1 .. Len(st) \/ i = Len(st) + 1
  BY <1>2
<1>4. \A i \in 1 .. Len(st) : i \in 1 .. Len(more)
  BY <1>2
<1>5. Len(st) + 1 \in 1 .. Len(more)
  BY <1>2
<1>6. MadeIn(more, tripped, name) <=> MadeIn(st, tripped, name) \/ (Makes(fr, tripped) /\ fr.name = name)
  BY <1>2, <1>3, <1>4, <1>5, Zenon DEF MadeIn
<1>7. GoneIn(more, name) <=> GoneIn(st, name) \/ (fr.kind = "trip" /\ name \in fr.purged \cap fr.gone)
  BY <1>2, <1>3, <1>4, <1>5, Zenon DEF GoneIn
<1>8. KeptIn(more, name) <=> KeptIn(st, name) \/ (fr.kind = "trip" /\ name \in fr.purged \ fr.gone)
  BY <1>2, <1>3, <1>4, <1>5, Zenon DEF KeptIn
<1>9. WalkedIn(more, name) <=> WalkedIn(st, name) \/ (fr.kind = "original" /\ fr.name = name)
  BY <1>2, <1>3, <1>4, <1>5, Zenon DEF WalkedIn
<1>10. BodiesCall(more, name) <=> BodiesCall(st, name) \/ (fr.kind # "trip" /\ CallsTo(fr.calls, name))
  BY <1>2, <1>3, <1>4, <1>5, Zenon DEF BodiesCall
<1> QED
  BY <1>1, <1>6, <1>7, <1>8, <1>9, <1>10, Zenon

LEMMA PushedDistinct ==
    ASSUME NEW S, NEW st \in Seq(S), NEW fr \in S, NEW tripped, DistinctMade(st, tripped),
           Makes(fr, tripped) => ~MadeIn(st, tripped, fr.name)
    PROVE  DistinctMade(Append(st, fr), tripped)
<1> QED
  BY DEF DistinctMade, MadeIn

\* A stack is its top on what is below.
LEMMA TopAndBelow ==
    ASSUME NEW S, NEW st \in Seq(S), st # <<>>
    PROVE  /\ Front(st) \in Seq(S) /\ Last(st) \in S /\ Last(st) = st[Len(st)]
           /\ Len(st) \in Nat \ {0} /\ Len(Front(st)) = Len(st) - 1
           /\ \A i \in 1 .. Len(st) - 1 : Front(st)[i] = st[i]
           /\ st = Append(Front(st), Last(st))
<1>1. Len(st) \in Nat \ {0} /\ Last(st) = st[Len(st)] /\ Last(st) \in S
  BY DEF Last
<1>0. PICK e \in 0 .. Len(st) : e = Len(st) - 1
  <2>1. Len(st) - 1 \in 0 .. Len(st)
    BY <1>1
  <2> QED
    BY <2>1
<1>2. PICK below : below = SubSeq(st, 1, e)
  OBVIOUS
<1>3. below \in Seq(S) /\ Len(below) = e /\ \A i \in 1 .. e : below[i] = st[i]
  BY <1>0, <1>2
<1>4. PICK t : t = Append(below, st[Len(st)])
  OBVIOUS
<1>5. t \in Seq(S) /\ Len(t) = Len(st) /\ \A i \in 1 .. Len(t) : t[i] = st[i]
  BY <1>0, <1>1, <1>3, <1>4
<1>6. t = st
  BY <1>5, SeqEqual, Zenon
<1> QED
  BY <1>0, <1>1, <1>2, <1>3, <1>4, <1>6 DEF Front

LEMMA PoppedDistinct ==
    ASSUME NEW S, NEW st \in Seq(S), st # <<>>, NEW tripped, DistinctMade(st, tripped)
    PROVE  /\ DistinctMade(Front(st), tripped)
           /\ Makes(Last(st), tripped) => ~MadeIn(Front(st), tripped, Last(st).name)
<1>1. PICK below, top : below = Front(st) /\ top = Last(st)
  OBVIOUS
<1>2. /\ top = st[Len(st)] /\ Len(st) \in Nat \ {0} /\ Len(below) = Len(st) - 1
      /\ \A i \in 1 .. Len(st) - 1 : below[i] = st[i]
  BY <1>1, TopAndBelow, Zenon
<1>3. DistinctMade(below, tripped)
  BY <1>2 DEF DistinctMade
<1>4. Makes(top, tripped) => ~MadeIn(below, tripped, top.name)
  BY <1>2 DEF DistinctMade, MadeIn
<1> QED
  BY <1>1, <1>3, <1>4, Zenon

Retaining(fns, gone) == {i \in DOMAIN fns : fns[i].name \notin gone}

Selecting(fns, gone, N, at) ==
    /\ at \in [1 .. N -> Retaining(fns, gone)]
    /\ Retained(fns, gone) = [j \in 1 .. N |-> fns[at[j]]]
    /\ \A i, j \in 1 .. N : at[i] = at[j] => i = j
    /\ \A i \in Retaining(fns, gone) : \E j \in 1 .. N : at[j] = i

\* What is retained is a selection of the functions: each of the others once.
LEMMA Selection ==
    ASSUME NEW S, NEW fns \in Seq(S), NEW gone
    PROVE  \E N \in Nat : \E at : Selecting(fns, gone, N, at)
<1>a. PICK kept : kept = Retaining(fns, gone)
  OBVIOUS
<1>b. kept = {i \in DOMAIN fns : fns[i].name \notin gone}
  BY <1>a DEF Retaining
<1> DEFINE Upto(i) == {k \in kept : k <= i}
           N == Cardinality(kept)
           rank == [i \in kept |-> Cardinality(Upto(i))]
           at == [j \in 1 .. N |-> CHOOSE i \in kept : Cardinality(Upto(i)) = j]
<1>1. kept \subseteq 1 .. Len(fns) /\ Len(fns) \in Nat
  BY <1>b
<1>2. IsFiniteSet(kept) /\ N \in Nat
  <2>1. IsFiniteSet(1 .. Len(fns))
    BY <1>1, FS_Interval
  <2> QED
    BY <1>1, <2>1, FS_Subset, FS_CardinalityType
<1>3. \A i \in kept : IsFiniteSet(Upto(i)) /\ Cardinality(Upto(i)) \in 1 .. N
  <2> TAKE i \in kept
  <2>1. Upto(i) \in SUBSET kept /\ i \in Upto(i)
    BY <1>1
  <2>2. IsFiniteSet(Upto(i)) /\ Cardinality(Upto(i)) <= N /\ Cardinality(Upto(i)) \in Nat
    BY <1>2, <2>1, FS_Subset, FS_CardinalityType
  <2>3. Cardinality(Upto(i)) # 0
    BY <2>1, <2>2, FS_EmptySet
  <2> QED
    BY <1>2, <2>2, <2>3
<1>4. \A i, j \in kept : i < j => Cardinality(Upto(i)) # Cardinality(Upto(j))
  <2> SUFFICES ASSUME NEW i \in kept, NEW j \in kept, i < j
               PROVE  Cardinality(Upto(i)) # Cardinality(Upto(j))
    OBVIOUS
  <2>1. Upto(i) \in SUBSET Upto(j) /\ j \in Upto(j) /\ j \notin Upto(i)
    <3>1. \A k \in kept : k \in Int
      BY <1>1
    <3> QED
      BY <3>1
  <2> QED
    BY <1>3, <2>1, FS_Subset
<1>5. \A i, j \in kept : Cardinality(Upto(i)) = Cardinality(Upto(j)) => i = j
  <2> HIDE DEF Upto
  <2> QED
    BY <1>1, <1>4
<1>6. rank \in Injection(kept, 1 .. N)
  BY <1>3, <1>5 DEF Injection, IsInjective
<1>7. IsFiniteSet(1 .. N) /\ Cardinality(1 .. N) = Cardinality(kept)
  BY <1>2, FS_Interval
<1>8. rank \in Surjection(kept, 1 .. N)
  BY <1>6, <1>7, FS_Injection
<1>9. \A j \in 1 .. N : \E i \in kept : Cardinality(Upto(i)) = j
  BY <1>8 DEF Surjection
<1>10. \A j \in 1 .. N : at[j] \in kept /\ Cardinality(Upto(at[j])) = j
  BY <1>9
<1>11. at \in [1 .. N -> kept]
  BY <1>10
<1>12. \A i, j \in 1 .. N : at[i] = at[j] => i = j
  <2> HIDE DEF at, Upto
  <2> QED
    BY <1>10
<1>13. \A i \in kept : at[Cardinality(Upto(i))] = i /\ Cardinality(Upto(i)) \in 1 .. N
  BY <1>3, <1>5, <1>10
<1>14. Retained(fns, gone) = [j \in 1 .. N |-> fns[at[j]]]
  <2>1. Retained(fns, gone) = [j \in 1 .. N |-> fns[CHOOSE i \in kept : Cardinality({k \in kept : k <= i}) = j]]
    BY <1>b DEF Retained
  <2>2. \A j \in 1 .. N : at[j] = CHOOSE i \in kept : Cardinality({k \in kept : k <= i}) = j
    OBVIOUS
  <2> HIDE DEF N, at
  <2> QED
    BY <2>1, <2>2
<1> HIDE DEF N, at, Upto
<1>15. \A i \in kept : \E j \in 1 .. N : at[j] = i
  BY <1>13
<1>16. Selecting(fns, gone, N, at)
  BY <1>a, <1>11, <1>12, <1>14, <1>15 DEF Selecting
<1> QED
  BY <1>2, <1>16, Zenon

LEMMA RetainedFacts ==
    ASSUME NEW S, NEW fns \in Seq(S), NEW gone
    PROVE  /\ Retained(fns, gone) \in Seq(S)
           /\ \A name : /\ EmittedIn(Retained(fns, gone), name) <=> EmittedIn(fns, name) /\ name \notin gone
                        /\ CalledIn(Retained(fns, gone), name) => CalledIn(fns, name)
                        /\ PlainIn(fns, name) => PlainIn(Retained(fns, gone), name)
           /\ Distinct(fns) => Distinct(Retained(fns, gone))
<1>1. PICK kept : kept = Retaining(fns, gone)
  OBVIOUS
<1>2. PICK N \in Nat : \E at : Selecting(fns, gone, N, at)
  BY Selection, Zenon
<1>3. PICK at \in [1 .. N -> kept] :
                /\ Retained(fns, gone) = [j \in 1 .. N |-> fns[at[j]]]
                /\ \A i, j \in 1 .. N : at[i] = at[j] => i = j
                /\ \A i \in kept : \E j \in 1 .. N : at[j] = i
  BY <1>1, <1>2, Zenon DEF Selecting
<1>4. PICK rest : rest = Retained(fns, gone)
  OBVIOUS
<1>5. DOMAIN fns = 1 .. Len(fns) /\ \A i \in 1 .. Len(fns) : fns[i] \in S
  OBVIOUS
<1>6. /\ \A i \in kept : i \in 1 .. Len(fns) /\ fns[i].name \notin gone
      /\ \A i \in 1 .. Len(fns) : fns[i].name \notin gone => i \in kept
  BY <1>1, <1>5 DEF Retaining
<1>7. \A j \in 1 .. N : at[j] \in kept
  BY <1>3
<1>8. rest \in Seq(S) /\ Len(rest) = N /\ \A j \in 1 .. N : rest[j] = fns[at[j]]
  BY <1>3, <1>4, <1>5, <1>6, <1>7
<1>9. ASSUME NEW name
      PROVE  /\ EmittedIn(rest, name) <=> EmittedIn(fns, name) /\ name \notin gone
             /\ CalledIn(rest, name) => CalledIn(fns, name)
             /\ PlainIn(fns, name) => PlainIn(rest, name)
  <2>1. EmittedIn(rest, name) => EmittedIn(fns, name) /\ name \notin gone
    BY <1>6, <1>7, <1>8, Zenon DEF EmittedIn
  <2>2. EmittedIn(fns, name) /\ name \notin gone => EmittedIn(rest, name)
    <3> SUFFICES ASSUME NEW i \in 1 .. Len(fns), fns[i].name = name, name \notin gone
                 PROVE  EmittedIn(rest, name)
      BY Zenon DEF EmittedIn
    <3>1. PICK j \in 1 .. N : at[j] = i
      BY <1>3, <1>6
    <3> QED
      BY <1>8, <3>1 DEF EmittedIn
  <2>3. CalledIn(rest, name) => CalledIn(fns, name)
    BY <1>6, <1>7, <1>8, Zenon DEF CalledIn
  <2>4. PlainIn(fns, name) => PlainIn(rest, name)
    BY <1>6, <1>7, <1>8, Zenon DEF PlainIn
  <2> QED
    BY <2>1, <2>2, <2>3, <2>4, Zenon
<1>10. Distinct(fns) => Distinct(rest)
  <2> SUFFICES ASSUME Distinct(fns), NEW i \in 1 .. N, NEW j \in 1 .. N, rest[i].name = rest[j].name
               PROVE  i = j
    BY <1>8 DEF Distinct
  <2>1. at[i] \in 1 .. Len(fns) /\ at[j] \in 1 .. Len(fns) /\ fns[at[i]].name = fns[at[j]].name
    BY <1>6, <1>7, <1>8
  <2>2. at[i] = at[j]
    BY <2>1, Zenon DEF Distinct
  <2> QED
    BY <1>3, <2>2
<1> QED
  BY <1>4, <1>8, <1>9, <1>10, Zenon

\* The functions of two sequences, joined.
LEMMA Joined ==
    ASSUME NEW S, NEW fns \in Seq(S), NEW more \in Seq(S)
    PROVE  /\ fns \o more \in Seq(S) /\ Len(fns \o more) = Len(fns) + Len(more)
           /\ \A name : /\ EmittedIn(fns \o more, name) <=> EmittedIn(fns, name) \/ EmittedIn(more, name)
                        /\ CalledIn(fns \o more, name) <=> CalledIn(fns, name) \/ CalledIn(more, name)
                        /\ PlainIn(fns \o more, name) <=> PlainIn(fns, name) /\ PlainIn(more, name)
           /\ Distinct(fns) /\ Distinct(more) /\ (\A name : ~(EmittedIn(fns, name) /\ EmittedIn(more, name)))
                => Distinct(fns \o more)
<1>1. PICK all : all = fns \o more
  OBVIOUS
<1>2. /\ all \in Seq(S) /\ Len(all) = Len(fns) + Len(more)
      /\ Len(fns) \in Nat /\ Len(more) \in Nat
      /\ \A i \in 1 .. Len(fns) : all[i] = fns[i] /\ i \in 1 .. Len(all)
      /\ \A j \in 1 .. Len(more) : all[Len(fns) + j] = more[j] /\ Len(fns) + j \in 1 .. Len(all)
  BY <1>1
<1>3. \A i \in 1 .. Len(all) : i \in 1 .. Len(fns) \/ \E j \in 1 .. Len(more) : i = Len(fns) + j
  <2> TAKE i \in 1 .. Len(all)
  <2>1. i \in 1 .. Len(fns) \/ (i - Len(fns) \in 1 .. Len(more) /\ i = Len(fns) + (i - Len(fns)))
    BY <1>2
  <2> QED
    BY <2>1
<1>4. ASSUME NEW name
      PROVE  /\ EmittedIn(all, name) <=> EmittedIn(fns, name) \/ EmittedIn(more, name)
             /\ CalledIn(all, name) <=> CalledIn(fns, name) \/ CalledIn(more, name)
             /\ PlainIn(all, name) <=> PlainIn(fns, name) /\ PlainIn(more, name)
  <2>1. EmittedIn(all, name) <=> EmittedIn(fns, name) \/ EmittedIn(more, name)
    <3>1. EmittedIn(all, name) => EmittedIn(fns, name) \/ EmittedIn(more, name)
      <4> SUFFICES ASSUME NEW i \in 1 .. Len(all), all[i].name = name
                   PROVE  EmittedIn(fns, name) \/ EmittedIn(more, name)
        BY Zenon DEF EmittedIn
      <4>1. CASE i \in 1 .. Len(fns)
        BY <1>2, <4>1 DEF EmittedIn
      <4>2. CASE \E j \in 1 .. Len(more) : i = Len(fns) + j
        BY <1>2, <4>2 DEF EmittedIn
      <4> QED
        BY <1>3, <4>1, <4>2
    <3>2. EmittedIn(fns, name) \/ EmittedIn(more, name) => EmittedIn(all, name)
      BY <1>2, Zenon DEF EmittedIn
    <3> QED
      BY <3>1, <3>2
  <2>2. CalledIn(all, name) <=> CalledIn(fns, name) \/ CalledIn(more, name)
    BY <1>2, <1>3, Zenon DEF CalledIn
  <2>3. PlainIn(all, name) <=> PlainIn(fns, name) /\ PlainIn(more, name)
    <3>1. PlainIn(fns, name) /\ PlainIn(more, name) => PlainIn(all, name)
      <4> SUFFICES ASSUME PlainIn(fns, name), PlainIn(more, name), NEW i \in 1 .. Len(all), all[i].name = name
                   PROVE  all[i].form = "plain"
        BY Zenon DEF PlainIn
      <4>1. CASE i \in 1 .. Len(fns)
        BY <1>2, <4>1 DEF PlainIn
      <4>2. CASE \E j \in 1 .. Len(more) : i = Len(fns) + j
        BY <1>2, <4>2 DEF PlainIn
      <4> QED
        BY <1>3, <4>1, <4>2
    <3>2. PlainIn(all, name) => PlainIn(fns, name) /\ PlainIn(more, name)
      <4> SUFFICES ASSUME PlainIn(all, name)
                   PROVE  /\ \A i \in 1 .. Len(fns) : fns[i].name = name => fns[i].form = "plain"
                          /\ \A i \in 1 .. Len(more) : more[i].name = name => more[i].form = "plain"
        BY Zenon DEF PlainIn
      <4>1. \A i \in 1 .. Len(all) : all[i].name = name => all[i].form = "plain"
        BY Zenon DEF PlainIn
      <4> QED
        BY <1>2, <4>1
    <3> QED
      BY <3>1, <3>2
  <2> QED
    BY <2>1, <2>2, <2>3, Zenon
<1>5. ASSUME Distinct(fns), Distinct(more), \A name : ~(EmittedIn(fns, name) /\ EmittedIn(more, name))
      PROVE  Distinct(all)
  <2> SUFFICES ASSUME NEW i \in 1 .. Len(all), NEW j \in 1 .. Len(all), all[i].name = all[j].name
               PROVE  i = j
    BY Zenon DEF Distinct
  <2>1. ASSUME NEW k \in 1 .. Len(fns), NEW l \in 1 .. Len(more)
        PROVE  fns[k].name # more[l].name
    BY <1>5 DEF EmittedIn
  <2>2. CASE i \in 1 .. Len(fns) /\ j \in 1 .. Len(fns)
    BY <1>2, <1>5, <2>2 DEF Distinct
  <2>3. CASE \E k, l \in 1 .. Len(more) : i = Len(fns) + k /\ j = Len(fns) + l
    <3>1. PICK k \in 1 .. Len(more), l \in 1 .. Len(more) : i = Len(fns) + k /\ j = Len(fns) + l
      BY <2>3
    <3>2. more[k].name = more[l].name
      BY <1>2, <3>1
    <3>3. k = l
      BY <1>5, <3>2 DEF Distinct
    <3> QED
      BY <3>1, <3>3
  <2>4. CASE i \in 1 .. Len(fns) /\ \E l \in 1 .. Len(more) : j = Len(fns) + l
    BY <1>2, <2>1, <2>4
  <2>5. CASE j \in 1 .. Len(fns) /\ \E l \in 1 .. Len(more) : i = Len(fns) + l
    BY <1>2, <2>1, <2>5
  <2> QED
    BY <1>3, <2>2, <2>3, <2>4, <2>5
<1> QED
  BY <1>1, <1>2, <1>4, <1>5, Zenon

\* Functions of the same names and forms.
LEMMA SameNames ==
    ASSUME NEW fns, NEW now, Len(now) = Len(fns),
           \A i \in 1 .. Len(fns) : now[i].name = fns[i].name /\ now[i].form = fns[i].form
    PROVE  /\ \A name : /\ EmittedIn(now, name) <=> EmittedIn(fns, name)
                        /\ PlainIn(now, name) <=> PlainIn(fns, name)
           /\ Distinct(now) <=> Distinct(fns)
<1>1. \A name : EmittedIn(now, name) <=> EmittedIn(fns, name)
  BY Zenon DEF EmittedIn
<1>2. \A name : PlainIn(now, name) <=> PlainIn(fns, name)
  BY Zenon DEF PlainIn
<1>3. Distinct(now) <=> Distinct(fns)
  BY DEF Distinct
<1> QED
  BY <1>1, <1>2, <1>3

-------------------------------------------------------------------------------
(* What a step does to the top of the stack *)

\* The same frames, whatever their bodies have left to do and their trips to decide.
Alike(st, old) ==
    /\ Len(st) = Len(old)
    /\ \A i \in 1 .. Len(old) :
        /\ st[i].kind = old[i].kind
        /\ old[i].kind # "trip" => st[i].name = old[i].name /\ st[i].tripped_before = old[i].tripped_before

LEMMA AlikeFacts ==
    ASSUME NEW st, NEW old, Alike(st, old)
    PROVE  /\ \A tripped, name : MadeIn(st, tripped, name) <=> MadeIn(old, tripped, name)
           /\ \A name : WalkedIn(st, name) <=> WalkedIn(old, name)
           /\ \A tripped : DistinctMade(st, tripped) <=> DistinctMade(old, tripped)
<1>1. Len(st) = Len(old)
  BY DEF Alike
<1>2. \A i \in 1 .. Len(old) : \A tripped :
            /\ Makes(st[i], tripped) <=> Makes(old[i], tripped)
            /\ Makes(old[i], tripped) => st[i].name = old[i].name
            /\ st[i].kind = "original" <=> old[i].kind = "original"
            /\ old[i].kind = "original" => st[i].name = old[i].name
  BY DEF Alike, Makes
<1>3. \A tripped, name : MadeIn(st, tripped, name) <=> MadeIn(old, tripped, name)
  BY <1>1, <1>2, Zenon DEF MadeIn
<1>4. \A name : WalkedIn(st, name) <=> WalkedIn(old, name)
  BY <1>1, <1>2, Zenon DEF WalkedIn
<1>5. \A tripped : DistinctMade(st, tripped) <=> DistinctMade(old, tripped)
  BY <1>1, <1>2, Zenon DEF DistinctMade
<1> QED
  BY <1>3, <1>4, <1>5

\* A use is answered by a call to a name.
LEMMA AnsweredIs ==
    ASSUME Frames, Walking, NEW to \in NameSet, NEW how \in {"name", "dicts"},
           NEW st, st = Answered(to, how)
    PROVE  /\ st \in Seq(StackFrames) /\ Alike(st, stack)
           /\ \A name : /\ GoneIn(st, name) <=> GoneIn(stack, name)
                        /\ KeptIn(st, name) <=> KeptIn(stack, name)
                        /\ BodiesCall(st, name) => BodiesCall(stack, name) \/ name = to
<1>1. /\ TopFrame = stack[Len(stack)] /\ Len(stack) \in Nat \ {0} /\ TopFrame \in BodyFrames
      /\ Use \in Pairs /\ Tail(TopFrame.uses) \in Seq(UsesOf(FunNames))
  BY UseFacts, Zenon
<1>2. PICK call : call = [to |-> to, at |-> Use, how |-> how]
  OBVIOUS
<1>3. call \in Calls /\ call.to = to
  BY <1>1, <1>2 DEF Calls, Pairs
<1>4. PICK top : top = [TopFrame EXCEPT !.uses = Tail(@), !.calls = Append(@, call)]
  OBVIOUS
<1>a. PICK fr : fr = TopFrame
  OBVIOUS
<1>b. fr \in BodyFrames /\ Tail(fr.uses) \in Seq(UsesOf(FunNames)) /\ fr = stack[Len(stack)]
  BY <1>1, <1>a
<1>c. fr.kind \in {"original", "copy", "dict"} /\ fr.calls \in Seq(Calls) /\ Append(fr.calls, call) \in Seq(Calls)
  BY <1>b, <1>3 DEF BodyFrames
<1>d. top = [fr EXCEPT !.uses = Tail(fr.uses), !.calls = Append(fr.calls, call)]
  BY <1>4, <1>a, Zenon
<1>e. top \in BodyFrames /\ top.kind = fr.kind /\ top.name = fr.name /\ top.tripped_before = fr.tripped_before
      /\ top.calls = Append(fr.calls, call)
  BY <1>b, <1>c, <1>d DEF BodyFrames
<1>5. /\ top \in BodyFrames
      /\ top.kind = TopFrame.kind /\ top.name = TopFrame.name /\ top.tripped_before = TopFrame.tripped_before
      /\ top.calls = Append(TopFrame.calls, call) /\ TopFrame.calls \in Seq(Calls) /\ TopFrame.kind # "trip"
  BY <1>a, <1>c, <1>e
<1>6. st = [stack EXCEPT ![Len(stack)] = top]
  <2>1. top = [TopFrame EXCEPT !.uses = Tail(@),
                                  !.calls = Append(@, [to |-> to, at |-> Use, how |-> how])]
    BY <1>2, <1>4, Zenon
  <2> QED
    BY <2>1, Zenon DEF Answered
<1>7. stack \in Seq(StackFrames)
  BY DEF Frames
<1>8. /\ st \in Seq(StackFrames) /\ Len(st) = Len(stack)
      /\ st[Len(stack)] = top /\ \A i \in 1 .. Len(stack) : i # Len(stack) => st[i] = stack[i]
  <2>1. top \in StackFrames
    BY <1>5 DEF StackFrames
  <2> QED
    BY <1>1, <1>6, <1>7, <2>1
<1>9. \A i \in 1 .. Len(stack) : i = Len(stack) \/ i # Len(stack)
  OBVIOUS
<1>10. Len(stack) \in 1 .. Len(stack)
  BY <1>1
<1>11. Alike(st, stack)
  BY <1>1, <1>5, <1>8, <1>9, Zenon DEF Alike
<1>12. \A name : GoneIn(st, name) <=> GoneIn(stack, name)
  BY <1>1, <1>5, <1>8, <1>9, Zenon DEF GoneIn
<1>13. \A name : KeptIn(st, name) <=> KeptIn(stack, name)
  BY <1>1, <1>5, <1>8, <1>9, Zenon DEF KeptIn
<1>14. \A name : CallsTo(top.calls, name) => CallsTo(TopFrame.calls, name) \/ name = to
  BY <1>3, <1>5 DEF CallsTo
<1>15. \A name : BodiesCall(st, name) => BodiesCall(stack, name) \/ name = to
  BY <1>1, <1>5, <1>8, <1>9, <1>10, <1>14, Zenon DEF BodiesCall
<1> QED
  BY <1>8, <1>11, <1>12, <1>13, <1>15

\* A trip has handled a name.
LEMMA HandledIs ==
    ASSUME Frames, Tripping, NEW name \in TopFrame.purged, NEW st, st = Handled(name)
    PROVE  /\ name \in NameSet
           /\ TopFrame = stack[Len(stack)] /\ Len(stack) \in Nat \ {0}
           /\ name \in TopFrame.gone => GoneIn(stack, name)
           /\ name \notin TopFrame.gone => KeptIn(stack, name)
           /\ st \in Seq(StackFrames) /\ Alike(st, stack)
           /\ \A n : /\ GoneIn(st, n) => GoneIn(stack, n)
                     /\ KeptIn(st, n) => KeptIn(stack, n)
                     /\ n # name /\ GoneIn(stack, n) => GoneIn(st, n)
                     /\ n # name /\ KeptIn(stack, n) => KeptIn(st, n)
                     /\ BodiesCall(st, n) <=> BodiesCall(stack, n)
<1>1. stack \in Seq(StackFrames) /\ stack # <<>> /\ TopFrame.kind = "trip"
  BY DEF Frames, Tripping
<1>2. TopFrame = stack[Len(stack)] /\ Len(stack) \in Nat \ {0} /\ TopFrame \in StackFrames
  BY <1>1, TopAndBelow, Zenon DEF TopFrame
<1>3. TopFrame \in TripFrames
  BY <1>1, <1>2 DEF StackFrames, BodyFrames
<1>4. PICK top : top = [TopFrame EXCEPT !.purged = TopFrame.purged \ {name}]
  OBVIOUS
<1>5. /\ top \in TripFrames /\ top.kind = "trip" /\ top.gone = TopFrame.gone
      /\ top.purged = TopFrame.purged \ {name} /\ name \in NameSet
  BY <1>3, <1>4 DEF TripFrames
<1>6. st = [stack EXCEPT ![Len(stack)] = top]
  BY <1>2, <1>4, Zenon DEF Handled
<1>7. /\ st \in Seq(StackFrames) /\ Len(st) = Len(stack)
      /\ st[Len(stack)] = top /\ \A i \in 1 .. Len(stack) : i # Len(stack) => st[i] = stack[i]
  <2>1. top \in StackFrames
    BY <1>5 DEF StackFrames
  <2> QED
    BY <1>1, <1>2, <1>6, <2>1
<1>8. Len(stack) \in 1 .. Len(stack)
  BY <1>2
<1>9. Alike(st, stack)
  BY <1>1, <1>2, <1>5, <1>7, Zenon DEF Alike
<1>10. /\ name \in TopFrame.gone => GoneIn(stack, name)
       /\ name \notin TopFrame.gone => KeptIn(stack, name)
  BY <1>1, <1>2, <1>8 DEF GoneIn, KeptIn
<1>11. ASSUME NEW n
       PROVE  /\ GoneIn(st, n) => GoneIn(stack, n)
              /\ n # name /\ GoneIn(stack, n) => GoneIn(st, n)
  BY <1>1, <1>2, <1>5, <1>7 DEF GoneIn
<1>12. ASSUME NEW n
       PROVE  /\ KeptIn(st, n) => KeptIn(stack, n)
              /\ n # name /\ KeptIn(stack, n) => KeptIn(st, n)
  BY <1>1, <1>2, <1>5, <1>7 DEF KeptIn
<1>13. \A n : BodiesCall(st, n) <=> BodiesCall(stack, n)
  BY <1>1, <1>2, <1>5, <1>7, Zenon DEF BodiesCall
<1> QED
  BY <1>2, <1>5, <1>7, <1>9, <1>10, <1>11, <1>12, <1>13, Zenon

-------------------------------------------------------------------------------
(* What depends on few variables *)

\* The functions that are shared or dictionary-passing stay so.
LEMMA FlagsStay ==
    ASSUME compiled' = compiled, dict_passing_fns \subseteq dict_passing_fns',
           arity_only_fns \subseteq arity_only_fns'
    PROVE  \A f : (Shared(f) => Shared(f)') /\ (DictPassing(f) => DictPassing(f)')
<1> QED
  BY Same, Zenon DEF Shared, DictPassing

LEMMA SpecsStay ==
    ASSUME compiled' = compiled, specializations' = specializations
    PROVE  \A f : /\ SpecsOf(f)' = SpecsOf(f)
                  /\ WideningSpecs(f)' = WideningSpecs(f)
                  /\ PlainSpecs(f)' = PlainSpecs(f)
<1>1. \A f : SpecsOf(f)' = SpecsOf(f)
  BY DEF SpecsOf
<1> QED
  BY <1>1, Same, Zenon DEF WideningSpecs, PlainSpecs

\* Copies that nothing was added to stay counted.
LEMMA CountedStays ==
    ASSUME Counted, compiled' = compiled, specializations' = specializations,
           dict_passing_fns \subseteq dict_passing_fns'
    PROVE  Counted'
<1>1. FunNames' = FunNames /\ SpecLimit' = SpecLimit
  BY Same
<1>2. \A f : DictPassing(f) => DictPassing(f)'
  BY Same, Zenon DEF DictPassing
<1> QED
  BY <1>1, <1>2, SpecsStay, Zenon DEF Counted

\* The same functions were handed out: an original more may be dictionary-passing.
LEMMA ShapesStay ==
    ASSUME Served, Shapes, compiled' = compiled, specializations' = specializations,
           dict_passing_counts' = dict_passing_counts, arity_only_fns' = arity_only_fns,
           dict_passing_fns \subseteq dict_passing_fns',
           \A name \in dict_passing_fns' : name \in dict_passing_fns \/ ~name.copy
    PROVE  Served' /\ Shapes'
<1>1. \A f : (Shared(f)' <=> Shared(f)) /\ (DictPassing(f) => DictPassing(f)')
  BY Same, Zenon DEF Shared, DictPassing
<1>2. Served'
  BY <1>1, Zenon DEF Served
<1>3. \A name : Hole(name)' <=> Hole(name)
  BY DEF Hole
<1>4. ASSUME NEW s \in specializations'
      PROVE  /\ Hole(s)' => Shared(s.fun)' \/ DictPassing(s.fun)'
             /\ Shared(s.fun)' \/ s.fun \in dict_passing_counts' =>
                    Widening(s.fun, s.at)' /\ s.at = Shape(s.fun, s.at)'
  BY <1>1, <1>3, <1>4, Same, Zenon DEF Shapes
<1>5. \A name \in dict_passing_fns' : name.copy => Hole(name)'
  BY <1>3, Zenon DEF Shapes
<1> QED
  BY <1>2, <1>4, <1>5, Zenon DEF Shapes

\* A stack of frames like those it had.
LEMMA FramesAlike ==
    ASSUME Frames, UNCHANGED <<compiled, schedule, dict_passing_counts>>,
           dict_passing_fns \subseteq dict_passing_fns',
           stack' \in Seq(StackFrames), Alike(stack', stack)
    PROVE  Frames'
<1>1. compiled' = compiled /\ todo' = todo /\ batch' = batch
  BY DEF schedule
<1>2. ASSUME NEW i \in 1 .. Len(stack'), NEW new \in {stack'[i]}
      PROVE  Walks(new, i)'
  <2>1. PICK old : old = stack[i]
    OBVIOUS
  <2>2. i \in 1 .. Len(stack) /\ Walks(old, i)
    BY <1>2, <2>1 DEF Frames, Alike
  <2>3. new.kind = old.kind /\ (old.kind # "trip" => new.name = old.name /\ new.tripped_before = old.tripped_before)
    BY <1>2, <2>1, <2>2 DEF Alike
  <2>4. ToSet(todo') = ToSet(todo) /\ \A f : Original(f)' = Original(f)
    BY <1>1, Same
  <2>5. CASE old.kind = "trip"
    BY <2>3, <2>5 DEF Walks
  <2>6. CASE old.kind # "trip"
    <3>1. Walks(old, i)'
      BY <2>2, <2>4, Zenon DEF Walks
    <3> QED
      BY <2>3, <2>6, <3>1, Zenon DEF Walks
  <2> QED
    BY <2>5, <2>6
<1>3. StackFrames' = StackFrames
  BY <1>1, Same
<1>4. batch' \subseteq dict_passing_fns' /\ IsInjective(todo')
  BY <1>1 DEF Frames
<1> QED
  BY <1>1, <1>2, <1>3, <1>4, Zenon DEF Frames

-------------------------------------------------------------------------------
(* The uses that are answered by a name that is known *)

LEMMA Answers ==
    ASSUME MonoInv, Walking, NEW to \in NameSet, NEW how \in {"name", "dicts"},
           to.copy => DefinedAs(to),
           stack' = Answered(to, how),
           UNCHANGED <<compiled, schedule, copies, result_fns, arity_only_fns, dict_passing_counts,
                       served, deferred_errors>>,
           errors' \subseteq FunNames,
           dict_passing_fns \subseteq dict_passing_fns',
           \A name \in dict_passing_fns' :
               name \in dict_passing_fns \/ (name \in NameSet /\ ~name.copy /\ Constrained(name.fun))
    PROVE  MonoInv'
<1>1. /\ CopiesTyped /\ Frames /\ Served /\ Shapes /\ Counted /\ Once
      /\ \A name \in NameSet : Named(name)
  BY DEF MonoInv
<1>2. /\ compiled' = compiled /\ phase' = phase /\ todo' = todo /\ batch' = batch /\ rewritten' = rewritten
      /\ specializations' = specializations /\ generated' = generated /\ result_fns' = result_fns
      /\ arity_only_fns' = arity_only_fns /\ dict_passing_counts' = dict_passing_counts
      /\ ground_forms' = ground_forms /\ purged_specs' = purged_specs /\ deferred_errors' = deferred_errors
  BY DEF schedule, copies, served
<1>3. /\ FunNames' = FunNames /\ NameSet' = NameSet /\ FunctionSet' = FunctionSet
      /\ \A f : (Constrained(f)' <=> Constrained(f)) /\ Original(f)' = Original(f)
  BY <1>2, Same
<1>4. /\ stack' \in Seq(StackFrames) /\ Alike(stack', stack)
      /\ \A name : /\ GoneIn(stack', name) <=> GoneIn(stack, name)
                   /\ KeptIn(stack', name) <=> KeptIn(stack, name)
                   /\ BodiesCall(stack', name) => BodiesCall(stack, name) \/ name = to
  BY <1>1, AnsweredIs, Zenon
<1>5. /\ \A tripped, name : MadeIn(stack', tripped, name) <=> MadeIn(stack, tripped, name)
      /\ \A name : WalkedIn(stack', name) <=> WalkedIn(stack, name)
      /\ \A tripped : DistinctMade(stack', tripped) <=> DistinctMade(stack, tripped)
  BY <1>4, AlikeFacts, Zenon
<1>6. CopiesTyped'
  BY <1>1, <1>2, <1>3 DEF CopiesTyped
<1>7. Frames'
  BY <1>1, <1>4, FramesAlike, Zenon
<1>8. Served' /\ Shapes'
  BY <1>1, <1>2, ShapesStay, Zenon
<1>9. Counted'
  BY <1>1, <1>2, CountedStays, Zenon
<1>10. \A name : (EmittedAs(name)' <=> EmittedAs(name)) /\ (MadeAs(name)' <=> MadeAs(name))
  BY <1>2, <1>5, Zenon DEF EmittedAs, MadeAs
<1>11. Once'
  BY <1>1, <1>2, <1>3, <1>5, <1>10, Zenon DEF Once
<1>12. ASSUME NEW name \in NameSet
       PROVE  Named(name)'
  <2>1. Named(name)
    BY <1>1
  <2>2. (DefinedAs(name)' <=> DefinedAs(name)) /\ (Purged(name)' <=> Purged(name))
    BY <1>2, <1>10, Zenon DEF DefinedAs, Purged, Hole
  <2>3. Handed(name)'
    BY <1>2, <2>1, <2>2, Zenon DEF Named, Handed
  <2>4. WalkedOnce(name)'
    BY <1>2, <1>3, <1>5, <1>10, <2>1, Zenon DEF Named, WalkedOnce
  <2>5. Decided(name)'
    BY <1>2, <1>4, <1>10, <2>1, <2>2, Zenon DEF Named, Decided
  <2>6. Grounded(name)'
    BY <1>2, <1>10, <2>1, <2>2, Zenon DEF Named, Grounded, AllPlain, Hole
  <2>7. Replaced(name)'
    BY <1>2, <2>1, <2>2, Zenon DEF Named, Replaced, Hole
  <2>8. Leads(name)'
    BY <1>2, <1>4, <1>10, <2>1, <2>2, Zenon DEF Named, Leads, Called
  <2> QED
    BY <2>3, <2>4, <2>5, <2>6, <2>7, <2>8, Zenon DEF Named
<1> QED
  BY <1>3, <1>6, <1>7, <1>8, <1>9, <1>11, <1>12, Zenon DEF MonoInv

LEMMA UseHiddenStep == ASSUME MonoInv, UseHidden PROVE MonoInv'
<1>1. Frames /\ Walking /\ Constrained(Fun) /\ errors \subseteq FunNames
  BY DEF MonoInv, CopiesTyped, UseHidden, Hidden
<1>2. /\ Original(Fun) \in NameSet /\ ~Original(Fun).copy /\ Original(Fun).fun = Fun
  BY <1>1, UseFacts, NameFacts, Zenon
<1>3. PICK to : to = Original(Fun)
  OBVIOUS
<1>4. PICK f : f = Fun
  OBVIOUS
<1>5. \A name \in dict_passing_fns' :
          name \in dict_passing_fns \/ (name \in NameSet /\ ~name.copy /\ Constrained(name.fun))
  BY <1>1, <1>2, <1>3, <1>4 DEF UseHidden
<1>6. dict_passing_fns \subseteq dict_passing_fns' /\ errors' \subseteq FunNames
      /\ UNCHANGED <<compiled, schedule, copies, result_fns, arity_only_fns, dict_passing_counts,
                     served, deferred_errors>>
  BY <1>1 DEF UseHidden, reports
<1>7. stack' = Answered(to, "dicts")
  BY <1>3, Zenon DEF UseHidden
<1> QED
  BY <1>1, <1>2, <1>3, <1>5, <1>6, <1>7, Answers

LEMMA UseByNameStep == ASSUME MonoInv, UseByName PROVE MonoInv'
<1>1. Frames /\ Walking /\ errors \subseteq FunNames
  BY DEF MonoInv, CopiesTyped, UseByName
<1>2. PICK to : to = Original(Fun)
  OBVIOUS
<1>3. to \in NameSet /\ ~to.copy
  BY <1>1, <1>2, UseFacts, NameFacts, Zenon
<1>4. dict_passing_fns \subseteq dict_passing_fns' /\ dict_passing_fns' = dict_passing_fns
      /\ errors' \subseteq FunNames
      /\ UNCHANGED <<compiled, schedule, copies, result_fns, arity_only_fns, dict_passing_counts,
                     served, deferred_errors>>
  BY <1>1 DEF UseByName, reports, flags
<1>5. stack' = Answered(to, "name")
  BY <1>2, Zenon DEF UseByName
<1> QED
  BY <1>1, <1>3, <1>4, <1>5, Answers

LEMMA UseExhaustedStep == ASSUME MonoInv, UseExhausted PROVE MonoInv'
<1>1. Frames /\ Walking /\ errors \subseteq FunNames
  BY DEF MonoInv, CopiesTyped, UseExhausted, Wants
<1>2. PICK to : to = Original(Fun)
  OBVIOUS
<1>3. to \in NameSet /\ ~to.copy /\ Fun \in FunNames
  BY <1>1, <1>2, UseFacts, NameFacts, Zenon
<1>4. dict_passing_fns \subseteq dict_passing_fns' /\ dict_passing_fns' = dict_passing_fns
      /\ errors' \subseteq FunNames
      /\ UNCHANGED <<compiled, schedule, copies, result_fns, arity_only_fns, dict_passing_counts,
                     served, deferred_errors>>
  BY <1>1, <1>3 DEF UseExhausted, flags
<1>5. stack' = Answered(to, "name")
  BY <1>2, Zenon DEF UseExhausted
<1> QED
  BY <1>1, <1>3, <1>4, <1>5, Answers

\* The copy a use asks for: at a shape if the function serves all types.
LEMMA WantedFacts ==
    ASSUME Frames, Walking
    PROVE  /\ Wanted \in NameSet /\ Wanted.fun = Fun /\ Wanted.copy /\ Wanted.at \in Pairs
           /\ DictPassing(Fun) \/ Shared(Fun) => Wanted.at = Shape(Fun, Use) /\ Hole(Wanted)
           /\ ~(DictPassing(Fun) \/ Shared(Fun)) => ~Hole(Wanted)
<1>1. Fun \in FunNames /\ Use \in Pairs
  BY UseFacts
<1>2. PICK f, at : f = Fun /\ at = Use
  OBVIOUS
<1>3. Canonical(at) \in Pairs /\ Canonical(at).b.leaf # "hole"
  <2>1. at \in Pairs
    BY <1>1, <1>2
  <2>2. CASE at.b.leaf = "hole"
    <3>1. Canonical(at) = [at EXCEPT !.b.leaf = "var"]
      BY <2>2 DEF Canonical
    <3> QED
      BY <2>1, <3>1 DEF Pairs, Types
  <2>3. CASE at.b.leaf # "hole"
    BY <2>1, <2>3 DEF Canonical
  <2> QED
    BY <2>2, <2>3
<1>4. Shape(f, at) \in Pairs /\ Shape(f, at).b.leaf = "hole"
  BY <1>1, <1>2, ShapeFacts
<1>5. PICK to : to = IF DictPassing(f) \/ Shared(f) THEN Shape(f, at) ELSE Canonical(at)
  OBVIOUS
<1>6. Wanted = Copy(f, to)
  BY <1>2, <1>5, Zenon DEF Wanted
<1>7. to \in Pairs
  BY <1>3, <1>4, <1>5
<1>8. Copy(f, to) \in NameSet /\ Copy(f, to).fun = f /\ Copy(f, to).copy /\ Copy(f, to).at = to
  BY <1>1, <1>2, <1>7, NameFacts, Zenon
<1> QED
  BY <1>2, <1>3, <1>4, <1>5, <1>6, <1>7, <1>8, Zenon DEF Hole

LEMMA UseExistingStep == ASSUME MonoInv, UseExisting PROVE MonoInv'
<1>1. Frames /\ Walking /\ errors \subseteq FunNames
  BY DEF MonoInv, CopiesTyped, UseExisting, Wants
<1>2. PICK to : to = Wanted
  OBVIOUS
<1>3. to \in NameSet /\ to \in specializations
  BY <1>1, <1>2, WantedFacts, Zenon DEF UseExisting
<1>4. DefinedAs(to)
  BY <1>3, Zenon DEF MonoInv, Named, Handed
<1>5. dict_passing_fns \subseteq dict_passing_fns' /\ dict_passing_fns' = dict_passing_fns
      /\ errors' \subseteq FunNames
      /\ UNCHANGED <<compiled, schedule, copies, result_fns, arity_only_fns, dict_passing_counts,
                     served, deferred_errors>>
  BY <1>1 DEF UseExisting, reports, flags
<1>6. stack' = Answered(to, "name")
  BY <1>2, Zenon DEF UseExisting
<1> QED
  BY <1>1, <1>3, <1>4, <1>5, <1>6, Answers

-------------------------------------------------------------------------------
(* A copy that is handed out *)

\* What is asked of a name that is handed out: it is new, of the sort its function
\* makes, and within the limit.
New(name) ==
    /\ name.copy /\ name \notin specializations /\ ~Capped(name.fun)
    /\ IF DictPassing(name.fun) \/ Shared(name.fun)
       THEN Hole(name) /\ Widening(name.fun, name.at) /\ name.at = Shape(name.fun, name.at)
       ELSE ~Hole(name)

\* One more copy of a function that has not reached the limit.
LEMMA CountedGrows ==
    ASSUME Shapes, Counted, NEW name \in NameSet, New(name), compiled' = compiled,
           specializations' = specializations \cup {name}, dict_passing_fns \subseteq dict_passing_fns'
    PROVE  Counted'
<1>1. IsFiniteSet(specializations')
  BY FS_AddElement DEF Counted
<1>2. PICK f : f = name.fun
  OBVIOUS
<1>3. FunNames' = FunNames /\ SpecLimit \in Nat /\ SpecLimit' = SpecLimit
  BY Same, SpecializerAssumption
<1>4. \A g : DictPassing(g) => DictPassing(g)'
  BY Same, Zenon DEF DictPassing
<1>5. ASSUME NEW g, g # f
      PROVE  /\ SpecsOf(g)' = SpecsOf(g) /\ WideningSpecs(g)' = WideningSpecs(g)
             /\ PlainSpecs(g)' = PlainSpecs(g)
  <2>1. SpecsOf(g)' = SpecsOf(g)
    BY <1>2, <1>5 DEF SpecsOf
  <2> QED
    BY <2>1, Same, Zenon DEF WideningSpecs, PlainSpecs
<1>6. SpecsOf(f)' = SpecsOf(f) \cup {name}
  BY <1>2 DEF SpecsOf
<1>7. /\ Widening(f, name.at) => WideningSpecs(f)' = WideningSpecs(f) \cup {name}
      /\ Widening(f, name.at) => PlainSpecs(f)' = PlainSpecs(f)
      /\ WideningSpecs(f)' \subseteq SpecsOf(f)' /\ PlainSpecs(f)' \subseteq SpecsOf(f)'
  BY <1>6, Same DEF WideningSpecs, PlainSpecs
<1>8. /\ IsFiniteSet(SpecsOf(f)) /\ IsFiniteSet(WideningSpecs(f))
      /\ IsFiniteSet(SpecsOf(f)') /\ IsFiniteSet(WideningSpecs(f)') /\ IsFiniteSet(PlainSpecs(f)')
  <2>1. SpecsOf(f) \in SUBSET specializations /\ WideningSpecs(f) \in SUBSET specializations
    BY DEF SpecsOf, WideningSpecs
  <2>2. IsFiniteSet(SpecsOf(f)) /\ IsFiniteSet(WideningSpecs(f))
    BY <2>1, FS_Subset DEF Counted
  <2>3. IsFiniteSet(SpecsOf(f)')
    BY <1>6, <2>2, FS_AddElement
  <2> QED
    BY <1>7, <2>2, <2>3, FS_Subset
<1>9. f \in FunNames
  BY <1>2, NameFacts
<1>10. CASE DictPassing(f) \/ Shared(f)
  <2>1. Widening(f, name.at) /\ ~Exhausted(f)
    BY <1>2, <1>10, Zenon DEF New, Capped
  <2>2. ~(Cardinality(WideningSpecs(f)) > SpecLimit) /\ Cardinality(WideningSpecs(f)) \in Nat
    BY <2>1, <1>8, FS_CardinalityType, Zenon DEF Exhausted, WideningSpecs
  <2>3. Cardinality(WideningSpecs(f)') <= SpecLimit + 1
    BY <1>3, <1>7, <1>8, <2>1, <2>2, FS_AddElement
  <2>4. Cardinality(PlainSpecs(f)') <= SpecLimit + 1
    BY <1>7, <1>9, <2>1, Zenon DEF Counted
  <2>5. ASSUME ~DictPassing(f)' PROVE Cardinality(SpecsOf(f)') <= SpecLimit + 1
    <3>1. Shared(f)
      BY <1>4, <1>10, <2>5
    <3>2. \A s \in SpecsOf(f) : Widening(f, s.at)
      BY <3>1, Zenon DEF Shapes, SpecsOf
    <3>3. SpecsOf(f) = WideningSpecs(f)
      BY <3>2 DEF WideningSpecs
    <3>4. SpecsOf(f)' = WideningSpecs(f)'
      BY <1>6, <1>7, <2>1, <3>3
    <3> QED
      BY <2>3, <3>4
  <2> QED
    <3>1. ASSUME NEW g \in FunNames
          PROVE  /\ Cardinality(WideningSpecs(g)') <= SpecLimit + 1
                 /\ Cardinality(PlainSpecs(g)') <= SpecLimit + 1
                 /\ ~DictPassing(g)' => Cardinality(SpecsOf(g)') <= SpecLimit + 1
      <4>1. CASE g = f
        BY <2>3, <2>4, <2>5, <4>1, Zenon
      <4>2. CASE g # f
        BY <1>4, <1>5, <4>2, Zenon DEF Counted
      <4> QED
        BY <4>1, <4>2
    <3> QED
      BY <1>1, <1>3, <3>1, Zenon DEF Counted
<1>11. CASE ~(DictPassing(f) \/ Shared(f))
  <2>1. ~Full(f)
    BY <1>2, <1>11, Zenon DEF New, Capped
  <2>2. ~(Cardinality(SpecsOf(f)) > SpecLimit) /\ Cardinality(SpecsOf(f)) \in Nat
    BY <2>1, <1>8, FS_CardinalityType, Zenon DEF Full
  <2>3. Cardinality(SpecsOf(f)') <= SpecLimit + 1 /\ Cardinality(SpecsOf(f)') \in Nat
    BY <1>3, <1>6, <1>8, <2>2, FS_AddElement
  <2>4. Cardinality(WideningSpecs(f)') <= Cardinality(SpecsOf(f)') /\ Cardinality(WideningSpecs(f)') \in Nat
    BY <1>7, <1>8, FS_Subset, FS_CardinalityType
  <2>5. Cardinality(PlainSpecs(f)') <= Cardinality(SpecsOf(f)') /\ Cardinality(PlainSpecs(f)') \in Nat
    BY <1>7, <1>8, FS_Subset, FS_CardinalityType
  <2>6. Cardinality(WideningSpecs(f)') <= SpecLimit + 1 /\ Cardinality(PlainSpecs(f)') <= SpecLimit + 1
    BY <1>3, <2>3, <2>4, <2>5
  <2> QED
    <3>1. ASSUME NEW g \in FunNames
          PROVE  /\ Cardinality(WideningSpecs(g)') <= SpecLimit + 1
                 /\ Cardinality(PlainSpecs(g)') <= SpecLimit + 1
                 /\ ~DictPassing(g)' => Cardinality(SpecsOf(g)') <= SpecLimit + 1
      <4>1. CASE g = f
        BY <2>3, <2>6, <4>1, Zenon
      <4>2. CASE g # f
        BY <1>4, <1>5, <4>2, Zenon DEF Counted
      <4> QED
        BY <4>1, <4>2
    <3> QED
      BY <1>1, <1>3, <3>1, Zenon DEF Counted
<1> QED
  BY <1>10, <1>11

\* Once it is handed out, the copy is defined or being made, and nothing else is.
LEMMA HandsOut ==
    ASSUME MonoInv, NEW name \in NameSet, New(name),
           NEW below \in Seq(StackFrames), Alike(below, stack), NewCopy(name, below),
           UNCHANGED <<compiled, schedule, result_fns, arity_only_fns, dict_passing_counts>>
    PROVE  /\ ~Purged(name) /\ ~DefinedAs(name)
           /\ specializations' = specializations \cup {name}
           /\ dict_passing_fns \subseteq dict_passing_fns'
           /\ dict_passing_fns' \subseteq {n \in NameSet : Constrained(n.fun)}
           /\ generated' \in Seq(FunctionSet)
           /\ Frames' /\ Served' /\ Shapes' /\ Counted' /\ Once'
           /\ \A n : /\ EmittedAs(n) => EmittedAs(n)'
                     /\ EmittedAs(n)' => EmittedAs(n) \/ n = name
                     /\ DefinedAs(n)' <=> DefinedAs(n) \/ n = name
                     /\ AllPlain(n) /\ (n = name => ~Hole(name)) => AllPlain(n)'
                     /\ Called(n)' => CalledIn(result_fns, n) \/ CalledIn(generated, n) \/ BodiesCall(below, n)
                     /\ GoneIn(stack', n) <=> GoneIn(below, n)
                     /\ KeptIn(stack', n) <=> KeptIn(below, n)
                     /\ WalkedIn(stack', n) <=> WalkedIn(stack, n)
<1>1. /\ CopiesTyped /\ Frames /\ Served /\ Shapes /\ Counted /\ Once /\ Named(name)
  BY DEF MonoInv
<1>2. /\ compiled' = compiled /\ phase' = phase /\ todo' = todo /\ batch' = batch /\ rewritten' = rewritten
      /\ result_fns' = result_fns /\ arity_only_fns' = arity_only_fns
      /\ dict_passing_counts' = dict_passing_counts
  BY DEF schedule
<1>3. PICK f : f = name.fun
  OBVIOUS
<1>4. f \in FunNames /\ name.copy /\ name \notin specializations
  BY <1>3, NameFacts DEF New
<1>5. ~Purged(name)
  BY <1>1, <1>3, Zenon DEF Served, New, Purged
<1>6. ~DefinedAs(name)
  BY <1>1, <1>4, <1>5, Zenon DEF Named, Handed
<1>7. specializations' = specializations \cup {name}
  BY DEF NewCopy
<1>8. /\ \A tripped, n : MadeIn(below, tripped, n) <=> MadeIn(stack, tripped, n)
      /\ \A n : WalkedIn(below, n) <=> WalkedIn(stack, n)
      /\ \A tripped : DistinctMade(below, tripped) <=> DistinctMade(stack, tripped)
  BY AlikeFacts, Zenon
<1>9. ~EmittedIn(result_fns, name) /\ ~EmittedIn(generated, name) /\ ~MadeIn(stack, dict_passing_counts, name)
  BY <1>6, Zenon DEF DefinedAs, EmittedAs, MadeAs
<1>10. /\ FunNames' = FunNames /\ NameSet' = NameSet /\ StackFrames' = StackFrames
       /\ \A g : (Constrained(g)' <=> Constrained(g)) /\ Original(g)' = Original(g)
       /\ \A g, at : (Widening(g, at)' <=> Widening(g, at)) /\ Shape(g, at)' = Shape(g, at)
  BY <1>2, Same
<1>11. /\ dict_passing_fns \subseteq dict_passing_fns'
       /\ \A n \in dict_passing_fns' : n \in dict_passing_fns \/ (n = name /\ DictPassing(f))
  BY <1>3 DEF NewCopy, DictCopy
<1>12. \A g : (Shared(g)' <=> Shared(g)) /\ (DictPassing(g) => DictPassing(g)')
  BY <1>2, <1>10, <1>11, Zenon DEF Shared, DictPassing
<1>13. Served'
  BY <1>1, <1>2, <1>12, Zenon DEF Served
<1>14. \A n : Hole(n)' <=> Hole(n)
  BY DEF Hole
<1>15. Shapes'
  <2>1. ASSUME NEW s \in specializations'
        PROVE  /\ Hole(s)' => Shared(s.fun)' \/ DictPassing(s.fun)'
               /\ Shared(s.fun)' \/ s.fun \in dict_passing_counts' =>
                      Widening(s.fun, s.at)' /\ s.at = Shape(s.fun, s.at)'
    <3>1. CASE s \in specializations
      BY <1>1, <1>2, <1>10, <1>12, <1>14, <3>1, Zenon DEF Shapes
    <3>2. CASE s = name
      <4>1. Hole(s)' => Shared(s.fun)' \/ DictPassing(s.fun)'
        BY <1>12, <1>14, <3>2, Zenon DEF New
      <4>2. ASSUME Shared(s.fun)' \/ s.fun \in dict_passing_counts'
            PROVE  Widening(s.fun, s.at)' /\ s.at = Shape(s.fun, s.at)'
        BY <1>1, <1>2, <1>10, <1>12, <3>2, <4>2, Zenon DEF New, Served
      <4> QED
        BY <4>1, <4>2
    <3> QED
      BY <1>7, <3>1, <3>2
  <2>2. \A n \in dict_passing_fns' : n.copy => Hole(n)'
    BY <1>1, <1>3, <1>11, <1>14, Zenon DEF Shapes, New
  <2> QED
    BY <2>1, <2>2, Zenon DEF Shapes
<1>16. Counted'
  BY <1>1, <1>2, <1>7, <1>11, CountedGrows, Zenon
<1>17. dict_passing_fns' \subseteq {n \in NameSet : Constrained(n.fun)}
  <2>1. DictPassing(f) => Constrained(f)
    BY <1>1, NameFacts, Zenon DEF CopiesTyped, DictPassing
  <2> QED
    BY <1>1, <1>3, <1>11, <2>1 DEF CopiesTyped
<1>18. generated \in Seq(FunctionSet) /\ result_fns \in Seq(FunctionSet)
  BY <1>1 DEF CopiesTyped
<1>19. CASE DictPassing(f)
  <2>1. PICK fn : fn = Function(name, <<>>, "raw")
    OBVIOUS
  <2>2. fn \in FunctionSet /\ fn.name = name /\ fn.calls = <<>>
    BY <2>1 DEF Function, FunctionSet
  <2>3. generated' = Append(generated, fn) /\ stack' = below
    BY <1>3, <1>19, <2>1, Zenon DEF NewCopy, DictCopy
  <2>4. \A n : /\ EmittedIn(generated', n) <=> EmittedIn(generated, n) \/ n = name
               /\ CalledIn(generated', n) <=> CalledIn(generated, n)
               /\ PlainIn(generated', n) <=> PlainIn(generated, n) /\ (n = name => fn.form = "plain")
    <3>1. \A n : ~CallsTo(fn.calls, n)
      BY <2>2 DEF CallsTo
    <3> QED
      BY <1>18, <2>2, <2>3, <3>1, OneMore, Zenon
  <2>5. generated' \in Seq(FunctionSet) /\ Distinct(generated')
    BY <1>1, <1>9, <1>18, <2>2, <2>3, OneMoreDistinct DEF Once
  <2>6. Frames'
    BY <1>1, <1>2, <1>11, <2>3, FramesAlike DEF schedule
  <2>7. ASSUME NEW n
        PROVE  /\ EmittedAs(n)' <=> EmittedAs(n) \/ n = name
               /\ MadeAs(n)' <=> MadeAs(n)
               /\ AllPlain(n) /\ n # name => AllPlain(n)'
               /\ Called(n)' => CalledIn(result_fns, n) \/ CalledIn(generated, n) \/ BodiesCall(below, n)
               /\ GoneIn(stack', n) <=> GoneIn(below, n)
               /\ KeptIn(stack', n) <=> KeptIn(below, n)
               /\ WalkedIn(stack', n) <=> WalkedIn(stack, n)
    BY <1>2, <1>8, <2>3, <2>4, Zenon DEF EmittedAs, MadeAs, AllPlain, Called
  <2>8. Once'
    <3>1. DistinctMade(stack', dict_passing_counts')
      BY <1>1, <1>2, <1>8, <2>3, Zenon DEF Once
    <3>2. \A n \in NameSet : ~(EmittedIn(result_fns', n) /\ EmittedIn(generated', n))
      BY <1>1, <1>2, <1>9, <2>4, Zenon DEF Once
    <3>3. \A n \in NameSet : ~(EmittedAs(n)' /\ MadeAs(n)')
      BY <1>1, <1>6, <2>7, Zenon DEF Once, DefinedAs
    <3>4. Distinct(result_fns')
      BY <1>1, <1>2, Zenon DEF Once
    <3> QED
      BY <1>10, <2>5, <3>1, <3>2, <3>3, <3>4, Zenon DEF Once
  <2>9. \A n : DefinedAs(n)' <=> DefinedAs(n) \/ n = name
    BY <2>7, Zenon DEF DefinedAs
  <2>10. Hole(name)
    BY <1>3, <1>19, Zenon DEF New
  <2> QED
    BY <1>5, <1>6, <1>7, <1>11, <1>13, <1>15, <1>16, <1>17, <2>5, <2>6, <2>7, <2>8, <2>9, <2>10, Zenon
<1>20. CASE ~DictPassing(f)
  <2>1. PICK fr : fr = Activation("copy", name)
    OBVIOUS
  <2>2. /\ fr.kind = "copy" /\ fr.name = name /\ fr.calls = <<>>
        /\ fr.tripped_before <=> f \in dict_passing_counts
    BY <1>3, <2>1 DEF Activation
  <2>3. fr \in StackFrames
    <3>1. compiled.body[f] \in Seq(UsesOf(FunNames))
      BY <1>1, <1>4, ProgramFacts DEF Frames
    <3> QED
      BY <1>3, <2>1, <3>1 DEF Activation, StackFrames, BodyFrames
  <2>4. generated' = generated /\ dict_passing_fns' = dict_passing_fns /\ stack' = Append(below, fr)
    BY <1>3, <1>20, <2>1, Zenon DEF NewCopy
  <2>5. Makes(fr, dict_passing_counts)
    BY <1>3, <2>2 DEF Makes
  <2>6. \A n : ~CallsTo(fr.calls, n)
    BY <2>2 DEF CallsTo
  <2>7. \A n : /\ MadeIn(stack', dict_passing_counts, n) <=> MadeIn(stack, dict_passing_counts, n) \/ n = name
               /\ GoneIn(stack', n) <=> GoneIn(below, n)
               /\ KeptIn(stack', n) <=> KeptIn(below, n)
               /\ WalkedIn(stack', n) <=> WalkedIn(stack, n)
               /\ BodiesCall(stack', n) <=> BodiesCall(below, n)
    <3>1. fr.kind # "trip" /\ fr.kind # "original"
      BY <2>2
    <3> QED
      BY <1>8, <2>2, <2>3, <2>4, <2>5, <2>6, <3>1, Pushed, Zenon
  <2>8. DistinctMade(stack', dict_passing_counts)
    BY <1>1, <1>8, <1>9, <2>2, <2>3, <2>4, PushedDistinct, Zenon DEF Once
  <2>9. ASSUME NEW n
        PROVE  /\ EmittedAs(n)' <=> EmittedAs(n)
               /\ MadeAs(n)' <=> MadeAs(n) \/ n = name
               /\ AllPlain(n) => AllPlain(n)'
               /\ Called(n)' => CalledIn(result_fns, n) \/ CalledIn(generated, n) \/ BodiesCall(below, n)
    BY <1>2, <2>4, <2>7, Zenon DEF EmittedAs, MadeAs, AllPlain, Called
  <2>10. Once'
    <3>1. \A n \in NameSet : ~(EmittedAs(n)' /\ MadeAs(n)')
      BY <1>1, <1>6, <2>9, Zenon DEF Once, DefinedAs
    <3> QED
      BY <1>1, <1>2, <1>10, <2>4, <2>8, <3>1, Zenon DEF Once
  <2>11. \A n : DefinedAs(n)' <=> DefinedAs(n) \/ n = name
    BY <2>9, Zenon DEF DefinedAs
  <2>12. Frames'
    <3>1. /\ Len(below) \in Nat /\ Len(stack') = Len(below) + 1 /\ stack' \in Seq(StackFrames)
          /\ \A i \in 1 .. Len(below) : stack'[i] = below[i]
          /\ stack'[Len(below) + 1] = fr
      BY <2>3, <2>4
    <3>2. ASSUME NEW i \in 1 .. Len(stack'), NEW new \in {stack'[i]}
          PROVE  Walks(new, i)'
      <4>1. CASE i = Len(below) + 1
        <5>1. new = fr
          BY <3>1, <3>2, <4>1
        <5> QED
          BY <1>2, <1>3, <1>4, <2>2, <5>1 DEF Walks
      <4>2. CASE i \in 1 .. Len(below)
        <5>1. PICK old : old = stack[i]
          OBVIOUS
        <5>2. /\ Walks(old, i) /\ new.kind = old.kind
              /\ old.kind # "trip" => new.name = old.name /\ new.tripped_before = old.tripped_before
          BY <1>1, <3>1, <3>2, <4>2, <5>1 DEF Frames, Alike
        <5>3. Walks(old, i)'
          <6>1. ToSet(todo') = ToSet(todo)
            BY <1>2
          <6> QED
            BY <1>2, <1>10, <2>4, <5>2, <6>1, Zenon DEF Walks
        <5>4. CASE old.kind = "trip"
          BY <5>2, <5>4 DEF Walks
        <5>5. CASE old.kind # "trip"
          BY <5>2, <5>3, <5>5, Zenon DEF Walks
        <5> QED
          BY <5>4, <5>5
      <4> QED
        BY <3>1, <4>1, <4>2
    <3>3. batch' \subseteq dict_passing_fns' /\ IsInjective(todo')
      BY <1>1, <1>2, <1>11 DEF Frames
    <3> QED
      BY <1>1, <1>2, <1>10, <3>1, <3>2, <3>3, Zenon DEF Frames
  <2> QED
    BY <1>5, <1>6, <1>7, <1>11, <1>13, <1>15, <1>16, <1>17, <1>18, <2>4, <2>7, <2>9, <2>10, <2>11, <2>12, Zenon
<1> QED
  BY <1>19, <1>20

\* What the other names are, once a copy is handed out.
LEMMA HandedNames ==
    ASSUME MonoInv, NEW name \in NameSet, New(name),
           NEW below \in Seq(StackFrames), Alike(below, stack), NewCopy(name, below),
           UNCHANGED <<compiled, schedule, result_fns, arity_only_fns, dict_passing_counts, ground_forms>>,
           NEW n \in NameSet,
           GoneIn(below, n) => GoneIn(stack, n), KeptIn(below, n) => KeptIn(stack, n)
    PROVE  /\ Handed(n)' /\ WalkedOnce(n)' /\ Decided(n)' /\ Grounded(n)'
           /\ Purged(n)' <=> Purged(n)
<1>1. Named(n) /\ name.copy
  BY Zenon DEF MonoInv, New
<1>2. /\ ~Purged(name) /\ ~DefinedAs(name)
      /\ specializations' = specializations \cup {name}
      /\ EmittedAs(n) => EmittedAs(n)'
      /\ EmittedAs(n)' => EmittedAs(n) \/ n = name
      /\ DefinedAs(n)' <=> DefinedAs(n) \/ n = name
      /\ AllPlain(n) /\ (n = name => ~Hole(name)) => AllPlain(n)'
      /\ GoneIn(stack', n) <=> GoneIn(below, n)
      /\ KeptIn(stack', n) <=> KeptIn(below, n)
      /\ WalkedIn(stack', n) <=> WalkedIn(stack, n)
  BY HandsOut, Zenon
<1>3. /\ todo' = todo /\ Original(n.fun)' = Original(n.fun) /\ ground_forms' = ground_forms
      /\ (Purged(n)' <=> Purged(n)) /\ (Hole(n)' <=> Hole(n))
  BY Same, Zenon DEF schedule, Purged, Hole
<1>4. Handed(n)'
  BY <1>1, <1>2, <1>3 DEF Named, Handed
<1>5. WalkedOnce(n)'
  BY <1>1, <1>2, <1>3, Zenon DEF Named, WalkedOnce
<1>6. Decided(n)'
  BY <1>1, <1>2, <1>3, Zenon DEF Named, Decided
<1>7. Grounded(n)'
  BY <1>1, <1>2, <1>3, Zenon DEF Named, Grounded
<1> QED
  BY <1>3, <1>4, <1>5, <1>6, <1>7

\* What a use asks for in vain is new.
LEMMA WantedIsNew ==
    ASSUME MonoInv, UseNew
    PROVE  New(Wanted)
<1>1. Frames /\ Walking
  BY DEF MonoInv, UseNew, Wants
<1>2. PICK name, f : name = Wanted /\ f = Fun
  OBVIOUS
<1>3. name.copy /\ name.fun = f
  BY <1>1, <1>2, WantedFacts, Zenon
<1>4. name \notin specializations /\ ~Capped(f)
  BY <1>2, Zenon DEF UseNew
<1>5. ASSUME DictPassing(f) \/ Shared(f)
      PROVE  Hole(name) /\ Widening(f, name.at) /\ name.at = Shape(f, name.at)
  <2>1. Widening(Fun, Use)
    BY <1>2, <1>5, Zenon DEF UseNew, Wants
  <2>2. name.at = Shape(Fun, Use) /\ Hole(name)
    BY <1>1, <1>2, <1>5, WantedFacts, Zenon
  <2>3. Use \in Pairs
    BY <1>1, UseFacts, Zenon
  <2>4. Shape(Fun, Shape(Fun, Use)) = Shape(Fun, Use) /\ (Widening(Fun, Shape(Fun, Use)) <=> Widening(Fun, Use))
    BY <2>3, ShapeFacts, Zenon
  <2> QED
    BY <1>2, <2>1, <2>2, <2>4, Zenon
<1>6. ~(DictPassing(f) \/ Shared(f)) => ~Hole(name)
  BY <1>1, <1>2, WantedFacts, Zenon
<1>7. New(name)
  BY <1>3, <1>4, <1>5, <1>6, Zenon DEF New
<1> QED
  BY <1>2, <1>7, Zenon

LEMMA UseNewStep == ASSUME MonoInv, UseNew PROVE MonoInv'
<1>1. /\ CopiesTyped /\ Frames /\ Served /\ Shapes /\ Walking
      /\ \A n \in NameSet : Named(n)
  BY DEF MonoInv, UseNew, Wants
<1>2. PICK name, f, below : name = Wanted /\ f = Fun /\ below = Answered(Wanted, "name")
  OBVIOUS
<1>3. name \in NameSet /\ name.fun = f /\ name.copy /\ name.at \in Pairs
  BY <1>1, <1>2, WantedFacts, Zenon
<1>4. New(name)
  BY <1>2, WantedIsNew, Zenon
<1>5. /\ below \in Seq(StackFrames) /\ Alike(below, stack)
      /\ \A n : /\ GoneIn(below, n) <=> GoneIn(stack, n)
                /\ KeptIn(below, n) <=> KeptIn(stack, n)
                /\ BodiesCall(below, n) => BodiesCall(stack, n) \/ n = name
  BY <1>1, <1>2, <1>3, AnsweredIs, Zenon
<1>6. NewCopy(name, below)
  BY <1>2, Zenon DEF UseNew
<1>7. /\ UNCHANGED <<compiled, schedule, result_fns, arity_only_fns, dict_passing_counts, ground_forms>>
      /\ UNCHANGED <<errors, deferred_errors>>
  BY DEF UseNew, reports
<1>8. /\ ~Purged(name)
      /\ specializations' = specializations \cup {name}
      /\ dict_passing_fns' \subseteq {n \in NameSet : Constrained(n.fun)}
      /\ generated' \in Seq(FunctionSet)
      /\ Frames' /\ Served' /\ Shapes' /\ Counted' /\ Once'
      /\ \A n : /\ DefinedAs(n)' <=> DefinedAs(n) \/ n = name
                /\ Called(n)' => CalledIn(result_fns, n) \/ CalledIn(generated, n) \/ BodiesCall(below, n)
                /\ GoneIn(stack', n) <=> GoneIn(below, n)
                /\ KeptIn(stack', n) <=> KeptIn(below, n)
  BY <1>3, <1>4, <1>5, <1>6, <1>7, HandsOut, Zenon
<1>9. DOMAIN purged_specs' = DOMAIN purged_specs /\ \A n \in DOMAIN purged_specs : purged_specs'[n] = purged_specs[n]
  <2>1. name \notin DOMAIN purged_specs
    BY <1>1, <1>3, <1>8, Zenon DEF Named, Replaced
  <2>2. purged_specs' = [n \in DOMAIN purged_specs \ {name} |-> purged_specs[n]]
    BY <1>2 DEF UseNew, Reborn, Restrict
  <2> QED
    BY <2>1, <2>2
<1>10. NameSet' = NameSet /\ FunctionSet' = FunctionSet /\ FunNames' = FunNames
       /\ \A g : Constrained(g)' <=> Constrained(g)
  BY <1>7, Same, Zenon
<1>11. CopiesTyped'
  <2>1. Range(purged_specs') \subseteq NameSet /\ DOMAIN purged_specs' \subseteq NameSet
    BY <1>1, <1>9 DEF CopiesTyped, Range
  <2>2. specializations' \subseteq {n \in NameSet : n.copy}
    BY <1>1, <1>3, <1>8 DEF CopiesTyped
  <2> QED
    BY <1>1, <1>7, <1>8, <1>10, <2>1, <2>2 DEF CopiesTyped, schedule
<1>12. ASSUME NEW n \in NameSet
       PROVE  Named(n)'
  <2>1. Handed(n)' /\ WalkedOnce(n)' /\ Decided(n)' /\ Grounded(n)' /\ (Purged(n)' <=> Purged(n))
    BY <1>3, <1>4, <1>5, <1>6, <1>7, HandedNames, Zenon
  <2>2. Named(n)
    BY <1>1
  <2>3. Replaced(n)'
    BY <1>8, <1>9, <2>1, <2>2 DEF Named, Replaced, Hole
  <2>4. Leads(n)'
    BY <1>5, <1>8, <1>9, <2>2, Zenon DEF Named, Leads, Called
  <2> QED
    BY <2>1, <2>3, <2>4, Zenon DEF Named
<1> QED
  BY <1>8, <1>10, <1>11, <1>12, Zenon DEF MonoInv

-------------------------------------------------------------------------------
(* What a trip decides about the names it purged *)

\* A name that a trip has to decide about is purged.
LEMMA TripFacts ==
    ASSUME MonoInv, Tripping, NEW name \in TopFrame.purged, NEW st, st = Handled(name)
    PROVE  /\ name \in NameSet /\ Purged(name)
           /\ Named(name)
           /\ name \in TopFrame.gone => GoneIn(stack, name)
           /\ name \notin TopFrame.gone => KeptIn(stack, name)
           /\ st \in Seq(StackFrames) /\ Alike(st, stack)
           /\ \A n : /\ GoneIn(st, n) => GoneIn(stack, n)
                     /\ KeptIn(st, n) => KeptIn(stack, n)
                     /\ n # name /\ GoneIn(stack, n) => GoneIn(st, n)
                     /\ n # name /\ KeptIn(stack, n) => KeptIn(st, n)
                     /\ BodiesCall(st, n) <=> BodiesCall(stack, n)
<1>1. Frames /\ \A n \in NameSet : Named(n)
  BY DEF MonoInv
<1>2. /\ name \in NameSet
      /\ name \in TopFrame.gone => GoneIn(stack, name)
      /\ name \notin TopFrame.gone => KeptIn(stack, name)
      /\ st \in Seq(StackFrames) /\ Alike(st, stack)
      /\ \A n : /\ GoneIn(st, n) => GoneIn(stack, n)
                /\ KeptIn(st, n) => KeptIn(stack, n)
                /\ n # name /\ GoneIn(stack, n) => GoneIn(st, n)
                /\ n # name /\ KeptIn(stack, n) => KeptIn(st, n)
                /\ BodiesCall(st, n) <=> BodiesCall(stack, n)
  BY <1>1, HandledIs, Zenon
<1>3. Named(name)
  BY <1>1, <1>2
<1>4. Purged(name)
  BY <1>2, <1>3, Zenon DEF Named, Decided
<1> QED
  BY <1>2, <1>3, <1>4, Zenon

\* The name is redirected to an original or to a copy at a shape.
LEMMA Redirects ==
    ASSUME MonoInv, Tripping, NEW name \in TopFrame.purged, NEW target \in NameSet,
           target.copy => target \in specializations /\ Hole(target),
           stack' = Handled(name), purged_specs' = Led(purged_specs, name, target),
           UNCHANGED <<compiled, schedule, copies, result_fns, flags, ground_forms, deferred_errors>>,
           errors' \subseteq FunNames
    PROVE  MonoInv'
<1>1. /\ CopiesTyped /\ Frames /\ Served /\ Shapes /\ Counted /\ Once
      /\ \A n \in NameSet : Named(n)
  BY DEF MonoInv
<1>2. /\ compiled' = compiled /\ phase' = phase /\ todo' = todo /\ batch' = batch /\ rewritten' = rewritten
      /\ specializations' = specializations /\ generated' = generated /\ result_fns' = result_fns
      /\ arity_only_fns' = arity_only_fns /\ dict_passing_counts' = dict_passing_counts
      /\ dict_passing_fns' = dict_passing_fns
      /\ ground_forms' = ground_forms /\ deferred_errors' = deferred_errors
  BY DEF schedule, copies, flags
<1>3. /\ FunNames' = FunNames /\ NameSet' = NameSet /\ FunctionSet' = FunctionSet
      /\ \A f : (Constrained(f)' <=> Constrained(f)) /\ Original(f)' = Original(f)
  BY <1>2, Same
<1>4. /\ name \in NameSet /\ Purged(name)
      /\ stack' \in Seq(StackFrames) /\ Alike(stack', stack)
      /\ \A n : /\ GoneIn(stack', n) => GoneIn(stack, n)
                /\ KeptIn(stack', n) => KeptIn(stack, n)
                /\ n # name /\ GoneIn(stack, n) => GoneIn(stack', n)
                /\ n # name /\ KeptIn(stack, n) => KeptIn(stack', n)
                /\ BodiesCall(stack', n) <=> BodiesCall(stack, n)
  BY TripFacts, Zenon
<1>5. /\ \A tripped, n : MadeIn(stack', tripped, n) <=> MadeIn(stack, tripped, n)
      /\ \A n : WalkedIn(stack', n) <=> WalkedIn(stack, n)
      /\ \A tripped : DistinctMade(stack', tripped) <=> DistinctMade(stack, tripped)
  BY <1>4, AlikeFacts, Zenon
<1>6. /\ DOMAIN purged_specs' = DOMAIN purged_specs \cup {name}
      /\ purged_specs'[name] = target
      /\ \A z \in DOMAIN purged_specs : z # name => purged_specs'[z] = purged_specs[z]
  BY DEF Led
<1>7. CopiesTyped'
  <2>1. DOMAIN purged_specs' \subseteq NameSet /\ Range(purged_specs') \subseteq NameSet
    BY <1>1, <1>4, <1>6 DEF CopiesTyped, Range
  <2> QED
    BY <1>1, <1>2, <1>3, <2>1 DEF CopiesTyped
<1>8. Frames'
  BY <1>1, <1>2, <1>4, FramesAlike DEF schedule
<1>9. Served' /\ Shapes'
  BY <1>1, <1>2, ShapesStay, Zenon
<1>10. Counted'
  BY <1>1, <1>2, CountedStays, Zenon
<1>11. \A n : (EmittedAs(n)' <=> EmittedAs(n)) /\ (MadeAs(n)' <=> MadeAs(n))
  BY <1>2, <1>5, Zenon DEF EmittedAs, MadeAs
<1>12. Once'
  BY <1>1, <1>2, <1>3, <1>5, <1>11, Zenon DEF Once
<1>13. ASSUME NEW n \in NameSet
       PROVE  Named(n)'
  <2>1. Named(n)
    BY <1>1
  <2>2. (DefinedAs(n)' <=> DefinedAs(n)) /\ (Purged(n)' <=> Purged(n))
    BY <1>2, <1>11, Zenon DEF DefinedAs, Purged, Hole
  <2>3. Handed(n)'
    BY <1>2, <2>1, <2>2, Zenon DEF Named, Handed
  <2>4. WalkedOnce(n)'
    BY <1>2, <1>3, <1>5, <1>11, <2>1, Zenon DEF Named, WalkedOnce
  <2>5. Decided(n)'
    BY <1>2, <1>4, <1>11, <2>1, <2>2, Zenon DEF Named, Decided
  <2>6. Grounded(n)'
    BY <1>2, <1>11, <2>1, <2>2, Zenon DEF Named, Grounded, AllPlain, Hole
  <2>7. Replaced(n)'
    BY <1>2, <1>4, <1>6, <2>1, <2>2 DEF Named, Replaced, Hole
  <2>8. Leads(n)'
    BY <1>2, <1>4, <1>6, <1>11, <2>1, <2>2 DEF Named, Leads, Called
  <2> QED
    BY <2>3, <2>4, <2>5, <2>6, <2>7, <2>8, Zenon DEF Named
<1> QED
  BY <1>3, <1>7, <1>8, <1>9, <1>10, <1>12, <1>13, Zenon DEF MonoInv

LEMMA PurgeWideningStep == ASSUME MonoInv, PurgeWidening PROVE MonoInv'
<1>1. /\ CopiesTyped /\ Frames /\ Served /\ Shapes /\ Tripping
      /\ \A n \in NameSet : Named(n)
  BY DEF MonoInv, PurgeWidening
<1>2. PICK name \in TopFrame.purged :
        /\ Widening(name.fun, name.at)
        /\ LET f == name.fun
               shape == Copy(f, Shape(f, name.at)) IN
           CASE shape \in specializations ->
                    /\ stack' = Handled(name)
                    /\ purged_specs' = Purge(purged_specs, name, shape)
                    /\ UNCHANGED <<copies, dict_passing_fns, errors>>
             [] shape \notin specializations /\ Capped(f) ->
                    /\ stack' = Handled(name)
                    /\ purged_specs' = Purge(purged_specs, name, Original(f))
                    /\ errors' = errors \cup {f}
                    /\ UNCHANGED <<copies, dict_passing_fns>>
             [] OTHER ->
                    /\ NewCopy(shape, Handled(name))
                    /\ purged_specs' = Purge(Reborn(shape), name, shape)
                    /\ UNCHANGED errors
  BY Zenon DEF PurgeWidening
<1>3. PICK f, shape, below : f = name.fun /\ shape = Copy(f, Shape(f, name.at)) /\ below = Handled(name)
  OBVIOUS
<1>4. \/ /\ shape \in specializations /\ stack' = below
         /\ purged_specs' = Purge(purged_specs, name, shape)
         /\ UNCHANGED <<copies, dict_passing_fns, errors>>
      \/ /\ stack' = below
         /\ purged_specs' = Purge(purged_specs, name, Original(f))
         /\ errors' = errors \cup {f}
         /\ UNCHANGED <<copies, dict_passing_fns>>
      \/ /\ shape \notin specializations /\ ~Capped(f)
         /\ NewCopy(shape, below)
         /\ purged_specs' = Purge(Reborn(shape), name, shape)
         /\ UNCHANGED errors
  BY <1>2, <1>3, Zenon
<1>5. UNCHANGED <<compiled, schedule, result_fns, arity_only_fns, dict_passing_counts,
                  ground_forms, deferred_errors>>
  BY Zenon DEF PurgeWidening
<1>6. /\ name \in NameSet /\ Purged(name) /\ Named(name)
      /\ below \in Seq(StackFrames) /\ Alike(below, stack)
      /\ \A n : /\ GoneIn(below, n) => GoneIn(stack, n)
                /\ KeptIn(below, n) => KeptIn(stack, n)
                /\ n # name /\ GoneIn(stack, n) => GoneIn(below, n)
                /\ n # name /\ KeptIn(stack, n) => KeptIn(below, n)
                /\ BodiesCall(below, n) <=> BodiesCall(stack, n)
  BY <1>1, <1>3, TripFacts, Zenon
<1>7. f \in FunNames /\ name.at \in Pairs /\ f \in dict_passing_counts
  BY <1>3, <1>6, NameFacts, Zenon DEF Purged
<1>8. /\ Shape(f, name.at) \in Pairs /\ Shape(f, name.at).b.leaf = "hole"
      /\ Shape(f, Shape(f, name.at)) = Shape(f, name.at)
      /\ Widening(f, Shape(f, name.at))
  BY <1>2, <1>3, <1>7, ShapeFacts, Zenon
<1>9. /\ shape \in NameSet /\ shape.copy /\ shape.fun = f /\ shape.at = Shape(f, name.at)
      /\ Hole(shape) /\ shape # name
  <2>1. shape \in NameSet /\ shape.copy /\ shape.fun = f /\ shape.at = Shape(f, name.at)
    <3>1. PICK at : at = Shape(f, name.at)
      OBVIOUS
    <3>2. at \in Pairs /\ shape = Copy(f, at)
      BY <1>3, <1>8, <3>1, Zenon
    <3> QED
      BY <1>7, <3>1, <3>2, NameFacts, Zenon
  <2>2. Hole(shape)
    BY <1>8, <2>1 DEF Hole
  <2> QED
    BY <1>6, <2>1, <2>2, Zenon DEF Purged
<1>10. Original(f) \in NameSet /\ ~Original(f).copy /\ Original(f) # name
  BY <1>6, <1>7, NameFacts, Zenon DEF Purged
<1>11. \A map, target : target # name => Purge(map, name, target) = Led(map, name, target)
  BY Zenon DEF Purge
<1>12. CASE /\ shape \in specializations /\ stack' = below
            /\ purged_specs' = Purge(purged_specs, name, shape)
            /\ UNCHANGED <<copies, dict_passing_fns, errors>>
  <2>1. purged_specs' = Led(purged_specs, name, shape)
    BY <1>9, <1>11, <1>12, Zenon
  <2>2. errors' \subseteq FunNames /\ UNCHANGED <<copies, flags>>
    BY <1>1, <1>5, <1>12 DEF CopiesTyped, flags
  <2>3. stack' = Handled(name)
    BY <1>3, <1>12, Zenon
  <2> QED
    BY <1>1, <1>5, <1>9, <1>12, <2>1, <2>2, <2>3, Redirects
<1>13. CASE /\ stack' = below
            /\ purged_specs' = Purge(purged_specs, name, Original(f))
            /\ errors' = errors \cup {f}
            /\ UNCHANGED <<copies, dict_passing_fns>>
  <2>1. purged_specs' = Led(purged_specs, name, Original(f))
    BY <1>10, <1>11, <1>13, Zenon
  <2>2. errors' \subseteq FunNames /\ UNCHANGED <<copies, flags>>
    BY <1>1, <1>5, <1>7, <1>13 DEF CopiesTyped, flags
  <2>3. stack' = Handled(name)
    BY <1>3, <1>13, Zenon
  <2> QED
    BY <1>1, <1>5, <1>10, <1>13, <2>1, <2>2, <2>3, Redirects
<1>14. CASE /\ shape \notin specializations /\ ~Capped(f)
            /\ NewCopy(shape, below)
            /\ purged_specs' = Purge(Reborn(shape), name, shape)
            /\ UNCHANGED errors
  <2>1. New(shape)
    <3>1. DictPassing(f) \/ Shared(f)
      BY <1>1, <1>7, Zenon DEF Served
    <3> QED
      BY <1>8, <1>9, <1>14, <3>1, Zenon DEF New
  <2>2. /\ ~Purged(shape)
        /\ specializations' = specializations \cup {shape}
        /\ dict_passing_fns' \subseteq {n \in NameSet : Constrained(n.fun)}
        /\ generated' \in Seq(FunctionSet)
        /\ Frames' /\ Served' /\ Shapes' /\ Counted' /\ Once'
        /\ \A n : /\ DefinedAs(n)' <=> DefinedAs(n) \/ n = shape
                  /\ Called(n)' => CalledIn(result_fns, n) \/ CalledIn(generated, n) \/ BodiesCall(below, n)
                  /\ GoneIn(stack', n) <=> GoneIn(below, n)
                  /\ KeptIn(stack', n) <=> KeptIn(below, n)
    BY <1>5, <1>6, <1>9, <1>14, <2>1, HandsOut, Zenon
  <2>3. /\ DOMAIN purged_specs' = DOMAIN purged_specs \cup {name}
        /\ purged_specs'[name] = shape
        /\ \A n \in DOMAIN purged_specs : n # name => purged_specs'[n] = purged_specs[n]
    <3>1. shape \notin DOMAIN purged_specs
      BY <1>1, <1>9, <2>2, Zenon DEF Named, Replaced
    <3>2. PICK map : map = Reborn(shape)
      OBVIOUS
    <3>3. DOMAIN map = DOMAIN purged_specs /\ \A n \in DOMAIN purged_specs : map[n] = purged_specs[n]
      BY <3>1, <3>2 DEF Reborn, Restrict
    <3>4. purged_specs' = Led(map, name, shape)
      BY <1>9, <1>11, <1>14, <3>2, Zenon
    <3>5. /\ DOMAIN purged_specs' = DOMAIN map \cup {name}
          /\ purged_specs'[name] = shape
          /\ \A z \in DOMAIN map : z # name => purged_specs'[z] = map[z]
      BY <3>4 DEF Led
    <3> QED
      BY <3>3, <3>5
  <2>4. NameSet' = NameSet /\ FunctionSet' = FunctionSet /\ FunNames' = FunNames
        /\ \A g : Constrained(g)' <=> Constrained(g)
    BY <1>5, Same, Zenon
  <2>5. CopiesTyped'
    <3>1. Range(purged_specs') \subseteq NameSet /\ DOMAIN purged_specs' \subseteq NameSet
      BY <1>1, <1>6, <1>9, <2>3 DEF CopiesTyped, Range
    <3>2. specializations' \subseteq {n \in NameSet : n.copy}
      BY <1>1, <1>9, <2>2 DEF CopiesTyped
    <3> QED
      BY <1>1, <1>5, <1>14, <2>2, <2>4, <3>1, <3>2 DEF CopiesTyped, schedule
  <2>6. ASSUME NEW n \in NameSet
        PROVE  Named(n)'
    <3>1. Handed(n)' /\ WalkedOnce(n)' /\ Decided(n)' /\ Grounded(n)' /\ (Purged(n)' <=> Purged(n))
      BY <1>5, <1>6, <1>9, <1>14, <2>1, HandedNames, Zenon
    <3>2. Named(n)
      BY <1>1
    <3>3. Replaced(n)'
      BY <1>6, <1>9, <2>2, <2>3, <3>1, <3>2 DEF Named, Replaced, Hole
    <3>4. Leads(n)'
      BY <1>6, <2>2, <2>3, <3>2 DEF Named, Leads, Called
    <3> QED
      BY <3>1, <3>3, <3>4, Zenon DEF Named
  <2> QED
    BY <2>2, <2>4, <2>5, <2>6, Zenon DEF MonoInv
<1> QED
  BY <1>4, <1>12, <1>13, <1>14

LEMMA PurgePlainStep == ASSUME MonoInv, PurgePlain PROVE MonoInv'
<1>1. /\ CopiesTyped /\ Frames /\ Served /\ Shapes /\ Counted /\ Once /\ Tripping
      /\ \A n \in NameSet : Named(n)
  BY DEF MonoInv, PurgePlain
<1>2. PICK name \in TopFrame.purged :
        /\ stack' = Handled(name)
        /\ IF Shared(name.fun)
           THEN /\ purged_specs' = Purge(purged_specs, name, Original(name.fun))
                /\ UNCHANGED <<generated, ground_forms>>
           ELSE /\ ground_forms' = ground_forms \cup {name}
                /\ generated' = IF name \in TopFrame.gone \ ground_forms
                                THEN Append(generated, Stub(name)) ELSE generated
                /\ UNCHANGED purged_specs
  BY Zenon DEF PurgePlain
<1>3. UNCHANGED <<compiled, schedule, specializations, result_fns, flags, reports>>
  BY Zenon DEF PurgePlain
<1>4. /\ name \in NameSet /\ Purged(name) /\ Named(name)
      /\ name \in TopFrame.gone => GoneIn(stack, name)
      /\ name \notin TopFrame.gone => KeptIn(stack, name)
      /\ stack' \in Seq(StackFrames) /\ Alike(stack', stack)
      /\ \A n : /\ GoneIn(stack', n) => GoneIn(stack, n)
                /\ KeptIn(stack', n) => KeptIn(stack, n)
                /\ n # name /\ GoneIn(stack, n) => GoneIn(stack', n)
                /\ n # name /\ KeptIn(stack, n) => KeptIn(stack', n)
                /\ BodiesCall(stack', n) <=> BodiesCall(stack, n)
  BY <1>1, <1>2, TripFacts, Zenon
<1>5. PICK f, original : f = name.fun /\ original = Original(f)
  OBVIOUS
<1>6. /\ f \in FunNames /\ f \in dict_passing_counts /\ name.at \in Pairs /\ name.copy /\ ~Hole(name)
      /\ original \in NameSet /\ ~original.copy
  BY <1>4, <1>5, NameFacts, Zenon DEF Purged
<1>7. CASE Shared(f)
  <2>1. purged_specs' = Purge(purged_specs, name, original) /\ UNCHANGED <<generated, ground_forms>>
    BY <1>2, <1>5, <1>7, Zenon
  <2>2. purged_specs' = Led(purged_specs, name, original)
    BY <1>6, <2>1, Zenon DEF Purge
  <2>3. errors' \subseteq FunNames /\ UNCHANGED <<copies, ground_forms, deferred_errors>>
    BY <1>1, <1>3, <2>1 DEF CopiesTyped, copies, reports
  <2> QED
    BY <1>1, <1>2, <1>3, <1>6, <2>2, <2>3, Redirects
<1>8. CASE ~Shared(f)
  <2>1. /\ ground_forms' = ground_forms \cup {name} /\ purged_specs' = purged_specs
        /\ generated' = IF name \in TopFrame.gone \ ground_forms
                        THEN Append(generated, Stub(name)) ELSE generated
    BY <1>2, <1>5, <1>8, Zenon
  <2>2. /\ compiled' = compiled /\ phase' = phase /\ todo' = todo /\ batch' = batch /\ rewritten' = rewritten
        /\ specializations' = specializations /\ result_fns' = result_fns
        /\ arity_only_fns' = arity_only_fns /\ dict_passing_counts' = dict_passing_counts
        /\ dict_passing_fns' = dict_passing_fns /\ errors' = errors /\ deferred_errors' = deferred_errors
    BY <1>3 DEF schedule, flags, reports
  <2>3. /\ FunNames' = FunNames /\ NameSet' = NameSet /\ FunctionSet' = FunctionSet
        /\ \A g : (Constrained(g)' <=> Constrained(g)) /\ Original(g)' = Original(g)
    BY <2>2, Same
  <2>4. /\ \A tripped, n : MadeIn(stack', tripped, n) <=> MadeIn(stack, tripped, n)
        /\ \A n : WalkedIn(stack', n) <=> WalkedIn(stack, n)
        /\ \A tripped : DistinctMade(stack', tripped) <=> DistinctMade(stack, tripped)
    BY <1>4, AlikeFacts, Zenon
  <2>5. Constrained(f)
    <3>1. DictPassing(f)
      BY <1>1, <1>6, <1>8, Zenon DEF Served
    <3>2. original \in dict_passing_fns /\ original.fun = f
      BY <1>5, <3>1, NameFacts, Zenon DEF DictPassing
    <3> QED
      BY <1>1, <3>2 DEF CopiesTyped
  <2>6. PICK fn : fn = Stub(name)
    OBVIOUS
  <2>7. /\ fn \in FunctionSet /\ fn.name = name /\ fn.form = "plain"
        /\ \A n : CallsTo(fn.calls, n) => n = original
    <3>1. PICK call : call = [to |-> original, at |-> name.at, how |-> "dicts"]
      OBVIOUS
    <3>2. call \in Calls /\ call.to = original
      BY <1>6, <3>1 DEF Calls, Pairs
    <3>3. fn = [name |-> name, calls |-> <<call>>, form |-> "plain"]
      BY <1>5, <2>6, <3>1, Zenon DEF Stub, Function
    <3>4. fn \in FunctionSet /\ fn.name = name /\ fn.form = "plain" /\ fn.calls = <<call>>
      BY <1>4, <3>2, <3>3 DEF FunctionSet
    <3> QED
      BY <3>2, <3>4 DEF CallsTo
  <2>8. generated \in Seq(FunctionSet) /\ result_fns \in Seq(FunctionSet)
    BY <1>1 DEF CopiesTyped
  <2>9. name \in TopFrame.gone \ ground_forms => ~DefinedAs(name)
    BY <1>4, Zenon DEF Named, Decided
  \* The stub is a plain function of a name that had none.
  <2>10. /\ generated' \in Seq(FunctionSet) /\ Distinct(generated')
         /\ \A n \in NameSet :
                /\ EmittedIn(generated, n) => EmittedIn(generated', n)
                /\ EmittedIn(generated', n) => EmittedIn(generated, n) \/ (n = name /\ ~DefinedAs(name))
                /\ CalledIn(generated', n) => CalledIn(generated, n) \/ n = original
                /\ PlainIn(generated, n) => PlainIn(generated', n)
         /\ EmittedIn(result_fns, name) \/ EmittedIn(generated', name)
    <3>1. CASE name \in TopFrame.gone \ ground_forms
      <4>1. generated' = Append(generated, fn) /\ ~DefinedAs(name)
        BY <2>1, <2>6, <2>9, <3>1
      <4>2. \A n : /\ EmittedIn(generated', n) <=> EmittedIn(generated, n) \/ fn.name = n
                   /\ CalledIn(generated', n) <=> CalledIn(generated, n) \/ CallsTo(fn.calls, n)
                   /\ PlainIn(generated', n) <=> PlainIn(generated, n) /\ (fn.name = n => fn.form = "plain")
        BY <2>7, <2>8, <4>1, OneMore, Zenon
      <4>3. generated' \in Seq(FunctionSet)
        BY <2>7, <2>8, <4>1
      <4>4. Distinct(generated')
        <5>1. ~EmittedIn(generated, fn.name) /\ Distinct(generated)
          BY <1>1, <2>7, <4>1, Zenon DEF DefinedAs, EmittedAs, Once
        <5> QED
          BY <2>7, <2>8, <4>1, <5>1, OneMoreDistinct, Zenon
      <4> QED
        BY <2>7, <4>1, <4>2, <4>3, <4>4, Zenon
    <3>2. CASE name \notin TopFrame.gone \ ground_forms
      <4>1. generated' = generated
        BY <2>1, <3>2
      <4>2. EmittedAs(name)
        BY <1>4, <3>2 DEF Named, Decided, Grounded
      <4> QED
        BY <1>1, <2>8, <4>1, <4>2, Zenon DEF Once, EmittedAs
    <3> QED
      BY <3>1, <3>2
  <2>11. \A n \in NameSet :
            /\ EmittedAs(n) => EmittedAs(n)'
            /\ EmittedAs(n)' => EmittedAs(n) \/ (n = name /\ ~DefinedAs(name))
            /\ MadeAs(n)' <=> MadeAs(n)
            /\ AllPlain(n) => AllPlain(n)'
    BY <2>2, <2>4, <2>10, Zenon DEF EmittedAs, MadeAs, AllPlain
  <2>12. EmittedAs(name)'
    BY <2>2, <2>10, Zenon DEF EmittedAs
  <2>13. CopiesTyped'
    BY <1>1, <1>4, <1>5, <2>1, <2>2, <2>3, <2>5, <2>10 DEF CopiesTyped
  <2>14. Frames'
    BY <1>1, <1>4, <2>2, FramesAlike DEF schedule
  <2>15. Served' /\ Shapes'
    BY <1>1, <2>2, ShapesStay, Zenon
  <2>16. Counted'
    BY <1>1, <2>2, CountedStays, Zenon
  <2>17. Once'
    <3>1. Distinct(result_fns') /\ DistinctMade(stack', dict_passing_counts')
      BY <1>1, <2>2, <2>4, Zenon DEF Once
    <3>2. \A n \in NameSet : ~(EmittedIn(result_fns', n) /\ EmittedIn(generated', n))
      BY <1>1, <2>2, <2>10, Zenon DEF Once, DefinedAs, EmittedAs
    <3>3. \A n \in NameSet : ~(EmittedAs(n)' /\ MadeAs(n)')
      BY <1>1, <2>11, Zenon DEF Once, DefinedAs
    <3> QED
      BY <2>3, <2>10, <3>1, <3>2, <3>3, Zenon DEF Once
  <2>18. ASSUME NEW n \in NameSet
         PROVE  Named(n)'
    <3>1. Named(n)
      BY <1>1
    <3>2. (Purged(n)' <=> Purged(n)) /\ (Hole(n)' <=> Hole(n))
      BY <2>2, Zenon DEF Purged, Hole
    <3>3. /\ DefinedAs(n) => DefinedAs(n)'
          /\ DefinedAs(n)' => DefinedAs(n) \/ n = name
      BY <2>11, Zenon DEF DefinedAs
    <3>4. Handed(n)'
      BY <1>4, <2>2, <3>1, <3>2, <3>3, Zenon DEF Named, Handed
    <3>5. WalkedOnce(n)'
      BY <1>6, <2>2, <2>3, <2>4, <2>11, <3>1, Zenon DEF Named, WalkedOnce
    <3>6. Decided(n)'
      <4>1. n \in ground_forms' <=> n \in ground_forms \/ n = name
        BY <2>1
      <4> QED
        BY <1>4, <2>2, <2>11, <3>1, <3>2, <3>3, <4>1, Zenon DEF Named, Decided
    <3>7. Grounded(n)'
      <4>1. n \in ground_forms' <=> n \in ground_forms \/ n = name
        BY <2>1
      <4> QED
        BY <1>4, <2>11, <2>12, <3>1, <3>2, <4>1, Zenon DEF Named, Grounded
    <3>8. Replaced(n)'
      BY <2>1, <2>2, <3>1, <3>2, Zenon DEF Named, Replaced, Hole
    <3>9. Leads(n)'
      <4>1. n.copy /\ Called(n)' => Called(n)
        BY <1>4, <1>6, <2>2, <2>10, Zenon DEF Called
      <4>2. DefinedAs(name)'
        BY <2>12, Zenon DEF DefinedAs
      <4> QED
        BY <1>4, <2>1, <3>1, <3>3, <4>1, <4>2, Zenon DEF Named, Leads
    <3> QED
      BY <3>4, <3>5, <3>6, <3>7, <3>8, <3>9, Zenon DEF Named
  <2> QED
    BY <2>3, <2>13, <2>14, <2>15, <2>16, <2>17, <2>18, Zenon DEF MonoInv
<1> QED
  BY <1>7, <1>8

-------------------------------------------------------------------------------
(* The end of a trip and of a body *)

\* A stack whose top is popped.
LEMMA Pops ==
    ASSUME Frames, stack # <<>>, NEW below, below = Front(stack)
    PROVE  /\ below \in Seq(StackFrames) /\ TopFrame \in StackFrames
           /\ TopFrame = stack[Len(stack)] /\ Len(stack) \in Nat \ {0} /\ Len(below) = Len(stack) - 1
           /\ \A i \in 1 .. Len(below) : below[i] = stack[i]
           /\ \A n : /\ \A tripped : MadeIn(stack, tripped, n) <=>
                            MadeIn(below, tripped, n) \/ (Makes(TopFrame, tripped) /\ TopFrame.name = n)
                     /\ GoneIn(stack, n) <=> GoneIn(below, n)
                            \/ (TopFrame.kind = "trip" /\ n \in TopFrame.purged \cap TopFrame.gone)
                     /\ KeptIn(stack, n) <=> KeptIn(below, n)
                            \/ (TopFrame.kind = "trip" /\ n \in TopFrame.purged \ TopFrame.gone)
                     /\ WalkedIn(stack, n) <=> WalkedIn(below, n)
                            \/ (TopFrame.kind = "original" /\ TopFrame.name = n)
                     /\ BodiesCall(stack, n) <=> BodiesCall(below, n)
                            \/ (TopFrame.kind # "trip" /\ CallsTo(TopFrame.calls, n))
           /\ \A tripped : DistinctMade(stack, tripped) =>
                    /\ DistinctMade(below, tripped)
                    /\ Makes(TopFrame, tripped) => ~MadeIn(below, tripped, TopFrame.name)
<1>1. stack \in Seq(StackFrames)
  BY DEF Frames
<1>2. PICK top : top = TopFrame
  OBVIOUS
<1>3. /\ below \in Seq(StackFrames) /\ top \in StackFrames /\ top = stack[Len(stack)]
      /\ Len(stack) \in Nat \ {0} /\ Len(below) = Len(stack) - 1
      /\ \A i \in 1 .. Len(stack) - 1 : below[i] = stack[i]
      /\ stack = Append(below, top)
  BY <1>1, <1>2, TopAndBelow, Zenon DEF TopFrame
<1>4. ASSUME NEW n
      PROVE  /\ \A tripped : MadeIn(stack, tripped, n) <=>
                    MadeIn(below, tripped, n) \/ (Makes(top, tripped) /\ top.name = n)
             /\ GoneIn(stack, n) <=> GoneIn(below, n) \/ (top.kind = "trip" /\ n \in top.purged \cap top.gone)
             /\ KeptIn(stack, n) <=> KeptIn(below, n) \/ (top.kind = "trip" /\ n \in top.purged \ top.gone)
             /\ WalkedIn(stack, n) <=> WalkedIn(below, n) \/ (top.kind = "original" /\ top.name = n)
             /\ BodiesCall(stack, n) <=> BodiesCall(below, n) \/ (top.kind # "trip" /\ CallsTo(top.calls, n))
  <2>1. PICK more : more = Append(below, top)
    OBVIOUS
  <2>2. /\ \A tripped : MadeIn(more, tripped, n) <=>
                MadeIn(below, tripped, n) \/ (Makes(top, tripped) /\ top.name = n)
        /\ GoneIn(more, n) <=> GoneIn(below, n) \/ (top.kind = "trip" /\ n \in top.purged \cap top.gone)
        /\ KeptIn(more, n) <=> KeptIn(below, n) \/ (top.kind = "trip" /\ n \in top.purged \ top.gone)
        /\ WalkedIn(more, n) <=> WalkedIn(below, n) \/ (top.kind = "original" /\ top.name = n)
        /\ BodiesCall(more, n) <=> BodiesCall(below, n) \/ (top.kind # "trip" /\ CallsTo(top.calls, n))
    <3>1. below \in Seq(StackFrames) /\ top \in StackFrames
      BY <1>3
    <3> QED
      BY <2>1, <3>1, Pushed
  <2>3. more = stack
    BY <1>3, <2>1
  <2> QED
    BY <2>2, <2>3, Zenon
<1>5. \A tripped : DistinctMade(stack, tripped) =>
          /\ DistinctMade(below, tripped)
          /\ Makes(top, tripped) => ~MadeIn(below, tripped, top.name)
  BY <1>1, <1>2, PoppedDistinct, Zenon DEF TopFrame
<1>6. \A i \in 1 .. Len(below) : below[i] = stack[i]
  BY <1>3
<1> QED
  BY <1>2, <1>3, <1>4, <1>5, <1>6, Zenon

LEMMA FramesPopped ==
    ASSUME Frames, stack # <<>>, stack' = Front(stack),
           UNCHANGED <<compiled, schedule, dict_passing_counts>>, dict_passing_fns \subseteq dict_passing_fns'
    PROVE  Frames'
<1>1. compiled' = compiled /\ todo' = todo /\ batch' = batch
  BY DEF schedule
<1>2. /\ stack' \in Seq(StackFrames) /\ Len(stack) \in Nat \ {0} /\ Len(stack') = Len(stack) - 1
      /\ \A i \in 1 .. Len(stack') : stack'[i] = stack[i]
  BY Pops, Zenon
<1>3. ASSUME NEW i \in 1 .. Len(stack'), NEW fr \in {stack'[i]}
      PROVE  Walks(fr, i)'
  <2>1. i \in 1 .. Len(stack) /\ fr \in {stack[i]}
    BY <1>2, <1>3
  <2>2. Walks(fr, i)
    BY <2>1, Zenon DEF Frames
  <2>3. ToSet(todo') = ToSet(todo) /\ \A f : Original(f)' = Original(f)
    BY <1>1, Same
  <2> QED
    BY <2>2, <2>3, Zenon DEF Walks
<1>4. StackFrames' = StackFrames /\ batch' \subseteq dict_passing_fns' /\ IsInjective(todo')
  BY <1>1, Same DEF Frames
<1> QED
  BY <1>1, <1>2, <1>3, <1>4, Zenon DEF Frames

\* What the end of a frame must keep.
LEMMA Ends ==
    ASSUME MonoInv, stack # <<>>, stack' = Front(stack),
           UNCHANGED <<compiled, schedule, specializations, arity_only_fns, dict_passing_counts, served, reports>>,
           dict_passing_fns \subseteq dict_passing_fns',
           \A n \in dict_passing_fns' :
               n \in dict_passing_fns \/ (n \in NameSet /\ ~n.copy /\ Constrained(n.fun)),
           TopFrame.kind = "trip" => TopFrame.purged = {},
           generated' \in Seq(FunctionSet) /\ result_fns' \in Seq(FunctionSet),
           Distinct(generated') /\ Distinct(result_fns'),
           \A n \in NameSet :
               /\ ~(EmittedIn(result_fns', n) /\ EmittedIn(generated', n))
               /\ ~(EmittedAs(n)' /\ MadeAs(n)')
               /\ n.copy => (EmittedAs(n) => EmittedAs(n)') /\ (DefinedAs(n)' <=> DefinedAs(n))
               /\ ~n.copy /\ EmittedAs(n)' =>
                       n = Original(n.fun) /\ n.fun \notin ToSet(todo) /\ ~WalkedIn(stack', n)
               /\ Called(n)' => Called(n)
               /\ n.copy /\ ~Hole(n) /\ AllPlain(n) => AllPlain(n)'
    PROVE  MonoInv'
<1>1. /\ CopiesTyped /\ Frames /\ Served /\ Shapes /\ Counted /\ Once
      /\ \A n \in NameSet : Named(n)
  BY DEF MonoInv
<1>2. /\ compiled' = compiled /\ phase' = phase /\ todo' = todo /\ batch' = batch /\ rewritten' = rewritten
      /\ specializations' = specializations
      /\ arity_only_fns' = arity_only_fns /\ dict_passing_counts' = dict_passing_counts
      /\ ground_forms' = ground_forms
      /\ purged_specs' = purged_specs /\ errors' = errors /\ deferred_errors' = deferred_errors
  BY DEF schedule, served, reports
<1>3. /\ FunNames' = FunNames /\ NameSet' = NameSet /\ FunctionSet' = FunctionSet
      /\ \A g : (Constrained(g)' <=> Constrained(g)) /\ Original(g)' = Original(g)
  BY <1>2, Same
<1>4. CopiesTyped'
  BY <1>1, <1>2, <1>3 DEF CopiesTyped
<1>5. Frames'
  BY <1>1, <1>2, FramesPopped DEF schedule
<1>6. Served' /\ Shapes'
  BY <1>1, <1>2, ShapesStay, Zenon
<1>7. Counted'
  BY <1>1, <1>2, CountedStays, Zenon
<1>8. /\ DistinctMade(stack', dict_passing_counts)
      /\ \A n : /\ GoneIn(stack, n) <=> GoneIn(stack', n)
                /\ KeptIn(stack, n) <=> KeptIn(stack', n)
  <2>1. /\ DistinctMade(stack, dict_passing_counts) => DistinctMade(stack', dict_passing_counts)
        /\ \A n : /\ GoneIn(stack, n) <=> GoneIn(stack', n)
                        \/ (TopFrame.kind = "trip" /\ n \in TopFrame.purged \cap TopFrame.gone)
                  /\ KeptIn(stack, n) <=> KeptIn(stack', n)
                        \/ (TopFrame.kind = "trip" /\ n \in TopFrame.purged \ TopFrame.gone)
    BY <1>1, Pops, Zenon
  <2> QED
    BY <1>1, <2>1 DEF Once
<1>9. Once'
  BY <1>2, <1>3, <1>8, Zenon DEF Once
<1>10. ASSUME NEW n \in NameSet
       PROVE  Named(n)'
  <2>1. Named(n)
    BY <1>1
  <2>2. (Purged(n)' <=> Purged(n)) /\ (Purged(n) => n.copy) /\ (Hole(n)' <=> Hole(n))
    BY <1>2, Zenon DEF Purged, Hole
  <2>3. Handed(n)'
    <3>1. n \in specializations => n.copy
      BY <1>1 DEF CopiesTyped
    <3> QED
      BY <1>2, <2>1, <2>2, <3>1, Zenon DEF Named, Handed
  <2>4. WalkedOnce(n)'
    BY <1>2, <1>3, Zenon DEF WalkedOnce
  <2>5. Decided(n)'
    BY <1>2, <1>8, <2>1, <2>2, Zenon DEF Named, Decided
  <2>6. Grounded(n)'
    BY <1>2, <2>1, <2>2, Zenon DEF Named, Grounded
  <2>7. Replaced(n)'
    BY <1>2, <2>1, <2>2, Zenon DEF Named, Replaced, Hole
  <2>8. Leads(n)'
    BY <1>2, <1>8, <2>1, Zenon DEF Named, Leads
  <2> QED
    BY <2>3, <2>4, <2>5, <2>6, <2>7, <2>8, Zenon DEF Named
<1> QED
  BY <1>3, <1>4, <1>5, <1>6, <1>7, <1>9, <1>10, Zenon DEF MonoInv

LEMMA TripDoneStep == ASSUME MonoInv, TripDone PROVE MonoInv'
<1>1. /\ CopiesTyped /\ Frames /\ Once /\ stack # <<>> /\ TopFrame.kind = "trip" /\ TopFrame.purged = {}
      /\ \A n \in NameSet : Named(n)
  BY DEF MonoInv, TripDone, Tripping
<1>2. /\ stack' = Front(stack)
      /\ UNCHANGED <<compiled, schedule, specializations, arity_only_fns, dict_passing_counts, served, reports>>
      /\ dict_passing_fns \subseteq dict_passing_fns' /\ dict_passing_fns' = dict_passing_fns
      /\ generated' = generated /\ result_fns' = result_fns /\ dict_passing_counts' = dict_passing_counts
      /\ todo' = todo
  BY DEF TripDone, copies, flags, schedule
<1>3. \A n : /\ MadeIn(stack, dict_passing_counts, n) <=> MadeIn(stack', dict_passing_counts, n)
             /\ WalkedIn(stack, n) <=> WalkedIn(stack', n)
             /\ BodiesCall(stack', n) => BodiesCall(stack, n)
  <2>1. \A n : /\ MadeIn(stack, dict_passing_counts, n) <=> MadeIn(stack', dict_passing_counts, n)
                        \/ (Makes(TopFrame, dict_passing_counts) /\ TopFrame.name = n)
               /\ WalkedIn(stack, n) <=> WalkedIn(stack', n)
                        \/ (TopFrame.kind = "original" /\ TopFrame.name = n)
               /\ BodiesCall(stack, n) <=> BodiesCall(stack', n)
                        \/ (TopFrame.kind # "trip" /\ CallsTo(TopFrame.calls, n))
    BY <1>1, <1>2, Pops, Zenon
  <2>2. ~Makes(TopFrame, dict_passing_counts) /\ TopFrame.kind # "original"
    BY <1>1 DEF Makes
  <2> QED
    BY <2>1, <2>2, Zenon
<1>4. \A n : /\ EmittedAs(n)' <=> EmittedAs(n)
             /\ MadeAs(n)' <=> MadeAs(n)
             /\ Called(n)' => Called(n)
             /\ AllPlain(n)' <=> AllPlain(n)
  BY <1>2, <1>3, Zenon DEF EmittedAs, MadeAs, Called, AllPlain
<1>5. generated' \in Seq(FunctionSet) /\ result_fns' \in Seq(FunctionSet)
  BY <1>1, <1>2 DEF CopiesTyped
<1>6. Distinct(generated') /\ Distinct(result_fns')
  BY <1>1, <1>2 DEF Once
<1>7. ASSUME NEW n \in NameSet
      PROVE  /\ ~(EmittedIn(result_fns', n) /\ EmittedIn(generated', n))
             /\ ~(EmittedAs(n)' /\ MadeAs(n)')
             /\ n.copy => (EmittedAs(n) => EmittedAs(n)') /\ (DefinedAs(n)' <=> DefinedAs(n))
             /\ ~n.copy /\ EmittedAs(n)' =>
                    n = Original(n.fun) /\ n.fun \notin ToSet(todo) /\ ~WalkedIn(stack', n)
             /\ Called(n)' => Called(n)
             /\ n.copy /\ ~Hole(n) /\ AllPlain(n) => AllPlain(n)'
  <2>1. ~(EmittedIn(result_fns', n) /\ EmittedIn(generated', n)) /\ ~(EmittedAs(n)' /\ MadeAs(n)')
    BY <1>1, <1>2, <1>4, Zenon DEF Once
  <2>2. ~n.copy /\ EmittedAs(n)' =>
            n = Original(n.fun) /\ n.fun \notin ToSet(todo) /\ ~WalkedIn(stack', n)
    BY <1>1, <1>3, <1>4, Zenon DEF Named, WalkedOnce
  <2> QED
    BY <1>4, <2>1, <2>2, Zenon DEF DefinedAs
<1> QED
  BY <1>1, <1>2, <1>5, <1>6, <1>7, Ends

\* The copy of a function that did not trip meanwhile is emitted.
LEMMA CopyDoneStep == ASSUME MonoInv, CopyDone PROVE MonoInv'
<1>1. /\ CopiesTyped /\ Frames /\ Once /\ stack # <<>> /\ TopFrame.kind = "copy"
      /\ \A n \in NameSet : Named(n)
  BY DEF MonoInv, CopyDone, Walked
<1>2. PICK top : top = TopFrame
  OBVIOUS
<1>3. PICK fn : fn = Function(top.name, top.calls, "plain")
  OBVIOUS
<1>4. /\ stack' = Front(stack)
      /\ UNCHANGED <<compiled, schedule, specializations, arity_only_fns, dict_passing_counts, served, reports>>
      /\ dict_passing_fns \subseteq dict_passing_fns' /\ dict_passing_fns' = dict_passing_fns
      /\ result_fns' = result_fns /\ dict_passing_counts' = dict_passing_counts /\ todo' = todo
      /\ generated' = IF Keeps(top) THEN Append(generated, fn) ELSE generated
  BY <1>2, <1>3 DEF CopyDone, flags, schedule
<1>5. /\ \A n : /\ MadeIn(stack, dict_passing_counts, n) <=> MadeIn(stack', dict_passing_counts, n)
                        \/ (Makes(top, dict_passing_counts) /\ top.name = n)
                /\ WalkedIn(stack, n) <=> WalkedIn(stack', n) \/ (top.kind = "original" /\ top.name = n)
                /\ BodiesCall(stack, n) <=> BodiesCall(stack', n)
                        \/ (top.kind # "trip" /\ CallsTo(top.calls, n))
      /\ DistinctMade(stack, dict_passing_counts) /\ Makes(top, dict_passing_counts) =>
                ~MadeIn(stack', dict_passing_counts, top.name)
      /\ top \in StackFrames
  BY <1>1, <1>2, <1>4, Pops, Zenon
<1>6. top.kind = "copy" /\ (Makes(top, dict_passing_counts) <=> Keeps(top))
  BY <1>1, <1>2 DEF Makes, Keeps
<1>7. top.name \in NameSet /\ top.calls \in Seq(Calls) /\ fn \in FunctionSet
      /\ fn.name = top.name /\ fn.calls = top.calls /\ fn.form = "plain"
  <2>1. top \in BodyFrames
    BY <1>5, <1>6 DEF StackFrames, TripFrames
  <2> QED
    BY <1>3, <2>1 DEF BodyFrames, Function, FunctionSet
<1>8. top.name.copy
  <2>1. \E i \in 1 .. Len(stack) : top = stack[i]
    <3>1. top = stack[Len(stack)] /\ Len(stack) \in Nat \ {0}
      BY <1>1, <1>2, Pops, Zenon
    <3> QED
      BY <3>1
  <2> QED
    BY <1>1, <1>6, <2>1 DEF Frames, Walks
<1>9. generated \in Seq(FunctionSet) /\ result_fns \in Seq(FunctionSet)
  BY <1>1 DEF CopiesTyped
<1>10. CASE Keeps(top)
  <2>1. generated' = Append(generated, fn)
    BY <1>4, <1>10
  <2>2. \A n : /\ EmittedIn(generated', n) <=> EmittedIn(generated, n) \/ top.name = n
               /\ CalledIn(generated', n) <=> CalledIn(generated, n) \/ CallsTo(top.calls, n)
               /\ PlainIn(generated', n) <=> PlainIn(generated, n) /\ (top.name = n => fn.form = "plain")
    BY <1>7, <1>9, <2>1, OneMore, Zenon
  <2>3. MadeAs(top.name)
    BY <1>5, <1>6, <1>10, Zenon DEF MadeAs
  <2>4. ~EmittedAs(top.name) /\ ~MadeIn(stack', dict_passing_counts, top.name)
    BY <1>1, <1>5, <1>6, <1>7, <1>10, <2>3, Zenon DEF Once
  <2>5. generated' \in Seq(FunctionSet) /\ result_fns' \in Seq(FunctionSet)
    BY <1>4, <1>7, <1>9, <2>1
  <2>6. Distinct(generated') /\ Distinct(result_fns')
    <3>1. ~EmittedIn(generated, fn.name) /\ Distinct(generated) /\ Distinct(result_fns)
      BY <1>1, <1>7, <2>4, Zenon DEF EmittedAs, Once
    <3> QED
      BY <1>4, <1>7, <1>9, <2>1, <3>1, OneMoreDistinct, Zenon
  <2>7. ASSUME NEW n \in NameSet
        PROVE  /\ ~(EmittedIn(result_fns', n) /\ EmittedIn(generated', n))
               /\ ~(EmittedAs(n)' /\ MadeAs(n)')
               /\ n.copy => (EmittedAs(n) => EmittedAs(n)') /\ (DefinedAs(n)' <=> DefinedAs(n))
               /\ ~n.copy /\ EmittedAs(n)' =>
                       n = Original(n.fun) /\ n.fun \notin ToSet(todo) /\ ~WalkedIn(stack', n)
               /\ Called(n)' => Called(n)
               /\ n.copy /\ ~Hole(n) /\ AllPlain(n) => AllPlain(n)'
    <3>1. /\ EmittedAs(n)' <=> EmittedAs(n) \/ top.name = n
          /\ MadeAs(n) <=> MadeAs(n)' \/ top.name = n
      BY <1>4, <1>5, <1>6, <1>10, <2>2, Zenon DEF EmittedAs, MadeAs
    <3>2. ~(EmittedIn(result_fns', n) /\ EmittedIn(generated', n))
      BY <1>1, <1>4, <2>2, <2>4, Zenon DEF Once, EmittedAs
    <3>3. ~(EmittedAs(n)' /\ MadeAs(n)')
      <4>1. top.name = n => ~MadeAs(n)'
        BY <1>4, <2>4, Zenon DEF MadeAs
      <4> QED
        BY <1>1, <3>1, <4>1, Zenon DEF Once
    <3>4. DefinedAs(n)' <=> DefinedAs(n)
      BY <3>1, Zenon DEF DefinedAs
    <3>5. ~n.copy /\ EmittedAs(n)' =>
              n = Original(n.fun) /\ n.fun \notin ToSet(todo) /\ ~WalkedIn(stack', n)
      BY <1>1, <1>5, <1>8, <3>1, Zenon DEF Named, WalkedOnce
    <3>6. Called(n)' => Called(n)
      <4>1. top.kind # "trip"
        BY <1>6
      <4> QED
        BY <1>4, <1>5, <2>2, <4>1, Zenon DEF Called
    <3>7. AllPlain(n) => AllPlain(n)'
      BY <1>4, <1>7, <2>2, Zenon DEF AllPlain
    <3> QED
      BY <3>1, <3>2, <3>3, <3>4, <3>5, <3>6, <3>7
  <2> QED
    BY <1>1, <1>4, <2>5, <2>6, <2>7, Ends
<1>11. CASE ~Keeps(top)
  <2>1. generated' = generated
    BY <1>4, <1>11
  <2>2. generated' \in Seq(FunctionSet) /\ result_fns' \in Seq(FunctionSet)
    BY <1>4, <1>9, <2>1
  <2>3. Distinct(generated') /\ Distinct(result_fns')
    BY <1>1, <1>4, <2>1 DEF Once
  <2>4. ASSUME NEW n \in NameSet
        PROVE  /\ ~(EmittedIn(result_fns', n) /\ EmittedIn(generated', n))
               /\ ~(EmittedAs(n)' /\ MadeAs(n)')
               /\ n.copy => (EmittedAs(n) => EmittedAs(n)') /\ (DefinedAs(n)' <=> DefinedAs(n))
               /\ ~n.copy /\ EmittedAs(n)' =>
                       n = Original(n.fun) /\ n.fun \notin ToSet(todo) /\ ~WalkedIn(stack', n)
               /\ Called(n)' => Called(n)
               /\ n.copy /\ ~Hole(n) /\ AllPlain(n) => AllPlain(n)'
    <3>1. (EmittedAs(n)' <=> EmittedAs(n)) /\ (MadeAs(n) <=> MadeAs(n)')
      BY <1>4, <1>5, <1>6, <1>11, <2>1, Zenon DEF EmittedAs, MadeAs
    <3>2. ~(EmittedIn(result_fns', n) /\ EmittedIn(generated', n)) /\ ~(EmittedAs(n)' /\ MadeAs(n)')
      BY <1>1, <1>4, <2>1, <3>1, Zenon DEF Once
    <3>3. ~n.copy /\ EmittedAs(n)' =>
              n = Original(n.fun) /\ n.fun \notin ToSet(todo) /\ ~WalkedIn(stack', n)
      BY <1>1, <1>5, <3>1, Zenon DEF Named, WalkedOnce
    <3>4. (Called(n)' => Called(n)) /\ (AllPlain(n) => AllPlain(n)') /\ (DefinedAs(n)' <=> DefinedAs(n))
      BY <1>4, <1>5, <2>1, <3>1, Zenon DEF Called, AllPlain, DefinedAs
    <3> QED
      BY <3>1, <3>2, <3>3, <3>4
  <2> QED
    BY <1>1, <1>4, <2>2, <2>3, <2>4, Ends
<1> QED
  BY <1>10, <1>11

\* An original is emitted when its body has been walked, below which there is nothing.
LEMMA OriginalDoneStep == ASSUME MonoInv, OriginalDone PROVE MonoInv'
<1>1. /\ CopiesTyped /\ Frames /\ Once /\ stack # <<>> /\ TopFrame.kind = "original"
      /\ \A n \in NameSet : Named(n)
  BY DEF MonoInv, OriginalDone, Walked
<1>2. PICK top : top = TopFrame
  OBVIOUS
<1>3. PICK fn : fn = Function(top.name, top.calls, "plain")
  OBVIOUS
<1>4. /\ stack' = Front(stack)
      /\ UNCHANGED <<compiled, schedule, specializations, arity_only_fns, dict_passing_counts, served, reports>>
      /\ dict_passing_fns \subseteq dict_passing_fns' /\ dict_passing_fns' = dict_passing_fns
      /\ generated' = generated /\ dict_passing_counts' = dict_passing_counts /\ todo' = todo
      /\ result_fns' = Append(result_fns, fn)
  BY <1>2, <1>3 DEF OriginalDone, copies, flags, schedule
<1>5. /\ \A n : /\ MadeIn(stack, dict_passing_counts, n) <=> MadeIn(stack', dict_passing_counts, n)
                        \/ (Makes(top, dict_passing_counts) /\ top.name = n)
                /\ WalkedIn(stack, n) <=> WalkedIn(stack', n) \/ (top.kind = "original" /\ top.name = n)
                /\ BodiesCall(stack, n) <=> BodiesCall(stack', n)
                        \/ (top.kind # "trip" /\ CallsTo(top.calls, n))
      /\ top \in StackFrames /\ top = stack[Len(stack)] /\ Len(stack) \in Nat \ {0}
      /\ Len(stack') = Len(stack) - 1
  BY <1>1, <1>2, <1>4, Pops, Zenon
<1>6. top.kind = "original" /\ ~Makes(top, dict_passing_counts)
  BY <1>1, <1>2 DEF Makes
<1>7. top.name \in NameSet /\ top.calls \in Seq(Calls) /\ fn \in FunctionSet
      /\ fn.name = top.name /\ fn.calls = top.calls /\ fn.form = "plain"
  <2>1. top \in BodyFrames
    BY <1>5, <1>6 DEF StackFrames, TripFrames
  <2> QED
    BY <1>3, <2>1 DEF BodyFrames, Function, FunctionSet
<1>8. /\ Len(stack) = 1 /\ top.name = Original(top.name.fun) /\ top.name.fun \notin ToSet(todo)
      /\ ~top.name.copy
  <2>1. Len(stack) = 1 /\ top.name = Original(top.name.fun) /\ top.name.fun \notin ToSet(todo)
    BY <1>1, <1>5, <1>6 DEF Frames, Walks
  <2> QED
    BY <2>1, NameFacts, Zenon
<1>9. \A n : ~WalkedIn(stack', n) /\ ~MadeIn(stack', dict_passing_counts, n)
  BY <1>5, <1>8 DEF WalkedIn, MadeIn
<1>10. ~EmittedAs(top.name)
  BY <1>1, <1>5, <1>6, <1>7, <1>8, Zenon DEF Named, WalkedOnce
<1>11. generated \in Seq(FunctionSet) /\ result_fns \in Seq(FunctionSet)
  BY <1>1 DEF CopiesTyped
<1>12. \A n : /\ EmittedIn(result_fns', n) <=> EmittedIn(result_fns, n) \/ top.name = n
              /\ CalledIn(result_fns', n) <=> CalledIn(result_fns, n) \/ CallsTo(top.calls, n)
              /\ PlainIn(result_fns', n) <=> PlainIn(result_fns, n) /\ (top.name = n => fn.form = "plain")
  BY <1>4, <1>7, <1>11, OneMore, Zenon
<1>13. generated' \in Seq(FunctionSet) /\ result_fns' \in Seq(FunctionSet)
  BY <1>4, <1>7, <1>11
<1>14. Distinct(generated') /\ Distinct(result_fns')
  <2>1. ~EmittedIn(result_fns, fn.name) /\ Distinct(generated) /\ Distinct(result_fns)
    BY <1>1, <1>7, <1>10, Zenon DEF EmittedAs, Once
  <2> QED
    BY <1>4, <1>7, <1>11, <2>1, OneMoreDistinct, Zenon
<1>15. ASSUME NEW n \in NameSet
       PROVE  /\ ~(EmittedIn(result_fns', n) /\ EmittedIn(generated', n))
              /\ ~(EmittedAs(n)' /\ MadeAs(n)')
              /\ n.copy => (EmittedAs(n) => EmittedAs(n)') /\ (DefinedAs(n)' <=> DefinedAs(n))
              /\ ~n.copy /\ EmittedAs(n)' =>
                      n = Original(n.fun) /\ n.fun \notin ToSet(todo) /\ ~WalkedIn(stack', n)
              /\ Called(n)' => Called(n)
              /\ n.copy /\ ~Hole(n) /\ AllPlain(n) => AllPlain(n)'
  <2>1. /\ EmittedAs(n)' <=> EmittedAs(n) \/ top.name = n
        /\ MadeAs(n)' <=> MadeAs(n)
        /\ ~MadeAs(n)'
    BY <1>4, <1>5, <1>6, <1>9, <1>12, Zenon DEF EmittedAs, MadeAs
  <2>2. ~(EmittedIn(result_fns', n) /\ EmittedIn(generated', n))
    BY <1>1, <1>4, <1>10, <1>12, Zenon DEF Once, EmittedAs
  <2>3. n.copy => (DefinedAs(n)' <=> DefinedAs(n))
    BY <1>8, <2>1, Zenon DEF DefinedAs
  <2>4. ~n.copy /\ EmittedAs(n)' =>
            n = Original(n.fun) /\ n.fun \notin ToSet(todo) /\ ~WalkedIn(stack', n)
    BY <1>1, <1>8, <1>9, <2>1, Zenon DEF Named, WalkedOnce
  <2>5. Called(n)' => Called(n)
    <3>1. top.kind # "trip"
      BY <1>6
    <3> QED
      BY <1>4, <1>5, <1>12, <3>1, Zenon DEF Called
  <2>6. AllPlain(n) => AllPlain(n)'
    BY <1>4, <1>7, <1>12, Zenon DEF AllPlain
  <2> QED
    BY <2>1, <2>2, <2>3, <2>4, <2>5, <2>6
<1> QED
  BY <1>1, <1>4, <1>13, <1>14, <1>15, Ends

\* The first function of a name.
FirstNamed(fns, name) == SelectInSeq(fns, LAMBDA fn : fn.name = name)

LEMMA FirstPosition ==
    ASSUME NEW S, NEW fns \in Seq(S), NEW name
    PROVE  \/ FirstNamed(fns, name) = 0 /\ ~EmittedIn(fns, name)
           \/ (FirstNamed(fns, name) \in 1 .. Len(fns) /\ fns[FirstNamed(fns, name)].name = name)
<1> DEFINE I == {i \in 1 .. Len(fns) : fns[i].name = name}
<1>1. FirstNamed(fns, name) = IF I # {} THEN Min(I) ELSE 0
  BY Zenon DEF FirstNamed, SelectInSeq
<1>2. ASSUME I # {}
      PROVE  Min(I) \in I
  <2>1. I \subseteq Nat
    OBVIOUS
  <2> HIDE DEF I
  <2>2. PICK m \in I : \A i \in I : ~(<<i, m>> \in OpToRel(<, Nat))
    BY <1>2, <2>1, NatLessThanWellFounded, WFMin, Zenon
  <2>3. OpToRel(<, Nat) = {ss \in Nat \X Nat : ss[1] < ss[2]}
    BY Zenon DEF OpToRel
  <2>4. \A i \in I : ~(<<i, m>> \in {ss \in Nat \X Nat : ss[1] < ss[2]})
    BY <2>2, <2>3, Zenon
  <2>5. \A i \in I : ~(i < m)
    BY <2>1, <2>4
  <2>6. \E m1 \in I : \A i \in I : m1 <= i
    BY <2>1, <2>5
  <2> QED
    BY <2>6, Zenon DEF Min
<1>3. I = {} => ~EmittedIn(fns, name)
  BY DEF EmittedIn
<1> QED
  BY <1>1, <1>2, <1>3

\* One function is replaced by another of its name.
LEMMA Replacing ==
    ASSUME NEW S, NEW fns \in Seq(S), NEW fn \in S, NEW at,
           at = 0 \/ (at \in 1 .. Len(fns) /\ fns[at].name = fn.name),
           NEW now, now = [fns EXCEPT ![at] = fn]
    PROVE  /\ now \in Seq(S) /\ (Distinct(now) <=> Distinct(fns))
           /\ \A n : /\ EmittedIn(now, n) <=> EmittedIn(fns, n)
                     /\ CalledIn(now, n) => CalledIn(fns, n) \/ CallsTo(fn.calls, n)
                     /\ PlainIn(fns, n) /\ n # fn.name => PlainIn(now, n)
<1>1. /\ now \in Seq(S) /\ Len(now) = Len(fns)
      /\ \A i \in 1 .. Len(fns) : now[i] = fns[i] \/ (now[i] = fn /\ fns[i].name = fn.name)
  <2>1. CASE at = 0
    <3>1. 0 \notin DOMAIN fns
      OBVIOUS
    <3>2. now = fns
      BY <2>1, <3>1
    <3> QED
      BY <3>2
  <2>2. CASE at \in 1 .. Len(fns) /\ fns[at].name = fn.name
    BY <2>2
  <2> QED
    BY <2>1, <2>2
<1>2. \A i \in 1 .. Len(fns) : now[i].name = fns[i].name
  BY <1>1
<1>3. Distinct(now) <=> Distinct(fns)
  BY <1>1, <1>2 DEF Distinct
<1>4. \A n : EmittedIn(now, n) <=> EmittedIn(fns, n)
  BY <1>1, <1>2, Zenon DEF EmittedIn
<1>5. \A n : CalledIn(now, n) => CalledIn(fns, n) \/ CallsTo(fn.calls, n)
  BY <1>1, Zenon DEF CalledIn
<1>6. \A n : PlainIn(fns, n) /\ n # fn.name => PlainIn(now, n)
  BY <1>1, <1>2, Zenon DEF PlainIn
<1> QED
  BY <1>1, <1>3, <1>4, <1>5, <1>6

\* Calls that pass dictionaries are calls of the same functions.
LEMMA WithDictsFacts ==
    ASSUME NEW calls \in Seq(Calls), NEW taken
    PROVE  /\ WithDicts(calls, taken) \in Seq(Calls)
           /\ \A name : CallsTo(WithDicts(calls, taken), name) <=> CallsTo(calls, name)
<1>1. PICK now : now = WithDicts(calls, taken)
  OBVIOUS
<1>2. now = [i \in 1 .. Len(calls) |->
                IF calls[i] \in taken THEN [calls[i] EXCEPT !.how = "dicts"] ELSE calls[i]]
  BY <1>1 DEF WithDicts
<1>3. \A call \in Calls : [call EXCEPT !.how = "dicts"] \in Calls /\ [call EXCEPT !.how = "dicts"].to = call.to
  BY DEF Calls
<1>4. \A i \in 1 .. Len(calls) : calls[i] \in Calls
  OBVIOUS
<1>5. \A i \in 1 .. Len(calls) : now[i] \in Calls /\ now[i].to = calls[i].to
  BY <1>2, <1>3, <1>4
<1>6. now \in Seq(Calls) /\ Len(now) = Len(calls)
  BY <1>2, <1>5
<1>7. \A name : CallsTo(now, name) <=> CallsTo(calls, name)
  BY <1>5, <1>6, Zenon DEF CallsTo
<1> QED
  BY <1>1, <1>6, <1>7, Zenon

LEMMA DictDoneStep == ASSUME MonoInv, DictDone PROVE MonoInv'
<1>1. /\ CopiesTyped /\ Frames /\ Shapes /\ Once /\ stack # <<>> /\ TopFrame.kind = "dict"
      /\ \A n \in NameSet : Named(n)
  BY DEF MonoInv, DictDone, Walked
<1>2. PICK top : top = TopFrame
  OBVIOUS
<1>3. PICK taken : taken = {c \in ToSet(top.calls) : TakesDicts(c)}
  OBVIOUS
<1>4. PICK fn, at : fn = Function(top.name, WithDicts(top.calls, taken), "dict") /\ at = FirstNamed(result_fns, top.name)
  OBVIOUS
<1>5. /\ stack' = Front(stack)
      /\ dict_passing_fns' = dict_passing_fns \cup {c.to : c \in taken}
      /\ result_fns' = [result_fns EXCEPT ![at] = fn]
      /\ UNCHANGED <<compiled, schedule, specializations, arity_only_fns, dict_passing_counts, served, reports>>
      /\ generated' = generated /\ dict_passing_counts' = dict_passing_counts /\ todo' = todo
  BY <1>2, <1>3, <1>4 DEF DictDone, FirstNamed, copies, schedule
<1>6. /\ \A n : /\ MadeIn(stack, dict_passing_counts, n) <=> MadeIn(stack', dict_passing_counts, n)
                        \/ (Makes(top, dict_passing_counts) /\ top.name = n)
                /\ WalkedIn(stack, n) <=> WalkedIn(stack', n) \/ (top.kind = "original" /\ top.name = n)
                /\ BodiesCall(stack, n) <=> BodiesCall(stack', n)
                        \/ (top.kind # "trip" /\ CallsTo(top.calls, n))
      /\ top \in StackFrames /\ top = stack[Len(stack)] /\ Len(stack) \in Nat \ {0}
  BY <1>1, <1>2, <1>5, Pops, Zenon
<1>7. top.kind = "dict" /\ ~Makes(top, dict_passing_counts) /\ top.name \in dict_passing_fns
  <2>1. top.kind = "dict" /\ ~Makes(top, dict_passing_counts)
    BY <1>1, <1>2 DEF Makes
  <2>2. \E i \in 1 .. Len(stack) : top = stack[i]
    BY <1>6
  <2> QED
    BY <1>1, <2>1, <2>2 DEF Frames, Walks
<1>8. /\ top.name \in NameSet /\ top.calls \in Seq(Calls) /\ fn \in FunctionSet
      /\ fn.name = top.name /\ fn.calls = WithDicts(top.calls, taken)
      /\ \A n : CallsTo(fn.calls, n) <=> CallsTo(top.calls, n)
  <2>1. top \in BodyFrames
    BY <1>6, <1>7 DEF StackFrames, TripFrames
  <2>2. top.name \in NameSet /\ top.calls \in Seq(Calls)
    BY <2>1 DEF BodyFrames
  <2>3. /\ WithDicts(top.calls, taken) \in Seq(Calls)
        /\ \A n : CallsTo(WithDicts(top.calls, taken), n) <=> CallsTo(top.calls, n)
    BY <2>2, WithDictsFacts, Zenon
  <2>4. fn \in FunctionSet /\ fn.name = top.name /\ fn.calls = WithDicts(top.calls, taken)
    BY <1>4, <2>2, <2>3 DEF Function, FunctionSet
  <2> QED
    BY <2>2, <2>3, <2>4, Zenon
<1>9. \A n \in dict_passing_fns' :
          n \in dict_passing_fns \/ (n \in NameSet /\ ~n.copy /\ Constrained(n.fun))
  <2>1. ASSUME NEW c \in taken
        PROVE  c.to \in dict_passing_fns \/ (c.to \in NameSet /\ ~c.to.copy /\ Constrained(c.to.fun))
    <3>1. c \in Calls /\ TakesDicts(c)
      <4>1. c \in ToSet(top.calls) /\ TakesDicts(c)
        BY <1>3, <2>1
      <4> QED
        BY <1>8, <4>1 DEF ToSet
    <3> QED
      BY <3>1 DEF TakesDicts, IsPolyFn, Calls
  <2> QED
    BY <1>5, <2>1
<1>10. generated \in Seq(FunctionSet) /\ result_fns \in Seq(FunctionSet)
  BY <1>1 DEF CopiesTyped
<1>11. at = 0 \/ (at \in 1 .. Len(result_fns) /\ result_fns[at].name = fn.name)
  BY <1>4, <1>8, <1>10, FirstPosition, Zenon
<1>12. /\ result_fns' \in Seq(FunctionSet) /\ (Distinct(result_fns') <=> Distinct(result_fns))
       /\ \A n : /\ EmittedIn(result_fns', n) <=> EmittedIn(result_fns, n)
                 /\ CalledIn(result_fns', n) => CalledIn(result_fns, n) \/ CallsTo(fn.calls, n)
                 /\ PlainIn(result_fns, n) /\ n # fn.name => PlainIn(result_fns', n)
  BY <1>5, <1>8, <1>10, <1>11, Replacing, Zenon
<1>13. Distinct(generated') /\ Distinct(result_fns') /\ generated' \in Seq(FunctionSet)
  BY <1>1, <1>5, <1>10, <1>12 DEF Once
<1>14. ASSUME NEW n \in NameSet
       PROVE  /\ ~(EmittedIn(result_fns', n) /\ EmittedIn(generated', n))
              /\ ~(EmittedAs(n)' /\ MadeAs(n)')
              /\ n.copy => (EmittedAs(n) => EmittedAs(n)') /\ (DefinedAs(n)' <=> DefinedAs(n))
              /\ ~n.copy /\ EmittedAs(n)' =>
                      n = Original(n.fun) /\ n.fun \notin ToSet(todo) /\ ~WalkedIn(stack', n)
              /\ Called(n)' => Called(n)
              /\ n.copy /\ ~Hole(n) /\ AllPlain(n) => AllPlain(n)'
  <2>1. (EmittedAs(n)' <=> EmittedAs(n)) /\ (MadeAs(n)' <=> MadeAs(n))
    BY <1>5, <1>6, <1>7, <1>12, Zenon DEF EmittedAs, MadeAs
  <2>2. ~(EmittedIn(result_fns', n) /\ EmittedIn(generated', n)) /\ ~(EmittedAs(n)' /\ MadeAs(n)')
    BY <1>1, <1>5, <1>12, <2>1, Zenon DEF Once
  <2>3. DefinedAs(n)' <=> DefinedAs(n)
    BY <2>1, Zenon DEF DefinedAs
  <2>4. ~n.copy /\ EmittedAs(n)' =>
            n = Original(n.fun) /\ n.fun \notin ToSet(todo) /\ ~WalkedIn(stack', n)
    BY <1>1, <1>6, <2>1, Zenon DEF Named, WalkedOnce
  <2>5. Called(n)' => Called(n)
    <3>1. top.kind # "trip"
      BY <1>7
    <3> QED
      BY <1>5, <1>6, <1>8, <1>12, <3>1, Zenon DEF Called
  <2>6. n.copy /\ ~Hole(n) /\ AllPlain(n) => AllPlain(n)'
    <3>1. n.copy /\ ~Hole(n) => n # fn.name
      BY <1>1, <1>7, <1>8, Zenon DEF Shapes
    <3> QED
      BY <1>5, <1>12, <3>1, Zenon DEF AllPlain
  <2> QED
    BY <2>1, <2>2, <2>3, <2>4, <2>5, <2>6
<1>15. TopFrame.kind # "trip" /\ dict_passing_fns \subseteq dict_passing_fns'
  BY <1>1, <1>5
<1> QED
  BY <1>1, <1>5, <1>9, <1>12, <1>13, <1>14, <1>15, Ends

-------------------------------------------------------------------------------
(* run *)

\* A stack that was empty holds at most the activation of an original or of a flagged function.
Starting(fr) == fr \in BodyFrames /\ fr.kind \in {"original", "dict"} /\ fr.calls = <<>>

LEMMA Starts ==
    ASSUME MonoInv, stack = <<>>,
           stack' = <<>> \/ \E fr : Starting(fr) /\ Walks(fr, 1)' /\ stack' = <<fr>>,
           UNCHANGED <<compiled, phase, copies, result_fns, flags, served, reports>>,
           todo' \in Seq(FunNames), IsInjective(todo'), ToSet(todo') \subseteq ToSet(todo),
           batch' \subseteq dict_passing_fns, rewritten' \subseteq NameSet,
           \A n : WalkedIn(stack', n) => n.fun \in ToSet(todo)
    PROVE  MonoInv'
<1>1. /\ CopiesTyped /\ Frames /\ Served /\ Shapes /\ Counted /\ Once
      /\ \A n \in NameSet : Named(n)
  BY DEF MonoInv
<1>2. /\ compiled' = compiled /\ phase' = phase
      /\ specializations' = specializations /\ generated' = generated /\ result_fns' = result_fns
      /\ arity_only_fns' = arity_only_fns /\ dict_passing_counts' = dict_passing_counts
      /\ dict_passing_fns' = dict_passing_fns /\ ground_forms' = ground_forms
      /\ purged_specs' = purged_specs /\ errors' = errors /\ deferred_errors' = deferred_errors
  BY DEF copies, flags, served, reports
<1>3. /\ FunNames' = FunNames /\ NameSet' = NameSet /\ FunctionSet' = FunctionSet /\ StackFrames' = StackFrames
      /\ \A g : (Constrained(g)' <=> Constrained(g)) /\ Original(g)' = Original(g)
  BY <1>2, Same
<1>4. /\ stack' \in Seq(StackFrames)
      /\ \A i \in 1 .. Len(stack') : \A fr \in {stack'[i]} : Walks(fr, i)'
      /\ \A i \in 1 .. Len(stack') :
            i = 1 /\ stack'[i].kind \in {"original", "dict"} /\ \A n : ~CallsTo(stack'[i].calls, n)
  <2>1. CASE stack' = <<>>
    BY <2>1
  <2>2. CASE \E fr : Starting(fr) /\ Walks(fr, 1)' /\ stack' = <<fr>>
    <3> PICK fr : Starting(fr) /\ Walks(fr, 1)' /\ stack' = <<fr>>
      BY <2>2
    <3>1. fr \in StackFrames /\ \A n : ~CallsTo(fr.calls, n)
      BY DEF StackFrames, CallsTo, Starting
    <3>2. Len(stack') = 1 /\ stack'[1] = fr /\ stack' \in Seq(StackFrames)
      BY <3>1
    <3>3. \A i \in 1 .. Len(stack') : i = 1
      BY <3>2
    <3> QED
      BY <3>1, <3>2, <3>3 DEF Starting
  <2> QED
    BY <2>1, <2>2
<1>5. /\ \A n : ~MadeIn(stack', dict_passing_counts, n) /\ ~MadeIn(stack, dict_passing_counts, n)
      /\ \A n : ~GoneIn(stack', n) /\ ~GoneIn(stack, n) /\ ~KeptIn(stack', n) /\ ~KeptIn(stack, n)
      /\ \A n : ~BodiesCall(stack', n)
      /\ DistinctMade(stack', dict_passing_counts)
  <2>1. \A i \in 1 .. Len(stack') : stack'[i].kind # "copy" /\ stack'[i].kind # "trip"
    BY <1>4
  <2>2. \A i \in 1 .. Len(stack) : FALSE
    OBVIOUS
  <2>3. \A n : ~MadeIn(stack', dict_passing_counts, n) /\ ~GoneIn(stack', n) /\ ~KeptIn(stack', n)
    BY <2>1, Zenon DEF MadeIn, Makes, GoneIn, KeptIn
  <2>4. \A n : ~MadeIn(stack, dict_passing_counts, n) /\ ~GoneIn(stack, n) /\ ~KeptIn(stack, n)
    BY <2>2, Zenon DEF MadeIn, GoneIn, KeptIn
  <2>5. \A n : ~BodiesCall(stack', n)
    BY <1>4, Zenon DEF BodiesCall
  <2>6. DistinctMade(stack', dict_passing_counts)
    BY <2>1, Zenon DEF DistinctMade, Makes
  <2> QED
    BY <2>3, <2>4, <2>5, <2>6
<1>6. CopiesTyped'
  <2>1. batch' \subseteq NameSet
    BY <1>1 DEF CopiesTyped
  <2> QED
    BY <1>1, <1>2, <1>3, <2>1 DEF CopiesTyped
<1>7. Frames'
  BY <1>1, <1>2, <1>3, <1>4, Zenon DEF Frames
<1>8. Served' /\ Shapes'
  BY <1>1, <1>2, ShapesStay, Zenon
<1>9. Counted'
  BY <1>1, <1>2, CountedStays, Zenon
<1>10. \A n : /\ EmittedAs(n)' <=> EmittedAs(n)
              /\ MadeAs(n)' <=> MadeAs(n)
              /\ Called(n)' => Called(n)
              /\ AllPlain(n)' <=> AllPlain(n)
  BY <1>2, <1>5, Zenon DEF EmittedAs, MadeAs, Called, AllPlain
<1>11. Once'
  BY <1>1, <1>2, <1>3, <1>5, <1>10, Zenon DEF Once
<1>12. ASSUME NEW n \in NameSet
       PROVE  Named(n)'
  <2>1. Named(n)
    BY <1>1
  <2>2. (DefinedAs(n)' <=> DefinedAs(n)) /\ (Purged(n)' <=> Purged(n)) /\ (Hole(n)' <=> Hole(n))
    BY <1>2, <1>10, Zenon DEF DefinedAs, Purged, Hole
  <2>3. Handed(n)'
    BY <1>2, <2>1, <2>2, Zenon DEF Named, Handed
  <2>4. WalkedOnce(n)'
    <3>1. n.fun \notin ToSet(todo) => n.fun \notin ToSet(todo') /\ ~WalkedIn(stack', n)
      OBVIOUS
    <3> QED
      BY <1>3, <1>10, <2>1, <3>1, Zenon DEF Named, WalkedOnce
  <2>5. Decided(n)'
    BY <1>5, Zenon DEF Decided
  <2>6. Grounded(n)'
    BY <1>2, <1>10, <2>1, <2>2, Zenon DEF Named, Grounded
  <2>7. Replaced(n)'
    BY <1>2, <2>1, <2>2, Zenon DEF Named, Replaced, Hole
  <2>8. Leads(n)'
    BY <1>2, <1>5, <1>10, <2>1, <2>2, Zenon DEF Named, Leads
  <2> QED
    BY <2>3, <2>4, <2>5, <2>6, <2>7, <2>8, Zenon DEF Named
<1> QED
  BY <1>3, <1>6, <1>7, <1>8, <1>9, <1>11, <1>12, Zenon DEF MonoInv

LEMMA NextOriginalStep == ASSUME MonoInv, NextOriginal PROVE MonoInv'
<1>1. CopiesTyped /\ Frames
  BY DEF MonoInv
<1>2. /\ stack = <<>> /\ todo # <<>> /\ todo' = Tail(todo)
      /\ stack' = <<Activation("original", Original(Head(todo)))>>
      /\ UNCHANGED <<compiled, phase, batch, rewritten, copies, result_fns, flags, served, reports>>
  BY DEF NextOriginal
<1>3. PICK f, rest : f = Head(todo) /\ rest = Tail(todo)
  OBVIOUS
<1>4. todo \in Seq(FunNames) /\ IsInjective(todo)
  BY <1>1 DEF CopiesTyped, Frames
<1>5. /\ f \in FunNames /\ rest \in Seq(FunNames)
      /\ Len(rest) = Len(todo) - 1 /\ Len(todo) \in Nat \ {0}
      /\ f = todo[1] /\ \A i \in 1 .. Len(rest) : rest[i] = todo[i + 1]
  BY <1>2, <1>3, <1>4
<1>6. \A i, j \in 1 .. Len(todo) : todo[i] = todo[j] => i = j
  BY <1>4 DEF IsInjective
<1>7. IsInjective(rest) /\ f \notin ToSet(rest)
  BY <1>5, <1>6 DEF IsInjective, ToSet
<1>8. ToSet(rest) \subseteq ToSet(todo) /\ f \in ToSet(todo)
  <2>1. \A i \in 1 .. Len(rest) : i + 1 \in 1 .. Len(todo) /\ 1 \in 1 .. Len(todo)
    BY <1>5
  <2>2. ToSet(rest) = {rest[i] : i \in 1 .. Len(rest)} /\ ToSet(todo) = {todo[i] : i \in 1 .. Len(todo)}
    BY <1>4, <1>5 DEF ToSet
  <2>3. f \in ToSet(todo)
    BY <1>5, <2>2
  <2>4. ASSUME NEW x \in ToSet(rest) PROVE x \in ToSet(todo)
    <3>1. PICK i \in 1 .. Len(rest) : x = rest[i]
      BY <2>2, <2>4
    <3> QED
      BY <1>5, <2>1, <2>2, <3>1
  <2> QED
    BY <2>3, <2>4
<1>9. PICK fr : fr = Activation("original", Original(f))
  OBVIOUS
<1>10. /\ fr.kind = "original" /\ fr.name = Original(f) /\ fr.name.fun = f /\ fr.calls = <<>>
       /\ fr.tripped_before <=> f \in dict_passing_counts
       /\ fr \in BodyFrames
  <2>1. Original(f) \in NameSet /\ Original(f).fun = f
    BY <1>5, NameFacts, Zenon
  <2>2. compiled.body[f] \in Seq(UsesOf(FunNames))
    BY <1>1, <1>5, ProgramFacts DEF Frames
  <2>3. /\ fr.kind = "original" /\ fr.name = Original(f) /\ fr.calls = <<>>
        /\ fr.tripped_before <=> f \in dict_passing_counts
    BY <1>9, <2>1 DEF Activation
  <2>4. fr \in BodyFrames
    BY <1>9, <2>1, <2>2 DEF Activation, BodyFrames
  <2> QED
    BY <2>1, <2>3, <2>4
<1>11. stack' = <<fr>> /\ todo' = rest
  BY <1>2, <1>3, <1>9
<1>12. Walks(fr, 1)'
  <2>1. Original(f)' = Original(f) /\ dict_passing_counts' = dict_passing_counts
    BY <1>2, Same DEF flags
  <2> QED
    BY <1>7, <1>10, <1>11, <2>1 DEF Walks
<1>13. \A n : WalkedIn(stack', n) => n.fun \in ToSet(todo)
  <2>1. Len(stack') = 1 /\ stack'[1] = fr
    BY <1>11
  <2> QED
    BY <1>8, <1>10, <2>1 DEF WalkedIn
<1>14. Starting(fr)
  BY <1>10 DEF Starting
<1>15. batch' \subseteq dict_passing_fns /\ rewritten' \subseteq NameSet
  BY <1>1, <1>2 DEF CopiesTyped, Frames
<1> QED
  BY <1>2, <1>5, <1>7, <1>8, <1>11, <1>12, <1>13, <1>14, <1>15, Starts

LEMMA NextBatchStep == ASSUME MonoInv, NextBatch PROVE MonoInv'
<1>1. CopiesTyped /\ Frames
  BY DEF MonoInv
<1>2. /\ stack = <<>> /\ stack' = <<>> /\ todo' = todo /\ batch' \subseteq dict_passing_fns
      /\ rewritten' = rewritten
      /\ UNCHANGED <<compiled, phase, copies, result_fns, flags, served, reports>>
  BY DEF NextBatch, Unrewritten
<1>3. todo' \in Seq(FunNames) /\ IsInjective(todo') /\ rewritten' \subseteq NameSet
  BY <1>1, <1>2 DEF CopiesTyped, Frames
<1>4. \A n : ~WalkedIn(stack', n)
  BY <1>2 DEF WalkedIn
<1> QED
  BY <1>2, <1>3, <1>4, Starts

LEMMA RewriteNextStep == ASSUME MonoInv, RewriteNext PROVE MonoInv'
<1>1. CopiesTyped /\ Frames
  BY DEF MonoInv
<1>2. PICK name \in batch :
        /\ batch' = batch \ {name}
        /\ rewritten' = rewritten \cup {name}
        /\ stack' = IF name \in Names(result_fns) THEN <<Activation("dict", name)>> ELSE <<>>
  BY Zenon DEF RewriteNext
<1>3. /\ stack = <<>> /\ todo' = todo /\ dict_passing_fns' = dict_passing_fns
      /\ dict_passing_counts' = dict_passing_counts
      /\ UNCHANGED <<compiled, phase, copies, result_fns, flags, served, reports>>
  BY DEF RewriteNext, flags
<1>4. name \in NameSet /\ name \in dict_passing_fns /\ name.fun \in FunNames
  BY <1>1, NameFacts DEF CopiesTyped, Frames
<1>5. PICK fr : fr = Activation("dict", name)
  OBVIOUS
<1>6. /\ fr.kind = "dict" /\ fr.name = name /\ fr.calls = <<>>
      /\ fr.tripped_before <=> name.fun \in dict_passing_counts
      /\ fr \in BodyFrames
  <2>1. compiled.body[name.fun] \in Seq(UsesOf(FunNames))
    BY <1>1, <1>4, ProgramFacts DEF Frames
  <2>2. /\ fr.kind = "dict" /\ fr.name = name /\ fr.calls = <<>>
        /\ fr.tripped_before <=> name.fun \in dict_passing_counts
    BY <1>5 DEF Activation
  <2>3. fr \in BodyFrames
    BY <1>4, <1>5, <2>1 DEF Activation, BodyFrames
  <2> QED
    BY <2>2, <2>3
<1>7. Walks(fr, 1)' /\ Starting(fr)
  BY <1>3, <1>4, <1>6 DEF Walks, Starting
<1>8. stack' = <<>> \/ stack' = <<fr>>
  BY <1>2, <1>5
<1>9. \A n : ~WalkedIn(stack', n)
  BY <1>6, <1>8 DEF WalkedIn
<1>10. /\ todo' \in Seq(FunNames) /\ IsInjective(todo') /\ ToSet(todo') \subseteq ToSet(todo)
       /\ batch' \subseteq dict_passing_fns /\ rewritten' \subseteq NameSet
  BY <1>1, <1>2, <1>3, <1>4 DEF CopiesTyped, Frames
<1>11. stack' = <<>> \/ \E x : Starting(x) /\ Walks(x, 1)' /\ stack' = <<x>>
  BY <1>7, <1>8
<1>12. \A n : WalkedIn(stack', n) => n.fun \in ToSet(todo)
  BY <1>9
<1> QED
  BY <1>3, <1>10, <1>11, <1>12, Starts

\* A redirected call is the call it was, or one of what replaces a purged copy.
LEMMA RevertedFacts ==
    ASSUME Range(purged_specs) \subseteq NameSet, NEW calls \in Seq(Calls)
    PROVE  /\ Reverted(calls) \in Seq(Calls)
           /\ \A n : CallsTo(Reverted(calls), n) =>
                CallsTo(calls, n) \/ \E p \in DOMAIN purged_specs \cap NameSet : purged_specs[p] = n
<1>1. PICK now : now = Reverted(calls)
  OBVIOUS
<1>2. now = [i \in 1 .. Len(calls) |->
                IF calls[i].how = "name" /\ calls[i].to \in DOMAIN purged_specs
                THEN [calls[i] EXCEPT !.to = purged_specs[calls[i].to]] ELSE calls[i]]
  BY <1>1 DEF Reverted
<1>3. \A p \in DOMAIN purged_specs : purged_specs[p] \in NameSet
  BY DEF Range
<1>4. \A call \in Calls, name \in NameSet :
        [call EXCEPT !.to = name] \in Calls /\ [call EXCEPT !.to = name].to = name
  BY DEF Calls
<1>5. \A i \in 1 .. Len(calls) : calls[i] \in Calls /\ calls[i].to \in NameSet
  <2>1. \A call \in Calls : call.to \in NameSet
    BY DEF Calls
  <2>2. \A i \in 1 .. Len(calls) : calls[i] \in Calls
    OBVIOUS
  <2> QED
    BY <2>1, <2>2, Zenon
<1>6. \A i \in 1 .. Len(calls) :
        /\ now[i] \in Calls
        /\ \/ now[i].to = calls[i].to
           \/ calls[i].to \in DOMAIN purged_specs /\ now[i].to = purged_specs[calls[i].to]
  <2> TAKE i \in 1 .. Len(calls)
  <2>1. CASE calls[i].how = "name" /\ calls[i].to \in DOMAIN purged_specs
    <3>1. now[i] = [calls[i] EXCEPT !.to = purged_specs[calls[i].to]]
      BY <1>2, <2>1
    <3> QED
      BY <1>3, <1>4, <1>5, <2>1, <3>1
  <2>2. CASE ~(calls[i].how = "name" /\ calls[i].to \in DOMAIN purged_specs)
    BY <1>2, <1>5, <2>2
  <2> QED
    BY <2>1, <2>2
<1>7. now \in Seq(Calls) /\ Len(now) = Len(calls)
  BY <1>2, <1>6
<1>8. \A n : CallsTo(now, n) =>
        CallsTo(calls, n) \/ \E p \in DOMAIN purged_specs \cap NameSet : purged_specs[p] = n
  <2> SUFFICES ASSUME NEW i \in 1 .. Len(calls)
               PROVE  \/ CallsTo(calls, now[i].to)
                      \/ \E p \in DOMAIN purged_specs \cap NameSet : purged_specs[p] = now[i].to
    BY <1>7, Zenon DEF CallsTo
  <2>1. CASE now[i].to = calls[i].to
    BY <2>1, Zenon DEF CallsTo
  <2>2. CASE calls[i].to \in DOMAIN purged_specs /\ now[i].to = purged_specs[calls[i].to]
    BY <1>5, <2>2
  <2> QED
    BY <1>6, <2>1, <2>2
<1> QED
  BY <1>1, <1>7, <1>8, Zenon

\* The functions of a program, rewritten: the same names, and calls of the same functions
\* or of what replaces them.
Rewriting(now, all) ==
    /\ now \in Seq(FunctionSet) /\ Len(now) = Len(all)
    /\ \A i \in 1 .. Len(all) :
        /\ now[i].name = all[i].name /\ now[i].form = all[i].form
        /\ \A n : CallsTo(now[i].calls, n) =>
            CallsTo(all[i].calls, n) \/ \E p \in DOMAIN purged_specs \cap NameSet : purged_specs[p] = n

LEMMA Joins ==
    ASSUME MonoInv, stack = <<>>, stack' = <<>>, Rewriting(result_fns', result_fns \o generated),
           generated' = <<>>, phase' \in {"walk", "flag", "done"}, deferred_errors' \subseteq NameSet,
           UNCHANGED <<compiled, todo, batch, rewritten, specializations, flags, served, errors>>
    PROVE  MonoInv'
<1>1. /\ CopiesTyped /\ Frames /\ Served /\ Shapes /\ Counted /\ Once
      /\ \A n \in NameSet : Named(n)
  BY DEF MonoInv
<1>2. /\ compiled' = compiled /\ todo' = todo /\ batch' = batch /\ rewritten' = rewritten
      /\ specializations' = specializations
      /\ arity_only_fns' = arity_only_fns /\ dict_passing_counts' = dict_passing_counts
      /\ dict_passing_fns' = dict_passing_fns /\ ground_forms' = ground_forms
      /\ purged_specs' = purged_specs /\ errors' = errors
  BY DEF flags, served
<1>3. /\ FunNames' = FunNames /\ NameSet' = NameSet /\ FunctionSet' = FunctionSet /\ StackFrames' = StackFrames
      /\ \A g : (Constrained(g)' <=> Constrained(g)) /\ Original(g)' = Original(g)
  BY <1>2, Same
<1>4. PICK all : all = result_fns \o generated
  OBVIOUS
<1>5. generated \in Seq(FunctionSet) /\ result_fns \in Seq(FunctionSet)
  BY <1>1 DEF CopiesTyped
<1>6. /\ \A n : /\ EmittedIn(all, n) <=> EmittedIn(result_fns, n) \/ EmittedIn(generated, n)
                /\ CalledIn(all, n) <=> CalledIn(result_fns, n) \/ CalledIn(generated, n)
                /\ PlainIn(all, n) <=> PlainIn(result_fns, n) /\ PlainIn(generated, n)
      /\ Distinct(result_fns) /\ Distinct(generated)
            /\ (\A n : ~(EmittedIn(result_fns, n) /\ EmittedIn(generated, n))) => Distinct(all)
  BY <1>4, <1>5, Joined, Zenon
<1>7. Rewriting(result_fns', all)
  BY <1>4
<1>8. /\ \A n : /\ EmittedIn(result_fns', n) <=> EmittedIn(all, n)
                /\ PlainIn(result_fns', n) <=> PlainIn(all, n)
      /\ Distinct(result_fns') <=> Distinct(all)
  BY <1>7, SameNames, Zenon DEF Rewriting
<1>9. \A n : CalledIn(result_fns', n) =>
        CalledIn(all, n) \/ \E p \in DOMAIN purged_specs \cap NameSet : purged_specs[p] = n
  BY <1>7, Zenon DEF Rewriting, CalledIn
<1>10. \A n : EmittedIn(generated, n) => n \in NameSet
  <2>1. \A fn \in FunctionSet : fn.name \in NameSet
    BY DEF FunctionSet
  <2>2. \A i \in 1 .. Len(generated) : generated[i] \in FunctionSet
    BY <1>5
  <2> QED
    BY <2>1, <2>2, Zenon DEF EmittedIn
<1>11. Distinct(all)
  BY <1>1, <1>6, <1>10, Zenon DEF Once
<1>12. \A i \in 1 .. Len(stack') : FALSE
  BY Len(<<>>) = 0
<1>13. /\ \A n : ~MadeIn(stack', dict_passing_counts', n) /\ ~MadeIn(stack, dict_passing_counts, n)
       /\ \A n : ~GoneIn(stack', n) /\ ~GoneIn(stack, n) /\ ~KeptIn(stack', n) /\ ~KeptIn(stack, n)
       /\ \A n : ~BodiesCall(stack', n) /\ ~WalkedIn(stack', n)
       /\ DistinctMade(stack', dict_passing_counts')
  <2>1. stack = stack'
    OBVIOUS
  <2>2. /\ \A n : ~MadeIn(stack', dict_passing_counts', n) /\ ~MadeIn(stack', dict_passing_counts, n)
        /\ \A n : ~GoneIn(stack', n) /\ ~KeptIn(stack', n) /\ ~BodiesCall(stack', n) /\ ~WalkedIn(stack', n)
        /\ DistinctMade(stack', dict_passing_counts')
    BY <1>12, Zenon DEF MadeIn, GoneIn, KeptIn, BodiesCall, WalkedIn, DistinctMade
  <2> QED
    BY <2>1, <2>2
<1>14. \A i \in 1 .. Len(generated') : FALSE
  BY Len(<<>>) = 0
<1>15. /\ Distinct(generated')
       /\ \A n : ~EmittedIn(generated', n) /\ ~CalledIn(generated', n) /\ PlainIn(generated', n)
  BY <1>14, Zenon DEF Distinct, EmittedIn, CalledIn, PlainIn
<1>16. \A n : /\ EmittedAs(n)' <=> EmittedAs(n)
              /\ MadeAs(n)' <=> MadeAs(n)
              /\ ~MadeAs(n)'
              /\ AllPlain(n) => AllPlain(n)'
  BY <1>6, <1>8, <1>13, <1>15, Zenon DEF EmittedAs, MadeAs, AllPlain
<1>17. CopiesTyped'
  <2>1. generated' \in Seq(FunctionSet) /\ result_fns' \in Seq(FunctionSet)
    BY <1>7 DEF Rewriting
  <2> QED
    BY <1>1, <1>2, <1>3, <2>1 DEF CopiesTyped
<1>18. Frames'
  <2>1. stack' \in Seq(StackFrames)
    OBVIOUS
  <2> QED
    BY <1>1, <1>2, <1>3, <1>12, <2>1, Zenon DEF Frames
<1>19. Served' /\ Shapes'
  BY <1>1, <1>2, ShapesStay, Zenon
<1>20. Counted'
  BY <1>1, <1>2, CountedStays, Zenon
<1>21. Once'
  BY <1>3, <1>8, <1>11, <1>13, <1>15, <1>16, Zenon DEF Once
<1>22. ASSUME NEW n \in NameSet
       PROVE  Named(n)'
  <2>1. Named(n)
    BY <1>1
  <2>2. (DefinedAs(n)' <=> DefinedAs(n)) /\ (Purged(n)' <=> Purged(n)) /\ (Hole(n)' <=> Hole(n))
    BY <1>2, <1>16, Zenon DEF DefinedAs, Purged, Hole
  <2>3. Handed(n)'
    BY <1>2, <2>1, <2>2, Zenon DEF Named, Handed
  <2>4. WalkedOnce(n)'
    BY <1>2, <1>3, <1>13, <1>16, <2>1, Zenon DEF Named, WalkedOnce
  <2>5. Decided(n)'
    BY <1>13, Zenon DEF Decided
  <2>6. Grounded(n)'
    BY <1>2, <1>16, <2>1, <2>2, Zenon DEF Named, Grounded
  <2>7. Replaced(n)'
    BY <1>2, <2>1, <2>2, Zenon DEF Named, Replaced, Hole
  <2>8. Leads(n)'
    <3>1. Called(n)' => Called(n) \/ \E p \in DOMAIN purged_specs \cap NameSet : purged_specs[p] = n
      BY <1>6, <1>9, <1>13, <1>15, Zenon DEF Called
    <3>2. ASSUME NEW p \in DOMAIN purged_specs \cap NameSet, purged_specs[p] = n, n.copy
          PROVE  DefinedAs(n)
      <4>1. Replaced(p)
        BY <1>1, <3>2 DEF Named
      <4>2. n \in specializations
        BY <3>2, <4>1 DEF Replaced
      <4> QED
        BY <2>1, <4>2, Zenon DEF Named, Handed
    <3> QED
      BY <1>2, <1>13, <2>1, <2>2, <3>1, <3>2, Zenon DEF Named, Leads
  <2> QED
    BY <2>3, <2>4, <2>5, <2>6, <2>7, <2>8, Zenon DEF Named
<1> QED
  BY <1>3, <1>17, <1>18, <1>19, <1>20, <1>21, <1>22, Zenon DEF MonoInv

LEMMA RedirectStep == ASSUME MonoInv, Redirect PROVE MonoInv'
<1>1. /\ generated \in Seq(FunctionSet) /\ result_fns \in Seq(FunctionSet)
      /\ Range(purged_specs) \subseteq NameSet /\ deferred_errors \subseteq NameSet
  BY DEF MonoInv, CopiesTyped
<1>2. PICK all : all = result_fns \o generated
  OBVIOUS
<1>3. /\ all \in Seq(FunctionSet) /\ Len(all) = Len(result_fns) + Len(generated)
      /\ Len(result_fns) \in Nat /\ Len(generated) \in Nat
  BY <1>1, <1>2
<1>4. result_fns' = [i \in 1 .. Len(all) |-> [all[i] EXCEPT !.calls = Reverted(all[i].calls)]]
  BY <1>2, <1>3 DEF Redirect
<1>5. ASSUME NEW fn \in FunctionSet
      PROVE  LET now == [fn EXCEPT !.calls = Reverted(fn.calls)] IN
             /\ now \in FunctionSet /\ now.name = fn.name /\ now.form = fn.form
             /\ \A n : CallsTo(now.calls, n) =>
                    CallsTo(fn.calls, n) \/ \E p \in DOMAIN purged_specs \cap NameSet : purged_specs[p] = n
  <2>1. PICK calls : calls = Reverted(fn.calls)
    OBVIOUS
  <2>2. /\ calls \in Seq(Calls)
        /\ \A n : CallsTo(calls, n) =>
            CallsTo(fn.calls, n) \/ \E p \in DOMAIN purged_specs \cap NameSet : purged_specs[p] = n
    <3>1. fn.calls \in Seq(Calls)
      BY DEF FunctionSet
    <3> QED
      BY <1>1, <2>1, <3>1, RevertedFacts, Zenon
  <2>3. PICK now : now = [fn EXCEPT !.calls = calls]
    OBVIOUS
  <2>4. now \in FunctionSet /\ now.name = fn.name /\ now.form = fn.form /\ now.calls = calls
    BY <2>2, <2>3 DEF FunctionSet
  <2> QED
    BY <2>1, <2>2, <2>3, <2>4, Zenon
<1>6. \A i \in 1 .. Len(all) : all[i] \in FunctionSet
  BY <1>3
<1>7. \A i \in 1 .. Len(all) : result_fns'[i] = [all[i] EXCEPT !.calls = Reverted(all[i].calls)]
  BY <1>4
<1>8. \A i \in 1 .. Len(all) :
        /\ result_fns'[i] \in FunctionSet
        /\ result_fns'[i].name = all[i].name /\ result_fns'[i].form = all[i].form
        /\ \A n : CallsTo(result_fns'[i].calls, n) =>
            CallsTo(all[i].calls, n) \/ \E p \in DOMAIN purged_specs \cap NameSet : purged_specs[p] = n
  BY <1>5, <1>6, <1>7, Zenon
<1>9. result_fns' \in Seq(FunctionSet) /\ Len(result_fns') = Len(all)
  <2>1. PICK now : now = result_fns'
    OBVIOUS
  <2>2. /\ now = [i \in 1 .. Len(all) |-> [all[i] EXCEPT !.calls = Reverted(all[i].calls)]]
        /\ Len(all) \in Nat
    BY <1>3, <1>4, <2>1
  <2>3. \A i \in 1 .. Len(all) : now[i] \in FunctionSet
    BY <1>8, <2>1
  <2>4. now \in Seq(FunctionSet) /\ Len(now) = Len(all)
    BY <2>2, <2>3
  <2> QED
    BY <2>1, <2>4
<1>10. Rewriting(result_fns', all)
  BY <1>8, <1>9, Zenon DEF Rewriting
<1>11. /\ stack = <<>> /\ stack' = <<>> /\ generated' = <<>> /\ phase' \in {"walk", "flag", "done"}
       /\ deferred_errors' = deferred_errors
       /\ UNCHANGED <<compiled, todo, batch, rewritten, specializations, flags, served, errors>>
  BY DEF Redirect, reports
<1> QED
  BY <1>1, <1>2, <1>10, <1>11, Joins

LEMMA RewriteSitesStep == ASSUME MonoInv, RewriteSites PROVE MonoInv'
<1>1. /\ generated \in Seq(FunctionSet) /\ result_fns \in Seq(FunctionSet)
      /\ Range(purged_specs) \subseteq NameSet
  BY DEF MonoInv, CopiesTyped
<1>2. PICK all, now : all = result_fns \o generated /\ now = [i \in DOMAIN all |-> SiteRewritten(all[i])]
  OBVIOUS
<1>3. result_fns' = now /\ deferred_errors' = {fn.name : fn \in {g \in ToSet(now) : Uncompilable(g)}}
  BY <1>2, Zenon DEF RewriteSites
<1>4. all \in Seq(FunctionSet)
  BY <1>1, <1>2
<1>5. ASSUME NEW fn \in FunctionSet
      PROVE  /\ SiteRewritten(fn) \in FunctionSet
             /\ SiteRewritten(fn).name = fn.name /\ SiteRewritten(fn).form = fn.form
             /\ \A n : CallsTo(SiteRewritten(fn).calls, n) =>
                    CallsTo(fn.calls, n) \/ \E p \in DOMAIN purged_specs \cap NameSet : purged_specs[p] = n
  <2>1. PICK calls : calls = Reverted(fn.calls)
    OBVIOUS
  <2>2. /\ calls \in Seq(Calls)
        /\ \A n : CallsTo(calls, n) =>
            CallsTo(fn.calls, n) \/ \E p \in DOMAIN purged_specs \cap NameSet : purged_specs[p] = n
    <3>1. fn.calls \in Seq(Calls)
      BY DEF FunctionSet
    <3> QED
      BY <1>1, <2>1, <3>1, RevertedFacts, Zenon
  <2>3. PICK taken : taken = {c \in ToSet(calls) : CallTakesDicts(c)}
    OBVIOUS
  <2>4. PICK dicts : dicts = WithDicts(calls, taken)
    OBVIOUS
  <2>5. dicts \in Seq(Calls) /\ \A n : CallsTo(dicts, n) <=> CallsTo(calls, n)
    BY <2>2, <2>4, WithDictsFacts, Zenon
  <2>6. PICK site : site = SiteRewritten(fn)
    OBVIOUS
  <2>7. site = fn \/ site = [fn EXCEPT !.calls = dicts]
    BY <2>1, <2>3, <2>4, <2>6 DEF SiteRewritten
  <2>8. /\ site \in FunctionSet /\ site.name = fn.name /\ site.form = fn.form
        /\ site.calls = fn.calls \/ site.calls = dicts
    BY <2>5, <2>7 DEF FunctionSet
  <2> QED
    BY <2>2, <2>5, <2>6, <2>8, Zenon
<1>6. DOMAIN all = 1 .. Len(all) /\ \A i \in 1 .. Len(all) : all[i] \in FunctionSet
  BY <1>4
<1>7. \A i \in 1 .. Len(all) : now[i] = SiteRewritten(all[i])
  BY <1>2, <1>6
<1>8. \A i \in 1 .. Len(all) :
        /\ now[i] \in FunctionSet
        /\ now[i].name = all[i].name /\ now[i].form = all[i].form
        /\ \A n : CallsTo(now[i].calls, n) =>
            CallsTo(all[i].calls, n) \/ \E p \in DOMAIN purged_specs \cap NameSet : purged_specs[p] = n
  BY <1>5, <1>6, <1>7, Zenon
<1>9. now \in Seq(FunctionSet) /\ Len(now) = Len(all)
  BY <1>2, <1>4, <1>6, <1>8
<1>10. Rewriting(now, all)
  BY <1>8, <1>9, Zenon DEF Rewriting
<1>11. deferred_errors' \subseteq NameSet
  <2>1. \A g \in FunctionSet : g.name \in NameSet
    BY DEF FunctionSet
  <2>2. \A g \in ToSet(now) : g \in FunctionSet
    BY <1>9 DEF ToSet
  <2>3. \A g \in ToSet(now) : g.name \in NameSet
    BY <2>1, <2>2, Zenon
  <2> QED
    BY <1>3, <2>3
<1>12. /\ stack = <<>> /\ stack' = <<>> /\ generated' = <<>> /\ phase' \in {"walk", "flag", "done"}
       /\ UNCHANGED <<compiled, todo, batch, rewritten, specializations, flags, served, errors>>
  BY DEF RewriteSites
<1> QED
  BY <1>2, <1>3, <1>10, <1>11, <1>12, Joins

-------------------------------------------------------------------------------
(* A function trips the cap *)

\* The names of the functions of a sequence, and of the copies a stack makes.
LEMMA NamesAre ==
    /\ \A n : generated \in Seq(FunctionSet) => (n \in Names(generated) <=> EmittedIn(generated, n))
    /\ \A n : stack \in Seq(StackFrames) =>
            (n \in Making <=> \E i \in 1 .. Len(stack) : stack[i].kind = "copy" /\ stack[i].name = n)
<1>1. ASSUME NEW n, generated \in Seq(FunctionSet)
      PROVE  n \in Names(generated) <=> EmittedIn(generated, n)
  <2>1. \A fn : fn \in ToSet(generated) <=> \E i \in 1 .. Len(generated) : fn = generated[i]
    BY <1>1 DEF ToSet
  <2> QED
    BY <2>1, Zenon DEF Names, EmittedIn
<1>2. ASSUME NEW n, stack \in Seq(StackFrames)
      PROVE  n \in Making <=> \E i \in 1 .. Len(stack) : stack[i].kind = "copy" /\ stack[i].name = n
  <2>1. \A fr : fr \in ToSet(stack) <=> \E i \in 1 .. Len(stack) : fr = stack[i]
    BY <1>2 DEF ToSet
  <2>2. n \in Making <=> \E fr : fr \in ToSet(stack) /\ fr.kind = "copy" /\ fr.name = n
    BY Zenon DEF Making
  <2>3. (\E fr : fr \in ToSet(stack) /\ fr.kind = "copy" /\ fr.name = n) <=>
            \E i \in 1 .. Len(stack) : stack[i].kind = "copy" /\ stack[i].name = n
    BY <2>1
  <2> QED
    BY <2>2, <2>3
<1> QED
  BY <1>1, <1>2

LEMMA UseTripsStep == ASSUME MonoInv, UseTrips PROVE MonoInv'
<1>1. /\ CopiesTyped /\ Frames /\ Served /\ Shapes /\ Counted /\ Once
      /\ \A n \in NameSet : Named(n)
  BY DEF MonoInv
<1>2. PICK f : f = Fun
  OBVIOUS
<1>3. PICK lost : lost = SpecsOf(f)
  OBVIOUS
<1>4. PICK gone : gone = Gone(f)
  OBVIOUS
<1>5. PICK fr : fr = [kind |-> "trip", fun |-> f, purged |-> lost, gone |-> gone]
  OBVIOUS
<1>6. /\ ~Shared(f) /\ ~DictPassing(f)
      /\ dict_passing_counts' = dict_passing_counts \cup {f}
      /\ IF Constrained(f)
         THEN dict_passing_fns' = dict_passing_fns \cup {Original(f)} /\ arity_only_fns' = arity_only_fns
         ELSE arity_only_fns' = arity_only_fns \cup {f} /\ dict_passing_fns' = dict_passing_fns
      /\ specializations' = specializations \ lost
      /\ generated' = Retained(generated, lost)
      /\ stack' = Append(stack, fr)
  BY <1>2, <1>3, <1>4, <1>5, Zenon DEF UseTrips
<1>7. /\ compiled' = compiled /\ phase' = phase /\ todo' = todo /\ batch' = batch /\ rewritten' = rewritten
      /\ result_fns' = result_fns /\ ground_forms' = ground_forms /\ purged_specs' = purged_specs
      /\ errors' = errors /\ deferred_errors' = deferred_errors
  BY DEF UseTrips, schedule, served, reports
<1>8. f \in FunNames
  BY <1>1, <1>2, UseFacts DEF UseTrips, Wants
<1>9. f \notin dict_passing_counts
  BY <1>1, <1>6 DEF Served
<1>10. /\ FunNames' = FunNames /\ NameSet' = NameSet /\ FunctionSet' = FunctionSet /\ StackFrames' = StackFrames
       /\ \A g : (Constrained(g)' <=> Constrained(g)) /\ Original(g)' = Original(g)
       /\ \A g, at : (Widening(g, at)' <=> Widening(g, at)) /\ Shape(g, at)' = Shape(g, at)
  BY <1>7, Same
<1>11. /\ generated \in Seq(FunctionSet) /\ result_fns \in Seq(FunctionSet)
       /\ stack \in Seq(StackFrames) /\ specializations \subseteq {n \in NameSet : n.copy}
  BY <1>1 DEF CopiesTyped, Frames
\* Its copies are lost, none of which is at a shape.
<1>12. \A n : n \in lost <=> n \in specializations /\ n.fun = f
  BY <1>3 DEF SpecsOf
<1>13. \A n \in lost : n \in NameSet /\ n.copy /\ ~Hole(n)
  BY <1>1, <1>6, <1>11, <1>12 DEF Shapes
<1>14. \A n : n \in gone <=> n \in lost /\ (EmittedIn(generated, n)
                  \/ \E i \in 1 .. Len(stack) : stack[i].kind = "copy" /\ stack[i].name = n)
  BY <1>3, <1>4, <1>11, NamesAre, Zenon DEF Gone
<1>15. Original(f) \in NameSet /\ Original(f).fun = f /\ ~Original(f).copy
  BY <1>8, NameFacts, Zenon
<1>16. /\ dict_passing_fns \subseteq dict_passing_fns' /\ arity_only_fns \subseteq arity_only_fns'
       /\ \A n \in dict_passing_fns' : n \in dict_passing_fns \/ (n = Original(f) /\ Constrained(f))
       /\ \A g \in arity_only_fns' : g \in arity_only_fns \/ (g = f /\ ~Constrained(f))
       /\ Original(f) \in dict_passing_fns' \/ f \in arity_only_fns'
  BY <1>6
<1>17. /\ generated' \in Seq(FunctionSet)
       /\ \A n : /\ EmittedIn(generated', n) <=> EmittedIn(generated, n) /\ n \notin lost
                 /\ CalledIn(generated', n) => CalledIn(generated, n)
                 /\ PlainIn(generated, n) => PlainIn(generated', n)
       /\ Distinct(generated) => Distinct(generated')
  BY <1>6, <1>11, RetainedFacts
<1>18. fr \in StackFrames /\ fr.kind = "trip" /\ fr.purged = lost /\ fr.gone = gone
  <2>1. lost \subseteq NameSet /\ gone \subseteq NameSet
    BY <1>13, <1>14
  <2> QED
    BY <1>5, <1>8, <2>1 DEF StackFrames, TripFrames
<1>19. \A n : /\ MadeIn(stack', dict_passing_counts', n) <=> MadeIn(stack, dict_passing_counts', n)
              /\ GoneIn(stack', n) <=> GoneIn(stack, n) \/ n \in gone
              /\ KeptIn(stack', n) <=> KeptIn(stack, n) \/ (n \in lost /\ n \notin gone)
              /\ WalkedIn(stack', n) <=> WalkedIn(stack, n)
              /\ BodiesCall(stack', n) <=> BodiesCall(stack, n)
  <2>1. \A n : /\ MadeIn(stack', dict_passing_counts', n) <=>
                        MadeIn(stack, dict_passing_counts', n) \/ (Makes(fr, dict_passing_counts') /\ fr.name = n)
               /\ GoneIn(stack', n) <=>
                        GoneIn(stack, n) \/ (fr.kind = "trip" /\ n \in fr.purged \cap fr.gone)
               /\ KeptIn(stack', n) <=>
                        KeptIn(stack, n) \/ (fr.kind = "trip" /\ n \in fr.purged \ fr.gone)
               /\ WalkedIn(stack', n) <=>
                        WalkedIn(stack, n) \/ (fr.kind = "original" /\ fr.name = n)
               /\ BodiesCall(stack', n) <=>
                        BodiesCall(stack, n) \/ (fr.kind # "trip" /\ CallsTo(fr.calls, n))
    <3>1. PICK tripped : tripped = dict_passing_counts'
      OBVIOUS
    <3>2. PICK more : more = Append(stack, fr)
      OBVIOUS
    <3>3. fr \in StackFrames
      BY <1>18
    <3>4. ASSUME NEW n
          PROVE  /\ MadeIn(more, tripped, n) <=>
                        MadeIn(stack, tripped, n) \/ (Makes(fr, tripped) /\ fr.name = n)
                 /\ GoneIn(more, n) <=>
                        GoneIn(stack, n) \/ (fr.kind = "trip" /\ n \in fr.purged \cap fr.gone)
                 /\ KeptIn(more, n) <=>
                        KeptIn(stack, n) \/ (fr.kind = "trip" /\ n \in fr.purged \ fr.gone)
                 /\ WalkedIn(more, n) <=>
                        WalkedIn(stack, n) \/ (fr.kind = "original" /\ fr.name = n)
                 /\ BodiesCall(more, n) <=>
                        BodiesCall(stack, n) \/ (fr.kind # "trip" /\ CallsTo(fr.calls, n))
      BY <1>11, <3>2, <3>3, Pushed
    <3> QED
      BY <1>6, <3>1, <3>2, <3>4, Zenon
  <2>2. ~Makes(fr, dict_passing_counts') /\ fr.kind # "original"
    BY <1>18 DEF Makes
  <2>3. \A n : n \in fr.purged \cap fr.gone <=> n \in gone
    BY <1>14, <1>18
  <2>4. \A n : n \in fr.purged \ fr.gone <=> n \in lost /\ n \notin gone
    BY <1>18
  <2> QED
    BY <1>18, <2>1, <2>2, <2>3, <2>4, Zenon
\* A copy that is being made is purged with the others if it is the function's.
<1>20. \A n : /\ MadeIn(stack, dict_passing_counts', n) => MadeIn(stack, dict_passing_counts, n) /\ n.fun # f
              /\ n.fun # f /\ MadeIn(stack, dict_passing_counts, n) => MadeIn(stack, dict_passing_counts', n)
  <2>1. ASSUME NEW i \in 1 .. Len(stack)
        PROVE  /\ Makes(stack[i], dict_passing_counts') =>
                        Makes(stack[i], dict_passing_counts) /\ stack[i].name.fun # f
               /\ stack[i].name.fun # f /\ Makes(stack[i], dict_passing_counts) =>
                        Makes(stack[i], dict_passing_counts')
    <3>1. \A x \in {stack[i]} : Walks(x, i)
      BY <1>1, <2>1 DEF Frames
    <3>2. stack[i].kind # "trip" /\ stack[i].tripped_before => stack[i].name.fun \in dict_passing_counts
      BY <3>1 DEF Walks
    <3> QED
      BY <1>6, <1>9, <3>2 DEF Makes
  <2> QED
    BY <2>1, Zenon DEF MadeIn
<1>21. \A n : MadeIn(stack, dict_passing_counts, n) =>
                \E i \in 1 .. Len(stack) : stack[i].kind = "copy" /\ stack[i].name = n
  BY Zenon DEF MadeIn, Makes
<1>22. \A n : n \in lost /\ (\E i \in 1 .. Len(stack) : stack[i].kind = "copy" /\ stack[i].name = n) =>
                MadeIn(stack, dict_passing_counts, n)
  <2>1. ASSUME NEW n \in lost, NEW i \in 1 .. Len(stack), stack[i].kind = "copy", stack[i].name = n
        PROVE  Makes(stack[i], dict_passing_counts)
    BY <1>9, <1>12, <2>1 DEF Makes
  <2> QED
    BY <2>1, Zenon DEF MadeIn
\* What is defined afterwards was defined before, and no copy of the function is.
<1>23. ASSUME NEW n \in NameSet
       PROVE  /\ EmittedAs(n)' => EmittedAs(n)
              /\ EmittedAs(n) => EmittedAs(n)' \/ n \in gone
              /\ n \notin lost /\ EmittedAs(n) => EmittedAs(n)'
              /\ MadeAs(n)' => MadeAs(n)
              /\ n.fun # f => (MadeAs(n)' <=> MadeAs(n))
              /\ n \in gone => ~DefinedAs(n)'
  <2>1. /\ EmittedAs(n)' => EmittedAs(n)
        /\ EmittedAs(n) => EmittedAs(n)' \/ n \in gone
        /\ n \notin lost /\ EmittedAs(n) => EmittedAs(n)'
    BY <1>7, <1>14, <1>17, Zenon DEF EmittedAs
  <2>2. /\ MadeAs(n)' => MadeAs(n) /\ n.fun # f
        /\ n.fun # f => (MadeAs(n)' <=> MadeAs(n))
    BY <1>19, <1>20, Zenon DEF MadeAs
  <2>3. ASSUME n \in gone PROVE ~DefinedAs(n)'
    <3>1. n \in lost /\ n.fun = f /\ ~EmittedIn(generated', n)
      BY <1>12, <1>14, <1>17, <2>3
    <3>2. ~EmittedIn(result_fns, n)
      <4>1. CASE EmittedIn(generated, n)
        BY <1>1, <4>1, Zenon DEF Once
      <4>2. CASE \E i \in 1 .. Len(stack) : stack[i].kind = "copy" /\ stack[i].name = n
        BY <1>1, <1>22, <3>1, <4>2, Zenon DEF Once, MadeAs, EmittedAs
      <4> QED
        BY <1>14, <2>3, <4>1, <4>2
    <3> QED
      BY <1>7, <2>2, <3>1, <3>2, Zenon DEF DefinedAs, EmittedAs
  <2> QED
    BY <2>1, <2>2, <2>3
<1>24. \A n : Hole(n)' <=> Hole(n)
  BY DEF Hole
<1>25. \A g : /\ Shared(g) => Shared(g)'
              /\ DictPassing(g) => DictPassing(g)'
              /\ g # f => (Shared(g)' => Shared(g))
  BY <1>10, <1>16, Zenon DEF Shared, DictPassing
<1>26. CopiesTyped'
  <2>1. arity_only_fns' \subseteq FunNames \ compiled.constrained
    BY <1>1, <1>8, <1>16 DEF CopiesTyped, Constrained
  <2>2. dict_passing_fns' \cup ground_forms \subseteq {n \in NameSet : Constrained(n.fun)}
    BY <1>1, <1>15, <1>16 DEF CopiesTyped
  <2>3. specializations' \subseteq {n \in NameSet : n.copy} /\ dict_passing_counts' \subseteq FunNames
    BY <1>1, <1>6, <1>8 DEF CopiesTyped
  <2> QED
    BY <1>1, <1>7, <1>10, <1>17, <2>1, <2>2, <2>3 DEF CopiesTyped
<1>27. Frames'
  <2>1. /\ stack' \in Seq(StackFrames) /\ Len(stack') = Len(stack) + 1 /\ Len(stack) \in Nat
        /\ \A i \in 1 .. Len(stack) : stack'[i] = stack[i]
        /\ stack'[Len(stack) + 1] = fr
    BY <1>6, <1>11, <1>18
  <2>2. ASSUME NEW i \in 1 .. Len(stack'), NEW x \in {stack'[i]}
        PROVE  Walks(x, i)'
    <3>1. CASE i = Len(stack) + 1
      <4>1. x.kind = "trip"
        BY <1>18, <2>1, <2>2, <3>1
      <4> QED
        BY <4>1 DEF Walks
    <3>2. CASE i \in 1 .. Len(stack)
      <4>1. Walks(x, i)
        BY <1>1, <2>1, <2>2, <3>2 DEF Frames
      <4>2. ToSet(todo') = ToSet(todo) /\ \A g : g \in dict_passing_counts => g \in dict_passing_counts'
        BY <1>6, <1>7
      <4> QED
        BY <1>10, <1>16, <4>1, <4>2 DEF Walks
    <3> QED
      BY <2>1, <3>1, <3>2
  <2>3. compiled' \in Programs' /\ batch' \subseteq dict_passing_fns' /\ IsInjective(todo')
    BY <1>1, <1>7, <1>16 DEF Frames
  <2> QED
    BY <1>10, <2>1, <2>2, <2>3, Zenon DEF Frames
<1>28. Served'
  <2>1. Shared(f)' \/ DictPassing(f)'
    BY <1>10, <1>16, Zenon DEF Shared, DictPassing
  <2>2. \A g \in dict_passing_counts' : g \in dict_passing_counts \/ g = f
    BY <1>6
  <2> QED
    BY <1>1, <1>25, <2>1, <2>2, Zenon DEF Served
<1>29. Shapes'
  <2>1. ASSUME NEW s \in specializations'
        PROVE  /\ Hole(s)' => Shared(s.fun)' \/ DictPassing(s.fun)'
               /\ Shared(s.fun)' \/ s.fun \in dict_passing_counts' =>
                      Widening(s.fun, s.at)' /\ s.at = Shape(s.fun, s.at)'
    <3>1. s \in specializations /\ s.fun # f
      BY <1>6, <1>12, <2>1
    <3>2. s.fun \in dict_passing_counts' => s.fun \in dict_passing_counts
      BY <1>6, <3>1
    <3> QED
      BY <1>1, <1>10, <1>24, <1>25, <3>1, <3>2, Zenon DEF Shapes
  <2>2. \A n \in dict_passing_fns' : n.copy => Hole(n)'
    BY <1>1, <1>15, <1>16, <1>24 DEF Shapes
  <2> QED
    BY <2>1, <2>2, Zenon DEF Shapes
<1>30. Counted'
  <2>1. IsFiniteSet(specializations')
    BY <1>1, <1>6, FS_Subset DEF Counted
  <2>2. ASSUME NEW g \in FunNames
        PROVE  /\ Cardinality(WideningSpecs(g)') <= SpecLimit + 1
               /\ Cardinality(PlainSpecs(g)') <= SpecLimit + 1
               /\ ~DictPassing(g)' => Cardinality(SpecsOf(g)') <= SpecLimit + 1
    <3>1. CASE g = f
      <4>1. SpecsOf(g)' = {}
        BY <1>6, <1>12, <3>1 DEF SpecsOf
      <4>2. WideningSpecs(g)' = {} /\ PlainSpecs(g)' = {}
        BY <4>1 DEF WideningSpecs, PlainSpecs
      <4>3. 0 <= SpecLimit + 1 /\ Cardinality({}) = 0
        BY SpecializerAssumption, FS_EmptySet
      <4> QED
        BY <4>1, <4>2, <4>3
    <3>2. CASE g # f
      <4>1. SpecsOf(g)' = SpecsOf(g)
        BY <1>6, <1>12, <3>2 DEF SpecsOf
      <4>2. WideningSpecs(g)' = WideningSpecs(g) /\ PlainSpecs(g)' = PlainSpecs(g)
        BY <1>10, <4>1, Zenon DEF WideningSpecs, PlainSpecs
      <4> QED
        BY <1>1, <1>25, <4>1, <4>2, Zenon DEF Counted
    <3> QED
      BY <3>1, <3>2
  <2>3. SpecLimit' = SpecLimit
    OBVIOUS
  <2> QED
    BY <1>10, <2>1, <2>2, Zenon DEF Counted
<1>31. Once'
  <2>1. Distinct(generated') /\ Distinct(result_fns')
    BY <1>1, <1>7, <1>17 DEF Once
  <2>2. DistinctMade(stack', dict_passing_counts')
    <3>1. DistinctMade(stack, dict_passing_counts')
      <4>1. \A i \in 1 .. Len(stack) :
                Makes(stack[i], dict_passing_counts') => Makes(stack[i], dict_passing_counts)
        BY <1>6, Zenon DEF Makes
      <4> QED
        BY <1>1, <4>1, Zenon DEF Once, DistinctMade
    <3>2. ~Makes(fr, dict_passing_counts')
      BY <1>18 DEF Makes
    <3> QED
      BY <1>6, <1>11, <1>18, <3>1, <3>2, PushedDistinct
  <2>3. \A n \in NameSet : ~(EmittedIn(result_fns', n) /\ EmittedIn(generated', n))
    BY <1>1, <1>7, <1>17, Zenon DEF Once
  <2>4. \A n \in NameSet : ~(EmittedAs(n)' /\ MadeAs(n)')
    BY <1>1, <1>23, Zenon DEF Once
  <2> QED
    BY <1>10, <2>1, <2>2, <2>3, <2>4, Zenon DEF Once
<1>32. ASSUME NEW n \in NameSet
       PROVE  Named(n)'
  <2>1. Named(n)
    BY <1>1
  <2>2. /\ Purged(n) => Purged(n)' /\ n.fun # f /\ n \notin lost
        /\ n \in lost => Purged(n)'
        /\ Purged(n) => n.copy
    BY <1>6, <1>9, <1>12, <1>13, <1>24 DEF Purged
  <2>3. /\ DefinedAs(n)' => DefinedAs(n)
        /\ n.fun # f /\ n \notin lost /\ DefinedAs(n) => DefinedAs(n)'
    BY <1>23, Zenon DEF DefinedAs
  <2>4. n \in specializations' <=> n \in specializations /\ n \notin lost
    BY <1>6
  <2>5. n \in specializations => n \in lost \/ n.fun # f
    BY <1>12
  <2>6. Handed(n)'
    BY <2>1, <2>2, <2>3, <2>4, <2>5, Zenon DEF Named, Handed
  <2>7. WalkedOnce(n)'
    BY <1>7, <1>10, <1>19, <1>23, <2>1, Zenon DEF Named, WalkedOnce
  <2>8. Decided(n)'
    <3>1. GoneIn(stack, n) \/ KeptIn(stack, n) => Purged(n)
      BY <2>1, Zenon DEF Named, Decided
    <3>2. GoneIn(stack', n) \/ KeptIn(stack', n) => Purged(n)'
      BY <1>14, <1>19, <2>2, <3>1, Zenon
    <3>3. GoneIn(stack', n) /\ n \notin ground_forms' => ~DefinedAs(n)'
      BY <1>7, <1>19, <1>23, <2>1, <2>3, Zenon DEF Named, Decided
    <3>4. KeptIn(stack', n) => EmittedAs(n)'
      <4>1. KeptIn(stack, n) => EmittedAs(n)'
        BY <1>23, <2>1, <2>2, <3>1, Zenon DEF Named, Decided
      <4>2. n \in lost /\ n \notin gone => EmittedAs(n)'
        <5>1. n \in lost => DefinedAs(n)
          BY <1>12, <2>1, Zenon DEF Named, Handed
        <5>2. n \in lost /\ n \notin gone => ~MadeAs(n)
          BY <1>14, <1>21, Zenon DEF MadeAs
        <5> QED
          BY <1>23, <5>1, <5>2, Zenon DEF DefinedAs
      <4> QED
        BY <1>19, <4>1, <4>2
    <3> QED
      BY <3>2, <3>3, <3>4, Zenon DEF Decided
  <2>9. Grounded(n)'
    <3>1. AllPlain(n) => AllPlain(n)'
      BY <1>7, <1>17, Zenon DEF AllPlain
    <3> QED
      BY <1>7, <1>23, <1>24, <2>1, <2>2, <3>1, Zenon DEF Named, Grounded
  <2>10. Replaced(n)'
    <3>1. \A m \in specializations : Hole(m) => m \in specializations'
      BY <1>6, <1>13
    <3> QED
      BY <1>7, <1>24, <2>1, <2>2, <3>1, Zenon DEF Named, Replaced
  <2>11. Leads(n)'
    <3>1. Called(n)' => Called(n)
      BY <1>7, <1>17, <1>19, Zenon DEF Called
    <3>2. n.copy /\ DefinedAs(n) => DefinedAs(n)' \/ n \in gone
      <4>1. CASE EmittedAs(n)
        BY <1>23, <4>1, Zenon DEF DefinedAs
      <4>2. CASE MadeAs(n)
        <5>1. CASE n.fun # f
          BY <1>23, <4>2, <5>1, Zenon DEF DefinedAs
        <5>2. ASSUME n.fun = f, n.copy
              PROVE  n \in gone
          <6>1. n \in specializations
            BY <2>1, <2>2, <4>2, <5>2, Zenon DEF Named, Handed, DefinedAs
          <6> QED
            BY <1>12, <1>14, <1>21, <4>2, <5>2, <6>1, Zenon DEF MadeAs
        <5> QED
          BY <5>1, <5>2
      <4> QED
        BY <4>1, <4>2, Zenon DEF DefinedAs
    <3> QED
      BY <1>7, <1>19, <2>1, <3>1, <3>2, Zenon DEF Named, Leads
  <2> QED
    BY <2>6, <2>7, <2>8, <2>9, <2>10, <2>11, Zenon DEF Named
<1> QED
  BY <1>10, <1>26, <1>27, <1>28, <1>29, <1>30, <1>31, <1>32, Zenon DEF MonoInv

-------------------------------------------------------------------------------
(* The invariant holds *)

LEMMA MonoInitial == MonoInit => MonoInv
<1> SUFFICES ASSUME MonoInit
             PROVE  MonoInv
  OBVIOUS
<1>1. /\ compiled \in Programs
      /\ phase = "walk" /\ todo = compiled.order /\ batch = {} /\ rewritten = {}
      /\ stack = <<>> /\ specializations = {} /\ generated = <<>> /\ result_fns = <<>>
      /\ arity_only_fns = compiled.builtins /\ dict_passing_fns = {} /\ dict_passing_counts = {}
      /\ ground_forms = {} /\ DOMAIN purged_specs = {}
      /\ errors = {} /\ deferred_errors = {}
  BY DEF MonoInit
<1>2. /\ compiled.order \in Seq(FunNames) /\ IsInjective(compiled.order)
      /\ compiled.builtins \subseteq FunNames \ compiled.constrained
  BY <1>1, ProgramFacts
<1>3. CopiesTyped
  BY <1>1, <1>2 DEF CopiesTyped, Range
<1>4. /\ \A i \in 1 .. Len(stack) : FALSE
      /\ \A i \in 1 .. Len(generated) : FALSE
      /\ \A i \in 1 .. Len(result_fns) : FALSE
  BY <1>1
<1>5. Frames
  <2>1. stack \in Seq(StackFrames)
    BY <1>1
  <2>2. \A i \in 1 .. Len(stack) : \A fr \in {stack[i]} : Walks(fr, i)
    BY <1>4, Zenon
  <2> QED
    BY <1>1, <1>2, <2>1, <2>2 DEF Frames
<1>6. Served /\ Shapes
  BY <1>1 DEF Served, Shapes
<1>7. Counted
  <2>1. IsFiniteSet(specializations)
    BY <1>1, FS_EmptySet
  <2>2. \A f : SpecsOf(f) = {}
    BY <1>1 DEF SpecsOf
  <2>3. \A f : WideningSpecs(f) = {} /\ PlainSpecs(f) = {}
    BY <2>2 DEF WideningSpecs, PlainSpecs
  <2>4. 0 <= SpecLimit + 1 /\ Cardinality({}) = 0
    BY SpecializerAssumption, FS_EmptySet
  <2>5. Cardinality({}) <= SpecLimit + 1
    BY <2>4
  <2> QED
    BY <2>1, <2>2, <2>3, <2>5, Zenon DEF Counted
<1>8. /\ \A n : ~EmittedIn(result_fns, n) /\ ~EmittedIn(generated, n)
      /\ \A n : ~CalledIn(result_fns, n) /\ ~CalledIn(generated, n)
      /\ \A n : PlainIn(result_fns, n) /\ PlainIn(generated, n)
      /\ Distinct(result_fns) /\ Distinct(generated)
  BY <1>4, Zenon DEF EmittedIn, CalledIn, PlainIn, Distinct
<1>9. /\ \A n : ~MadeIn(stack, dict_passing_counts, n) /\ ~BodiesCall(stack, n)
      /\ \A n : ~GoneIn(stack, n) /\ ~KeptIn(stack, n)
      /\ DistinctMade(stack, dict_passing_counts)
  BY <1>4, Zenon DEF MadeIn, BodiesCall, GoneIn, KeptIn, DistinctMade
<1>10. Once
  BY <1>8, <1>9, Zenon DEF Once, EmittedAs, MadeAs
<1>11. ASSUME NEW n \in NameSet
       PROVE  Named(n)
  <2>1. ~EmittedAs(n) /\ ~MadeAs(n) /\ ~DefinedAs(n) /\ ~Called(n) /\ AllPlain(n)
    BY <1>8, <1>9, Zenon DEF EmittedAs, MadeAs, DefinedAs, Called, AllPlain
  <2>2. n \notin specializations /\ n \notin ground_forms /\ n \notin DOMAIN purged_specs
    BY <1>1
  <2> QED
    BY <1>9, <2>1, <2>2, Zenon DEF Named, Handed, WalkedOnce, Decided, Grounded, Replaced, Leads
<1> QED
  BY <1>3, <1>5, <1>6, <1>7, <1>10, <1>11, Zenon DEF MonoInv

LEMMA MonoStutters == ASSUME MonoInv, UNCHANGED monoVars PROVE MonoInv'
<1>1. /\ CopiesTyped /\ Frames /\ Served /\ Shapes /\ Counted /\ Once
      /\ \A n \in NameSet : Named(n)
  BY DEF MonoInv
<1>2. /\ compiled' = compiled /\ phase' = phase /\ todo' = todo /\ batch' = batch /\ rewritten' = rewritten
      /\ stack' = stack /\ specializations' = specializations /\ generated' = generated
      /\ result_fns' = result_fns
      /\ arity_only_fns' = arity_only_fns /\ dict_passing_counts' = dict_passing_counts
      /\ dict_passing_fns' = dict_passing_fns /\ ground_forms' = ground_forms
      /\ purged_specs' = purged_specs /\ errors' = errors /\ deferred_errors' = deferred_errors
  BY DEF monoVars
<1>3. /\ FunNames' = FunNames /\ NameSet' = NameSet /\ FunctionSet' = FunctionSet /\ StackFrames' = StackFrames
      /\ \A g : (Constrained(g)' <=> Constrained(g)) /\ Original(g)' = Original(g)
  BY <1>2, Same
<1>4. CopiesTyped'
  BY <1>1, <1>2, <1>3 DEF CopiesTyped
<1>5. Frames'
  <2>1. Alike(stack', stack)
    BY <1>2 DEF Alike
  <2>2. stack' \in Seq(StackFrames)
    BY <1>1, <1>2 DEF Frames
  <2> QED
    BY <1>1, <1>2, <2>1, <2>2, FramesAlike DEF schedule
<1>6. Served' /\ Shapes'
  BY <1>1, <1>2, ShapesStay, Zenon
<1>7. Counted'
  BY <1>1, <1>2, CountedStays, Zenon
<1>8. \A n : /\ EmittedAs(n)' <=> EmittedAs(n)
             /\ MadeAs(n)' <=> MadeAs(n)
             /\ Called(n)' <=> Called(n)
             /\ AllPlain(n)' <=> AllPlain(n)
  BY <1>2, Zenon DEF EmittedAs, MadeAs, Called, AllPlain
<1>9. Once'
  BY <1>1, <1>2, <1>3, <1>8, Zenon DEF Once
<1>10. ASSUME NEW n \in NameSet
       PROVE  Named(n)'
  <2>1. Named(n)
    BY <1>1
  <2>2. (DefinedAs(n)' <=> DefinedAs(n)) /\ (Purged(n)' <=> Purged(n))
    BY <1>2, <1>8, Zenon DEF DefinedAs, Purged, Hole
  <2>3. Handed(n)' /\ WalkedOnce(n)' /\ Decided(n)'
    BY <1>2, <1>3, <1>8, <2>1, <2>2, Zenon DEF Named, Handed, WalkedOnce, Decided
  <2>4. Grounded(n)' /\ Replaced(n)' /\ Leads(n)'
    BY <1>2, <1>8, <2>1, <2>2, Zenon DEF Named, Grounded, Replaced, Leads, Hole
  <2> QED
    BY <2>3, <2>4, Zenon DEF Named
<1> QED
  BY <1>3, <1>4, <1>5, <1>6, <1>7, <1>9, <1>10, Zenon DEF MonoInv

\* Every step of the pass keeps the invariant, and it holds from the start.
THEOREM SpecializerInvariant == MonoSpec => []MonoInv
<1>1. ASSUME MonoInv, [MonoNext]_monoVars
      PROVE  MonoInv'
  <2>1. CASE NextOriginal BY <1>1, <2>1, NextOriginalStep
  <2>2. CASE UseHidden BY <1>1, <2>2, UseHiddenStep
  <2>3. CASE UseByName BY <1>1, <2>3, UseByNameStep
  <2>4. CASE UseExisting BY <1>1, <2>4, UseExistingStep
  <2>5. CASE UseExhausted BY <1>1, <2>5, UseExhaustedStep
  <2>6. CASE UseNew BY <1>1, <2>6, UseNewStep
  <2>7. CASE UseTrips BY <1>1, <2>7, UseTripsStep
  <2>8. CASE PurgeWidening BY <1>1, <2>8, PurgeWideningStep
  <2>9. CASE PurgePlain BY <1>1, <2>9, PurgePlainStep
  <2>10. CASE TripDone BY <1>1, <2>10, TripDoneStep
  <2>11. CASE CopyDone BY <1>1, <2>11, CopyDoneStep
  <2>12. CASE OriginalDone BY <1>1, <2>12, OriginalDoneStep
  <2>13. CASE DictDone BY <1>1, <2>13, DictDoneStep
  <2>14. CASE Redirect BY <1>1, <2>14, RedirectStep
  <2>15. CASE NextBatch BY <1>1, <2>15, NextBatchStep
  <2>16. CASE RewriteNext BY <1>1, <2>16, RewriteNextStep
  <2>17. CASE RewriteSites BY <1>1, <2>17, RewriteSitesStep
  <2>18. CASE UNCHANGED monoVars BY <1>1, <2>18, MonoStutters
  <2> QED
    BY <1>1, <2>1, <2>2, <2>3, <2>4, <2>5, <2>6, <2>7, <2>8, <2>9, <2>10, <2>11, <2>12, <2>13,
       <2>14, <2>15, <2>16, <2>17, <2>18 DEF MonoNext
<1> QED
  BY <1>1, MonoInitial, PTL DEF MonoSpec

-------------------------------------------------------------------------------
(* The properties *)

\* Names, calls and copies always have their types, and only functions with a context
\* are dictionary-passing or have ground forms (mono.rs 310, 3503-3507).
THEOREM SpecializerTypeCorrect == MonoSpec => []CopiesTyped
<1>1. MonoInv => CopiesTyped
  BY DEF MonoInv
<1> QED
  BY <1>1, SpecializerInvariant, PTL

LEMMA WithinTheCap == MonoInv => CopiesBounded
<1> SUFFICES ASSUME MonoInv, NEW f \in FunNames
             PROVE  /\ f \notin dict_passing_counts =>
                        Cardinality(SpecsOf(f)) <= (IF DictPassing(f) THEN 2 ELSE 1) * (SpecLimit + 1)
                    /\ f \in dict_passing_counts =>
                        /\ Cardinality(SpecsOf(f)) <= SpecLimit + 1
                        /\ \A s \in SpecsOf(f) : Widening(f, s.at) /\ s.at = Shape(f, s.at)
  BY Zenon DEF CopiesBounded
<1>1. Shapes /\ Counted
  BY DEF MonoInv
<1>2. SpecLimit \in Nat
  BY SpecializerAssumption
<1>3. /\ Cardinality(WideningSpecs(f)) <= SpecLimit + 1
      /\ Cardinality(PlainSpecs(f)) <= SpecLimit + 1
      /\ ~DictPassing(f) => Cardinality(SpecsOf(f)) <= SpecLimit + 1
  BY <1>1 DEF Counted
<1>4. /\ IsFiniteSet(WideningSpecs(f)) /\ IsFiniteSet(PlainSpecs(f))
      /\ SpecsOf(f) = WideningSpecs(f) \cup PlainSpecs(f)
  <2>1. SpecsOf(f) = WideningSpecs(f) \cup PlainSpecs(f)
    BY DEF WideningSpecs, PlainSpecs
  <2>2. WideningSpecs(f) \in SUBSET specializations /\ PlainSpecs(f) \in SUBSET specializations
    BY DEF WideningSpecs, PlainSpecs, SpecsOf
  <2> QED
    BY <1>1, <2>1, <2>2, FS_Subset DEF Counted
<1>5. Cardinality(SpecsOf(f)) <= 2 * (SpecLimit + 1)
  <2>1. /\ IsFiniteSet(WideningSpecs(f) \cap PlainSpecs(f))
        /\ Cardinality(SpecsOf(f)) = Cardinality(WideningSpecs(f)) + Cardinality(PlainSpecs(f))
                                       - Cardinality(WideningSpecs(f) \cap PlainSpecs(f))
    BY <1>4, FS_Union, FS_Intersection
  <2>2. /\ Cardinality(WideningSpecs(f)) \in Nat /\ Cardinality(PlainSpecs(f)) \in Nat
        /\ Cardinality(WideningSpecs(f) \cap PlainSpecs(f)) \in Nat
    BY <1>4, <2>1, FS_CardinalityType
  <2> QED
    BY <1>2, <1>3, <2>1, <2>2
<1>6. f \notin dict_passing_counts =>
          Cardinality(SpecsOf(f)) <= (IF DictPassing(f) THEN 2 ELSE 1) * (SpecLimit + 1)
  <2>1. CASE DictPassing(f)
    BY <1>5, <2>1
  <2>2. CASE ~DictPassing(f)
    BY <1>2, <1>3, <2>2
  <2> QED
    BY <2>1, <2>2
<1>7. ASSUME f \in dict_passing_counts
      PROVE  /\ Cardinality(SpecsOf(f)) <= SpecLimit + 1
             /\ \A s \in SpecsOf(f) : Widening(f, s.at) /\ s.at = Shape(f, s.at)
  <2>1. \A s \in SpecsOf(f) : Widening(f, s.at) /\ s.at = Shape(f, s.at)
    <3>1. \A s \in SpecsOf(f) : s \in specializations /\ s.fun = f
      BY DEF SpecsOf
    <3> QED
      BY <1>1, <1>7, <3>1, Zenon DEF Shapes
  <2>2. SpecsOf(f) = WideningSpecs(f)
    BY <2>1 DEF WideningSpecs
  <2> QED
    BY <1>3, <2>1, <2>2
<1> QED
  BY <1>6, <1>7

\* However often a function is used, it has at most SpecLimit + 1 copies before it trips
\* the cap and after that at most as many, one per arrow shape; one that an existential
\* made dictionary-passing may have as many of each sort (mono.rs 1934-1967).
THEOREM CapHolds == MonoSpec => []CopiesBounded
<1> QED
  BY WithinTheCap, SpecializerInvariant, PTL

\* The copies that are being made, by name.
LEMMA KeptAre == ASSUME Frames, NEW n PROVE n \in Kept <=> MadeAs(n)
<1>1. \A fr : fr \in ToSet(stack) <=> \E i \in 1 .. Len(stack) : fr = stack[i]
  BY DEF ToSet, Frames
<1>2. n \in Kept <=> \E fr : fr \in ToSet(stack) /\ fr.kind = "copy" /\ Keeps(fr) /\ fr.name = n
  BY Zenon DEF Kept
<1>3. \A fr : Makes(fr, dict_passing_counts) <=> fr.kind = "copy" /\ Keeps(fr)
  BY Zenon DEF Makes, Keeps
<1>4. MadeAs(n) <=> \E i \in 1 .. Len(stack) : stack[i].kind = "copy" /\ Keeps(stack[i]) /\ stack[i].name = n
  BY <1>3, Zenon DEF MadeAs, MadeIn
<1>5. (\E fr : fr \in ToSet(stack) /\ fr.kind = "copy" /\ Keeps(fr) /\ fr.name = n) <=>
          \E i \in 1 .. Len(stack) : stack[i].kind = "copy" /\ Keeps(stack[i]) /\ stack[i].name = n
  BY <1>1, Zenon
<1> QED
  BY <1>2, <1>4, <1>5, Zenon

LEMMA NoNameTwice == MonoInv => OneDefinition
<1> SUFFICES ASSUME MonoInv
             PROVE  OneDefinition
  OBVIOUS
<1>1. CopiesTyped /\ Frames /\ Once
  BY DEF MonoInv
<1>2. generated \in Seq(FunctionSet) /\ result_fns \in Seq(FunctionSet)
  BY <1>1 DEF CopiesTyped
<1>3. PICK all : all = result_fns \o generated
  OBVIOUS
<1>4. PICK names : names = [i \in DOMAIN all |-> all[i].name]
  OBVIOUS
<1>5. /\ all \in Seq(FunctionSet)
      /\ \A n : EmittedIn(all, n) <=> EmittedIn(result_fns, n) \/ EmittedIn(generated, n)
      /\ Distinct(result_fns) /\ Distinct(generated)
            /\ (\A n : ~(EmittedIn(result_fns, n) /\ EmittedIn(generated, n))) => Distinct(all)
  BY <1>2, <1>3, Joined, Zenon
<1>6. \A n : EmittedIn(generated, n) => n \in NameSet
  <2>1. \A fn \in FunctionSet : fn.name \in NameSet
    BY DEF FunctionSet
  <2>2. \A i \in 1 .. Len(generated) : generated[i] \in FunctionSet
    BY <1>2
  <2> QED
    BY <2>1, <2>2, Zenon DEF EmittedIn
<1>7. Distinct(all)
  BY <1>1, <1>5, <1>6, Zenon DEF Once
<1>8. DOMAIN all = 1 .. Len(all) /\ DOMAIN names = 1 .. Len(all)
      /\ \A i \in 1 .. Len(all) : names[i] = all[i].name /\ all[i].name \in NameSet
  <2>1. \A fn \in FunctionSet : fn.name \in NameSet
    BY DEF FunctionSet
  <2>2. DOMAIN all = 1 .. Len(all) /\ \A i \in 1 .. Len(all) : all[i] \in FunctionSet
    BY <1>5
  <2> QED
    BY <1>4, <2>1, <2>2
<1>9. IsInjective(names)
  BY <1>7, <1>8, Zenon DEF IsInjective, Distinct
<1>10. Range(names) \cap Kept = {}
  <2>1. ASSUME NEW n \in Range(names), n \in Kept
        PROVE  FALSE
    <3>1. PICK i \in 1 .. Len(all) : n = all[i].name
      BY <1>8, <2>1 DEF Range
    <3>2. EmittedAs(n) /\ n \in NameSet
      BY <1>5, <1>8, <3>1, Zenon DEF EmittedAs, EmittedIn
    <3>3. MadeAs(n)
      BY <1>1, <2>1, KeptAre, Zenon
    <3> QED
      BY <1>1, <3>2, <3>3, Zenon DEF Once
  <2> QED
    BY <2>1
<1>11. \A i, j \in DOMAIN stack :
          i # j /\ stack[i].kind = "copy" /\ stack[j].kind = "copy" /\ Keeps(stack[i]) /\ Keeps(stack[j])
            => stack[i].name # stack[j].name
  <2>1. DOMAIN stack = 1 .. Len(stack)
    BY <1>1 DEF Frames
  <2>2. \A fr : Makes(fr, dict_passing_counts) <=> fr.kind = "copy" /\ Keeps(fr)
    BY Zenon DEF Makes, Keeps
  <2> QED
    BY <1>1, <2>1, <2>2, Zenon DEF Once, DistinctMade
<1> QED
  BY <1>3, <1>4, <1>9, <1>10, <1>11, Zenon DEF OneDefinition

\* No name is ever defined twice, also when a stub takes the name of a purged copy that
\* is still being made (mono.rs 1997-2015, 2150-2158).
THEOREM OneDefinitionEach == MonoSpec => []OneDefinition
<1> QED
  BY NoNameTwice, SpecializerInvariant, PTL

LEMMA LeadSomewhere == MonoInv => NamesLead
<1> SUFFICES ASSUME MonoInv
             PROVE  NamesLead
  OBVIOUS
<1>1. /\ CopiesTyped /\ Frames /\ \A n \in NameSet : Named(n)
  BY DEF MonoInv
<1>2. /\ generated \in Seq(FunctionSet) /\ result_fns \in Seq(FunctionSet) /\ stack \in Seq(StackFrames)
      /\ ground_forms \subseteq NameSet
  BY <1>1 DEF CopiesTyped, Frames
<1>3. PICK purged, bodies, known :
          /\ purged = UNION {fr.purged : fr \in {g \in ToSet(stack) : g.kind = "trip"}}
          /\ bodies = {fr \in ToSet(stack) : fr.kind # "trip"}
          /\ known = EmittedNames \cup Kept \cup DOMAIN purged_specs \cup purged
  OBVIOUS
<1>4. \A fr : fr \in ToSet(stack) <=> \E i \in 1 .. Len(stack) : fr = stack[i]
  BY <1>2 DEF ToSet
<1>5. \A fn : fn \in Emitted <=> (\E i \in 1 .. Len(result_fns) : fn = result_fns[i])
                                  \/ \E i \in 1 .. Len(generated) : fn = generated[i]
  BY <1>2 DEF Emitted, ToSet
<1>6. \A n : EmittedAs(n) => n \in EmittedNames
  BY <1>5, Zenon DEF EmittedAs, EmittedIn, EmittedNames
<1>7. \A n : GoneIn(stack, n) \/ KeptIn(stack, n) => n \in purged
  <2>1. ASSUME NEW n, NEW i \in 1 .. Len(stack), stack[i].kind = "trip", n \in stack[i].purged
        PROVE  n \in purged
    BY <1>3, <1>4, <2>1
  <2> QED
    BY <2>1 DEF GoneIn, KeptIn
<1>8. \A n \in NameSet : n.copy /\ Called(n) => n \in known
  <2>1. \A n : MadeAs(n) => n \in Kept
    BY <1>1, KeptAre, Zenon
  <2>2. \A n \in NameSet : n.copy /\ Called(n) =>
            EmittedAs(n) \/ MadeAs(n) \/ n \in DOMAIN purged_specs \/ GoneIn(stack, n) \/ KeptIn(stack, n)
    BY <1>1, Zenon DEF Named, Leads, DefinedAs
  <2> QED
    BY <1>3, <1>6, <1>7, <2>1, <2>2
<1>9. ASSUME NEW x \in Emitted \cup bodies, NEW i \in DOMAIN x.calls
      PROVE  x.calls[i].to \in NameSet /\ Called(x.calls[i].to)
  <2>1. x.calls \in Seq(Calls)
    <3>1. CASE x \in Emitted
      <4>1. x \in FunctionSet
        BY <1>2, <1>5, <3>1
      <4> QED
        BY <4>1 DEF FunctionSet
    <3>2. CASE x \in bodies
      <4>1. x \in StackFrames /\ x.kind # "trip"
        BY <1>2, <1>3, <1>4, <3>2
      <4> QED
        BY <4>1 DEF StackFrames, TripFrames, BodyFrames
    <3> QED
      BY <3>1, <3>2
  <2>2. i \in 1 .. Len(x.calls) /\ x.calls[i] \in Calls
    BY <2>1
  <2>3. x.calls[i].to \in NameSet
    BY <2>2 DEF Calls
  <2> PICK to : to = x.calls[i].to
    OBVIOUS
  <2>4. CallsTo(x.calls, to)
    BY <2>2 DEF CallsTo
  <2>5. CASE x \in Emitted
    <3>1. CASE \E k \in 1 .. Len(result_fns) : x = result_fns[k]
      <4>1. \E k \in 1 .. Len(result_fns) : CallsTo(result_fns[k].calls, to)
        BY <2>4, <3>1
      <4>2. Called(to)
        BY <4>1, Zenon DEF Called, CalledIn
      <4> QED
        BY <2>3, <4>2
    <3>2. CASE \E k \in 1 .. Len(generated) : x = generated[k]
      <4>1. \E k \in 1 .. Len(generated) : CallsTo(generated[k].calls, to)
        BY <2>4, <3>2
      <4>2. Called(to)
        BY <4>1, Zenon DEF Called, CalledIn
      <4> QED
        BY <2>3, <4>2
    <3> QED
      BY <1>5, <2>5, <3>1, <3>2
  <2>6. CASE x \in bodies
    <3>1. \E k \in 1 .. Len(stack) : x = stack[k] /\ x.kind # "trip"
      BY <1>3, <1>4, <2>6
    <3>2. \E k \in 1 .. Len(stack) : stack[k].kind # "trip" /\ CallsTo(stack[k].calls, to)
      BY <2>4, <3>1
    <3>3. Called(to)
      BY <3>2, Zenon DEF Called, BodiesCall
    <3> QED
      BY <2>3, <3>3
  <2> QED
    BY <2>3, <2>5, <2>6
<1>10. \A x \in Emitted \cup bodies : \A i \in DOMAIN x.calls : x.calls[i].to.copy => x.calls[i].to \in known
  BY <1>8, <1>9
<1>11. \A n \in ground_forms : \E fn \in Emitted : fn.name = n /\ fn.form = "plain"
  <2> TAKE n \in ground_forms
  <2>1. EmittedAs(n) /\ AllPlain(n)
    BY <1>1, <1>2, Zenon DEF Named, Grounded, Purged
  <2> QED
    BY <1>5, <2>1, Zenon DEF EmittedAs, EmittedIn, AllPlain, PlainIn
<1> QED
  BY <1>3, <1>10, <1>11, Zenon DEF NamesLead

\* A name that was handed out always leads to a copy that is emitted or being made, to what
\* replaces it or to a trip that has still to decide (mono.rs 285-299), and a constrained
\* function's ground copy stays a plain function (300-310).
THEOREM NamesLeadSomewhere == MonoSpec => []NamesLead
<1> QED
  BY LeadSomewhere, SpecializerInvariant, PTL

-------------------------------------------------------------------------------
(* Calls by name.  In an accepted program every call by name is served, on *)
(* top of MonoInv: what the inductive invariant adds to it.                *)

\* The arrows that a function of a name takes beyond those of its original.
Arity(name) == IF name.copy THEN Arrows(name.fun, name.at) ELSE 0

LiveName(name) == Live(name.fun, name.at)
LiveCall(call) == Live(call.to.fun, call.at)

\* A call by name has the arrows of the copy it reaches.  One that reaches an original
\* has none, and the original serves every type; or the call is made at a variable
\* that is live, in a body where it is; or no shape was left and that was reported.
Fits(name, call) ==
    /\ call.how = "dicts" => call.to \in dict_passing_fns
    /\ call.how = "name" =>
        \/ call.to.copy /\ Arrows(call.to.fun, call.at) = Arity(call.to)
        \/ /\ call.to = Original(call.to.fun)
           /\ \/ call.to.fun \in errors
              \/ LiveCall(call) /\ LiveName(name)
              \/ /\ Arrows(call.to.fun, call.at) = 0
                 /\ Shared(call.to.fun) \/ call.to \in dict_passing_fns

AllFit(name, calls) == \A k \in 1 .. Len(calls) : Fits(name, calls[k])

\* What a purged name is redirected to takes as many arguments.
Redirected(name, to) ==
    \/ to.copy /\ to.fun = name.fun /\ Arity(to) = Arity(name)
    \/ /\ to = Original(name.fun)
       /\ name.fun \in errors \/ (Shared(name.fun) /\ Arity(name) = 0)

Replacement(name, to) == name \in DOMAIN purged_specs /\ purged_specs[name] = to

\* The calls of a function that RewriteSites or Redirect has settled.
SettledCalls(calls) ==
    \A k \in 1 .. Len(calls) :
        calls[k].how = "name" => calls[k].to \notin dict_passing_fns /\ calls[k].to \notin DOMAIN purged_specs

DictIn(st, name) == \E i \in 1 .. Len(st) : st[i].kind = "dict" /\ st[i].name = name

\* What is emitted: the calls fit; a copy that is compiled at a live variable takes
\* dictionaries; the dictionary forms are those of rewritten functions and call no
\* original at a live variable; a function that takes dictionaries and is still plain
\* is an original that the worklist has not reached.
Proper(fn) ==
    /\ AllFit(fn.name, fn.calls)
    /\ fn.name.copy /\ LiveName(fn.name) => fn.name \in dict_passing_fns
    /\ fn.form = "dict" =>
        /\ fn.name \in rewritten
        /\ \A k \in 1 .. Len(fn.calls) : fn.calls[k].how = "name" /\ ~fn.calls[k].to.copy => ~LiveCall(fn.calls[k])
    /\ fn.form = "raw" => fn.name \in dict_passing_fns /\ fn.calls = <<>>
    /\ fn.form = "plain" /\ fn.name \in dict_passing_fns =>
        ~fn.name.copy /\ (fn.name \in rewritten => DictIn(stack, fn.name))
    /\ phase = "done" /\ fn.name \notin deferred_errors /\ fn.name \notin dict_passing_fns => SettledCalls(fn.calls)

\* A use of a constrained function at a variable is in a body that constrains it.
UsesFit(fr) ==
    \A i \in 1 .. Len(fr.uses) :
        Constrained(fr.uses[i].fun) /\ fr.uses[i].a.of \in {"a", "b"} =>
            fr.uses[i].a.of = "a" /\ Constrained(fr.name.fun)

\* What is under way: as what it will emit.
ProperFrame(fr) ==
    /\ fr.kind # "trip" => AllFit(fr.name, fr.calls) /\ UsesFit(fr)
    /\ fr.kind = "original" => phase = "walk"
    /\ fr.kind = "dict" => fr.name \in rewritten
    /\ Makes(fr, dict_passing_counts) => fr.name \notin dict_passing_fns /\ ~LiveName(fr.name)
    /\ fr.kind = "trip" => \A n \in fr.purged : ~LiveName(n)

Listed(list, x) == \E i \in 1 .. Len(list) : list[i] = x

Phased ==
    /\ rewritten \subseteq dict_passing_fns
    /\ phase = "walk" => rewritten = {} /\ batch = {}
    /\ phase # "walk" => todo = <<>>
    /\ phase = "done" => stack = <<>> /\ generated = <<>> /\ dict_passing_fns \subseteq rewritten

\* An original is to be walked, walked or emitted.
Placed(f) == f \in ToSet(todo) \/ WalkedIn(stack, Original(f)) \/ EmittedIn(result_fns, Original(f))

CallsInv ==
    /\ Phased
    /\ \A f \in FunNames : Placed(f)
    /\ \A s \in specializations : LiveName(s) => s \in dict_passing_fns
    /\ \A n, to : Replacement(n, to) => Redirected(n, to)
    /\ \A fn : Listed(result_fns, fn) \/ Listed(generated, fn) => Proper(fn)
    /\ \A fn : Listed(generated, fn) => fn.name.copy
    /\ \A fr : Listed(stack, fr) => ProperFrame(fr)

-------------------------------------------------------------------------------
(* Elements of sequences *)

LEMMA ListedMore ==
    ASSUME NEW S, NEW list \in Seq(S), NEW y, NEW x
    PROVE  Listed(Append(list, y), x) <=> Listed(list, x) \/ x = y
<1>1. PICK more : more = Append(list, y)
  OBVIOUS
<1>2. /\ Len(more) = Len(list) + 1 /\ Len(list) \in Nat
      /\ \A i \in 1 .. Len(list) : more[i] = list[i]
      /\ more[Len(list) + 1] = y
  BY <1>1
<1>3. \A i \in 1 .. Len(more) : i \in 1 .. Len(list) \/ i = Len(list) + 1
  BY <1>2
<1>4. \A i \in 1 .. Len(list) : i \in 1 .. Len(more)
  BY <1>2
<1>5. Len(list) + 1 \in 1 .. Len(more)
  BY <1>2
<1>6. Listed(more, x) <=> Listed(list, x) \/ x = y
  BY <1>2, <1>3, <1>4, <1>5, Zenon DEF Listed
<1> QED
  BY <1>1, <1>6, Zenon

LEMMA ListedFront ==
    ASSUME NEW S, NEW list \in Seq(S), list # <<>>, NEW x
    PROVE  Listed(list, x) <=> Listed(Front(list), x) \/ x = Last(list)
<1>1. list = Append(Front(list), Last(list)) /\ Front(list) \in Seq(S)
  BY TopAndBelow, Zenon
<1>2. PICK below, top : below = Front(list) /\ top = Last(list)
  OBVIOUS
<1>3. Listed(Append(below, top), x) <=> Listed(below, x) \/ x = top
  BY <1>1, <1>2, ListedMore, Zenon
<1> QED
  BY <1>1, <1>2, <1>3, Zenon

LEMMA ListedJoined ==
    ASSUME NEW S, NEW list \in Seq(S), NEW more \in Seq(S), NEW x
    PROVE  Listed(list \o more, x) <=> Listed(list, x) \/ Listed(more, x)
<1>1. PICK all : all = list \o more
  OBVIOUS
<1>2. /\ Len(all) = Len(list) + Len(more) /\ Len(list) \in Nat /\ Len(more) \in Nat
      /\ \A i \in 1 .. Len(list) : all[i] = list[i] /\ i \in 1 .. Len(all)
      /\ \A j \in 1 .. Len(more) : all[Len(list) + j] = more[j] /\ Len(list) + j \in 1 .. Len(all)
  BY <1>1
<1>3. \A i \in 1 .. Len(all) : i \in 1 .. Len(list) \/ \E j \in 1 .. Len(more) : i = Len(list) + j
  <2> TAKE i \in 1 .. Len(all)
  <2>1. i \in 1 .. Len(list) \/ (i - Len(list) \in 1 .. Len(more) /\ i = Len(list) + (i - Len(list)))
    BY <1>2
  <2> QED
    BY <2>1
<1>4. Listed(all, x) <=> Listed(list, x) \/ Listed(more, x)
  BY <1>2, <1>3, Zenon DEF Listed
<1> QED
  BY <1>1, <1>4, Zenon

LEMMA ListedRetained ==
    ASSUME NEW S, NEW fns \in Seq(S), NEW gone, NEW x, Listed(Retained(fns, gone), x)
    PROVE  Listed(fns, x)
<1>1. PICK N \in Nat : \E at : Selecting(fns, gone, N, at)
  BY Selection, Zenon
<1>2. PICK at \in [1 .. N -> Retaining(fns, gone)] : Retained(fns, gone) = [j \in 1 .. N |-> fns[at[j]]]
  BY <1>1, Zenon DEF Selecting
<1>3. Retaining(fns, gone) \subseteq 1 .. Len(fns)
  BY DEF Retaining
<1>4. PICK rest : rest = Retained(fns, gone)
  OBVIOUS
<1>5. Len(rest) = N /\ \A j \in 1 .. N : rest[j] = fns[at[j]] /\ at[j] \in 1 .. Len(fns)
  BY <1>2, <1>3, <1>4
<1>6. \E j \in 1 .. N : rest[j] = x
  BY <1>4, <1>5 DEF Listed
<1> QED
  BY <1>5, <1>6 DEF Listed

-------------------------------------------------------------------------------
(* What the program and the flags decide about a call *)

LEMMA SameCalls ==
    ASSUME compiled' = compiled
    PROVE  /\ \A f, at : Arrows(f, at)' = Arrows(f, at)
           /\ \A n : (LiveName(n)' <=> LiveName(n)) /\ Arity(n)' = Arity(n)
           /\ \A c : LiveCall(c)' <=> LiveCall(c)
           /\ \A fr : UsesFit(fr)' <=> UsesFit(fr)
<1>1. \A f, at : Arrows(f, at)' = Arrows(f, at)
  BY Zenon DEF Arrows
<1>2. \A f, at : Live(f, at)' <=> Live(f, at)
  BY Zenon DEF Live, Constrained
<1>3. \A n : LiveName(n)' <=> LiveName(n)
  BY <1>2, Zenon DEF LiveName
<1>4. \A c : LiveCall(c)' <=> LiveCall(c)
  BY <1>2, Zenon DEF LiveCall
<1>5. \A n : Arity(n)' = Arity(n)
  BY <1>1, Zenon DEF Arity
<1>6. \A fr : UsesFit(fr)' <=> UsesFit(fr)
  BY Zenon DEF UsesFit, Constrained
<1> QED
  BY <1>1, <1>3, <1>4, <1>5, <1>6, Zenon

\* A call that fits goes on to fit, as more is flagged, shared or reported.
LEMMA FitsStay ==
    ASSUME compiled' = compiled, dict_passing_fns \subseteq dict_passing_fns',
           arity_only_fns \subseteq arity_only_fns', errors \subseteq errors'
    PROVE  /\ \A name, call : Fits(name, call) => Fits(name, call)'
           /\ \A name, calls : AllFit(name, calls) => AllFit(name, calls)'
           /\ \A name, to : Redirected(name, to) => Redirected(name, to)'
<1>1. \A f : (Shared(f) => Shared(f)') /\ (f \in errors => f \in errors') /\ Original(f)' = Original(f)
  <2>1. \A f : Original(f)' = Original(f)
    BY Same, Zenon
  <2> QED
    BY <2>1 DEF Shared
<1>2. \A n : n \in dict_passing_fns => n \in dict_passing_fns'
  OBVIOUS
<1>3. ASSUME NEW name, NEW call, Fits(name, call)
      PROVE  Fits(name, call)'
  <2>1. /\ Arrows(call.to.fun, call.at)' = Arrows(call.to.fun, call.at)
        /\ Arity(call.to)' = Arity(call.to)
        /\ (LiveCall(call)' <=> LiveCall(call)) /\ (LiveName(name)' <=> LiveName(name))
    BY SameCalls, Zenon
  <2> QED
    BY <1>1, <1>2, <1>3, <2>1, Zenon DEF Fits
<1>4. ASSUME NEW name, NEW calls, AllFit(name, calls)
      PROVE  AllFit(name, calls)'
  BY <1>3, <1>4, Zenon DEF AllFit
<1>5. ASSUME NEW name, NEW to, Redirected(name, to)
      PROVE  Redirected(name, to)'
  <2>1. Arity(name)' = Arity(name) /\ Arity(to)' = Arity(to)
    BY SameCalls, Zenon
  <2> QED
    BY <1>1, <1>5, <2>1, Zenon DEF Redirected
<1> QED
  BY <1>3, <1>4, <1>5, Zenon

\* A copy is called with the arrows of its key: at the shape of the use ...
LEMMA ShapeArrows ==
    ASSUME NEW f, NEW at \in Pairs
    PROVE  Arrows(f, Shape(f, at)) = Arrows(f, at)
<1>1. at.b.cons \in Seq({"list", "fun"})
  BY DEF Pairs, Types
<1>2. PICK s, c : s = at.b.cons /\ c = Cut(s)
  OBVIOUS
<1>3. PICK n : n = LastArrow(s)
  OBVIOUS
<1>4. /\ n \in 0 .. Len(s) /\ (n > 0 => s[n] = "fun") /\ \A i \in 1 .. Len(s) : s[i] = "fun" => i <= n
      /\ s \in Seq({"list", "fun"})
  BY <1>1, <1>2, <1>3, LastPosition, Zenon
<1>5. c = SubSeq(s, 1, n)
  BY <1>2, <1>3, Zenon DEF Cut
<1>6. c \in Seq({"list", "fun"}) /\ Len(c) = n /\ \A i \in 1 .. n : c[i] = s[i]
  BY <1>4, <1>5
<1>7. {i \in DOMAIN c : \A j \in 1 .. i : c[j] = "fun"} = {i \in DOMAIN s : \A j \in 1 .. i : s[j] = "fun"}
  <2>1. DOMAIN c = 1 .. n /\ DOMAIN s = 1 .. Len(s) /\ 1 .. n \subseteq 1 .. Len(s)
    BY <1>4, <1>6
  <2>2. ASSUME NEW i \in 1 .. Len(s), \A j \in 1 .. i : s[j] = "fun"
        PROVE  i \in 1 .. n
    BY <1>4, <2>2
  <2>3. \A i \in 1 .. n : (\A j \in 1 .. i : c[j] = "fun") <=> \A j \in 1 .. i : s[j] = "fun"
    BY <1>4, <1>6
  <2> QED
    BY <2>1, <2>2, <2>3
<1>8. Shape(f, at).b = [leaf |-> "hole", cons |-> c]
  <2>1. Skeleton(at.b) = [leaf |-> "hole", cons |-> c]
    BY <1>2, Zenon DEF Skeleton, Cut, LastArrow
  <2>2. PICK d : d = Declared(f)
    OBVIOUS
  <2>3. d = [a |-> d.a, b |-> d.b]
    BY <2>2 DEF Declared
  <2>4. Shape(f, at) = [d EXCEPT !.b = Skeleton(at.b)]
    BY <2>2, Zenon DEF Shape
  <2> QED
    BY <2>1, <2>3, <2>4
<1>9. Shape(f, at).b.cons = c
  BY <1>8
<1> QED
  BY <1>2, <1>7, <1>9, Zenon DEF Arrows

\* ... or at its type.
LEMMA CanonicalFacts ==
    ASSUME NEW f, NEW at \in Pairs
    PROVE  /\ Arrows(f, Canonical(at)) = Arrows(f, at)
           /\ Live(f, Canonical(at)) <=> Live(f, at)
<1>1. Canonical(at).b.cons = at.b.cons /\ Canonical(at).a = at.a
  BY DEF Canonical, Pairs, Types
<1> QED
  BY <1>1, Zenon DEF Arrows, Live

LEMMA ArrowsNatural ==
    ASSUME NEW f, NEW at \in Pairs
    PROVE  Arrows(f, at) \in Nat
<1> DEFINE I == {i \in DOMAIN at.b.cons : \A j \in 1 .. i : at.b.cons[j] = "fun"}
<1>1. at.b.cons \in Seq({"list", "fun"}) /\ I \subseteq 1 .. Len(at.b.cons) /\ Len(at.b.cons) \in Nat
  BY DEF Pairs, Types
<1>2. IsFiniteSet(1 .. Len(at.b.cons))
  BY <1>1, FS_Interval
<1>3. Cardinality(I) \in Nat
  BY <1>1, <1>2, FS_Subset, FS_CardinalityType, Zenon
<1>4. Arrows(f, at) = IF f \notin compiled.opens THEN 0 ELSE Cardinality(I)
  BY Zenon DEF Arrows
<1> HIDE DEF I
<1> QED
  BY <1>3, <1>4

\* A use that is live is made in a body that is.
LEMMA LiveUse ==
    ASSUME Frames, Walking, ProperFrame(TopFrame), Live(Fun, Use)
    PROVE  LiveName(TopFrame.name)
<1>1. PICK fr : fr = TopFrame
  OBVIOUS
<1>2. /\ fr \in BodyFrames /\ fr.uses # <<>>
  BY <1>1, UseFacts, Zenon DEF Walking
<1>3. fr.uses \in Seq(UsesOf(FunNames)) /\ 1 \in 1 .. Len(fr.uses) /\ fr.kind # "trip" /\ fr.name.at \in Pairs
  <2>1. fr.uses \in Seq(UsesOf(FunNames)) /\ fr.kind # "trip" /\ fr.name \in NameSet
    BY <1>2 DEF BodyFrames
  <2>2. fr.name.at \in Pairs
    BY <2>1, NameFacts, Zenon
  <2>3. 1 \in 1 .. Len(fr.uses)
    BY <1>2, <2>1
  <2> QED
    BY <2>1, <2>2, <2>3
<1>4. PICK u : u = fr.uses[1]
  OBVIOUS
<1>5. Fun = u.fun /\ Use = Instance(u, fr.name.at)
  <2>1. Head(fr.uses) = u
    BY <1>3, <1>4
  <2> QED
    BY <1>1, <2>1, Zenon DEF Fun, Use
<1>6. u \in UsesOf(FunNames)
  BY <1>3, <1>4
<1>7. Constrained(u.fun) /\ Use.a.leaf = "var"
  BY <1>5, Zenon DEF Live
<1>8. Use.a = Substituted(u.a, fr.name.at)
  BY <1>5 DEF Instance
<1>9. u.a.of \in {"a", "b", "ground", "hidden"} /\ u.a.wrap \in Seq({"list", "fun"})
  BY <1>6 DEF UsesOf
<1>10. u.a.of \in {"a", "b"} /\ (u.a.of = "a" => fr.name.at.a.leaf = "var")
  <2>1. CASE u.a.of \in {"a", "b"}
    <3>1. PICK t : t = fr.name.at[u.a.of]
      OBVIOUS
    <3>2. t \in Types /\ (u.a.of = "a" => t = fr.name.at.a)
      BY <1>3, <2>1, <3>1 DEF Pairs
    <3>3. Use.a.leaf = t.leaf
      BY <1>8, <2>1, <3>1, <3>2 DEF Substituted, Types
    <3> QED
      BY <1>7, <2>1, <3>2, <3>3
  <2>2. CASE u.a.of \notin {"a", "b"}
    <3>1. Use.a.leaf = u.a.of
      BY <1>8, <2>2 DEF Substituted, Leaf
    <3> QED
      BY <1>7, <1>9, <2>2, <3>1
  <2> QED
    BY <2>1, <2>2
<1>11. u.a.of = "a" /\ Constrained(fr.name.fun)
  BY <1>1, <1>3, <1>4, <1>7, <1>10, Zenon DEF ProperFrame, UsesFit
<1> QED
  BY <1>1, <1>10, <1>11, Zenon DEF LiveName, Live

-------------------------------------------------------------------------------
(* What every step of a walk keeps *)

\* More is flagged, shared and reported; a copy that is flagged is new.
MoreFlags ==
    /\ UNCHANGED <<compiled, schedule>>
    /\ dict_passing_fns \subseteq dict_passing_fns' /\ arity_only_fns \subseteq arity_only_fns'
    /\ errors \subseteq errors' /\ dict_passing_counts \subseteq dict_passing_counts'
    /\ \A n \in dict_passing_fns' : n \in dict_passing_fns \/ ~n.copy \/ ~DefinedAs(n)

LEMMA ListedFrame ==
    ASSUME MonoInv, CallsInv, NEW fr, Listed(stack, fr)
    PROVE  /\ ProperFrame(fr) /\ fr \in StackFrames
           /\ fr.kind = "copy" => fr.name.copy
           /\ fr.kind = "dict" => fr.name \in dict_passing_fns
           /\ Makes(fr, dict_passing_counts) => MadeAs(fr.name)
<1>1. PICK i \in 1 .. Len(stack) : stack[i] = fr
  BY Zenon DEF Listed
<1>2. Frames
  BY DEF MonoInv
<1>3. Walks(fr, i) /\ fr \in StackFrames
  BY <1>1, <1>2 DEF Frames
<1>4. ProperFrame(fr)
  BY Zenon DEF CallsInv
<1>5. Makes(fr, dict_passing_counts) => MadeAs(fr.name)
  BY <1>1, Zenon DEF MadeAs, MadeIn
<1> QED
  BY <1>3, <1>4, <1>5, Zenon DEF Walks

\* A frame with more calls that fit, or with less to decide.
LEMMA FrameStays ==
    ASSUME MonoInv, CallsInv, MoreFlags,
           NEW old, Listed(stack, old), NEW fr, fr.kind = old.kind,
           fr.kind = "trip" => fr.purged \subseteq old.purged,
           fr.kind # "trip" =>
               /\ fr.name = old.name /\ fr.tripped_before = old.tripped_before
               /\ AllFit(fr.name, fr.calls)' /\ UsesFit(fr)
    PROVE  ProperFrame(fr)'
<1>1. /\ ProperFrame(old) /\ (old.kind = "copy" => old.name.copy)
      /\ Makes(old, dict_passing_counts) => MadeAs(old.name)
  BY ListedFrame, Zenon
<1>2. compiled' = compiled /\ phase' = phase /\ rewritten' = rewritten
  BY DEF MoreFlags, schedule
<1>3. /\ UsesFit(fr)' <=> UsesFit(fr)
      /\ \A n : LiveName(n)' <=> LiveName(n)
  BY <1>2, SameCalls, Zenon
<1>4. fr.kind # "trip" => AllFit(fr.name, fr.calls)' /\ UsesFit(fr)'
  BY <1>3
<1>5. (fr.kind = "original" => phase' = "walk") /\ (fr.kind = "dict" => fr.name \in rewritten')
  BY <1>1, <1>2 DEF ProperFrame
<1>6. ASSUME Makes(fr, dict_passing_counts')
      PROVE  fr.name \notin dict_passing_fns' /\ ~LiveName(fr.name)'
  <2>1. fr.kind = "copy" /\ fr.name = old.name /\ fr.tripped_before = old.tripped_before
    BY <1>6 DEF Makes
  <2>2. Makes(old, dict_passing_counts)
    BY <1>6, <2>1 DEF Makes, MoreFlags
  <2>3. old.name \notin dict_passing_fns /\ ~LiveName(old.name)
    BY <1>1, <2>2, Zenon DEF ProperFrame
  <2>4. DefinedAs(old.name) /\ old.name.copy
    BY <1>1, <2>1, <2>2, Zenon DEF DefinedAs
  <2>5. old.name \notin dict_passing_fns'
    BY <2>3, <2>4, Zenon DEF MoreFlags
  <2> QED
    BY <1>3, <2>1, <2>3, <2>5, Zenon
<1>7. ASSUME fr.kind = "trip", NEW n \in fr.purged
      PROVE  ~LiveName(n)'
  <2>1. n \in old.purged /\ old.kind = "trip"
    BY <1>7
  <2> QED
    BY <1>1, <1>3, <2>1, Zenon DEF ProperFrame
<1>8. ProperFrame(fr)'
  BY <1>4, <1>5, <1>6, <1>7, Zenon DEF ProperFrame
<1> QED
  BY <1>8

LEMMA FunctionStays ==
    ASSUME MonoInv, CallsInv, MoreFlags, stack # <<>>,
           NEW fn, Listed(result_fns, fn) \/ Listed(generated, fn),
           ~fn.name.copy /\ DictIn(stack, fn.name) => DictIn(stack', fn.name)
    PROVE  Proper(fn)'
<1>1. Proper(fn) /\ Phased
  BY Zenon DEF CallsInv
<1>2. compiled' = compiled /\ phase' = phase /\ rewritten' = rewritten
  BY DEF MoreFlags, schedule
<1>3. /\ \A n : LiveName(n)' <=> LiveName(n)
      /\ \A c : LiveCall(c)' <=> LiveCall(c)
  BY <1>2, SameCalls, Zenon
<1>4. AllFit(fn.name, fn.calls)'
  <2>1. AllFit(fn.name, fn.calls)
    BY <1>1, Zenon DEF Proper
  <2> QED
    BY <2>1, FitsStay DEF MoreFlags
<1>5. \A n : n \in dict_passing_fns => n \in dict_passing_fns'
  BY DEF MoreFlags
<1>6. fn.name.copy /\ LiveName(fn.name)' => fn.name \in dict_passing_fns'
  BY <1>1, <1>3, <1>5, Zenon DEF Proper
<1>7. fn.form = "dict" =>
        /\ fn.name \in rewritten'
        /\ \A k \in 1 .. Len(fn.calls) :
              fn.calls[k].how = "name" /\ ~fn.calls[k].to.copy => ~LiveCall(fn.calls[k])'
  BY <1>1, <1>2, <1>3, Zenon DEF Proper
<1>8. fn.form = "raw" => fn.name \in dict_passing_fns' /\ fn.calls = <<>>
  BY <1>1, <1>5, Zenon DEF Proper
<1>9. DefinedAs(fn.name)
  BY Zenon DEF Listed, DefinedAs, EmittedAs, EmittedIn
<1>10. ASSUME fn.form = "plain", fn.name \in dict_passing_fns'
       PROVE  ~fn.name.copy /\ (fn.name \in rewritten' => DictIn(stack', fn.name))
  <2>1. CASE fn.name \in dict_passing_fns
    BY <1>1, <1>2, <1>10, <2>1, Zenon DEF Proper
  <2>2. CASE fn.name \notin dict_passing_fns
    <3>1. ~fn.name.copy
      BY <1>9, <1>10, <2>2, Zenon DEF MoreFlags
    <3>2. fn.name \notin rewritten'
      BY <1>1, <1>2, <2>2 DEF Phased
    <3> QED
      BY <3>1, <3>2
  <2> QED
    BY <2>1, <2>2
<1>11. phase' # "done"
  BY <1>1, <1>2 DEF Phased
<1> QED
  BY <1>4, <1>6, <1>7, <1>8, <1>10, <1>11, Zenon DEF Proper

\* A step of a walk keeps the invariant if what it adds is as the invariant says.
LEMMA CallsKept ==
    ASSUME MonoInv, CallsInv, MoreFlags, stack # <<>>,
           \A f \in FunNames : WalkedIn(stack, Original(f)) \/ EmittedIn(result_fns, Original(f)) =>
                   WalkedIn(stack', Original(f)) \/ EmittedIn(result_fns', Original(f)),
           \A s \in specializations' : s \in specializations \/ (LiveName(s) => s \in dict_passing_fns'),
           \A n, to : Replacement(n, to)' => Replacement(n, to) \/ Redirected(n, to)',
           \A fn : Listed(result_fns', fn) \/ Listed(generated', fn) =>
               \/ /\ Listed(result_fns, fn) \/ Listed(generated, fn)
                  /\ ~fn.name.copy /\ DictIn(stack, fn.name) => DictIn(stack', fn.name)
               \/ Proper(fn)',
           \A fn : Listed(generated', fn) => Listed(generated, fn) \/ fn.name.copy,
           \A fr : Listed(stack', fr) => Listed(stack, fr) \/ ProperFrame(fr)'
    PROVE  CallsInv'
<1>1. /\ Phased /\ \A f \in FunNames : Placed(f)
      /\ \A s \in specializations : LiveName(s) => s \in dict_passing_fns
      /\ \A n, to : Replacement(n, to) => Redirected(n, to)
      /\ \A fn : Listed(generated, fn) => fn.name.copy
  BY Zenon DEF CallsInv
<1>2. /\ compiled' = compiled /\ phase' = phase /\ rewritten' = rewritten /\ todo' = todo /\ batch' = batch
      /\ dict_passing_fns \subseteq dict_passing_fns'
  BY DEF MoreFlags, schedule
<1>3. FunNames' = FunNames /\ \A f : Original(f)' = Original(f)
  BY <1>2, Same, Zenon
<1>4. Phased'
  BY <1>1, <1>2 DEF Phased
<1>5. \A f \in FunNames : Placed(f)'
  BY <1>1, <1>2, <1>3, Zenon DEF Placed
<1>6. \A s \in specializations' : LiveName(s)' => s \in dict_passing_fns'
  <2>1. \A n : LiveName(n)' <=> LiveName(n)
    BY <1>2, SameCalls, Zenon
  <2>2. \A n : n \in dict_passing_fns => n \in dict_passing_fns'
    BY <1>2
  <2> QED
    BY <1>1, <2>1, <2>2, Zenon
<1>7. \A n, to : Replacement(n, to)' => Redirected(n, to)'
  <2>1. \A n, to : Redirected(n, to) => Redirected(n, to)'
    BY FitsStay DEF MoreFlags
  <2> QED
    BY <1>1, <2>1, Zenon
<1>8. \A fn : Listed(result_fns', fn) \/ Listed(generated', fn) => Proper(fn)'
  BY FunctionStays, Zenon
<1>9. ASSUME NEW fr, Listed(stack', fr)
      PROVE  ProperFrame(fr)'
  <2>1. CASE Listed(stack, fr)
    <3>1. fr.kind # "trip" => AllFit(fr.name, fr.calls) /\ UsesFit(fr)
      BY <2>1, ListedFrame, Zenon DEF ProperFrame
    <3>2. fr.kind # "trip" => AllFit(fr.name, fr.calls)' /\ UsesFit(fr)
      BY <3>1, FitsStay DEF MoreFlags
    <3> QED
      BY <2>1, <3>2, FrameStays
  <2> QED
    BY <1>9, <2>1
<1>10. \A fn : Listed(generated', fn) => fn.name.copy
  BY <1>1
<1> QED
  BY <1>3, <1>4, <1>5, <1>6, <1>7, <1>8, <1>9, <1>10, Zenon DEF CallsInv

-------------------------------------------------------------------------------
(* Stacks *)

LEMMA AlikeDict ==
    ASSUME NEW st, NEW old, Alike(st, old), NEW n
    PROVE  DictIn(st, n) <=> DictIn(old, n)
<1>1. \A i : i \in 1 .. Len(st) <=> i \in 1 .. Len(old)
  BY DEF Alike
<1>2. \A i \in 1 .. Len(old) :
          st[i].kind = old[i].kind /\ (old[i].kind = "dict" => st[i].name = old[i].name)
  BY DEF Alike
<1> QED
  BY <1>1, <1>2, Zenon DEF DictIn

LEMMA PushedDict ==
    ASSUME NEW S, NEW st \in Seq(S), NEW fr \in S, NEW n
    PROVE  DictIn(Append(st, fr), n) <=> DictIn(st, n) \/ (fr.kind = "dict" /\ fr.name = n)
<1>1. PICK more : more = Append(st, fr)
  OBVIOUS
<1>2. /\ Len(more) = Len(st) + 1 /\ Len(st) \in Nat
      /\ \A i \in 1 .. Len(st) : more[i] = st[i]
      /\ more[Len(st) + 1] = fr
  BY <1>1
<1>3. \A i \in 1 .. Len(more) : i \in 1 .. Len(st) \/ i = Len(st) + 1
  BY <1>2
<1>4. \A i \in 1 .. Len(st) : i \in 1 .. Len(more)
  BY <1>2
<1>5. Len(st) + 1 \in 1 .. Len(more)
  BY <1>2
<1>6. DictIn(more, n) <=> DictIn(st, n) \/ (fr.kind = "dict" /\ fr.name = n)
  BY <1>2, <1>3, <1>4, <1>5, Zenon DEF DictIn
<1> QED
  BY <1>1, <1>6, Zenon

LEMMA PoppedDict ==
    ASSUME Frames, stack # <<>>, NEW n
    PROVE  DictIn(stack, n) <=> DictIn(Front(stack), n) \/ (TopFrame.kind = "dict" /\ TopFrame.name = n)
<1>1. stack \in Seq(StackFrames)
  BY DEF Frames
<1>2. PICK below, top : below = Front(stack) /\ top = TopFrame
  OBVIOUS
<1>3. below \in Seq(StackFrames) /\ top \in StackFrames /\ stack = Append(below, top)
  BY <1>1, <1>2, TopAndBelow, Zenon DEF TopFrame
<1>4. DictIn(Append(below, top), n) <=> DictIn(below, n) \/ (top.kind = "dict" /\ top.name = n)
  BY <1>3, PushedDict, Zenon
<1> QED
  BY <1>2, <1>3, <1>4, Zenon

\* An activation starts with no calls and the uses of its body.
LEMMA ActivationFits ==
    ASSUME Frames, NEW name \in NameSet, NEW kind, NEW fr, fr = Activation(kind, name)
    PROVE  /\ fr.kind = kind /\ fr.name = name /\ fr.calls = <<>> /\ UsesFit(fr)
           /\ fr.tripped_before <=> name.fun \in dict_passing_counts
           /\ kind \in {"original", "copy", "dict"} => fr \in BodyFrames
<1>1. /\ fr.kind = kind /\ fr.name = name /\ fr.calls = <<>> /\ fr.uses = compiled.body[name.fun]
      /\ fr.tripped_before = (name.fun \in dict_passing_counts)
      /\ fr = [kind |-> kind, name |-> name, uses |-> fr.uses, calls |-> <<>>, tripped_before |-> fr.tripped_before]
  BY DEF Activation
<1>2. compiled \in Programs /\ name.fun \in FunNames
  BY NameFacts, Zenon DEF Frames
<1>3. /\ fr.uses \in Seq(UsesOf(FunNames))
      /\ \A u \in ToSet(fr.uses) :
              u.fun \in compiled.constrained /\ u.a.of \in {"a", "b"} =>
                  u.a.of = "a" /\ name.fun \in compiled.constrained
  BY <1>1, <1>2, SpecializerAssumption DEF FunNames
<1>4. \A i \in 1 .. Len(fr.uses) : fr.uses[i] \in ToSet(fr.uses)
  BY <1>3 DEF ToSet
<1>5. UsesFit(fr)
  BY <1>1, <1>3, <1>4, Zenon DEF UsesFit, Constrained
<1>6. kind \in {"original", "copy", "dict"} => fr \in BodyFrames
  <2>1. <<>> \in Seq(Calls) /\ fr.tripped_before \in BOOLEAN
    BY <1>1
  <2> PICK uses, before : uses = fr.uses /\ before = fr.tripped_before
    OBVIOUS
  <2>2. fr = [kind |-> kind, name |-> name, uses |-> uses, calls |-> <<>>, tripped_before |-> before]
    BY <1>1
  <2> QED
    BY <1>3, <2>1, <2>2 DEF BodyFrames
<1> QED
  BY <1>1, <1>5, <1>6

LEMMA NoCallsFit == \A name : AllFit(name, <<>>) /\ AllFit(name, <<>>)'
<1>1. \A k \in 1 .. Len(<<>>) : FALSE
  OBVIOUS
<1>2. \A name : AllFit(name, <<>>)
  BY <1>1, Zenon DEF AllFit
<1>3. \A name : AllFit(name, <<>>)'
  BY <1>1, Zenon DEF AllFit
<1> QED
  BY <1>2, <1>3

\* A body with one more call, which fits.
LEMMA AnsweredFits ==
    ASSUME MonoInv, CallsInv, Walking, MoreFlags, NEW to \in NameSet, NEW how \in {"name", "dicts"},
           NEW st, st = Answered(to, how), NEW name, name = TopFrame.name,
           NEW call, call = [to |-> to, at |-> Use, how |-> how], Fits(name, call)'
    PROVE  /\ \A fr : Listed(st, fr) => Listed(stack, fr) \/ ProperFrame(fr)'
           /\ \A n : /\ DictIn(st, n) <=> DictIn(stack, n)
                     /\ WalkedIn(st, n) <=> WalkedIn(stack, n)
<1>1. Frames
  BY DEF MonoInv
<1>2. /\ TopFrame = stack[Len(stack)] /\ Len(stack) \in Nat \ {0} /\ TopFrame \in BodyFrames
      /\ Use \in Pairs /\ Tail(TopFrame.uses) \in Seq(UsesOf(FunNames))
  BY <1>1, UseFacts, Zenon
<1>3. PICK old : old = TopFrame
  OBVIOUS
<1>4. PICK top : top = [TopFrame EXCEPT !.uses = Tail(@), !.calls = Append(@, call)]
  OBVIOUS
<1>5. top = [old EXCEPT !.uses = Tail(old.uses), !.calls = Append(old.calls, call)]
  BY <1>3, <1>4, Zenon
<1>6. old \in BodyFrames /\ old = stack[Len(stack)] /\ old.uses # <<>> /\ old.name = name
  BY <1>2, <1>3 DEF Walking
<1>7. /\ top.kind = old.kind /\ top.name = name /\ top.tripped_before = old.tripped_before
      /\ top.uses = Tail(old.uses) /\ top.calls = Append(old.calls, call) /\ old.kind # "trip"
      /\ old.uses \in Seq(UsesOf(FunNames)) /\ old.calls \in Seq(Calls)
  BY <1>5, <1>6 DEF BodyFrames
<1>8. st = [stack EXCEPT ![Len(stack)] = top]
  <2>1. top = [TopFrame EXCEPT !.uses = Tail(@),
                                  !.calls = Append(@, [to |-> to, at |-> Use, how |-> how])]
    BY <1>4, Zenon
  <2> QED
    BY <2>1, Zenon DEF Answered
<1>9. stack \in Seq(StackFrames)
  BY <1>1 DEF Frames
<1>10. Listed(stack, old)
  <2>1. Len(stack) \in 1 .. Len(stack)
    BY <1>2
  <2> QED
    BY <1>6, <2>1, Zenon DEF Listed
<1>11. ProperFrame(old)
  BY <1>10, Zenon DEF CallsInv
<1>12. UsesFit(top)
  <2>1. UsesFit(old)
    BY <1>7, <1>11, Zenon DEF ProperFrame
  <2>2. \A i \in 1 .. Len(top.uses) : i + 1 \in 1 .. Len(old.uses) /\ top.uses[i] = old.uses[i + 1]
    BY <1>6, <1>7
  <2> QED
    BY <1>6, <1>7, <2>1, <2>2, Zenon DEF UsesFit
<1>13. AllFit(name, top.calls)'
  <2>1. AllFit(name, old.calls)
    BY <1>6, <1>7, <1>11, Zenon DEF ProperFrame
  <2>2. AllFit(name, old.calls)'
    BY <2>1, FitsStay DEF MoreFlags
  <2>3. PICK calls : calls = top.calls
    OBVIOUS
  <2>4. \A k \in 1 .. Len(calls) : (k \in 1 .. Len(old.calls) /\ calls[k] = old.calls[k]) \/ calls[k] = call
    BY <1>7, <2>3
  <2>5. \A k \in 1 .. Len(old.calls) : Fits(name, old.calls[k])'
    BY <2>2 DEF AllFit
  <2>6. \A k \in 1 .. Len(calls) : Fits(name, calls[k])'
    <3> TAKE k \in 1 .. Len(calls)
    <3>1. CASE k \in 1 .. Len(old.calls) /\ calls[k] = old.calls[k]
      <4>1. Fits(name, old.calls[k])'
        BY <2>5, <3>1
      <4> QED
        BY <3>1, <4>1, Zenon
    <3>2. CASE calls[k] = call
      BY <3>2, Zenon
    <3> QED
      BY <2>4, <3>1, <3>2
  <2>7. AllFit(name, calls)'
    BY <2>6, Zenon DEF AllFit
  <2> QED
    BY <2>3, <2>7, Zenon
<1>14. ProperFrame(top)'
  <2>1. top.kind # "trip" => AllFit(top.name, top.calls)'
    BY <1>7, <1>13, Zenon
  <2> QED
    BY <1>6, <1>7, <1>10, <1>12, <2>1, FrameStays, Zenon
<1>15. ASSUME NEW fr, Listed(st, fr)
       PROVE  Listed(stack, fr) \/ ProperFrame(fr)'
  <2>1. fr = top \/ \E i \in 1 .. Len(stack) : i # Len(stack) /\ stack[i] = fr
    <3>1. Len(st) = Len(stack) /\ \A i \in 1 .. Len(stack) : st[i] = IF i = Len(stack) THEN top ELSE stack[i]
      BY <1>2, <1>8, <1>9
    <3> QED
      BY <1>15, <3>1, Zenon DEF Listed
  <2>2. CASE fr = top
    BY <1>14, <2>2, Zenon
  <2> QED
    BY <2>1, <2>2, Zenon DEF Listed
<1>16. Alike(st, stack)
  BY <1>1, AnsweredIs, Zenon
<1>17. \A n : (DictIn(st, n) <=> DictIn(stack, n)) /\ (WalkedIn(st, n) <=> WalkedIn(stack, n))
  BY <1>16, AlikeDict, AlikeFacts, Zenon
<1> QED
  BY <1>15, <1>17, Zenon

\* A trip with less to decide.
LEMMA HandledFits ==
    ASSUME MonoInv, CallsInv, Tripping, MoreFlags, NEW name \in TopFrame.purged, NEW st, st = Handled(name)
    PROVE  /\ \A fr : Listed(st, fr) => Listed(stack, fr) \/ ProperFrame(fr)'
           /\ \A n : /\ DictIn(st, n) <=> DictIn(stack, n)
                     /\ WalkedIn(st, n) <=> WalkedIn(stack, n)
           /\ ~LiveName(name)
<1>1. Frames
  BY DEF MonoInv
<1>2. stack \in Seq(StackFrames) /\ stack # <<>> /\ TopFrame.kind = "trip"
  BY <1>1 DEF Frames, Tripping
<1>3. TopFrame = stack[Len(stack)] /\ Len(stack) \in Nat \ {0} /\ TopFrame \in StackFrames
  BY <1>2, TopAndBelow, Zenon DEF TopFrame
<1>4. PICK old, top : old = TopFrame /\ top = [old EXCEPT !.purged = old.purged \ {name}]
  OBVIOUS
<1>5. old \in TripFrames
  BY <1>2, <1>3, <1>4 DEF StackFrames, BodyFrames
<1>6. top.kind = "trip" /\ old.kind = "trip" /\ top.purged \subseteq old.purged
  BY <1>2, <1>4, <1>5 DEF TripFrames
<1>7. st = [stack EXCEPT ![Len(stack)] = top]
  BY <1>3, <1>4, Zenon DEF Handled
<1>8. Listed(stack, old)
  <2>1. Len(stack) \in 1 .. Len(stack)
    BY <1>3
  <2> QED
    BY <1>3, <1>4, <2>1, Zenon DEF Listed
<1>9. ProperFrame(top)'
  <2>1. top.kind = old.kind /\ ~(top.kind # "trip")
    BY <1>6
  <2> QED
    BY <1>6, <1>8, <2>1, FrameStays, Zenon
<1>10. ASSUME NEW fr, Listed(st, fr)
       PROVE  Listed(stack, fr) \/ ProperFrame(fr)'
  <2>1. fr = top \/ \E i \in 1 .. Len(stack) : i # Len(stack) /\ stack[i] = fr
    <3>1. Len(st) = Len(stack) /\ \A i \in 1 .. Len(stack) : st[i] = IF i = Len(stack) THEN top ELSE stack[i]
      BY <1>2, <1>3, <1>7
    <3> QED
      BY <1>10, <3>1, Zenon DEF Listed
  <2>2. CASE fr = top
    BY <1>9, <2>2, Zenon
  <2> QED
    BY <2>1, <2>2, Zenon DEF Listed
<1>11. Alike(st, stack)
  BY <1>1, HandledIs, Zenon
<1>12. \A n : (DictIn(st, n) <=> DictIn(stack, n)) /\ (WalkedIn(st, n) <=> WalkedIn(stack, n))
  BY <1>11, AlikeDict, AlikeFacts, Zenon
<1>13. ~LiveName(name)
  <2>1. ProperFrame(old)
    BY <1>8, Zenon DEF CallsInv
  <2> QED
    BY <1>4, <1>6, <2>1, Zenon DEF ProperFrame
<1> QED
  BY <1>10, <1>12, <1>13, Zenon

-------------------------------------------------------------------------------
(* Copies *)

\* A use is answered by a copy of the arrows it has, and by a live one only if that
\* takes dictionaries.
LEMMA WantedFits ==
    ASSUME MonoInv, Walking
    PROVE  /\ Arity(Wanted) = Arrows(Fun, Use)
           /\ Wants /\ LiveName(Wanted) => DictPassing(Fun)
<1>1. Frames /\ CopiesTyped
  BY DEF MonoInv
<1>2. Wanted.fun = Fun /\ Wanted.copy /\ Use \in Pairs
  BY <1>1, WantedFacts, UseFacts, Zenon
<1>3. Wanted.at = IF DictPassing(Fun) \/ Shared(Fun) THEN Shape(Fun, Use) ELSE Canonical(Use)
  BY NameFacts, Zenon DEF Wanted
<1>4. Arity(Wanted) = Arrows(Fun, Wanted.at)
  BY <1>2, Zenon DEF Arity
<1>5. Arrows(Fun, Wanted.at) = Arrows(Fun, Use)
  BY <1>2, <1>3, ShapeArrows, CanonicalFacts, Zenon
<1>6. ASSUME Wants, LiveName(Wanted), ~DictPassing(Fun)
      PROVE  FALSE
  <2>1. Live(Fun, Wanted.at) /\ Constrained(Fun)
    BY <1>2, <1>6, Zenon DEF LiveName, Live
  <2>2. ~Shared(Fun)
    BY <1>1, <2>1 DEF CopiesTyped, Shared, Constrained
  <2>3. ~Live(Fun, Use)
    BY <1>6, <2>2, Zenon DEF Wants
  <2> QED
    BY <1>2, <1>3, <1>6, <2>1, <2>2, <2>3, CanonicalFacts, Zenon
<1> QED
  BY <1>4, <1>5, <1>6, Zenon

\* What is flagged for a new copy is the copy.
LEMMA NewCopyFlags ==
    ASSUME MonoInv, NEW name \in NameSet, New(name),
           NEW below \in Seq(StackFrames), Alike(below, stack), NewCopy(name, below),
           UNCHANGED <<compiled, schedule, result_fns, arity_only_fns, dict_passing_counts>>,
           errors \subseteq errors'
    PROVE  MoreFlags /\ ~DefinedAs(name) /\ specializations' = specializations \cup {name}
<1>1. ~DefinedAs(name) /\ dict_passing_fns \subseteq dict_passing_fns'
      /\ specializations' = specializations \cup {name}
  BY HandsOut, Zenon
<1>2. dict_passing_fns' = dict_passing_fns \/ dict_passing_fns' = dict_passing_fns \cup {name}
  BY DEF NewCopy, DictCopy
<1>3. \A n \in dict_passing_fns' : n \in dict_passing_fns \/ ~n.copy \/ ~DefinedAs(n)
  BY <1>1, <1>2
<1> QED
  BY <1>1, <1>3 DEF MoreFlags

LEMMA NewCopyKept ==
    ASSUME MonoInv, CallsInv, stack # <<>>, NEW name \in NameSet, New(name),
           LiveName(name) => DictPassing(name.fun),
           NEW below \in Seq(StackFrames), Alike(below, stack), NewCopy(name, below),
           UNCHANGED <<compiled, schedule, result_fns, arity_only_fns, dict_passing_counts>>,
           errors \subseteq errors',
           \A fr : Listed(below, fr) => Listed(stack, fr) \/ ProperFrame(fr)',
           \A n : DictIn(below, n) <=> DictIn(stack, n),
           \A n : WalkedIn(below, n) <=> WalkedIn(stack, n),
           \A n, to : Replacement(n, to)' => Replacement(n, to) \/ Redirected(n, to)'
    PROVE  CallsInv'
<1>1. MoreFlags /\ ~DefinedAs(name) /\ specializations' = specializations \cup {name}
  BY NewCopyFlags, Zenon
<1>2. CopiesTyped /\ Frames /\ Shapes /\ name.copy
  BY DEF MonoInv, New
<1>3. /\ compiled' = compiled /\ phase' = phase /\ result_fns' = result_fns
      /\ dict_passing_counts' = dict_passing_counts
  BY DEF schedule
<1>4. \A n : LiveName(n)' <=> LiveName(n)
  BY <1>3, SameCalls, Zenon
<1>5. phase # "done"
  BY Zenon DEF CallsInv, Phased
<1>6. generated \in Seq(FunctionSet)
  BY <1>2 DEF CopiesTyped
<1>7. CASE DictPassing(name.fun)
  <2>1. /\ dict_passing_fns' = dict_passing_fns \cup {name} /\ stack' = below
        /\ generated' = Append(generated, Function(name, <<>>, "raw"))
    BY <1>7, Zenon DEF NewCopy, DictCopy
  <2>2. PICK raw : raw = Function(name, <<>>, "raw")
    OBVIOUS
  <2>3. raw.name = name /\ raw.calls = <<>> /\ raw.form = "raw"
    BY <2>2 DEF Function
  <2>4. raw \in FunctionSet
    <3>1. <<>> \in Seq(Calls)
      OBVIOUS
    <3> QED
      BY <2>2, <3>1 DEF Function, FunctionSet
  <2>5. \A fn : Listed(generated', fn) => Listed(generated, fn) \/ fn = raw
    BY <1>6, <2>1, <2>2, <2>4, ListedMore, Zenon
  <2>6. Proper(raw)'
    <3>1. AllFit(name, <<>>)'
      BY NoCallsFit, Zenon
    <3>2. AllFit(raw.name, raw.calls)'
      BY <2>3, <3>1, Zenon
    <3>3. raw.name \in dict_passing_fns'
      BY <2>1, <2>3
    <3>4. phase' # "done" /\ raw.form # "dict" /\ raw.form # "plain"
      BY <1>3, <1>5, <2>3
    <3> QED
      BY <2>3, <3>2, <3>3, <3>4, Zenon DEF Proper
  <2>7. \A s \in specializations' : s \in specializations \/ (LiveName(s) => s \in dict_passing_fns')
    BY <1>1, <2>1
  <2>8. \A fn : Listed(result_fns', fn) \/ Listed(generated', fn) =>
               \/ /\ Listed(result_fns, fn) \/ Listed(generated, fn)
                  /\ DictIn(stack, fn.name) => DictIn(stack', fn.name)
               \/ Proper(fn)'
    <3> TAKE fn
    <3>1. CASE fn = raw
      BY <2>6, <3>1, Zenon
    <3> QED
      BY <1>3, <2>1, <2>5, <3>1, Zenon
  <2>9. \A fn : Listed(generated', fn) => Listed(generated, fn) \/ fn.name.copy
    BY <1>2, <2>3, <2>5
  <2> QED
    BY <1>1, <1>3, <2>1, <2>7, <2>8, <2>9, CallsKept, Zenon
<1>8. CASE ~DictPassing(name.fun)
  <2>1. PICK act : act = Activation("copy", name)
    OBVIOUS
  <2>2. /\ dict_passing_fns' = dict_passing_fns /\ generated' = generated
        /\ stack' = Append(below, act)
    BY <1>8, <2>1, Zenon DEF NewCopy
  <2>3. /\ act.kind = "copy" /\ act.name = name /\ act.calls = <<>> /\ UsesFit(act)
        /\ act \in BodyFrames
    BY <1>2, <2>1, ActivationFits, Zenon
  <2>4. act \in StackFrames
    BY <2>3 DEF StackFrames
  <2>5. ~LiveName(name) /\ name \notin dict_passing_fns
    <3>1. ASSUME name \in dict_passing_fns
          PROVE  FALSE
      <4>1. Hole(name) /\ Constrained(name.fun)
        BY <1>2, <3>1 DEF Shapes, CopiesTyped
      <4>2. Shared(name.fun)
        BY <1>8, <4>1, Zenon DEF New
      <4> QED
        BY <1>2, <4>1, <4>2 DEF CopiesTyped, Shared, Constrained
    <3> QED
      BY <1>8, <3>1
  <2>6. ProperFrame(act)'
    <3>1. AllFit(name, <<>>)'
      BY NoCallsFit, Zenon
    <3>2. AllFit(act.name, act.calls)'
      BY <2>3, <3>1, Zenon
    <3>3. UsesFit(act)'
      BY <1>3, <2>3, SameCalls, Zenon
    <3>4. act.name \notin dict_passing_fns' /\ ~LiveName(act.name)'
      BY <1>4, <2>2, <2>3, <2>5, Zenon
    <3>5. act.kind # "original" /\ act.kind # "dict" /\ act.kind # "trip"
      BY <2>3
    <3> QED
      BY <3>2, <3>3, <3>4, <3>5, Zenon DEF ProperFrame
  <2>7. \A fr : Listed(stack', fr) => Listed(stack, fr) \/ ProperFrame(fr)'
    <3>1. \A fr : Listed(stack', fr) => Listed(below, fr) \/ fr = act
      BY <2>2, <2>4, ListedMore, Zenon
    <3> TAKE fr
    <3>2. CASE fr = act
      BY <2>6, <3>2, Zenon
    <3> QED
      BY <3>1, <3>2, Zenon
  <2>8. \A n : DictIn(stack, n) => DictIn(stack', n)
    BY <2>2, <2>4, PushedDict, Zenon
  <2>9. \A n : WalkedIn(stack, n) => WalkedIn(stack', n)
    BY <2>2, <2>4, Pushed, Zenon
  <2>10. \A s \in specializations' : s \in specializations \/ (LiveName(s) => s \in dict_passing_fns')
    BY <1>1, <2>5
  <2> QED
    BY <1>1, <1>3, <2>2, <2>7, <2>8, <2>9, <2>10, CallsKept, Zenon
<1> QED
  BY <1>7, <1>8

-------------------------------------------------------------------------------
(* Uses *)

\* A use is answered by a call that fits.
LEMMA AnswersKept ==
    ASSUME MonoInv, CallsInv, Walking, NEW to \in NameSet, NEW how \in {"name", "dicts"},
           stack' = Answered(to, how), NEW name, name = TopFrame.name,
           NEW call, call = [to |-> to, at |-> Use, how |-> how], Fits(name, call)',
           UNCHANGED <<compiled, schedule, copies, result_fns, arity_only_fns, dict_passing_counts, served>>,
           errors \subseteq errors', dict_passing_fns \subseteq dict_passing_fns',
           \A n \in dict_passing_fns' : n \in dict_passing_fns \/ ~n.copy
    PROVE  CallsInv'
<1>1. MoreFlags
  BY DEF MoreFlags
<1>2. /\ stack # <<>> /\ specializations' = specializations /\ generated' = generated
      /\ result_fns' = result_fns /\ purged_specs' = purged_specs
  BY DEF Walking, copies, served
<1>3. PICK st : st = Answered(to, how)
  OBVIOUS
<1>4. /\ \A fr : Listed(st, fr) => Listed(stack, fr) \/ ProperFrame(fr)'
      /\ \A n : /\ DictIn(st, n) <=> DictIn(stack, n)
                /\ WalkedIn(st, n) <=> WalkedIn(stack, n)
  BY <1>1, <1>3, AnsweredFits
<1>5. \A n, x : Replacement(n, x)' => Replacement(n, x)
  BY <1>2 DEF Replacement
<1>6. stack' = st
  BY <1>3, Zenon
<1> QED
  BY <1>1, <1>2, <1>4, <1>5, <1>6, CallsKept, Zenon

LEMMA UseHiddenKept == ASSUME MonoInv, CallsInv, UseHidden PROVE CallsInv'
<1>1. Frames /\ Walking
  BY DEF MonoInv, UseHidden
<1>2. Fun \in FunNames
  BY <1>1, UseFacts, Zenon
<1>3. PICK to, name, call :
          /\ to = Original(Fun) /\ name = TopFrame.name
          /\ call = [to |-> to, at |-> Use, how |-> "dicts"]
  OBVIOUS
<1>4. to \in NameSet /\ ~to.copy
  BY <1>2, <1>3, NameFacts, Zenon
<1>5. dict_passing_fns' = dict_passing_fns \cup {to} /\ stack' = Answered(to, "dicts")
  BY <1>3, Zenon DEF UseHidden
<1>6. call.how = "dicts" /\ call.to = to
  BY <1>3
<1>7. Fits(name, call)'
  BY <1>5, <1>6 DEF Fits
<1>8. UNCHANGED <<compiled, schedule, copies, result_fns, arity_only_fns, dict_passing_counts, served>>
      /\ errors' = errors
  BY DEF UseHidden, reports
<1> QED
  BY <1>1, <1>3, <1>4, <1>5, <1>7, <1>8, AnswersKept

LEMMA UseByNameKept == ASSUME MonoInv, CallsInv, UseByName PROVE CallsInv'
<1>1. Frames /\ Walking
  BY DEF MonoInv, UseByName
<1>2. Fun \in FunNames /\ Use \in Pairs /\ TopFrame = stack[Len(stack)] /\ Len(stack) \in Nat \ {0}
  BY <1>1, UseFacts, Zenon
<1>3. PICK f, at, to, name, call :
          /\ f = Fun /\ at = Use /\ to = Original(f) /\ name = TopFrame.name
          /\ call = [to |-> to, at |-> at, how |-> "name"]
  OBVIOUS
<1>4. to \in NameSet /\ ~to.copy /\ to.fun = f /\ at \in Pairs
  BY <1>2, <1>3, NameFacts, Zenon
<1>5. call.how = "name" /\ call.to = to /\ call.at = at
  BY <1>3
<1>6. IF DictPassing(f) THEN ~Widening(f, at) ELSE Live(f, at) \/ (Shared(f) /\ ~Widening(f, at))
  BY <1>3, Zenon DEF UseByName
<1>7. ~Widening(f, at) => Arrows(f, at) = 0
  BY <1>4, ArrowsNatural DEF Widening
<1>8. Live(f, at) => LiveName(name)
  <2>1. Listed(stack, TopFrame)
    <3>1. Len(stack) \in 1 .. Len(stack)
      BY <1>2
    <3> QED
      BY <1>2, <3>1, Zenon DEF Listed
  <2>2. ProperFrame(TopFrame)
    BY <2>1, Zenon DEF CallsInv
  <2> QED
    BY <1>1, <1>3, <2>2, LiveUse, Zenon
<1>9. Fits(name, call)
  BY <1>3, <1>4, <1>5, <1>6, <1>7, <1>8, Zenon DEF Fits, LiveCall, DictPassing
<1>10. /\ UNCHANGED <<compiled, schedule, copies, result_fns, flags, served, reports>>
       /\ UNCHANGED <<arity_only_fns, dict_passing_counts, dict_passing_fns, errors>>
       /\ compiled' = compiled
  BY DEF UseByName, flags, reports
<1>11. Fits(name, call)'
  BY <1>9, <1>10, FitsStay
<1>12. stack' = Answered(to, "name")
  BY <1>3, Zenon DEF UseByName
<1> QED
  BY <1>1, <1>3, <1>4, <1>10, <1>11, <1>12, AnswersKept

LEMMA UseExistingKept == ASSUME MonoInv, CallsInv, UseExisting PROVE CallsInv'
<1>1. Frames /\ Walking
  BY DEF MonoInv, UseExisting, Wants
<1>2. PICK f, at, to, name, call :
          /\ f = Fun /\ at = Use /\ to = Wanted /\ name = TopFrame.name
          /\ call = [to |-> to, at |-> at, how |-> "name"]
  OBVIOUS
<1>3. to \in NameSet /\ to.copy /\ to.fun = f /\ Arity(to) = Arrows(f, at)
  BY <1>1, <1>2, WantedFacts, WantedFits, Zenon
<1>4. call.how = "name" /\ call.to = to /\ call.at = at
  BY <1>2
<1>5. Fits(name, call)
  BY <1>3, <1>4, Zenon DEF Fits
<1>6. /\ UNCHANGED <<compiled, schedule, copies, result_fns, flags, served, reports>>
      /\ UNCHANGED <<arity_only_fns, dict_passing_counts, dict_passing_fns, errors>>
      /\ compiled' = compiled
  BY DEF UseExisting, flags, reports
<1>7. Fits(name, call)'
  BY <1>5, <1>6, FitsStay
<1>8. stack' = Answered(to, "name")
  BY <1>2, Zenon DEF UseExisting
<1> QED
  BY <1>1, <1>2, <1>3, <1>6, <1>7, <1>8, AnswersKept

LEMMA UseExhaustedKept == ASSUME MonoInv, CallsInv, UseExhausted PROVE CallsInv'
<1>1. Frames /\ Walking
  BY DEF MonoInv, UseExhausted, Wants
<1>2. Fun \in FunNames
  BY <1>1, UseFacts, Zenon
<1>3. PICK f, at, to, name, call :
          /\ f = Fun /\ at = Use /\ to = Original(f) /\ name = TopFrame.name
          /\ call = [to |-> to, at |-> at, how |-> "name"]
  OBVIOUS
<1>4. to \in NameSet /\ ~to.copy /\ to.fun = f
  BY <1>2, <1>3, NameFacts, Zenon
<1>5. call.how = "name" /\ call.to = to /\ call.at = at
  BY <1>3
<1>6. /\ UNCHANGED <<compiled, schedule, copies, result_fns, flags, served>>
      /\ UNCHANGED <<arity_only_fns, dict_passing_counts, dict_passing_fns>>
      /\ errors' = errors \cup {f} /\ stack' = Answered(to, "name") /\ compiled' = compiled
  BY <1>3, Zenon DEF UseExhausted, flags
<1>7. to = Original(f)'
  BY <1>3, <1>6, Same, Zenon
<1>8. f \in errors'
  BY <1>6
<1>9. Fits(name, call)'
  BY <1>4, <1>5, <1>7, <1>8, Zenon DEF Fits
<1>10. errors \subseteq errors'
  BY <1>6
<1> QED
  BY <1>1, <1>3, <1>4, <1>6, <1>9, <1>10, AnswersKept

LEMMA UseNewKept == ASSUME MonoInv, CallsInv, UseNew PROVE CallsInv'
<1>1. Frames /\ Walking /\ Wants
  BY DEF MonoInv, UseNew, Wants
<1>2. PICK f, at, to, name, call, below :
          /\ f = Fun /\ at = Use /\ to = Wanted /\ name = TopFrame.name
          /\ call = [to |-> to, at |-> at, how |-> "name"] /\ below = Answered(Wanted, "name")
  OBVIOUS
<1>3. to \in NameSet /\ to.copy /\ to.fun = f /\ Arity(to) = Arrows(f, at)
  BY <1>1, <1>2, WantedFacts, WantedFits, Zenon
<1>4. New(to) /\ (LiveName(to) => DictPassing(to.fun))
  BY <1>1, <1>2, <1>3, WantedIsNew, WantedFits, Zenon
<1>5. /\ below \in Seq(StackFrames) /\ Alike(below, stack)
  BY <1>1, <1>2, <1>3, AnsweredIs, Zenon
<1>6. NewCopy(to, below)
  BY <1>2, Zenon DEF UseNew
<1>7. /\ UNCHANGED <<compiled, schedule, result_fns, arity_only_fns, dict_passing_counts>>
      /\ errors' = errors /\ compiled' = compiled
  BY DEF UseNew, reports
<1>8. MoreFlags
  BY <1>3, <1>4, <1>5, <1>6, <1>7, NewCopyFlags
<1>9. call.how = "name" /\ call.to = to /\ call.at = at
  BY <1>2
<1>10. Fits(name, call)
  BY <1>3, <1>9, Zenon DEF Fits
<1>11. Fits(name, call)'
  BY <1>8, <1>10, FitsStay DEF MoreFlags
<1>12. /\ \A fr : Listed(below, fr) => Listed(stack, fr) \/ ProperFrame(fr)'
       /\ \A n : DictIn(below, n) <=> DictIn(stack, n)
       /\ \A n : WalkedIn(below, n) <=> WalkedIn(stack, n)
  BY <1>1, <1>2, <1>3, <1>8, <1>11, AnsweredFits
<1>13. \A n, x : Replacement(n, x)' => Replacement(n, x)
  <2>1. purged_specs' = [n \in DOMAIN purged_specs \ {to} |-> purged_specs[n]]
    BY <1>2 DEF UseNew, Reborn, Restrict
  <2> QED
    BY <2>1 DEF Replacement
<1>14. stack # <<>>
  BY <1>1 DEF Walking
<1> QED
  BY <1>3, <1>4, <1>5, <1>6, <1>7, <1>12, <1>13, <1>14, NewCopyKept, Zenon

-------------------------------------------------------------------------------
(* Trips *)

LEMMA TripDoneKept == ASSUME MonoInv, CallsInv, TripDone PROVE CallsInv'
<1>1. Frames /\ stack # <<>> /\ TopFrame.kind = "trip" /\ stack' = Front(stack)
  BY DEF MonoInv, TripDone, Tripping
<1>2. /\ specializations' = specializations /\ generated' = generated /\ result_fns' = result_fns
      /\ purged_specs' = purged_specs /\ UNCHANGED <<compiled, schedule>>
      /\ dict_passing_fns' = dict_passing_fns /\ arity_only_fns' = arity_only_fns
      /\ dict_passing_counts' = dict_passing_counts /\ errors' = errors
  BY DEF TripDone, copies, served, flags, reports
<1>3. MoreFlags
  BY <1>2 DEF MoreFlags
<1>4. \A n : (DictIn(stack, n) <=> DictIn(stack', n)) /\ (WalkedIn(stack, n) <=> WalkedIn(stack', n))
  <2>1. \A n : DictIn(stack, n) <=> DictIn(Front(stack), n) \/ (TopFrame.kind = "dict" /\ TopFrame.name = n)
    BY <1>1, PoppedDict, Zenon
  <2>2. \A n : WalkedIn(stack, n) <=> WalkedIn(Front(stack), n) \/ (TopFrame.kind = "original" /\ TopFrame.name = n)
    BY <1>1, Pops, Zenon
  <2>3. TopFrame.kind # "dict" /\ TopFrame.kind # "original"
    BY <1>1
  <2> QED
    BY <1>1, <2>1, <2>2, <2>3, Zenon
<1>5. \A fr : Listed(stack', fr) => Listed(stack, fr)
  <2>1. stack \in Seq(StackFrames)
    BY <1>1 DEF Frames
  <2> QED
    BY <1>1, <2>1, ListedFront, Zenon
<1>6. \A n, x : Replacement(n, x)' => Replacement(n, x)
  BY <1>2 DEF Replacement
<1> QED
  BY <1>1, <1>2, <1>3, <1>4, <1>5, <1>6, CallsKept, Zenon

LEMMA UseTripsKept == ASSUME MonoInv, CallsInv, UseTrips PROVE CallsInv'
<1>1. Frames /\ Walking /\ CopiesTyped /\ Shapes
  BY DEF MonoInv, UseTrips, Wants
<1>2. Fun \in FunNames
  BY <1>1, UseFacts, Zenon
<1>3. PICK f, orig, trip, gone :
          /\ f = Fun /\ orig = Original(f) /\ gone = SpecsOf(Fun)
          /\ trip = [kind |-> "trip", fun |-> Fun, purged |-> SpecsOf(Fun), gone |-> Gone(Fun)]
  OBVIOUS
<1>4. /\ ~Shared(f) /\ ~DictPassing(f) /\ f \in FunNames /\ ~orig.copy
      /\ generated' = Retained(generated, gone) /\ stack' = Append(stack, trip)
      /\ specializations' = specializations \ gone
  BY <1>2, <1>3, NameFacts, Zenon DEF UseTrips
<1>5. trip.kind = "trip" /\ trip.purged = gone
  BY <1>3
<1>6. /\ result_fns' = result_fns /\ purged_specs' = purged_specs /\ UNCHANGED <<compiled, schedule>>
      /\ errors' = errors /\ compiled' = compiled
      /\ dict_passing_counts' = dict_passing_counts \cup {f}
      /\ \/ dict_passing_fns' = dict_passing_fns \cup {orig} /\ arity_only_fns' = arity_only_fns
         \/ arity_only_fns' = arity_only_fns \cup {f} /\ dict_passing_fns' = dict_passing_fns
  BY <1>3 DEF UseTrips, served, reports
<1>7. MoreFlags
  BY <1>4, <1>6 DEF MoreFlags
<1>8. \A n \in gone : ~LiveName(n)
  <2> SUFFICES ASSUME NEW n \in gone, LiveName(n)
               PROVE  FALSE
    OBVIOUS
  <2>1. n \in specializations /\ n.fun = f
    BY <1>3 DEF SpecsOf
  <2>2. n \in dict_passing_fns /\ n.copy
    BY <1>1, <2>1 DEF CallsInv, CopiesTyped
  <2>3. Hole(n)
    BY <1>1, <2>2 DEF Shapes
  <2>4. Shared(f) \/ DictPassing(f)
    BY <1>1, <2>1, <2>3, Zenon DEF Shapes
  <2> QED
    BY <1>4, <2>4
<1>9. trip \in StackFrames /\ stack \in Seq(StackFrames)
  <2>1. SpecsOf(Fun) \subseteq NameSet /\ Gone(Fun) \subseteq NameSet
    BY <1>1 DEF SpecsOf, CopiesTyped, Gone
  <2>2. PICK purged, undone : purged = SpecsOf(Fun) /\ undone = Gone(Fun)
    OBVIOUS
  <2>3. trip = [kind |-> "trip", fun |-> f, purged |-> purged, gone |-> undone]
    BY <1>3, <2>2, Zenon
  <2>4. trip \in TripFrames
    BY <1>4, <2>1, <2>2, <2>3 DEF TripFrames
  <2> QED
    BY <1>1, <2>4 DEF StackFrames, Frames
<1>10. ProperFrame(trip)'
  <2>1. \A n : LiveName(n)' <=> LiveName(n)
    BY <1>6, SameCalls, Zenon
  <2>2. \A n \in trip.purged : ~LiveName(n)'
    BY <1>5, <1>8, <2>1, Zenon
  <2>3. ~(trip.kind # "trip") /\ trip.kind # "original" /\ trip.kind # "dict" /\ trip.kind # "copy"
    BY <1>5
  <2>4. ~Makes(trip, dict_passing_counts')
    BY <2>3 DEF Makes
  <2> QED
    BY <2>2, <2>3, <2>4, Zenon DEF ProperFrame
<1>11. \A fr : Listed(stack', fr) => Listed(stack, fr) \/ ProperFrame(fr)'
  <2>1. \A fr : Listed(stack', fr) => Listed(stack, fr) \/ fr = trip
    BY <1>4, <1>9, ListedMore, Zenon
  <2> TAKE fr
  <2>2. CASE fr = trip
    BY <1>10, <2>2, Zenon
  <2> QED
    BY <2>1, <2>2, Zenon
<1>12. \A n : (DictIn(stack, n) => DictIn(stack', n)) /\ (WalkedIn(stack, n) => WalkedIn(stack', n))
  BY <1>4, <1>9, PushedDict, Pushed, Zenon
<1>13. \A fn : Listed(generated', fn) => Listed(generated, fn)
  <2>1. generated \in Seq(FunctionSet)
    BY <1>1 DEF CopiesTyped
  <2> QED
    BY <1>4, <2>1, ListedRetained, Zenon
<1>14. \A fn : Listed(generated', fn) => Listed(generated, fn) \/ fn.name.copy
  BY <1>13, Zenon
<1>15. \A n, x : Replacement(n, x)' => Replacement(n, x)
  BY <1>6 DEF Replacement
<1>16. stack # <<>> /\ \A s \in specializations' : s \in specializations
  BY <1>1, <1>4 DEF Walking
<1> QED
  BY <1>6, <1>7, <1>11, <1>12, <1>13, <1>14, <1>15, <1>16, CallsKept, Zenon

\* A name is redirected to what takes as many arguments.
LEMMA RedirectsKept ==
    ASSUME MonoInv, CallsInv, Tripping, NEW name \in TopFrame.purged, NEW target,
           Redirected(name, target)',
           stack' = Handled(name), purged_specs' = Led(purged_specs, name, target),
           UNCHANGED <<compiled, schedule, copies, result_fns, flags>>, errors \subseteq errors'
    PROVE  CallsInv'
<1>1. /\ stack # <<>> /\ specializations' = specializations /\ generated' = generated
      /\ result_fns' = result_fns /\ dict_passing_fns' = dict_passing_fns
      /\ arity_only_fns' = arity_only_fns /\ dict_passing_counts' = dict_passing_counts
  BY DEF Tripping, copies, flags
<1>2. MoreFlags
  BY <1>1 DEF MoreFlags
<1>3. PICK st : st = Handled(name)
  OBVIOUS
<1>4. stack' = st
  BY <1>3, Zenon
<1>5. /\ \A fr : Listed(st, fr) => Listed(stack, fr) \/ ProperFrame(fr)'
      /\ \A n : (DictIn(st, n) <=> DictIn(stack, n)) /\ (WalkedIn(st, n) <=> WalkedIn(stack, n))
  BY <1>2, <1>3, HandledFits, Zenon
<1>6. \A n, x : Replacement(n, x)' => Replacement(n, x) \/ Redirected(n, x)'
  <2> TAKE n, x
  <2>1. CASE n = name
    <3>1. purged_specs'[name] = target
      BY DEF Led
    <3>2. Replacement(n, x)' => x = target
      BY <2>1, <3>1, Zenon DEF Replacement
    <3> QED
      BY <2>1, <3>2, Zenon
  <2>2. CASE n # name
    <3>1. n \in DOMAIN purged_specs' => n \in DOMAIN purged_specs /\ purged_specs'[n] = purged_specs[n]
      BY <2>2 DEF Led
    <3> QED
      BY <3>1, Zenon DEF Replacement
  <2> QED
    BY <2>1, <2>2
<1> QED
  BY <1>1, <1>2, <1>4, <1>5, <1>6, CallsKept, Zenon

LEMMA PurgeWideningKept == ASSUME MonoInv, CallsInv, PurgeWidening PROVE CallsInv'
<1>1. CopiesTyped /\ Frames /\ Served /\ Shapes /\ Tripping /\ stack # <<>>
  BY DEF MonoInv, PurgeWidening, Tripping
<1>2. PICK name \in TopFrame.purged :
        /\ Widening(name.fun, name.at)
        /\ LET f == name.fun
               shape == Copy(f, Shape(f, name.at)) IN
           CASE shape \in specializations ->
                    /\ stack' = Handled(name)
                    /\ purged_specs' = Purge(purged_specs, name, shape)
                    /\ UNCHANGED <<copies, dict_passing_fns, errors>>
             [] shape \notin specializations /\ Capped(f) ->
                    /\ stack' = Handled(name)
                    /\ purged_specs' = Purge(purged_specs, name, Original(f))
                    /\ errors' = errors \cup {f}
                    /\ UNCHANGED <<copies, dict_passing_fns>>
             [] OTHER ->
                    /\ NewCopy(shape, Handled(name))
                    /\ purged_specs' = Purge(Reborn(shape), name, shape)
                    /\ UNCHANGED errors
  BY Zenon DEF PurgeWidening
<1>3. PICK f, shape, below : f = name.fun /\ shape = Copy(f, Shape(f, name.at)) /\ below = Handled(name)
  OBVIOUS
<1>4. \/ /\ shape \in specializations /\ stack' = below
         /\ purged_specs' = Purge(purged_specs, name, shape)
         /\ UNCHANGED <<copies, dict_passing_fns, errors>>
      \/ /\ stack' = below
         /\ purged_specs' = Purge(purged_specs, name, Original(f))
         /\ errors' = errors \cup {f}
         /\ UNCHANGED <<copies, dict_passing_fns>>
      \/ /\ shape \notin specializations /\ ~Capped(f)
         /\ NewCopy(shape, below)
         /\ purged_specs' = Purge(Reborn(shape), name, shape)
         /\ UNCHANGED errors
  BY <1>2, <1>3, Zenon
<1>5. /\ UNCHANGED <<compiled, schedule, result_fns, arity_only_fns, dict_passing_counts>>
      /\ compiled' = compiled
  BY Zenon DEF PurgeWidening
<1>6. name \in NameSet /\ Purged(name) /\ below \in Seq(StackFrames) /\ Alike(below, stack)
  BY <1>1, <1>3, TripFacts, Zenon
<1>7. f \in FunNames /\ name.at \in Pairs /\ f \in dict_passing_counts /\ name.copy
  BY <1>3, <1>6, NameFacts, Zenon DEF Purged
<1>8. PICK at : at = Shape(f, name.at)
  OBVIOUS
<1>9. /\ at \in Pairs /\ at.b.leaf = "hole" /\ Shape(f, at) = at /\ Widening(f, at)
      /\ Arrows(f, at) = Arrows(f, name.at)
  BY <1>2, <1>3, <1>7, <1>8, ShapeFacts, ShapeArrows, Zenon
<1>10. /\ shape \in NameSet /\ shape.copy /\ shape.fun = f /\ shape.at = at /\ shape # name
       /\ Arity(shape) = Arity(name)
  <2>1. shape = Copy(f, at)
    BY <1>3, <1>8, Zenon
  <2>2. shape \in NameSet /\ shape.copy /\ shape.fun = f /\ shape.at = at
    BY <1>7, <1>9, <2>1, NameFacts, Zenon
  <2>3. Hole(shape)
    BY <1>9, <2>2 DEF Hole
  <2> QED
    BY <1>3, <1>6, <1>7, <1>9, <2>2, <2>3, Zenon DEF Purged, Arity
<1>11. Original(f) # name /\ Original(f)' = Original(f)
  BY <1>5, <1>7, NameFacts, Same, Zenon
<1>12. \A map, target : target # name => Purge(map, name, target) = Led(map, name, target)
  BY Zenon DEF Purge
<1>13. Redirected(name, shape)'
  <2>1. Arity(shape)' = Arity(name)'
    BY <1>5, <1>10, SameCalls, Zenon
  <2> QED
    BY <1>3, <1>10, <2>1, Zenon DEF Redirected
<1>14. CASE /\ shape \in specializations /\ stack' = below
            /\ purged_specs' = Purge(purged_specs, name, shape)
            /\ UNCHANGED <<copies, dict_passing_fns, errors>>
  <2>1. purged_specs' = Led(purged_specs, name, shape)
    BY <1>10, <1>12, <1>14, Zenon
  <2>2. UNCHANGED flags /\ errors \subseteq errors'
    BY <1>5, <1>14 DEF flags
  <2> QED
    BY <1>1, <1>3, <1>5, <1>13, <1>14, <2>1, <2>2, RedirectsKept
<1>15. CASE /\ stack' = below
            /\ purged_specs' = Purge(purged_specs, name, Original(f))
            /\ errors' = errors \cup {f}
            /\ UNCHANGED <<copies, dict_passing_fns>>
  <2> PICK original : original = Original(f)
    OBVIOUS
  <2>1. purged_specs' = Led(purged_specs, name, original)
    BY <1>11, <1>12, <1>15, Zenon
  <2>2. UNCHANGED flags /\ errors \subseteq errors' /\ f \in errors'
    BY <1>5, <1>15 DEF flags
  <2>3. Redirected(name, original)'
    BY <1>3, <1>11, <2>2, Zenon DEF Redirected
  <2> QED
    BY <1>1, <1>3, <1>5, <1>15, <2>1, <2>2, <2>3, RedirectsKept
<1>16. CASE /\ shape \notin specializations /\ ~Capped(f)
            /\ NewCopy(shape, below)
            /\ purged_specs' = Purge(Reborn(shape), name, shape)
            /\ UNCHANGED errors
  <2>1. DictPassing(f) \/ Shared(f)
    BY <1>1, <1>7, Zenon DEF Served
  <2>2. New(shape)
    <3>1. Hole(shape)
      BY <1>9, <1>10 DEF Hole
    <3> QED
      BY <1>9, <1>10, <1>16, <2>1, <3>1, Zenon DEF New
  <2>3. LiveName(shape) => DictPassing(shape.fun)
    <3>1. LiveName(shape) => Constrained(f)
      BY <1>10, Zenon DEF LiveName, Live
    <3>2. Constrained(f) => ~Shared(f)
      BY <1>1 DEF CopiesTyped, Constrained, Shared
    <3> QED
      BY <1>10, <2>1, <3>1, <3>2, Zenon
  <2>4. MoreFlags
    BY <1>5, <1>6, <1>10, <1>16, <2>2, NewCopyFlags
  <2>5. /\ \A fr : Listed(below, fr) => Listed(stack, fr) \/ ProperFrame(fr)'
        /\ \A n : DictIn(below, n) <=> DictIn(stack, n)
        /\ \A n : WalkedIn(below, n) <=> WalkedIn(stack, n)
    BY <1>1, <1>3, <2>4, HandledFits, Zenon
  <2>6. \A n, x : Replacement(n, x)' => Replacement(n, x) \/ Redirected(n, x)'
    <3>1. PICK map : map = Reborn(shape)
      OBVIOUS
    <3>2. DOMAIN map \subseteq DOMAIN purged_specs /\ \A n \in DOMAIN map : map[n] = purged_specs[n]
      BY <3>1 DEF Reborn, Restrict
    <3>3. purged_specs' = Led(map, name, shape)
      BY <1>10, <1>12, <1>16, <3>1, Zenon
    <3> TAKE n, x
    <3>4. CASE n = name
      <4>1. purged_specs'[name] = shape
        BY <3>3 DEF Led
      <4>2. Replacement(n, x)' => x = shape
        BY <3>4, <4>1, Zenon DEF Replacement
      <4> QED
        BY <1>13, <3>4, <4>2, Zenon
    <3>5. CASE n # name
      <4>1. n \in DOMAIN purged_specs' => n \in DOMAIN map /\ purged_specs'[n] = map[n]
        BY <3>3, <3>5 DEF Led
      <4>2. n \in DOMAIN purged_specs' => n \in DOMAIN purged_specs /\ purged_specs'[n] = purged_specs[n]
        BY <3>2, <4>1
      <4> QED
        BY <4>2, Zenon DEF Replacement
    <3> QED
      BY <3>4, <3>5
  <2>7. errors \subseteq errors'
    BY <1>16
  <2> QED
    BY <1>1, <1>5, <1>6, <1>10, <1>16, <2>2, <2>3, <2>5, <2>6, <2>7, NewCopyKept, Zenon
<1> QED
  BY <1>4, <1>14, <1>15, <1>16

LEMMA PurgePlainKept == ASSUME MonoInv, CallsInv, PurgePlain PROVE CallsInv'
<1>1. CopiesTyped /\ Frames /\ Served /\ Shapes /\ Tripping /\ stack # <<>>
  BY DEF MonoInv, PurgePlain, Tripping
<1>2. PICK name \in TopFrame.purged :
        /\ ~Widening(name.fun, name.at)
        /\ stack' = Handled(name)
        /\ IF Shared(name.fun)
           THEN /\ purged_specs' = Purge(purged_specs, name, Original(name.fun))
                /\ UNCHANGED <<generated, ground_forms>>
           ELSE /\ ground_forms' = ground_forms \cup {name}
                /\ generated' = IF name \in TopFrame.gone \ ground_forms
                                THEN Append(generated, Stub(name)) ELSE generated
                /\ UNCHANGED purged_specs
  BY Zenon DEF PurgePlain
<1>3. /\ UNCHANGED <<compiled, schedule, specializations, result_fns, flags, reports>>
      /\ compiled' = compiled /\ errors' = errors /\ dict_passing_fns' = dict_passing_fns
      /\ arity_only_fns' = arity_only_fns /\ dict_passing_counts' = dict_passing_counts
  BY Zenon DEF PurgePlain, reports, flags
<1>4. name \in NameSet /\ Purged(name)
  BY <1>1, <1>2, TripFacts, Zenon
<1>5. PICK f, original : f = name.fun /\ original = Original(f)
  OBVIOUS
<1>6. /\ f \in FunNames /\ f \in dict_passing_counts /\ name.at \in Pairs /\ name.copy /\ ~Hole(name)
      /\ ~original.copy /\ original.fun = f
  BY <1>4, <1>5, NameFacts, Zenon DEF Purged
<1>7. CASE Shared(f)
  <2>1. purged_specs' = Purge(purged_specs, name, original) /\ generated' = generated
    BY <1>2, <1>5, <1>7, Zenon
  <2>2. purged_specs' = Led(purged_specs, name, original)
    BY <1>6, <2>1, Zenon DEF Purge
  <2>3. Redirected(name, original)
    <3>1. Arity(name) = 0
      <4>1. Arrows(f, name.at) = 0
        BY <1>2, <1>5, <1>6, ArrowsNatural DEF Widening
      <4> QED
        BY <1>5, <1>6, <4>1, Zenon DEF Arity
    <3> QED
      BY <1>5, <1>7, <3>1, Zenon DEF Redirected
  <2>4. Redirected(name, original)'
    BY <1>3, <2>3, FitsStay
  <2>5. UNCHANGED copies /\ errors \subseteq errors'
    BY <1>3, <2>1 DEF copies
  <2> QED
    BY <1>1, <1>2, <1>3, <2>2, <2>4, <2>5, RedirectsKept
<1>8. CASE ~Shared(f)
  <2>1. /\ purged_specs' = purged_specs
        /\ generated' = IF name \in TopFrame.gone \ ground_forms
                        THEN Append(generated, Stub(name)) ELSE generated
    BY <1>2, <1>5, <1>8, Zenon
  <2>2. MoreFlags
    BY <1>3 DEF MoreFlags
  <2>3. PICK st : st = Handled(name)
    OBVIOUS
  <2>4. stack' = st
    BY <1>2, <2>3, Zenon
  <2>5. /\ \A fr : Listed(st, fr) => Listed(stack, fr) \/ ProperFrame(fr)'
        /\ \A n : (DictIn(st, n) <=> DictIn(stack, n)) /\ (WalkedIn(st, n) <=> WalkedIn(stack, n))
        /\ ~LiveName(name)
    BY <1>1, <2>2, <2>3, HandledFits, Zenon
  <2>6. PICK fn, call : fn = Stub(name) /\ call = [to |-> original, at |-> name.at, how |-> "dicts"]
    OBVIOUS
  <2>7. /\ fn.name = name /\ fn.form = "plain" /\ fn.calls = <<call>> /\ fn \in FunctionSet
        /\ call.how = "dicts" /\ call.to = original
    <3>1. fn = [name |-> name, calls |-> <<call>>, form |-> "plain"]
      BY <1>5, <2>6, Zenon DEF Stub, Function
    <3>2. original \in NameSet
      BY <1>5, <1>6, NameFacts, Zenon
    <3>3. call \in Calls
      BY <1>6, <2>6, <3>2 DEF Calls, Pairs
    <3> QED
      BY <1>4, <2>6, <3>1, <3>3 DEF FunctionSet
  <2>8. original \in dict_passing_fns
    BY <1>1, <1>5, <1>6, <1>8, Zenon DEF Served, DictPassing
  <2>9. Proper(fn)'
    <3>1. Fits(name, call)'
      BY <1>3, <2>7, <2>8 DEF Fits
    <3>2. AllFit(fn.name, fn.calls)'
      <4>1. PICK calls : calls = fn.calls
        OBVIOUS
      <4>2. \A k \in 1 .. Len(calls) : calls[k] = call
        BY <2>7, <4>1
      <4>3. \A k \in 1 .. Len(calls) : Fits(name, calls[k])'
        <5> TAKE k \in 1 .. Len(calls)
        <5>1. calls[k] = call
          BY <4>2
        <5> QED
          BY <3>1, <5>1, Zenon
      <4>4. AllFit(name, calls)'
        BY <4>3, Zenon DEF AllFit
      <4> QED
        BY <2>7, <4>1, <4>4, Zenon
    <3>3. ~LiveName(fn.name)'
      <4>1. \A n : LiveName(n)' <=> LiveName(n)
        BY <1>3, SameCalls, Zenon
      <4> QED
        BY <2>5, <2>7, <4>1, Zenon
    <3>4. fn.name \notin dict_passing_fns'
      BY <1>1, <1>3, <1>6, <2>7 DEF Shapes
    <3>5. phase' # "done"
      BY <1>1, <1>3 DEF CallsInv, Phased, schedule
    <3> QED
      BY <2>7, <3>2, <3>3, <3>4, <3>5, Zenon DEF Proper
  <2>10. \A x : Listed(generated', x) => Listed(generated, x) \/ x = fn
    <3>1. generated \in Seq(FunctionSet)
      BY <1>1 DEF CopiesTyped
    <3>2. CASE name \in TopFrame.gone \ ground_forms
      <4>1. generated' = Append(generated, fn)
        BY <2>1, <2>6, <3>2, Zenon
      <4> QED
        BY <2>7, <3>1, <4>1, ListedMore, Zenon
    <3>3. CASE name \notin TopFrame.gone \ ground_forms
      BY <2>1, <3>3, Zenon
    <3> QED
      BY <3>2, <3>3
  <2>11. \A x : Listed(result_fns', x) \/ Listed(generated', x) =>
                    \/ /\ Listed(result_fns, x) \/ Listed(generated, x)
                       /\ DictIn(stack, x.name) => DictIn(stack', x.name)
                    \/ Proper(x)'
    <3> TAKE x
    <3>1. result_fns' = result_fns
      BY <1>3
    <3>2. CASE x = fn
      BY <2>9, <3>2, Zenon
    <3> QED
      BY <2>4, <2>5, <2>10, <3>1, <3>2, Zenon
  <2>12. \A x : Listed(generated', x) => Listed(generated, x) \/ x.name.copy
    BY <1>6, <2>7, <2>10, Zenon
  <2>13. \A n, x : Replacement(n, x)' => Replacement(n, x)
    BY <2>1 DEF Replacement
  <2>14. result_fns' = result_fns /\ specializations' = specializations
    BY <1>3
  <2> QED
    BY <1>1, <2>2, <2>4, <2>5, <2>11, <2>12, <2>13, <2>14, CallsKept, Zenon
<1> QED
  BY <1>7, <1>8

-------------------------------------------------------------------------------
(* The end of a body *)

\* The frame that ends, and what is left of the stack.
LEMMA EndedFits ==
    ASSUME MonoInv, CallsInv, stack # <<>>, TopFrame.kind # "trip", NEW top, top = TopFrame,
           stack' = Front(stack), MoreFlags
    PROVE  /\ top.name \in NameSet /\ top.calls \in Seq(Calls) /\ Listed(stack, top)
           /\ AllFit(top.name, top.calls)'
           /\ \A fr : Listed(stack', fr) => Listed(stack, fr)
           /\ \A n : /\ DictIn(stack, n) <=> DictIn(stack', n) \/ (top.kind = "dict" /\ top.name = n)
                     /\ WalkedIn(stack, n) <=> WalkedIn(stack', n) \/ (top.kind = "original" /\ top.name = n)
<1>1. Frames
  BY DEF MonoInv
<1>2. top \in StackFrames /\ top = stack[Len(stack)] /\ Len(stack) \in Nat \ {0}
      /\ \A n : WalkedIn(stack, n) <=> WalkedIn(stack', n) \/ (top.kind = "original" /\ top.name = n)
  BY <1>1, Pops, Zenon
<1>3. top \in BodyFrames
  BY <1>2 DEF StackFrames, TripFrames
<1>4. top.name \in NameSet /\ top.calls \in Seq(Calls)
  BY <1>3 DEF BodyFrames
<1>5. Listed(stack, top)
  <2>1. Len(stack) \in 1 .. Len(stack)
    BY <1>2
  <2> QED
    BY <1>2, <2>1, Zenon DEF Listed
<1>6. AllFit(top.name, top.calls)'
  <2>1. AllFit(top.name, top.calls)
    BY <1>5, Zenon DEF CallsInv, ProperFrame
  <2> QED
    BY <2>1, FitsStay DEF MoreFlags
<1>7. \A fr : Listed(stack', fr) => Listed(stack, fr)
  <2>1. stack \in Seq(StackFrames)
    BY <1>1 DEF Frames
  <2> QED
    BY <2>1, ListedFront, Zenon
<1>8. \A n : DictIn(stack, n) <=> DictIn(stack', n) \/ (top.kind = "dict" /\ top.name = n)
  BY <1>1, PoppedDict, Zenon
<1> QED
  BY <1>2, <1>4, <1>5, <1>6, <1>7, <1>8, Zenon

LEMMA CopyDoneKept == ASSUME MonoInv, CallsInv, CopyDone PROVE CallsInv'
<1>1. CopiesTyped /\ Frames /\ stack # <<>> /\ TopFrame.kind = "copy"
  BY DEF MonoInv, CopyDone, Walked
<1>2. PICK top, fn : top = TopFrame /\ fn = Function(top.name, top.calls, "plain")
  OBVIOUS
<1>3. /\ stack' = Front(stack) /\ UNCHANGED <<compiled, schedule>> /\ compiled' = compiled
      /\ specializations' = specializations /\ purged_specs' = purged_specs /\ errors' = errors
      /\ dict_passing_fns' = dict_passing_fns /\ result_fns' = result_fns
      /\ arity_only_fns' = arity_only_fns /\ dict_passing_counts' = dict_passing_counts
      /\ generated' = IF Keeps(top) THEN Append(generated, fn) ELSE generated
  BY <1>2 DEF CopyDone, flags, served, reports
<1>4. MoreFlags
  BY <1>3 DEF MoreFlags
<1>5. top.kind = "copy" /\ TopFrame.kind # "trip"
  BY <1>1, <1>2
<1>6. /\ top.name \in NameSet /\ top.calls \in Seq(Calls) /\ Listed(stack, top)
      /\ AllFit(top.name, top.calls)'
      /\ \A fr : Listed(stack', fr) => Listed(stack, fr)
      /\ \A n : /\ DictIn(stack, n) <=> DictIn(stack', n) \/ (top.kind = "dict" /\ top.name = n)
                /\ WalkedIn(stack, n) <=> WalkedIn(stack', n) \/ (top.kind = "original" /\ top.name = n)
  BY <1>1, <1>2, <1>3, <1>4, <1>5, EndedFits, Zenon
<1>7. fn.name = top.name /\ fn.calls = top.calls /\ fn.form = "plain" /\ fn \in FunctionSet
  BY <1>2, <1>6 DEF Function, FunctionSet
<1>8. top.name.copy /\ ProperFrame(top)
  BY <1>5, <1>6, ListedFrame, Zenon
<1>9. Keeps(top) => Proper(fn)'
  <2> SUFFICES ASSUME Keeps(top)
               PROVE  Proper(fn)'
    OBVIOUS
  <2>1. Makes(top, dict_passing_counts)
    BY <1>5 DEF Makes, Keeps
  <2>2. top.name \notin dict_passing_fns' /\ ~LiveName(top.name)
    BY <1>3, <1>8, <2>1, Zenon DEF ProperFrame
  <2>3. ~LiveName(fn.name)'
    <3>1. \A n : LiveName(n)' <=> LiveName(n)
      BY <1>3, SameCalls, Zenon
    <3> QED
      BY <1>7, <2>2, <3>1, Zenon
  <2>4. AllFit(fn.name, fn.calls)'
    BY <1>6, <1>7, Zenon
  <2>5. phase' # "done"
    BY <1>1, <1>3 DEF CallsInv, Phased, schedule
  <2>6. fn.name \notin dict_passing_fns'
    BY <1>7, <2>2
  <2> QED
    BY <1>7, <2>3, <2>4, <2>5, <2>6, Zenon DEF Proper
<1>10. \A x : Listed(generated', x) => Listed(generated, x) \/ (x = fn /\ Proper(fn)')
  <2>1. generated \in Seq(FunctionSet)
    BY <1>1 DEF CopiesTyped
  <2>2. CASE Keeps(top)
    <3>1. generated' = Append(generated, fn)
      BY <1>3, <2>2
    <3> QED
      BY <1>7, <1>9, <2>1, <2>2, <3>1, ListedMore, Zenon
  <2>3. CASE ~Keeps(top)
    BY <1>3, <2>3, Zenon
  <2> QED
    BY <2>2, <2>3
<1>11. \A n : (DictIn(stack, n) <=> DictIn(stack', n)) /\ (WalkedIn(stack, n) <=> WalkedIn(stack', n))
  <2>1. top.kind # "dict" /\ top.kind # "original"
    BY <1>5
  <2> QED
    BY <1>6, <2>1, Zenon
<1>12. \A x : Listed(result_fns', x) \/ Listed(generated', x) =>
           \/ /\ Listed(result_fns, x) \/ Listed(generated, x)
              /\ ~x.name.copy /\ DictIn(stack, x.name) => DictIn(stack', x.name)
           \/ Proper(x)'
  <2> TAKE x
  <2>1. CASE x = fn /\ Proper(fn)'
    BY <2>1, Zenon
  <2> QED
    BY <1>3, <1>10, <1>11, <2>1, Zenon
<1>13. \A x : Listed(generated', x) => Listed(generated, x) \/ x.name.copy
  BY <1>7, <1>8, <1>10, Zenon
<1>14. \A n, x : Replacement(n, x)' => Replacement(n, x)
  BY <1>3 DEF Replacement
<1> QED
  BY <1>1, <1>3, <1>4, <1>6, <1>11, <1>12, <1>13, <1>14, CallsKept, Zenon

LEMMA OriginalDoneKept == ASSUME MonoInv, CallsInv, OriginalDone PROVE CallsInv'
<1>1. CopiesTyped /\ Frames /\ stack # <<>> /\ TopFrame.kind = "original"
  BY DEF MonoInv, OriginalDone, Walked
<1>2. PICK top, fn : top = TopFrame /\ fn = Function(top.name, top.calls, "plain")
  OBVIOUS
<1>3. /\ stack' = Front(stack) /\ UNCHANGED <<compiled, schedule>> /\ compiled' = compiled
      /\ specializations' = specializations /\ purged_specs' = purged_specs /\ errors' = errors
      /\ dict_passing_fns' = dict_passing_fns /\ generated' = generated
      /\ arity_only_fns' = arity_only_fns /\ dict_passing_counts' = dict_passing_counts
      /\ result_fns' = Append(result_fns, fn) /\ phase' = phase /\ rewritten' = rewritten
  BY <1>2 DEF OriginalDone, flags, served, reports, copies, schedule
<1>4. MoreFlags
  BY <1>3 DEF MoreFlags
<1>5. top.kind = "original" /\ TopFrame.kind # "trip"
  BY <1>1, <1>2
<1>6. /\ top.name \in NameSet /\ top.calls \in Seq(Calls) /\ Listed(stack, top)
      /\ AllFit(top.name, top.calls)'
      /\ \A fr : Listed(stack', fr) => Listed(stack, fr)
      /\ \A n : /\ DictIn(stack, n) <=> DictIn(stack', n) \/ (top.kind = "dict" /\ top.name = n)
                /\ WalkedIn(stack, n) <=> WalkedIn(stack', n) \/ (top.kind = "original" /\ top.name = n)
  BY <1>1, <1>2, <1>3, <1>4, <1>5, EndedFits, Zenon
<1>7. fn.name = top.name /\ fn.calls = top.calls /\ fn.form = "plain" /\ fn \in FunctionSet
  BY <1>2, <1>6 DEF Function, FunctionSet
<1>8. ~top.name.copy /\ phase = "walk" /\ rewritten = {}
  <2>1. \E i \in 1 .. Len(stack) : stack[i] = top
    BY <1>6, Zenon DEF Listed
  <2>2. top.name = Original(top.name.fun)
    BY <1>1, <1>5, <2>1 DEF Frames, Walks
  <2>3. ~top.name.copy
    BY <2>2, NameFacts, Zenon
  <2> QED
    BY <1>5, <1>6, <2>3, Zenon DEF CallsInv, ProperFrame, Phased
<1>9. Proper(fn)'
  <2>1. AllFit(fn.name, fn.calls)'
    BY <1>6, <1>7, Zenon
  <2>2. phase' # "done" /\ fn.name \notin rewritten' /\ ~fn.name.copy
    BY <1>3, <1>7, <1>8
  <2> QED
    BY <1>7, <2>1, <2>2, Zenon DEF Proper
<1>10. result_fns \in Seq(FunctionSet)
  BY <1>1 DEF CopiesTyped
<1>11. \A x : Listed(result_fns', x) => Listed(result_fns, x) \/ x = fn
  BY <1>3, <1>7, <1>10, ListedMore, Zenon
<1>12. \A f \in FunNames : WalkedIn(stack, Original(f)) \/ EmittedIn(result_fns, Original(f)) =>
           WalkedIn(stack', Original(f)) \/ EmittedIn(result_fns', Original(f))
  <2>1. \A n : EmittedIn(result_fns', n) <=> EmittedIn(result_fns, n) \/ fn.name = n
    BY <1>3, <1>7, <1>10, OneMore, Zenon
  <2> QED
    BY <1>6, <1>7, <2>1, Zenon
<1>13. \A n : DictIn(stack, n) <=> DictIn(stack', n)
  <2>1. top.kind # "dict"
    BY <1>5
  <2> QED
    BY <1>6, <2>1, Zenon
<1>14. \A x : Listed(result_fns', x) \/ Listed(generated', x) =>
           \/ /\ Listed(result_fns, x) \/ Listed(generated, x)
              /\ ~x.name.copy /\ DictIn(stack, x.name) => DictIn(stack', x.name)
           \/ Proper(x)'
  <2> TAKE x
  <2>1. CASE x = fn
    BY <1>9, <2>1, Zenon
  <2> QED
    BY <1>3, <1>11, <1>13, <2>1, Zenon
<1>15. \A n, x : Replacement(n, x)' => Replacement(n, x)
  BY <1>3 DEF Replacement
<1> QED
  BY <1>1, <1>3, <1>4, <1>6, <1>12, <1>14, <1>15, CallsKept, Zenon

LEMMA DictDoneKept == ASSUME MonoInv, CallsInv, DictDone PROVE CallsInv'
<1>1. CopiesTyped /\ Frames /\ Once /\ stack # <<>> /\ TopFrame.kind = "dict"
  BY DEF MonoInv, DictDone, Walked
<1>2. PICK top : top = TopFrame
  OBVIOUS
<1>3. PICK taken : taken = {c \in ToSet(top.calls) : TakesDicts(c)}
  OBVIOUS
<1>4. PICK fn, at : /\ fn = Function(top.name, WithDicts(top.calls, taken), "dict")
                    /\ at = FirstNamed(result_fns, top.name)
  OBVIOUS
<1>5. /\ stack' = Front(stack) /\ UNCHANGED <<compiled, schedule>> /\ compiled' = compiled
      /\ dict_passing_fns' = dict_passing_fns \cup {c.to : c \in taken}
      /\ result_fns' = [result_fns EXCEPT ![at] = fn]
      /\ specializations' = specializations /\ purged_specs' = purged_specs /\ errors' = errors
      /\ arity_only_fns' = arity_only_fns /\ dict_passing_counts' = dict_passing_counts
      /\ generated' = generated /\ phase' = phase /\ rewritten' = rewritten
  BY <1>2, <1>3, <1>4 DEF DictDone, FirstNamed, copies, schedule, served, reports
<1>6. MoreFlags
  <2>1. \A c \in taken : c.to \in dict_passing_fns \/ ~c.to.copy
    BY <1>3 DEF TakesDicts, IsPolyFn
  <2> QED
    BY <1>5, <2>1 DEF MoreFlags
<1>7. top.kind = "dict" /\ TopFrame.kind # "trip"
  BY <1>1, <1>2
<1>8. /\ top.name \in NameSet /\ top.calls \in Seq(Calls) /\ Listed(stack, top)
      /\ AllFit(top.name, top.calls)'
      /\ \A fr : Listed(stack', fr) => Listed(stack, fr)
      /\ \A n : /\ DictIn(stack, n) <=> DictIn(stack', n) \/ (top.kind = "dict" /\ top.name = n)
                /\ WalkedIn(stack, n) <=> WalkedIn(stack', n) \/ (top.kind = "original" /\ top.name = n)
  BY <1>1, <1>2, <1>5, <1>6, <1>7, EndedFits, Zenon
<1>9. top.name \in dict_passing_fns /\ top.name \in rewritten
  BY <1>7, <1>8, ListedFrame, Zenon DEF ProperFrame
<1>10. PICK calls : calls = WithDicts(top.calls, taken)
  OBVIOUS
<1>11. /\ Len(calls) = Len(top.calls)
       /\ \A k \in 1 .. Len(calls) :
              calls[k] = IF top.calls[k] \in taken THEN [top.calls[k] EXCEPT !.how = "dicts"] ELSE top.calls[k]
       /\ \A k \in 1 .. Len(calls) : top.calls[k] \in Calls /\ top.calls[k] \in ToSet(top.calls)
  BY <1>8, <1>10 DEF WithDicts, ToSet
<1>12. fn.name = top.name /\ fn.calls = calls /\ fn.form = "dict" /\ fn \in FunctionSet
  <2>1. calls \in Seq(Calls)
    BY <1>8, <1>10, WithDictsFacts, Zenon
  <2> QED
    BY <1>4, <1>8, <1>10, <2>1 DEF Function, FunctionSet
<1>13. AllFit(top.name, calls)'
  <2>1. \A k \in 1 .. Len(top.calls) : Fits(top.name, top.calls[k])'
    BY <1>8 DEF AllFit
  <2>2. \A k \in 1 .. Len(calls) : Fits(top.name, calls[k])'
    <3> TAKE k \in 1 .. Len(calls)
    <3>1. CASE top.calls[k] \in taken
      <4>1. PICK call : call = calls[k]
        OBVIOUS
      <4>2. call.how = "dicts" /\ call.to = top.calls[k].to
        BY <1>11, <3>1, <4>1 DEF Calls
      <4>3. call.to \in dict_passing_fns'
        BY <1>5, <3>1, <4>2
      <4>4. Fits(top.name, call)'
        BY <4>2, <4>3 DEF Fits
      <4> QED
        BY <4>1, <4>4, Zenon
    <3>2. CASE top.calls[k] \notin taken
      <4>1. calls[k] = top.calls[k] /\ k \in 1 .. Len(top.calls)
        BY <1>11, <3>2
      <4> QED
        BY <2>1, <4>1, Zenon
    <3> QED
      BY <3>1, <3>2
  <2> QED
    BY <2>2, Zenon DEF AllFit
<1>14. \A k \in 1 .. Len(calls) : calls[k].how = "name" /\ ~calls[k].to.copy => ~LiveCall(calls[k])'
  <2>1. \A c : LiveCall(c)' <=> LiveCall(c)
    BY <1>5, SameCalls, Zenon
  <2> SUFFICES ASSUME NEW k \in 1 .. Len(calls), calls[k].how = "name", ~calls[k].to.copy, LiveCall(calls[k])
               PROVE  FALSE
    BY <2>1, Zenon
  <2>2. PICK call : call = top.calls[k]
    OBVIOUS
  <2>3. call \notin taken /\ calls[k] = call
    BY <1>11, <2>2 DEF Calls
  <2>4. ~TakesDicts(call)
    BY <1>3, <1>11, <2>2, <2>3
  <2>5. Constrained(call.to.fun) /\ call.at.a.leaf = "var"
    BY <2>3, Zenon DEF LiveCall, Live
  <2>6. Polymorphic(call.at)
    BY <2>5 DEF Polymorphic
  <2> QED
    BY <2>3, <2>4, <2>5, <2>6, Zenon DEF TakesDicts, IsPolyFn
<1>15. Proper(fn)'
  <2>1. AllFit(fn.name, fn.calls)'
    BY <1>12, <1>13, Zenon
  <2>2. phase' # "done" /\ fn.name \in rewritten' /\ fn.name \in dict_passing_fns'
    <3>1. phase # "done"
      BY <1>1, Zenon DEF CallsInv, Phased
    <3> QED
      BY <1>5, <1>9, <1>12, <3>1
  <2>3. \A k \in 1 .. Len(fn.calls) : fn.calls[k].how = "name" /\ ~fn.calls[k].to.copy => ~LiveCall(fn.calls[k])'
    BY <1>12, <1>14, Zenon
  <2> QED
    BY <1>12, <2>1, <2>2, <2>3, Zenon DEF Proper
<1>16. result_fns \in Seq(FunctionSet)
  BY <1>1 DEF CopiesTyped
<1>17. \/ at = 0 /\ ~EmittedIn(result_fns, top.name)
       \/ at \in 1 .. Len(result_fns) /\ result_fns[at].name = top.name
  BY <1>4, <1>16, FirstPosition, Zenon
<1>18. \A x : Listed(result_fns', x) => x = fn \/ (Listed(result_fns, x) /\ x.name # top.name)
  <2>1. CASE at = 0 /\ ~EmittedIn(result_fns, top.name)
    <3>1. PICK old, now : old = result_fns /\ now = result_fns'
      OBVIOUS
    <3>2. old \in Seq(FunctionSet) /\ 0 \notin DOMAIN old /\ now = [old EXCEPT ![0] = fn]
      BY <1>5, <1>16, <2>1, <3>1
    <3>3. now = old
      BY <3>2
    <3>4. result_fns' = result_fns
      BY <3>1, <3>3
    <3> QED
      BY <2>1, <3>4, Zenon DEF Listed, EmittedIn
  <2>2. CASE at \in 1 .. Len(result_fns) /\ result_fns[at].name = top.name
    <3>1. PICK now : now = result_fns'
      OBVIOUS
    <3>2. /\ Len(now) = Len(result_fns)
          /\ \A i \in 1 .. Len(now) : now[i] = IF i = at THEN fn ELSE result_fns[i]
      BY <1>5, <1>16, <2>2, <3>1
    <3>3. \A i \in 1 .. Len(now) : i # at => result_fns[i].name # top.name
      BY <1>1, <2>2, <3>2, Zenon DEF Once, Distinct
    <3> QED
      BY <3>1, <3>2, <3>3, Zenon DEF Listed
  <2> QED
    BY <1>17, <2>1, <2>2
<1>19. \A x : Listed(result_fns', x) \/ Listed(generated', x) =>
           \/ /\ Listed(result_fns, x) \/ Listed(generated, x)
              /\ ~x.name.copy /\ DictIn(stack, x.name) => DictIn(stack', x.name)
           \/ Proper(x)'
  <2> TAKE x
  <2>1. CASE x = fn
    BY <1>15, <2>1, Zenon
  <2>2. CASE Listed(result_fns, x) /\ x.name # top.name
    BY <1>8, <2>2, Zenon
  <2>3. CASE Listed(generated, x)
    BY <2>3, Zenon DEF CallsInv
  <2> QED
    BY <1>5, <1>18, <2>1, <2>2, <2>3, Zenon
<1>20. \A f \in FunNames : WalkedIn(stack, Original(f)) \/ EmittedIn(result_fns, Original(f)) =>
           WalkedIn(stack', Original(f)) \/ EmittedIn(result_fns', Original(f))
  <2>1. top.kind # "original"
    BY <1>7
  <2>2. at = 0 \/ (at \in 1 .. Len(result_fns) /\ result_fns[at].name = fn.name)
    BY <1>12, <1>17, Zenon
  <2>3. \A n : EmittedIn(result_fns', n) <=> EmittedIn(result_fns, n)
    BY <1>5, <1>12, <1>16, <2>2, Replacing, Zenon
  <2> QED
    BY <1>8, <2>1, <2>3, Zenon
<1>21. \A n, x : Replacement(n, x)' => Replacement(n, x)
  BY <1>5 DEF Replacement
<1>22. \A s \in specializations' : s \in specializations
  BY <1>5
<1>23. \A x : Listed(generated', x) => Listed(generated, x)
  BY <1>5, Zenon
<1> QED
  BY <1>1, <1>6, <1>8, <1>19, <1>20, <1>21, <1>22, <1>23, CallsKept, Zenon

-------------------------------------------------------------------------------
(* run *)

LEMMA NothingUnderWay ==
    /\ \A fr : ~Listed(<<>>, fr)
    /\ \A n : ~DictIn(<<>>, n) /\ ~WalkedIn(<<>>, n)
<1>1. \A i \in 1 .. Len(<<>>) : FALSE
  OBVIOUS
<1> QED
  BY <1>1, Zenon DEF Listed, DictIn, WalkedIn

\* One activation starts, and some functions that take dictionaries count as rewritten.
LEMMA StartsKept ==
    ASSUME MonoInv, CallsInv, stack = <<>>, phase # "done",
           stack' = <<>> \/ \E fr : ProperFrame(fr)' /\ stack' = <<fr>>,
           UNCHANGED <<compiled, phase, copies, result_fns, flags, served, reports>>,
           Phased', \A f \in FunNames : Placed(f)', rewritten \subseteq rewritten',
           \A fn : (Listed(result_fns, fn) \/ Listed(generated, fn)) /\ ~fn.name.copy /\ fn.name \in rewritten' =>
                       fn.name \in rewritten \/ DictIn(stack', fn.name)
    PROVE  CallsInv'
<1>1. /\ compiled' = compiled /\ phase' = phase
      /\ specializations' = specializations /\ generated' = generated /\ result_fns' = result_fns
      /\ arity_only_fns' = arity_only_fns /\ dict_passing_fns' = dict_passing_fns
      /\ purged_specs' = purged_specs /\ errors' = errors
  BY DEF copies, flags, served, reports
<1>2. FunNames' = FunNames
  BY <1>1, Same, Zenon
<1>3. /\ \A n : LiveName(n)' <=> LiveName(n)
      /\ \A c : LiveCall(c)' <=> LiveCall(c)
  BY <1>1, SameCalls, Zenon
<1>4. /\ \A name, calls : AllFit(name, calls) => AllFit(name, calls)'
      /\ \A name, to : Redirected(name, to) => Redirected(name, to)'
  BY <1>1, FitsStay
<1>5. \A s \in specializations' : LiveName(s)' => s \in dict_passing_fns'
  BY <1>1, <1>3, Zenon DEF CallsInv
<1>6. \A n, to : Replacement(n, to)' => Redirected(n, to)'
  <2>1. \A n, to : Replacement(n, to)' => Replacement(n, to)
    BY <1>1 DEF Replacement
  <2> QED
    BY <1>4, <2>1, Zenon DEF CallsInv
<1>7. ASSUME NEW fn, Listed(result_fns, fn) \/ Listed(generated, fn)
      PROVE  Proper(fn)'
  <2>1. Proper(fn)
    BY <1>7, Zenon DEF CallsInv
  <2>2. AllFit(fn.name, fn.calls)'
    BY <1>4, <2>1, Zenon DEF Proper
  <2>3. fn.name.copy /\ LiveName(fn.name)' => fn.name \in dict_passing_fns'
    BY <1>1, <1>3, <2>1, Zenon DEF Proper
  <2>4. fn.form = "dict" =>
          /\ fn.name \in rewritten'
          /\ \A k \in 1 .. Len(fn.calls) :
                fn.calls[k].how = "name" /\ ~fn.calls[k].to.copy => ~LiveCall(fn.calls[k])'
    <3>1. \A n \in rewritten : n \in rewritten'
      OBVIOUS
    <3> QED
      BY <1>3, <2>1, <3>1, Zenon DEF Proper
  <2>5. fn.form = "raw" => fn.name \in dict_passing_fns' /\ fn.calls = <<>>
    BY <1>1, <2>1, Zenon DEF Proper
  <2>6. fn.form = "plain" /\ fn.name \in dict_passing_fns' =>
            ~fn.name.copy /\ (fn.name \in rewritten' => DictIn(stack', fn.name))
    <3>1. ~DictIn(stack, fn.name)
      BY NothingUnderWay, Zenon
    <3> QED
      BY <1>1, <1>7, <2>1, <3>1, Zenon DEF Proper
  <2>7. phase' # "done"
    BY <1>1
  <2> QED
    BY <2>2, <2>3, <2>4, <2>5, <2>6, <2>7, Zenon DEF Proper
<1>8. \A fn : Listed(result_fns', fn) \/ Listed(generated', fn) => Proper(fn)'
  BY <1>1, <1>7, Zenon
<1>9. \A fn : Listed(generated', fn) => fn.name.copy
  BY <1>1, Zenon DEF CallsInv
<1>10. \A fr : Listed(stack', fr) => ProperFrame(fr)'
  <2>1. CASE stack' = <<>>
    BY <2>1, NothingUnderWay, Zenon
  <2>2. CASE \E fr : ProperFrame(fr)' /\ stack' = <<fr>>
    <3>1. PICK fr : ProperFrame(fr)' /\ stack' = <<fr>>
      BY <2>2
    <3>2. \A x : Listed(stack', x) => x = fr
      BY <3>1 DEF Listed
    <3> TAKE x
    <3>3. CASE x = fr
      BY <3>1, <3>3, Zenon
    <3> QED
      BY <3>2, <3>3, Zenon
  <2> QED
    BY <2>1, <2>2
<1> QED
  BY <1>2, <1>5, <1>6, <1>8, <1>9, <1>10, Zenon DEF CallsInv

LEMMA NextOriginalKept == ASSUME MonoInv, CallsInv, NextOriginal PROVE CallsInv'
<1>1. Frames /\ todo \in Seq(FunNames) /\ Phased
  BY DEF MonoInv, CopiesTyped, CallsInv
<1>2. /\ stack = <<>> /\ phase = "walk" /\ todo # <<>> /\ todo' = Tail(todo)
      /\ UNCHANGED <<compiled, phase, copies, result_fns, flags, served, reports>>
      /\ compiled' = compiled /\ phase' = phase /\ result_fns' = result_fns
      /\ rewritten' = rewritten /\ batch' = batch /\ dict_passing_fns' = dict_passing_fns
  BY DEF NextOriginal, flags
<1>3. PICK f, original, fr : f = Head(todo) /\ original = Original(f) /\ fr = Activation("original", original)
  OBVIOUS
<1>4. f \in FunNames /\ f = todo[1] /\ Len(todo) \in Nat \ {0}
  BY <1>1, <1>2, <1>3
<1>5. stack' = <<fr>>
  BY <1>3, Zenon DEF NextOriginal
<1>6. fr.kind = "original" /\ fr.name = original /\ fr.calls = <<>> /\ UsesFit(fr)
  <2>1. original \in NameSet
    BY <1>3, <1>4, NameFacts, Zenon
  <2> QED
    BY <1>1, <1>3, <2>1, ActivationFits
<1>7. ProperFrame(fr)'
  <2>1. AllFit(original, <<>>)'
    BY NoCallsFit, Zenon
  <2>2. AllFit(fr.name, fr.calls)'
    BY <1>6, <2>1, Zenon
  <2>3. UsesFit(fr)'
    BY <1>2, <1>6, SameCalls, Zenon
  <2>4. phase' = "walk" /\ fr.kind # "dict" /\ fr.kind # "trip" /\ ~Makes(fr, dict_passing_counts')
    BY <1>2, <1>6 DEF Makes
  <2> QED
    BY <2>2, <2>3, <2>4, Zenon DEF ProperFrame
<1>8. Phased'
  BY <1>1, <1>2 DEF Phased
<1>9. ASSUME NEW g \in FunNames
      PROVE  Placed(g)'
  <2>1. Placed(g) /\ Original(g)' = Original(g)
    BY <1>2, Same, Zenon DEF CallsInv
  <2>2. ~WalkedIn(stack, Original(g))
    BY <1>2, NothingUnderWay, Zenon
  <2>3. CASE g \in ToSet(todo)
    <3>1. PICK i \in 1 .. Len(todo) : todo[i] = g
      <4>1. ToSet(todo) = {todo[i] : i \in 1 .. Len(todo)}
        BY <1>1 DEF ToSet
      <4> QED
        BY <2>3, <4>1
    <3>2. CASE i = 1
      <4>1. fr.name = Original(g)
        BY <1>3, <1>4, <1>6, <3>1, <3>2, Zenon
      <4>2. Len(stack') = 1 /\ stack'[1] = fr
        BY <1>5
      <4>3. WalkedIn(stack', Original(g))
        BY <1>6, <4>1, <4>2 DEF WalkedIn
      <4> QED
        BY <2>1, <4>3, Zenon DEF Placed
    <3>3. CASE i # 1
      <4>1. PICK rest : rest = Tail(todo)
        OBVIOUS
      <4>2. i - 1 \in 1 .. Len(rest) /\ rest[i - 1] = g /\ rest \in Seq(FunNames)
        BY <1>1, <1>2, <3>1, <3>3, <4>1
      <4>3. g \in ToSet(rest)
        BY <4>2 DEF ToSet
      <4>4. g \in ToSet(todo')
        BY <1>2, <4>1, <4>3, Zenon
      <4> QED
        BY <4>4, Zenon DEF Placed
    <3> QED
      BY <3>2, <3>3
  <2>4. CASE EmittedIn(result_fns, Original(g))
    BY <1>2, <2>1, <2>4, Zenon DEF Placed
  <2> QED
    BY <2>1, <2>2, <2>3, <2>4, Zenon DEF Placed
<1>10. phase # "done"
  BY <1>2
<1> QED
  BY <1>2, <1>5, <1>7, <1>8, <1>9, <1>10, StartsKept

LEMMA NextBatchKept == ASSUME MonoInv, CallsInv, NextBatch PROVE CallsInv'
<1>1. Phased
  BY DEF CallsInv
<1>2. /\ stack = <<>> /\ stack' = <<>> /\ phase = "flag" /\ todo' = todo
      /\ UNCHANGED <<compiled, phase, copies, result_fns, flags, served, reports>>
      /\ compiled' = compiled /\ phase' = phase /\ result_fns' = result_fns
      /\ rewritten' = rewritten /\ dict_passing_fns' = dict_passing_fns
  BY DEF NextBatch, flags
<1>3. Phased'
  BY <1>1, <1>2 DEF Phased
<1>4. \A f \in FunNames : Placed(f)'
  BY <1>2, Same, Zenon DEF CallsInv, Placed
<1>5. phase # "done"
  BY <1>2
<1> QED
  BY <1>2, <1>3, <1>4, <1>5, StartsKept

LEMMA RewriteNextKept == ASSUME MonoInv, CallsInv, RewriteNext PROVE CallsInv'
<1>1. Frames /\ CopiesTyped /\ Phased
  BY DEF MonoInv, CallsInv
<1>2. PICK name \in batch :
        /\ rewritten' = rewritten \cup {name}
        /\ stack' = IF name \in Names(result_fns) THEN <<Activation("dict", name)>> ELSE <<>>
  BY Zenon DEF RewriteNext
<1>3. /\ stack = <<>> /\ phase = "flag" /\ todo' = todo
      /\ UNCHANGED <<compiled, phase, copies, result_fns, flags, served, reports>>
      /\ compiled' = compiled /\ phase' = phase /\ result_fns' = result_fns
      /\ dict_passing_fns' = dict_passing_fns
  BY DEF RewriteNext, flags
<1>4. name \in NameSet /\ name \in dict_passing_fns
  BY <1>1 DEF CopiesTyped, Frames
<1>5. PICK fr : fr = Activation("dict", name)
  OBVIOUS
<1>6. fr.kind = "dict" /\ fr.name = name /\ fr.calls = <<>> /\ UsesFit(fr)
  BY <1>1, <1>4, <1>5, ActivationFits
<1>7. ProperFrame(fr)'
  <2>1. AllFit(name, <<>>)'
    BY NoCallsFit, Zenon
  <2>2. AllFit(fr.name, fr.calls)'
    BY <1>6, <2>1, Zenon
  <2>3. UsesFit(fr)'
    BY <1>3, <1>6, SameCalls, Zenon
  <2>4. fr.name \in rewritten' /\ fr.kind # "original" /\ fr.kind # "trip" /\ ~Makes(fr, dict_passing_counts')
    BY <1>2, <1>6 DEF Makes
  <2> QED
    BY <2>2, <2>3, <2>4, Zenon DEF ProperFrame
<1>8. Phased'
  BY <1>1, <1>2, <1>3, <1>4 DEF Phased
<1>9. ASSUME NEW g \in FunNames
      PROVE  Placed(g)'
  <2>1. Placed(g) /\ Original(g)' = Original(g) /\ ~WalkedIn(stack, Original(g))
    BY <1>3, Same, NothingUnderWay, Zenon DEF CallsInv
  <2> QED
    BY <1>3, <2>1, Zenon DEF Placed
<1>10. \A fn : (Listed(result_fns, fn) \/ Listed(generated, fn)) /\ ~fn.name.copy /\ fn.name \in rewritten' =>
                    fn.name \in rewritten \/ DictIn(stack', fn.name)
  <2> SUFFICES ASSUME NEW fn, Listed(result_fns, fn) \/ Listed(generated, fn), ~fn.name.copy, fn.name = name
               PROVE  DictIn(stack', name)
    BY <1>2
  <2>1. Listed(result_fns, fn)
    BY Zenon DEF CallsInv
  <2>2. name \in Names(result_fns)
    <3>1. PICK i \in 1 .. Len(result_fns) : result_fns[i] = fn
      BY <2>1 DEF Listed
    <3>2. result_fns \in Seq(FunctionSet)
      BY <1>1 DEF CopiesTyped
    <3>3. fn \in ToSet(result_fns)
      BY <3>1, <3>2 DEF ToSet
    <3> QED
      BY <3>3 DEF Names
  <2>3. stack' = <<fr>>
    BY <1>2, <1>5, <2>2
  <2>4. Len(stack') = 1 /\ stack'[1] = fr
    BY <2>3
  <2> QED
    BY <1>6, <2>4 DEF DictIn
<1>11. phase # "done" /\ rewritten \subseteq rewritten'
  BY <1>2, <1>3
<1>12. stack' = <<>> \/ \E x : ProperFrame(x)' /\ stack' = <<x>>
  <2>1. stack' = <<>> \/ stack' = <<fr>>
    BY <1>2, <1>5
  <2> QED
    BY <1>7, <2>1, Zenon
<1> QED
  BY <1>3, <1>8, <1>9, <1>10, <1>11, <1>12, StartsKept

\* A call that is redirected fits as it did, and goes to no purged name any more.
LEMMA RevertedFits ==
    ASSUME MonoInv, CallsInv, NEW name, NEW calls \in Seq(Calls), AllFit(name, calls),
           NEW now, now = Reverted(calls)
    PROVE  /\ AllFit(name, now) /\ Len(now) = Len(calls) /\ now \in Seq(Calls)
           /\ \A k \in 1 .. Len(now) : now[k].how = "name" => now[k].to \notin DOMAIN purged_specs
<1>1. /\ Range(purged_specs) \subseteq NameSet /\ DOMAIN purged_specs \subseteq NameSet
      /\ \A n \in NameSet : Replaced(n)
  BY DEF MonoInv, CopiesTyped, Named
<1>2. /\ now = [k \in 1 .. Len(calls) |->
                    IF calls[k].how = "name" /\ calls[k].to \in DOMAIN purged_specs
                    THEN [calls[k] EXCEPT !.to = purged_specs[calls[k].to]] ELSE calls[k]]
      /\ now \in Seq(Calls)
  BY <1>1, RevertedFacts DEF Reverted
<1>3. Len(now) = Len(calls) /\ \A k \in 1 .. Len(calls) : calls[k] \in Calls
  BY <1>2
<1>4. ASSUME NEW k \in 1 .. Len(calls), calls[k].how = "name", calls[k].to \in DOMAIN purged_specs
      PROVE  Fits(name, now[k]) /\ now[k].to \notin DOMAIN purged_specs
  <2>1. PICK old, n, to, call : old = calls[k] /\ n = old.to /\ to = purged_specs[n] /\ call = now[k]
    OBVIOUS
  <2>2. call.how = "name" /\ call.to = to /\ call.at = old.at
    <3>1. call = [old EXCEPT !.to = to]
      BY <1>2, <1>4, <2>1
    <3>2. old \in Calls
      BY <1>3, <2>1
    <3> QED
      BY <1>4, <2>1, <3>1, <3>2 DEF Calls
  <2>3. n \in NameSet /\ n \in DOMAIN purged_specs
    BY <1>1, <1>4, <2>1
  <2>4. Purged(n) /\ (to.copy => Hole(to))
    BY <1>1, <2>1, <2>3, Zenon DEF Replaced
  <2>5. Redirected(n, to)
    BY <2>1, <2>3, Zenon DEF CallsInv, Replacement
  <2>6. n.copy
    BY <2>4 DEF Purged
  <2>7. Arrows(n.fun, old.at) = Arity(n)
    <3>1. Fits(name, old)
      BY <2>1, Zenon DEF AllFit
    <3>2. Original(n.fun).copy = FALSE
      BY DEF Original
    <3>3. n # Original(n.fun)
      BY <2>6, <3>2, Zenon
    <3> QED
      BY <1>4, <2>1, <3>1, <3>3, Zenon DEF Fits
  <2>8. Fits(name, call)
    <3>1. CASE to.copy /\ to.fun = n.fun /\ Arity(to) = Arity(n)
      BY <2>2, <2>7, <3>1, Zenon DEF Fits
    <3>2. CASE to = Original(n.fun) /\ (n.fun \in errors \/ (Shared(n.fun) /\ Arity(n) = 0))
      <4>1. to.fun = n.fun
        BY <3>2, NameFacts, Zenon
      <4> QED
        BY <2>2, <2>7, <3>2, <4>1, Zenon DEF Fits
    <3> QED
      BY <2>5, <3>1, <3>2, Zenon DEF Redirected
  <2>9. to \notin DOMAIN purged_specs
    <3>1. ~Purged(to)
      BY <2>4, Zenon DEF Purged
    <3> QED
      BY <1>1, <3>1, Zenon DEF Replaced
  <2> QED
    BY <2>1, <2>2, <2>8, <2>9, Zenon
<1>5. \A k \in 1 .. Len(calls) :
          Fits(name, now[k]) /\ (now[k].how = "name" => now[k].to \notin DOMAIN purged_specs)
  <2> TAKE k \in 1 .. Len(calls)
  <2>1. CASE calls[k].how = "name" /\ calls[k].to \in DOMAIN purged_specs
    BY <1>4, <2>1
  <2>2. CASE ~(calls[k].how = "name" /\ calls[k].to \in DOMAIN purged_specs)
    <3>1. now[k] = calls[k]
      BY <1>2, <2>2
    <3> QED
      BY <2>2, <3>1, Zenon DEF AllFit
  <2> QED
    BY <2>1, <2>2
<1> QED
  BY <1>2, <1>3, <1>5, Zenon DEF AllFit

\* The copies join the originals, and every function stays as the invariant says.
LEMMA JoinsKept ==
    ASSUME MonoInv, CallsInv, stack = <<>>, stack' = <<>>, todo = <<>>, generated' = <<>>,
           UNCHANGED <<compiled, todo, rewritten, specializations, flags, served, errors>>,
           Phased', NEW all, all = result_fns \o generated,
           NEW now, result_fns' = now, Len(now) = Len(all),
           \A i \in 1 .. Len(all) : now[i].name = all[i].name /\ (Proper(all[i]) => Proper(now[i])')
    PROVE  CallsInv'
<1>1. result_fns \in Seq(FunctionSet) /\ generated \in Seq(FunctionSet)
  BY DEF MonoInv, CopiesTyped
<1>2. /\ compiled' = compiled /\ specializations' = specializations /\ purged_specs' = purged_specs
      /\ arity_only_fns' = arity_only_fns /\ dict_passing_fns' = dict_passing_fns /\ errors' = errors
  BY DEF flags, served
<1>3. FunNames' = FunNames /\ \A f : Original(f)' = Original(f)
  BY <1>2, Same, Zenon
<1>4. \A x : Listed(all, x) <=> Listed(result_fns, x) \/ Listed(generated, x)
  BY <1>1, ListedJoined
<1>5. \A i \in 1 .. Len(all) : Proper(now[i])'
  <2> TAKE i \in 1 .. Len(all)
  <2>1. Listed(all, all[i])
    BY Zenon DEF Listed
  <2>2. Proper(all[i])
    BY <1>4, <2>1, Zenon DEF CallsInv
  <2> QED
    BY <2>2
<1>6. \A fr : ~Listed(stack', fr) /\ ~Listed(generated', fr)
  BY NothingUnderWay, Zenon
<1>7. \A fn : Listed(result_fns', fn) => Proper(fn)'
  <2> SUFFICES ASSUME NEW fn, Listed(now, fn)
               PROVE  Proper(fn)'
    BY Zenon
  <2>1. PICK i \in 1 .. Len(all) : now[i] = fn
    BY Zenon DEF Listed
  <2>2. Proper(now[i])'
    BY <1>5
  <2> QED
    BY <2>1, <2>2, Zenon
<1>8. ASSUME NEW f \in FunNames
      PROVE  Placed(f)'
  <2>1. Placed(f) /\ ~WalkedIn(stack, Original(f))
    BY NothingUnderWay, Zenon DEF CallsInv
  <2>2. f \notin ToSet(todo)
    BY DEF ToSet
  <2>3. EmittedIn(result_fns, Original(f))
    BY <2>1, <2>2, Zenon DEF Placed
  <2>4. EmittedIn(all, Original(f))
    BY <1>1, <2>3, Joined, Zenon
  <2>5. EmittedIn(now, Original(f))
    BY <2>4, Zenon DEF EmittedIn
  <2> QED
    BY <1>3, <2>5, Zenon DEF Placed
<1>9. \A s \in specializations' : LiveName(s)' => s \in dict_passing_fns'
  <2>1. \A n : LiveName(n)' <=> LiveName(n)
    BY <1>2, SameCalls, Zenon
  <2> QED
    BY <1>2, <2>1, Zenon DEF CallsInv
<1>10. \A n, to : Replacement(n, to)' => Redirected(n, to)'
  <2>1. \A n, to : Replacement(n, to)' => Replacement(n, to)
    BY <1>2 DEF Replacement
  <2>2. \A n, to : Redirected(n, to) => Redirected(n, to)'
    BY <1>2, FitsStay
  <2> QED
    BY <2>1, <2>2, Zenon DEF CallsInv
<1> QED
  BY <1>3, <1>6, <1>7, <1>8, <1>9, <1>10, Zenon DEF CallsInv

LEMMA RedirectKept == ASSUME MonoInv, CallsInv, Redirect PROVE CallsInv'
<1>1. result_fns \in Seq(FunctionSet) /\ generated \in Seq(FunctionSet) /\ Phased
  BY DEF MonoInv, CopiesTyped, CallsInv
<1>2. PICK all, now : all = result_fns \o generated /\ now = result_fns'
  OBVIOUS
<1>3. /\ all \in Seq(FunctionSet) /\ Len(all) = Len(result_fns) + Len(generated)
      /\ Len(result_fns) \in Nat /\ Len(generated) \in Nat
  BY <1>1, <1>2
<1>4. now = [i \in 1 .. Len(all) |-> [all[i] EXCEPT !.calls = Reverted(all[i].calls)]]
  BY <1>2, <1>3 DEF Redirect
<1>5. /\ stack = <<>> /\ stack' = <<>> /\ todo = <<>> /\ generated' = <<>> /\ phase = "walk"
      /\ UNCHANGED <<compiled, todo, rewritten, specializations, flags, served, errors>>
      /\ compiled' = compiled /\ dict_passing_fns' = dict_passing_fns /\ rewritten' = rewritten
      /\ arity_only_fns' = arity_only_fns /\ errors' = errors /\ purged_specs' = purged_specs
      /\ batch' = batch /\ phase' = IF dict_passing_fns = {} THEN "done" ELSE "flag"
  BY DEF Redirect, reports, flags, served
<1>6. rewritten = {} /\ batch = {}
  BY <1>1, <1>5 DEF Phased
<1>7. Phased'
  BY <1>1, <1>5, <1>6 DEF Phased
<1>8. Len(now) = Len(all) /\ \A i \in 1 .. Len(all) : all[i] \in FunctionSet
  BY <1>3, <1>4
<1>9. ASSUME NEW i \in 1 .. Len(all)
      PROVE  now[i].name = all[i].name /\ (Proper(all[i]) => Proper(now[i])')
  <2>1. PICK old, fn, calls : old = all[i] /\ fn = now[i] /\ calls = Reverted(old.calls)
    OBVIOUS
  <2>2. old \in FunctionSet /\ fn = [old EXCEPT !.calls = calls]
    BY <1>4, <1>8, <2>1
  <2>3. fn.name = old.name /\ fn.form = old.form /\ fn.calls = calls /\ old.calls \in Seq(Calls)
    BY <2>2 DEF FunctionSet
  <2>4. ASSUME Proper(old)
        PROVE  Proper(fn)'
    <3>1. /\ AllFit(old.name, calls) /\ Len(calls) = Len(old.calls) /\ calls \in Seq(Calls)
          /\ \A k \in 1 .. Len(calls) : calls[k].how = "name" => calls[k].to \notin DOMAIN purged_specs
      <4>1. AllFit(old.name, old.calls)
        BY <2>4, Zenon DEF Proper
      <4> QED
        BY <2>1, <2>3, <4>1, RevertedFits, Zenon
    <3>2. AllFit(fn.name, fn.calls)'
      <4>1. AllFit(fn.name, calls)
        BY <2>3, <3>1, Zenon
      <4>2. AllFit(fn.name, calls)'
        BY <1>5, <4>1, FitsStay
      <4> QED
        BY <2>3, <4>2, Zenon
    <3>3. fn.name.copy /\ LiveName(fn.name)' => fn.name \in dict_passing_fns'
      <4>1. LiveName(old.name)' <=> LiveName(old.name)
        BY <1>5, SameCalls, Zenon
      <4> QED
        BY <1>5, <2>3, <2>4, <4>1, Zenon DEF Proper
    <3>4. fn.form # "dict"
      BY <1>6, <2>3, <2>4 DEF Proper
    <3>5. fn.form = "raw" => fn.name \in dict_passing_fns' /\ fn.calls = <<>>
      <4>1. old.calls = <<>> => calls = <<>>
        BY <2>3, <3>1
      <4> QED
        BY <1>5, <2>3, <2>4, <4>1, Zenon DEF Proper
    <3>6. fn.form = "plain" /\ fn.name \in dict_passing_fns' => ~fn.name.copy /\ fn.name \notin rewritten'
      <4>1. fn.name \notin rewritten'
        BY <1>5, <1>6
      <4> QED
        BY <1>5, <2>3, <2>4, <4>1, Zenon DEF Proper
    <3>7. phase' = "done" => SettledCalls(fn.calls)'
      BY <1>5, <2>3, <3>1 DEF SettledCalls
    <3> QED
      BY <3>2, <3>3, <3>4, <3>5, <3>6, <3>7, Zenon DEF Proper
  <2> QED
    BY <2>1, <2>3, <2>4, Zenon
<1> QED
  BY <1>2, <1>5, <1>7, <1>8, <1>9, JoinsKept

LEMMA RewriteSitesKept == ASSUME MonoInv, CallsInv, RewriteSites PROVE CallsInv'
<1>1. result_fns \in Seq(FunctionSet) /\ generated \in Seq(FunctionSet) /\ Phased
  BY DEF MonoInv, CopiesTyped, CallsInv
<1>2. PICK all, now : all = result_fns \o generated /\ now = [i \in DOMAIN all |-> SiteRewritten(all[i])]
  OBVIOUS
<1>3. result_fns' = now /\ deferred_errors' = {fn.name : fn \in {g \in ToSet(now) : Uncompilable(g)}}
  BY <1>2, Zenon DEF RewriteSites
<1>4. all \in Seq(FunctionSet)
  BY <1>1, <1>2
<1>5. /\ stack = <<>> /\ stack' = <<>> /\ generated' = <<>> /\ phase = "flag" /\ phase' = "done"
      /\ UNCHANGED <<compiled, todo, rewritten, specializations, flags, served, errors>>
      /\ compiled' = compiled /\ dict_passing_fns' = dict_passing_fns /\ rewritten' = rewritten
      /\ arity_only_fns' = arity_only_fns /\ errors' = errors /\ purged_specs' = purged_specs
      /\ batch' = batch /\ todo' = todo /\ dict_passing_fns \subseteq rewritten
  BY DEF RewriteSites, Unrewritten, flags, served
<1>6. todo = <<>> /\ rewritten \subseteq dict_passing_fns
  BY <1>1, <1>5 DEF Phased
<1>7. Phased'
  BY <1>5, <1>6 DEF Phased
<1>8. /\ Len(now) = Len(all) /\ DOMAIN now = 1 .. Len(all)
      /\ \A i \in 1 .. Len(all) : all[i] \in FunctionSet /\ now[i] = SiteRewritten(all[i])
  BY <1>2, <1>4
<1>9. ASSUME NEW i \in 1 .. Len(all)
      PROVE  now[i].name = all[i].name /\ (Proper(all[i]) => Proper(now[i])')
  <2>1. PICK old, fn : old = all[i] /\ fn = now[i]
    OBVIOUS
  <2>2. old \in FunctionSet /\ fn = SiteRewritten(old)
    BY <1>8, <2>1
  <2>3. CASE old.name \in dict_passing_fns
    <3>1. fn = old
      BY <2>2, <2>3 DEF SiteRewritten
    <3>2. ASSUME Proper(old)
          PROVE  Proper(fn)'
      <4>1. AllFit(fn.name, fn.calls)'
        <5>1. AllFit(fn.name, fn.calls)
          BY <3>1, <3>2, Zenon DEF Proper
        <5> QED
          BY <1>5, <5>1, FitsStay
      <4>2. fn.form = "dict" =>
              /\ fn.name \in rewritten'
              /\ \A k \in 1 .. Len(fn.calls) :
                    fn.calls[k].how = "name" /\ ~fn.calls[k].to.copy => ~LiveCall(fn.calls[k])'
        <5>1. \A c : LiveCall(c)' <=> LiveCall(c)
          BY <1>5, SameCalls, Zenon
        <5> QED
          BY <1>5, <3>1, <3>2, <5>1, Zenon DEF Proper
      <4>3. fn.name \in dict_passing_fns'
        BY <1>5, <2>3, <3>1
      <4>4. fn.form = "raw" => fn.calls = <<>>
        BY <3>1, <3>2, Zenon DEF Proper
      <4>5. fn.form = "plain" => ~fn.name.copy /\ (fn.name \in rewritten' => DictIn(stack', fn.name))
        <5>1. stack' = stack
          BY <1>5
        <5> QED
          BY <1>5, <2>3, <3>1, <3>2, <5>1, Zenon DEF Proper
      <4> QED
        BY <4>1, <4>2, <4>3, <4>4, <4>5, Zenon DEF Proper
    <3> QED
      BY <2>1, <3>1, <3>2, Zenon
  <2>4. CASE old.name \notin dict_passing_fns
    <3>1. PICK calls : calls = Reverted(old.calls)
      OBVIOUS
    <3>2. PICK taken : taken = {c \in ToSet(calls) : CallTakesDicts(c)}
      OBVIOUS
    <3>3. PICK dicts : dicts = WithDicts(calls, taken)
      OBVIOUS
    <3>4. fn = [old EXCEPT !.calls = dicts]
      BY <2>2, <2>4, <3>1, <3>2, <3>3 DEF SiteRewritten
    <3>5. fn.name = old.name /\ fn.form = old.form /\ fn.calls = dicts /\ old.calls \in Seq(Calls)
      BY <2>2, <3>4 DEF FunctionSet
    <3>6. ASSUME Proper(old)
          PROVE  Proper(fn)'
      <4>1. /\ AllFit(old.name, calls) /\ calls \in Seq(Calls)
            /\ \A k \in 1 .. Len(calls) : calls[k].how = "name" => calls[k].to \notin DOMAIN purged_specs
        <5>1. AllFit(old.name, old.calls)
          BY <3>6, Zenon DEF Proper
        <5> QED
          BY <3>1, <3>5, <5>1, RevertedFits, Zenon
      <4>2. /\ Len(dicts) = Len(calls) /\ DOMAIN dicts = 1 .. Len(dicts)
            /\ \A k \in 1 .. Len(dicts) :
                  dicts[k] = IF calls[k] \in taken THEN [calls[k] EXCEPT !.how = "dicts"] ELSE calls[k]
            /\ \A k \in 1 .. Len(dicts) : calls[k] \in Calls
        BY <3>3, <4>1 DEF WithDicts
      <4>3. \A k \in 1 .. Len(dicts) :
                \/ dicts[k].how = "dicts" /\ dicts[k].to \in dict_passing_fns
                \/ dicts[k] = calls[k]
        <5> TAKE k \in 1 .. Len(dicts)
        <5>1. CASE calls[k] \in taken
          <6>1. calls[k].to \in dict_passing_fns
            BY <3>2, <5>1 DEF CallTakesDicts
          <6>2. dicts[k] = [calls[k] EXCEPT !.how = "dicts"] /\ calls[k] \in Calls
            BY <4>2, <5>1
          <6>3. dicts[k].how = "dicts" /\ dicts[k].to = calls[k].to
            BY <6>2 DEF Calls
          <6> QED
            BY <6>1, <6>3
        <5>2. CASE calls[k] \notin taken
          BY <4>2, <5>2
        <5> QED
          BY <5>1, <5>2
      <4>4. AllFit(fn.name, fn.calls)'
        <5>1. AllFit(old.name, dicts)
          <6>1. \A k \in 1 .. Len(dicts) : Fits(old.name, dicts[k])
            <7> TAKE k \in 1 .. Len(dicts)
            <7>1. CASE dicts[k].how = "dicts" /\ dicts[k].to \in dict_passing_fns
              BY <7>1 DEF Fits
            <7>2. CASE dicts[k] = calls[k]
              BY <4>1, <4>2, <7>2, Zenon DEF AllFit
            <7> QED
              BY <4>3, <7>1, <7>2
          <6> QED
            BY <6>1, Zenon DEF AllFit
        <5>2. AllFit(old.name, dicts)'
          BY <1>5, <5>1, FitsStay
        <5> QED
          BY <3>5, <5>2, Zenon
      <4>5. fn.name \notin dict_passing_fns' /\ fn.form # "raw" /\ fn.form # "dict"
        BY <1>5, <1>6, <2>4, <3>5, <3>6 DEF Proper
      <4>6. ~(fn.name.copy /\ LiveName(fn.name)')
        <5>1. LiveName(old.name)' <=> LiveName(old.name)
          BY <1>5, SameCalls, Zenon
        <5> QED
          BY <2>4, <3>5, <3>6, <5>1, Zenon DEF Proper
      <4>7. ASSUME fn.name \notin deferred_errors'
            PROVE  SettledCalls(fn.calls)'
        <5>1. fn \in ToSet(now)
          BY <1>8, <2>1 DEF ToSet
        <5>2. ~Uncompilable(fn)
          BY <1>3, <4>7, <5>1
        <5>3. \A k \in 1 .. Len(dicts) : ~(dicts[k].how = "name" /\ dicts[k].to \in dict_passing_fns)
          BY <2>4, <3>5, <4>2, <5>2, Zenon DEF Uncompilable
        <5>4. \A k \in 1 .. Len(dicts) : dicts[k].how = "name" => dicts[k].to \notin DOMAIN purged_specs
          <6> TAKE k \in 1 .. Len(dicts)
          <6>1. dicts[k].how = "dicts" \/ (dicts[k] = calls[k] /\ k \in 1 .. Len(calls))
            BY <4>2, <4>3
          <6> QED
            BY <4>1, <6>1
        <5> QED
          BY <1>5, <3>5, <5>3, <5>4 DEF SettledCalls
      <4> QED
        BY <4>4, <4>5, <4>6, <4>7, Zenon DEF Proper
    <3> QED
      BY <2>1, <3>5, <3>6, Zenon
  <2> QED
    BY <2>3, <2>4
<1> QED
  BY <1>2, <1>3, <1>5, <1>6, <1>7, <1>8, <1>9, JoinsKept

LEMMA CallsInitial == MonoInit => CallsInv
<1> SUFFICES ASSUME MonoInit
             PROVE  CallsInv
  OBVIOUS
<1>1. /\ phase = "walk" /\ todo = compiled.order /\ batch = {} /\ rewritten = {}
      /\ stack = <<>> /\ specializations = {} /\ generated = <<>> /\ result_fns = <<>>
      /\ dict_passing_fns = {} /\ DOMAIN purged_specs = {}
  BY DEF MonoInit
<1>2. Phased
  BY <1>1 DEF Phased
<1>3. \A f \in FunNames : Placed(f)
  BY <1>1 DEF FunNames, Placed
<1>4. \A fr : ~Listed(stack, fr) /\ ~Listed(result_fns, fr) /\ ~Listed(generated, fr)
  BY <1>1, NothingUnderWay, Zenon
<1>5. \A n, to : ~Replacement(n, to)
  BY <1>1 DEF Replacement
<1> QED
  BY <1>1, <1>2, <1>3, <1>4, <1>5, Zenon DEF CallsInv

LEMMA CallsStutter == ASSUME MonoInv, CallsInv, UNCHANGED monoVars PROVE CallsInv'
<1>1. /\ compiled' = compiled /\ phase' = phase /\ todo' = todo /\ batch' = batch /\ rewritten' = rewritten
      /\ stack' = stack /\ specializations' = specializations /\ generated' = generated
      /\ result_fns' = result_fns
      /\ arity_only_fns' = arity_only_fns /\ dict_passing_counts' = dict_passing_counts
      /\ dict_passing_fns' = dict_passing_fns
      /\ purged_specs' = purged_specs /\ errors' = errors /\ deferred_errors' = deferred_errors
  BY DEF monoVars
<1>2. FunNames' = FunNames /\ \A f : Original(f)' = Original(f)
  BY <1>1, Same, Zenon
<1>3. /\ \A n : LiveName(n)' <=> LiveName(n)
      /\ \A c : LiveCall(c)' <=> LiveCall(c)
      /\ \A fr : UsesFit(fr)' <=> UsesFit(fr)
  BY <1>1, SameCalls, Zenon
<1>4. /\ \A name, calls : AllFit(name, calls) => AllFit(name, calls)'
      /\ \A name, to : Redirected(name, to) => Redirected(name, to)'
  BY <1>1, FitsStay
<1>5. \A calls : SettledCalls(calls) => SettledCalls(calls)'
  BY <1>1, Zenon DEF SettledCalls
<1>6. \A fn : Proper(fn) => Proper(fn)'
  BY <1>1, <1>3, <1>4, <1>5, Zenon DEF Proper
<1>7. \A fr : ProperFrame(fr) => ProperFrame(fr)'
  BY <1>1, <1>3, <1>4, Zenon DEF ProperFrame
<1>8. Phased' /\ \A f \in FunNames : Placed(f)'
  BY <1>1, <1>2, Zenon DEF CallsInv, Phased, Placed
<1>9. \A n, to : Replacement(n, to)' => Replacement(n, to)
  BY <1>1 DEF Replacement
<1> QED
  BY <1>1, <1>2, <1>3, <1>4, <1>6, <1>7, <1>8, <1>9, Zenon DEF CallsInv

\* Every step of the pass keeps the invariant, and it holds from the start.
LEMMA CallsInvariant == MonoSpec => [](MonoInv /\ CallsInv)
<1>1. ASSUME MonoInv, CallsInv, [MonoNext]_monoVars
      PROVE  CallsInv'
  <2>1. CASE NextOriginal BY <1>1, <2>1, NextOriginalKept
  <2>2. CASE UseHidden BY <1>1, <2>2, UseHiddenKept
  <2>3. CASE UseByName BY <1>1, <2>3, UseByNameKept
  <2>4. CASE UseExisting BY <1>1, <2>4, UseExistingKept
  <2>5. CASE UseExhausted BY <1>1, <2>5, UseExhaustedKept
  <2>6. CASE UseNew BY <1>1, <2>6, UseNewKept
  <2>7. CASE UseTrips BY <1>1, <2>7, UseTripsKept
  <2>8. CASE PurgeWidening BY <1>1, <2>8, PurgeWideningKept
  <2>9. CASE PurgePlain BY <1>1, <2>9, PurgePlainKept
  <2>10. CASE TripDone BY <1>1, <2>10, TripDoneKept
  <2>11. CASE CopyDone BY <1>1, <2>11, CopyDoneKept
  <2>12. CASE OriginalDone BY <1>1, <2>12, OriginalDoneKept
  <2>13. CASE DictDone BY <1>1, <2>13, DictDoneKept
  <2>14. CASE Redirect BY <1>1, <2>14, RedirectKept
  <2>15. CASE NextBatch BY <1>1, <2>15, NextBatchKept
  <2>16. CASE RewriteNext BY <1>1, <2>16, RewriteNextKept
  <2>17. CASE RewriteSites BY <1>1, <2>17, RewriteSitesKept
  <2>18. CASE UNCHANGED monoVars BY <1>1, <2>18, CallsStutter
  <2> QED
    BY <1>1, <2>1, <2>2, <2>3, <2>4, <2>5, <2>6, <2>7, <2>8, <2>9, <2>10, <2>11, <2>12, <2>13,
       <2>14, <2>15, <2>16, <2>17, <2>18 DEF MonoNext
<1> QED
  BY <1>1, CallsInitial, SpecializerInvariant, PTL DEF MonoSpec

-------------------------------------------------------------------------------
(* What the program can reach *)

\* Induction over the natural numbers, for a set.
LEMMA AllNumbers ==
    ASSUME NEW S, 0 \in S, \A n \in Nat : n \in S => n + 1 \in S
    PROVE  \A n \in Nat : n \in S
<1> DEFINE Missing == {n \in Nat : n \notin S}
<1> SUFFICES ASSUME Missing # {}
             PROVE  FALSE
  OBVIOUS
<1>1. Missing \subseteq Nat
  OBVIOUS
<1> HIDE DEF Missing
<1>2. PICK m \in Missing : \A i \in Missing : ~(<<i, m>> \in OpToRel(<, Nat))
  BY <1>1, NatLessThanWellFounded, WFMin, Zenon
<1>3. OpToRel(<, Nat) = {ss \in Nat \X Nat : ss[1] < ss[2]}
  BY Zenon DEF OpToRel
<1>4. \A i \in Missing : ~(<<i, m>> \in {ss \in Nat \X Nat : ss[1] < ss[2]})
  BY <1>2, <1>3, Zenon
<1>5. \A i \in Missing : ~(i < m)
  BY <1>1, <1>4
<1>6. m \in Nat /\ m \notin S /\ \A i \in Nat : i \notin S => ~(i < m)
  BY <1>5 DEF Missing
<1>7. m # 0 /\ m - 1 \in Nat
  BY <1>6
<1>8. m - 1 \in S
  BY <1>6, <1>7
<1>9. (m - 1) + 1 \in S
  BY <1>7, <1>8
<1> QED
  BY <1>6, <1>9

\* A function that is defined by what it is at 0 and how it goes on.
LEMMA Iterated ==
    ASSUME NEW T, NEW start \in T, NEW step \in [T -> T]
    PROVE  \E F \in [Nat -> T] : F[0] = start /\ \A n \in Nat \ {0} : F[n] = step[F[n - 1]]
<1> DEFINE Run(g, m) == g \in [0 .. m -> T] /\ g[0] = start /\ \A i \in 1 .. m : g[i] = step[g[i - 1]]
           Long == {m \in Nat : \E g : Run(g, m)}
           Same1 == {n \in Nat : \A m, k \in Nat : \A g, h :
                        n <= m /\ n <= k /\ Run(g, m) /\ Run(h, k) => g[n] = h[n]}
<1>1. \A m \in Nat : \E g : Run(g, m)
  <2>1. 0 \in Long
    <3>1. PICK g : g = [i \in 0 .. 0 |-> start]
      OBVIOUS
    <3>2. Run(g, 0)
      BY <3>1
    <3> QED
      BY <3>2
  <2>2. ASSUME NEW m \in Nat, m \in Long
        PROVE  m + 1 \in Long
    <3>1. PICK g : Run(g, m)
      BY <2>2
    <3>2. PICK h : h = [i \in 0 .. m + 1 |-> IF i = m + 1 THEN step[g[m]] ELSE g[i]]
      OBVIOUS
    <3>3. h \in [0 .. m + 1 -> T] /\ h[0] = start
      BY <3>1, <3>2
    <3>4. \A i \in 1 .. m + 1 : h[i] = step[h[i - 1]]
      <4> TAKE i \in 1 .. m + 1
      <4>1. CASE i = m + 1
        BY <3>2, <4>1
      <4>2. CASE i # m + 1
        <5>1. i \in 1 .. m /\ i - 1 \in 0 .. m
          BY <4>2
        <5> QED
          BY <3>1, <3>2, <5>1
      <4> QED
        BY <4>1, <4>2
    <3>5. Run(h, m + 1)
      BY <3>3, <3>4
    <3> HIDE DEF Run
    <3> QED
      BY <3>5
  <2> HIDE DEF Run
  <2>3. \A m \in Nat : m \in Long
    <3> HIDE DEF Long
    <3> QED
      BY <2>1, <2>2, AllNumbers
  <2> QED
    BY <2>3
<1>2. \A n \in Nat : n \in Same1
  <2>1. 0 \in Same1
    OBVIOUS
  <2>2. ASSUME NEW n \in Nat, n \in Same1
        PROVE  n + 1 \in Same1
    <3> SUFFICES ASSUME NEW m \in Nat, NEW k \in Nat, NEW g, NEW h,
                        n + 1 <= m, n + 1 <= k, Run(g, m), Run(h, k)
                 PROVE  g[n + 1] = h[n + 1]
      <4>1. n + 1 \in Nat
        OBVIOUS
      <4> HIDE DEF Run
      <4> QED
        BY <4>1
    <3>1. g[n] = h[n]
      <4>1. n <= m /\ n <= k
        OBVIOUS
      <4> HIDE DEF Run
      <4> QED
        BY <2>2, <4>1
    <3>2. g[n + 1] = step[g[n]] /\ h[n + 1] = step[h[n]]
      <4>1. n + 1 \in 1 .. m /\ n + 1 \in 1 .. k /\ (n + 1) - 1 = n
        OBVIOUS
      <4> QED
        BY <4>1
    <3> QED
      BY <3>1, <3>2
  <2> HIDE DEF Same1
  <2> QED
    BY <2>1, <2>2, AllNumbers
<1> DEFINE Nth(n) == CHOOSE g : Run(g, n)
           F == [n \in Nat |-> Nth(n)[n]]
<1>3. \A n \in Nat : Run(Nth(n), n)
  <2> HIDE DEF Run
  <2> QED
    BY <1>1
<1>4. \A n \in Nat : Nth(n)[n] \in T
  <2> TAKE n \in Nat
  <2>1. PICK g : g = Nth(n)
    OBVIOUS
  <2>2. Run(g, n)
    BY <1>3, <2>1, Zenon
  <2>3. g[n] \in T
    BY <2>2
  <2> QED
    BY <2>1, <2>3
<1>5. Nth(0)[0] = start
  <2>1. PICK g : g = Nth(0)
    OBVIOUS
  <2>2. Run(g, 0)
    BY <1>3, <2>1
  <2> HIDE DEF Nth
  <2> QED
    BY <2>1, <2>2
<1>6. ASSUME NEW n \in Nat \ {0}
      PROVE  Nth(n)[n] = step[Nth(n - 1)[n - 1]]
  <2>1. PICK g, h, m : g = Nth(n) /\ h = Nth(m) /\ m = n - 1
    OBVIOUS
  <2>2. Run(g, n) /\ Run(h, m) /\ m \in Nat
    <3>1. n \in Nat /\ m \in Nat
      BY <2>1
    <3> HIDE DEF Nth, Run
    <3> QED
      BY <1>3, <2>1, <3>1
  <2>3. g[m] = h[m]
    <3> HIDE DEF Nth, Run
    <3>1. m <= n /\ m <= m /\ n \in Nat
      BY <2>1, <2>2
    <3>2. m \in Same1
      <4> HIDE DEF Same1
      <4> QED
        BY <1>2, <2>2
    <3> QED
      BY <2>2, <3>1, <3>2
  <2>4. g[n] = step[g[m]]
    <3> HIDE DEF Nth
    <3>1. n \in 1 .. n /\ n - 1 = m
      BY <2>1
    <3>2. g[n] = step[g[n - 1]]
      BY <2>2, <3>1
    <3> QED
      BY <3>1, <3>2
  <2> HIDE DEF Nth
  <2> QED
    BY <2>1, <2>3, <2>4
<1>7. F \in [Nat -> T] /\ F[0] = start /\ \A n \in Nat \ {0} : F[n] = step[F[n - 1]]
  <2> HIDE DEF Nth
  <2>1. \A n \in Nat \ {0} : n \in Nat /\ n - 1 \in Nat
    OBVIOUS
  <2> QED
    BY <1>4, <1>5, <1>6, <2>1
<1> HIDE DEF F
<1> QED
  BY <1>7

\* The names that the functions of some names call.
CalledBy(R) == UNION {{c.to : c \in ToSet(fn.calls)} : fn \in {g \in Emitted : g.name \in R}}

\* Reached is what its definition says: there is a function that solves it.
LEMMA ReachedIs ==
    ASSUME CopiesTyped
    PROVE  /\ Reached[0] = {Original(MainFn)}
           /\ \A n \in Nat \ {0} : Reached[n] = Reached[n - 1] \cup CalledBy(Reached[n - 1])
<1> DEFINE Known == NameSet \cup {Original(MainFn)}
<1>1. \A R \in SUBSET Known : R \cup CalledBy(R) \in SUBSET Known
  <2>1. \A fn \in Emitted : fn \in FunctionSet
    BY DEF CopiesTyped, Emitted, ToSet
  <2>2. \A fn \in FunctionSet : \A c \in ToSet(fn.calls) : c.to \in NameSet
    <3> SUFFICES ASSUME NEW calls \in Seq(Calls), NEW i \in DOMAIN calls
                 PROVE  calls[i].to \in NameSet
      BY Zenon DEF FunctionSet, ToSet
    <3>1. calls[i] \in Calls
      OBVIOUS
    <3> QED
      BY <3>1 DEF Calls
  <2> QED
    BY <2>1, <2>2 DEF CalledBy
<1>2. PICK start, step, T : T = SUBSET Known /\ start = {Original(MainFn)}
                                /\ step = [R \in T |-> R \cup CalledBy(R)]
  OBVIOUS
<1>3. start \in T /\ step \in [T -> T]
  BY <1>1, <1>2
<1>4. PICK F \in [Nat -> T] : F[0] = start /\ \A n \in Nat \ {0} : F[n] = step[F[n - 1]]
  <2> HIDE <1>2 DEF Known
  <2> QED
    BY <1>3, Iterated
<1>5. \A n \in Nat \ {0} : n - 1 \in Nat
  OBVIOUS
<1>6. \A n \in Nat \ {0} : F[n] = F[n - 1] \cup CalledBy(F[n - 1])
  BY <1>2, <1>4, <1>5
<1> DEFINE Solves(G) == G = [n \in Nat |-> IF n = 0 THEN {Original(MainFn)}
                                           ELSE G[n - 1] \cup CalledBy(G[n - 1])]
<1>7. Solves(F)
  BY <1>2, <1>4, <1>6
<1>8. Reached = CHOOSE G : Solves(G)
  BY DEF Reached, CalledBy
<1>9. Solves(Reached)
  <2> HIDE DEF Solves
  <2> QED
    BY <1>7, <1>8
<1> QED
  BY <1>9, <1>5

\* What is reached stays among names that call one another only.
LEMMA ReachedStays ==
    ASSUME CopiesTyped, NEW R, Original(MainFn) \in R, CalledBy(R) \subseteq R
    PROVE  \A n \in Nat : Reached[n] \subseteq R
<1> DEFINE Within == {n \in Nat : Reached[n] \subseteq R}
<1>1. 0 \in Within
  BY ReachedIs
<1>2. ASSUME NEW n \in Nat, n \in Within
      PROVE  n + 1 \in Within
  <2>1. n + 1 \in Nat \ {0} /\ (n + 1) - 1 = n
    OBVIOUS
  <2>2. Reached[n + 1] = Reached[n] \cup CalledBy(Reached[n])
    BY <2>1, ReachedIs
  <2>3. Reached[n] \subseteq R
    BY <1>2
  <2>4. CalledBy(Reached[n]) \subseteq CalledBy(R)
    BY <2>3 DEF CalledBy
  <2> QED
    BY <2>1, <2>2, <2>3, <2>4
<1> HIDE DEF Within
<1>3. \A n \in Nat : n \in Within
  BY <1>1, <1>2, AllNumbers
<1> QED
  BY <1>3 DEF Within

\* Without errors every function that an accepted program reaches, and that is not
\* constrained or a copy of its own, is dictionary-passing.
LEMMA ReachedAre ==
    ASSUME MonoInv, CallsInv, phase = "done", errors = {}
    PROVE  \A fn \in Reachable :
               fn \in Emitted /\ (fn.name.copy \/ ~Constrained(fn.name.fun) \/ fn.name \in dict_passing_fns)
<1> DEFINE Sure(n) == n.copy \/ ~Constrained(n.fun) \/ n \in dict_passing_fns
           Known == NameSet \cup {Original(MainFn)}
           R == {n \in Known : Sure(n)}
<1>0. CopiesTyped
  BY DEF MonoInv
<1>1. Original(MainFn) \in R
  <2>1. compiled \in Programs
    BY DEF MonoInv, Frames
  <2>2. ~Constrained(MainFn)
    BY <2>1, SpecializerAssumption DEF Constrained
  <2>3. Original(MainFn).fun = MainFn
    BY DEF Original
  <2> QED
    BY <2>2, <2>3
<1>2. \A fn \in Emitted : fn \in FunctionSet /\ Proper(fn)
  <2>1. generated = <<>>
    BY DEF CallsInv, Phased
  <2>2. ASSUME NEW i \in DOMAIN result_fns
        PROVE  result_fns[i] \in FunctionSet /\ Proper(result_fns[i])
    <3>1. i \in 1 .. Len(result_fns) /\ result_fns[i] \in FunctionSet
      BY <1>0 DEF CopiesTyped
    <3>2. Listed(result_fns, result_fns[i])
      BY <3>1 DEF Listed
    <3> QED
      BY <3>1, <3>2 DEF CallsInv
  <2> QED
    BY <2>1, <2>2 DEF Emitted, ToSet
<1>3. ASSUME NEW fn \in Emitted, fn.name \in R, NEW c \in ToSet(fn.calls)
      PROVE  c.to \in R
  <2>0. fn \in FunctionSet /\ Proper(fn)
    BY <1>2
  <2>1. PICK k \in 1 .. Len(fn.calls) : c = fn.calls[k]
    BY <2>0 DEF FunctionSet, ToSet
  <2>2. fn.calls \in Seq(Calls) /\ fn.form \in {"plain", "dict", "raw"}
    BY <2>0, Zenon DEF FunctionSet
  <2>3. c.to \in NameSet /\ c.how \in {"name", "dicts"}
    <3>1. c \in Calls
      BY <2>1, <2>2
    <3> QED
      BY <3>1, Zenon DEF Calls
  <2>4. Fits(fn.name, c)
    BY <2>0, <2>1, Zenon DEF Proper, AllFit
  <2>5. Sure(c.to)
    <3>1. CASE c.how = "dicts"
      BY <2>4, <3>1 DEF Fits
    <3>2. CASE c.how = "name" /\ c.to.copy
      BY <3>2
    <3>3. CASE c.how = "name" /\ ~c.to.copy
      <4>1. c.to = Original(c.to.fun) /\ c.to.fun \notin errors
        BY <2>4, <3>3 DEF Fits
      <4>2. CASE LiveCall(c) /\ LiveName(fn.name)
        <5>1. fn.name \in dict_passing_fns
          <6>1. Constrained(fn.name.fun)
            BY <4>2 DEF LiveName, Live
          <6>2. fn.name.copy => fn.name \in dict_passing_fns
            BY <2>0, <4>2, Zenon DEF Proper
          <6> QED
            BY <1>3, <6>1, <6>2
        <5>2. ~(fn.form = "plain")
          <6>1. fn.name \in rewritten /\ stack = <<>>
            BY <5>1 DEF CallsInv, Phased
          <6>2. ~DictIn(stack, fn.name)
            BY <6>1 DEF DictIn
          <6> QED
            BY <2>0, <5>1, <6>1, <6>2, Zenon DEF Proper
        <5>3. ~(fn.form = "raw")
          <6>1. fn.form = "raw" => fn.calls = <<>>
            BY <2>0, Zenon DEF Proper
          <6> QED
            BY <2>1, <6>1
        <5>4. ~(fn.form = "dict")
          <6>1. fn.form = "dict" => ~LiveCall(c)
            BY <2>0, <2>1, <3>3, Zenon DEF Proper
          <6> QED
            BY <4>2, <6>1
        <5> QED
          BY <2>2, <5>2, <5>3, <5>4
      <4>3. CASE Shared(c.to.fun)
        <5>1. c.to.fun \notin compiled.constrained
          BY <1>0, <4>3 DEF CopiesTyped, Shared
        <5> QED
          BY <5>1 DEF Constrained
      <4>4. CASE c.to \in dict_passing_fns
        BY <4>4
      <4> QED
        BY <2>4, <3>3, <4>1, <4>2, <4>3, <4>4, Zenon DEF Fits
    <3> QED
      BY <2>3, <3>1, <3>2, <3>3
  <2> QED
    BY <2>3, <2>5
<1>4. CalledBy(R) \subseteq R
  <2> HIDE DEF R
  <2> SUFFICES ASSUME NEW fn \in Emitted, fn.name \in R, NEW c \in ToSet(fn.calls)
               PROVE  c.to \in R
    BY DEF CalledBy
  <2> QED
    BY <1>3
<1>5. Reached[Len(result_fns)] \subseteq R
  <2>1. Len(result_fns) \in Nat
    BY <1>0 DEF CopiesTyped
  <2> HIDE DEF R
  <2> QED
    BY <1>0, <1>1, <1>4, <2>1, ReachedStays
<1>6. ASSUME NEW fn \in Reachable
      PROVE  fn \in Emitted /\ fn.name \in R
  BY <1>5, Zenon DEF Reachable
<1> QED
  BY <1>6

\* In an accepted program every call by name that a plain function can make reaches a
\* plain function that takes its arguments.
LEMMA ServedCalls == ASSUME MonoInv, CallsInv PROVE NamedCallsServed
<1> SUFFICES ASSUME Accepted, NEW fn \in Reachable, fn.form = "plain", NEW c \in CallsOf(fn, "name")
             PROVE  Serves(c, "plain")
  BY Zenon DEF NamedCallsServed
<1>0. phase = "done" /\ errors = {} /\ fn.name \notin deferred_errors
  BY DEF Accepted
<1>1. fn \in Emitted /\ (fn.name.copy \/ ~Constrained(fn.name.fun) \/ fn.name \in dict_passing_fns)
  BY <1>0, ReachedAre
<1>2. stack = <<>> /\ generated = <<>> /\ todo = <<>> /\ dict_passing_fns \subseteq rewritten
  BY <1>0 DEF CallsInv, Phased
<1>3. PICK j \in 1 .. Len(result_fns) : fn = result_fns[j]
  <2>1. result_fns \in Seq(FunctionSet)
    BY DEF MonoInv, CopiesTyped
  <2> QED
    BY <1>1, <1>2, <2>1 DEF Emitted, ToSet
<1>4. \A i \in 1 .. Len(result_fns) : result_fns[i] \in FunctionSet /\ Proper(result_fns[i])
  <2>1. result_fns \in Seq(FunctionSet)
    BY DEF MonoInv, CopiesTyped
  <2>2. \A i \in 1 .. Len(result_fns) : Listed(result_fns, result_fns[i])
    BY DEF Listed
  <2> QED
    BY <2>1, <2>2 DEF CallsInv
<1>5. fn \in FunctionSet /\ Proper(fn)
  BY <1>3, <1>4
<1>6. PICK k \in 1 .. Len(fn.calls) : c = fn.calls[k] /\ c.how = "name"
  <2>1. fn.calls \in Seq(Calls)
    BY <1>5 DEF FunctionSet
  <2> QED
    BY <2>1 DEF CallsOf, ToSet
<1>7. c.to \in NameSet
  <2>1. fn.calls \in Seq(Calls)
    BY <1>5 DEF FunctionSet
  <2>2. c \in Calls
    BY <1>6, <2>1
  <2> QED
    BY <2>2 DEF Calls
<1>8. \A name : ~DictIn(stack, name) /\ ~WalkedIn(stack, name) /\ ~MadeAs(name)
                  /\ ~GoneIn(stack, name) /\ ~KeptIn(stack, name)
  BY <1>2 DEF DictIn, WalkedIn, MadeAs, MadeIn, GoneIn, KeptIn
<1>9. fn.name \notin dict_passing_fns
  BY <1>2, <1>5, <1>8, Zenon DEF Proper
<1>10. c.to \notin dict_passing_fns /\ c.to \notin DOMAIN purged_specs
  <2>1. SettledCalls(fn.calls)
    BY <1>0, <1>5, <1>9, Zenon DEF Proper
  <2> QED
    BY <1>6, <2>1 DEF SettledCalls
<1>11. EmittedIn(result_fns, c.to)
  <2>1. CASE c.to.copy
    <3>1. Called(c.to)
      BY <1>3, <1>6 DEF Called, CalledIn, CallsTo
    <3>2. DefinedAs(c.to)
      BY <1>7, <1>8, <1>10, <2>1, <3>1, Zenon DEF MonoInv, Named, Leads
    <3>3. EmittedAs(c.to)
      BY <1>8, <3>2, Zenon DEF DefinedAs
    <3>4. ~EmittedIn(generated, c.to)
      BY <1>2 DEF EmittedIn
    <3> QED
      BY <3>3, <3>4, Zenon DEF EmittedAs
  <2>2. CASE ~c.to.copy
    <3>1. c.to = Original(c.to.fun)
      BY <1>5, <1>6, <2>2 DEF Proper, AllFit, Fits
    <3>2. c.to.fun \in FunNames
      BY <1>7 DEF NameSet
    <3>3. Placed(c.to.fun)
      BY <3>2, Zenon DEF CallsInv
    <3>4. c.to.fun \notin ToSet(todo)
      BY <1>2 DEF ToSet
    <3>5. EmittedIn(result_fns, Original(c.to.fun))
      BY <1>8, <3>3, <3>4, Zenon DEF Placed
    <3> QED
      BY <3>1, <3>5, Zenon
  <2> QED
    BY <2>1, <2>2
<1>12. PICK i \in 1 .. Len(result_fns) : result_fns[i].name = c.to
  BY <1>11 DEF EmittedIn
<1>13. result_fns[i].form = "plain"
  <2>1. result_fns[i].form # "dict"
    <3>1. PICK g : g = result_fns[i]
      OBVIOUS
    <3>2. g.form = "dict" => g.name \in rewritten
      <4>1. Proper(g)
        BY <1>4, <3>1
      <4> QED
        BY <4>1, Zenon DEF Proper
    <3>3. rewritten \subseteq dict_passing_fns
      BY DEF CallsInv, Phased
    <3> QED
      BY <1>10, <1>12, <3>1, <3>2, <3>3
  <2>2. result_fns[i].form # "raw"
    BY <1>4, <1>10, <1>12 DEF Proper
  <2>3. result_fns[i].form \in {"plain", "dict", "raw"}
    BY <1>4 DEF FunctionSet
  <2> QED
    BY <2>1, <2>2, <2>3
<1>14. Arrows(c.to.fun, c.at) = Arity(c.to)
  <2>1. Fits(fn.name, c)
    BY <1>5, <1>6, Zenon DEF Proper, AllFit
  <2>2. CASE c.to.copy /\ Arrows(c.to.fun, c.at) = Arity(c.to)
    BY <2>2
  <2>3. CASE ~(c.to.copy /\ Arrows(c.to.fun, c.at) = Arity(c.to))
    <3>1. /\ c.to = Original(c.to.fun)
          /\ (LiveCall(c) /\ LiveName(fn.name)) \/ Arrows(c.to.fun, c.at) = 0
      BY <1>0, <1>6, <2>1, <2>3 DEF Fits
    <3>2. ~LiveName(fn.name)
      <4>1. fn.name.copy => ~LiveName(fn.name)
        BY <1>5, <1>9, Zenon DEF Proper
      <4> QED
        BY <1>1, <1>9, <4>1 DEF LiveName, Live
    <3>3. ~c.to.copy
      BY <3>1 DEF Original
    <3> QED
      BY <3>1, <3>2, <3>3 DEF Arity
  <2> QED
    BY <2>2, <2>3
<1>15. result_fns[i] \in Emitted
  <2>1. result_fns \in Seq(FunctionSet)
    BY DEF MonoInv, CopiesTyped
  <2> QED
    BY <2>1 DEF Emitted, ToSet
<1> QED
  BY <1>12, <1>13, <1>14, <1>15 DEF Serves, Arity

\* In a program that is accepted every call by name that a plain function can make
\* reaches a plain function that takes as many arguments as the call passes, whatever
\* trips of the cap purged and replaced meanwhile (mono.rs 285-299, 1934-2015).
THEOREM NamedCallsHold == MonoSpec => []NamedCallsServed
<1>1. MonoInv /\ CallsInv => NamedCallsServed
  BY ServedCalls
<1> QED
  BY <1>1, CallsInvariant, PTL

===============================================================================
