--------------------------- MODULE ModuleScopeProofs ---------------------------
(***************************************************************************)
(* The theorems of ModuleScope, for every order of modules, every program  *)
(* text and every Prelude.                                                 *)
(***************************************************************************)
EXTENDS ModuleScope, FunctionTheorems, FiniteSetTheorems, SequenceTheorems, WellFoundedInduction, TLAPS

-------------------------------------------------------------------------------
(* The resolution order *)

Prefix(n) == {Order[j] : j \in 1 .. n}

\* The modules resolved before m.
Earlier(m) == {k \in Mods : \E i, j \in DOMAIN Order : i < j /\ Order[i] = k /\ Order[j] = m}

LEMMA OrderFacts ==
    /\ Len(Order) \in Nat \ {0} /\ DOMAIN Order = 1 .. Len(Order)
    /\ Mods = {Order[i] : i \in 1 .. Len(Order)}
    /\ Root = Order[Len(Order)] /\ Root \in Mods
    /\ \A i, j \in 1 .. Len(Order) : Order[i] = Order[j] => i = j
BY OrderAssumption, LenProperties, EmptySeq DEF Root, Last, Mods, ToSet, IsInjective

\* Order[1], ..., Order[n] are n modules.
LEMMA PrefixCardinality ==
    ASSUME NEW n \in 0 .. Len(Order)
    PROVE  Cardinality(Prefix(n)) = n
<1> DEFINE f == [j \in 1 .. n |-> Order[j]]
<1>1. f \in Bijection(1 .. n, Prefix(n))
  <2>1. f \in [1 .. n -> Prefix(n)] /\ \A j \in 1 .. n : f[j] = Order[j]
    BY DEF Prefix
  <2>2. \A i, j \in 1 .. n : f[i] = f[j] => i = j
    BY <2>1, OrderFacts
  <2>3. \A x \in Prefix(n) : \E j \in 1 .. n : f[j] = x
    BY <2>1 DEF Prefix
  <2> QED BY <2>1, <2>2, <2>3 DEF Bijection, Injection, Surjection, IsInjective
<1>2. ExistsBijection(1 .. n, Prefix(n))
  BY <1>1 DEF ExistsBijection
<1> QED BY <1>2, FS_CountingElements, OrderFacts

\* Importing only from earlier modules excludes oneself and the entry module.
LEMMA EarlierFacts ==
    ASSUME NEW m \in Mods
    PROVE  /\ m \notin Earlier(m) /\ Root \notin Earlier(m)
           /\ \A k \in Earlier(m) : k \in Mods /\ Earlier(k) \subseteq Earlier(m)
BY OrderFacts DEF Earlier

\* The texts of a module import from earlier ones.
LEMMA ImportsEarlier ==
    ASSUME NEW w \in DOMAIN Worlds, NEW m \in Mods, NEW t \in Worlds[w].texts[m]
    PROVE  DOMAIN t.imports \subseteq Earlier(m)
<1>1. PICK i \in 1 .. Len(Order) : Order[i] = m
  BY OrderFacts
<1>2. DOMAIN t.imports \subseteq {Order[j] : j \in 1 .. i - 1}
  BY <1>1, TextsAssumption, OrderFacts
<1> QED BY <1>1, <1>2, OrderFacts DEF Earlier

-------------------------------------------------------------------------------
(* The inductive invariant *)

\* What has been resolved is a prefix of the order; the entry module ends it.
Progress ==
    /\ \E n \in 0 .. Len(Order) :
          DOMAIN text = Prefix(n) /\ (status = "running" => n < Len(Order))
    /\ DOMAIN surface = DOMAIN text /\ DOMAIN withheld = DOMAIN text /\ DOMAIN denotes = DOMAIN text

\* The texts are those of the world; the entry module's was parsed first.
Texts ==
    /\ world \in DOMAIN Worlds /\ root \in Worlds[world].texts[Root]
    /\ \A m \in DOMAIN text : text[m] \in Worlds[world].texts[m] /\ (m = Root => text[m] = root)

\* What was computed when a module was resolved is what would be computed now.
Settles ==
    \A m \in DOMAIN text :
        /\ surface[m] = Offer(m, text[m]) /\ withheld[m] = Withhold(m, text[m])
        /\ denotes[m] = Bindings(m, text[m])
        /\ DeclaresOnce(m, text[m]) /\ ~Collides(m, text[m])

\* A surface passes on what was declared by modules resolved so far.
Origins ==
    \A k \in DOMAIN text : \A e \in surface[k] :
        \/ e \in PreludeEnts
        \/ /\ e.origin \in Earlier(k) \cup {k}
           /\ e \in Own(e.origin, text[e.origin]) /\ e \in surface[e.origin]

Inv == Progress /\ Texts /\ Settles /\ Origins

LEMMA TurnFacts ==
    ASSUME Progress, status = "running"
    PROVE  /\ Turn \in Mods /\ Turn \notin DOMAIN text
           /\ DOMAIN text = Earlier(Turn) /\ Root \notin DOMAIN text
           /\ \E n \in 0 .. Len(Order) :
                 DOMAIN text \cup {Turn} = Prefix(n) /\ (Turn # Root => n < Len(Order))
<1>1. PICK n \in 0 .. Len(Order) : DOMAIN text = Prefix(n) /\ n < Len(Order)
  BY DEF Progress
<1>2. Turn = Order[n + 1]
  BY <1>1, PrefixCardinality DEF Turn
<1>3. n + 1 \in 1 .. Len(Order)
  BY <1>1, OrderFacts
<1>4. DOMAIN text \cup {Turn} = Prefix(n + 1)
  BY <1>1, <1>2, OrderFacts DEF Prefix
<1>5. Turn # Root => n + 1 < Len(Order)
  BY <1>2, <1>3, OrderFacts
<1>6. Turn \in Mods /\ Turn \notin Prefix(n) /\ Root \notin Prefix(n)
  BY <1>1, <1>2, <1>3, OrderFacts DEF Prefix
<1>7. Prefix(n) = Earlier(Turn)
  <2>1. \A k \in Prefix(n) : k \in Earlier(Turn)
    BY <1>1, <1>2, <1>3, OrderFacts DEF Prefix, Earlier
  <2>2. \A k \in Earlier(Turn) : k \in Prefix(n)
    BY <1>1, <1>2, <1>3, OrderFacts DEF Prefix, Earlier
  <2> QED BY <2>1, <2>2
<1> QED BY <1>1, <1>3, <1>4, <1>5, <1>6, <1>7

\* A resolved module's imports are resolved, and so is all they pass on.
LEMMA ResolvedFacts ==
    ASSUME Progress, Texts, NEW m \in DOMAIN text
    PROVE  /\ m \in Mods /\ Earlier(m) \subseteq DOMAIN text
           /\ DOMAIN text[m].imports \subseteq Earlier(m)
           /\ Root \in DOMAIN text => status # "running"
<1>1. PICK n \in 0 .. Len(Order) : DOMAIN text = Prefix(n) /\ (status = "running" => n < Len(Order))
  BY DEF Progress
<1>2. m \in Mods
  BY <1>1, OrderFacts DEF Prefix
<1>3. Earlier(m) \subseteq Prefix(n)
  BY <1>1, OrderFacts DEF Prefix, Earlier
<1>4. Root \in Prefix(n) => n = Len(Order)
  BY OrderFacts DEF Prefix
<1> QED BY <1>1, <1>2, <1>3, <1>4, ImportsEarlier DEF Texts

-------------------------------------------------------------------------------
(* Entities and their canonical names *)

\* What a canonical name is the name of.
Known(e) == e.origin \in Mods \cup {Prelude} /\ (e.origin = Prelude => e \in PreludeEnts)

LEMMA CanonShape ==
    ASSUME NEW ns, NEW m \in Mods \cup {Prelude}, NEW n
    PROVE  \/ Canon(ns, m, n) = <<n>> /\ (m = Prelude \/ (m = Root /\ ~Taken(ns, n)))
           \/ m \in Mods \ {Root} /\ Canon(ns, m, n) = <<m, n>>
           \/ m = Root /\ Canon(ns, m, n) = <<RootPrefix, n>>
<1>1. Prelude \notin Mods
  BY OrderAssumption
<1>2. CASE m = Prelude
  BY <1>1, <1>2, OrderFacts DEF Canon
<1>3. CASE m # Prelude /\ m # Root
  BY <1>3 DEF Canon
<1>4. CASE m # Prelude /\ m = Root
  BY <1>4 DEF Canon
<1> QED BY <1>2, <1>3, <1>4

LEMMA EntityShape ==
    ASSUME NEW e, e.origin \in Mods \cup {Prelude}
    PROVE  \/ CanonOf(e) = <<e.name>> /\ (e.origin = Prelude \/ (e.origin = Root /\ ~Taken(e.ns, e.name)))
           \/ e.origin \in Mods \ {Root} /\ CanonOf(e) = <<e.origin, e.name>>
           \/ e.origin = Root /\ CanonOf(e) = <<RootPrefix, e.name>>
<1>1. CanonOf(e) = Canon(e.ns, e.origin, e.name)
  BY DEF CanonOf
<1> QED BY <1>1, CanonShape, Zenon

\* Within a namespace no two entities share a canonical name; across the two
\* they agree on the name and, but for bare ones, on the module.
LEMMA CanonInjective ==
    ASSUME NEW e, NEW c, Known(e), Known(c), CanonOf(e) = CanonOf(c)
    PROVE  /\ e.name = c.name
           /\ e.ns = c.ns => e.origin = c.origin
           /\ \/ e.origin = c.origin
              \/ /\ e.origin \in {Prelude, Root} /\ c.origin \in {Prelude, Root}
                 /\ CanonOf(e) = <<e.name>>
<1>1. e.origin \in Mods \cup {Prelude} /\ c.origin \in Mods \cup {Prelude}
  BY DEF Known
<1>2. /\ \/ CanonOf(e) = <<e.name>> /\ (e.origin = Prelude \/ (e.origin = Root /\ ~Taken(e.ns, e.name)))
         \/ e.origin \in Mods \ {Root} /\ CanonOf(e) = <<e.origin, e.name>>
         \/ e.origin = Root /\ CanonOf(e) = <<RootPrefix, e.name>>
  BY <1>1, EntityShape
<1>3. /\ \/ CanonOf(c) = <<c.name>> /\ (c.origin = Prelude \/ (c.origin = Root /\ ~Taken(c.ns, c.name)))
         \/ c.origin \in Mods \ {Root} /\ CanonOf(c) = <<c.origin, c.name>>
         \/ c.origin = Root /\ CanonOf(c) = <<RootPrefix, c.name>>
  BY <1>1, EntityShape
<1>4. e.name = c.name
  BY <1>2, <1>3
<1>5. e.origin = c.origin
         \/ (e.origin \in {Prelude, Root} /\ c.origin \in {Prelude, Root} /\ CanonOf(e) = <<e.name>>)
  BY <1>2, <1>3, PrefixAssumption
<1>6. ASSUME e.ns = c.ns PROVE e.origin = c.origin
  <2>1. CASE e.origin = Prelude
    <3>1. Taken(c.ns, c.name)
      BY <1>4, <1>6, <2>1 DEF Known, Taken, Named
    <3>2. Root # Prelude /\ Prelude \notin Mods
      BY OrderFacts, OrderAssumption
    <3>3. c.origin # Root
      <4>1. CanonOf(c) = <<e.name>>
        BY <1>2, <2>1, <3>2
      <4>2. CanonOf(c) # <<RootPrefix, c.name>>
        BY <4>1
      <4> QED BY <1>3, <3>1, <3>2, <4>2
    <3> QED BY <1>5, <2>1, <3>2, <3>3
  <2>2. CASE c.origin = Prelude
    <3>1. Taken(e.ns, e.name)
      BY <1>4, <1>6, <2>2 DEF Known, Taken, Named
    <3> QED BY <1>2, <1>3, <1>5, <2>2, <3>1, OrderAssumption
  <2> QED BY <1>5, <2>1, <2>2
<1> QED BY <1>4, <1>5, <1>6

LEMMA OneIsNotTwo ==
    ASSUME NEW x, NEW y, NEW z
    PROVE  <<x>> # <<y, z>>
OBVIOUS

\* A canonical name is none of the placeholders.
LEMMA CanonNoError ==
    ASSUME NEW e, Known(e), e.name \in Names
    PROVE  /\ CanonOf(e) \notin Errors
           /\ CanonOf(e) \in {<<n>> : n \in Names} \cup ((Mods \cup {RootPrefix}) \X Names)
<1>1. e.origin \in Mods \cup {Prelude}
  BY DEF Known
<1>2. CanonOf(e) = <<e.name>> \/ \E p \in Mods \cup {RootPrefix} : CanonOf(e) = <<p, e.name>>
  BY <1>1, EntityShape
<1>3. CASE CanonOf(e) = <<e.name>>
  <2>1. <<e.name>> \notin Errors
    BY ErrorsAssumption
  <2>2. <<e.name>> \in {<<n>> : n \in Names}
    OBVIOUS
  <2> QED BY <1>3, <2>1, <2>2
<1>4. CASE \E p \in Mods \cup {RootPrefix} : CanonOf(e) = <<p, e.name>>
  <2>1. PICK p \in Mods \cup {RootPrefix} : CanonOf(e) = <<p, e.name>>
    BY <1>4
  <2>2. <<p, e.name>> \in (Mods \cup {RootPrefix}) \X Names
    BY <2>1
  <2>3. <<p, e.name>> \notin Errors
    <3> DEFINE c == <<p, e.name>>
    <3>1. Len(c) = 2
      OBVIOUS
    <3>2. \A x : Len(<<x>>) = 1
      OBVIOUS
    <3>3. \A x \in Errors : Len(x) = 1
      BY <3>2 DEF Errors, Ambiguous, LeftOut, NotExported, Unbound
    <3> QED BY <3>1, <3>3
  <2> QED BY <2>1, <2>2, <2>3
<1> QED BY <1>2, <1>3, <1>4

\* A module's own entities come from it; its types are declared.
LEMMA OwnFacts ==
    ASSUME NEW m, NEW t, NEW e \in Own(m, t)
    PROVE  /\ e.origin = m
           /\ e \in Declared(m, t) \/ (e.ns = "con" /\ e \in Settled(m, t))
BY DEF Own, Declared, Settled

LEMMA OwnTyped ==
    ASSUME NEW w \in DOMAIN Worlds, NEW m \in Mods, NEW t \in Worlds[w].texts[m], NEW e \in Own(m, t)
    PROVE  e.ns \in Namespaces /\ e.name \in Names
<1>1. CASE e \in Declared(m, t)
  BY <1>1, DeclarationsAssumption DEF Declared
<1>2. CASE e.ns = "con" /\ e \in Settled(m, t)
  <2>1. PICK nt \in t.newtypes : e.name \in {nt.name, nt.head}
    BY <1>2 DEF Settled
  <2>2. nt.head \in Names /\ nt.name \in Names
    BY DeclarationsAssumption
  <2> QED BY <1>2, <2>1, <2>2 DEF Namespaces
<1> QED BY <1>1, <1>2, OwnFacts

-------------------------------------------------------------------------------
(* What the invariant says of entities *)

\* The entities the resolved modules and the Prelude declare.
Sources == PreludeEnts \cup UNION {Own(k, text[k]) : k \in DOMAIN text}

LEMMA SourceFacts ==
    ASSUME Inv, NEW e \in Sources
    PROVE  /\ Known(e) /\ e \in Entities /\ e.ns \in Namespaces /\ e.name \in Names
           /\ e.origin \in DOMAIN text \cup {Prelude}
           /\ \A c \in Sources : c.ns = e.ns /\ c.name = e.name /\ c.origin = e.origin => c = e
<1>1. world \in DOMAIN Worlds
  BY DEF Inv, Texts
<1>2. CASE e \in PreludeEnts
  <2>1. e.origin = Prelude /\ e.ns \in Namespaces /\ e.name \in Names /\ Prelude \notin Mods
    BY <1>1, <1>2, PreludeAssumption, OrderAssumption DEF PreludeEnts
  <2>2. \A c \in PreludeEnts : c.ns = e.ns /\ c.name = e.name => c = e
    BY <1>1, <1>2, PreludeAssumption DEF PreludeEnts
  <2>3. \A k \in DOMAIN text : k \in Mods /\ \A c \in Own(k, text[k]) : c.origin = k
    BY OwnFacts, ResolvedFacts DEF Inv
  <2> QED BY <1>2, <2>1, <2>2, <2>3 DEF Known, Entities, Sources
<1>3. CASE e \notin PreludeEnts
  <2>1. PICK k \in DOMAIN text : e \in Own(k, text[k])
    BY <1>3 DEF Sources
  <2>2. k \in Mods /\ e.origin = k /\ Prelude \notin Mods
    BY <2>1, OwnFacts, ResolvedFacts, OrderAssumption DEF Inv
  <2>3. e.ns \in Namespaces /\ e.name \in Names
    BY <1>1, <2>1, <2>2, OwnTyped DEF Inv, Texts
  <2>4. \A c \in Sources : c.origin = k => c \in Own(k, text[k])
    <3>1. \A c \in PreludeEnts : c.origin = Prelude
      BY <1>1, PreludeAssumption DEF PreludeEnts
    <3>2. \A j \in DOMAIN text : \A c \in Own(j, text[j]) : c.origin = j
      BY OwnFacts
    <3> QED BY <2>2, <3>1, <3>2 DEF Sources
  <2>5. DeclaresOnce(k, text[k])
    BY DEF Inv, Settles
  <2> QED BY <2>1, <2>2, <2>3, <2>4, <2>5 DEF Known, Entities, DeclaresOnce
<1> QED BY <1>2, <1>3

LEMMA PreludeOrigin ==
    ASSUME Inv, NEW p \in PreludeEnts
    PROVE  p.origin = Prelude /\ p.ns \in Namespaces /\ p.name \in Names
BY PreludeAssumption DEF PreludeEnts, Inv, Texts

LEMMA EntityKnown ==
    ASSUME Inv, NEW e \in Entities
    PROVE  Known(e) /\ e.ns \in Namespaces /\ e.name \in Names
<1>1. CASE e \in Declared(Root, root)
  <2>1. e.origin = Root /\ e \in Own(Root, root)
    BY <1>1 DEF Declared, Own
  <2>2. world \in DOMAIN Worlds /\ root \in Worlds[world].texts[Root]
    BY DEF Inv, Texts
  <2> QED BY <2>1, <2>2, OwnTyped, OrderFacts, OrderAssumption DEF Known
<1>2. CASE e \in Sources
  BY <1>2, SourceFacts
<1> QED BY <1>1, <1>2 DEF Entities, Sources

\* What a surface offers and an import brings in.
LEMMA SurfaceSources ==
    ASSUME Inv, NEW k \in DOMAIN text, NEW e \in surface[k]
    PROVE  e \in Sources /\ (e \notin PreludeEnts => e.origin \in Earlier(k) \cup {k})
<1>1. Earlier(k) \subseteq DOMAIN text
  BY ResolvedFacts DEF Inv
<1> QED BY <1>1 DEF Inv, Origins, Sources

LEMMA ImpSources ==
    ASSUME Inv, NEW m \in DOMAIN text, NEW e \in Imp(text[m])
    PROVE  e \in Sources /\ (e \notin PreludeEnts => e.origin \in Earlier(m))
<1>1. PICK k \in DOMAIN text[m].imports : e \in surface[k]
  BY DEF Imp
<1>2. m \in Mods /\ k \in Earlier(m) /\ k \in DOMAIN text
  BY ResolvedFacts DEF Inv
<1>3. k \in Mods /\ Earlier(k) \subseteq Earlier(m)
  BY <1>2, EarlierFacts
<1> QED BY <1>1, <1>2, <1>3, SurfaceSources

\* No other entity has the name and the module of one that is declared.
LEMMA EntityUnique ==
    ASSUME Inv, NEW e \in Entities, NEW c \in Sources, e.ns = c.ns, CanonOf(e) = CanonOf(c)
    PROVE  e = c
<1>1. Known(e)
  BY EntityKnown
<1>2. e.name = c.name /\ e.origin = c.origin
  BY <1>1, SourceFacts, CanonInjective
<1>3. e \in Sources
  <2>1. CASE e \in Declared(Root, root)
    <3>1. c.origin = Root
      BY <1>2, <2>1 DEF Declared
    <3>2. Root \in DOMAIN text
      BY <3>1, SourceFacts, OrderFacts, OrderAssumption
    <3>3. text[Root] = root
      BY <3>2 DEF Inv, Texts
    <3> QED BY <2>1, <3>2, <3>3 DEF Sources, Own
  <2> QED BY <2>1 DEF Entities, Sources
<1> QED BY <1>2, <1>3, SourceFacts

-------------------------------------------------------------------------------
(* What a reference may denote *)

LEMMA DenotedFacts ==
    ASSUME NEW E, E # {}
    PROVE  Denoted(E) = Ambiguous \/ \E c \in E : Denoted(E) = CanonOf(c)
<1>1. (CHOOSE e \in E : TRUE) \in E
  OBVIOUS
<1> QED BY <1>1 DEF Denoted

\* A bare name means a module's own entity before an imported one, either
\* before the Prelude's, and stays as written only if no entity has the name.
LEMMA BareFacts ==
    ASSUME NEW m, NEW t, NEW ns, NEW n
    PROVE  LET b == Bare(m, t, ns, n)
               own == Named(Own(m, t), ns, n)
               cands == Named(Imp(t), ns, n)
               prel == Named(PreludeEnts, ns, n)
           IN  \/ own \cup cands # {} /\ b = Ambiguous
               \/ \E c \in own : b = CanonOf(c)
               \/ own = {} /\ \E c \in cands : b = CanonOf(c)
               \/ own \cup cands = {} /\ \E p \in prel : PreludeVisible(t, p) /\ b = <<n>>
               \/ own \cup cands = {} /\ b \in {LeftOut, NotExported, Unbound}
               \/ own \cup cands \cup prel = {} /\ b = <<n>> /\ (m = Root \/ n \notin RootNames(ns))
<1> DEFINE b == Bare(m, t, ns, n)
           own == Named(Own(m, t), ns, n)
           cands == Named(Imp(t), ns, n)
           prel == Named(PreludeEnts, ns, n)
<1>1. CASE own # {}
  <2>1. b = Denoted(own)
    BY <1>1 DEF Bare
  <2> QED BY <1>1, <2>1, DenotedFacts
<1>2. CASE own = {} /\ cands # {}
  <2>1. b = Denoted(cands)
    BY <1>2 DEF Bare
  <2> QED BY <1>2, <2>1, DenotedFacts
<1>3. CASE own \cup cands = {} /\ prel # {}
  <2>1. b = IF \E e \in prel : PreludeVisible(t, e) THEN <<n>> ELSE LeftOut
    BY <1>3 DEF Bare
  <2> QED BY <1>3, <2>1
<1>4. CASE own \cup cands \cup prel = {}
  <2>1. b = CASE <<ns, n>> \in Hidden(t) -> NotExported
              [] <<ns, n>> \notin Hidden(t) /\ m # Root /\ n \in RootNames(ns) -> Unbound
              [] OTHER -> <<n>>
    BY <1>4 DEF Bare
  <2> QED BY <1>4, <2>1
<1> QED BY <1>1, <1>2, <1>3, <1>4

\* A name left as written is no program entity's canonical name.
LEMMA BareLeft ==
    ASSUME Inv, NEW m \in DOMAIN text, NEW ns, NEW n,
           Named(Own(m, text[m]), ns, n) \cup Named(PreludeEnts, ns, n) = {},
           m = Root \/ n \notin RootNames(ns),
           NEW e \in Entities, e.ns = ns
    PROVE  CanonOf(e) # <<n>>
<1> SUFFICES ASSUME CanonOf(e) = <<n>> PROVE FALSE
  OBVIOUS
<1>1. \A k \in DOMAIN text : k \in Mods /\ \A x \in Own(k, text[k]) : x.origin = k
  BY OwnFacts, ResolvedFacts DEF Inv
<1>2. \A x \in PreludeEnts : x.origin = Prelude
  BY PreludeAssumption DEF PreludeEnts, Inv, Texts
<1>3. \A x \in Declared(Root, root) : x.origin = Root
  BY DEF Declared
<1>4. /\ e.origin \in Mods \cup {Prelude}
      /\ e.origin = Prelude => e \in PreludeEnts
      /\ e.origin = Root => e \in Declared(Root, root) \/ (Root \in DOMAIN text /\ e \in Own(Root, text[Root]))
  BY <1>1, <1>2, <1>3, OrderFacts, OrderAssumption DEF Entities
<1>5. /\ e.name = n
      /\ e.origin \in {Prelude, Root}
      /\ e.origin = Root => Canon(ns, Root, n) = <<n>>
  BY <1>4, CanonShape DEF CanonOf
<1>6. e.origin = Root
  BY <1>4, <1>5 DEF Named
<1>7. Root \in DOMAIN text => text[Root] = root
  BY DEF Inv, Texts
<1>8. e \in Own(Root, root)
  BY <1>4, <1>6, <1>7 DEF Own
<1>9. CASE m = Root
  BY <1>5, <1>7, <1>8, <1>9 DEF Named
<1>10. CASE n \notin RootNames(ns)
  <2>1. CASE e \in Declared(Root, root)
    BY <1>5, <1>6, <1>10, <2>1 DEF Declared, RootNames
  <2>2. CASE e \in Settled(Root, root) /\ e.ns = "con"
    <3>1. PICK nt \in root.newtypes : e.name \in {nt.name, nt.head}
      BY <2>2 DEF Settled
    <3>2. n \in UNION {{x.name, x.head} : x \in root.newtypes}
      BY <1>5, <3>1
    <3> QED BY <1>5, <1>6, <1>10, <2>2, <3>2 DEF RootNames
  <2> QED BY <1>8, <2>1, <2>2, OwnFacts
<1> QED BY <1>9, <1>10

\* `a.n` means what a module imported as a offers, or the Prelude's.
LEMMA QualifiedFacts ==
    ASSUME NEW t, NEW a, NEW ns, NEW n
    PROVE  LET q == Qualified(t, a, ns, n)
           IN  \/ q \in {Unbound, Ambiguous}
               \/ \E k \in DOMAIN t.imports : a \in t.imports[k].aliases
                     /\ \E c \in Named(surface[k], ns, n) : q = CanonOf(c)
               \/ a \in t.prelude.aliases /\ \E c \in Named(PreludeEnts, ns, n) : q = CanonOf(c)
<1>1. CASE Aliased(t, a, ns, n) = {}
  BY <1>1 DEF Qualified
<1>2. CASE Aliased(t, a, ns, n) # {}
  <2>1. PICK c \in Aliased(t, a, ns, n) :
            Qualified(t, a, ns, n) = Ambiguous \/ Qualified(t, a, ns, n) = CanonOf(c)
    BY <1>2, DenotedFacts DEF Qualified
  <2>2. CASE a \in t.prelude.aliases /\ c \in Named(PreludeEnts, ns, n)
    BY <2>1, <2>2
  <2>3. CASE \E k \in {x \in DOMAIN t.imports : a \in t.imports[x].aliases} : c \in Named(surface[k], ns, n)
    BY <2>1, <2>3
  <2> QED BY <2>1, <2>2, <2>3 DEF Aliased
<1> QED BY <1>1, <1>2

LEMMA ReferenceFacts ==
    ASSUME NEW m, NEW t, NEW r \in References(t)
    PROVE  \/ /\ \E ns \in Namespaces, n \in Names : r = <<ns, <<n>>>>
              /\ Len(r[2]) = 1
              /\ Bindings(m, t)[r] = BareOrPromoted(m, t, r[1], r[2][1])
           \/ /\ \E ns \in Namespaces, n \in Names : \E a : r = <<ns, <<a, n>>>>
              /\ Len(r[2]) = 2
              /\ Bindings(m, t)[r] = Qualified(t, r[2][1], r[1], r[2][2])
<1>1. Bindings(m, t)[r] = IF Len(r[2]) = 1 THEN BareOrPromoted(m, t, r[1], r[2][1])
                                           ELSE Qualified(t, r[2][1], r[1], r[2][2])
  BY DEF Bindings
<1>2. \A x : Len(<<x>>) = 1 /\ \A y : Len(<<x, y>>) = 2
  OBVIOUS
<1>3. CASE \E ns \in Namespaces, n \in Names : r = <<ns, <<n>>>>
  BY <1>1, <1>2, <1>3
<1>4. CASE \E ns \in Namespaces, n \in Names : \E a : r = <<ns, <<a, n>>>>
  BY <1>1, <1>2, <1>4
<1>5. \/ \E ns \in Namespaces, n \in Names : r = <<ns, <<n>>>>
      \/ \E ns \in Namespaces, n \in Names : \E a : r = <<ns, <<a, n>>>>
  BY DEF References, Namespaces
<1> QED BY <1>3, <1>4, <1>5

\* Whether a bare type name stands for a constructor of that name.
Promotes(m, t, n) ==
    /\ Named(Own(m, t) \cup Imp(t), "con", n) # {}
    /\ ~TypeInScope(m, t, n) /\ Bare(m, t, "ty", n) = <<n>>

LEMMA PromotedFacts ==
    ASSUME NEW m, NEW t, NEW ns, NEW n
    PROVE  \/ BareOrPromoted(m, t, ns, n) = Bare(m, t, ns, n)
           \/ /\ ns = "ty" /\ Promotes(m, t, n)
              /\ BareOrPromoted(m, t, ns, n) = Bare(m, t, "con", n)
BY DEF BareOrPromoted, Promotes

\* A reference left to what a module sees means one of its scope's entities.
LEMMA BareInScope ==
    ASSUME Inv, NEW m \in DOMAIN text, NEW ns, NEW n,
           NEW e \in Entities, e.ns = ns, CanonOf(e) = Bare(m, text[m], ns, n)
    PROVE  e \in Own(m, text[m]) \cup Imp(text[m])
              \cup {p \in PreludeEnts : PreludeVisible(text[m], p)}
<1> DEFINE t == text[m]
           own == Named(Own(m, t), ns, n)
           cands == Named(Imp(t), ns, n)
           prel == Named(PreludeEnts, ns, n)
<1>1. Known(e) /\ e.name \in Names
  BY EntityKnown
<1>2. CanonOf(e) \notin Errors
  BY <1>1, CanonNoError
<1>3. \A c \in Own(m, t) \cup Imp(t) : c \in Sources
  BY ImpSources DEF Sources
<1>4. CASE \E c \in own \cup cands : CanonOf(e) = CanonOf(c)
  <2>1. PICK c \in own \cup cands : CanonOf(e) = CanonOf(c)
    BY <1>4
  <2>2. c \in Sources /\ c.ns = ns /\ c \in Own(m, t) \cup Imp(t)
    BY <1>3, <2>1 DEF Named
  <2>3. e = c
    BY <2>1, <2>2, EntityUnique
  <2> QED BY <2>2, <2>3
<1>5. CASE own \cup cands = {} /\ \E p \in prel : PreludeVisible(t, p) /\ CanonOf(e) = <<n>>
  <2>1. PICK p \in prel : PreludeVisible(t, p) /\ CanonOf(e) = <<n>>
    BY <1>5
  <2>2. p \in PreludeEnts /\ p.ns = ns /\ p.name = n /\ p \in Sources
    BY <2>1 DEF Named, Sources
  <2>3. p.origin = Prelude
    BY <2>2, PreludeAssumption DEF PreludeEnts, Inv, Texts
  <2>4. CanonOf(p) = <<n>>
    BY <2>2, <2>3 , OrderFacts, OrderAssumption DEF CanonOf, Canon
  <2>5. e = p
    BY <2>1, <2>2, <2>4, EntityUnique
  <2> QED BY <2>1, <2>2, <2>5
<1>6. CASE own \cup cands \cup prel = {} /\ CanonOf(e) = <<n>> /\ (m = Root \/ n \notin RootNames(ns))
  BY <1>6, BareLeft
<1>7. \/ CanonOf(e) \in Errors
      \/ \E c \in own \cup cands : CanonOf(e) = CanonOf(c)
      \/ own \cup cands = {} /\ \E p \in prel : PreludeVisible(t, p) /\ CanonOf(e) = <<n>>
      \/ own \cup cands \cup prel = {} /\ CanonOf(e) = <<n>> /\ (m = Root \/ n \notin RootNames(ns))
  BY BareFacts DEF Errors
<1> QED BY <1>2, <1>4, <1>5, <1>6, <1>7

\* e is meant by its bare name through a constructor of the same name.
Promoted(m, r, e) ==
    /\ r = <<"ty", <<e.name>>>> /\ e.ns = "ty"
    /\ e.origin \in Earlier(m) /\ e \in Own(e.origin, text[e.origin])
    /\ ~TypeInScope(m, text[m], e.name)
    /\ \E c \in Imp(text[m]) : c.ns = "con" /\ c.name = e.name /\ c.origin = e.origin

LEMMA PromotedToOrigin ==
    ASSUME Inv, NEW m \in DOMAIN text, NEW n, Promotes(m, text[m], n),
           NEW e \in Entities, e.ns = "ty", CanonOf(e) = Bare(m, text[m], "con", n)
    PROVE  Promoted(m, <<"ty", <<n>>>>, e) /\ e.name = n
<1> DEFINE t == text[m]
<1>1. Known(e) /\ e.name \in Names /\ CanonOf(e) \notin Errors
  BY EntityKnown, CanonNoError
<1>2. PICK c \in Own(m, t) \cup Imp(t) : c.ns = "con" /\ c.name = n /\ CanonOf(e) = CanonOf(c)
  BY <1>1, BareFacts DEF Promotes, Errors, Named
<1>3. c \in Sources
  BY ImpSources DEF Sources
<1>4. /\ e.name = n
      /\ \/ e.origin = c.origin
         \/ e.origin \in {Prelude, Root} /\ c.origin \in {Prelude, Root} /\ CanonOf(e) = <<n>>
  BY <1>1, <1>2, <1>3, SourceFacts, CanonInjective
<1>5. ~TypeInScope(m, t, n) /\ Bare(m, t, "ty", n) = <<n>>
  BY DEF Promotes
<1>6. e \notin PreludeEnts /\ e \notin Imp(t) /\ (e.origin = m => e \notin Own(m, t))
  <2>1. e \in Own(m, t) => e \in Declared(m, t)
    BY OwnFacts
  <2> QED BY <1>4, <1>5, <2>1 DEF TypeInScope, Named
<1>7. CASE e.origin \in {Prelude, Root} /\ CanonOf(e) = <<n>>
  <2>1. e \in Own(m, t) \cup Imp(t) \cup {p \in PreludeEnts : PreludeVisible(t, p)}
    BY <1>5, <1>7, BareInScope
  <2>2. e.origin = m
    BY <1>6, <2>1, OwnFacts
  <2> QED BY <1>6, <2>1, <2>2
<1>8. CASE e.origin = c.origin /\ e.origin \notin {Prelude, Root}
  <2>1. e \in Own(e.origin, text[e.origin]) /\ e.origin \in DOMAIN text
    <3>1. e \notin Declared(Root, root) /\ e \notin PreludeEnts
      BY <1>8, PreludeOrigin DEF Declared
    <3>2. PICK k \in DOMAIN text : e \in Own(k, text[k])
      BY <3>1 DEF Entities
    <3> QED BY <3>2, OwnFacts
  <2>2. c \notin Own(m, t)
    BY <1>6, <1>8, <2>1, OwnFacts
  <2>3. c \in Imp(t) /\ c.origin \in Earlier(m)
    BY <1>2, <1>8, <2>2, ImpSources, PreludeOrigin
  <2> QED BY <1>2, <1>4, <1>5, <1>8, <2>1, <2>3 DEF Promoted
<1>9. CASE e.origin = c.origin /\ e.origin \in {Prelude, Root}
  <2>1. c.origin = Prelude => e \in PreludeEnts
    BY <1>1, <1>9 DEF Known
  <2>2. e.origin = Root
    BY <1>6, <1>9, <2>1
  <2>3. c \in Own(m, t) \/ c.origin \in Earlier(m)
    BY <1>2, <1>3, <1>9, <2>2, ImpSources, PreludeOrigin, OrderFacts, OrderAssumption
  <2>4. m = Root
    BY <1>9, <2>2, <2>3, OwnFacts, EarlierFacts, ResolvedFacts DEF Inv
  <2>5. e \in Own(Root, root) /\ t = root
    BY <2>2, <2>4, OwnFacts, PreludeOrigin, OrderFacts, OrderAssumption DEF Entities, Own, Inv, Texts
  <2> QED BY <1>6, <2>2, <2>4, <2>5
<1> QED BY <1>4, <1>7, <1>8, <1>9

LEMMA QualifiedInScope ==
    ASSUME Inv, NEW m \in DOMAIN text, NEW a, NEW ns, NEW n,
           NEW e \in Entities, e.ns = ns, CanonOf(e) = Qualified(text[m], a, ns, n)
    PROVE  \/ \E k \in DOMAIN text[m].imports : a \in text[m].imports[k].aliases /\ e \in surface[k]
           \/ a \in text[m].prelude.aliases /\ e \in PreludeEnts
<1> DEFINE t == text[m]
<1>1. CanonOf(e) \notin {Unbound, Ambiguous}
  BY EntityKnown, CanonNoError DEF Errors
<1>2. DOMAIN t.imports \subseteq DOMAIN text
  BY ResolvedFacts DEF Inv
<1>3. CASE \E k \in DOMAIN t.imports : a \in t.imports[k].aliases
              /\ \E c \in Named(surface[k], ns, n) : CanonOf(e) = CanonOf(c)
  <2>1. PICK k \in DOMAIN t.imports : a \in t.imports[k].aliases
                /\ \E c \in Named(surface[k], ns, n) : CanonOf(e) = CanonOf(c)
    BY <1>3
  <2>2. PICK c \in surface[k] : c.ns = ns /\ CanonOf(e) = CanonOf(c)
    BY <2>1 DEF Named
  <2>3. c \in Sources
    BY <1>2, <2>1, <2>2, SurfaceSources
  <2> QED BY <2>1, <2>2, <2>3, EntityUnique
<1>4. CASE a \in t.prelude.aliases /\ \E c \in Named(PreludeEnts, ns, n) : CanonOf(e) = CanonOf(c)
  <2>1. PICK c \in PreludeEnts : c.ns = ns /\ CanonOf(e) = CanonOf(c)
    BY <1>4 DEF Named
  <2>2. c \in Sources
    BY <2>1 DEF Sources
  <2> QED BY <1>4, <2>1, <2>2, EntityUnique
<1> QED BY <1>1, <1>3, <1>4, QualifiedFacts

\* What a reference means is in its scope, or met under a constructor's name.
LEMMA BindingInScope ==
    ASSUME Inv, NEW m \in DOMAIN text, NEW r \in DOMAIN denotes[m],
           NEW e \in Entities, e.ns = r[1], CanonOf(e) = denotes[m][r]
    PROVE  e \in Scope(m, r) \/ Promoted(m, r, e)
<1> DEFINE t == text[m]
<1>1. denotes[m] = Bindings(m, t) /\ r \in References(t)
  BY DEF Inv, Settles, Bindings
<1>2. CASE /\ \E ns \in Namespaces, n \in Names : r = <<ns, <<n>>>>
           /\ Len(r[2]) = 1
           /\ Bindings(m, t)[r] = BareOrPromoted(m, t, r[1], r[2][1])
  <2>1. PICK ns \in Namespaces, n \in Names : r = <<ns, <<n>>>>
    BY <1>2
  <2>2. CanonOf(e) = BareOrPromoted(m, t, ns, n) /\ e.ns = ns
    BY <1>1, <1>2, <2>1
  <2>3. Scope(m, r) = Own(m, t) \cup Imp(t) \cup {p \in PreludeEnts : PreludeVisible(t, p)}
    BY <1>2 DEF Scope
  <2>4. CASE BareOrPromoted(m, t, ns, n) = Bare(m, t, ns, n)
    BY <2>2, <2>3, <2>4, BareInScope
  <2>5. CASE ns = "ty" /\ Promotes(m, t, n) /\ BareOrPromoted(m, t, ns, n) = Bare(m, t, "con", n)
    BY <2>1, <2>2, <2>5, PromotedToOrigin
  <2> QED BY <2>4, <2>5, PromotedFacts
<1>3. CASE /\ \E ns \in Namespaces, n \in Names : \E a : r = <<ns, <<a, n>>>>
           /\ Len(r[2]) = 2
           /\ Bindings(m, t)[r] = Qualified(t, r[2][1], r[1], r[2][2])
  <2>1. CanonOf(e) = Qualified(t, r[2][1], r[1], r[2][2])
    BY <1>1, <1>3
  <2>2. \/ \E k \in DOMAIN t.imports : r[2][1] \in t.imports[k].aliases /\ e \in surface[k]
        \/ r[2][1] \in t.prelude.aliases /\ e \in PreludeEnts
    BY <2>1, QualifiedInScope
  <2>3. Scope(m, r) = (UNION {surface[k] : k \in {x \in DOMAIN t.imports : r[2][1] \in t.imports[x].aliases}})
                      \cup {p \in PreludeEnts : r[2][1] \in t.prelude.aliases}
    BY <1>3 DEF Scope
  <2> QED BY <2>2, <2>3
<1> QED BY <1>1, <1>2, <1>3, ReferenceFacts

\* Everything a name can be bound to.
CanonicalNames == {<<n>> : n \in Names} \cup ((Mods \cup {RootPrefix}) \X Names)

LEMMA BareTyped ==
    ASSUME Inv, NEW m \in DOMAIN text, NEW ns, NEW n \in Names
    PROVE  Bare(m, text[m], ns, n) \in Errors \cup CanonicalNames
<1> DEFINE t == text[m]
<1>1. \A c \in Own(m, t) \cup Imp(t) : CanonOf(c) \in CanonicalNames
  <2> TAKE c \in Own(m, t) \cup Imp(t)
  <2>1. c \in Sources
    BY ImpSources DEF Sources
  <2> QED BY <2>1, SourceFacts, CanonNoError DEF CanonicalNames
<1>2. <<n>> \in CanonicalNames
  BY DEF CanonicalNames
<1>3. \A c \in Named(Own(m, t), ns, n) \cup Named(Imp(t), ns, n) : c \in Own(m, t) \cup Imp(t)
  BY DEF Named
<1>4. {Ambiguous, LeftOut, NotExported, Unbound} \subseteq Errors
  BY DEF Errors
<1> QED BY <1>1, <1>2, <1>3, <1>4, BareFacts

LEMMA QualifiedTyped ==
    ASSUME Inv, NEW m \in DOMAIN text, NEW a, NEW ns, NEW n
    PROVE  Qualified(text[m], a, ns, n) \in Errors \cup CanonicalNames
<1> DEFINE t == text[m]
<1>1. DOMAIN t.imports \subseteq DOMAIN text
  BY ResolvedFacts DEF Inv
<1>2. \A k \in DOMAIN t.imports : \A c \in surface[k] : CanonOf(c) \in CanonicalNames
  BY <1>1, SurfaceSources, SourceFacts, CanonNoError DEF CanonicalNames
<1>3. \A c \in PreludeEnts : CanonOf(c) \in CanonicalNames
  BY SourceFacts, CanonNoError DEF Sources, CanonicalNames
<1>4. /\ \A k : \A c \in Named(surface[k], ns, n) : c \in surface[k]
      /\ \A c \in Named(PreludeEnts, ns, n) : c \in PreludeEnts
  BY DEF Named
<1>5. {Unbound, Ambiguous} \subseteq Errors
  BY DEF Errors
<1> QED BY <1>2, <1>3, <1>4, <1>5, QualifiedFacts

LEMMA TypeFollows ==
    ASSUME Inv
    PROVE  TypeOK
<1> SUFFICES ASSUME NEW m \in DOMAIN text
             PROVE  /\ \A e \in surface[m] :
                        e.ns \in Namespaces /\ e.name \in Names /\ e.origin \in DOMAIN text \cup {Prelude}
                    /\ withheld[m] \subseteq Namespaces \X Names
                    /\ \A r \in DOMAIN denotes[m] : denotes[m][r] \in Errors \cup CanonicalNames
  BY DEF TypeOK, CanonicalNames, Inv, Progress
<1> DEFINE t == text[m]
<1>1. \A e \in surface[m] :
          e.ns \in Namespaces /\ e.name \in Names /\ e.origin \in DOMAIN text \cup {Prelude}
  BY SurfaceSources, SourceFacts
<1>2. withheld[m] \subseteq Namespaces \X Names
  <2>1. withheld[m] = Withhold(m, t)
    BY DEF Inv, Settles
  <2>2. \A e \in Own(m, t) \cup Imp(t) : e.ns \in Namespaces /\ e.name \in Names
    <3> TAKE e \in Own(m, t) \cup Imp(t)
    <3>1. e \in Sources
      BY ImpSources DEF Sources
    <3> QED BY <3>1, SourceFacts
  <2>3. \A x \in Withhold(m, t) : \E e \in Own(m, t) \cup Imp(t) : x = <<e.ns, e.name>>
    BY DEF Withhold
  <2> QED BY <2>1, <2>2, <2>3
<1>3. ASSUME NEW r \in DOMAIN denotes[m] PROVE denotes[m][r] \in Errors \cup CanonicalNames
  <2>1. denotes[m] = Bindings(m, t) /\ r \in References(t)
    BY DEF Inv, Settles, Bindings
  <2>2. CASE /\ \E ns \in Namespaces, n \in Names : r = <<ns, <<n>>>>
             /\ Bindings(m, t)[r] = BareOrPromoted(m, t, r[1], r[2][1])
    BY <2>1, <2>2, BareTyped, PromotedFacts
  <2>3. CASE Bindings(m, t)[r] = Qualified(t, r[2][1], r[1], r[2][2])
    BY <2>1, <2>3, QualifiedTyped
  <2> QED BY <2>1, <2>2, <2>3, ReferenceFacts
<1> QED BY <1>1, <1>2, <1>3

\* A request that no direct import excludes brings its entity in.
LEMMA RequestFollows ==
    ASSUME Inv
    PROVE  RequestHonouredUnlessExcluded
<1> SUFFICES ASSUME NEW m \in DOMAIN text, NEW k \in DOMAIN text[m].imports,
                    NEW e \in Requested(m, k), ~Excluded(text[m], e)
             PROVE  InScope(m, e)
  BY DEF RequestHonouredUnlessExcluded
<1> DEFINE t == text[m]
<1>1. PICK f \in t.imports[k].forms :
          f.kind = "only" /\ [kind |-> "value", name |-> e.name] \in f.items
  BY DEF Requested
<1>2. e \in surface[k] /\ e.ns = "val"
  BY DEF Requested
<1>3. ~FormHides(f, e)
  <2>1. ItemNames([kind |-> "value", name |-> e.name], e, FALSE)
    BY <1>2 DEF ItemNames
  <2> QED BY <1>1, <2>1 DEF FormHides
<1>4. VisibleThrough(t, k, e)
  BY <1>1, <1>3 DEF VisibleThrough, HiddenByForms, DirectHidden, Excluded
<1>5. e \in Imp(t)
  BY <1>2, <1>4 DEF Imp
<1>6. e \in Sources /\ e.name \in Names
  BY <1>5, ImpSources, SourceFacts
<1>7. denotes[m][<<"val", <<e.name>>>>] = Bare(m, t, "val", e.name)
  <2>1. denotes[m] = Bindings(m, t) /\ <<"val", <<e.name>>>> \in References(t)
    BY <1>6 DEF Inv, Settles, References, Namespaces
  <2>2. denotes[m][<<"val", <<e.name>>>>] = BareOrPromoted(m, t, "val", e.name)
    BY <2>1 DEF Bindings
  <2> QED BY <2>2 DEF BareOrPromoted
<1>8. e \in Named(Imp(t), "val", e.name)
  BY <1>2, <1>5 DEF Named
<1>9. \A c \in Named(Own(m, t), "val", e.name) \cup Named(Imp(t), "val", e.name) : CanonOf(c) \notin Errors
  <2> TAKE c \in Named(Own(m, t), "val", e.name) \cup Named(Imp(t), "val", e.name)
  <2>1. c \in Sources
    BY ImpSources DEF Sources, Named
  <2> QED BY <2>1, SourceFacts, CanonNoError
<1>10. Bare(m, t, "val", e.name) \notin Errors \ {Ambiguous}
  BY <1>8, <1>9, BareFacts
<1> QED BY <1>2, <1>7, <1>10 DEF InScope

\* Where the Prelude's function is visible a bare use means no other type's.
LEMMA PreludeFollows ==
    ASSUME Inv
    PROVE  PreludeKept
<1> SUFFICES ASSUME NEW m \in DOMAIN text, NEW k \in DOMAIN text \ {m}, NEW n \in text[k].differs,
                    NEW p \in Named(PreludeEnts, "val", n), p.parent = none, PreludeVisible(text[m], p),
                    denotes[m][<<"val", <<n>>>>] = <<k, n>>
             PROVE  FALSE
  BY DEF PreludeKept
<1> DEFINE t == text[m]
<1>1. p \in PreludeEnts /\ p.name = n /\ n \in Names
  BY PreludeOrigin DEF Named
<1>2. <<k, n>> = Bare(m, t, "val", n)
  <2>1. denotes[m] = Bindings(m, t) /\ <<"val", <<n>>>> \in References(t)
    BY <1>1 DEF Inv, Settles, References, Namespaces
  <2>2. denotes[m][<<"val", <<n>>>>] = BareOrPromoted(m, t, "val", n)
    BY <2>1 DEF Bindings
  <2> QED BY <2>2 DEF BareOrPromoted
<1>3. <<k, n>> \notin Errors \cup {<<n>>}
  <2> DEFINE x == <<k, n>>
  <2>1. Len(x) = 2 /\ \A y : Len(<<y>>) = 1
    OBVIOUS
  <2>2. \A y \in Errors \cup {<<n>>} : Len(y) = 1
    BY <2>1 DEF Errors, Ambiguous, LeftOut, NotExported, Unbound
  <2> QED BY <2>1, <2>2
<1>4. k \in Mods
  BY ResolvedFacts DEF Inv
<1>5. ASSUME NEW c \in Sources, CanonOf(c) = <<k, n>> PROVE c.origin = k
  <2>1. c.origin \in Mods \cup {Prelude}
    BY SourceFacts DEF Known
  <2>2. CASE CanonOf(c) = <<c.name>>
    BY <1>3, <1>5, <2>2, OneIsNotTwo
  <2>3. CASE CanonOf(c) = <<c.origin, c.name>>
    BY <1>5, <2>3
  <2>4. CASE c.origin = Root /\ CanonOf(c) = <<RootPrefix, c.name>>
    BY <1>4, <1>5, <2>4, PrefixAssumption
  <2> QED BY <2>1, <2>2, <2>3, <2>4, EntityShape
<1>6. \A c \in Own(m, t) : CanonOf(c) # <<k, n>>
  BY <1>5, OwnFacts DEF Sources
<1>7. PICK c \in Imp(t) : /\ c.ns = "val" /\ c.name = n /\ CanonOf(c) = <<k, n>>
                          /\ Named(Own(m, t), "val", n) = {}
  BY <1>2, <1>3, <1>6, BareFacts DEF Named, Errors
<1>8. c.origin = k /\ k # Prelude
  BY <1>4, <1>5, <1>7, ImpSources, OrderAssumption
<1>9. Collides(m, t)
  BY <1>1, <1>7, <1>8 DEF Collides
<1> QED BY <1>9 DEF Inv, Settles

-------------------------------------------------------------------------------
(* What was computed for a module stays what it is *)

\* Nothing a text with these imports is resolved from changes.
Unmoved(t) ==
    /\ world' = world /\ root' = root
    /\ \A k \in DOMAIN t.imports : surface'[k] = surface[k] /\ withheld'[k] = withheld[k]

LEMMA SameEntities ==
    ASSUME NEW m, NEW t, Unmoved(t)
    PROVE  /\ PreludeEnts' = PreludeEnts
           /\ Imp(t)' = Imp(t) /\ Hidden(t)' = Hidden(t)
           /\ Settled(m, t)' = Settled(m, t) /\ Own(m, t)' = Own(m, t)
<1>1. PreludeEnts' = PreludeEnts
  BY DEF Unmoved, PreludeEnts
<1>2. Imp(t)' = Imp(t)
  BY DEF Unmoved, Imp
<1>3. Hidden(t)' = Hidden(t)
  BY DEF Unmoved, Hidden
<1>4. \A n : TypeInScope(m, t, n)' = TypeInScope(m, t, n)
  BY <1>1, <1>2 DEF TypeInScope
<1>5. Settled(m, t)' = Settled(m, t)
  BY <1>4 DEF Settled
<1> QED BY <1>1, <1>2, <1>3, <1>5 DEF Own

LEMMA SameNames ==
    ASSUME NEW t, Unmoved(t)
    PROVE  /\ \A e : CanonOf(e)' = CanonOf(e)
           /\ \A E : Denoted(E)' = Denoted(E)
           /\ \A ns : RootNames(ns)' = RootNames(ns)
<1>1. PreludeEnts' = PreludeEnts /\ root' = root
  BY DEF Unmoved, PreludeEnts
<1>2. \A ns, n : Taken(ns, n)' = Taken(ns, n)
  BY <1>1 DEF Taken
<1>3. \A ns, m, n : Canon(ns, m, n)' = Canon(ns, m, n)
  BY <1>2 DEF Canon
<1>4. \A e : CanonOf(e)' = CanonOf(e)
  BY <1>3 DEF CanonOf
<1>5. \A E : Denoted(E)' = Denoted(E)
  BY <1>4 DEF Denoted
<1>6. \A ns : RootNames(ns)' = RootNames(ns)
  BY <1>1, <1>3 DEF RootNames
<1> QED BY <1>4, <1>5, <1>6

LEMMA SameBindings ==
    ASSUME NEW m, NEW t, Unmoved(t)
    PROVE  Bindings(m, t)' = Bindings(m, t)
<1>1. \A ns, n : Bare(m, t, ns, n)' = Bare(m, t, ns, n)
  BY SameEntities, SameNames DEF Bare
<1>2. \A n : TypeInScope(m, t, n)' = TypeInScope(m, t, n)
  BY SameEntities DEF TypeInScope
<1>3. \A ns, n : BareOrPromoted(m, t, ns, n)' = BareOrPromoted(m, t, ns, n)
  BY <1>1, <1>2, SameEntities DEF BareOrPromoted
<1>4. \A a, ns, n : Aliased(t, a, ns, n)' = Aliased(t, a, ns, n)
  BY SameEntities DEF Aliased, Unmoved
<1>5. \A a, ns, n : Qualified(t, a, ns, n)' = Qualified(t, a, ns, n)
  BY <1>4, SameNames DEF Qualified
<1> QED BY <1>3, <1>5 DEF Bindings

LEMMA SameOffer ==
    ASSUME NEW m, NEW t, Unmoved(t)
    PROVE  /\ Offer(m, t)' = Offer(m, t) /\ Withhold(m, t)' = Withhold(m, t)
           /\ DeclaresOnce(m, t)' = DeclaresOnce(m, t)
<1>1. \A n : PassedOn(t, n)' = PassedOn(t, n)
  <2> TAKE n
  <2>1. PreludeEnts' = PreludeEnts /\ Imp(t)' = Imp(t)
    BY SameEntities
  <2> QED BY <2>1, Zenon DEF PassedOn
<1>2. \A i : Added(m, t, i)' = Added(m, t, i)
  BY <1>1, SameEntities DEF Added
<1>3. \A E, i : Lasting(m, t, E, i)' = Lasting(m, t, E, i)
  BY <1>2 DEF Lasting
<1>4. Listed(m, t)' = Listed(m, t)
  BY SameEntities DEF Listed
<1>5. Reexported(t)' = Reexported(t)
  BY DEF Reexported, Matching, Unmoved
<1>6. Offer(m, t)' = Offer(m, t)
  BY <1>2, <1>3, <1>4, <1>5, SameEntities DEF Offer
<1> QED BY <1>6, SameEntities DEF Withhold, DeclaresOnce

LEMMA SameCollisions ==
    ASSUME NEW m, NEW t, Unmoved(t),
           \A e \in Imp(t) : e.origin # Prelude => text'[e.origin] = text[e.origin]
    PROVE  Collides(m, t)' = Collides(m, t)
<1>1. PreludeEnts' = PreludeEnts /\ Imp(t)' = Imp(t) /\ Own(m, t)' = Own(m, t)
  BY SameEntities
<1> QED BY <1>1 DEF Collides

-------------------------------------------------------------------------------
(* The invariant is inductive *)

\* A surface offers own entities, among the listed ones if there is a list, and
\* passes on what the imports bring in or the Prelude has.
LEMMA OfferFacts ==
    ASSUME NEW m, NEW t, NEW e \in Offer(m, t)
    PROVE  \/ e \in Imp(t) \/ e \in PreludeEnts
           \/ e \in Own(m, t) /\ (t.listed => e \in Listed(m, t))
<1>1. CASE ~t.listed
  BY <1>1 DEF Offer
<1>2. CASE t.listed /\ e \in Lasting(m, t, Listed(m, t), 0)
  BY <1>2 DEF Lasting, Listed
<1>3. CASE \E i \in DOMAIN t.exports.names : e \in Lasting(m, t, Added(m, t, i), i)
  <2>1. PICK i \in DOMAIN t.exports.names : e \in Added(m, t, i)
    BY <1>3 DEF Lasting
  <2>2. PICK n : e \in PassedOn(t, n)
    BY <2>1 DEF Added
  <2>3. \A E, x : Named(E, "val", x) \subseteq E /\ Named(E, "ty", x) \subseteq E /\ Children(E, t.exports, x) \subseteq E
    BY DEF Named, Children
  <2> QED BY <2>2, <2>3 DEF PassedOn
<1>4. CASE e \in Reexported(t)
  BY <1>4 DEF Reexported, Matching, Imp
<1> QED BY <1>1, <1>2, <1>3, <1>4 DEF Offer

LEMMA InitInv ==
    Init => Inv
<1> SUFFICES ASSUME Init PROVE Inv
  OBVIOUS
<1>1. DOMAIN text = {} /\ DOMAIN surface = {} /\ DOMAIN withheld = {} /\ DOMAIN denotes = {}
  BY DEF Init
<1>2. 0 \in 0 .. Len(Order) /\ Prefix(0) = {} /\ 0 < Len(Order)
  BY OrderFacts DEF Prefix
<1>3. Progress
  BY <1>1, <1>2 DEF Progress
<1>4. Texts
  BY <1>1 DEF Init, Texts
<1>5. Settles /\ Origins
  BY <1>1 DEF Settles, Origins
<1> QED BY <1>3, <1>4, <1>5 DEF Inv

LEMMA ResolveKeeps ==
    ASSUME Inv, status = "running", NEW t \in Worlds[world].texts[Turn], Turn = Root => t = root,
           DeclaresOnce(Turn, t), ResolveModule(t)
    PROVE  Inv'
<1> PICK c : c = Turn
  OBVIOUS
<1>1. /\ c \in Mods /\ c \notin DOMAIN text /\ DOMAIN text = Earlier(c) /\ world' = world /\ root' = root
      /\ DOMAIN t.imports \subseteq Earlier(c)
  BY TurnFacts, ImportsEarlier DEF Inv, Texts, ResolveModule
<1>2. /\ DOMAIN text' = DOMAIN text \cup {c} /\ DOMAIN surface' = DOMAIN text'
      /\ DOMAIN withheld' = DOMAIN text' /\ DOMAIN denotes' = DOMAIN text'
      /\ text'[c] = t /\ surface'[c] = Offer(c, t) /\ withheld'[c] = Withhold(c, t)
      /\ denotes'[c] = Bindings(c, t)
      /\ \A k \in DOMAIN text : /\ text'[k] = text[k] /\ surface'[k] = surface[k]
                                /\ withheld'[k] = withheld[k] /\ denotes'[k] = denotes[k]
  <2>1. /\ text' = Put(text, c, t) /\ surface' = Put(surface, c, Offer(c, t))
        /\ withheld' = Put(withheld, c, Withhold(c, t)) /\ denotes' = Put(denotes, c, Bindings(c, t))
    BY DEF ResolveModule
  <2>2. DOMAIN surface = DOMAIN text /\ DOMAIN withheld = DOMAIN text /\ DOMAIN denotes = DOMAIN text
    BY DEF Inv, Progress
  <2>3. DOMAIN text' = DOMAIN text \cup {c} /\ text'[c] = t /\ \A k \in DOMAIN text : text'[k] = text[k]
    BY <1>1, <2>1 DEF Put
  <2>4. /\ DOMAIN surface' = DOMAIN text \cup {c} /\ surface'[c] = Offer(c, t)
        /\ \A k \in DOMAIN text : surface'[k] = surface[k]
    BY <1>1, <2>1, <2>2 DEF Put
  <2>5. /\ DOMAIN withheld' = DOMAIN text \cup {c} /\ withheld'[c] = Withhold(c, t)
        /\ \A k \in DOMAIN text : withheld'[k] = withheld[k]
    BY <1>1, <2>1, <2>2 DEF Put
  <2>6. /\ DOMAIN denotes' = DOMAIN text \cup {c} /\ denotes'[c] = Bindings(c, t)
        /\ \A k \in DOMAIN text : denotes'[k] = denotes[k]
    BY <1>1, <2>1, <2>2 DEF Put
  <2> QED BY <2>3, <2>4, <2>5, <2>6
<1>3. Unmoved(t) /\ \A k \in DOMAIN text : Unmoved(text[k])
  BY <1>1, <1>2, ResolvedFacts DEF Unmoved, Inv
<1>4. Progress'
  <2>1. PICK n \in 0 .. Len(Order) : DOMAIN text \cup {c} = Prefix(n) /\ (c # Root => n < Len(Order))
    BY TurnFacts DEF Inv
  <2>2. status' = "running" => c # Root
    BY DEF ResolveModule
  <2> QED BY <1>2, <2>1, <2>2 DEF Progress
<1>5. Texts'
  BY <1>1, <1>2 DEF Inv, Texts
<1>6. Settles'
  <2> SUFFICES ASSUME NEW m \in DOMAIN text'
               PROVE  (/\ surface[m] = Offer(m, text[m]) /\ withheld[m] = Withhold(m, text[m])
                       /\ denotes[m] = Bindings(m, text[m])
                       /\ DeclaresOnce(m, text[m]) /\ ~Collides(m, text[m]))'
    BY DEF Settles
  <2> PICK u : u = text'[m]
    OBVIOUS
  <2>1. Unmoved(u) /\ \A e \in Imp(u) : e.origin # Prelude => text'[e.origin] = text[e.origin]
    <3>1. DOMAIN u.imports \subseteq DOMAIN text
      BY <1>1, <1>2, ResolvedFacts DEF Inv
    <3>2. \A e \in Imp(u) : e.origin \in DOMAIN text \cup {Prelude}
      BY <3>1, SurfaceSources, SourceFacts DEF Imp
    <3> QED BY <1>2, <1>3, <3>2
  <2>2. /\ surface'[m] = Offer(m, u) /\ withheld'[m] = Withhold(m, u) /\ denotes'[m] = Bindings(m, u)
        /\ DeclaresOnce(m, u) /\ ~Collides(m, u)
    BY <1>1, <1>2 DEF Inv, Settles, ResolveModule, Rejected
  <2>3. (/\ surface[m] = Offer(m, u) /\ withheld[m] = Withhold(m, u) /\ denotes[m] = Bindings(m, u)
         /\ DeclaresOnce(m, u) /\ ~Collides(m, u))'
    BY <2>1, <2>2, SameOffer, SameBindings, SameCollisions
  <2> QED BY <2>3
<1>7. Origins'
  <2> SUFFICES ASSUME NEW k \in DOMAIN text', NEW e \in surface'[k], e \notin PreludeEnts'
               PROVE  /\ e.origin \in Earlier(k) \cup {k}
                      /\ e \in Own(e.origin, text[e.origin])' /\ e \in surface'[e.origin]
    BY DEF Origins
  <2>1. ASSUME NEW j \in DOMAIN text, e \in surface[j]
        PROVE  /\ e.origin \in Earlier(j) \cup {j}
               /\ e \in Own(e.origin, text[e.origin])' /\ e \in surface'[e.origin]
    <3> PICK o : o = e.origin
      OBVIOUS
    <3>1. o \in Earlier(j) \cup {j} /\ e \in Own(o, text[o]) /\ e \in surface[o]
      BY <1>3, <2>1, SameEntities DEF Inv, Origins
    <3>2. o \in DOMAIN text
      BY <3>1, ResolvedFacts DEF Inv
    <3> PICK u : u = text[o]
      OBVIOUS
    <3>3. Own(o, u)' = Own(o, u) /\ text'[o] = u /\ surface'[o] = surface[o]
      BY <1>2, <1>3, <3>2, SameEntities
    <3> QED BY <3>1, <3>3
  <2>2. CASE k \in DOMAIN text
    BY <1>2, <2>1, <2>2
  <2>3. CASE k = c
    <3>1. e \in Offer(c, t)
      BY <1>2, <2>3
    <3>2. CASE e \in Own(c, t)
      <4>1. e.origin = c /\ Own(c, t)' = Own(c, t)
        BY <1>3, <3>2, OwnFacts, SameEntities
      <4> QED BY <1>2, <2>3, <3>1, <3>2, <4>1
    <3>3. CASE e \in Imp(t)
      <4>1. PICK j \in DOMAIN t.imports : e \in surface[j]
        BY <3>3 DEF Imp
      <4>2. j \in DOMAIN text /\ j \in Earlier(c) /\ Earlier(j) \subseteq Earlier(c)
        BY <1>1, <4>1, EarlierFacts
      <4> QED BY <2>1, <2>3, <4>1, <4>2
    <3>4. CASE e \in PreludeEnts
      BY <1>3, <3>4, SameEntities
    <3> QED BY <3>1, <3>2, <3>3, <3>4, OfferFacts
  <2> QED BY <1>2, <2>2, <2>3
<1> QED BY <1>4, <1>5, <1>6, <1>7 DEF Inv

\* Ending with a rejection, or not moving, keeps everything computed so far.
LEMMA StutterKeeps ==
    ASSUME Inv, UNCHANGED <<world, root, text, surface, withheld, denotes>>,
           status' \in {status, "rejected"}
    PROVE  Inv'
<1>1. Progress' /\ Texts'
  BY DEF Inv, Progress, Texts
<1>2. \A k \in DOMAIN text : Unmoved(text[k]) /\ text'[k] = text[k]
  BY DEF Unmoved
<1>3. Settles'
  <2> SUFFICES ASSUME NEW m \in DOMAIN text
               PROVE  (/\ surface[m] = Offer(m, text[m]) /\ withheld[m] = Withhold(m, text[m])
                       /\ denotes[m] = Bindings(m, text[m])
                       /\ DeclaresOnce(m, text[m]) /\ ~Collides(m, text[m]))'
    BY DEF Settles
  <2> PICK u : u = text[m]
    OBVIOUS
  <2>1. Unmoved(u) /\ \A e \in Imp(u) : e.origin # Prelude => text'[e.origin] = text[e.origin]
    BY <1>2
  <2>2. (/\ surface[m] = Offer(m, u) /\ withheld[m] = Withhold(m, u) /\ denotes[m] = Bindings(m, u)
         /\ DeclaresOnce(m, u) /\ ~Collides(m, u))'
    BY <2>1, SameOffer, SameBindings, SameCollisions DEF Inv, Settles
  <2> QED BY <2>2
<1>4. Origins'
  <2> SUFFICES ASSUME NEW k \in DOMAIN text, NEW e \in surface[k], e \notin PreludeEnts
               PROVE  /\ e.origin \in Earlier(k) \cup {k}
                      /\ e \in Own(e.origin, text[e.origin])' /\ e \in surface'[e.origin]
    BY DEF Origins, PreludeEnts
  <2> PICK o : o = e.origin
    OBVIOUS
  <2> PICK u : u = text[o]
    OBVIOUS
  <2>1. o \in Earlier(k) \cup {k} /\ e \in Own(o, u) /\ e \in surface[o]
    BY DEF Inv, Origins
  <2>2. o \in DOMAIN text
    BY <2>1, ResolvedFacts DEF Inv
  <2>3. Own(o, u)' = Own(o, u)
    BY <1>2, <2>2, SameEntities
  <2> QED BY <2>1, <2>3
<1> QED BY <1>1, <1>3, <1>4 DEF Inv

THEOREM InvHolds == Spec => []Inv
<1>1. ASSUME Inv, [Next]_vars PROVE Inv'
  <2>1. ASSUME NEW t \in IF Turn = Root THEN {root} ELSE Worlds[world].texts[Turn],
               status = "running", DeclaresOnce(Turn, t), ResolveModule(t)
        PROVE  Inv'
    <3>1. t \in Worlds[world].texts[Turn] /\ (Turn = Root => t = root)
      BY <1>1 DEF Inv, Texts
    <3> QED BY <1>1, <2>1, <3>1, ResolveKeeps
  <2>2. ASSUME NEW t, Reject(t) PROVE Inv'
    BY <1>1, <2>2, StutterKeeps DEF Reject
  <2>3. CASE UNCHANGED vars
    BY <1>1, <2>3, StutterKeeps DEF vars
  <2> QED BY <1>1, <2>1, <2>2, <2>3 DEF Next
<1> QED BY InitInv, <1>1, PTL DEF Spec

-------------------------------------------------------------------------------
(* A type is visible wherever its namesake constructor is *)

\* The name of a type a resolved module sees is the name of one of the world's.
LEMMA SeenTypes ==
    ASSUME Inv, NEW m \in DOMAIN text, NEW n, TypeInScope(m, text[m], n)
    PROVE  NamesType(Worlds[world], n)
<1> DEFINE t == text[m]
<1>1. PICK e \in Declared(m, t) \cup Imp(t) \cup PreludeEnts : e.ns = "ty" /\ e.name = n
  BY DEF TypeInScope, Named
<1>2. e \in Sources
  BY <1>1, ImpSources DEF Sources, Own
<1>3. CASE e \in PreludeEnts
  BY <1>1, <1>3 DEF NamesType, PreludeEnts
<1>4. CASE \E k \in DOMAIN text : e \in Own(k, text[k])
  <2>1. PICK k \in DOMAIN text : e \in Own(k, text[k])
    BY <1>4
  <2>2. Declares(text[k], "ty", n)
    BY <1>1, <2>1, OwnFacts DEF Declared, Declares
  <2>3. k \in Mods /\ text[k] \in Worlds[world].texts[k]
    BY ResolvedFacts DEF Inv, Texts
  <2> QED BY <2>2, <2>3 DEF NamesType
<1> QED BY <1>2, <1>3, <1>4 DEF Sources

\* e is the type of the name and the module of the constructor c.
Namesakes(c, e) ==
    /\ c.origin \in DOMAIN text \ {Root}
    /\ c.ns = "con" /\ e.ns = "ty" /\ e.name = c.name /\ e.origin = c.origin
    /\ c \in Own(c.origin, text[c.origin]) /\ e \in Own(c.origin, text[c.origin])

LEMMA NamesakeFacts ==
    ASSUME Inv, NamesakesTogether(Worlds[world]), NEW o \in DOMAIN text \ {Root},
           NEW c, NEW e, c.origin = o, Namesakes(c, e)
    PROVE  /\ c.parent = c.name
           /\ \A k \in DOMAIN text \ {o, Root} :
                 ~text[k].listed /\ Declares(text[k], "ty", c.name) => Declares(text[k], "con", c.name)
<1> DEFINE t == text[o]
           n == c.name
<1>1. o \in Mods \ {Root} /\ t \in Worlds[world].texts[o] /\ n \in Names
  BY ResolvedFacts, OwnTyped DEF Inv, Texts, Namesakes
<1>2. e \in Declared(o, t) /\ Declares(t, "ty", n)
  BY OwnFacts DEF Namesakes, Declared, Declares
<1>3. \A k \in DOMAIN text \ {o, Root} : k \in Mods \ {o, Root} /\ text[k] \in Worlds[world].texts[k]
  BY ResolvedFacts DEF Inv, Texts
<1>4. CASE c \in Declared(o, t)
  <2>1. \E d \in t.decls : d.ns = "con" /\ d.name = n /\ d.parent = c.parent
    BY <1>4 DEF Namesakes, Declared
  <2> QED BY <1>1, <1>2, <1>3, <2>1 DEF NamesakesTogether, Declares
<1>5. CASE c \in Settled(o, t)
  <2>1. PICK nt \in t.newtypes :
            c.name = (IF TypeInScope(o, t, nt.head) THEN nt.name ELSE nt.head) /\ c.parent = nt.name
    BY <1>5 DEF Settled
  <2>2. TypeInScope(o, t, nt.head)
    <3>1. TypeInScope(o, t, n)
      BY <1>2 DEF TypeInScope, Named, Namesakes
    <3> QED BY <2>1, <3>1
  <2>3. nt.name = n /\ c.parent = n /\ NamesType(Worlds[world], nt.head)
    BY <2>1, <2>2, SeenTypes
  <2> QED BY <1>1, <1>2, <1>3, <2>3 DEF NamesakesTogether
<1> QED BY <1>4, <1>5, OwnFacts DEF Namesakes

\* An import that brings in a type's own constructor brings in the type.
LEMMA VisibleTogether ==
    ASSUME NEW t, NEW k, NEW c, NEW e, c.ns = "con", e.ns = "ty", e.name = c.name,
           c.parent = c.name, e.origin = c.origin, VisibleThrough(t, k, c)
    PROVE  VisibleThrough(t, k, e)
<1>1. \A f : FormHides(f, e) => FormHides(f, c)
  <2> SUFFICES ASSUME NEW f, FormHides(f, e) PROVE FormHides(f, c)
    OBVIOUS
  <2>1. CASE f.kind = "only" /\ ~\E i \in f.items : ItemNames(i, e, FALSE)
    <3>1. ASSUME NEW i \in f.items, ItemNames(i, c, FALSE) PROVE ItemNames(i, e, FALSE)
      BY <3>1 DEF ItemNames
    <3> QED BY <2>1, <3>1 DEF FormHides
  <2>2. CASE f.kind = "hiding" /\ \E i \in f.items : ItemNames(i, e, TRUE)
    <3>1. ASSUME NEW i \in f.items, ItemNames(i, e, TRUE) PROVE ItemNames(i, c, TRUE)
      BY <3>1 DEF ItemNames
    <3> QED BY <2>2, <3>1 DEF FormHides
  <2> QED BY <2>1, <2>2 DEF FormHides
<1>2. \A F : HiddenByForms(F, e) => HiddenByForms(F, c)
  BY <1>1 DEF HiddenByForms
<1> QED BY <1>2 DEF VisibleThrough, DirectHidden

\* What a surface offers it offers with its namesake type.
Together(k) == \A c \in surface[k] : \A e \in Sources : Namesakes(c, e) => e \in surface[k]

LEMMA VisibleNamesake ==
    ASSUME Inv, NamesakesTogether(Worlds[world]), NEW t, NEW k, NEW c, VisibleThrough(t, k, c),
           NEW e, Namesakes(c, e)
    PROVE  VisibleThrough(t, k, e)
<1>1. c.parent = c.name
  BY NamesakeFacts DEF Namesakes
<1> QED BY <1>1, VisibleTogether DEF Namesakes

LEMMA ImportedTogether ==
    ASSUME Inv, NamesakesTogether(Worlds[world]), NEW t, \A k \in DOMAIN t.imports : Together(k),
           NEW c \in Imp(t), NEW e, Namesakes(c, e)
    PROVE  e \in Imp(t)
<1>1. PICK k \in DOMAIN t.imports : c \in surface[k] /\ VisibleThrough(t, k, c)
  BY DEF Imp
<1>2. e \in Sources
  BY DEF Namesakes, Sources
<1>3. e \in surface[k] /\ VisibleThrough(t, k, e)
  BY <1>1, <1>2, VisibleNamesake DEF Together
<1> QED BY <1>3 DEF Imp

\* An entry that offers a type of some name is that name.
LEMMA AddedType ==
    ASSUME NEW m, NEW t, NEW i, NEW x \in Added(m, t, i), x.ns = "ty"
    PROVE  /\ t.exports.names[i] = x.name
           /\ Named(Own(m, t), "val", x.name) \cup Named(Own(m, t), "ty", x.name) = {}
<1> DEFINE n == t.exports.names[i]
<1>1. Named(Own(m, t), "val", n) \cup Named(Own(m, t), "ty", n) = {} /\ x \in PassedOn(t, n)
  BY DEF Added
<1>2. x.name = n
  BY <1>1 DEF PassedOn, Named, Children
<1> QED BY <1>1, <1>2

\* An entry that offers an imported constructor offers its namesake type.
LEMMA AddedTogether ==
    ASSUME Inv, NamesakesTogether(Worlds[world]), NEW m, NEW t, \A k \in DOMAIN t.imports : Together(k),
           NEW i, NEW c \in Added(m, t, i), NEW e, Namesakes(c, e)
    PROVE  e \in Added(m, t, i) /\ t.exports.names[i] = c.name
<1> DEFINE n == t.exports.names[i]
<1>1. /\ Named(Own(m, t), "val", n) \cup Named(Own(m, t), "ty", n) = {}
      /\ Added(m, t, i) = PassedOn(t, n) /\ c \in PassedOn(t, n)
  BY DEF Added
<1>2. c.ns = "con" /\ c.parent = c.name /\ c \notin PreludeEnts
  BY NamesakeFacts, PreludeOrigin, ResolvedFacts, OrderAssumption DEF Namesakes, Inv
<1>3. /\ Named(Imp(t), "val", n) = {} /\ Named(Imp(t), "ty", n) # {}
      /\ c \in Named(Imp(t), "ty", n) \cup Children(Imp(t), t.exports, n)
  <2>1. \A E : c \notin Named(E, "val", n) /\ c \notin Named(E, "ty", n)
    BY <1>2 DEF Named
  <2>2. c \notin Children({p \in PreludeEnts : PreludeVisible(t, p)}, t.exports, n)
    BY <1>2 DEF Children
  <2> QED BY <1>1, <1>2, <2>1, <2>2 DEF PassedOn
<1>4. c \in Imp(t) /\ c.parent = n
  BY <1>2, <1>3 DEF Children, Named
<1>5. e \in Imp(t) /\ e.ns = "ty" /\ e.name = n
  BY <1>2, <1>4, ImportedTogether DEF Namesakes
<1>6. e \in Named(Imp(t), "ty", n)
  BY <1>5 DEF Named
<1> QED BY <1>1, <1>2, <1>3, <1>4, <1>6 DEF PassedOn

LEMMA OfferedTogether ==
    ASSUME Inv, NamesakesTogether(Worlds[world]), NEW m \in DOMAIN text \ {Root},
           \A k \in DOMAIN text[m].imports : Together(k)
    PROVE  Together(m)
<1> SUFFICES ASSUME NEW c \in surface[m], NEW e, Namesakes(c, e) PROVE e \in surface[m]
  BY DEF Together
<1> DEFINE t == text[m]
           n == c.name
           own == Own(m, t)
<1>1. surface[m] = Offer(m, t)
  BY DEF Inv, Settles
<1>2. c.ns = "con" /\ e.ns = "ty" /\ e.name = n /\ c.parent = n /\ c \notin PreludeEnts
  BY NamesakeFacts, PreludeOrigin, ResolvedFacts, OrderAssumption DEF Namesakes, Inv
<1>3. c \in own => e \in own /\ Named(own, "ty", n) # {}
  BY <1>2, OwnFacts DEF Namesakes, Named
<1>4. c \in Imp(t) => e \in Imp(t) /\ c.origin # m
  BY ImportedTogether, ImpSources, EarlierFacts, ResolvedFacts, PreludeOrigin, <1>2 DEF Inv
<1>5. CASE ~t.listed
  <2>1. CASE c \in own
    BY <1>1, <1>3, <1>5, <2>1 DEF Offer
  <2>2. CASE c \in Imp(t) /\ ~Offers(own, c)
    <3>1. ~Offers(own, e)
      <4> SUFFICES ASSUME NEW x \in own, x.ns = "ty", x.name = n PROVE FALSE
        BY <1>2 DEF Offers, Named
      <4>1. Declares(t, "ty", n)
        BY OwnFacts DEF Declared, Declares
      <4>2. Declares(t, "con", n)
        BY <1>4, <1>5, <2>2, <4>1, NamesakeFacts DEF Namesakes
      <4>3. \E y \in own : y.ns = "con" /\ y.name = n
        <5>1. PICK d \in t.decls : d.ns = "con" /\ d.name = n
          BY <4>2 DEF Declares
        <5> DEFINE y == [ns |-> d.ns, name |-> d.name, origin |-> m, parent |-> d.parent]
        <5>2. y \in own /\ y.ns = "con" /\ y.name = n
          BY <5>1 DEF Own, Declared
        <5> QED BY <5>2
      <4> QED BY <1>2, <2>2, <4>3 DEF Offers, Named
    <3> QED BY <1>1, <1>4, <1>5, <2>2, <3>1 DEF Offer
  <2> QED BY <1>1, <1>5, <2>1, <2>2 DEF Offer
<1>6. CASE t.listed /\ c \in Reexported(t)
  <2>1. PICK k \in DOMAIN t.imports : /\ k \in UNION {Matching(t, x) : x \in t.exports.reexports}
                                      /\ c \in surface[k] /\ VisibleThrough(t, k, c)
    BY <1>6 DEF Reexported, Matching
  <2>2. e \in surface[k] /\ VisibleThrough(t, k, e)
    BY <2>1, VisibleNamesake DEF Together, Namesakes, Sources
  <2>3. e \in Reexported(t)
    BY <2>1, <2>2 DEF Reexported
  <2> QED BY <1>1, <1>6, <2>3 DEF Offer
<1>7. CASE t.listed /\ c \in Lasting(m, t, Listed(m, t), 0)
  <2>1. c \in Listed(m, t) /\ c \in own
    BY <1>7 DEF Lasting, Listed
  <2>2. e \in Listed(m, t)
    BY <1>2, <1>3, <2>1 DEF Listed
  <2>3. e \in Lasting(m, t, Listed(m, t), 0)
    <3> SUFFICES ASSUME NEW j \in DOMAIN t.exports.names, NEW x \in Added(m, t, j), x.ns = "ty", x.name = n
                 PROVE  FALSE
      BY <1>2, <2>2 DEF Lasting, Offers, Named
    <3> QED BY <1>3, <2>1, AddedType
  <2> QED BY <1>1, <1>7, <2>3 DEF Offer
<1>8. CASE t.listed /\ \E i \in DOMAIN t.exports.names : c \in Lasting(m, t, Added(m, t, i), i)
  <2>1. PICK i \in DOMAIN t.exports.names : c \in Lasting(m, t, Added(m, t, i), i)
    BY <1>8
  <2>2. c \in Added(m, t, i)
    BY <2>1 DEF Lasting
  <2>3. e \in Added(m, t, i) /\ t.exports.names[i] = n
    BY <2>2, AddedTogether
  <2>4. e \in Lasting(m, t, Added(m, t, i), i)
    <3> SUFFICES ASSUME NEW j \in DOMAIN t.exports.names, j > i, NEW x \in Added(m, t, j),
                        x.ns = "ty", x.name = n
                 PROVE  FALSE
      BY <1>2, <2>3 DEF Lasting, Offers, Named
    <3>1. t.exports.names[j] = n
      BY AddedType
    <3>2. Added(m, t, j) = Added(m, t, i)
      BY <2>3, <3>1 DEF Added
    <3>3. Offers(Added(m, t, j), c)
      BY <2>2, <3>2 DEF Offers, Named
    <3> QED BY <2>1, <3>3 DEF Lasting
  <2> QED BY <1>1, <1>8, <2>4 DEF Offer
<1> QED BY <1>1, <1>5, <1>6, <1>7, <1>8 DEF Offer

\* Of the modules of a set, one comes first.
LEMMA FirstModule ==
    ASSUME NEW S, S \subseteq Mods, S # {}
    PROVE  \E m \in S : Earlier(m) \cap S = {}
<1> DEFINE I == {i \in 1 .. Len(Order) : Order[i] \in S}
<1>1. I \subseteq Nat /\ I # {}
  BY OrderFacts
<1>2. PICK i \in I : \A j \in I : ~(<<j, i>> \in OpToRel(<, Nat))
  BY <1>1, WFMin, NatLessThanWellFounded
<1>3. \A j \in I : ~(j < i)
  BY <1>1, <1>2 DEF OpToRel
<1>4. Order[i] \in S /\ \A k \in Earlier(Order[i]) : k \notin S
  BY <1>3, OrderFacts DEF Earlier
<1> QED BY <1>4

LEMMA AllTogether ==
    ASSUME Inv, NamesakesTogether(Worlds[world]), NEW k \in DOMAIN text \ {Root}
    PROVE  Together(k)
<1> DEFINE S == {m \in DOMAIN text \ {Root} : ~Together(m)}
<1> SUFFICES ASSUME S # {} PROVE FALSE
  OBVIOUS
<1>1. S \subseteq Mods
  BY ResolvedFacts DEF Inv
<1>2. PICK m \in S : Earlier(m) \cap S = {}
  <2> HIDE DEF S
  <2> QED BY <1>1, FirstModule
<1>3. /\ m \in DOMAIN text \ {Root} /\ ~Together(m) /\ m \in Mods
      /\ DOMAIN text[m].imports \subseteq Earlier(m) /\ Earlier(m) \subseteq DOMAIN text /\ Root \notin Earlier(m)
  BY <1>1, ResolvedFacts, EarlierFacts DEF Inv
<1>4. \A j \in DOMAIN text[m].imports : Together(j)
  BY <1>2, <1>3
<1> QED BY <1>3, <1>4, OfferedTogether

\* Together, no name is met under a constructor's.
LEMMA NothingPromoted ==
    ASSUME Inv, NamesakesTogether(Worlds[world]), NEW m \in DOMAIN text, NEW r, NEW e, Promoted(m, r, e)
    PROVE  FALSE
<1>1. PICK c \in Imp(text[m]) : c.ns = "con" /\ c.name = e.name /\ c.origin = e.origin
  BY DEF Promoted
<1>2. /\ m \in Mods /\ Earlier(m) \subseteq DOMAIN text /\ Root \notin Earlier(m)
      /\ DOMAIN text[m].imports \subseteq Earlier(m) /\ Prelude \notin Mods
      /\ Earlier(m) \subseteq Mods
  BY ResolvedFacts, EarlierFacts, OrderAssumption DEF Inv
<1>3. c.origin \in DOMAIN text \ {Root} /\ c.origin # Prelude
  BY <1>1, <1>2 DEF Promoted
<1>4. c \in Own(c.origin, text[c.origin])
  <2>1. c \in Sources /\ c \notin PreludeEnts
    BY <1>1, <1>3, ImpSources, PreludeOrigin
  <2> QED BY <2>1, OwnFacts DEF Sources
<1>5. Namesakes(c, e)
  BY <1>1, <1>3, <1>4 DEF Namesakes, Promoted
<1>6. \A k \in DOMAIN text[m].imports : Together(k)
  BY <1>2, AllTogether
<1>7. e \in Imp(text[m])
  BY <1>1, <1>5, <1>6, ImportedTogether
<1> QED BY <1>1, <1>7 DEF Promoted, TypeInScope, Named

LEMMA NoCaptureFollows ==
    ASSUME Inv, NamesakesTogether(Worlds[world])
    PROVE  NoCapture
<1>1. DOMAIN denotes = DOMAIN text
  BY DEF Inv, Progress
<1> QED BY <1>1, BindingInScope, NothingPromoted DEF NoCapture

\* What a module does not list no surface offers.
LEMMA PrivateNotOffered ==
    ASSUME Inv, NEW m \in DOMAIN text, text[m].listed,
           NEW e \in Own(m, text[m]) \ Listed(m, text[m])
    PROVE  \A k \in DOMAIN text : e \notin surface[k]
<1>1. e.origin = m /\ m \in Mods /\ m \notin Earlier(m) /\ e \notin PreludeEnts
  BY OwnFacts, ResolvedFacts, EarlierFacts, PreludeOrigin, OrderAssumption DEF Inv
<1>2. e \notin surface[m]
  <2>1. surface[m] = Offer(m, text[m])
    BY DEF Inv, Settles
  <2>2. e \notin Imp(text[m])
    BY <1>1, ImpSources
  <2> QED BY <1>1, <2>1, <2>2, OfferFacts
<1> QED BY <1>1, <1>2 DEF Inv, Origins

LEMMA PrivateFollows ==
    ASSUME Inv, NoCapture
    PROVE  PrivateStaysPrivate
<1> SUFFICES ASSUME NEW m \in DOMAIN text, text[m].listed,
                    NEW e \in Own(m, text[m]) \ Listed(m, text[m]), NEW k \in DOMAIN text, k # m,
                    NEW r \in DOMAIN denotes[k], r[1] = e.ns, denotes[k][r] = CanonOf(e)
             PROVE  FALSE
  BY PrivateNotOffered DEF PrivateStaysPrivate
<1>1. e.origin = m /\ e \notin PreludeEnts /\ e \in Entities /\ DOMAIN text[k].imports \subseteq DOMAIN text
  BY OwnFacts, ResolvedFacts, PreludeOrigin, OrderAssumption DEF Entities, Inv
<1>2. \A j \in DOMAIN text : e \notin surface[j]
  BY PrivateNotOffered
<1>3. e \notin Own(k, text[k])
  BY <1>1, OwnFacts
<1>4. e \notin Imp(text[k])
  BY <1>1, <1>2 DEF Imp
<1>5. e \in Scope(k, r)
  BY <1>1 DEF NoCapture, Inv, Progress
<1> QED BY <1>1, <1>2, <1>3, <1>4, <1>5 DEF Scope

LEMMA HiddenFollows ==
    ASSUME Inv, NoCapture
    PROVE  HiddenStaysHidden
<1> SUFFICES ASSUME NEW m \in DOMAIN text, NEW k \in DOMAIN text, NEW e \in surface[k],
                    Excluded(text[m], e), denotes[m][<<e.ns, <<e.name>>>>] = CanonOf(e)
             PROVE  FALSE
  BY DEF HiddenStaysHidden, Inv, Progress
<1> DEFINE t == text[m]
           r == <<e.ns, <<e.name>>>>
<1>1. e \in Sources /\ e \in Entities /\ e.ns \in Namespaces /\ e.name \in Names
  BY SurfaceSources, SourceFacts
<1>2. r \in DOMAIN denotes[m]
  <2>1. r \in References(t)
    BY <1>1 DEF References
  <2> QED BY <2>1 DEF Inv, Settles, Bindings
<1>3. e \in Scope(m, r) /\ Len(r[2]) = 1
  BY <1>1, <1>2 DEF NoCapture, Inv, Progress
<1>4. e.origin \in Earlier(m) /\ m \in Mods /\ m \notin Earlier(m) /\ Earlier(m) \subseteq Mods
  BY ResolvedFacts, EarlierFacts DEF Excluded, Inv
<1>5. e \notin Own(m, t) /\ e \notin PreludeEnts
  BY <1>4, OwnFacts, PreludeOrigin, OrderAssumption
<1>6. e \in Imp(t)
  BY <1>3, <1>5 DEF Scope
<1>7. DirectHidden(t, e)
  BY DEF Excluded, DirectHidden, HiddenByForms
<1> QED BY <1>6, <1>7 DEF Imp, VisibleThrough

-------------------------------------------------------------------------------
(* Theorems *)

\* Surfaces hold entities of modules resolved before, bindings are canonical
\* names or placeholders (modules.rs, resolve_module).
THEOREM TypeCorrect == Spec => []TypeOK
<1>1. Inv => TypeOK
  BY TypeFollows
<1> QED BY <1>1, InvHolds, PTL

\* A value that an import names is bound, to it or to an ambiguity, whatever
\* else the module imports (modules.rs 423, 635-637).
THEOREM RequestsHonoured == Spec => []RequestHonouredUnlessExcluded
<1>1. Inv => RequestHonouredUnlessExcluded
  BY RequestFollows
<1> QED BY <1>1, InvHolds, PTL

\* A bare use of a Prelude function's name never means an import of another
\* type (modules.rs 836-846), whatever is imported, hidden or qualified.
THEOREM PreludeFunctionsKept == Spec => []PreludeKept
<1>1. Inv => PreludeKept
  BY PreludeFollows
<1> QED BY <1>1, InvHolds, PTL

\* The only way a reference can mean an entity outside its scope: a bare type
\* name taken for an imported constructor, which shares its name and its module
\* with a type that is not imported (modules.rs 927).
CapturesArePromotions ==
    \A m \in DOMAIN denotes : \A r \in DOMAIN denotes[m] : \A e \in Entities :
        e.ns = r[1] /\ CanonOf(e) = denotes[m][r] => e \in Scope(m, r) \/ Promoted(m, r, e)

\* In every program (modules.rs 347-350, 908, 1899).
THEOREM CapturesCharacterised == Spec => []CapturesArePromotions
<1>1. Inv => CapturesArePromotions
  <2> SUFFICES ASSUME Inv PROVE CapturesArePromotions
    OBVIOUS
  <2>1. DOMAIN denotes = DOMAIN text
    BY DEF Inv, Progress
  <2> QED BY <2>1, BindingInScope DEF CapturesArePromotions
<1> QED BY <1>1, InvHolds, PTL

\* The worlds of the programs in which namesakes stay together.
Sound == \A w \in DOMAIN Worlds : NamesakesTogether(Worlds[w])

LEMMA SoundWorld ==
    ASSUME Sound, Inv
    PROVE  NamesakesTogether(Worlds[world])
BY DEF Sound, Inv, Texts

\* There no reference means an entity outside its module's scope.
THEOREM NothingCaptured ==
    ASSUME Sound
    PROVE  Spec => []NoCapture
<1>1. Inv => NoCapture
  BY SoundWorld, NoCaptureFollows
<1> QED BY <1>1, InvHolds, PTL

\* There a name that an export list leaves out is private (SPEC.md 1538): it is
\* in no surface and no reference of another module means it.
THEOREM PrivateKept ==
    ASSUME Sound
    PROVE  Spec => []PrivateStaysPrivate
<1>1. Inv => PrivateStaysPrivate
  BY SoundWorld, NoCaptureFollows, PrivateFollows
<1> QED BY <1>1, InvHolds, PTL

\* There what a direct import of its module hides comes back through no other
\* (modules.rs 635-637).
THEOREM HiddenKept ==
    ASSUME Sound
    PROVE  Spec => []HiddenStaysHidden
<1>1. Inv => HiddenStaysHidden
  BY SoundWorld, NoCaptureFollows, HiddenFollows
<1> QED BY <1>1, InvHolds, PTL
===============================================================================
