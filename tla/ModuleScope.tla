------------------------------ MODULE ModuleScope ------------------------------
(***************************************************************************)
(* Name resolution, mllc/src/modules.rs, phases 2 to 8 of resolve_module:  *)
(* what every name a module may write denotes, and what the module offers  *)
(* its importers.  Modules are resolved in dependency order (ModuleLoader);*)
(* one step resolves one module, whose text is chosen when it is its turn. *)
(*                                                                         *)
(* An entity is [ns, name, origin, parent].  A surface (Surface.names) is  *)
(* the set of the entities a module offers: an entity is always offered    *)
(* under its own name.  A canonical name is <<n>> (bare) or <<m, n>>; a    *)
(* reference is written <<n>> or <<alias, n>>, so that a reference left as *)
(* written may coincide with a canonical name, as in the code.             *)
(*                                                                         *)
(* A module's text declares no name twice (DeclaresOnce), and no alias of  *)
(* it is also one of its constructors; local binders and wired-in          *)
(* references are left out.                                                *)
(***************************************************************************)
EXTENDS Integers, Sequences, FiniteSets, SequencesExt

CONSTANTS Order,        \* the modules in resolution order, the entry module last
          Worlds,       \* for each label: a Prelude's entities, and what each module may contain
          Names, Aliases,
          Claimed,      \* value names of the runtime library
          Prelude, RootPrefix,
          none          \* no parent

Root == Last(Order)
Mods == ToSet(Order)
Namespaces == {"val", "ty", "con"}

ASSUME OrderAssumption ==
    Order \in Seq(Mods) /\ Order # <<>> /\ IsInjective(Order) /\ Prelude \notin Mods
\* PreludeScope is keyed by namespace and name.
ASSUME PreludeAssumption ==
    \A w \in DOMAIN Worlds : \A e \in Worlds[w].prelude :
        /\ e.origin = Prelude /\ e.ns \in Namespaces /\ e.name \in Names
        /\ \A p \in Worlds[w].prelude : p.ns = e.ns /\ p.name = e.name => p = e
ASSUME PrefixAssumption == RootPrefix \notin Mods \ {Root}
\* A text's imports come earlier in the order.
ASSUME TextsAssumption ==
    \A w \in DOMAIN Worlds, i \in DOMAIN Order : \A t \in Worlds[w].texts[Order[i]] :
        DOMAIN t.imports \subseteq {Order[j] : j \in 1 .. i - 1}
\* What a text declares; a newtype's type is one of its declarations.
ASSUME DeclarationsAssumption ==
    \A w \in DOMAIN Worlds, m \in Mods : \A t \in Worlds[w].texts[m] :
        /\ \A d \in t.decls : d.ns \in Namespaces /\ d.name \in Names
        /\ \A nt \in t.newtypes :
              nt.head \in Names /\ \E d \in t.decls : d.ns = "ty" /\ d.name = nt.name

VARIABLES world,        \* the Prelude the program is compiled with, and its possible texts
          root,         \* the entry module's text, parsed before resolution starts
          text,         \* the texts of the resolved modules
          surface, withheld,
          denotes,      \* for each resolved module: reference -> canonical name or error
          status

vars == <<world, root, text, surface, withheld, denotes, status>>

\* Placeholder spellings.
Ambiguous == <<"ambiguous">>
LeftOut == <<"hidden">>
NotExported == <<"not exported">>
Unbound == <<"unbound">>
Errors == {Ambiguous, LeftOut, NotExported, Unbound}
\* No name can be written like one of them.
ASSUME ErrorsAssumption == \A n \in Names : <<n>> \notin Errors

-------------------------------------------------------------------------------
(* Canonical names *)

PreludeEnts == Worlds[world].prelude

Named(E, ns, n) == {e \in E : e.ns = ns /\ e.name = n}

Taken(ns, n) == Named(PreludeEnts, ns, n) # {} \/ (ns = "val" /\ n \in Claimed)

Canon(ns, m, n) ==
    CASE m = Prelude -> <<n>>
      [] m \notin {Prelude, Root} -> <<m, n>>
      [] m # Prelude /\ m = Root -> IF Taken(ns, n) THEN <<RootPrefix, n>> ELSE <<n>>

\* Mutant of CanonOf: the Prelude's entities are named like any module's.
CanonOfModule(e) == IF e.origin = Root THEN Canon(e.ns, Root, e.name) ELSE <<e.origin, e.name>>

CanonOf(e) == Canon(e.ns, e.origin, e.name)

\* Mutant of RootNames: the entry module's names are not recorded.
RootNamesNone(ns) == {}

\* begin_program: the names of the entry module that keep their bare spelling;
\* an unsettled newtype may give its constructor either of two.
RootNames(ns) ==
    {n \in {d.name : d \in {x \in root.decls : x.ns = ns}}
           \cup (IF ns = "con" THEN UNION {{nt.name, nt.head} : nt \in root.newtypes} ELSE {}) :
        Canon(ns, Root, n) = <<n>>}

-------------------------------------------------------------------------------
(* Import forms *)

\* A capitalized item of a hiding list also names a constructor.
ItemNames(item, e, hiding) ==
    \/ item.kind = "value" /\ e.ns = "val" /\ e.name = item.name
    \/ item.kind # "value" /\ e.name = item.name /\ (e.ns = "ty" \/ (hiding /\ e.ns = "con"))
    \/ item.kind = "typeall" /\ e.ns # "ty" /\ e.parent = item.name

FormHides(form, e) ==
    \/ form.kind = "only" /\ ~\E i \in form.items : ItemNames(i, e, FALSE)
    \/ form.kind = "hiding" /\ \E i \in form.items : ItemNames(i, e, TRUE)

\* Mutant of HiddenByForms: one form that hides is enough.
HiddenByAnyForm(forms, e) == \E f \in forms : FormHides(f, e)

HiddenByForms(forms, e) == forms # {} /\ \A f \in forms : FormHides(f, e)

\* Mutant of DirectHidden: every edge is filtered by its own forms only.
DirectHiddenNever(t, e) == FALSE

DirectHidden(t, e) ==
    e.origin \in DOMAIN t.imports /\ HiddenByForms(t.imports[e.origin].forms, e)

VisibleThrough(t, k, e) ==
    /\ t.imports[k].forms # {}
    /\ ~HiddenByForms(t.imports[k].forms, e)
    /\ ~DirectHidden(t, e)

Imp(t) == UNION {{e \in surface[k] : VisibleThrough(t, k, e)} : k \in DOMAIN t.imports}

\* What an import could have named and did not bring in.
Hidden(t) ==
    (UNION {withheld[k] : k \in DOMAIN t.imports})
    \cup (UNION {{<<e.ns, e.name>> : e \in {x \in surface[k] : ~VisibleThrough(t, k, x)}} :
                    k \in {x \in DOMAIN t.imports : t.imports[x].forms # {}}})

-------------------------------------------------------------------------------
(* The Prelude and the module's own entities *)

Restricted(t) == t.prelude.forms # {} \/ t.prelude.aliases # {}

PreludeVisible(t, e) ==
    \/ ~Restricted(t)
    \/ t.prelude.forms # {} /\ ~HiddenByForms(t.prelude.forms, e)

Declared(m, t) ==
    {[ns |-> d.ns, name |-> d.name, origin |-> m, parent |-> d.parent] : d \in t.decls}

TypeInScope(m, t, n) == Named(Declared(m, t) \cup Imp(t) \cup PreludeEnts, "ty", n) # {}

\* `newtype N = H a`: H is the constructor unless it names a type in scope.
Settled(m, t) ==
    {[ns |-> "con", name |-> IF TypeInScope(m, t, nt.head) THEN nt.name ELSE nt.head,
      origin |-> m, parent |-> nt.name] : nt \in t.newtypes}

Own(m, t) ==
    Declared(m, t) \cup {e \in Settled(m, t) : Named(Declared(m, t), "con", e.name) = {}}

-------------------------------------------------------------------------------
(* What a reference denotes *)

Denoted(E) == IF Cardinality(E) = 1 THEN CanonOf(CHOOSE e \in E : TRUE) ELSE Ambiguous

\* Phase 5: a bare name.
Bare(m, t, ns, n) ==
    LET own == Named(Own(m, t), ns, n)
        cands == Named(Imp(t), ns, n)
        prel == Named(PreludeEnts, ns, n)
    IN  CASE own # {} -> Denoted(own)
          [] own = {} /\ cands # {} -> Denoted(cands)
          [] own \cup cands = {} /\ prel # {} ->
                IF \E e \in prel : PreludeVisible(t, e) THEN <<n>> ELSE LeftOut
          [] own \cup cands \cup prel = {} ->
                CASE <<ns, n>> \in Hidden(t) -> NotExported
                  [] <<ns, n>> \notin Hidden(t) /\ m # Root /\ n \in RootNames(ns) -> Unbound
                  [] OTHER -> <<n>>

\* A promoted constructor written without its tick.
BareOrPromoted(m, t, ns, n) ==
    IF /\ ns = "ty" /\ Named(Own(m, t) \cup Imp(t), "con", n) # {}
       /\ ~TypeInScope(m, t, n) /\ Bare(m, t, "ty", n) = <<n>>
    THEN Bare(m, t, "con", n) ELSE Bare(m, t, ns, n)

\* Phase 6: `a.n` names what the modules imported as `a` export.
Aliased(t, a, ns, n) ==
    (UNION {Named(surface[k], ns, n) : k \in {x \in DOMAIN t.imports : a \in t.imports[x].aliases}})
    \cup {e \in Named(PreludeEnts, ns, n) : a \in t.prelude.aliases}

Qualified(t, a, ns, n) ==
    LET ents == Aliased(t, a, ns, n) IN IF ents = {} THEN Unbound ELSE Denoted(ents)

AliasesOf(t) == t.prelude.aliases \cup UNION {t.imports[k].aliases : k \in DOMAIN t.imports}

\* `a.f` is a qualified value only where `a` is an alias.
References(t) ==
    {<<ns, <<n>>>> : ns \in Namespaces, n \in Names}
    \cup {<<ns, <<a, n>>>> : ns \in Namespaces \ {"val"}, a \in Aliases, n \in Names}
    \cup {<<"val", <<a, n>>>> : a \in AliasesOf(t), n \in Names}

Bindings(m, t) ==
    [r \in References(t) |->
        IF Len(r[2]) = 1 THEN BareOrPromoted(m, t, r[1], r[2][1])
                         ELSE Qualified(t, r[2][1], r[1], r[2][2])]

-------------------------------------------------------------------------------
(* Phase 8: what the module offers *)

Carries(ex, parent, n) == parent \in DOMAIN ex.subs /\ n \in ex.subs[parent]

\* The own declarations an export list names.
Listed(m, t) ==
    {e \in Own(m, t) :
        \/ m \in t.exports.reexports
        \/ e.ns # "con" /\ e.name \in ToSet(t.exports.names)
        \/ e.parent \in ToSet(t.exports.names) /\ Carries(t.exports, e.parent, e.name)}

Offers(E, e) == Named(E, e.ns, e.name) # {}

Children(E, ex, n) == {e \in E : e.ns # "ty" /\ e.parent = n /\ Carries(ex, n, e.name)}

\* What the entry n of the list adds when n is no own value or type.
PassedOn(t, n) ==
    LET imp == Imp(t)
        prel == {e \in PreludeEnts : PreludeVisible(t, e)}
    IN  CASE Named(imp, "val", n) # {} -> Named(imp, "val", n)
          [] Named(imp, "val", n) = {} /\ Named(imp, "ty", n) # {} ->
                Named(imp, "ty", n) \cup Children(imp, t.exports, n)
          [] OTHER -> {e \in prel : e.ns # "con" /\ e.name = n}
                      \cup (IF Named(PreludeEnts, "ty", n) # {}
                            THEN Children(prel, t.exports, n) ELSE {})

\* What the i-th entry of the list adds; an own name is among the listed ones.
Added(m, t, i) ==
    LET n == t.exports.names[i] IN
    IF Named(Own(m, t), "val", n) \cup Named(Own(m, t), "ty", n) # {} THEN {} ELSE PassedOn(t, n)

\* BTreeMap::insert: a later entry replaces what was offered under its names.
Lasting(m, t, E, i) ==
    {e \in E : \A j \in DOMAIN t.exports.names : j > i => ~Offers(Added(m, t, j), e)}

\* The import edges a `module X` entry names, by module or by alias.
Matching(t, x) == {k \in DOMAIN t.imports : k = x \/ x \in t.imports[k].aliases}

Reexported(t) ==
    UNION {{e \in surface[k] : VisibleThrough(t, k, e)} :
              k \in UNION {Matching(t, x) : x \in t.exports.reexports}}

\* Mutant of Offer: an export list adds to what the imports bring in.
OfferUngated(m, t) == Own(m, t) \cup {e \in Imp(t) : ~Offers(Own(m, t), e)}

Offer(m, t) ==
    IF ~t.listed THEN Own(m, t) \cup {e \in Imp(t) : ~Offers(Own(m, t), e)}
    ELSE Lasting(m, t, Listed(m, t), 0)
         \cup (UNION {Lasting(m, t, Added(m, t, i), i) : i \in DOMAIN t.exports.names})
         \cup Reexported(t)

Withhold(m, t) ==
    IF ~t.listed THEN {}
    ELSE {<<e.ns, e.name>> : e \in {x \in Own(m, t) \cup Imp(t) : ~Offers(Offer(m, t), x)}}

-------------------------------------------------------------------------------
(* Rejections *)

\* `module X` for an X that is neither this module nor an import.
BadReexport(m, t) == t.listed /\ \E x \in t.exports.reexports \ {m} : Matching(t, x) = {}

\* An import list names what the imported module's export list does not offer.
BadImport(t) ==
    \E k \in DOMAIN t.imports :
        /\ text[k].listed
        /\ \E f \in t.imports[k].forms : f.kind = "only" /\ \E i \in f.items :
              Named(surface[k], IF i.kind = "value" THEN "val" ELSE "ty", i.name) = {}

\* Mutant of Collides: a difference does not matter.
CollidesNever(m, t) == FALSE

\* An import brings in a Prelude name at a different type.
Collides(m, t) ==
    \E e \in Imp(t) : \E p \in Named(PreludeEnts, "val", e.name) :
        /\ e.ns = "val" /\ e.origin # Prelude /\ p.parent = none
        /\ Named(Own(m, t), "val", e.name) = {}
        /\ PreludeVisible(t, p)
        /\ e.name \in text[e.origin].differs

Rejected(m, t) == BadReexport(m, t) \/ BadImport(t) \/ Collides(m, t)

-------------------------------------------------------------------------------

Put(f, x, y) == [z \in DOMAIN f \cup {x} |-> IF z = x THEN y ELSE f[z]]

Init ==
    /\ world \in DOMAIN Worlds /\ root \in Worlds[world].texts[Root]
    /\ text = [m \in {} |-> root] /\ surface = [m \in {} |-> {}] /\ withheld = [m \in {} |-> {}]
    /\ denotes = [m \in {} |-> <<>>] /\ status = "running"

Turn == Order[Cardinality(DOMAIN text) + 1]

DeclaresOnce(m, t) == \A d, e \in Own(m, t) : d.ns = e.ns /\ d.name = e.name => d = e

ResolveModule(t) ==
    /\ ~Rejected(Turn, t)
    /\ text' = Put(text, Turn, t)
    /\ surface' = Put(surface, Turn, Offer(Turn, t))
    /\ withheld' = Put(withheld, Turn, Withhold(Turn, t))
    /\ denotes' = Put(denotes, Turn, Bindings(Turn, t))
    /\ status' = IF Turn = Root THEN "done" ELSE status
    /\ UNCHANGED <<world, root>>

Reject(t) ==
    /\ Rejected(Turn, t)
    /\ status' = "rejected"
    /\ UNCHANGED <<world, root, text, surface, withheld, denotes>>

Next ==
    /\ status = "running"
    /\ \E t \in IF Turn = Root THEN {root} ELSE Worlds[world].texts[Turn] :
        DeclaresOnce(Turn, t) /\ (ResolveModule(t) \/ Reject(t))

Spec == Init /\ [][Next]_vars

-------------------------------------------------------------------------------
(* Properties *)

\* Every binding is a canonical name or an error, every surface a set of
\* entities of modules resolved before.
TypeOK ==
    /\ DOMAIN surface = DOMAIN text /\ DOMAIN withheld = DOMAIN text /\ DOMAIN denotes = DOMAIN text
    /\ \A m \in DOMAIN text :
        /\ \A e \in surface[m] :
            e.ns \in Namespaces /\ e.name \in Names /\ e.origin \in DOMAIN text \cup {Prelude}
        /\ withheld[m] \subseteq Namespaces \X Names
        /\ \A r \in DOMAIN denotes[m] :
            denotes[m][r] \in Errors \cup {<<n>> : n \in Names}
                             \cup ((Mods \cup {RootPrefix}) \X Names)

Entities ==
    PreludeEnts \cup Declared(Root, root) \cup UNION {Own(m, text[m]) : m \in DOMAIN text}

\* The entities a reference of module m may denote.
Scope(m, r) ==
    LET t == text[m]
    IN  IF Len(r[2]) = 1
        THEN Own(m, t) \cup Imp(t) \cup {e \in PreludeEnts : PreludeVisible(t, e)}
        ELSE (UNION {surface[k] : k \in {x \in DOMAIN t.imports : r[2][1] \in t.imports[x].aliases}})
             \cup {e \in PreludeEnts : r[2][1] \in t.prelude.aliases}

\* No reference means an entity outside its module's scope because the
\* spelling it is left with is that entity's canonical name: not an imported
\* module's the entry module's (modules.rs 908), not `A.f` a private f of A
\* (1899), not a Prelude name a declaration of the program (347-350).
NoCapture ==
    \A m \in DOMAIN denotes : \A r \in DOMAIN denotes[m] : \A e \in Entities :
        e.ns = r[1] /\ CanonOf(e) = denotes[m][r] => e \in Scope(m, r)

\* When a type and a constructor of one module share a name the constructor is
\* that type's, and no module that exports all it sees declares a type of that
\* name without such a constructor: a program of which NoCapture then holds.
Declares(t, ns, n) == \E d \in t.decls : d.ns = ns /\ d.name = n

NamesType(w, n) ==
    \/ \E p \in w.prelude : p.ns = "ty" /\ p.name = n
    \/ \E m \in Mods : \E t \in w.texts[m] : Declares(t, "ty", n)

NamesakesTogether(w) ==
    \A m \in Mods \ {Root} : \A t \in w.texts[m] : \A n \in Names :
        /\ Declares(t, "ty", n)
        /\ Declares(t, "con", n) \/ \E nt \in t.newtypes : nt.name = n /\ NamesType(w, nt.head)
        => /\ \A d \in t.decls : d.ns = "con" /\ d.name = n => d.parent = n
           /\ \A k \in Mods \ {m, Root} : \A u \in w.texts[k] :
                 ~u.listed /\ Declares(u, "ty", n) => Declares(u, "con", n)

\* "names the list omits are private to the module" (SPEC.md 1538), however
\* many modules pass its names on, and under an alias too.
PrivateStaysPrivate ==
    \A m \in DOMAIN text : text[m].listed =>
        \A e \in Own(m, text[m]) \ Listed(m, text[m]) : \A k \in DOMAIN text :
            /\ e \notin surface[k]
            /\ k # m => \A r \in DOMAIN denotes[k] : r[1] = e.ns => denotes[k][r] # CanonOf(e)

\* The module imports e's defining module, and each of its forms leaves e out.
Excluded(t, e) ==
    /\ e.origin \in DOMAIN t.imports /\ t.imports[e.origin].forms # {}
    /\ \A f \in t.imports[e.origin].forms : FormHides(f, e)

\* "A name this module hides on a DIRECT import of its defining module does
\* not come back through another import" (modules.rs 635-637).
HiddenStaysHidden ==
    \A m \in DOMAIN text : \A e \in UNION {surface[k] : k \in DOMAIN surface} :
        Excluded(text[m], e) => denotes[m][<<e.ns, <<e.name>>>>] # CanonOf(e)

\* The value names module m asks of module k by name, and k offers.
Requested(m, k) ==
    {e \in surface[k] : \E f \in text[m].imports[k].forms :
        f.kind = "only" /\ [kind |-> "value", name |-> e.name] \in f.items /\ e.ns = "val"}

InScope(m, e) == denotes[m][<<e.ns, <<e.name>>>>] \notin Errors \ {Ambiguous}

\* A value an import names is in scope ("import Data.Tree (depth, Tree(..))
\* brings ... into scope", SPEC.md 1509; "each one contributes visibility",
\* modules.rs 423), unless the module also imports its defining module without
\* it (635-637).
RequestHonouredUnlessExcluded ==
    \A m \in DOMAIN text : \A k \in DOMAIN text[m].imports :
        \A e \in Requested(m, k) : Excluded(text[m], e) \/ InScope(m, e)

\* "An unqualified import that brings in a name the Prelude also provides, AT
\* A DIFFERENT TYPE, is rejected" (modules.rs 836-837): where the Prelude's
\* function is visible, a bare use never means such an import (a field or a
\* method has no signature to differ from, 844-846).
PreludeKept ==
    \A m \in DOMAIN text : \A k \in DOMAIN text \ {m} : \A n \in text[k].differs :
        \A p \in Named(PreludeEnts, "val", n) :
            p.parent = none /\ PreludeVisible(text[m], p) => denotes[m][<<"val", <<n>>>>] # <<k, n>>
===============================================================================
