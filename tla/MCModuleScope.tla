----------------------------- MODULE MCModuleScope -----------------------------
(* ModuleScope over programs of a few modules and names, for TLC. *)
EXTENDS ModuleScope, TLC

CONSTANTS A, B, Main, f, T, C, Std, Prefix

MCNames == {f, T, C}
Sub(n, p, ns) == [ns |-> ns, name |-> n, parent |-> p]

Fun == {Sub(f, none, "val")}
Data == {Sub(T, none, "ty"), Sub(C, T, "con")}
Record == Data \cup {Sub(f, T, "val")}

Value(n) == [kind |-> "value", name |-> n]
TypeOnly == [kind |-> "type", name |-> T]
TypeAll == [kind |-> "typeall", name |-> T]
All == [kind |-> "all", items |-> {}]
Only(S) == [kind |-> "only", items |-> S]
Hiding(S) == [kind |-> "hiding", items |-> S]

\* One form; two forms of one module; qualified as A, alone and with a list.
Plain(F) == {[forms |-> {x}, aliases |-> {}] : x \in F}
Specs ==
    Plain({All, Only({Value(f)}), Only({TypeOnly}), Only({TypeAll}), Hiding({Value(f)}), Hiding({TypeOnly})})
    \cup {[forms |-> {Only({Value(f)}), Only({TypeAll})}, aliases |-> {}],
          [forms |-> {}, aliases |-> {A}], [forms |-> {Only({TypeOnly})}, aliases |-> {A}]}

ListLess == [listed |-> FALSE, names |-> <<>>, subs |-> [x \in {} |-> {}], reexports |-> {}]
NoSubs == [x \in {} |-> {}]
Full == [x \in {T} |-> MCNames]
List(names, subs, reexports) ==
    [listed |-> TRUE, names |-> names, subs |-> subs, reexports |-> reexports]
Lists == {ListLess, List(<<f>>, NoSubs, {}), List(<<T>>, NoSubs, {}), List(<<T>>, Full, {}),
          List(<<f, T>>, Full, {})}

Implicit == [forms |-> {}, aliases |-> {}]
NoImports == [k \in {} |-> Implicit]
Text(decls, newtypes, imps, prelude, ex, differs) ==
    [decls |-> decls, newtypes |-> newtypes, imports |-> imps, prelude |-> prelude,
     listed |-> ex.listed, exports |-> [names |-> ex.names, subs |-> ex.subs, reexports |-> ex.reexports],
     differs |-> differs]

Simple(decls, imps, ex) == Text(decls, {}, imps, Implicit, ex, {})
Of(S, spec) == [k \in S |-> spec]

-------------------------------------------------------------------------------
(* A leaf, a module that imports it, the entry module; a bare Prelude. *)

MCOrder == <<A, B, Main>>

Leaves == {Simple(d, NoImports, ex) :
        d \in {Fun, Record, Fun \cup Data},
        ex \in Lists \cup {List(<<>>, NoSubs, {A})}}
MiddlesWith(exports) ==
    {Simple(d, Of({A}, s), ex) : d \in {{}, Fun}, s \in Specs, ex \in exports}
Middles == MiddlesWith({ListLess, List(<<f>>, NoSubs, {}), List(<<T>>, Full, {}),
                        List(<<>>, NoSubs, {A}), List(<<>>, NoSubs, {B})})
Entries ==
    {Text(d[1], d[2], Of({B}, s) @@ i, Implicit, ListLess, {}) :
        d \in {<<{}, {}>>, <<Fun, {}>>, <<{Sub(T, none, "ty")}, {[name |-> T, head |-> C]}>>},
        s \in Plain({All, Only({Value(f)}), Hiding({TypeOnly})})
              \cup {[forms |-> {}, aliases |-> {A}]},
        i \in {NoImports} \cup {Of({A}, x) : x \in Specs}}

MCTexts == [m \in {A, B, Main} |-> CASE m = A -> Leaves [] m = B -> Middles [] m = Main -> Entries]

-------------------------------------------------------------------------------
(* The same modules under a Prelude that has the names f, T and C. *)

OfPrelude(n, p, ns) == [ns |-> ns, name |-> n, origin |-> Std, parent |-> p]
MCPrelude == {OfPrelude(f, none, "val"), OfPrelude(T, none, "ty"), OfPrelude(C, T, "con")}

PreludeForms ==
    {Implicit, [forms |-> {Hiding({Value(f)})}, aliases |-> {}],
     [forms |-> {Only({TypeAll})}, aliases |-> {}], [forms |-> {}, aliases |-> {A}]}

PreludeTexts ==
    [m \in {A, B, Main} |->
        CASE m = A -> {Text(d, {}, NoImports, p, ex, x) :
                          d \in {Fun, Data}, p \in PreludeForms, ex \in {ListLess, List(<<T, f>>, Full, {})},
                          x \in {{}, {f}}}
          [] m = B -> {Text(d, {}, Of({A}, s), p, ex, {}) :
                          d \in {{}, Fun}, s \in Plain({All, Only({TypeOnly})}), p \in PreludeForms,
                          ex \in {ListLess, List(<<f>>, NoSubs, {}), List(<<>>, NoSubs, {A})}}
          [] m = Main -> {Text(d, {}, Of({B}, s), p, ListLess, {}) :
                          d \in {{}, Fun, Data}, p \in PreludeForms,
                          s \in Plain({All, Hiding({Value(f)})}) \cup {[forms |-> {}, aliases |-> {A}]}}]

-------------------------------------------------------------------------------
(* A private type with the name of an exported type's constructor. *)
PrivateTexts ==
    [m \in {A, B, Main} |->
        CASE m = A -> {Simple(Data \cup {Sub(C, none, "ty")}, NoImports, List(<<T>>, Full, {}))}
          [] m = B -> {Simple({}, Of({A}, s), ex) : s \in Plain({All, Only({TypeAll})}),
                                                    ex \in {ListLess, List(<<>>, NoSubs, {A})}}
          [] m = Main -> {Simple({}, Of({B}, s), ListLess) : s \in Plain({All, Only({TypeAll})})}]

-------------------------------------------------------------------------------
(* data T = T: a type and a constructor that share their name.             *)
Namesakes == {Sub(T, none, "ty"), Sub(T, T, "con")}
NamesakeTexts ==
    [m \in {A, B, Main} |->
        CASE m = A -> {Simple(Namesakes, NoImports, ex) : ex \in Lists \cup {List(<<>>, NoSubs, {A})}}
          [] m = B -> {Simple(d, Of({A}, s), ex) :
                          d \in {{}, Fun}, s \in Specs,
                          ex \in {ListLess, List(<<T>>, Full, {}), List(<<T>>, NoSubs, {}), List(<<>>, NoSubs, {A})}}
          [] m = Main -> {Simple({}, Of({B}, s) @@ i, ListLess) :
                             s \in Plain({All, Only({TypeOnly}), Only({TypeAll}), Hiding({TypeOnly})}),
                             i \in {NoImports} \cup {Of({A}, x) : x \in Specs}}]

-------------------------------------------------------------------------------
CONSTANTS bare, full, same

MCWorlds == bare :> [prelude |-> {}, texts |-> MCTexts] @@ full :> [prelude |-> MCPrelude, texts |-> PreludeTexts]
            @@ same :> [prelude |-> {}, texts |-> NamesakeTexts]
PrivateWorlds == bare :> [prelude |-> {}, texts |-> PrivateTexts]

\* What the entry of a Worlds gives, and what the private namesake takes away.
ASSUME NamesakeWorlds ==
    /\ \A w \in DOMAIN MCWorlds : NamesakesTogether(MCWorlds[w])
    /\ \A w \in DOMAIN PrivateWorlds : ~NamesakesTogether(PrivateWorlds[w])
===============================================================================
