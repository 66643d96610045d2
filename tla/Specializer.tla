----------------------------- MODULE Specializer -----------------------------
(***************************************************************************)
(* The monomorphiser, mllc/src/mono.rs: the walk that gives every use of a *)
(* polymorphic function its own copy, the cap that ends it (trip_spec_cap),*)
(* and the dictionary phase of run.                                        *)
(*                                                                         *)
(* A polymorphic function has a type variable a, which its context         *)
(* constrains if it has one, and a free variable b, which may be its       *)
(* result.  Its body is the sequence of the uses it makes of polymorphic   *)
(* functions; a use is a saturated application.  MainFn is the rest of the *)
(* program.  A call is what a use has been rewritten to: a reference by    *)
(* name, or one that passes dictionaries.                                  *)
(*                                                                         *)
(* Left out: class methods and the instance functions they resolve to,     *)
(* hence what a dictionary holds; first-class uses; data definitions.      *)
(***************************************************************************)
EXTENDS Integers, Sequences, FiniteSets, SequencesExt, FiniteSetsExt, Functions

CONSTANTS SpecLimit,  \* SPEC_LIMIT, a natural number
          Programs,   \* the modules that are compiled
          MainFn

\* A use names a function and what its two variables are used at.
UsesOf(fns) ==
    LET Arguments == [of : {"a", "b", "ground", "hidden"}, wrap : Seq({"list", "fun"})] IN
    [fun : fns, a : Arguments, b : Arguments]

\* Bodies use functions of the program, each of which is defined once; a variable is used
\* at a constrained one only where the context of the body constrains it, and no context
\* constrains main's type.
ASSUME SpecializerAssumption ==
    /\ SpecLimit \in Nat
    /\ \A p \in Programs :
        /\ p.order \in Seq(ToSet(p.order)) /\ IsInjective(p.order)
        /\ p.constrained \subseteq ToSet(p.order) /\ MainFn \notin p.constrained
        /\ p.builtins \subseteq ToSet(p.order) \ p.constrained
        /\ p.body \in [ToSet(p.order) -> Seq(UsesOf(ToSet(p.order)))]
        /\ \A f \in ToSet(p.order) : \A u \in ToSet(p.body[f]) :
              u.fun \in p.constrained /\ u.a.of \in {"a", "b"} => u.a.of = "a" /\ f \in p.constrained

VARIABLES compiled,         \* order, constrained, opens (the result is b), builtins, body
          phase,            \* the part of run: walk, flag, done
          todo,             \* the originals run has still to walk
          batch,            \* dict_fns, the worklist of the dictionary phase
          rewritten,
          stack,            \* the activations of mono_function and trip_spec_cap
          specializations,
          generated, result_fns,
          arity_only_fns, dict_passing_fns,
          dict_passing_counts,          \* which functions have tripped
          ground_forms, purged_specs,
          errors, deferred_errors

monoVars == <<compiled, phase, todo, batch, rewritten, stack, specializations, generated, result_fns,
          arity_only_fns, dict_passing_fns, dict_passing_counts, ground_forms, purged_specs,
          errors, deferred_errors>>
schedule == <<phase, todo, batch, rewritten>>
copies == <<specializations, generated>>
flags == <<arity_only_fns, dict_passing_fns, dict_passing_counts>>
served == <<ground_forms, purged_specs>>
reports == <<errors, deferred_errors>>

-------------------------------------------------------------------------------
(* Types.  A type is its constructors from the outside in, "list" or       *)
(* "fun" (Int ->), over a leaf: a ground type, a variable of the enclosing *)
(* function, the hidden type of an existential, or a hole: what is left of *)
(* a type in an arrow shape.                                               *)

Leaf(l) == [leaf |-> l, cons |-> <<>>]
Ground == Leaf("ground")

Constrained(f) == f \in compiled.constrained

Declared(f) == [a |-> IF Constrained(f) THEN Leaf("var") ELSE Ground, b |-> Leaf("var")]

\* A use's argument: a variable of the enclosing function or a leaf of its own, wrapped.
Substituted(arg, at) ==
    LET t == IF arg.of \in {"a", "b"} THEN at[arg.of] ELSE Leaf(arg.of) IN
    [t EXCEPT !.cons = arg.wrap \o @]

\* compute_body_subst, applied to one use
Instance(use, at) == [a |-> Substituted(use.a, at), b |-> Substituted(use.b, at)]

\* spine_arrow_count, beyond the arrows every use of f has
Arrows(f, at) ==
    IF f \notin compiled.opens THEN 0
    ELSE Cardinality({i \in DOMAIN at.b.cons : \A j \in 1 .. i : at.b.cons[j] = "fun"})

Widening(f, at) == Arrows(f, at) > 0

\* arity_shape: a constrained variable stays, the other keeps its arrows only.
Skeleton(t) == [leaf |-> "hole", cons |-> SubSeq(t.cons, 1, SelectLastInSeq(t.cons, LAMBDA c : c = "fun"))]
Shape(f, at) == [Declared(f) EXCEPT !.b = Skeleton(at.b)]

\* canonicalize_vars: a hole is a variable like any other in a copy's key.
Canonical(at) == IF at.b.leaf = "hole" THEN [at EXCEPT !.b.leaf = "var"] ELSE at

\* residual_vars_dead fails
Live(f, at) == Constrained(f) /\ at.a.leaf = "var"

Polymorphic(at) == {at.a.leaf, at.b.leaf} \cap {"var", "hole"} # {}

\* The type of a saturated application is polymorphic.
ResultPolymorphic(f, at) == f \in compiled.opens /\ at.b.leaf \in {"var", "hole"}

\* ex_dict_call_wanted
Hidden(f, at) == Constrained(f) /\ "hidden" \in {at.a.leaf, at.b.leaf}

-------------------------------------------------------------------------------

\* mangle_name: an original, or its copy at a type
Original(f) == [fun |-> f, copy |-> FALSE, at |-> Declared(f)]
Copy(f, at) == [fun |-> f, copy |-> TRUE, at |-> at]

Function(name, calls, form) == [name |-> name, calls |-> calls, form |-> form]
Activation(kind, name) ==
    [kind |-> kind, name |-> name, uses |-> compiled.body[name.fun], calls |-> <<>>,
     tripped_before |-> name.fun \in dict_passing_counts]

MonoInit ==
    /\ compiled \in Programs
    /\ phase = "walk" /\ todo = compiled.order /\ batch = {} /\ rewritten = {}
    /\ stack = <<>> /\ specializations = {} /\ generated = <<>> /\ result_fns = <<>>
    /\ arity_only_fns = compiled.builtins /\ dict_passing_fns = {} /\ dict_passing_counts = {}
    /\ ground_forms = {} /\ purged_specs = [n \in {} |-> n]
    /\ errors = {} /\ deferred_errors = {}

DictPassing(f) == Original(f) \in dict_passing_fns
Shared(f) == f \in arity_only_fns
SpecsOf(f) == {s \in specializations : s.fun = f}

\* trip_spec_cap's two counts
Full(f) == Cardinality(SpecsOf(f)) > SpecLimit
Exhausted(f) == Cardinality({s \in SpecsOf(f) : Widening(f, s.at)}) > SpecLimit
Capped(f) == IF Shared(f) \/ DictPassing(f) THEN Exhausted(f) ELSE Full(f)

Led(f, x, y) == [z \in DOMAIN f \cup {x} |-> IF z = x THEN y ELSE f[z]]

-------------------------------------------------------------------------------
(* mono_expr_node: one use of a polymorphic function                       *)

TopFrame == Last(stack)
Walking == stack # <<>> /\ TopFrame.kind # "trip" /\ TopFrame.uses # <<>>
Fun == Head(TopFrame.uses).fun
Use == Instance(Head(TopFrame.uses), TopFrame.name.at)

Answered(to, how) ==
    [stack EXCEPT ![Len(stack)] =
        [TopFrame EXCEPT !.uses = Tail(@), !.calls = Append(@, [to |-> to, at |-> Use, how |-> how])]]

\* A use at an existential's hidden type takes the captured dictionaries.
UseHidden ==
    /\ Walking /\ Hidden(Fun, Use)
    /\ dict_passing_fns' = dict_passing_fns \cup {Original(Fun)}
    /\ stack' = Answered(Original(Fun), "dicts")
    /\ UNCHANGED <<compiled, schedule, copies, result_fns, arity_only_fns, dict_passing_counts,
                   served, reports>>

\* The use stays a reference to the original.  A live variable occurs in originals
\* only, so the arm that answers with the enclosing copy of Fun is never taken.
UseByName ==
    /\ Walking /\ ~Hidden(Fun, Use)
    /\ IF DictPassing(Fun) THEN ~Widening(Fun, Use)
       ELSE Live(Fun, Use) \/ (Shared(Fun) /\ ~Widening(Fun, Use))
    /\ stack' = Answered(Original(Fun), "name")
    /\ UNCHANGED <<compiled, schedule, copies, result_fns, flags, served, reports>>

\* The use wants a copy of its own.
Wants ==
    /\ Walking /\ ~Hidden(Fun, Use)
    /\ IF DictPassing(Fun) \/ Shared(Fun) THEN Widening(Fun, Use) ELSE ~Live(Fun, Use)

\* Mutant of Wanted: the copies of shared functions are keyed by type.
WantedAtType == Copy(Fun, Canonical(Use))

Wanted == Copy(Fun, IF DictPassing(Fun) \/ Shared(Fun) THEN Shape(Fun, Use) ELSE Canonical(Use))

UseExisting ==
    /\ Wants /\ Wanted \in specializations
    /\ stack' = Answered(Wanted, "name")
    /\ UNCHANGED <<compiled, schedule, copies, result_fns, flags, served, reports>>

\* The arrow shapes are exhausted: the use is reported and stays by name.
UseExhausted ==
    /\ Wants /\ Wanted \notin specializations
    /\ Shared(Fun) \/ DictPassing(Fun)
    /\ Capped(Fun)
    /\ errors' = errors \cup {Fun}
    /\ stack' = Answered(Original(Fun), "name")
    /\ UNCHANGED <<compiled, schedule, copies, result_fns, flags, served, deferred_errors>>

\* widening_copy for a dictionary-passing function: a placeholder, whose
\* body the worklist rewrites.
DictCopy(name) ==
    /\ dict_passing_fns' = dict_passing_fns \cup {name}
    /\ generated' = Append(generated, Function(name, <<>>, "raw"))

\* specialize_at: the name is handed out before the copy is generated.
NewCopy(name, below) ==
    /\ specializations' = specializations \cup {name}
    /\ IF DictPassing(name.fun)
       THEN DictCopy(name) /\ stack' = below
       ELSE /\ stack' = Append(below, Activation("copy", name))
            /\ UNCHANGED <<generated, dict_passing_fns>>

\* purged_specs.remove: the name means its copy again.
Reborn(name) == Restrict(purged_specs, DOMAIN purged_specs \ {name})

UseNew ==
    /\ Wants /\ Wanted \notin specializations /\ ~Capped(Fun)
    /\ NewCopy(Wanted, Answered(Wanted, "name"))
    /\ purged_specs' = Reborn(Wanted)
    /\ UNCHANGED <<compiled, schedule, result_fns, arity_only_fns, dict_passing_counts,
                   ground_forms, reports>>

-------------------------------------------------------------------------------
(* trip_spec_cap *)

Names(fns) == {fn.name : fn \in ToSet(fns)}

\* The purged copies that are pending or under generation: they are gone.
Making == {fr.name : fr \in {g \in ToSet(stack) : g.kind = "copy"}}
Gone(f) == SpecsOf(f) \cap (Names(generated) \cup Making)

\* generated.retain: the functions of other names, in their order
Retained(fns, gone) ==
    LET kept == {i \in DOMAIN fns : fns[i].name \notin gone}
        Nth(j) == CHOOSE i \in kept : Cardinality({k \in kept : k <= i}) = j
    IN  [j \in 1 .. Cardinality(kept) |-> fns[Nth(j)]]

\* The use is answered when the trip is over, by what then serves it.
UseTrips ==
    /\ Wants /\ Wanted \notin specializations
    /\ ~Shared(Fun) /\ ~DictPassing(Fun) /\ Capped(Fun)
    /\ dict_passing_counts' = dict_passing_counts \cup {Fun}
    /\ IF Constrained(Fun)
       THEN dict_passing_fns' = dict_passing_fns \cup {Original(Fun)} /\ UNCHANGED arity_only_fns
       ELSE arity_only_fns' = arity_only_fns \cup {Fun} /\ UNCHANGED dict_passing_fns
    /\ specializations' = specializations \ SpecsOf(Fun)
    /\ generated' = Retained(generated, SpecsOf(Fun))
    /\ stack' = Append(stack, [kind |-> "trip", fun |-> Fun, purged |-> SpecsOf(Fun), gone |-> Gone(Fun)])
    /\ UNCHANGED <<compiled, schedule, result_fns, served, reports>>

Tripping == stack # <<>> /\ TopFrame.kind = "trip"
Handled(name) == [stack EXCEPT ![Len(stack)].purged = @ \ {name}]

\* Mutant of Purge: nothing is redirected.
PurgeNone(map, name, target) == map

Purge(map, name, target) == IF target = name THEN map ELSE Led(map, name, target)

\* A purged copy that widens the arity is replaced by the copy at its shape.
PurgeWidening ==
    /\ Tripping
    /\ \E name \in TopFrame.purged :
        /\ Widening(name.fun, name.at)
        /\ LET f == name.fun
               shape == Copy(f, Shape(f, name.at)) IN
           CASE shape \in specializations ->
                    /\ stack' = Handled(name)
                    /\ purged_specs' = Purge(purged_specs, name, shape)
                    /\ UNCHANGED <<copies, dict_passing_fns, errors>>
             [] shape \notin specializations /\ Capped(f) ->
                    /\ stack' = Handled(name)
                    /\ purged_specs' = Purge(purged_specs, name, Original(f))
                    /\ errors' = errors \cup {f}
                    /\ UNCHANGED <<copies, dict_passing_fns>>
             [] OTHER ->
                    /\ NewCopy(shape, Handled(name))
                    /\ purged_specs' = Purge(Reborn(shape), name, shape)
                    /\ UNCHANGED errors
    /\ UNCHANGED <<compiled, schedule, result_fns, arity_only_fns, dict_passing_counts,
                   ground_forms, deferred_errors>>

\* dict_stub: a plain function that passes the dictionaries of its type
Stub(name) ==
    Function(name, <<[to |-> Original(name.fun), at |-> name.at, how |-> "dicts"]>>, "plain")

\* Any other purged copy: shared functions are redirected to the original; a
\* constrained one keeps its name, as a stub unless it was emitted.
PurgePlain ==
    /\ Tripping
    /\ \E name \in TopFrame.purged :
        /\ ~Widening(name.fun, name.at)
        /\ stack' = Handled(name)
        /\ IF Shared(name.fun)
           THEN /\ purged_specs' = Purge(purged_specs, name, Original(name.fun))
                /\ UNCHANGED <<generated, ground_forms>>
           ELSE /\ ground_forms' = ground_forms \cup {name}
                /\ generated' = IF name \in TopFrame.gone \ ground_forms
                                THEN Append(generated, Stub(name)) ELSE generated
                /\ UNCHANGED purged_specs
    /\ UNCHANGED <<compiled, schedule, specializations, result_fns, flags, reports>>

TripDone ==
    /\ Tripping /\ TopFrame.purged = {}
    /\ stack' = Front(stack)
    /\ UNCHANGED <<compiled, schedule, copies, result_fns, flags, served, reports>>

-------------------------------------------------------------------------------
(* The end of a body *)

Walked(kind) == stack # <<>> /\ TopFrame.kind = kind /\ TopFrame.uses = <<>>

\* Mutant of Keeps: every copy is emitted.
KeepsAll(frame) == TRUE

\* generate_specialization: a copy whose function tripped meanwhile is purged.
Keeps(frame) == frame.tripped_before \/ frame.name.fun \notin dict_passing_counts

CopyDone ==
    /\ Walked("copy")
    /\ generated' = IF Keeps(TopFrame) THEN Append(generated, Function(TopFrame.name, TopFrame.calls, "plain"))
                    ELSE generated
    /\ stack' = Front(stack)
    /\ UNCHANGED <<compiled, schedule, specializations, result_fns, flags, served, reports>>

OriginalDone ==
    /\ Walked("original")
    /\ result_fns' = Append(result_fns, Function(TopFrame.name, TopFrame.calls, "plain"))
    /\ stack' = Front(stack)
    /\ UNCHANGED <<compiled, schedule, copies, flags, served, reports>>

\* poly_fns: the originals, and the arrow-shape copies of dictionary-passing ones
IsPolyFn(name) == ~name.copy \/ name \in dict_passing_fns

\* Mutant of TakesDicts: the context of the callee is not looked at.
TakesAnyDicts(call) ==
    call.how = "name" /\ IsPolyFn(call.to) /\ (Polymorphic(call.at) \/ call.to \in dict_passing_fns)

\* rewrite_dict_expr: a constrained callee takes dictionaries when it is
\* used at a type that no copy can be made for, and is flagged.
TakesDicts(call) ==
    /\ call.how = "name" /\ IsPolyFn(call.to) /\ Constrained(call.to.fun)
    /\ Polymorphic(call.at) \/ call.to \in dict_passing_fns

WithDicts(calls, taken) ==
    [i \in DOMAIN calls |-> IF calls[i] \in taken THEN [calls[i] EXCEPT !.how = "dicts"] ELSE calls[i]]

\* rewrite_dict_passing_fn
DictDone ==
    /\ Walked("dict")
    /\ LET taken == {c \in ToSet(TopFrame.calls) : TakesDicts(c)}
           i == SelectInSeq(result_fns, LAMBDA fn : fn.name = TopFrame.name) IN
        /\ dict_passing_fns' = dict_passing_fns \cup {c.to : c \in taken}
        /\ result_fns' = [result_fns EXCEPT ![i] = Function(TopFrame.name, WithDicts(TopFrame.calls, taken), "dict")]
    /\ stack' = Front(stack)
    /\ UNCHANGED <<compiled, schedule, copies, arity_only_fns, dict_passing_counts, served, reports>>

-------------------------------------------------------------------------------
(* run *)

NextOriginal ==
    /\ phase = "walk" /\ stack = <<>> /\ todo # <<>>
    /\ stack' = <<Activation("original", Original(Head(todo)))>>
    /\ todo' = Tail(todo)
    /\ UNCHANGED <<compiled, phase, batch, rewritten, copies, result_fns, flags, served, reports>>

\* Mutant of Reverted: calls made before a trip stay as they are.
RevertedNone(calls) == calls

\* revert_purged
Reverted(calls) ==
    [i \in DOMAIN calls |->
        IF calls[i].how = "name" /\ calls[i].to \in DOMAIN purged_specs
        THEN [calls[i] EXCEPT !.to = purged_specs[@]] ELSE calls[i]]

\* The generated copies join the originals and purged names are redirected.
Redirect ==
    /\ phase = "walk" /\ stack = <<>> /\ todo = <<>>
    /\ result_fns' = [i \in 1 .. Len(result_fns) + Len(generated) |->
                        [(result_fns \o generated)[i] EXCEPT !.calls = Reverted(@)]]
    /\ generated' = <<>>
    /\ phase' = IF dict_passing_fns = {} THEN "done" ELSE "flag"
    /\ UNCHANGED <<compiled, todo, batch, rewritten, stack, specializations, flags, served, reports>>

\* Mutant of Unrewritten: the worklist takes up what it has done.
UnrewrittenAll == dict_passing_fns

Unrewritten == dict_passing_fns \ rewritten

NextBatch ==
    /\ phase = "flag" /\ stack = <<>> /\ batch = {} /\ Unrewritten # {}
    /\ batch' = Unrewritten
    /\ UNCHANGED <<compiled, phase, todo, rewritten, stack, copies, result_fns, flags, served, reports>>

\* The worklist walks the pristine body of a flagged function it finds.
RewriteNext ==
    /\ phase = "flag" /\ stack = <<>>
    /\ \E name \in batch :
        /\ batch' = batch \ {name}
        /\ rewritten' = rewritten \cup {name}
        /\ stack' = IF name \in Names(result_fns) THEN <<Activation("dict", name)>> ELSE <<>>
    /\ UNCHANGED <<compiled, phase, todo, copies, result_fns, flags, served, reports>>

\* rewrite_dict_call_sites
CallTakesDicts(call) ==
    /\ call.how = "name" /\ call.to \in dict_passing_fns
    /\ ~ResultPolymorphic(call.to.fun, call.at)

\* rewrite_non_dict_fn
SiteRewritten(fn) ==
    IF fn.name \in dict_passing_fns THEN fn
    ELSE [fn EXCEPT !.calls = WithDicts(Reverted(@), {c \in ToSet(Reverted(@)) : CallTakesDicts(c)})]

\* A use that needs a dictionary nobody can build, in code that may be dead.
Uncompilable(fn) ==
    /\ fn.name \notin dict_passing_fns
    /\ \E i \in DOMAIN fn.calls : fn.calls[i].how = "name" /\ fn.calls[i].to \in dict_passing_fns

\* Steps (b) and (c): every function that is not dictionary-passing.
RewriteSites ==
    /\ phase = "flag" /\ stack = <<>> /\ batch = {} /\ Unrewritten = {}
    /\ LET all == result_fns \o generated
           now == [i \in DOMAIN all |-> SiteRewritten(all[i])] IN
        /\ result_fns' = now
        /\ deferred_errors' = {fn.name : fn \in {g \in ToSet(now) : Uncompilable(g)}}
    /\ generated' = <<>> /\ phase' = "done"
    /\ UNCHANGED <<compiled, todo, batch, rewritten, stack, specializations, flags, served, errors>>

MonoNext ==
    \/ NextOriginal \/ UseHidden \/ UseByName
    \/ UseExisting \/ UseExhausted \/ UseNew \/ UseTrips
    \/ PurgeWidening \/ PurgePlain \/ TripDone
    \/ CopyDone \/ OriginalDone \/ DictDone
    \/ Redirect \/ NextBatch \/ RewriteNext \/ RewriteSites

MonoSpec == MonoInit /\ [][MonoNext]_monoVars
MonoFairSpec == MonoSpec /\ WF_monoVars(MonoNext)

-------------------------------------------------------------------------------

Types == [leaf : {"ground", "var", "hidden", "hole"}, cons : Seq({"list", "fun"})]
FunNames == ToSet(compiled.order)
NameSet == [fun : FunNames, copy : BOOLEAN, at : [a : Types, b : Types]]
Calls == [to : NameSet, at : [a : Types, b : Types], how : {"name", "dicts"}]
FunctionSet == [name : NameSet, calls : Seq(Calls), form : {"plain", "dict", "raw"}]

\* Names, calls and copies have their types, and only functions with a context are
\* dictionary-passing or have ground forms (mono.rs 3503-3507, 310).
CopiesTyped ==
    /\ phase \in {"walk", "flag", "done"}
    /\ todo \in Seq(FunNames)
    /\ batch \subseteq NameSet /\ rewritten \subseteq NameSet
    /\ specializations \subseteq {n \in NameSet : n.copy}
    /\ generated \in Seq(FunctionSet) /\ result_fns \in Seq(FunctionSet)
    /\ arity_only_fns \subseteq FunNames \ compiled.constrained
    /\ dict_passing_fns \cup ground_forms \subseteq {n \in NameSet : Constrained(n.fun)}
    /\ dict_passing_counts \subseteq FunNames
    /\ DOMAIN purged_specs \subseteq NameSet /\ Range(purged_specs) \subseteq NameSet
    /\ errors \subseteq FunNames /\ deferred_errors \subseteq NameSet

-------------------------------------------------------------------------------

Emitted == ToSet(result_fns) \cup ToSet(generated)
EmittedNames == {fn.name : fn \in Emitted}
Kept == {fr.name : fr \in {g \in ToSet(stack) : g.kind = "copy" /\ Keeps(g)}}

\* However often a function is used, it has at most SpecLimit + 1 copies before it
\* trips the cap, and after that at most as many, one per arrow shape; one that an
\* existential made dictionary-passing may have as many of each (1934-1967).
CopiesBounded ==
    \A f \in FunNames :
        /\ f \notin dict_passing_counts =>
              Cardinality(SpecsOf(f)) <= (IF DictPassing(f) THEN 2 ELSE 1) * (SpecLimit + 1)
        /\ f \in dict_passing_counts =>
            /\ Cardinality(SpecsOf(f)) <= SpecLimit + 1
            /\ \A s \in SpecsOf(f) : Widening(f, s.at) /\ s.at = Shape(f, s.at)

\* No name is defined twice, also when a stub takes the name of a purged copy that is
\* still being made (1997-2015, 2150-2158).
OneDefinition ==
    LET names == [i \in DOMAIN (result_fns \o generated) |-> (result_fns \o generated)[i].name] IN
    /\ IsInjective(names)
    /\ Range(names) \cap Kept = {}
    /\ \A i, j \in DOMAIN stack :
          i # j /\ stack[i].kind = "copy" /\ stack[j].kind = "copy" /\ Keeps(stack[i]) /\ Keeps(stack[j])
            => stack[i].name # stack[j].name

\* A name that was handed out always leads somewhere: to a copy that is emitted or
\* being made, to what replaces it, or to a trip that has still to decide (285-299);
\* a constrained function's ground copy stays a plain function (300-310).
NamesLead ==
    LET known == EmittedNames \cup Kept \cup DOMAIN purged_specs
                 \cup UNION {fr.purged : fr \in {g \in ToSet(stack) : g.kind = "trip"}}
        bodies == {fr \in ToSet(stack) : fr.kind # "trip"} IN
    /\ \A x \in Emitted \cup bodies : \A i \in DOMAIN x.calls :
           LET to == x.calls[i].to IN to.copy => to \in known
    /\ \A n \in ground_forms : \E fn \in Emitted : fn.name = n /\ fn.form = "plain"

-------------------------------------------------------------------------------

\* What the emitted program can run: the functions so many calls away from MainFn
Reached[n \in Nat] ==
    IF n = 0 THEN {Original(MainFn)}
    ELSE LET R == Reached[n - 1] IN
         R \cup UNION {{c.to : c \in ToSet(fn.calls)} : fn \in {g \in Emitted : g.name \in R}}
Reachable == LET R == Reached[Len(result_fns)] IN {fn \in Emitted : fn.name \in R}

Accepted == phase = "done" /\ errors = {} /\ \A fn \in Reachable : fn.name \notin deferred_errors

CallsOf(fn, how) == {c \in ToSet(fn.calls) : c.how = how}

\* A function of that name and form exists, and it takes as many arguments as the
\* call passes.
Serves(call, form) ==
    \E fn \in Emitted :
        /\ fn.name = call.to /\ fn.form = form
        /\ Arrows(fn.name.fun, call.at) = (IF fn.name.copy THEN Arrows(fn.name.fun, fn.name.at) ELSE 0)

\* In an accepted program every call by name that a plain function can make reaches a
\* plain function that takes its arguments, whatever was purged meanwhile (285-299).
NamedCallsServed ==
    Accepted => \A fn \in Reachable : fn.form = "plain" =>
                    \A c \in CallsOf(fn, "name") : Serves(c, "plain")

\* And every call that passes dictionaries reaches a function that takes them: the
\* copy of a dictionary-passing function at a shape is "what run's worklist finds by
\* name and rewrites in place" (mono.rs 2089-2091).
DictCallsTaken ==
    Accepted => \A fn \in Reachable : \A c \in CallsOf(fn, "dicts") :
                    \E g \in Emitted : g.name = c.to /\ g.form = "dict"

\* The pass ends, also on a polymorphic recursion that asks for a new type or a new
\* shape at every level: "the trip cannot loop" (1967), and the worklist empties.
MonoTerminates == <>(phase = "done")
===============================================================================
