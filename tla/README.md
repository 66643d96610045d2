# Verification of mata-ll in TLA+

mata-ll is a lazy, purely functional language that compiles to Lua.  The
repository holds the compiler (`mllc`, Rust), the Lua runtime that every
compiled program carries (`mllc/src/codegen/runtime.lua` and
`runtime_integer.lua`), the command line (`mll`), a REPL (`mll-repl`), a
WebAssembly front (`mllc-wasm`) and the standard libraries (`mllc/lib`).

This directory models the stateful core of that system in TLA+, checks the
models with TLC on small instances, and proves the results that matter most with
TLAPS for every value of the constants.

Paths below are relative to the repository; `runtime.lua 1847` is line 1847 of
`mllc/src/codegen/runtime.lua`.

## 1. Inventory

Data flows through the compiler once, front to back (`mllc/src/lib.rs`,
`compile`): lex, parse by columns, load modules, resolve fixities, desugar,
check kinds and types, monomorphise, verify, fold, erase newtypes, split, drop
dead code, analyse demand, generate Lua.  What the compiler emits then runs
against the runtime, where the concurrency-like behaviour of the system lives:
Lua is single-threaded, but *forcing a lazy value may run any program code*, so
every runtime function that forces something in its middle is exposed to what
that code does to the state the function has already read.

| Component | State | Operations | What is hard | What makes it correct |
|---|---|---|---|---|
| HashMap, scalar keys (runtime.lua 1800-2030) | a live Lua table per version family, handles that are roots or diffs, the frozen `hmEmpty` | insert, delete, lookup, member, size, keys/values/toList, show, fromList | reading an old version *mutates* (reroot); show forces values between two entries; long chains are copied, two roots then coexist | every version answers as an independent immutable map |
| HashMap, structural keys (2031-2155) | the same store, keyed by an encoding | the same, through the encoder of the key's type | the encoder forces lazy key components, so it runs other operations of the same family | the same |
| NaN keys (40-46, 2046, 2080-2083, 2124-2129) | one program-wide counter | encode, box, stamp, enumerate | an insert compares the counter before and after code it does not control | NaN entries are listed last, in insertion order; ordinary ones in key order |
| Lazy cells and thunks (60-256) | `__lazy` flag and tail slot of a cons cell, `[1]`/`[2]` and captured slots of a thunk | force, tail, tail_lazy, the cons constructors | a generator may read its own cell while it runs; errors leave evaluations half done | memoization never changes a list, a failed evaluation can be retried, work is shared |
| Pure boxes and the IO runners (57-64, 820-905, 2265-2318) | boxed results, the loop drivers' pending action | run an action, unbox, catch | an IO result that is itself an action | an action runs once per request |
| ST and IORef cells, arrays (2580-2775) | one mutable table per reference | new, read, write, modify, freeze | freeze and thaw share or copy the table | no write shows through a frozen array |
| Big integers (`runtime_integer.lua`) | immutable limb arrays | add, subtract, multiply, divide, compare, convert | carries, borrows, limb estimates at the edge of 2^53 | every operation equals integer arithmetic |
| FFI (300-700) | none kept | encode and decode values crossing to Lua | nil is a program value and a Lua hole | decode inverts encode |
| Lexer (`lexer.rs`) | a cursor | tokens, with an indentation mark where a line begins | numbers, nested comments | each token is what the report says it is |
| Parser and layout (`parser.rs`) | token cursor and three columns: of the line last entered, of the expression, of the block | recursive descent; each rule decides for itself what a line break means | no layout pass: a column set by one rule is judged by another | a program is grouped as Haskell's layout rule groups it |
| Fixity (`fixity.rs`) | operator table | re-association of infix chains | fixities are known only after modules are loaded | re-association agrees with declared precedences |
| Module loader (`modules.rs`) | cache of parsed files, cache of resolved regions, in-progress set and its ordered copy, fixity table | scan, load, resolve depth first, merge | cycles, diamonds, a module that fails half way up a chain of activations | each module is compiled once, after its imports; a rejection has a reason |
| Name resolution (`modules.rs`, phases 2-8 of `resolve_module`) | what each module offers and withholds, the names of the entry module | import forms, export lists, canonical names, aliases, promotion | a reference is left as a spelling, so a wrong spelling *is* another entity | no name is captured; private and hidden names stay so |
| Desugarer (`desugar.rs`) | none | rewrite | capture | meaning is kept |
| Kinds, types, classes, deriving, linear usage (`typechecker/*`, `types.rs`) | substitution, givens of a match, environments, instance table, pending constraints | unify, refine, reduce families, generalise, solve, count uses | occurs check and composition, families applied to types not known yet, rigid variables, defaulting, branch merging of uses | a substitution solves its equations and commits to no more; accepted programs are well typed; linear values are used once |
| Monomorphiser (`mono.rs`) | table of specializations, copies pending and under generation, redirections, dictionary-passing set, worklist | specialise, cap, purge, redirect, fall back to dictionaries | polymorphic recursion; a cap that trips inside the generation of the copies it purges | the pass ends, a name means one function, and every call is served |
| Middle passes (`verify.rs`, `fold.rs`, `newtype_erase.rs`, `split.rs`, `dce.rs`) | none kept between passes | rewrite, drop | reachability through instances and dictionaries | nothing reachable is dropped |
| Demand and strictness (`demand.rs`, `codegen/strictness.rs`) | a table of signatures iterated to a fixpoint | analyse, apply | recursion | no value is forced that a lazy program would not demand |
| Code generation (`codegen/*.rs`) | emission buffers, scope and upvalue tables | generate expressions, loops, thunks, hoists | Lua's 200 locals and 60 upvalues; self tail calls become loops | the limits hold and capture is per iteration |
| CLI (`mll/src/main.rs`), REPL (`mll-repl/src/main.rs`), wasm (`mllc-wasm`) | REPL: declarations entered so far | compile, run, evaluate a line | a failed line must leave the session as it was | session state grows only by accepted lines |
| Standard libraries (`mllc/lib/*.mll`) | none | pure code over the runtime | - | - |

The components talk by calls: each pass takes the program of the pass before
it; generated code calls the runtime; the runtime calls back into generated
code whenever it forces.  The maps, the NaN counter and the cells are the
shared state behind those callbacks, which is why they are modelled first.

## 2. Modules and how they correspond to the code

### `PersistentMaps` - what a HashMap promises

The abstract specification: `maps` gives every map value its contents, an
operation creates a value or answers from one, and nothing else changes.

### `HashMapStore` - the rerooting runtime

`node[h]` is the Lua table of a handle with the fields the code uses: a root
`{t, n}` or a diff `{k, v, p}`; `store[s]` is a live table.  `pc`, `call`, `path`,
`cur`, `t`, `n` are the running operation and the locals of `__mll_hm_reroot`;
`shows` are the `show_HashMap` calls suspended while they force a value.  `val` is a
history variable: the map the program means by each handle.  It is written once, when
a handle is created, and no action reads it.

| Action | Code |
|---|---|
| `Begin`, `Walk` | entry of every operation, the chain walk (1847-1850) |
| `AtRoot`, `StartRotate`, `StartMaterialize` | already the root; chain within the cap; beyond it (copy) |
| `Rotate`, `Replay` | one turn of either loop; `ApplyDiff` is what they share |
| `BecomeRoot` | `m.k, m.v, m.p = nil; m.t, m.n = t, n` |
| `Lookup`, `SizeOf`, `ListOf`, `Insert`, `Delete`, `DeleteMissing` | the bodies, straight-line code each |
| `Snapshot`, `ShowEntry`, `ShowDone`, `Raise` | `show_HashMap`, which snapshots, then forces entry by entry |
| `FromListBegin/Add/End` | `hashmap_fromList` and the FFI decoder of tables |

The granularity is one turn of a loop, so an invariant is seen in the middle of
a rotation as well.  `CapBase` is 16 in the code; it is a constant here, so that the
copying path is reached by short chains.

### `StructuralKeys` - maps keyed by tuples, lists, Maybes

Extends `HashMapStore`: the writes encode their key before they touch the map,
so for them nothing changes.  The two reads fetch the table first and encode
afterwards; `Fetch` suspends a read on `reads`, any operation may then run, and `Index`
reads the table that was fetched.  `got` is what the last step answered
to such a read, if it did.

### `NanKeys` - the NaN counter

`nan_seq` is `__mll_hm_nan_seq`.  `InsertBegin` saves it, the `Encode...` steps are the
encoder's components, `InsertEnd` compares and stamps; inserts nest through
lazy components.  A map is the sequence of its entries in insertion order; `OrdinaryKeys`
are the keys that are no NaN.

### `LazyCells` - cons cells and thunks

A cell's tail slot holds a generator (`fn` or `gen`), a thunk, or a value, and
its `lazy` flag says which reader arm applies.  `stack` is the runtime's
activations: a generator run in place by `__mll_tail`, one run by `__force`,
and the half of `__mll_tail` that memoizes afterwards.  The running generator
may read any cell, its own among them, return a known or a fresh cell, or raise.

### `ProgramOrder` and `ModuleLoader` - import resolution

`ProgramOrder` is the promise: one list in which every module comes once and
after its imports, or a rejection with a reason (a cyclic set of modules, a flaw some
module has).

`ModuleLoader` is the code.  `pending` and `seen` are the locals of `begin_program`,
`frames` the activations of `resolve_module`, `in_progress` and `in_progress_stack`
the two fields that must name the same modules.  A region is reduced to the
sequence of the modules whose declarations it holds (`origin_spans` without lengths).
What is wrong with a module is part of the input: it is missing, does not
parse, has a bad import list, an infix chain that cannot be grouped, or a host export
that clashes.

| Action | Code |
|---|---|
| `ScanSeen`, `ScanLoad`, `BeginResolve` | the transitive parse of `begin_program` and the choice of the entry module's prefix |
| `UseResolved`, `FindCycle`, `Enter`, `LoadFails` | one import of phase 1: cached region, cycle, recursion, file error |
| `Declare`, `RejectLists` | phases 2 to 6 |
| `Group`, `RejectChains` | phase 7, which needs every fixity in scope |
| `MergeSpan`, `Return`, `Finish`, `RejectExports` | the merge of the imported regions, one origin at a time, and the end of an activation |
| `Unwind` | an error on its way through the `?` of every activation |

### `ModuleScope` - what a name denotes

`world` fixes the Prelude and the texts its modules may have.  One step resolves one module,
in the order the loader fixes; its text is chosen when it is its turn, except the entry module's, which is parsed first
(`root`).  `denotes[m]` maps every reference module `m` may write to a canonical name or
an error; `surface[m]` is the set of the entities it offers, `withheld[m]` what its export
list keeps back.  Canonical names and references share the spellings, as they
do in the compiler, so a reference that is left as written may *be* another entity's
canonical name: that is what `NoCapture` is about.

`NoCapture` and the two properties that rest on it hold in every program in which a type and a
constructor of one name stay together (`NamesakesTogether`): a constructor that shares its name
with a type of its module is that type's, and no module that exports all it sees declares a type
of that name without such a constructor.  Both conditions are needed; finding `scope_private`
is a program that breaks the first.

Two behaviours of the code that the model keeps and a reader may not expect.  A
name that a direct import of its defining module leaves out is out of scope even
when another import asks for it by name (`RequestHonouredUnlessExcluded` states
exactly that exception).  Phase 8 fills the surface entry by entry, a later insert
replacing an earlier one (`Replacing`): a list that names an own function `f` and an
imported `T(..)` with a field `f` in scope offers the field; and the constructors
`T(..)` carries are selected by the spelling of their parent only.

Left out: local binders and wired-in references, the text of messages, and texts that declare
a name twice (`DeclaresOnce`; a field that several constructors of a type share is one name).

### `Specializer` - the monomorphiser's copies, cap and dictionary phase

A polymorphic function is reduced to what the pass decides by: whether its context
constrains a variable `a`, whether a free variable `b` is its result, and the uses its body
makes of such functions.  A type is a spine of constructors over a leaf; `hole` is what
an arrow shape leaves of a type, `hidden` the type of an existential.  A use becomes a call,
by name or with dictionaries.  `stack` holds the activations of `mono_function` (an
original, a copy, a dictionary body) and of `trip_spec_cap`, which generates copies in its
middle; the other variables are the fields of `Monomorphizer`.

| Action | Code |
|---|---|
| `NextOriginal`, `OriginalDone`, `Redirect` | the walk of `run` over the module, the end of the walk with `revert_purged` |
| `UseHidden`, `UseByName`, `UseExisting`, `UseNew`, `UseExhausted`, `UseTrips` | the `Var` arm of `mono_expr_node` with `specialize_at` and `widening_copy`, by what becomes of the use |
| `PurgeWidening`, `PurgePlain`, `TripDone` | the purge of `trip_spec_cap`, one copy at a time, in any order |
| `CopyDone` | the end of `generate_specialization`, which drops a copy that was purged meanwhile |
| `NextBatch`, `RewriteNext`, `DictDone` | step (a) of the dictionary phase: `rewrite_dict_passing_fn` on the worklist |
| `RewriteSites` | steps (b) and (c): `rewrite_non_dict_fn` and `settle_generated` |

Left out: class methods and the instance functions they resolve to, hence what
a dictionary holds and step (d), which decides it; first-class uses; data definitions.
Without (d) a second round of the phase changes nothing, so there is one.  The code takes
purged copies and worklist entries in the order of their names; the model takes any order.

### `BigIntegers` - the arbitrary-precision Integer

A magnitude is the sequence of its limbs, as in `runtime_integer.lua`; addition,
subtraction, multiplication, comparison, showing and reading are operators on limbs, with the
native shortcuts for short operands.  The base, the radix shown in, the digits shown at a time and the width of a
machine `Int` are constants.  A walk over limbs is a function from a limb to what leaves it, a carry, a borrow or a
remainder (`SumCarries`, `Borrows`, `Remainders`, ...), so that it can be proved about.  The long division is the state machine:

| Action | Code |
|---|---|
| `Simple`, `DivideByZero`, `SmallDivision`, `ShorterDividend`, `OneLimbDivisor` | the operations and the shortcuts of a division |
| `Normalize` | the scaling of both operands |
| `Estimate`, `Correct` | a quotient digit from the top limbs, and the loop that lowers it |
| `MultiplySubtract`, `AddBack` | one row of the division, and its repair when the digit was still too large |
| `Denormalize` | the remainder |

### `ActionRunners` and `ActionMeaning` - actions, performers, the two runners

The actions of `ActionRunners` are the code the
compiler emits for an action (`codegen/action.rs`) on a stack of Lua frames (`pending`), with the pure
box, `__mll_run`, `__mll_run_tail`, `try` and `catch` of `runtime.lua`.  `slot` is one IORef,
`trace` the effects seen so far.  The programs are a constant, with the set of actions they are made of and the
subset `TailCalls` of those that go on in tail position.  `ActionMeaning` has the reference, by recursion over
the action: `Means` is what it does in Haskell.  `exposed` is a history variable: a terminal handed a stored
thunk or function to a consumer that runs it again, or a box to a function.

### `LinearUsage` and `LinearPrograms` - the usage checker

`LinearUsage` has the walk of `usage.rs` over expressions, patterns, guards, binding
groups and binds (`Check`), and a reference that runs an accepted definition by name, path by
path, counting what becomes of each part of the argument (`Run`).  `gap` records that the
walk met a construct it lets through without following it: a name used on one path of a local
function, or a binder of type `()`, which is exempt though a lazy program may never look at it.
`LinearPrograms` builds the definitions.

### `Strictness` and `StrictnessModules` - the demand analysis

`rows` is the table of strict positions.  `Round` is one trip of the fixpoint of `demand.rs`
over the module (`settled` its end); `Run` then runs a function by name with an argument that
diverges in a position its row calls strict.  What a condition decides is left open, and so is
what an unknown argument is, a number or a function that ignores its arguments.

### `Fixity` - the grouping of infix chains

`infix`, `prefix` and `continue_infix` call each other; `frames` are their activations. A
node is the interval of operands it covers, so a grouping is a set of intervals.
`Phrases(c)` is the Haskell rule without an algorithm: a table of what every span of operands may
be grouped to, with or without the minus of its first operand, from the entries of shorter spans; `Groupings` is
its entry for the whole chain.  `Climbing` is the other algorithm of the file, for types; it is
a function over numbers, as the table is, so that both can be proved about.
`GroupedAsHaskell` joins what is claimed of chains, of types and of sections.

### `HaskellLayout`, `Layout` and `LayoutPrograms` - the layout-sensitive parser

mllc has no layout pass.  The rules of `parser.rs` compare three columns when a line break
comes: `ci` (`current_indent`, of the line last entered), `em` (`expr_min_indent`) and `bi`
(`block_indent`).  `Layout` is that recursive descent, one operator per rule and one case of
`Parse` per loop; its state also says whether the break before the next token was skipped, which
the code does by moving its cursor past an Indent token.  A parse is the set of intervals of
tokens it groups, by kind (argument, operand, item, guard).  `HaskellLayout` is the reference:
the layout algorithm of the Haskell report with the same grammar.  `Read`, the one action,
runs both on a program.  `LayoutPrograms` builds the programs: a text that may be broken in a few
places, each line indented by 0, 2 or 4 or to the column of an earlier block.

The comparison leaves out three gaps, each marked by the parse that meets it: an operator that
goes on with a chain after the break that ended a nested do block ("resumed", 4116-4118); a line
that starts with `- literal` and becomes an argument of the line above (3638-3646); the `where`
of a case alternative, which mllc leaves to the clause (592-606).  A layout that Haskell accepts and mllc
refuses is refused at one of a few tokens, which `AcceptsHaskellUnlessGap` names; such a
refusal is loud.

Names are not told apart.  Left out: operator sections, records, lists, types, infix and
operator definitions, pattern bindings at the top level, declarations other than equations,
explicit braces, and the characters the tokens are made of.

### `GroundTypes`, `Unification` and `UnificationProblems` - the unifier

`GroundTypes` is the reference: what a type stands for when its variables stand for closed
types, families reduced as Haskell reduces them once their arguments are known.  `Unification`
is the code of `types.rs`: `subst` and `givens` are what inference has bound and what the
patterns of a match have refined so far, `todo` and `solved` the equations.

| Action | Code |
|---|---|
| `Solve` | `unify` on the next equation under the substitution so far, then `compose` |
| `Refine` | a constructor pattern of `check_pattern`: `unify_refining`, `compose`, `extend_givens` |

Under them: `Unify` (`unify_tf` and `unify_inner` with multiplicities, quantifiers, lists as
applications, stuck families), `Normal` (`tf_normalize`, `tf_reduce_head`) and
`MaybeUnifiable`, the test by which an equation of a family is skipped.  The properties compare
the closed types that solve the equations with those that agree with the bindings:
everything that agrees solves (`SolvedUnlessBlind`), what solves agrees
(`MostGeneralIfInjective`), and equations are refused only if nothing solves them
(`RefusedUnlessStuck`).  They set aside what the code decides blindly: a family applied to an
unknown constructor's application (`stuck_families`), to an arrow (types are compared without
multiplicities), or in a match to two rigid variables (whose names may coincide), and a match
that loses an equation between rigid variables (`dropped`).  A family that takes two types to
one is not in `Injective`: the code binds the arguments of `F a ~ F b` when one is flexible,
which solves the equation but is not the only solution.

`UnificationProblems` builds the equations: every pair of 59 types, two equations over
nine of them, one constructor pattern and one inside another over a type with two indices, and
five families.  IO, `LuaIO`, user-written variables, nested quantifiers and the fuel are left out.

### `LuaTrees`, `LuaMachine`, `LuaExpressions`, `LuaThunks`, `LuaLoops`, `LuaUpvalues`, `LuaPasses`, `LuaPrograms` - the passes over the emitted Lua

Code generation builds a tree of Lua statements and `opt.rs` rewrites it in place before it is
printed.  `LuaTrees` has the trees and the walks of `lua.rs` and `opt.rs` (what a statement
mentions, assigns, declares, captures).  `LuaMachine` is the Lua host, which is not code of the
repository: locals are cells, a closure captures cells, a `while` body has fresh locals in every
turn, and `__force`, `__mll_tk1` to `4` and `__mll_run` are those of `runtime.lua`.  A program is observed
through the arguments of `emit`, its result, and whether it failed.

`LuaPasses` takes one program through the passes; `tree` is the tree, `stage` the pass that
comes next, `limits` the locals the passes leave a function, the captures it may keep and the
locals the host allows, `routed`, `sweep` and `round` the tables declared by the capture router
and the turns of the two loops in `run_with`.

| Action | Code |
|---|---|
| `LiftSuspensions` | `thunklift.rs`: the body of a suspension becomes a function of the module, and the suspension carries the values of what it captured, where all of them have their last value |
| `Simplify` | one round of three passes of `opt.rs`: parentheses, dead branches, function literals called where they stand; until nothing changes |
| `DropForces` | `ForceCollapse` and the engine under it (`annot.rs`): a force of what is known to be evaluated goes |
| `TailLoops` | `tailloop.rs`: a function whose tail calls itself becomes a `while` loop, its parameters copied in every turn |
| `IoLoops` | `ioloop.rs`: a function that returns an action and ends in one of its own becomes a loop inside one action |
| `HoistClosures` | `hoist.rs`: a function literal that uses nothing of the loop it is in moves out of it |
| `RouteCaptures`, `EndSweep` | `upvalues.rs`: a function with too many upvalues takes some from a table, then counts again; when anything was routed, all passes run again |

`LuaPrograms` builds the trees, in the shapes that `codegen/*.rs` emits.

### MC modules

`MCModuleScope` gives the constants small values.  `MCHashMapStore` runs the two kinds of keys on
one heap: a behaviour uses scalar keys, or structural keys with suspended reads.
`MCCompilerPasses` has the loader and the monomorphiser, with the programs each of them reads,
`MCEmittedPrograms` the passes over the emitted Lua and the map
runtime it runs on, `MCSequentialParts` the parts that share no state: a behaviour
runs one of them (`part`) and the variables of the others stay idle.  It extends `NanKeys`, `LazyCells`,
`BigIntegers`, `Fixity` and `ActionRunners`, whose theorems state the very properties it checks, and instantiates the rest, with wrappers `part = ".." => M!Property`.  `MCKnownGaps` and
`MCStuckFamilies` hold the inputs of the four violation runs about those modules.

## 3. Runs

| Run | Shows | Bounds |
|---|---|---|
| `hashmap_safety` | the version each chain of diffs ends in, unique ownership of tables, faithful answers, refinement of `PersistentMaps`; what a structural read does guarantee while its encoder runs other operations | 4 handles, 4 tables, 2 keys, cap 1; scalar keys: values {a, nil}, one suspended show; structural keys: the value nil, two suspended reads |
| `emitted_programs` | after every pass a module emits, returns and fails with what the emitted one does; the last tree is within the host's limits and leaves the expression passes nothing to do; every started map operation returns | Lua programs of loops of two turns with every placement of a captured, assigned or forced variable, room for all or 3 upvalues and 6 locals; maps: scalar keys, 4 handles, 4 tables, one key, the value nil, cap 1, one suspended show |
| `structural_reads` | (violated) a structural read does not answer from its own version in general | structural keys, one suspended read |
| `compiler_passes` | loader: the in-progress path, reported cycles, ordered regions, known fixities, a fresh prefix, refinement of `ProgramOrder`; monomorphiser: copies are bounded and defined once, purged names stay meaningful, calls by name are served; both end | every import graph over the entry module and 3 modules with at most 2 imports each, in either order, self-imports included, at most one flaw; every program of 2 polymorphic functions and main, every choice of contexts and of a builtin, one use per body, up to 2 from main where only `f` is constrained; cap 1 |
| `module_scope` | types of the tables, nothing is captured, private and hidden names stay so, requests are honoured, the Prelude's names are kept | a leaf, a module above it, the entry module; 3 names in 3 namespaces, 9 import forms, 5 export lists and re-exports; without a Prelude, under one with all 3 names, hidden, listed or aliased, and with a type that shares its constructor's name |
| `scope_private` | (violated) a promoted constructor may denote a private type | a leaf with a private type named like an exported constructor |
| `specializer_dicts` | (violated) a shape copy made by the dictionary phase has no dictionary form | the bounds of `compiler_passes` |
| `sequential_parts` | NaN stamps are ordered whatever the nesting; Integer arithmetic is exact; a compiled action does what it means in Haskell unless a raw result was exposed, and tail chains stay flat; a cell keeps meaning its list, flag and slot agree, generators run once unless re-entered; an accepted linear definition consumes its argument once outside the known gaps; strict positions are forced unless a name is hidden; chains and sections are grouped as in Haskell; layouts are grouped and accepted as in Haskell outside the known gaps; equations between types are solved, by no more than they ask, and refused only if nothing solves them | see below |
| `action_results` | (violated) a performer ending in a read hands a raw thunk to its runner | performers of up to two calls |
| `linear_gaps` | (violated) a local function may leak a linear argument on one path | local functions with an `if`, a `case`, a guard, `&&` |
| `strict_hidden` | (violated) a parameter named like a global function is given its row inside a where function | one where function, one global |
| `stuck_families` | (violated) a family reduces past an equation that a constructor variable may still come to match | one family, six arguments |

Bounds of `sequential_parts`: integers in base 5 (2^24 in the code), shown in base 2 two digits
at a time, dividends to four limbs and divisors to three; actions `x <- m; use x` with `m`
two constructs deep and wrapped once more, and chains of up to six tail calls; 3 cells, a cyclic
and two finite lists, 3 activations; 2 key components, 2 nested inserts, 4 NaNs; linear
definitions two constructs deep, with at most 3 calls in a run; modules for the demand analysis two
constructs deep, with at most 4 calls in a run; chains of up to 3 operators of 3
precedences and every associativity, with every placement of a prefix minus, nesting limit 2;
12000 layouts of some 45 texts of up to 20 tokens, in which one or two blocks stand in each
other, each text broken in up to four places; some 21 000 problems for the unifier, their
variables standing for four closed types, two constructors, the numbers 0 to 3 and both multiplicities.

Why the bounds are enough to be interesting: four handles give a chain of two
diffs below a root, so with cap 1 a chain is both rotated (length 1) and
copied (length 2), and two roots of one family coexist.  Three cells give a
generator whose result is a new cell that refers to an old thunk.  Two nested
inserts are the least in which one insert's NaN falls between another's save and
compare.  In base 5 the range of dividends holds the rare ones whose digit
estimate has to be lowered twice and those that need the add-back.  Three modules below an
entry module give every diamond, every cycle of length one to three with and without a tail,
and a module called `Main`, which competes for the entry module's prefix; two of the three
are interchangeable, so `compiler_passes` lets only one of them be flawed, and fixes the order
in which the entry module names them when neither is.  Name resolution is decided module by
module from the surfaces of the imported ones: a chain of three is the shortest in which a
name passes through a module that did not declare it; its third Prelude-less set of texts
has a type and a constructor of one name, declared in one module and imported in every form.  In `Specializer` one use in a body is
enough for a polymorphic recursion, of one function or of two, that asks for a new list type or
a new arrow at every level, so both caps are reached with any limit; cap 1 (16 in the code)
makes a trip purge two copies, one of which may take over the shape of the other.
`module_scope` leaves out private types named like exported constructors, which `scope_private`
shows to be captured.

Fairness.  `FairSpec` of `HashMapStore` assumes weak fairness of `Reroot` and `Body` only: Lua
runs a started operation to its end and nothing preempts its loops.  No fairness is
assumed of the program's own calls, of shows (which wait for program code) or of
`fromList` (whose list may be infinite).  The loader is one sequential call that
nothing else runs beside, and so is the monomorphiser: `PassesSpec` is weak fairness of the
next-state relation of whichever of the two runs.  The passes over the Lua tree walk it once each, and
a router that cannot get below the limit fails the compilation, so no liveness is asked of them.

## 4. Findings

* `structural_reads`: `__mll_hme_lookup` and `__mll_hme_member` (runtime.lua 2102,
  2122) fetch the live table, then run the key's encoder.  A lazy component of the
  key that reads or writes another version of the same family reroots it, and the
  read then indexes a table that belongs to another version.  The enumerators had the
  same defect and were fixed (`hashmap_enum_reroot.mll`).  `AnswersTableOwner` says
  exactly what such a read answers instead.
* `scope_private`: a type-level name that is in scope only as a constructor is
  rewritten to the constructor's canonical name `A.C` (modules.rs 936), which is also
  the canonical name of a private type `C` of `A` when there is one.  The guard sees
  only the types in the module's own scope, and what a list withholds is forgotten by a
  list-less module in between.
* `specializer_dicts`: the worklist of the dictionary phase marks a flagged function
  as rewritten before it looks for it (mono.rs 757), and it looks among the functions
  already in the program.  A copy at an arrow shape that is first wanted while the phase
  re-monomorphizes a body is still pending, so it is emitted as it is, without
  dictionary parameters, while its callers pass dictionaries.  The comment at 2089
  promises that the worklist finds it.

* `action_results`: a performer whose last statement reads an IORef returns the slot as it is
  stored.  In a consuming position it is called under `__mll_run` (action.rs 400), which
  forces a stored thunk or runs a stored action, though the program only bound the result.
* `linear_gaps`: a parameter of a local function that is consumed in one branch only counts
  as used once, so the other branch leaks the argument handed to it (usage.rs 1208).
* `strict_hidden`: the equations of a where function are analysed with the names that the
  enclosing clause's caller hides, not those the clause hides (demand.rs 730), so that a
  parameter named like a strict global function is taken for it.
* `stuck_families`: the test that keeps a closed family from skipping an equation takes the
  application of an unknown constructor to be apart from a list or an IO type, which are nodes
  of their own (types.rs 1240): `IsList (k Char)` reduces by the equation for everything that is no
  list, though `k` may turn out to be the list constructor.

Read in the code, without a run: the comments at runtime.lua 214 and 241 promise that a
generator runs exactly once, but one that reads its own cell's tail through an alias finds the
flag still set and runs again; `MeaningKept` shows that this costs work, not correctness.
`pure e >>= f` hands `f` the pure box itself (`bind_infix_ast`, codegen/expr.rs 1797), which
`exposed` covers.  An insert stamps its entry whenever the NaN counter moved,
also when it moved because a lazy component used a NaN as a key elsewhere (runtime.lua 2083).
A use at an existential's type that also widens the arity takes the original's
dictionary form (mono.rs 2511), never a shape copy.  A dictionary body that was rewritten
before a later trip of the same phase is not redirected again (mono.rs 931).  A purged name is never
handed out again, as the proof of `Specializer` shows: what is wanted after the trip is a copy at an arrow shape,
whose key has `_s` variables where the keys before it have `_w` (mono.rs 4035, 4129).  So
`purged_specs.remove` (1929, 2073) removes nothing, and the comments about a name that is generated again
(1924-1928, 2154) describe what does not happen, within what is modelled.
A do block leaves the line break that ended it skipped (parser.rs 4116,
where `parse_case_expr` rewinds it at 4039), so the chain around the block does not see that the next
operator starts a line: a `+ z` at the column of the enclosing block's items, or at column 0, is taken
for the rest of the statement above it, though the comment at 3101 says that an operator continues a chain
only when it is strictly deeper; this is the gap "resumed" of `Layout`.
`parse_guard_chain` compares columns also for a `|` inside a line (parser.rs 2118), so two
guards on the line of a clause at column 0 are refused, though the comment at 2089 is about a `|`
that starts a line.  A line `- 1` deeper than its block is an argument of the line above
(`is_neg_literal_context` looks at the Indent token), and the `where` of a case alternative is
the clause's; doc/articles/HASKDIFF.md names neither among the differences in layout.
`unify_refining` turns a rigid variable bound to a flexible one around (types.rs 1457-1466); when
two are bound to the same flexible variable the second insertion replaces the first, so the
equality of the two is lost and which one stays depends on the order of a hash map, though the comment
at 1409 promises a given for each rigid variable that the match equates with another type.  It also
makes rigid variables flexible under their source names (1430), by which the test for apartness tells
variables apart (1215), so two rigid variables of one name pass for one.  The comment at 1618 calls `F a ~ F t`
solved by `a := t` the most general unifier, which holds for injective families only.  The comment at annot.rs 371 lets a name be known as evaluated after the one assignment to a parameter, but the
facts of a named function are collected over its body (1207), where its parameters are not counted, so only a
function literal's parameters are.  `repeat_safe_stmt` of ioloop.rs admits any
plain assignment (240) into the statements that a loop may run again; the emitter only puts forces of a variable
into itself there, which are idempotent, and so do the programs of `LuaPrograms`.  The REPL
wraps an expression in a `main` of its own, so no expression compiles once a `main` was declared.

## 5. Proofs

`HashMapStoreProofs` proves, for every finite key set and every set of handles, tables
and values, that `Spec` implies `[]TypeOK`, `[]Consistent`, `[]OneRootPerStore`,
`[]EmptyFrozen`, `[]AnswersFaithful`, and that it implements `PersistentMaps`.

The argument is one inductive invariant, `Inv`.  `Consistent` alone is not
inductive: it adds that `path` is a chain of diffs ending next to `cur`
(`ChainLinked`), that the table under replay holds the version the replay has
reached (`Replaying`), that rerooting works for the called map (`Rerooting`), that
a table under construction holds the map meant so far (`Building`), that suspended shows
hold snapshots of their own version (`ShowsFaithful`), and that the diffs of a
family are ranked (`Acyclic`), without which a write could close a loop.
There is one lemma per action; the refinement proof then maps each
step to a step of `PersistentMaps` or to a stutter.

Assumptions: the constants' assumptions of `HashMapStore` (`Empty` is a handle, the key
set is finite, the sentinels are distinct, the bounds are natural numbers).

`ModuleLoaderProofs` proves, for every set of modules, every import graph over it
and every combination of flaws, that `Spec` implies `[]TypeOK`, `[]StackIsPath`,
`[]ChainIsCycle`, `[]RegionsOrdered`, `[]FixitiesKnown`, `[]PrefixFresh`, and that it
implements `ProgramOrder`.

Its invariant joins what the two halves of the loader rely on.  `Scanned`: every import
of a loaded module is seen or pending, and a seen module that is not loaded cannot be,
so resolution never loads anything new (this is what keeps the prefix fresh).  `Path`:
every caller waits at the import its callee is, and the open modules are distinct;
the second holds because an import in progress is a cycle.  `FrameOK`: what an
activation has merged comes after its imports, what it still has to merge comes after its
imports or finds them merged, and everything it holds is imported by something it
holds or by its own module; `RegionsOrdered` does not survive a step without it, since
a region is built origin by origin.  `ResolvedOK` adds that a cached module passed every
check, which is what `Compile` of `ProgramOrder` asks of an accepted program.

Assumptions: the entry module's key is no import, import lists name modules without
repeats (the code groups repeated imports first), the entry module's own file has been
parsed, and the candidate prefixes `Main`, `Main1`, ... do not run out.

`HashMapStoreProofs` also proves of structural keys, on the same heap and for any number of suspended reads, that
`SSpec` implies `AnswersUnlessRerooted`, `AnswersTableOwner` and `[]Consistent`.  The first two are
about a table that a read holds while its encoder runs other operations, so the invariant `SInv`
adds to `Inv` that such a table always has an owner (`ReadsOwned`): outside a rotation a map value, in one the
rotation itself, which carries the table from its old root to the new one.  That the table is not lost when
the rotation ends needs that its target is still a diff (`TargetIsDiff`).

Of NaN keys it proves `[]NanTypeOK` and `[]NanInOrder` for every set of maps and keys, every width of
keys and every depth of nesting.  The order of the stamps is not inductive: an insert stamps with a
counter that inserts nested in its encoder have moved, and adds to a map it chose before they ran.
`SavedCounted` bridges the two: that map holds no stamp above the counter the insert saved, and no insert
changes it.

`LazyCellsProofs` proves `[]LazyTypeOK`, `[]MeaningKept` and `[]SharedUnlessReentered` for every set of
cells, every set of lists (cyclic ones too) and every depth of nesting.  A frame that memoizes stores what was
read before the force it waited for, so its invariant says what it may rely on (`Frames`): the thunk above it
belongs to a cell of the same tail, the list a cell stands for never changes, and a thunk that is done
stays done.  For the sharing, a generator nobody read while it ran has one activation at most, in one of its
two forms at most, and once it has returned no slot leads to it (`Undisturbed`).

`BigIntegersProofs` proves `[]IntTypeOK` and `[]ArithmeticExact` for every base above 2, every radix below it,
every number of digits shown at a time that the base has room for, every width of a machine `Int` and all operands.
The limb walks are recursive functions, about which the library's
induction theorems say nothing; `DefinedUp` and `DefinedDown` derive from well-founded
induction over sets of numbers that such functions exist and satisfy their equations.  From there the
argument is arithmetic: a walk is an equation between the values of its limbs (`CarryWalk`), and
trimmed limbs have one form (`OneForm`), so that addition, subtraction, multiplication, comparison and
conversion are what they are on integers, by the native shortcut or by the limbs.

The division needs an invariant, `IntInv`.  Operands are scaled so that the divisor's top limb is at least half
the base (`ScaledAs`); at the head of the loop the limbs found times the divisor, plus what is left, is
the dividend, and what is left is below the divisor at its place (`LoopAt`).  An estimate from the top limbs is
never below the limb it stands for (`EstimateAt`).  Three theorems then say why the code's
repairs are enough: once the correction loop has stopped, an estimate is at most one too large
(`CorrectedIs`); subtracting its row borrows out of the top limb exactly when it is (`SubtractedIs`);
one add-back restores what is left, and its carry cancels the borrow (`AddedBackIs`).
`ShownIs` does the same for the digits shown, with the padding of all groups but the first.

Assumptions: `BigIntegersAssumption`, that is, the above.  Machine
arithmetic that stays below 2^53 in the code is exact in the model; that it does stay there is a choice of the base
(2^24, so that a product of limbs plus carries is below 2^53) and is not proved.

`FixityProofs` proves `[]FixTypeOK` and `[]GroupedAsHaskell` for chains of every length over every set of
precedences.  Both sides of the comparison are recursive over spans of numbered operands, so
the induction is over numbers again: `PhrasesAre` and `ClimbIs` show that
the table of phrases and the climbing function exist and satisfy their equations, `OverSpans` that what passes from
shorter spans to longer ones holds of all.  What the table allows is then told by
one observation: the root of a phrase binds loosest of all operators and minuses that stand in its span, or as
loose as some that chain to it (`LowestRoot`, `Dominates`).  There is one such root, so a span has one phrase at most
(`OnePhrase`).  Conversely, two equally tight neighbours with nothing looser between them which do not
associate alike leave a chain without a grouping (`Clash`), and so does a minus right under an
operator of precedence 6 or more (`UnderTight`): these are the chains that the code refuses.

The invariant of the grouping, `FixInv`, says what the activations have read (`Linked`, `Nested`): each of them a phrase
of the operands from its first one to where the next activation begins, whose root may stand where the
activation was entered for (`Suits`), and the nodes built so far are those of these
phrases.  The refusals need the operators that wait in outer activations: they are looser than the one that
clashes, which makes it a neighbour of its rival.  Types are climbed with no check of
associativity, so `TypesClimbed` uses that a chain with a grouping has no clash.  For sections,
the root of the operand is compared with the section's operator, and `SectionMeaning` shows that this decides which of
them binds loosest in the written-out form.

Assumptions: associativities are left, right and none, precedences lie within 0..9.

`ActionRunnersProofs` proves `[]TailChainsFlat`, `[]OneBoxAtMost` (the second half of
`AsInHaskellUnlessExposed`) and `[]ActTypeOK` for every set of programs over every set of actions.  The last two are about
a value at the moment it is read, and it has come there through frames, closures, boxes or the IORef.
`ActInv` therefore says that there is a set of values, closed under their parts, that the whole state is made of: in
each closure and frame a variable that is read bare holds no thunk and none holds a box (`Envs`), and no box holds a
box (`MadeOf`).  A step adds at most a value, its delayed form or its box to that set (`ValueRoom`, `PayloadRoom`).
What keeps a box from a bind frame is where frames may lie: `Ordered` says that the frame under one whose
result is that of code in tail position is no bind frame, `Fits` that only a consuming runner or a directly bound
payload answers to a bind frame.  For the stack, `ChainShape` adds that a chain
of tail calls is in one of four places: started, over, between two calls, or in a single statement before the next
call.

Assumptions: `ActionsAssumption`, that is, the set of actions is closed under parts, and the members of `TailCalls`
are what the comment at their declaration says.

`ModuleScopeProofs` proves, for every order of modules, every set of texts and every Prelude, `[]TypeOK`,
`[]RequestHonouredUnlessExcluded` and `[]PreludeKept`, and `[]CapturesArePromotions`: the only reference
that can mean an entity outside its scope is a bare type name taken for an imported constructor.  From it follow
`[]NoCapture`, `[]PrivateStaysPrivate` and `[]HiddenStaysHidden` for every program in which namesakes
stay together; in other programs the three are false (`scope_private`).  The invariant: what is resolved is a prefix of the order
(`Progress`), texts come from the world (`Texts`), what was computed when a module was
resolved is what would be computed now (`Settles`), and every entity of a surface is offered by the module
that declares it (`Origins`).  The last is the inductive core: a surface is built from surfaces, and only by `Origins`
does an entity that three modules passed on still say something of the one that declared it.

Assumptions: the order has no repeats and ends in the entry module, imports come earlier in the order (the loader's
theorem), a Prelude has one entity per namespace and name, declarations are in a namespace, a
newtype's type is declared, and errors are no canonical names.

`SpecializerProofs` proves, for every program, every limit and every order of purges and worklist,
`[]CopiesTyped`, `[]CopiesBounded`, `[]OneDefinition` and `[]NamesLead`.  None of them is inductive, because a trip happens
in the middle of the activations whose copies it purges.  `MonoInv` follows each name through it: what
is defined or being made was handed out and not taken back (`Handed`); an original is walked once, before it is emitted
(`WalkedOnce`); what a trip has still to decide is undefined if it was pending or being made when the trip
began, and defined otherwise (`Decided`), so that a stub defines a name that nothing else defines; ground forms
are emitted and plain (`Grounded`); what replaces a purged copy is no purged name (`Replaced`); what is called is
known (`Leads`).  Beside these, a function that tripped is served by one function for all types (`Served`) and
has no copies but those at arrow shapes (`Shapes`), which is why a purged name is never handed out again, and the copies
of each sort are counted apart (`Counted`), since an existential may make a function
dictionary-passing when half of its copies exist.

It proves `[]NamedCallsServed` on top of `MonoInv`.  `CallsInv` adds what a call
was made for.  A call by name of a copy has the arrows of that copy; one of an original has none, or the original
will take dictionaries, or it is made at a live variable in a body that has one too, or an
exhausted cap has reported it (`Fits`).  A purged name leads to what takes as many arguments (`Redirected`).
What is emitted and what is under way agree with the flags and the worklist (`Proper`, `ProperFrame`): a
function that takes dictionaries is plain only until the worklist reaches it, and once the pass
is done every other one has only calls that `rewrite_dict_call_sites` has settled.  Every original is
to be walked, walked or emitted (`Placed`).  At the end this is enough for the functions that the program
can reach, and only for them: an original with a context that nothing calls with dictionaries
stays plain and may call what takes them.  `Reached` is a recursive function, so that what it reaches needs an
induction over its argument: `Iterated` shows that such a function exists, by induction over a
set of numbers (`AllNumbers`), and `ReachedStays` that it does not leave the names that are copies, have no
context or take dictionaries.

Assumptions: `SPEC_LIMIT` is a natural number; a program defines each function once and its bodies use functions of
the program; a builtin has no context; a body uses a constrained function at a variable only
where its own context constrains that variable, and main's type has no context, which is what type checking
establishes.

Proved and not run: `TypeOK` of `HashMapStore`, `EmptyFrozen`, `ChainIsCycle`, `NanTypeOK`, `LazyTypeOK`,
`IntTypeOK`, `FixTypeOK`, `ActTypeOK` (these five run only as parts of `TypesOK`), `OneBoxAtMost` (which runs as a part
of `AsInHaskellUnlessExposed`), `CapturesArePromotions`.

Only model-checked:

* `AsInHaskellUnlessExposed` (but for `OneBoxAtMost`), `ConsumesOnceUnlessGap`,
  `StrictIsForcedUnlessHidden`, `LaidOutAsHaskellUnlessGap`, `SolvedIfAndOnlyIfSolvable`, `MostGeneralIfInjective`,
  `EmittedMeaningKept`, `SettledWithinHostLimits`, and `TypesOK`, which joins the type invariants of these parts: they
  are about recursive operators over syntax trees or types, and induction over data is beyond the prover.  (Limbs
  and operands are numbered, and numbers are the one kind of data an induction could be derived for.)
* `RowsOnlyShrink`, which is about the same recursive analysis.
* `OperationsReturn` and `PassEnds`: liveness.

## 6. Plan

1. done: the HashMap store, its abstract specification and its proofs; structural keys, NaN
   keys, lazy cells.
2. done: the module loader and its proofs, name resolution, the monomorphiser's
   copies, cap and worklist.
3. done: IO runners, big integers, fixity, linear usage, demand, the parser's layout,
   unification, the passes over the emitted Lua.
4. next: instance methods and ground dictionaries (step (d) of the
   monomorphiser and the fixpoint around it); dead-code elimination; generalisation; the
   structured rows of the demand analysis.
5. theorems: done for the two HashMap runtimes, NaN keys, lazy cells, big integers, fixity, the runners of actions, the loader, name
   resolution and the monomorphiser's copies, names and calls; next `RowsOnlyShrink`, for which the
   step of the demand analysis must be stated without its recursion over expressions.

## 7. Not modelled

What each module leaves out is said with the module.  The parts without one:

* Inference over expressions, instances, kinds and deriving (`typechecker/*` other than linear usage
  and unification): the largest part of the compiler.  A reference to check inference against is
  itself a type system, over programs larger than TLC enumerates.
* Desugarer, middle passes, the emission of the Lua tree: rewrites of the whole syntax.  The parts
  with state or an order that matters are in `ActionRunners` (how actions are compiled), `Fixity`,
  `Strictness` and the Lua passes, which leave out the generators of lazy conses and every stamp but
  "evaluated"; dead-code elimination is planned.
* ST, IORef and arrays: straight-line operations on one table each; freezing copies or shares it
  by the caller's choice.
* FFI marshalling: conversions without state, over data whose shapes are the whole content.
* Command line, REPL, wasm: input and output around one call of `compile`; the REPL keeps
  one list of declarations and adds a line to it after the line has compiled and run.
* Standard libraries: programs of the language, not part of the compiler.
