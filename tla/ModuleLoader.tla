----------------------------- MODULE ModuleLoader -----------------------------
(***************************************************************************)
(* Import resolution, mllc/src/modules.rs: the loader parses the import    *)
(* closure of the entry module (begin_program), then resolves it depth     *)
(* first (resolve_module), each module once, and merges the resolved       *)
(* regions into one list.                                                  *)
(*                                                                         *)
(* A region is the sequence of the modules whose declarations it holds:    *)
(* origin_spans without the lengths.  A frame is an activation of          *)
(* resolve_module; what it does to names is left out (import lists,        *)
(* surfaces, renaming) except that it may fail.  Repeated imports of one   *)
(* module are grouped before they are visited, so a module's imports are   *)
(* distinct; `import Prelude` loads nothing and is left out.               *)
(***************************************************************************)
EXTENDS Integers, Sequences, FiniteSets, SequencesExt, Functions

CONSTANTS Mods, Root,   \* module keys; ROOT_KEY
          ImportLists,  \* what a module may import, in order
          Flaws,        \* which modules are flawed, and how
          PrefixNames,  \* Main, Main1, Main2, ...
          none          \* no prefix yet

ASSUME RootAssumption == Root \notin Mods
ASSUME ListsAssumption == \A s \in ImportLists : s \in Seq(Mods) /\ IsInjective(s)
ASSUME FlawsAssumption ==
    /\ Flaws \subseteq [Mods \cup {Root} ->
                            {"none", "missing", "unparsable", "import", "syntax", "export"}]
    /\ \A f \in Flaws : f[Root] \notin {"missing", "unparsable"}
\* Whatever modules are loaded, there is a first candidate that is none of them.
ASSUME PrefixAssumption ==
    /\ \A S \in SUBSET Mods :
          \E i \in DOMAIN PrefixNames : PrefixNames[i] \notin S /\ \A j \in 1 .. i - 1 : PrefixNames[j] \in S
    /\ none \notin ToSet(PrefixNames)

VARIABLES imports, flaw,        \* the program: imports, and what is wrong with it
          pending, seen,        \* begin_program's locals
          root_prefix,          \* the prefix of the entry module's names
          loaded, sources,      \* the keys of `loaded` and of `module_sources`
          resolved,             \* the regions of the resolved modules
          in_progress, in_progress_stack,
          fixities,             \* the modules whose operators have a fixity
          frames,               \* the activations of resolve_module
          status, chain,        \* the verdict, and the cycle it reports
          program               \* the region of the entry module

vars == <<imports, flaw, pending, seen, root_prefix, loaded, sources, resolved,
          in_progress, in_progress_stack, fixities, frames, status, chain, program>>
input == <<imports, flaw>>
scan == <<pending, seen, root_prefix>>
files == <<loaded, sources>>
progress == <<in_progress, in_progress_stack>>
verdict == <<status, chain, program>>

-------------------------------------------------------------------------------

Put(f, x, y) == [z \in DOMAIN f \cup {x} |-> IF z = x THEN y ELSE f[z]]

Phases == {"imports", "group", "merge"}
Frames == [key : Mods \cup {Root}, next : Nat, spans : Seq(Mods), merged : Seq(Mods), at : Phases]

Frame(k) == [key |-> k, next |-> 1, spans |-> <<>>, merged |-> <<>>, at |-> "imports"]
Top == Last(frames)
SetTop(f) == frames' = [frames EXCEPT ![Len(frames)] = f]
At(phase) == status = "running" /\ frames # <<>> /\ Top.at = phase

Init ==
    /\ imports \in [Mods \cup {Root} -> ImportLists] /\ flaw \in Flaws
    /\ pending = imports[Root] /\ seen = {} /\ root_prefix = none
    /\ loaded = {} /\ sources = {} /\ resolved = [m \in {} |-> <<>>]
    /\ in_progress = {} /\ in_progress_stack = <<>> /\ fixities = {}
    /\ frames = <<>> /\ status = "running" /\ chain = <<>> /\ program = <<>>

\* load_module: the cache, or the file; a module that does not parse has left
\* its text in module_sources.
Loads(m) == m \in loaded \/ flaw[m] \notin {"missing", "unparsable"}
LoadModule(m) ==
    /\ loaded' = IF Loads(m) THEN loaded \cup {m} ELSE loaded
    /\ sources' = IF m \in loaded \/ flaw[m] = "missing" THEN sources ELSE sources \cup {m}

-------------------------------------------------------------------------------
(* begin_program *)

Scanning == root_prefix = none

ScanSeen ==
    /\ Scanning /\ pending # <<>>
    /\ Last(pending) \in seen
    /\ pending' = Front(pending)
    /\ UNCHANGED <<input, seen, root_prefix, files, resolved, progress, fixities, frames, verdict>>

\* A module that fails to load is skipped here and reported by resolution.
ScanLoad ==
    /\ Scanning /\ pending # <<>>
    /\ LET m == Last(pending) IN
        /\ m \notin seen
        /\ seen' = seen \cup {m}
        /\ LoadModule(m)
        /\ pending' = Front(pending) \o (IF Loads(m) THEN imports[m] ELSE <<>>)
    /\ UNCHANGED <<input, root_prefix, resolved, progress, fixities, frames, verdict>>

\* Mutant of FreePrefix: "Main" whatever is loaded.
FirstPrefix == Head(PrefixNames)

FreePrefix ==
    PrefixNames[CHOOSE i \in DOMAIN PrefixNames :
                    PrefixNames[i] \notin loaded /\ \A j \in 1 .. i - 1 : PrefixNames[j] \in loaded]

BeginResolve ==
    /\ Scanning /\ pending = <<>>
    /\ root_prefix' = FreePrefix
    /\ frames' = <<Frame(Root)>>
    /\ UNCHANGED <<input, pending, seen, files, resolved, progress, fixities, verdict>>

-------------------------------------------------------------------------------
(* resolve_module, phase 1: the imports *)

Importing == At("imports") /\ Top.next <= Len(imports[Top.key])
Child == imports[Top.key][Top.next]

\* The child's region, from the cache or just resolved, becomes an edge.
UseResolved ==
    /\ Importing
    /\ Child \in DOMAIN resolved
    /\ SetTop([Top EXCEPT !.next = @ + 1, !.spans = @ \o resolved[Child]])
    /\ UNCHANGED <<input, scan, files, resolved, progress, fixities, verdict>>

CycleStart(m) == CHOOSE i \in DOMAIN in_progress_stack : in_progress_stack[i] = m

\* Mutant of FindCycle: the module in progress stands in as an empty one.
FindCyclePlaceholder ==
    /\ Importing
    /\ Child \notin DOMAIN resolved /\ Child \in in_progress
    /\ SetTop([Top EXCEPT !.next = @ + 1])
    /\ UNCHANGED <<input, scan, files, resolved, progress, fixities, verdict>>

FindCycle ==
    /\ Importing
    /\ Child \notin DOMAIN resolved /\ Child \in in_progress
    /\ status' = "cycle"
    /\ chain' = Append(SubSeq(in_progress_stack, CycleStart(Child), Len(in_progress_stack)), Child)
    /\ UNCHANGED <<input, scan, files, resolved, progress, fixities, frames, program>>

Visit ==
    /\ Importing
    /\ Child \notin DOMAIN resolved \cup in_progress
    /\ in_progress' = in_progress \cup {Child}
    /\ in_progress_stack' = Append(in_progress_stack, Child)
    /\ LoadModule(Child)
    /\ UNCHANGED <<input, scan, resolved, fixities, chain, program>>

Enter == Visit /\ Loads(Child) /\ frames' = Append(frames, Frame(Child)) /\ UNCHANGED status

\* let imported = self.load_module(module_path)? : the child stays in progress.
LoadFails == Visit /\ ~Loads(Child) /\ status' = "import" /\ UNCHANGED frames

-------------------------------------------------------------------------------
(* Phases 2 to 8 *)

Imported == At("imports") /\ Top.next > Len(imports[Top.key])

\* Mutant of Declare: only the entry module's fixities are recorded.
DeclareRootOnly ==
    /\ Imported /\ flaw[Top.key] # "import"
    /\ fixities' = fixities \cup ({Top.key} \cap {Root})
    /\ SetTop([Top EXCEPT !.at = "group"])
    /\ UNCHANGED <<input, scan, files, resolved, progress, verdict>>

\* Phases 2 to 6: the module's own entities get their names and fixities...
Declare ==
    /\ Imported /\ flaw[Top.key] # "import"
    /\ fixities' = fixities \cup {Top.key}
    /\ SetTop([Top EXCEPT !.at = "group"])
    /\ UNCHANGED <<input, scan, files, resolved, progress, verdict>>

\* ...and its import and export lists are checked, before or after that.
RejectLists ==
    /\ Imported /\ flaw[Top.key] = "import"
    /\ fixities' \in {fixities, fixities \cup {Top.key}}
    /\ status' = "import"
    /\ UNCHANGED <<input, scan, files, resolved, progress, frames, chain, program>>

\* Phase 7: the references are bound and the infix chains grouped.
Group ==
    /\ At("group") /\ flaw[Top.key] # "syntax"
    /\ SetTop([Top EXCEPT !.at = "merge"])
    /\ UNCHANGED <<input, scan, files, resolved, progress, fixities, verdict>>

\* The syntax errors of an imported module are an import error of its importer.
RejectChains ==
    /\ At("group") /\ flaw[Top.key] = "syntax"
    /\ status' = IF Top.key = Root THEN "syntax" ELSE "import"
    /\ UNCHANGED <<input, scan, files, resolved, progress, fixities, frames, chain, program>>

\* Mutant of Merged: an origin that arrives through two edges is kept twice.
MergedTwice(origins, o) == Append(origins, o)

Merged(origins, o) == IF o \in ToSet(origins) THEN origins ELSE Append(origins, o)

MergeSpan ==
    /\ At("merge") /\ Top.spans # <<>>
    /\ SetTop([Top EXCEPT !.spans = Tail(@), !.merged = Merged(@, Head(Top.spans))])
    /\ UNCHANGED <<input, scan, files, resolved, progress, fixities, verdict>>

Region == Append(Top.merged, Top.key)

\* Mutants of Return: the module stays in progress; it is not cached.
ReturnInProgress ==
    /\ At("merge") /\ Top.spans = <<>> /\ Top.key # Root
    /\ resolved' = Put(resolved, Top.key, Region)
    /\ in_progress_stack' = Front(in_progress_stack)
    /\ frames' = Front(frames)
    /\ UNCHANGED <<input, scan, files, in_progress, fixities, verdict>>

ReturnUncached ==
    /\ At("merge") /\ Top.spans = <<>> /\ Top.key # Root
    /\ in_progress' = in_progress \ {Top.key}
    /\ in_progress_stack' = Front(in_progress_stack)
    /\ frames' = Front(frames)
    /\ UNCHANGED <<input, scan, files, resolved, fixities, verdict>>

Return ==
    /\ At("merge") /\ Top.spans = <<>> /\ Top.key # Root
    /\ resolved' = Put(resolved, Top.key, Region)
    /\ in_progress' = in_progress \ {Top.key}
    /\ in_progress_stack' = Front(in_progress_stack)
    /\ frames' = Front(frames)
    /\ UNCHANGED <<input, scan, files, fixities, verdict>>

Clashing == \E m \in ToSet(Region) : flaw[m] = "export"

Finish ==
    /\ At("merge") /\ Top.spans = <<>> /\ Top.key = Root /\ ~Clashing
    /\ program' = Region /\ status' = "done" /\ frames' = <<>>
    /\ UNCHANGED <<input, scan, files, resolved, progress, fixities, chain>>

\* check_host_exports: two modules export one name to the host.
RejectExports ==
    /\ At("merge") /\ Top.spans = <<>> /\ Top.key = Root /\ Clashing
    /\ status' = "import" /\ frames' = <<>>
    /\ UNCHANGED <<input, scan, files, resolved, progress, fixities, chain, program>>

\* An error returns through every activation.
Unwind ==
    /\ status \notin {"running", "done"} /\ frames # <<>>
    /\ in_progress' = in_progress \ {Top.key}
    /\ in_progress_stack' = IF Top.key = Root THEN in_progress_stack
                                              ELSE Front(in_progress_stack)
    /\ frames' = Front(frames)
    /\ UNCHANGED <<input, scan, files, resolved, fixities, verdict>>

-------------------------------------------------------------------------------

BeginProgram == ScanSeen \/ ScanLoad \/ BeginResolve
Phase1 == UseResolved \/ FindCycle \/ Enter \/ LoadFails
Phase2to8 == Declare \/ RejectLists \/ Group \/ RejectChains \/ MergeSpan
             \/ Return \/ Finish \/ RejectExports

Next == BeginProgram \/ Phase1 \/ Phase2to8 \/ Unwind

Spec == Init /\ [][Next]_vars

\* The compiler is one sequential call.
FairSpec == Spec /\ WF_vars(Next)

-------------------------------------------------------------------------------
(* Properties *)

Abstract == INSTANCE ProgramOrder

\* The loader's tables hold what their readers take them for.
TypeOK ==
    /\ imports \in [Mods \cup {Root} -> ImportLists] /\ flaw \in Flaws
    /\ pending \in Seq(Mods) /\ seen \subseteq Mods
    /\ root_prefix \in ToSet(PrefixNames) \cup {none}
    /\ loaded \subseteq sources /\ sources \subseteq Mods
    /\ DOMAIN resolved \subseteq loaded /\ \A m \in DOMAIN resolved : resolved[m] \in Seq(Mods)
    /\ in_progress \subseteq Mods /\ in_progress_stack \in Seq(Mods)
    /\ fixities \subseteq Mods \cup {Root}
    /\ frames \in Seq(Frames)
    /\ \A i \in 1 .. Len(frames) : frames[i].next \in 1 .. Len(imports[frames[i].key]) + 1
    /\ chain \in Seq(Mods) /\ program \in Seq(Mods \cup {Root})

\* While resolution runs, in_progress and its ordered copy name exactly the
\* open activations, which form an import path from the entry module: what a
\* reported cycle is cut from.
StackIsPath ==
    status = "running" /\ frames # <<>> =>
        /\ frames[1].key = Root
        /\ in_progress_stack = [i \in 1 .. Len(frames) - 1 |-> frames[i + 1].key]
        /\ in_progress = ToSet(in_progress_stack)
        /\ in_progress \cap DOMAIN resolved = {}
        /\ \A i \in 1 .. Len(frames) - 1 :
            /\ frames[i].at = "imports"
            /\ frames[i + 1].key = imports[frames[i].key][frames[i].next]

\* "report the actual chain" (modules.rs 457): it starts and ends with one
\* module and each of its modules imports the next.
ChainIsCycle ==
    status = "cycle" =>
        /\ Len(chain) > 1 /\ chain[1] = Last(chain)
        /\ \A i \in 1 .. Len(chain) - 1 : Abstract!Imports(chain[i], chain[i + 1])

\* The cached region of a module is its import closure, dependencies first,
\* each origin once (modules.rs 1184-1190), whatever has been resolved before.
RegionsOrdered ==
    \A m \in DOMAIN resolved : Abstract!Ordered(resolved[m]) /\ Last(resolved[m]) = m

\* "when its infix chains are grouped the table holds every entity its scope
\* can name" (modules.rs 42-44).
FixitiesKnown ==
    At("group") => ToSet(Top.spans) \cup {Top.key} \subseteq fixities

\* No module of the program shares the prefix of the entry module's names
\* (modules.rs 297-298).
PrefixFresh == root_prefix # none => root_prefix \notin loaded

\* Refinement: the merged program is an ordered import closure, and a program
\* is rejected only for a cycle or a flaw it has.
ImplementsProgramOrder == Abstract!Spec

\* Resolution comes to a verdict and unwinds, cyclic imports or not.
Terminates == <>(status # "running" /\ frames = <<>>)
===============================================================================
