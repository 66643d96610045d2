-------------------------- MODULE ModuleLoaderProofs --------------------------
(***************************************************************************)
(* The theorems of ModuleLoader, for every set of modules, every import    *)
(* graph over it and every combination of flaws.                           *)
(***************************************************************************)
EXTENDS ModuleLoader, SequenceTheorems, TLAPS

Keys == Mods \cup {Root}

-------------------------------------------------------------------------------
(* Lemmas about sequences *)

\* What a stack is left with when its top goes.
LEMMA FrontLast ==
    ASSUME NEW S, NEW s \in Seq(S), s # <<>>
    PROVE  /\ Len(s) \in Nat \ {0}
           /\ Last(s) = s[Len(s)] /\ Last(s) \in S
           /\ Front(s) \in Seq(S) /\ Len(Front(s)) = Len(s) - 1
           /\ \A i \in 1 .. Len(s) - 1 : Front(s)[i] = s[i]
<1>1. Len(s) \in Nat \ {0}
  BY EmptySeq
<1>2. PICK e \in 0 .. Len(s) : e = Len(s) - 1
  <2>1. Len(s) - 1 \in 0 .. Len(s)
    BY <1>1
  <2> QED BY <2>1
<1>3. /\ SubSeq(s, 1, e) \in Seq(S) /\ Len(SubSeq(s, 1, e)) = e
      /\ \A i \in 1 .. e : SubSeq(s, 1, e)[i] = s[i]
  OBVIOUS
<1> QED BY <1>1, <1>2, <1>3 DEF Front, Last

\* The elements of a sequence, by its indices.
LEMMA Elements ==
    ASSUME NEW S, NEW s \in Seq(S)
    PROVE  /\ Len(s) \in Nat /\ DOMAIN s = 1 .. Len(s)
           /\ \A i \in 1 .. Len(s) : s[i] \in S /\ s[i] \in ToSet(s)
           /\ \A x \in ToSet(s) : x \in S /\ \E i \in 1 .. Len(s) : s[i] = x
           /\ s = <<>> <=> ToSet(s) = {}
BY EmptySeq, LenProperties, ElementOfSeq DEF ToSet

\* The elements of the sequences the loader builds.
LEMMA ElementsAppend ==
    ASSUME NEW S, NEW s \in Seq(S), NEW x \in S
    PROVE  ToSet(Append(s, x)) = ToSet(s) \cup {x}
<1> DEFINE a == Append(s, x)
<1>1. /\ a \in Seq(S) /\ Len(a) = Len(s) + 1 /\ Len(s) \in Nat
      /\ \A i \in 1 .. Len(s) : a[i] = s[i]
      /\ a[Len(s) + 1] = x
  BY AppendProperties, LenProperties
<1>2. ToSet(a) = {a[i] : i \in 1 .. Len(s) + 1} /\ ToSet(s) = {s[i] : i \in 1 .. Len(s)}
  BY <1>1, LenProperties DEF ToSet
<1>3. \A i \in 1 .. Len(s) + 1 : i \in 1 .. Len(s) \/ i = Len(s) + 1
  BY <1>1
<1>4. \A i \in 1 .. Len(s) : i \in 1 .. Len(s) + 1
  BY <1>1
<1>5. Len(s) + 1 \in 1 .. Len(s) + 1
  BY <1>1
<1>6. \A y \in ToSet(a) : y \in ToSet(s) \cup {x}
  BY <1>1, <1>2, <1>3
<1>7. \A y \in ToSet(s) \cup {x} : y \in ToSet(a)
  <2> HIDE DEF a
  <2> QED BY <1>1, <1>2, <1>4, <1>5
<1> QED BY <1>6, <1>7

LEMMA ElementsConcat ==
    ASSUME NEW S, NEW s \in Seq(S), NEW r \in Seq(S)
    PROVE  ToSet(s \o r) = ToSet(s) \cup ToSet(r)
<1> DEFINE c == s \o r
<1>1. /\ c \in Seq(S) /\ Len(c) = Len(s) + Len(r) /\ Len(s) \in Nat /\ Len(r) \in Nat
      /\ \A i \in 1 .. Len(s) + Len(r) : c[i] = IF i <= Len(s) THEN s[i] ELSE r[i - Len(s)]
  BY ConcatProperties, LenProperties
<1>2. /\ ToSet(c) = {c[i] : i \in 1 .. Len(s) + Len(r)}
      /\ ToSet(s) = {s[i] : i \in 1 .. Len(s)} /\ ToSet(r) = {r[i] : i \in 1 .. Len(r)}
  BY <1>1, LenProperties DEF ToSet
<1>3. \A i \in 1 .. Len(s) : i \in 1 .. Len(s) + Len(r) /\ c[i] = s[i]
  BY <1>1
<1>4. \A i \in 1 .. Len(r) : Len(s) + i \in 1 .. Len(s) + Len(r) /\ c[Len(s) + i] = r[i]
  BY <1>1
<1>5. \A i \in 1 .. Len(s) + Len(r) : i \in 1 .. Len(s) \/ i - Len(s) \in 1 .. Len(r)
  BY <1>1
<1>6. \A i \in 1 .. Len(s) + Len(r) : c[i] \in ToSet(s) \cup ToSet(r)
  <2> SUFFICES ASSUME NEW i \in 1 .. Len(s) + Len(r) PROVE c[i] \in ToSet(s) \cup ToSet(r)
    OBVIOUS
  <2>1. CASE i \in 1 .. Len(s)
    BY <1>2, <1>3, <2>1
  <2>2. CASE i \notin 1 .. Len(s)
    <3>1. i - Len(s) \in 1 .. Len(r) /\ c[i] = r[i - Len(s)]
      BY <1>1, <1>5, <2>2
    <3> QED BY <1>2, <3>1
  <2> QED BY <2>1, <2>2
<1> HIDE DEF c
<1>7. \A y \in ToSet(s) : y \in ToSet(c)
  BY <1>2, <1>3
<1>8. \A y \in ToSet(r) : y \in ToSet(c)
  BY <1>2, <1>4
<1> QED BY <1>2, <1>6, <1>7, <1>8 DEF c

LEMMA ElementsTail ==
    ASSUME NEW S, NEW s \in Seq(S), s # <<>>
    PROVE  /\ Tail(s) \in Seq(S) /\ Head(s) \in S /\ Head(s) = s[1]
           /\ Len(Tail(s)) = Len(s) - 1
           /\ \A i \in 1 .. Len(s) - 1 : Tail(s)[i] = s[i + 1]
           /\ ToSet(s) = ToSet(Tail(s)) \cup {Head(s)}
<1>1. /\ Tail(s) \in Seq(S) /\ Head(s) \in S /\ Head(s) = s[1]
      /\ Len(s) \in Nat \ {0} /\ Len(Tail(s)) = Len(s) - 1
      /\ \A i \in 1 .. Len(s) - 1 : Tail(s)[i] = s[i + 1]
  BY HeadTailProperties, EmptySeq
<1>2. /\ ToSet(s) = {s[i] : i \in 1 .. Len(s)}
      /\ ToSet(Tail(s)) = {Tail(s)[i] : i \in 1 .. Len(s) - 1}
  BY <1>1, LenProperties DEF ToSet
<1>3. \A i \in 1 .. Len(s) : i = 1 \/ (i - 1 \in 1 .. Len(s) - 1 /\ i = (i - 1) + 1)
  BY <1>1
<1>4. \A i \in 1 .. Len(s) : s[i] = Head(s) \/ s[i] \in ToSet(Tail(s))
  <2> SUFFICES ASSUME NEW i \in 1 .. Len(s), i # 1 PROVE s[i] \in ToSet(Tail(s))
    BY <1>1
  <2>1. i - 1 \in 1 .. Len(s) - 1 /\ i = (i - 1) + 1
    BY <1>3
  <2>2. s[i] = Tail(s)[i - 1]
    BY <1>1, <2>1
  <2> QED BY <1>2, <2>1, <2>2
<1>5. \A i \in 1 .. Len(s) - 1 : i + 1 \in 1 .. Len(s)
  BY <1>1
<1>6. \A i \in 1 .. Len(s) - 1 : Tail(s)[i] \in ToSet(s)
  BY <1>1, <1>2, <1>5
<1>7. Head(s) \in ToSet(s)
  BY <1>1, <1>2
<1> QED BY <1>1, <1>2, <1>4, <1>6, <1>7

LEMMA SeqIsFunction ==
    ASSUME NEW S, NEW s \in Seq(S), NEW n, DOMAIN s = 1 .. n,
           NEW r, r = [i \in 1 .. n |-> r[i]], \A i \in 1 .. n : s[i] = r[i]
    PROVE  s = r
<1>1. s = [i \in 1 .. n |-> s[i]]
  BY LenProperties
<1> QED BY <1>1

LEMMA ElementsFront ==
    ASSUME NEW S, NEW s \in Seq(S), s # <<>>
    PROVE  ToSet(s) = ToSet(Front(s)) \cup {Last(s)}
<1> DEFINE f == Front(s)
           n == Len(s)
<1>1. /\ n \in Nat \ {0} /\ Last(s) = s[n] /\ f \in Seq(S) /\ Len(f) = n - 1
      /\ \A i \in 1 .. n - 1 : f[i] = s[i]
  BY FrontLast
<1>2. ToSet(s) = {s[i] : i \in 1 .. n} /\ ToSet(f) = {f[i] : i \in 1 .. n - 1}
  BY <1>1, LenProperties DEF ToSet
<1>3. \A i \in 1 .. n : i = n \/ i \in 1 .. n - 1
  BY <1>1
<1>4. \A i \in 1 .. n - 1 : i \in 1 .. n
  BY <1>1
<1> HIDE DEF f
<1>5. \A x \in ToSet(s) : x \in ToSet(f) \cup {Last(s)}
  BY <1>1, <1>2, <1>3
<1>6. \A x \in ToSet(f) : x \in ToSet(s)
  BY <1>1, <1>2, <1>4
<1> QED BY <1>1, <1>2, <1>5, <1>6 DEF f

-------------------------------------------------------------------------------
(* The inductive invariant *)

\* The scan has put on `pending`, or seen, every import of what is loaded, and
\* loaded what it has seen and could: later loads find the cache filled.
Scanned ==
    /\ root_prefix # none => pending = <<>> /\ root_prefix \notin loaded
    /\ loaded \subseteq seen
    /\ \A m \in seen \ loaded : ~Loads(m)
    /\ \A m \in loaded : flaw[m] \notin {"missing", "unparsable"}
    /\ \A m \in loaded \cup {Root} : ToSet(imports[m]) \subseteq seen \cup ToSet(pending)

\* Resolution starts after the scan, with the entry module, and every open
\* activation is the import its caller is at.
Path ==
    /\ Scanning => frames = <<>> /\ in_progress_stack = <<>> /\ DOMAIN resolved = {}
                   /\ in_progress = {} /\ status = "running"
    /\ ~Scanning /\ status = "running" => frames # <<>>
    /\ status = "running" /\ frames # <<>> => IsInjective(in_progress_stack)
    /\ \A i \in 1 .. Len(frames) - 1 : frames[i].next <= Len(imports[frames[i].key])
    /\ StackIsPath

\* What an activation has gathered of its imports' regions: merged modules
\* come after their imports, the rest comes after its imports or finds them
\* merged, and each is imported by the activation's module or by another one.
Gathered(f) == ToSet(f.merged) \cup ToSet(f.spans)

MergedClosed(f) ==
    \A i \in 1 .. Len(f.merged) : \A c \in ToSet(imports[f.merged[i]]) :
        \E j \in 1 .. i - 1 : f.merged[j] = c

SpansClosed(f) ==
    \A i \in 1 .. Len(f.spans) : \A c \in ToSet(imports[f.spans[i]]) :
        c \in ToSet(f.merged) \/ \E j \in 1 .. i - 1 : f.spans[j] = c

AllWanted(f) ==
    \A x \in Gathered(f) :
        x \in ToSet(imports[f.key]) \/ \E y \in Gathered(f) : x \in ToSet(imports[y])

AllTaken(f) == \A j \in 1 .. f.next - 1 : imports[f.key][j] \in Gathered(f)

PhaseOK(f) ==
    /\ f.at # "imports" =>
          f.next = Len(imports[f.key]) + 1 /\ f.key \in fixities /\ flaw[f.key] # "import"
    /\ f.at = "merge" => flaw[f.key] # "syntax"

FrameOK(f) ==
    /\ f.key \in loaded \cup {Root} /\ Gathered(f) \subseteq DOMAIN resolved
    /\ IsInjective(f.merged)
    /\ MergedClosed(f) /\ SpansClosed(f) /\ AllWanted(f) /\ AllTaken(f) /\ PhaseOK(f)

FramesOK == \A i \in 1 .. Len(frames) : FrameOK(frames[i])

\* A cached region is ordered, complete, and made of modules that passed.
OrderedIn(r, imp) ==
    /\ IsInjective(r)
    /\ \A i \in 1 .. Len(r) : \A c \in ToSet(imp[r[i]]) : \E j \in 1 .. i - 1 : r[j] = c
    /\ \A i \in 1 .. Len(r) - 1 : \E j \in i + 1 .. Len(r) : r[i] \in ToSet(imp[r[j]])

ResolvedOK ==
    \A m \in DOMAIN resolved :
        /\ OrderedIn(resolved[m], imports) /\ Last(resolved[m]) = m
        /\ resolved[m] # <<>> /\ ToSet(resolved[m]) \subseteq DOMAIN resolved
        /\ m \in fixities /\ flaw[m] \in {"none", "export"}

ChainOK ==
    status = "cycle" =>
        /\ Len(chain) > 1 /\ chain[1] = Last(chain)
        /\ \A i \in 1 .. Len(chain) - 1 : chain[i + 1] \in ToSet(imports[chain[i]])

Inv == TypeOK /\ Scanned /\ Path /\ FramesOK /\ ResolvedOK /\ ChainOK

-------------------------------------------------------------------------------
(* Initial states, and what several actions share *)

LEMMA ImportsType ==
    ASSUME TypeOK, NEW k \in Keys
    PROVE  /\ imports[k] \in Seq(Mods) /\ IsInjective(imports[k]) /\ Len(imports[k]) \in Nat
           /\ \A i \in 1 .. Len(imports[k]) : imports[k][i] \in Mods /\ imports[k][i] \in ToSet(imports[k])
           /\ \A c \in ToSet(imports[k]) : c \in Mods /\ \E i \in 1 .. Len(imports[k]) : imports[k][i] = c
<1>1. imports[k] \in ImportLists
  BY DEF TypeOK, Keys
<1>2. imports[k] \in Seq(Mods) /\ IsInjective(imports[k])
  BY <1>1, ListsAssumption
<1> QED BY <1>2, Elements

LEMMA Initial == ASSUME Init PROVE Inv
<1>1. \A k \in Keys : imports[k] \in Seq(Mods)
  BY ListsAssumption DEF Init, Keys
<1>2. \A T : <<>> \in Seq(T) /\ Len(<<>>) = 0
  BY EmptySeq
<1>3. TypeOK
  BY <1>1, <1>2 DEF Init, TypeOK, Keys
<1>4. Scanned
  BY DEF Init, Scanned
<1>5. Path
  BY <1>2 DEF Init, Path, StackIsPath, Scanning
<1>6. FramesOK
  BY <1>2 DEF Init, FramesOK
<1>7. ResolvedOK
  BY DEF Init, ResolvedOK
<1>8. ChainOK
  BY DEF Init, ChainOK
<1> QED BY <1>3, <1>4, <1>5, <1>6, <1>7, <1>8 DEF Inv

LEMMA TopFrame ==
    ASSUME TypeOK, frames # <<>>
    PROVE  /\ Len(frames) \in Nat \ {0} /\ Len(frames) \in 1 .. Len(frames)
           /\ Top = frames[Len(frames)] /\ Top \in Frames
           /\ Top.next \in 1 .. Len(imports[Top.key]) + 1
<1>1. frames \in Seq(Frames)
  BY DEF TypeOK
<1>2. Len(frames) \in Nat \ {0} /\ Top = frames[Len(frames)] /\ Top \in Frames
  BY <1>1, FrontLast DEF Top
<1> QED BY <1>2 DEF TypeOK

\* Larger tables leave what an activation has gathered in order.
LEMMA FrameKept ==
    ASSUME NEW f, FrameOK(f), UNCHANGED input, loaded \subseteq loaded',
           DOMAIN resolved \subseteq (DOMAIN resolved)', fixities \subseteq fixities'
    PROVE  FrameOK(f)'
<1>1. Gathered(f)' = Gathered(f)
  BY DEF Gathered
<1>2. imports' = imports /\ flaw' = flaw
  BY DEF input
<1> QED BY <1>1, <1>2 DEF FrameOK, MergedClosed, SpansClosed, AllWanted, AllTaken, PhaseOK

LEMMA FramesNext ==
    ASSUME \A i \in 1 .. Len(frames') : \E g : frames'[i] = g /\ FrameOK(g)'
    PROVE  FramesOK'
<1> SUFFICES ASSUME NEW i \in 1 .. Len(frames'), NEW g, g = frames'[i], FrameOK(g)'
             PROVE  FrameOK(frames[i])'
  BY DEF FramesOK
<1>1. /\ Gathered(frames[i])' = Gathered(g)' /\ PhaseOK(frames[i])' = PhaseOK(g)'
      /\ MergedClosed(frames[i])' = MergedClosed(g)' /\ SpansClosed(frames[i])' = SpansClosed(g)'
      /\ AllTaken(frames[i])' = AllTaken(g)' /\ AllWanted(frames[i])' = AllWanted(g)'
  BY DEF Gathered, MergedClosed, SpansClosed, AllWanted, AllTaken, PhaseOK
<1> QED BY <1>1 DEF FrameOK

\* A step of the top activation.
LEMMA TopStep ==
    ASSUME Inv, status = "running", frames # <<>>, NEW f \in Frames, SetTop(f),
           f.key = Top.key, f.next \in 1 .. Len(imports[f.key]) + 1,
           UNCHANGED <<input, scan, files, resolved, progress, verdict>>,
           fixities \subseteq fixities', fixities' \subseteq Mods \cup {Root},
           FrameOK(f)'
    PROVE  Inv'
<1> USE DEF input, scan, files, progress, verdict
<1> DEFINE n == Len(frames)
<1>0. TypeOK
  BY DEF Inv
<1>1. n \in Nat \ {0} /\ Top = frames[n] /\ frames \in Seq(Frames)
  BY <1>0, TopFrame DEF TypeOK
<1>2. /\ frames' \in Seq(Frames) /\ Len(frames') = n
      /\ \A i \in 1 .. n : frames'[i] = IF i = n THEN f ELSE frames[i]
  BY <1>1, ExceptSeq DEF SetTop
<1>3. TypeOK'
  <2>1. \A i \in 1 .. n : frames'[i].next \in 1 .. Len(imports[frames'[i].key]) + 1
    BY <1>0, <1>2 DEF TypeOK
  <2> QED BY <1>0, <1>2, <2>1 DEF TypeOK
<1>4. Scanned'
  BY DEF Inv, Scanned, Loads
<1>5. \A i \in 1 .. n : frames'[i].key = frames[i].key
  BY <1>1, <1>2
<1>6. \A i \in 1 .. n - 1 : frames'[i] = frames[i] /\ i \in 1 .. n /\ i + 1 \in 1 .. n
  BY <1>1, <1>2
<1>7. StackIsPath'
  <2>1. /\ frames[1].key = Root
        /\ in_progress_stack = [i \in 1 .. n - 1 |-> frames[i + 1].key]
        /\ in_progress = ToSet(in_progress_stack)
        /\ in_progress \cap DOMAIN resolved = {}
        /\ \A i \in 1 .. n - 1 :
            /\ frames[i].at = "imports"
            /\ frames[i + 1].key = imports[frames[i].key][frames[i].next]
    BY DEF Inv, Path, StackIsPath
  <2>2. [i \in 1 .. n - 1 |-> frames[i + 1].key] = [i \in 1 .. n - 1 |-> frames'[i + 1].key]
    BY <1>5, <1>6
  <2>3. frames'[1].key = Root
    BY <1>1, <1>5, <2>1
  <2>4. \A i \in 1 .. n - 1 :
            /\ frames'[i].at = "imports"
            /\ frames'[i + 1].key = imports[frames'[i].key][frames'[i].next]
    BY <1>5, <1>6, <2>1
  <2> QED BY <1>2, <2>1, <2>2, <2>3, <2>4 DEF StackIsPath
<1>8. Path'
  <2>1. ~Scanning /\ frames' # <<>>
    BY <1>1, <1>2, EmptySeq DEF Inv, Path
  <2>2. \A i \in 1 .. n - 1 : frames'[i].next <= Len(imports[frames'[i].key])
    BY <1>6 DEF Inv, Path
  <2> QED BY <1>2, <1>7, <2>1, <2>2 DEF Inv, Path, Scanning
<1>9. FramesOK'
  <2> SUFFICES ASSUME NEW i \in 1 .. n, NEW g, g = frames'[i] PROVE FrameOK(g)'
    BY <1>2, FramesNext
  <2>1. CASE i = n
    BY <1>2, <2>1
  <2>2. CASE i # n
    <3>1. g = frames[i]
      BY <1>2, <2>2
    <3>2. FrameOK(g)
      BY <3>1 DEF Inv, FramesOK
    <3> QED BY <3>1, <3>2, FrameKept
  <2> QED BY <2>1, <2>2
<1>10. ResolvedOK'
  BY DEF Inv, ResolvedOK
<1>11. ChainOK'
  BY DEF Inv, ChainOK
<1> QED BY <1>3, <1>4, <1>8, <1>9, <1>10, <1>11 DEF Inv

-------------------------------------------------------------------------------
(* begin_program *)

LEMMA ScanSeenStep == ASSUME Inv, ScanSeen PROVE Inv'
<1> USE DEF input, files, progress, verdict
<1>1. pending \in Seq(Mods) /\ pending # <<>> /\ Last(pending) \in seen
  BY DEF Inv, TypeOK, ScanSeen
<1>2. pending' \in Seq(Mods) /\ ToSet(pending) = ToSet(pending') \cup {Last(pending)}
  BY <1>1, FrontLast, ElementsFront DEF ScanSeen
<1>3. TypeOK'
  BY <1>2 DEF Inv, TypeOK, ScanSeen
<1>4. Scanned'
  BY <1>1, <1>2 DEF Inv, Scanned, ScanSeen, Scanning, Loads
<1>5. Path'
  BY DEF Inv, Path, ScanSeen, Scanning, StackIsPath
<1>6. frames' = <<>>
  BY DEF Inv, Path, ScanSeen
<1>7. FramesOK'
  BY <1>6, EmptySeq DEF FramesOK
<1>8. ResolvedOK' /\ ChainOK'
  BY DEF Inv, ResolvedOK, ChainOK, ScanSeen
<1> QED BY <1>3, <1>4, <1>5, <1>7, <1>8 DEF Inv

\* load_module keeps the caches of one mind.
LEMMA LoadType ==
    ASSUME TypeOK, Scanned, NEW m \in Mods, LoadModule(m), UNCHANGED input
    PROVE  /\ loaded \subseteq loaded' /\ loaded' \subseteq loaded \cup {m}
           /\ loaded' \subseteq sources' /\ sources' \subseteq Mods
           /\ Loads(m) => m \in loaded'
           /\ m \in loaded' => Loads(m)
           /\ \A x \in loaded' : flaw'[x] \notin {"missing", "unparsable"}
BY DEF TypeOK, Scanned, LoadModule, Loads, input

LEMMA ScanLoadStep == ASSUME Inv, ScanLoad PROVE Inv'
<1> USE DEF input, progress, verdict
<1> DEFINE m == Last(pending)
<1>1. pending \in Seq(Mods) /\ pending # <<>> /\ TypeOK /\ Scanned
  BY DEF Inv, TypeOK, ScanLoad
<1>2. /\ m \in Mods /\ Front(pending) \in Seq(Mods)
      /\ ToSet(pending) = ToSet(Front(pending)) \cup {m}
  BY <1>1, FrontLast, ElementsFront
<1>3. /\ seen' = seen \cup {m} /\ LoadModule(m) /\ UNCHANGED input
      /\ pending' = Front(pending) \o (IF Loads(m) THEN imports[m] ELSE <<>>)
      /\ UNCHANGED <<input, root_prefix, resolved, progress, fixities, frames, verdict>>
      /\ Scanning
  BY DEF ScanLoad
<1> HIDE DEF m
<1>4. /\ loaded \subseteq loaded' /\ loaded' \subseteq loaded \cup {m}
      /\ loaded' \subseteq sources' /\ sources' \subseteq Mods
      /\ Loads(m) => m \in loaded'
      /\ m \in loaded' => Loads(m)
      /\ \A x \in loaded' : flaw'[x] \notin {"missing", "unparsable"}
  BY <1>1, <1>2, <1>3, LoadType
<1>5. imports[m] \in Seq(Mods) /\ <<>> \in Seq(Mods) /\ ToSet(<<>>) = {}
  BY <1>1, <1>2, ImportsType, Elements, EmptySeq DEF Keys
<1>6. /\ pending' \in Seq(Mods)
      /\ ToSet(pending') = ToSet(Front(pending)) \cup (IF Loads(m) THEN ToSet(imports[m]) ELSE {})
  <2> DEFINE r == IF Loads(m) THEN imports[m] ELSE <<>>
  <2>1. r \in Seq(Mods) /\ ToSet(r) = IF Loads(m) THEN ToSet(imports[m]) ELSE {}
    BY <1>5
  <2>2. pending' = Front(pending) \o r
    BY <1>3
  <2> HIDE DEF r
  <2> QED BY <1>2, <2>1, <2>2, ElementsConcat, ConcatProperties
<1>7. TypeOK'
  BY <1>1, <1>2, <1>3, <1>4, <1>6 DEF TypeOK
<1>8. Scanned'
  <2>1. \A x \in loaded' \cup {Root} : ToSet(imports[x]) \subseteq seen' \cup ToSet(pending')
    <3> SUFFICES ASSUME NEW x \in loaded' \cup {Root}
                 PROVE ToSet(imports[x]) \subseteq seen' \cup ToSet(pending')
      OBVIOUS
    <3>1. CASE x \in loaded \cup {Root}
      BY <1>1, <1>2, <1>3, <1>6, <3>1 DEF Scanned
    <3>2. CASE x = m /\ x \in loaded'
      BY <1>4, <1>6, <3>2
    <3> QED BY <1>4, <3>1, <3>2
  <2>2. loaded' \subseteq seen'
    BY <1>1, <1>3, <1>4 DEF Scanned
  <2>3. \A x \in seen' \ loaded' : ~Loads(x)'
    BY <1>1, <1>3, <1>4 DEF Scanned, Loads
  <2> QED BY <1>3, <1>4, <2>1, <2>2, <2>3 DEF Scanned, Scanning
<1>9. Path'
  BY <1>3 DEF Inv, Path, Scanning, StackIsPath
<1>10. FramesOK'
  BY <1>3, EmptySeq DEF Inv, Path, FramesOK
<1>11. ResolvedOK' /\ ChainOK'
  BY <1>3 DEF Inv, ResolvedOK, ChainOK
<1> QED BY <1>7, <1>8, <1>9, <1>10, <1>11 DEF Inv

\* The entry module's prefix is no loaded module.
LEMMA FreePrefixFresh ==
    ASSUME TypeOK
    PROVE  FreePrefix \in ToSet(PrefixNames) /\ FreePrefix \notin loaded
<1> DEFINE P(i) == PrefixNames[i] \notin loaded /\ \A j \in 1 .. i - 1 : PrefixNames[j] \in loaded
<1>1. loaded \in SUBSET Mods
  BY DEF TypeOK
<1>2. \E i \in DOMAIN PrefixNames : P(i)
  BY <1>1, PrefixAssumption
<1>3. PICK i \in DOMAIN PrefixNames : P(i) /\ FreePrefix = PrefixNames[i]
  BY <1>2 DEF FreePrefix
<1> QED BY <1>3 DEF ToSet

\* A new activation has gathered nothing.
LEMMA NewFrame ==
    ASSUME TypeOK, NEW k \in Keys, k \in loaded \cup {Root}
    PROVE  Frame(k) \in Frames /\ FrameOK(Frame(k)) /\ 1 \in 1 .. Len(imports[k]) + 1
<1>1. Len(imports[k]) \in Nat
  BY ImportsType
<1>2. Frame(k) \in Frames
  BY EmptySeq DEF Frame, Frames, Keys, Phases
<1>3. Gathered(Frame(k)) = {} /\ IsInjective(<<>>) /\ Len(<<>>) = 0
  BY Elements, EmptySeq DEF Gathered, Frame, ToSet, IsInjective
<1>4. FrameOK(Frame(k))
  BY <1>3 DEF FrameOK, Frame, MergedClosed, SpansClosed, AllWanted, AllTaken, PhaseOK
<1> QED BY <1>1, <1>2, <1>4

LEMMA BeginResolveStep == ASSUME Inv, BeginResolve PROVE Inv'
<1> USE DEF input, files, progress, verdict
<1> DEFINE f == Frame(Root)
<1>1. TypeOK /\ Scanned
  BY DEF Inv
<1>2. FreePrefix \in ToSet(PrefixNames) /\ FreePrefix \notin loaded
  BY <1>1, FreePrefixFresh
<1>3. f \in Frames /\ FrameOK(f) /\ 1 \in 1 .. Len(imports[Root]) + 1
  BY <1>1, NewFrame DEF Keys
<1>4. /\ frames' = <<f>> /\ Len(frames') = 1 /\ frames'[1] = f /\ frames' \in Seq(Frames)
      /\ f.key = Root /\ f.next = 1
  BY <1>3 DEF BeginResolve, Frame
<1>5. TypeOK'
  BY <1>1, <1>2, <1>3, <1>4 DEF TypeOK, BeginResolve
<1>6. Scanned'
  BY <1>1, <1>2 DEF Scanned, BeginResolve, Loads
<1>7. Path'
  <2>1. in_progress = {} /\ in_progress_stack = <<>> /\ status = "running" /\ DOMAIN resolved = {}
    BY DEF Inv, Path, BeginResolve
  <2>2. root_prefix' # none
    BY <1>2, PrefixAssumption DEF BeginResolve
  <2>3. <<>> = [i \in 1 .. 1 - 1 |-> frames'[i + 1].key] /\ ToSet(<<>>) = {} /\ IsInjective(<<>>)
    BY DEF ToSet, IsInjective
  <2>4. frames' # <<>>
    BY <1>4
  <2>5. UNCHANGED <<resolved, progress, verdict>>
    BY DEF BeginResolve
  <2>6. [i \in 1 .. Len(frames') - 1 |-> frames'[i + 1].key] = <<>>
    BY <1>4, <2>3
  <2>7. \A i \in 1 .. Len(frames') - 1 : FALSE
    BY <1>4
  <2>8. /\ in_progress_stack' = <<>> /\ in_progress' = {} /\ (DOMAIN resolved)' = {}
        /\ frames'[1].key = Root
    BY <1>4, <2>1, <2>5
  <2>9. /\ in_progress_stack' = [i \in 1 .. Len(frames') - 1 |-> frames'[i + 1].key]
         /\ in_progress' = ToSet(in_progress_stack')
         /\ in_progress' \cap (DOMAIN resolved)' = {}
    BY <2>3, <2>6, <2>8
  <2>10. \A i \in 1 .. Len(frames') - 1 :
            /\ frames'[i].at = "imports"
            /\ frames'[i + 1].key = imports'[frames'[i].key][frames'[i].next]
    BY <2>7
  <2>11. StackIsPath'
    BY <2>8, <2>9, <2>10 DEF StackIsPath
  <2> QED BY <2>1, <2>2, <2>3, <2>4, <2>5, <2>7, <2>11 DEF Path, Scanning
<1>8. FramesOK'
  <2>1. FrameOK(f)'
    BY <1>3, FrameKept DEF BeginResolve
  <2>2. \A i \in 1 .. Len(frames') : frames'[i] = f
    BY <1>4
  <2> QED BY <2>1, <2>2, FramesNext
<1>9. ResolvedOK' /\ ChainOK'
  BY DEF Inv, ResolvedOK, ChainOK, BeginResolve
<1> QED BY <1>5, <1>6, <1>7, <1>8, <1>9 DEF Inv

-------------------------------------------------------------------------------
(* resolve_module: steps of the top activation *)

\* What every step of an activation starts from.
LEMMA Running ==
    ASSUME Inv, status = "running", frames # <<>>
    PROVE  /\ TypeOK /\ Len(frames) \in Nat \ {0} /\ Len(frames) \in 1 .. Len(frames)
           /\ Top = frames[Len(frames)] /\ Top \in Frames /\ Top.key \in Keys
           /\ Top.next \in 1 .. Len(imports[Top.key]) + 1
           /\ FrameOK(Top) /\ ~Scanning
<1>1. TypeOK
  BY DEF Inv
<1>2. /\ Len(frames) \in Nat \ {0} /\ Len(frames) \in 1 .. Len(frames)
      /\ Top = frames[Len(frames)] /\ Top \in Frames
      /\ Top.next \in 1 .. Len(imports[Top.key]) + 1
  BY <1>1, TopFrame
<1>3. FrameOK(Top)
  BY <1>2 DEF Inv, FramesOK
<1>4. Top.key \in Keys
  BY <1>2 DEF Frames, Keys
<1> QED BY <1>1, <1>2, <1>3, <1>4 DEF Inv, Path

LEMMA ChildType ==
    ASSUME Inv, Importing
    PROVE  /\ status = "running" /\ frames # <<>> /\ Top.at = "imports"
           /\ Child \in Mods /\ Child \in ToSet(imports[Top.key])
           /\ Child = imports[Top.key][Top.next] /\ Top.next \in 1 .. Len(imports[Top.key])
<1>1. status = "running" /\ frames # <<>> /\ Top.at = "imports" /\ Top.next <= Len(imports[Top.key])
  BY DEF Importing, At
<1>2. Top.next \in 1 .. Len(imports[Top.key]) + 1 /\ Top.key \in Keys /\ TypeOK
  BY <1>1, Running
<1>3. Len(imports[Top.key]) \in Nat
  BY <1>2, ImportsType
<1>4. Top.next \in 1 .. Len(imports[Top.key])
  BY <1>1, <1>2, <1>3
<1> QED BY <1>1, <1>2, <1>4, ImportsType DEF Child

LEMMA UseResolvedStep == ASSUME Inv, UseResolved PROVE Inv'
<1> USE DEF input, scan, files, progress, verdict
<1>a. PICK r, s, t, f : /\ r = resolved[Child] /\ s = Top.spans /\ t = s \o r
                        /\ f = [Top EXCEPT !.next = @ + 1, !.spans = t]
  OBVIOUS
<1>1. /\ status = "running" /\ frames # <<>> /\ Top.at = "imports"
      /\ Child \in Mods /\ Child \in ToSet(imports[Top.key])
      /\ Child = imports[Top.key][Top.next] /\ Top.next \in 1 .. Len(imports[Top.key])
  BY ChildType DEF UseResolved
<1>2. /\ TypeOK /\ Top \in Frames /\ Top.key \in Keys /\ FrameOK(Top)
  BY <1>1, Running
<1>3. /\ OrderedIn(r, imports) /\ Last(r) = Child /\ r # <<>> /\ ToSet(r) \subseteq DOMAIN resolved
      /\ r \in Seq(Mods)
  BY <1>a DEF Inv, ResolvedOK, UseResolved, TypeOK
<1>4. /\ s \in Seq(Mods) /\ Top.merged \in Seq(Mods) /\ Top.next \in Nat
      /\ Len(imports[Top.key]) \in Nat
  BY <1>a, <1>2, ImportsType DEF Frames
<1>5. /\ t \in Seq(Mods) /\ Len(t) = Len(s) + Len(r)
      /\ Len(s) \in Nat /\ Len(r) \in Nat \ {0}
      /\ \A i \in 1 .. Len(s) + Len(r) : t[i] = IF i <= Len(s) THEN s[i] ELSE r[i - Len(s)]
      /\ ToSet(t) = ToSet(s) \cup ToSet(r)
  <2>1. Len(s) \in Nat /\ Len(r) \in Nat \ {0}
    BY <1>3, <1>4, LenProperties, EmptySeq
  <2>2. /\ t \in Seq(Mods) /\ Len(t) = Len(s) + Len(r)
        /\ \A i \in 1 .. Len(s) + Len(r) : t[i] = IF i <= Len(s) THEN s[i] ELSE r[i - Len(s)]
    BY <1>a, <1>3, <1>4, ConcatProperties, Zenon
  <2>3. ToSet(t) = ToSet(s) \cup ToSet(r)
    BY <1>a, <1>3, <1>4, ElementsConcat
  <2> QED BY <2>1, <2>2, <2>3
<1>6. /\ f \in Frames /\ f.key = Top.key /\ f.next = Top.next + 1 /\ f.at = "imports"
      /\ f.spans = t /\ f.merged = Top.merged
  <2>1. f.key = Top.key /\ f.next = Top.next + 1 /\ f.at = Top.at /\ f.spans = t /\ f.merged = Top.merged
    BY <1>a, <1>2 DEF Frames
  <2>2. f = [key |-> Top.key, next |-> Top.next + 1, spans |-> t, merged |-> Top.merged, at |-> Top.at]
    BY <1>a, <1>2 DEF Frames
  <2>3. Top.key \in Keys /\ Top.next + 1 \in Nat /\ t \in Seq(Mods) /\ Top.at \in Phases
    BY <1>2, <1>4, <1>5 DEF Frames
  <2>4. f \in Frames
    BY <1>4, <2>2, <2>3 DEF Frames, Keys
  <2> QED BY <1>1, <2>1, <2>4
<1>7. Child \in ToSet(r) /\ Last(r) = r[Len(r)]
  BY <1>3, <1>5, Elements DEF Last
<1>8. Gathered(f) = Gathered(Top) \cup ToSet(r)
  BY <1>a, <1>5, <1>6 DEF Gathered
<1>9. FrameOK(f)
  <2>1. f.key \in loaded \cup {Root} /\ Gathered(f) \subseteq DOMAIN resolved /\ IsInjective(f.merged)
    BY <1>2, <1>3, <1>6, <1>8 DEF FrameOK
  <2>2. MergedClosed(f)
    <3>1. MergedClosed(Top) /\ f.merged = Top.merged
      BY <1>2, <1>6 DEF FrameOK
    <3> QED BY <3>1 DEF MergedClosed
  <2>3. ASSUME NEW i \in 1 .. Len(f.spans), NEW c \in ToSet(imports[f.spans[i]])
        PROVE  c \in ToSet(f.merged) \/ \E j \in 1 .. i - 1 : f.spans[j] = c
    <3>1. CASE i <= Len(s)
      <4>1. i \in 1 .. Len(s) /\ f.spans[i] = s[i]
        BY <1>5, <1>6, <3>1
      <4>2. c \in ToSet(f.merged) \/ \E j \in 1 .. i - 1 : s[j] = c
        BY <1>a, <1>2, <1>6, <2>3, <4>1 DEF FrameOK, SpansClosed
      <4>3. \A j \in 1 .. i - 1 : f.spans[j] = s[j]
        BY <1>5, <1>6, <4>1
      <4> QED BY <4>2, <4>3
    <3>2. CASE i > Len(s)
      <4>1. PICK k \in 1 .. Len(r) : i = Len(s) + k
        <5>1. i - Len(s) \in 1 .. Len(r) /\ i = Len(s) + (i - Len(s))
          BY <1>5, <1>6, <3>2
        <5> QED BY <5>1
      <4>2. f.spans[i] = r[k]
        BY <1>5, <1>6, <4>1
      <4>3. PICK j \in 1 .. k - 1 : r[j] = c
        BY <1>3, <2>3, <4>2 DEF OrderedIn
      <4>4. /\ Len(s) + j \in 1 .. i - 1 /\ Len(s) + j \in 1 .. Len(s) + Len(r)
            /\ Len(s) + j > Len(s) /\ Len(s) + j - Len(s) = j
        BY <1>5, <4>1
      <4>5. f.spans[Len(s) + j] = c
        BY <1>5, <1>6, <4>3, <4>4
      <4> QED BY <4>4, <4>5
    <3> QED BY <1>5, <1>6, <3>1, <3>2
  <2>4. ASSUME NEW x \in Gathered(f)
        PROVE  x \in ToSet(imports[f.key]) \/ \E y \in Gathered(f) : x \in ToSet(imports[y])
    <3>1. CASE x \in Gathered(Top)
      BY <1>2, <1>6, <1>8, <3>1 DEF FrameOK, AllWanted
    <3>2. CASE x \in ToSet(r)
      <4>1. PICK k \in 1 .. Len(r) : r[k] = x
        BY <1>3, <3>2, Elements
      <4>2. CASE k = Len(r)
        BY <1>1, <1>3, <1>6, <1>7, <4>1, <4>2
      <4>3. CASE k # Len(r)
        <5>1. k \in 1 .. Len(r) - 1
          BY <1>5, <4>3
        <5>2. PICK j \in k + 1 .. Len(r) : r[k] \in ToSet(imports[r[j]])
          BY <1>3, <5>1 DEF OrderedIn
        <5>3. r[j] \in ToSet(r)
          <6>1. j \in 1 .. Len(r)
            BY <1>5, <5>1
          <6> QED BY <1>3, <6>1, Elements
        <5> QED BY <1>8, <4>1, <5>2, <5>3
      <4> QED BY <4>2, <4>3
    <3> QED BY <1>8, <3>1, <3>2
  <2>5. \A j \in 1 .. f.next - 1 : imports[f.key][j] \in Gathered(f)
    <3> SUFFICES ASSUME NEW j \in 1 .. f.next - 1 PROVE imports[f.key][j] \in Gathered(f)
      OBVIOUS
    <3>1. CASE j = Top.next
      BY <1>1, <1>6, <1>7, <1>8, <3>1
    <3>2. CASE j # Top.next
      <4>1. j \in 1 .. Top.next - 1
        BY <1>4, <1>6, <3>2
      <4> QED BY <1>2, <1>6, <1>8, <4>1 DEF FrameOK, AllTaken
    <3> QED BY <3>1, <3>2
  <2> QED BY <1>6, <2>1, <2>2, <2>3, <2>4, <2>5
          DEF FrameOK, SpansClosed, AllWanted, AllTaken, PhaseOK
<1>10. FrameOK(f)'
  BY <1>9, FrameKept DEF UseResolved
<1>11. f.next \in 1 .. Len(imports[f.key]) + 1
  BY <1>1, <1>4, <1>6
<1>12. /\ SetTop(f) /\ UNCHANGED <<input, scan, files, resolved, progress, fixities, verdict>>
       /\ fixities \subseteq Mods \cup {Root}
  BY <1>a, <1>2 DEF UseResolved, TypeOK
<1> QED BY <1>1, <1>6, <1>10, <1>11, <1>12, TopStep

\* The next phase of an activation gathers nothing.
LEMMA PhaseStep ==
    ASSUME Inv, status = "running", frames # <<>>, NEW p \in Phases,
           SetTop([Top EXCEPT !.at = p]),
           UNCHANGED <<input, scan, files, resolved, progress, verdict>>,
           fixities \subseteq fixities', fixities' \subseteq Mods \cup {Root},
           p # "imports" => /\ Top.next = Len(imports[Top.key]) + 1
                            /\ Top.key \in fixities' /\ flaw[Top.key] # "import",
           p = "merge" => flaw[Top.key] # "syntax"
    PROVE  Inv'
<1>a. PICK f : f = [Top EXCEPT !.at = p]
  OBVIOUS
<1>1. /\ TypeOK /\ Top \in Frames /\ Top.key \in Keys /\ FrameOK(Top)
      /\ Top.next \in 1 .. Len(imports[Top.key]) + 1
  BY Running
<1>2. /\ f.key = Top.key /\ f.next = Top.next /\ f.at = p /\ f.spans = Top.spans
      /\ f.merged = Top.merged /\ f \in Frames
  BY <1>a, <1>1 DEF Frames
<1>3. Gathered(f) = Gathered(Top)
  BY <1>2 DEF Gathered
<1>4. /\ Top.key \in loaded \cup {Root} /\ Gathered(Top) \subseteq DOMAIN resolved
      /\ IsInjective(Top.merged)
      /\ MergedClosed(Top) /\ SpansClosed(Top) /\ AllWanted(Top) /\ AllTaken(Top)
  BY <1>1 DEF FrameOK
<1>5. MergedClosed(f) /\ SpansClosed(f) /\ AllWanted(f) /\ AllTaken(f)
  BY <1>2, <1>3, <1>4 DEF MergedClosed, SpansClosed, AllWanted, AllTaken
<1>6. imports' = imports /\ flaw' = flaw /\ loaded' = loaded /\ resolved' = resolved
  BY DEF input, files
<1>7. PhaseOK(f)'
  BY <1>2, <1>6 DEF PhaseOK
<1>8. Gathered(f)' = Gathered(f)
  BY DEF Gathered
<1>9. (MergedClosed(f) /\ SpansClosed(f) /\ AllWanted(f) /\ AllTaken(f))'
  BY <1>5, <1>6, <1>8 DEF MergedClosed, SpansClosed, AllWanted, AllTaken
<1>10. FrameOK(f)'
  BY <1>2, <1>3, <1>4, <1>6, <1>7, <1>8, <1>9 DEF FrameOK
<1>11. SetTop(f) /\ f.next \in 1 .. Len(imports[f.key]) + 1
  BY <1>a, <1>1, <1>2
<1> QED BY <1>2, <1>10, <1>11, TopStep

LEMMA DeclareStep == ASSUME Inv, Declare PROVE Inv'
<1>1. /\ status = "running" /\ frames # <<>> /\ Top.next > Len(imports[Top.key])
      /\ flaw[Top.key] # "import" /\ fixities' = fixities \cup {Top.key}
      /\ SetTop([Top EXCEPT !.at = "group"])
      /\ UNCHANGED <<input, scan, files, resolved, progress, verdict>>
  BY DEF Declare, Imported, At
<1>2. TypeOK /\ Top.key \in Keys /\ Top.next \in 1 .. Len(imports[Top.key]) + 1
  BY <1>1, Running
<1>3. Len(imports[Top.key]) \in Nat
  BY <1>2, ImportsType
<1>4. Top.next = Len(imports[Top.key]) + 1
  BY <1>1, <1>2, <1>3
<1>5. fixities' \subseteq Mods \cup {Root} /\ "group" \in Phases
  BY <1>1, <1>2 DEF TypeOK, Keys, Phases
<1> QED BY <1>1, <1>4, <1>5, PhaseStep

LEMMA GroupStep == ASSUME Inv, Group PROVE Inv'
<1>1. /\ status = "running" /\ frames # <<>> /\ Top.at = "group" /\ flaw[Top.key] # "syntax"
      /\ SetTop([Top EXCEPT !.at = "merge"])
      /\ UNCHANGED <<input, scan, files, resolved, progress, fixities, verdict>>
  BY DEF Group, At
<1>2. TypeOK /\ FrameOK(Top)
  BY <1>1, Running
<1>3. PhaseOK(Top) /\ "merge" \in Phases /\ fixities \subseteq Mods \cup {Root}
  BY <1>2 DEF FrameOK, TypeOK, Phases
<1> QED BY <1>1, <1>3, PhaseStep DEF PhaseOK

\* The next origin is merged where it is not merged yet.
LEMMA MergeSpanStep == ASSUME Inv, MergeSpan PROVE Inv'
<1>a. PICK s, g, o, f : /\ s = Top.spans /\ g = Top.merged /\ o = Head(s)
                        /\ f = [Top EXCEPT !.spans = Tail(@), !.merged = Merged(@, Head(Top.spans))]
  OBVIOUS
<1>1. /\ status = "running" /\ frames # <<>> /\ Top.at = "merge" /\ s # <<>> /\ SetTop(f)
      /\ UNCHANGED <<input, scan, files, resolved, progress, fixities, verdict>>
  BY <1>a DEF MergeSpan, At
<1>2. /\ TypeOK /\ Top \in Frames /\ Top.key \in Keys /\ FrameOK(Top)
      /\ Top.next \in 1 .. Len(imports[Top.key]) + 1
  BY <1>1, Running
<1>3. s \in Seq(Mods) /\ g \in Seq(Mods) /\ Top.next \in Nat
  BY <1>a, <1>2 DEF Frames
<1>4. /\ Tail(s) \in Seq(Mods) /\ o \in Mods /\ o = s[1] /\ Len(Tail(s)) = Len(s) - 1
      /\ \A i \in 1 .. Len(s) - 1 : Tail(s)[i] = s[i + 1]
      /\ ToSet(s) = ToSet(Tail(s)) \cup {o}
      /\ Len(s) \in Nat \ {0} /\ Len(g) \in Nat
  BY <1>a, <1>1, <1>3, ElementsTail, EmptySeq, LenProperties
<1>5. PICK m : m = Merged(g, o)
  OBVIOUS
<1>6. m \in Seq(Mods) /\ ToSet(m) = ToSet(g) \cup {o}
  BY <1>3, <1>4, <1>5, AppendProperties, ElementsAppend DEF Merged
<1>7. /\ f.key = Top.key /\ f.next = Top.next /\ f.at = "merge" /\ f.spans = Tail(s) /\ f.merged = m
      /\ f \in Frames
  <2>1. f = [key |-> Top.key, next |-> Top.next, spans |-> Tail(s), merged |-> m, at |-> Top.at]
    BY <1>a, <1>2, <1>5 DEF Frames
  <2>2. Top.key \in Keys /\ Top.at \in Phases
    BY <1>2 DEF Frames
  <2> QED BY <1>1, <1>3, <1>4, <1>6, <2>1, <2>2 DEF Frames, Keys
<1>8. Gathered(f) = Gathered(Top)
  BY <1>a, <1>4, <1>6, <1>7 DEF Gathered
<1>9. /\ Top.key \in loaded \cup {Root} /\ Gathered(Top) \subseteq DOMAIN resolved
      /\ IsInjective(g) /\ MergedClosed(Top) /\ SpansClosed(Top)
      /\ AllWanted(Top) /\ AllTaken(Top) /\ PhaseOK(Top)
  BY <1>a, <1>2 DEF FrameOK
<1>10. AllWanted(f) /\ AllTaken(f) /\ PhaseOK(f)
  BY <1>1, <1>7, <1>8, <1>9 DEF AllWanted, AllTaken, PhaseOK
<1>11. \A c \in ToSet(imports[o]) : c \in ToSet(g)
  <2>1. 1 \in 1 .. Len(s)
    BY <1>4
  <2> QED BY <1>a, <1>4, <1>9, <2>1 DEF SpansClosed
<1>12. SpansClosed(f)
  <2> SUFFICES ASSUME NEW i \in 1 .. Len(f.spans), NEW c \in ToSet(imports[f.spans[i]])
               PROVE  c \in ToSet(f.merged) \/ \E j \in 1 .. i - 1 : f.spans[j] = c
    BY DEF SpansClosed
  <2>1. i \in 1 .. Len(s) - 1 /\ i + 1 \in 1 .. Len(s) /\ f.spans[i] = s[i + 1]
    BY <1>4, <1>7
  <2>2. c \in ToSet(g) \/ \E j \in 1 .. i + 1 - 1 : s[j] = c
    BY <1>a, <1>9, <2>1 DEF SpansClosed
  <2>3. CASE c \in ToSet(g)
    BY <1>6, <1>7, <2>3
  <2>4. ASSUME NEW j \in 1 .. i, s[j] = c PROVE c \in ToSet(f.merged) \/ \E k \in 1 .. i - 1 : f.spans[k] = c
    <3>1. CASE j = 1
      BY <1>4, <1>6, <1>7, <2>4, <3>1
    <3>2. CASE j # 1
      <4>1. j - 1 \in 1 .. i - 1 /\ j - 1 \in 1 .. Len(s) - 1 /\ (j - 1) + 1 = j
        BY <2>1, <3>2
      <4> QED BY <1>4, <1>7, <2>4, <4>1
    <3> QED BY <3>1, <3>2
  <2>5. i + 1 - 1 = i
    BY <2>1
  <2> QED BY <2>2, <2>3, <2>4, <2>5
<1>13. IsInjective(m) /\ MergedClosed(f)
  <2>1. CASE o \in ToSet(g)
    <3>1. m = g
      BY <1>5, <2>1 DEF Merged
    <3>2. f.merged = Top.merged /\ MergedClosed(Top) /\ IsInjective(m)
      BY <1>a, <1>7, <1>9, <3>1
    <3> QED BY <3>2 DEF MergedClosed
  <2>2. CASE o \notin ToSet(g)
    <3>1. /\ m = Append(g, o) /\ Len(m) = Len(g) + 1 /\ m[Len(g) + 1] = o
          /\ \A i \in 1 .. Len(g) : m[i] = g[i]
      BY <1>3, <1>4, <1>5, <2>2, AppendProperties DEF Merged
    <3>2. /\ \A i \in 1 .. Len(g) : g[i] \in ToSet(g)
          /\ \A x \in ToSet(g) : \E i \in 1 .. Len(g) : g[i] = x
          /\ DOMAIN g = 1 .. Len(g) /\ DOMAIN m = 1 .. Len(g) + 1
      BY <1>3, <1>6, <3>1, Elements, LenProperties
    <3>3. IsInjective(m)
      <4> SUFFICES ASSUME NEW i \in 1 .. Len(g) + 1, NEW j \in 1 .. Len(g) + 1, m[i] = m[j]
                   PROVE  i = j
        BY <3>2 DEF IsInjective
      <4>1. i \in 1 .. Len(g) \/ i = Len(g) + 1
        BY <1>4
      <4>2. j \in 1 .. Len(g) \/ j = Len(g) + 1
        BY <1>4
      <4>3. CASE i \in 1 .. Len(g) /\ j \in 1 .. Len(g)
        BY <1>9, <3>1, <3>2, <4>3 DEF IsInjective
      <4>4. CASE i \in 1 .. Len(g) /\ j = Len(g) + 1
        BY <2>2, <3>1, <3>2, <4>4
      <4>5. CASE i = Len(g) + 1 /\ j \in 1 .. Len(g)
        BY <2>2, <3>1, <3>2, <4>5
      <4> QED BY <4>1, <4>2, <4>3, <4>4, <4>5
    <3>4. ASSUME NEW i \in 1 .. Len(m), NEW c \in ToSet(imports[m[i]])
          PROVE  \E j \in 1 .. i - 1 : m[j] = c
      <4>1. CASE i \in 1 .. Len(g)
        <5>1. PICK j \in 1 .. i - 1 : g[j] = c
          BY <1>a, <1>9, <3>1, <3>4, <4>1 DEF MergedClosed
        <5>2. j \in 1 .. Len(g)
          BY <1>4, <4>1
        <5> QED BY <3>1, <5>1, <5>2
      <4>2. CASE i = Len(g) + 1
        <5>1. PICK j \in 1 .. Len(g) : g[j] = c
          BY <1>11, <3>1, <3>2, <3>4, <4>2
        <5>2. j \in 1 .. i - 1
          BY <1>4, <4>2
        <5> QED BY <3>1, <5>1, <5>2
      <4>3. i \in 1 .. Len(g) \/ i = Len(g) + 1
        BY <1>4, <3>1
      <4> QED BY <4>1, <4>2, <4>3
    <3> QED BY <1>7, <3>3, <3>4 DEF MergedClosed
  <2> QED BY <2>1, <2>2
<1>14. FrameOK(f)
  BY <1>7, <1>8, <1>9, <1>10, <1>12, <1>13 DEF FrameOK
<1>15. FrameOK(f)'
  BY <1>1, <1>14, FrameKept DEF files
<1>16. fixities \subseteq Mods \cup {Root} /\ f.next \in 1 .. Len(imports[f.key]) + 1
  BY <1>2, <1>7 DEF TypeOK
<1> QED BY <1>1, <1>7, <1>15, <1>16, TopStep

-------------------------------------------------------------------------------
(* resolve_module: activations open, close and fail *)

\* A verdict that leaves the activations open.
LEMMA VerdictStep ==
    ASSUME Inv, status = "running", frames # <<>>, status' # "running", ChainOK',
           chain' \in Seq(Mods), program' = program,
           UNCHANGED <<input, scan, files, resolved, progress, frames>>,
           fixities \subseteq fixities', fixities' \subseteq Mods \cup {Root}
    PROVE  Inv'
<1> USE DEF input, scan, files, progress
<1>1. TypeOK'
  BY DEF Inv, TypeOK
<1>2. Scanned'
  BY DEF Inv, Scanned, Loads
<1>3. Path'
  BY DEF Inv, Path, StackIsPath, Scanning
<1>4. FramesOK'
  <2> SUFFICES ASSUME NEW i \in 1 .. Len(frames), NEW g, g = frames[i] PROVE FrameOK(g)'
    BY FramesNext
  <2>1. FrameOK(g)
    BY DEF Inv, FramesOK
  <2> QED BY <2>1, FrameKept
<1>5. ResolvedOK'
  BY DEF Inv, ResolvedOK
<1> QED BY <1>1, <1>2, <1>3, <1>4, <1>5 DEF Inv

\* The modules in progress, as the activations give them.
LEMMA OpenModules ==
    ASSUME Inv, status = "running", frames # <<>>
    PROVE  /\ in_progress_stack \in Seq(Mods) /\ Len(in_progress_stack) = Len(frames) - 1
           /\ DOMAIN in_progress_stack = 1 .. Len(frames) - 1
           /\ \A i \in 1 .. Len(frames) - 1 : in_progress_stack[i] = frames[i + 1].key
           /\ in_progress = ToSet(in_progress_stack) /\ IsInjective(in_progress_stack)
           /\ frames[1].key = Root /\ in_progress \cap DOMAIN resolved = {}
<1>1. TypeOK /\ Len(frames) \in Nat \ {0}
  BY Running
<1>2. StackIsPath /\ IsInjective(in_progress_stack)
  BY DEF Inv, Path
<1>3. /\ in_progress_stack = [i \in 1 .. Len(frames) - 1 |-> frames[i + 1].key]
      /\ in_progress = ToSet(in_progress_stack)
      /\ frames[1].key = Root /\ in_progress \cap DOMAIN resolved = {}
  BY <1>2 DEF StackIsPath
<1>4. in_progress_stack \in Seq(Mods)
  BY <1>1 DEF TypeOK
<1>5. DOMAIN in_progress_stack = 1 .. Len(in_progress_stack) /\ Len(in_progress_stack) \in Nat
  BY <1>4, LenProperties
<1>6. Len(in_progress_stack) = Len(frames) - 1
  BY <1>1, <1>3, <1>5
<1> QED BY <1>2, <1>3, <1>4, <1>5, <1>6

\* The path from a module in progress to the top, and the import that closes it.
LEMMA FindCycleStep == ASSUME Inv, FindCycle PROVE Inv'
<1> DEFINE n == Len(frames)
           L == Len(in_progress_stack)
           b == CycleStart(Child)
           q == SubSeq(in_progress_stack, b, L)
<1>1. /\ status = "running" /\ frames # <<>> /\ Top.at = "imports"
      /\ Child \in Mods /\ Child \in ToSet(imports[Top.key])
      /\ Child \in in_progress /\ status' = "cycle" /\ chain' = Append(q, Child)
      /\ UNCHANGED <<input, scan, files, resolved, progress, fixities, frames, program>>
  BY ChildType DEF FindCycle
<1>2. /\ in_progress_stack \in Seq(Mods) /\ L = n - 1
      /\ DOMAIN in_progress_stack = 1 .. n - 1
      /\ \A i \in 1 .. n - 1 : in_progress_stack[i] = frames[i + 1].key
      /\ in_progress = ToSet(in_progress_stack)
  BY <1>1, OpenModules
<1>3. TypeOK /\ n \in Nat \ {0} /\ Top = frames[n] /\ StackIsPath
  BY <1>1, Running DEF Inv, Path
<1>4. b \in 1 .. n - 1 /\ in_progress_stack[b] = Child
  <2>1. \E i \in DOMAIN in_progress_stack : in_progress_stack[i] = Child
    BY <1>1, <1>2 DEF ToSet
  <2> QED BY <1>2, <2>1 DEF CycleStart
<1> HIDE DEF b
<1>5. /\ q \in Seq(Mods) /\ Len(q) = L - b + 1
      /\ \A i \in 1 .. L - b + 1 : q[i] = in_progress_stack[b + i - 1]
  <2>1. \A i \in b .. L : in_progress_stack[i] \in Mods
    BY <1>2, <1>3, <1>4, ElementOfSeq
  <2>2. b \in Int /\ L \in Int /\ b <= L
    BY <1>2, <1>3, <1>4
  <2> QED BY <2>1, <2>2, SubSeqProperties
<1> HIDE DEF q
<1>6. /\ chain' \in Seq(Mods) /\ Len(chain') = L - b + 2
      /\ \A i \in 1 .. L - b + 1 : chain'[i] = in_progress_stack[b + i - 1]
      /\ chain'[L - b + 2] = Child
  <2>1. L - b + 1 + 1 = L - b + 2
    BY <1>2, <1>3, <1>4
  <2> QED BY <1>1, <1>5, <2>1, AppendProperties
<1>7. \A i \in 1 .. n - 2 : in_progress_stack[i + 1] \in ToSet(imports[in_progress_stack[i]])
  <2> SUFFICES ASSUME NEW i \in 1 .. n - 2
               PROVE  in_progress_stack[i + 1] \in ToSet(imports[in_progress_stack[i]])
    OBVIOUS
  <2>1. i \in 1 .. n - 1 /\ i + 1 \in 1 .. n - 1 /\ i + 1 \in 1 .. n
    BY <1>3
  <2>2. frames[i + 1 + 1].key = imports[frames[i + 1].key][frames[i + 1].next]
    BY <1>1, <1>3, <2>1 DEF StackIsPath
  <2>3. in_progress_stack[i + 1] = frames[i + 1 + 1].key /\ in_progress_stack[i] = frames[i + 1].key
    BY <1>2, <2>1
  <2>4. frames[i + 1] \in Frames /\ frames[i + 1].next \in 1 .. Len(imports[frames[i + 1].key]) + 1
    BY <1>3, <2>1, ElementOfSeq DEF TypeOK
  <2>5. frames[i + 1].key \in Keys /\ frames[i + 1].next <= Len(imports[frames[i + 1].key])
    BY <1>1, <2>1, <2>4 DEF Inv, Path, Frames, Keys
  <2>6. frames[i + 1].next \in 1 .. Len(imports[frames[i + 1].key])
    BY <1>3, <2>4, <2>5, ImportsType
  <2>7. imports[frames[i + 1].key][frames[i + 1].next] \in ToSet(imports[frames[i + 1].key])
    BY <1>3, <2>5, <2>6, ImportsType
  <2> QED BY <2>2, <2>3, <2>7
<1>8. in_progress_stack[L] = Top.key
  BY <1>2, <1>3, <1>4
<1>9. ASSUME NEW i \in 1 .. L - b + 1
      PROVE  chain'[i + 1] \in ToSet(imports[chain'[i]])
  <2>1. CASE i = L - b + 1
    <3>1. i + 1 = L - b + 2 /\ b + i - 1 = L
      BY <1>2, <1>3, <1>4, <2>1
    <3> QED BY <1>1, <1>6, <1>8, <3>1
  <2>2. CASE i # L - b + 1
    <3>1. /\ i + 1 \in 1 .. L - b + 1 /\ b + i - 1 \in 1 .. n - 2
          /\ b + (i + 1) - 1 = (b + i - 1) + 1
      BY <1>2, <1>3, <1>4, <2>2
    <3>2. chain'[i + 1] = in_progress_stack[(b + i - 1) + 1] /\ chain'[i] = in_progress_stack[b + i - 1]
      BY <1>6, <3>1
    <3> QED BY <1>7, <3>1, <3>2
  <2> QED BY <2>1, <2>2
<1>10. ChainOK'
  <2>1. /\ Len(chain') > 1 /\ Len(chain') \in Nat /\ Len(chain') - 1 = L - b + 1
        /\ 1 \in 1 .. L - b + 1 /\ b + 1 - 1 = b
    BY <1>2, <1>3, <1>4, <1>6
  <2>2. chain'[1] = Child /\ Last(chain') = Child
    BY <1>4, <1>6, <2>1 DEF Last
  <2> QED BY <1>1, <1>9, <2>1, <2>2 DEF ChainOK, input
<1> QED BY <1>1, <1>3, <1>6, <1>10, VerdictStep DEF TypeOK

LEMMA RejectListsStep == ASSUME Inv, RejectLists PROVE Inv'
<1>1. /\ status = "running" /\ frames # <<>> /\ status' = "import"
      /\ fixities' \in {fixities, fixities \cup {Top.key}}
      /\ UNCHANGED <<input, scan, files, resolved, progress, frames, chain, program>>
  BY DEF RejectLists, Imported, At
<1>2. TypeOK /\ Top.key \in Keys
  BY <1>1, Running
<1>3. fixities \subseteq fixities' /\ fixities' \subseteq Mods \cup {Root} /\ chain' \in Seq(Mods)
  BY <1>1, <1>2 DEF TypeOK, Keys
<1>4. ChainOK'
  BY <1>1 DEF ChainOK
<1> QED BY <1>1, <1>3, <1>4, VerdictStep

LEMMA RejectChainsStep == ASSUME Inv, RejectChains PROVE Inv'
<1>1. /\ status = "running" /\ frames # <<>> /\ status' \in {"syntax", "import"}
      /\ UNCHANGED <<input, scan, files, resolved, progress, fixities, frames, chain, program>>
  BY DEF RejectChains, At
<1>2. fixities' \subseteq Mods \cup {Root} /\ chain' \in Seq(Mods)
  BY <1>1 DEF Inv, TypeOK
<1>3. ChainOK'
  BY <1>1 DEF ChainOK
<1> QED BY <1>1, <1>2, <1>3, VerdictStep

\* The scan has loaded what can be loaded of an activation's imports.
LEMMA ImportsScanned ==
    ASSUME Inv, Importing
    PROVE  Loads(Child) => Child \in loaded
<1>1. /\ status = "running" /\ frames # <<>> /\ Child \in ToSet(imports[Top.key])
  BY ChildType
<1>2. FrameOK(Top) /\ ~Scanning
  BY <1>1, Running
<1>3. Top.key \in loaded \cup {Root} /\ root_prefix # none
  BY <1>2 DEF FrameOK, Scanning
<1>4. Scanned /\ pending = <<>> /\ ToSet(<<>>) = {}
  BY <1>3, EmptySeq DEF Inv, Scanned, ToSet
<1>5. Child \in seen
  BY <1>1, <1>3, <1>4 DEF Scanned
<1> QED BY <1>4, <1>5 DEF Scanned

LEMMA LoadFailsStep == ASSUME Inv, LoadFails PROVE Inv'
<1> USE DEF input, scan, verdict
<1>1. /\ status = "running" /\ frames # <<>> /\ Child \in Mods /\ ~Loads(Child)
      /\ in_progress' = in_progress \cup {Child}
      /\ in_progress_stack' = Append(in_progress_stack, Child)
      /\ LoadModule(Child) /\ status' = "import"
      /\ UNCHANGED <<input, scan, resolved, fixities, chain, program, frames>>
  BY ChildType DEF LoadFails, Visit
<1>2. TypeOK /\ Scanned /\ ~Scanning
  BY <1>1, Running DEF Inv
<1>3. loaded' = loaded /\ sources \subseteq sources' /\ sources' \subseteq Mods
  BY <1>1, <1>2 DEF LoadModule, TypeOK
<1>4. in_progress_stack' \in Seq(Mods)
  BY <1>1, <1>2, AppendProperties DEF TypeOK
<1>5. TypeOK'
  BY <1>1, <1>2, <1>3, <1>4 DEF TypeOK
<1>6. Scanned'
  BY <1>1, <1>2, <1>3 DEF Scanned, Loads
<1>7. Path'
  BY <1>1, <1>2 DEF Inv, Path, Scanning, StackIsPath
<1>8. FramesOK'
  <2> SUFFICES ASSUME NEW i \in 1 .. Len(frames), NEW g, g = frames[i] PROVE FrameOK(g)'
    BY <1>1, FramesNext
  <2>1. FrameOK(g)
    BY DEF Inv, FramesOK
  <2> QED BY <1>1, <1>3, <2>1, FrameKept
<1>9. ResolvedOK' /\ ChainOK'
  BY <1>1 DEF Inv, ResolvedOK, ChainOK
<1> QED BY <1>5, <1>6, <1>7, <1>8, <1>9 DEF Inv

LEMMA EnterStep == ASSUME Inv, Enter PROVE Inv'
<1> USE DEF input, scan, verdict
<1>a. PICK k, f, n : k = Child /\ f = Frame(k) /\ n = Len(frames)
  OBVIOUS
<1>1. /\ status = "running" /\ frames # <<>> /\ Top.at = "imports" /\ k \in Mods
      /\ k = imports[Top.key][Top.next] /\ Top.next \in 1 .. Len(imports[Top.key])
      /\ k \notin DOMAIN resolved /\ k \notin in_progress /\ k \in loaded
      /\ in_progress' = in_progress \cup {k}
      /\ in_progress_stack' = Append(in_progress_stack, k)
      /\ LoadModule(k) /\ frames' = Append(frames, f)
      /\ UNCHANGED <<input, scan, resolved, fixities, verdict>>
  BY <1>a, ChildType, ImportsScanned DEF Enter, Visit
<1>2. /\ TypeOK /\ Scanned /\ ~Scanning /\ StackIsPath
      /\ n \in Nat \ {0} /\ Top = frames[n] /\ Top.key \in Keys
  BY <1>a, <1>1, Running DEF Inv, Path
<1>3. loaded' = loaded /\ sources' = sources
  BY <1>1, <1>2 DEF LoadModule
<1>4. f \in Frames /\ FrameOK(f) /\ f.next = 1 /\ f.key = k /\ 1 \in 1 .. Len(imports[k]) + 1
  BY <1>a, <1>1, <1>2, NewFrame DEF Keys, Frame
<1>5. /\ frames' \in Seq(Frames) /\ Len(frames') = n + 1 /\ frames' # <<>>
      /\ \A i \in 1 .. n : frames'[i] = frames[i]
      /\ frames'[n + 1] = f
  <2>1. frames \in Seq(Frames) /\ frames' = Append(frames, f) /\ f \in Frames /\ Len(frames) = n
    BY <1>a, <1>1, <1>2, <1>4 DEF TypeOK
  <2>2. /\ frames' \in Seq(Frames) /\ frames' # <<>> /\ Len(frames') = Len(frames) + 1
        /\ \A i \in 1 .. Len(frames) : frames'[i] = frames[i]
        /\ frames'[Len(frames) + 1] = f
    BY <2>1, AppendProperties
  <2> QED BY <2>1, <2>2
<1>6. /\ in_progress_stack \in Seq(Mods) /\ Len(in_progress_stack) = n - 1
      /\ DOMAIN in_progress_stack = 1 .. n - 1
      /\ \A i \in 1 .. n - 1 : in_progress_stack[i] = frames[i + 1].key
      /\ in_progress = ToSet(in_progress_stack) /\ IsInjective(in_progress_stack)
      /\ frames[1].key = Root /\ in_progress \cap DOMAIN resolved = {}
  BY <1>a, <1>1, OpenModules
<1>7. /\ in_progress_stack' \in Seq(Mods) /\ Len(in_progress_stack') = n
      /\ DOMAIN in_progress_stack' = 1 .. n
      /\ \A i \in 1 .. n - 1 : in_progress_stack'[i] = in_progress_stack[i]
      /\ in_progress_stack'[n] = k
      /\ ToSet(in_progress_stack') = in_progress'
  <2>1. n - 1 + 1 = n
    BY <1>2
  <2> QED BY <1>1, <1>6, <2>1, AppendProperties, ElementsAppend, LenProperties
<1>8. \A i \in 1 .. n + 1 : i \in 1 .. n \/ i = n + 1
  BY <1>2
<1>9. \A i \in 1 .. n : (i \in 1 .. n - 1 /\ i + 1 \in 1 .. n) \/ i = n
  BY <1>2
<1>10. TypeOK'
  <2>1. \A i \in 1 .. n + 1 : frames'[i].next \in 1 .. Len(imports[frames'[i].key]) + 1
    BY <1>a, <1>2, <1>4, <1>5, <1>8 DEF TypeOK
  <2> QED BY <1>1, <1>2, <1>3, <1>5, <1>7, <2>1 DEF TypeOK
<1>11. Scanned'
  BY <1>1, <1>2, <1>3 DEF Scanned, Loads
<1>12. StackIsPath'
  <2>1. \A i \in 1 .. n : in_progress_stack'[i] = frames'[i + 1].key
    <3> SUFFICES ASSUME NEW i \in 1 .. n PROVE in_progress_stack'[i] = frames'[i + 1].key
      OBVIOUS
    <3>1. CASE i = n
      BY <1>4, <1>5, <1>7, <3>1
    <3>2. CASE i \in 1 .. n - 1 /\ i + 1 \in 1 .. n
      BY <1>5, <1>6, <1>7, <3>2
    <3> QED BY <1>9, <3>1, <3>2
  <2>2. in_progress_stack' = [i \in 1 .. n |-> frames'[i + 1].key]
    BY <1>7, <2>1, SeqIsFunction
  <2>3. frames'[1].key = Root /\ 1 \in 1 .. n
    BY <1>2, <1>5, <1>6
  <2>4. ASSUME NEW i \in 1 .. n
        PROVE  /\ frames'[i].at = "imports"
               /\ frames'[i + 1].key = imports[frames'[i].key][frames'[i].next]
    <3>1. CASE i = n
      BY <1>1, <1>2, <1>4, <1>5, <3>1
    <3>2. CASE i \in 1 .. n - 1 /\ i + 1 \in 1 .. n
      BY <1>a, <1>1, <1>2, <1>5, <3>2 DEF StackIsPath
    <3> QED BY <1>9, <3>1, <3>2
  <2>5. in_progress' \cap (DOMAIN resolved)' = {}
    BY <1>1, <1>6
  <2>6. Len(frames') - 1 = n
    BY <1>2, <1>5
  <2> QED BY <1>1, <1>7, <2>2, <2>3, <2>4, <2>5, <2>6 DEF StackIsPath
<1>13. IsInjective(in_progress_stack')
  <2>1. \A i \in 1 .. n - 1 : in_progress_stack[i] # k
    BY <1>1, <1>6 DEF ToSet
  <2> SUFFICES ASSUME NEW i \in 1 .. n, NEW j \in 1 .. n, in_progress_stack'[i] = in_progress_stack'[j]
               PROVE  i = j
    BY <1>7 DEF IsInjective
  <2>2. CASE i \in 1 .. n - 1 /\ j \in 1 .. n - 1
    BY <1>6, <1>7, <2>2 DEF IsInjective
  <2>3. CASE i = n /\ j \in 1 .. n - 1
    BY <1>7, <2>1, <2>3
  <2>4. CASE i \in 1 .. n - 1 /\ j = n
    BY <1>7, <2>1, <2>4
  <2> QED BY <1>9, <2>2, <2>3, <2>4
<1>14. \A i \in 1 .. n : frames'[i].next <= Len(imports[frames'[i].key])
  <2> SUFFICES ASSUME NEW i \in 1 .. n PROVE frames'[i].next <= Len(imports[frames'[i].key])
    OBVIOUS
  <2>1. CASE i = n
    BY <1>1, <1>2, <1>5, <2>1, ImportsType
  <2>2. CASE i \in 1 .. n - 1
    BY <1>a, <1>5, <2>2 DEF Inv, Path
  <2> QED BY <1>9, <2>1, <2>2
<1>15. Path'
  <2>1. Len(frames') - 1 = n
    BY <1>2, <1>5
  <2> QED BY <1>1, <1>2, <1>5, <1>12, <1>13, <1>14, <2>1 DEF Path, Scanning
<1>16. FramesOK'
  <2> SUFFICES ASSUME NEW i \in 1 .. n + 1, NEW g, g = frames'[i] PROVE FrameOK(g)'
    BY <1>5, FramesNext
  <2>1. FrameOK(g)
    BY <1>a, <1>4, <1>5, <1>8 DEF Inv, FramesOK
  <2> QED BY <1>1, <1>3, <2>1, FrameKept
<1>17. ResolvedOK' /\ ChainOK'
  BY <1>1 DEF Inv, ResolvedOK, ChainOK
<1> QED BY <1>10, <1>11, <1>15, <1>16, <1>17 DEF Inv

\* The merged origins and the module itself, when nothing is left to merge.
LEMMA RegionFacts ==
    ASSUME Inv, At("merge"), Top.spans = <<>>
    PROVE  /\ Top.merged \in Seq(Mods) /\ Region \in Seq(Keys) /\ Region # <<>>
           /\ Len(Region) = Len(Top.merged) + 1
           /\ \A i \in 1 .. Len(Top.merged) : Region[i] = Top.merged[i]
           /\ Last(Region) = Top.key /\ OrderedIn(Region, imports)
           /\ ToSet(Region) = ToSet(Top.merged) \cup {Top.key}
           /\ ToSet(Top.merged) \subseteq DOMAIN resolved /\ Top.key \notin DOMAIN resolved
<1>a. PICK g, k, n, R : g = Top.merged /\ k = Top.key /\ n = Len(g) /\ R = Region
  OBVIOUS
<1>1. status = "running" /\ frames # <<>> /\ Top.at = "merge"
  BY DEF At
<1>2. /\ TypeOK /\ Top \in Frames /\ k \in Keys /\ FrameOK(Top)
      /\ Len(frames) \in Nat \ {0} /\ Top = frames[Len(frames)]
  BY <1>a, <1>1, Running
<1>3. g \in Seq(Mods) /\ g \in Seq(Keys) /\ n \in Nat /\ Gathered(Top) = ToSet(g)
  <2>1. g \in Seq(Mods) /\ ToSet(<<>>) = {}
    BY <1>a, <1>2 DEF Frames, ToSet
  <2>2. g \in Seq(Keys)
    BY <2>1, SeqMonotonic DEF Keys
  <2> QED BY <1>a, <2>1, <2>2, LenProperties DEF Gathered
<1>4. /\ Top.key = k /\ ToSet(g) \subseteq DOMAIN resolved /\ IsInjective(g) /\ MergedClosed(Top)
      /\ AllWanted(Top) /\ AllTaken(Top) /\ Top.next = Len(imports[k]) + 1
      /\ k \in loaded \cup {Root}
  BY <1>a, <1>1, <1>2, <1>3 DEF FrameOK, PhaseOK
<1>5. k \notin DOMAIN resolved
  <2>1. CASE Len(frames) = 1
    BY <1>1, <1>2, <1>4, <2>1, OpenModules, RootAssumption DEF TypeOK
  <2>2. CASE Len(frames) # 1
    <3>1. Len(frames) - 1 \in 1 .. Len(frames) - 1 /\ Len(frames) - 1 + 1 = Len(frames)
      <4>1. PICK e \in Nat \ {0, 1} : e = Len(frames)
        BY <1>2, <2>2
      <4>2. e - 1 \in 1 .. e - 1 /\ e - 1 + 1 = e
        OBVIOUS
      <4> QED BY <4>1, <4>2
    <3>2. k \in in_progress
      BY <1>1, <1>2, <1>4, <3>1, OpenModules DEF ToSet
    <3> QED BY <1>1, <3>2, OpenModules
  <2> QED BY <2>1, <2>2
<1>6. /\ R \in Seq(Keys) /\ R # <<>> /\ Len(R) = n + 1 /\ R[n + 1] = k
      /\ \A i \in 1 .. n : R[i] = g[i]
      /\ ToSet(R) = ToSet(g) \cup {k}
  BY <1>a, <1>2, <1>3, AppendProperties, ElementsAppend DEF Region
<1>7. Last(R) = k
  BY <1>6 DEF Last
<1>8. /\ \A i \in 1 .. n : g[i] \in ToSet(g) /\ g[i] # k
      /\ \A x \in ToSet(g) : \E i \in 1 .. n : g[i] = x
      /\ DOMAIN g = 1 .. n /\ DOMAIN R = 1 .. n + 1
  <2>1. /\ \A i \in 1 .. n : g[i] \in ToSet(g)
        /\ \A x \in ToSet(g) : \E i \in 1 .. n : g[i] = x
    BY <1>a, <1>3, Elements
  <2>2. DOMAIN g = 1 .. n /\ DOMAIN R = 1 .. n + 1
    BY <1>a, <1>3, <1>6, LenProperties
  <2> QED BY <1>4, <1>5, <2>1, <2>2
<1>9. \A i \in 1 .. n + 1 : i \in 1 .. n \/ i = n + 1
  BY <1>3
<1>10. \A i \in 1 .. n : \A c \in ToSet(imports[g[i]]) : \E j \in 1 .. i - 1 : g[j] = c
  BY <1>a, <1>4 DEF MergedClosed
<1>11. IsInjective(R)
  <2> SUFFICES ASSUME NEW i \in 1 .. n + 1, NEW j \in 1 .. n + 1, R[i] = R[j] PROVE i = j
    BY <1>8 DEF IsInjective
  <2>1. CASE i \in 1 .. n /\ j \in 1 .. n
    BY <1>4, <1>6, <1>8, <2>1 DEF IsInjective
  <2>2. CASE i \in 1 .. n /\ j = n + 1
    BY <1>6, <1>8, <2>2
  <2>3. CASE i = n + 1 /\ j \in 1 .. n
    BY <1>6, <1>8, <2>3
  <2> QED BY <1>9, <2>1, <2>2, <2>3
<1>12. ASSUME NEW i \in 1 .. n + 1, NEW c \in ToSet(imports[R[i]])
       PROVE  \E j \in 1 .. i - 1 : R[j] = c
  <2>1. CASE i \in 1 .. n
    <3>1. PICK j \in 1 .. i - 1 : g[j] = c
      BY <1>6, <1>10, <1>12, <2>1
    <3>2. j \in 1 .. n
      BY <1>3, <2>1
    <3> QED BY <1>6, <3>1, <3>2
  <2>2. CASE i = n + 1
    <3>1. c \in ToSet(imports[k])
      BY <1>6, <1>12, <2>2
    <3>2. PICK j \in 1 .. Len(imports[k]) : imports[k][j] = c
      BY <1>2, <3>1, ImportsType
    <3>3. j \in 1 .. Top.next - 1
      BY <1>2, <1>4, <3>2, ImportsType
    <3>4. c \in ToSet(g)
      BY <1>3, <1>4, <3>2, <3>3 DEF AllTaken
    <3>5. PICK m \in 1 .. n : g[m] = c
      BY <1>8, <3>4
    <3>6. m \in 1 .. i - 1
      BY <1>3, <2>2
    <3> QED BY <1>6, <3>5, <3>6
  <2> QED BY <1>9, <2>1, <2>2
<1>13. ASSUME NEW i \in 1 .. n
       PROVE  \E j \in i + 1 .. n + 1 : R[i] \in ToSet(imports[R[j]])
  <2>1. R[i] = g[i] /\ g[i] \in ToSet(g)
    BY <1>6, <1>8
  <2>2. CASE g[i] \in ToSet(imports[k])
    <3>1. n + 1 \in i + 1 .. n + 1
      BY <1>3
    <3> QED BY <1>6, <2>1, <2>2, <3>1
  <2>3. ASSUME NEW y \in ToSet(g), g[i] \in ToSet(imports[y])
        PROVE  \E j \in i + 1 .. n + 1 : R[i] \in ToSet(imports[R[j]])
    <3>1. PICK j \in 1 .. n : g[j] = y
      BY <1>8
    <3>2. PICK m \in 1 .. j - 1 : g[m] = g[i]
      BY <1>10, <2>3, <3>1
    <3>3. m = i
      <4>1. m \in 1 .. n
        BY <1>3, <3>1
      <4> QED BY <1>4, <1>8, <3>2, <4>1 DEF IsInjective
    <3>4. j \in i + 1 .. n + 1
      BY <1>3, <3>1, <3>3
    <3> QED BY <1>6, <2>1, <2>3, <3>1, <3>4
  <2>4. g[i] \in ToSet(imports[k]) \/ \E y \in ToSet(g) : g[i] \in ToSet(imports[y])
    BY <1>3, <1>4, <2>1 DEF AllWanted
  <2> QED BY <2>2, <2>3, <2>4
<1>14. OrderedIn(R, imports)
  <2>1. Len(R) - 1 = n
    BY <1>3, <1>6
  <2> QED BY <1>6, <1>11, <1>12, <1>13, <2>1 DEF OrderedIn
<1> QED BY <1>a, <1>3, <1>4, <1>5, <1>6, <1>7, <1>14

LEMMA ReturnStep == ASSUME Inv, Return PROVE Inv'
<1> USE DEF input, scan, files, verdict
<1>a. PICK n, k, R, st : n = Len(frames) /\ k = Top.key /\ R = Region /\ st = in_progress_stack
  OBVIOUS
<1>1. /\ status = "running" /\ frames # <<>> /\ Top.at = "merge" /\ Top.spans = <<>> /\ k # Root
      /\ At("merge") /\ Top.key = k
      /\ resolved' = [z \in DOMAIN resolved \cup {k} |-> IF z = k THEN R ELSE resolved[z]]
      /\ in_progress' = in_progress \ {k} /\ in_progress_stack' = Front(st)
      /\ frames' = Front(frames)
      /\ UNCHANGED <<input, scan, files, fixities, verdict>>
  BY <1>a DEF Return, At, Put
<1>2. /\ TypeOK /\ Scanned /\ StackIsPath /\ Top \in Frames /\ k \in Keys /\ FrameOK(Top)
      /\ n \in Nat \ {0} /\ Top = frames[n] /\ ~Scanning
  BY <1>a, <1>1, Running DEF Inv, Path
<1>3. /\ st \in Seq(Mods) /\ Len(st) = n - 1
      /\ DOMAIN st = 1 .. n - 1
      /\ \A i \in 1 .. n - 1 : st[i] = frames[i + 1].key
      /\ in_progress = ToSet(st) /\ IsInjective(st)
      /\ frames[1].key = Root /\ in_progress \cap DOMAIN resolved = {}
  BY <1>a, <1>1, OpenModules
<1>4. n \in Nat \ {0, 1} /\ k \in Mods /\ k \in loaded
  BY <1>1, <1>2, <1>3 DEF Keys, FrameOK
<1>5. /\ frames' \in Seq(Frames) /\ Len(frames') = n - 1
      /\ \A i \in 1 .. n - 1 : frames'[i] = frames[i]
  <2>1. frames \in Seq(Frames)
    BY <1>2 DEF TypeOK
  <2> QED BY <1>a, <1>1, <2>1, FrontLast
<1>6. n - 1 \in 1 .. n - 1 /\ n - 1 + 1 = n /\ n - 1 - 1 = n - 2
  BY <1>4
<1>7. /\ frames' # <<>> /\ st # <<>> /\ st[n - 1] = k
      /\ Last(st) = k
  <2>1. frames' # <<>> /\ st # <<>>
    BY <1>3, <1>4, <1>5, EmptySeq
  <2> QED BY <1>1, <1>2, <1>3, <1>6, <2>1 DEF Last
<1>8. /\ in_progress_stack' \in Seq(Mods) /\ Len(in_progress_stack') = n - 2
      /\ DOMAIN in_progress_stack' = 1 .. n - 2
      /\ \A i \in 1 .. n - 2 : in_progress_stack'[i] = st[i]
  <2>1. /\ Front(st) \in Seq(Mods) /\ Len(Front(st)) = n - 2
        /\ \A i \in 1 .. n - 2 : Front(st)[i] = st[i]
    <3>1. /\ Front(st) \in Seq(Mods) /\ Len(Front(st)) = Len(st) - 1
          /\ \A i \in 1 .. Len(st) - 1 : Front(st)[i] = st[i]
      BY <1>3, <1>7, FrontLast
    <3>2. Len(st) - 1 = n - 2
      BY <1>3, <1>6
    <3> QED BY <3>1, <3>2
  <2> QED BY <1>1, <2>1, LenProperties
<1>9. in_progress' = ToSet(in_progress_stack')
  <2>1. ToSet(st) = ToSet(Front(st)) \cup {k}
    BY <1>3, <1>7, ElementsFront
  <2>2. k \notin ToSet(Front(st))
    <3> SUFFICES ASSUME NEW i \in 1 .. n - 2, in_progress_stack'[i] = k PROVE FALSE
      BY <1>1, <1>8 DEF ToSet
    <3>1. i \in 1 .. n - 1 /\ n - 1 \in 1 .. n - 1 /\ i # n - 1
      BY <1>4
    <3> QED BY <1>3, <1>7, <1>8, <3>1 DEF IsInjective
  <2> QED BY <1>1, <1>3, <2>1, <2>2
<1>10. /\ Top.merged \in Seq(Mods) /\ Region # <<>>
       /\ Last(Region) = Top.key /\ OrderedIn(Region, imports)
       /\ ToSet(Region) = ToSet(Top.merged) \cup {Top.key}
       /\ ToSet(Top.merged) \subseteq DOMAIN resolved /\ Top.key \notin DOMAIN resolved
  BY <1>1, RegionFacts
<1>11. R \in Seq(Mods)
  BY <1>a, <1>4, <1>10, AppendProperties DEF Region
<1>12. DOMAIN resolved' = DOMAIN resolved \cup {k}
  BY <1>1
<1>13. TypeOK'
  <2>1. \A i \in 1 .. n - 1 : frames'[i].next \in 1 .. Len(imports[frames'[i].key]) + 1
    BY <1>a, <1>2, <1>5 DEF TypeOK
  <2>2. \A m \in DOMAIN resolved' : resolved'[m] \in Seq(Mods)
    BY <1>1, <1>2, <1>11 DEF TypeOK
  <2>3. DOMAIN resolved' \subseteq loaded /\ in_progress' \subseteq Mods
    BY <1>1, <1>2, <1>4, <1>12 DEF TypeOK
  <2>4. frames' \in Seq(Frames) /\ Len(frames') = n - 1 /\ in_progress_stack' \in Seq(Mods)
    BY <1>5, <1>8
  <2> QED BY <1>1, <1>2, <2>1, <2>2, <2>3, <2>4 DEF TypeOK
<1>14. Scanned'
  BY <1>1, <1>2 DEF Scanned, Loads
<1>15. \A i \in 1 .. n - 2 : i \in 1 .. n - 1 /\ i + 1 \in 1 .. n - 1
  BY <1>4
<1>16. StackIsPath'
  <2>1. \A i \in 1 .. n - 2 : in_progress_stack'[i] = frames'[i + 1].key
    BY <1>3, <1>5, <1>8, <1>15
  <2>2. in_progress_stack' = [i \in 1 .. n - 2 |-> frames'[i + 1].key]
    BY <1>8, <2>1, SeqIsFunction
  <2>3. frames'[1].key = Root
    BY <1>3, <1>4, <1>5
  <2>4. \A i \in 1 .. n - 2 :
          /\ frames'[i].at = "imports"
          /\ frames'[i + 1].key = imports[frames'[i].key][frames'[i].next]
    BY <1>a, <1>1, <1>2, <1>5, <1>15 DEF StackIsPath
  <2>5. in_progress' \cap DOMAIN resolved' = {}
    BY <1>1, <1>3, <1>12
  <2>6. Len(frames') - 1 = n - 2
    BY <1>5, <1>6
  <2> QED BY <1>1, <1>9, <2>2, <2>3, <2>4, <2>5, <2>6 DEF StackIsPath
<1>17. IsInjective(in_progress_stack')
  BY <1>3, <1>8, <1>15 DEF IsInjective
<1>18. Path'
  <2>1. Len(frames') - 1 = n - 2
    BY <1>5, <1>6
  <2>2. \A i \in 1 .. n - 2 : frames'[i].next <= Len(imports[frames'[i].key])
    BY <1>a, <1>5, <1>15 DEF Inv, Path
  <2>3. root_prefix' # none
    BY <1>1, <1>2 DEF Scanning
  <2> QED BY <1>1, <1>7, <1>16, <1>17, <2>1, <2>2, <2>3 DEF Path, Scanning
<1>19. FramesOK'
  <2> SUFFICES ASSUME NEW i \in 1 .. n - 1, NEW g, g = frames'[i] PROVE FrameOK(g)'
    BY <1>5, FramesNext
  <2>1. i \in 1 .. n
    BY <1>4
  <2>2. FrameOK(g)
    BY <1>a, <1>5, <2>1 DEF Inv, FramesOK
  <2> QED BY <1>1, <1>12, <2>2, FrameKept
<1>20. ResolvedOK'
  <2>1. k \in fixities /\ flaw[k] \in {"none", "export"}
    <3>1. k \in fixities /\ flaw[k] # "import" /\ flaw[k] # "syntax"
      BY <1>1, <1>2 DEF FrameOK, PhaseOK
    <3>2. flaw[k] \notin {"missing", "unparsable"}
      BY <1>2, <1>4 DEF Scanned
    <3>3. flaw[k] \in {"none", "missing", "unparsable", "import", "syntax", "export"}
      BY <1>2, FlawsAssumption DEF TypeOK, Keys
    <3> QED BY <3>1, <3>2, <3>3
  <2> SUFFICES ASSUME NEW m \in DOMAIN resolved'
               PROVE  /\ OrderedIn(resolved'[m], imports') /\ Last(resolved'[m]) = m
                      /\ resolved'[m] # <<>> /\ ToSet(resolved'[m]) \subseteq DOMAIN resolved'
                      /\ m \in fixities' /\ flaw'[m] \in {"none", "export"}
    BY DEF ResolvedOK
  <2>2. CASE m = k
    <3>1. resolved'[m] = R /\ Top.key = k /\ R = Region
      BY <1>a, <1>1, <2>2
    <3> QED BY <1>1, <1>10, <1>12, <2>1, <2>2, <3>1
  <2>3. CASE m # k
    <3>1. m \in DOMAIN resolved /\ resolved'[m] = resolved[m]
      BY <1>1, <2>3
    <3> QED BY <1>1, <1>12, <3>1 DEF Inv, ResolvedOK
  <2> QED BY <2>2, <2>3
<1>21. ChainOK'
  BY <1>1 DEF Inv, ChainOK
<1> QED BY <1>13, <1>14, <1>18, <1>19, <1>20, <1>21 DEF Inv

\* Finish and RejectExports drop the entry module's activation.
LEMMA CloseStep ==
    ASSUME Inv, status' \in {"done", "import"}, frames' = <<>>,
           program' \in Seq(Mods \cup {Root}), ~Scanning,
           UNCHANGED <<input, scan, files, resolved, progress, fixities, chain>>
    PROVE  Inv'
<1> USE DEF input, scan, files, progress
<1>1. <<>> \in Seq(Frames) /\ Len(<<>>) = 0
  BY EmptySeq
<1>2. TypeOK'
  BY <1>1 DEF Inv, TypeOK
<1>3. Scanned'
  BY DEF Inv, Scanned, Loads
<1>4. Path'
  BY <1>1 DEF Inv, Path, StackIsPath, Scanning
<1>5. FramesOK'
  BY <1>1 DEF FramesOK
<1>6. ResolvedOK' /\ ChainOK'
  BY DEF Inv, ResolvedOK, ChainOK
<1> QED BY <1>2, <1>3, <1>4, <1>5, <1>6 DEF Inv

LEMMA FinishStep == ASSUME Inv, Finish \/ RejectExports PROVE Inv'
<1>1. /\ At("merge") /\ Top.spans = <<>> /\ frames # <<>> /\ status = "running"
      /\ status' \in {"done", "import"} /\ frames' = <<>> /\ program' \in {Region, program}
      /\ UNCHANGED <<input, scan, files, resolved, progress, fixities, chain>>
  BY DEF Finish, RejectExports, At
<1>2. Region \in Seq(Keys) /\ program \in Seq(Keys)
  BY <1>1, RegionFacts DEF Inv, TypeOK, Keys
<1>3. program' \in Seq(Mods \cup {Root})
  BY <1>1, <1>2 DEF Keys
<1>4. ~Scanning
  BY <1>1, Running
<1> QED BY <1>1, <1>3, <1>4, CloseStep

LEMMA UnwindStep == ASSUME Inv, Unwind PROVE Inv'
<1> USE DEF input, scan, files, verdict
<1>1. /\ status # "running" /\ frames # <<>>
      /\ in_progress' = in_progress \ {Top.key}
      /\ in_progress_stack' \in {in_progress_stack, Front(in_progress_stack)}
      /\ frames' = Front(frames)
      /\ UNCHANGED <<input, scan, files, resolved, fixities, verdict>>
  BY DEF Unwind
<1>2. TypeOK /\ ~Scanning
  BY <1>1 DEF Inv, Path
<1>3. /\ frames' \in Seq(Frames) /\ Len(frames') = Len(frames) - 1
      /\ \A i \in 1 .. Len(frames) - 1 : frames'[i] = frames[i]
      /\ Len(frames) \in Nat \ {0}
  <2>1. frames \in Seq(Frames)
    BY <1>2 DEF TypeOK
  <2> QED BY <1>1, <2>1, FrontLast
<1>4. in_progress_stack' \in Seq(Mods)
  <2>1. in_progress_stack \in Seq(Mods)
    BY <1>2 DEF TypeOK
  <2>2. CASE in_progress_stack # <<>>
    BY <1>1, <2>1, <2>2, FrontLast
  <2>3. CASE in_progress_stack = <<>>
    <3>1. Len(<<>>) = 0 /\ <<>> \in Seq(Mods)
      BY EmptySeq
    <3>2. Front(<<>>) = <<>>
      <4>1. 0 - 1 \in Int /\ 0 - 1 < 1
        OBVIOUS
      <4> QED BY <3>1, <4>1, SubSeqEmpty DEF Front
    <3> QED BY <1>1, <2>3, <3>1, <3>2
  <2> QED BY <2>2, <2>3
<1>5. \A i \in 1 .. Len(frames') : i \in 1 .. Len(frames) /\ frames'[i] = frames[i]
  BY <1>3
<1>6. TypeOK'
  <2>1. \A i \in 1 .. Len(frames') : frames'[i].next \in 1 .. Len(imports[frames'[i].key]) + 1
    BY <1>2, <1>5 DEF TypeOK
  <2>2. in_progress' \subseteq Mods
    BY <1>1, <1>2 DEF TypeOK
  <2> QED BY <1>1, <1>2, <1>3, <1>4, <2>1, <2>2 DEF TypeOK
<1>7. Scanned'
  BY <1>1 DEF Inv, Scanned, Loads
<1>8. Path'
  <2>1. \A i \in 1 .. Len(frames') - 1 : i \in 1 .. Len(frames) - 1 /\ i \in 1 .. Len(frames')
    BY <1>3
  <2>2. \A i \in 1 .. Len(frames') - 1 : frames'[i].next <= Len(imports[frames'[i].key])
    BY <1>5, <2>1 DEF Inv, Path
  <2> QED BY <1>1, <1>2, <2>2 DEF Path, StackIsPath, Scanning
<1>9. FramesOK'
  <2> SUFFICES ASSUME NEW i \in 1 .. Len(frames'), NEW g, g = frames'[i] PROVE FrameOK(g)'
    BY FramesNext
  <2>1. FrameOK(g)
    BY <1>5 DEF Inv, FramesOK
  <2> QED BY <1>1, <2>1, FrameKept
<1>10. ResolvedOK' /\ ChainOK'
  BY <1>1 DEF Inv, ResolvedOK, ChainOK
<1> QED BY <1>6, <1>7, <1>8, <1>9, <1>10 DEF Inv

-------------------------------------------------------------------------------
(* The invariant holds *)

LEMMA Inductive == Inv /\ [Next]_vars => Inv'
<1> SUFFICES ASSUME Inv, [Next]_vars PROVE Inv'
  OBVIOUS
<1>1. CASE BeginProgram
  BY <1>1, ScanSeenStep, ScanLoadStep, BeginResolveStep DEF BeginProgram
<1>2. CASE Phase1
  BY <1>2, UseResolvedStep, FindCycleStep, EnterStep, LoadFailsStep DEF Phase1
<1>3. CASE Phase2to8
  BY <1>3, DeclareStep, RejectListsStep, GroupStep, RejectChainsStep, MergeSpanStep,
     ReturnStep, FinishStep DEF Phase2to8
<1>4. CASE Unwind
  BY <1>4, UnwindStep
<1>5. CASE UNCHANGED vars
  <2>1. \A f : FrameOK(f)' <=> FrameOK(f)
    BY <1>5 DEF vars, FrameOK, Gathered, MergedClosed, SpansClosed, AllWanted, AllTaken, PhaseOK
  <2>2. TypeOK' /\ Scanned'
    BY <1>5 DEF vars, Inv, TypeOK, Scanned, Loads
  <2>3. Path'
    BY <1>5 DEF vars, Inv, Path, StackIsPath, Scanning
  <2>4. FramesOK'
    BY <1>5, <2>1 DEF vars, Inv, FramesOK
  <2>5. ResolvedOK' /\ ChainOK'
    BY <1>5 DEF vars, Inv, ResolvedOK, ChainOK
  <2> QED BY <2>2, <2>3, <2>4, <2>5 DEF Inv
<1> QED BY <1>1, <1>2, <1>3, <1>4, <1>5 DEF Next

LEMMA InvHolds == Spec => []Inv
<1>1. Init => Inv
  BY Initial
<1> QED BY <1>1, Inductive, PTL DEF Spec

LEMMA OrderedAbstract ==
    ASSUME NEW S, NEW r \in Seq(S), OrderedIn(r, imports)
    PROVE  Abstract!Ordered(r)
<1>1. DOMAIN r = 1 .. Len(r)
  BY LenProperties
<1> QED BY <1>1 DEF OrderedIn, Abstract!Ordered, Abstract!Imports, Abstract!ToSet, ToSet,
                    Abstract!IsInjective, IsInjective

\* The loader's tables keep their shapes, and no activation's import cursor
\* passes the end of its list.
THEOREM TypeCorrect == Spec => []TypeOK
<1>1. Inv => TypeOK
  BY DEF Inv
<1> QED BY <1>1, InvHolds, PTL

\* in_progress, in_progress_stack and the open activations never disagree
\* while resolution runs, however deep the imports nest.
THEOREM StackMirrorsCalls == Spec => []StackIsPath
<1>1. Inv => StackIsPath
  BY DEF Inv, Path
<1> QED BY <1>1, InvHolds, PTL

\* The cycle in the error message is a cycle of the program's imports.
THEOREM CyclesAreReal == Spec => []ChainIsCycle
<1>1. Inv => ChainIsCycle
  BY DEF Inv, ChainOK, ChainIsCycle, Abstract!Imports, Abstract!ToSet, ToSet
<1> QED BY <1>1, InvHolds, PTL

\* Every cached region is a whole import closure, dependencies first, whatever
\* was resolved before it and however many edges share a dependency.
THEOREM RegionsStayOrdered == Spec => []RegionsOrdered
<1>1. Inv => RegionsOrdered
  <2> SUFFICES ASSUME Inv, NEW m \in DOMAIN resolved
               PROVE  Abstract!Ordered(resolved[m]) /\ Last(resolved[m]) = m
    BY DEF RegionsOrdered
  <2>1. OrderedIn(resolved[m], imports) /\ Last(resolved[m]) = m
    BY DEF Inv, ResolvedOK
  <2>2. resolved[m] \in Seq(Mods)
    BY DEF Inv, TypeOK
  <2> QED BY <2>1, <2>2, OrderedAbstract
<1> QED BY <1>1, InvHolds, PTL

\* Infix chains are grouped when the fixity of every operator in reach, the
\* module's own included, is known.
THEOREM FixitiesInReach == Spec => []FixitiesKnown
<1>1. Inv => FixitiesKnown
  <2> SUFFICES ASSUME Inv, At("group") PROVE ToSet(Top.spans) \cup {Top.key} \subseteq fixities
    BY DEF FixitiesKnown
  <2>1. status = "running" /\ frames # <<>> /\ Top.at = "group"
    BY DEF At
  <2>2. FrameOK(Top)
    BY <2>1, Running
  <2>3. Top.key \in fixities /\ ToSet(Top.spans) \subseteq DOMAIN resolved
    BY <2>1, <2>2 DEF FrameOK, PhaseOK, Gathered
  <2> QED BY <2>3 DEF Inv, ResolvedOK
<1> QED BY <1>1, InvHolds, PTL

\* The entry module's prefix is chosen once, and nothing loaded later takes it.
THEOREM PrefixStaysFresh == Spec => []PrefixFresh
<1>1. Inv => PrefixFresh
  BY DEF Inv, Scanned, PrefixFresh
<1> QED BY <1>1, InvHolds, PTL

-------------------------------------------------------------------------------
(* The loader implements ProgramOrder *)

LEMMA CycleRefines == ASSUME Inv, Inv', FindCycle PROVE Abstract!Next
<1>1. /\ status = "running" /\ status' = "cycle"
      /\ UNCHANGED <<imports, flaw, program>>
  BY DEF FindCycle, Importing, At, input
<1>2. PICK c : c = chain'
  OBVIOUS
<1>3. /\ c \in Seq(Mods) /\ Len(c) > 1 /\ c[1] = Last(c)
      /\ \A i \in 1 .. Len(c) - 1 : c[i + 1] \in ToSet(imports[c[i]])
  BY <1>1, <1>2 DEF Inv, TypeOK, ChainOK
<1>4. PICK n \in Nat \ {0, 1} : n = Len(c)
  BY <1>3, LenProperties
<1>5. /\ Last(c) = c[n] /\ 1 \in 1 .. n - 1 /\ 2 \in 1 .. n /\ 1 + 1 = 2
      /\ \A i \in 1 .. n : i = n \/ (i \in 1 .. n - 1 /\ i + 1 \in 1 .. n)
  BY <1>4 DEF Last
<1>6. /\ \A i \in 1 .. n : c[i] \in Mods /\ c[i] \in ToSet(c)
      /\ \A x \in ToSet(c) : x \in Mods /\ \E i \in 1 .. n : c[i] = x
  BY <1>3, <1>4, Elements
<1>7. \A m \in ToSet(c) : \E d \in ToSet(c) : d \in ToSet(imports[m])
  <2>1. \A i \in 1 .. n - 1 : c[i + 1] \in ToSet(imports[c[i]])
    BY <1>3, <1>4
  <2>2. \A i \in 1 .. n : \E j \in 1 .. n : c[j] \in ToSet(imports[c[i]])
    <3> SUFFICES ASSUME NEW i \in 1 .. n PROVE \E j \in 1 .. n : c[j] \in ToSet(imports[c[i]])
      OBVIOUS
    <3>1. CASE i = n
      <4>1. c[2] \in ToSet(imports[c[1]])
        BY <1>5, <2>1
      <4>2. c[i] = c[1]
        BY <1>3, <1>5, <3>1
      <4> QED BY <1>5, <4>1, <4>2
    <3>2. CASE i # n
      BY <1>5, <2>1, <3>2
    <3> QED BY <3>1, <3>2
  <2> SUFFICES ASSUME NEW i \in 1 .. n PROVE \E d \in ToSet(c) : d \in ToSet(imports[c[i]])
    BY <1>6
  <2> QED BY <1>6, <2>2
<1>8. ToSet(c) \in SUBSET Mods /\ ToSet(c) # {}
  BY <1>5, <1>6
<1>9. Abstract!Cyclic
  <2>1. PICK S : S = ToSet(c)
    OBVIOUS
  <2>2. \A m \in S : \E d \in S : Abstract!Imports(m, d)
    BY <1>7, <2>1 DEF Abstract!Imports, Abstract!ToSet, ToSet
  <2>3. S \in SUBSET Mods /\ S # {}
    BY <1>8, <2>1
  <2> QED BY <2>2, <2>3 DEF Abstract!Cyclic
<1> QED BY <1>1, <1>9 DEF Abstract!Next, Abstract!Reject

\* A rejection has its flaw.
LEMMA RejectRefines ==
    ASSUME Inv, LoadFails \/ RejectLists \/ RejectChains \/ RejectExports
    PROVE  Abstract!Next
<1> SUFFICES /\ status = "running" /\ UNCHANGED <<imports, flaw, program>>
             /\ \/ status' = "import" /\ \E m \in Mods \cup {Root} : flaw[m] # "none"
                \/ status' = "syntax" /\ flaw[Root] = "syntax"
  BY DEF Abstract!Next, Abstract!Reject
<1>1. CASE LoadFails
  <2>1. /\ status = "running" /\ status' = "import" /\ ~Loads(Child)
        /\ UNCHANGED <<imports, flaw, program>> /\ Importing
    BY <1>1 DEF LoadFails, Visit, Importing, At, input
  <2>2. Child \in Mods
    BY <2>1, ChildType
  <2>3. flaw[Child] # "none"
    BY <2>1 DEF Loads
  <2> QED BY <2>1, <2>2, <2>3
<1>2. CASE RejectLists \/ RejectChains
  <2>1. /\ status = "running" /\ frames # <<>> /\ UNCHANGED <<imports, flaw, program>>
        /\ \/ status' = "import" /\ flaw[Top.key] # "none"
           \/ status' = "syntax" /\ flaw[Top.key] = "syntax" /\ Top.key = Root
    BY <1>2 DEF RejectLists, RejectChains, Imported, At, input
  <2>2. Top.key \in Keys
    BY <2>1, Running
  <2> QED BY <2>1, <2>2 DEF Keys
<1>3. CASE RejectExports
  <2>1. /\ status = "running" /\ status' = "import" /\ Clashing
        /\ UNCHANGED <<imports, flaw, program>> /\ At("merge") /\ Top.spans = <<>>
    BY <1>3 DEF RejectExports, At, input
  <2>2. PICK m \in ToSet(Region) : flaw[m] = "export"
    BY <2>1 DEF Clashing
  <2>3. m \in Keys
    BY <2>1, <2>2, RegionFacts, Elements
  <2> QED BY <2>1, <2>2, <2>3 DEF Keys
<1> QED BY <1>1, <1>2, <1>3

LEMMA FinishRefines == ASSUME Inv, Finish PROVE Abstract!Next
<1>1. /\ At("merge") /\ Top.spans = <<>> /\ Top.key = Root /\ ~Clashing
      /\ status = "running" /\ status' = "done" /\ frames # <<>> /\ Top.at = "merge"
      /\ program' = Region /\ UNCHANGED <<imports, flaw>>
  BY DEF Finish, At, input
<1>2. PICK R : R = Region
  OBVIOUS
<1>3. /\ R \in Seq(Keys) /\ R # <<>> /\ Last(R) = Root /\ OrderedIn(R, imports)
      /\ ToSet(R) = ToSet(Top.merged) \cup {Root}
      /\ ToSet(Top.merged) \subseteq DOMAIN resolved
  BY <1>1, <1>2, RegionFacts
<1>4. Abstract!Ordered(R)
  BY <1>3, OrderedAbstract
<1>5. \A m \in ToSet(R) : flaw[m] = "none"
  <2>1. \A m \in ToSet(Top.merged) : flaw[m] \in {"none", "export"}
    BY <1>3 DEF Inv, ResolvedOK
  <2>2. flaw[Root] \in {"none", "export"}
    <3>1. flaw[Root] # "import" /\ flaw[Root] # "syntax"
      BY <1>1, Running DEF FrameOK, PhaseOK
    <3>2. flaw \in Flaws
      BY DEF Inv, TypeOK
    <3> QED BY <3>1, <3>2, FlawsAssumption
  <2>3. \A m \in ToSet(R) : flaw[m] # "export"
    BY <1>1, <1>2 DEF Clashing
  <2> QED BY <1>3, <2>1, <2>2, <2>3
<1>6. \A i \in DOMAIN R : R[i] \in ToSet(R)
  BY DEF ToSet
<1>7. program' = R
  BY <1>1, <1>2
<1> QED BY <1>1, <1>3, <1>4, <1>5, <1>6, <1>7
   DEF Abstract!Next, Abstract!Compile, Abstract!Last, Last

LEMMA StepRefines ==
    Inv /\ Inv' /\ [Next]_vars => [Abstract!Next]_<<imports, flaw, status, program>>
<1> SUFFICES ASSUME Inv, Inv', [Next]_vars
             PROVE  [Abstract!Next]_<<imports, flaw, status, program>>
  OBVIOUS
<1>1. CASE BeginProgram
  BY <1>1 DEF BeginProgram, ScanSeen, ScanLoad, BeginResolve, input, verdict
<1>2. CASE Phase1
  <2>1. CASE UseResolved
    BY <2>1 DEF UseResolved, input, verdict
  <2>2. CASE Enter
    BY <2>2 DEF Enter, Visit, input
  <2> QED BY <1>2, <2>1, <2>2, CycleRefines, RejectRefines DEF Phase1
<1>3. CASE Phase2to8
  <2>1. CASE Declare \/ Group \/ MergeSpan \/ Return
    BY <2>1 DEF Declare, Group, MergeSpan, Return, input, verdict
  <2> QED BY <1>3, <2>1, FinishRefines, RejectRefines DEF Phase2to8
<1>4. CASE Unwind
  BY <1>4 DEF Unwind, input, verdict
<1>5. CASE UNCHANGED vars
  BY <1>5 DEF vars
<1> QED BY <1>1, <1>2, <1>3, <1>4, <1>5 DEF Next

\* Whatever the import graph: a program that compiles is the ordered import
\* closure of its entry module and free of flaws, and one that is rejected
\* has the cycle or the flaw it is rejected for.
THEOREM Refinement == Spec => ImplementsProgramOrder
<1>1. Init => Abstract!Init
  BY DEF Init, Abstract!Init
<1> QED BY <1>1, InvHolds, StepRefines, PTL DEF Spec, ImplementsProgramOrder, Abstract!Spec
===============================================================================
