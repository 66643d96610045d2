-------------------------- MODULE HashMapStoreProofs --------------------------
(***************************************************************************)
(* The theorems of HashMapStore and StructuralKeys, for every heap, key    *)
(* set, reroot cap, depth of suspended shows and number of reads suspended *)
(* in their encoders; and those of NanKeys, for every set of maps and      *)
(* keys, every width and every depth of nesting.                           *)
(***************************************************************************)
EXTENDS StructuralKeys, NanKeys, FiniteSetTheorems, SequenceTheorems, TLAPS

-------------------------------------------------------------------------------
(* Lemmas about the data *)

\* What a read unwraps is what the write meant: the boxing of nil loses
\* nothing, and only an empty slot reads as a missing key.
LEMMA UnboxBox ==
    /\ \A v \in Values : Box(v) \in Slot /\ Unbox(Box(v)) = v /\ Box(v) # nil
    /\ \A s \in Slot : Unbox(s) \in Values \cup {absent}
    /\ \A s \in Slot : Unbox(s) = absent <=> s = nil
    /\ absent \notin Values /\ nil \in Slot
BY NilAssumption DEF Values, Slot, Box, Unbox

\* A map has a finite number of entries.
LEMMA SizeNat == \A map : Size(map) \in Nat
<1> TAKE map
<1>1. IsFiniteSet({k \in Keys : map[k] # absent})
  BY FiniteAssumption, FS_Subset
<1> QED BY <1>1, FS_CardinalityType DEF Size

\* Writing one key changes the number of present keys as Resize counts.
LEMMA SizePatch ==
    ASSUME NEW map \in Contents, NEW k \in Keys, NEW x \in Values \cup {absent}
    PROVE  /\ Size(Patch(map, k, x)) =
                IF x = absent
                THEN IF map[k] = absent THEN Size(map) ELSE Size(map) - 1
                ELSE IF map[k] = absent THEN Size(map) + 1 ELSE Size(map)
           /\ Size(map) \in Nat
           /\ Patch(map, k, x) \in Contents
<1> DEFINE new == Patch(map, k, x)
           P == {y \in Keys : map[y] # absent}
           Q == {y \in Keys : new[y] # absent}
<1>1. IsFiniteSet(P) /\ Cardinality(P) \in Nat
  BY FiniteAssumption, FS_Subset, FS_CardinalityType
<1>2. CASE x = absent
  <2>1. Q = P \ {k}
    BY <1>2 DEF Contents, Patch
  <2>2. Cardinality(P \ {k}) = IF k \in P THEN Cardinality(P) - 1 ELSE Cardinality(P)
    BY <1>1, FS_RemoveElement
  <2> QED BY <1>1, <1>2, <2>1, <2>2 DEF Size, Contents, Patch
<1>3. CASE x # absent
  <2>1. Q = P \cup {k}
    BY <1>3 DEF Contents, Patch
  <2>2. Cardinality(P \cup {k}) = IF k \in P THEN Cardinality(P) ELSE Cardinality(P) + 1
    BY <1>1, FS_AddElement
  <2> QED BY <1>1, <1>3, <2>1, <2>2 DEF Size, Contents, Patch
<1> QED BY <1>2, <1>3

\* Size of the map without any key.
LEMMA SizeEmpty == Size([k \in Keys |-> absent]) = 0
<1>1. {k \in Keys : [y \in Keys |-> absent][k] # absent} = {}
  OBVIOUS
<1> QED BY <1>1, FS_EmptySet DEF Size

\* Dropping the last element of a chain.
LEMMA FrontProperties ==
    ASSUME NEW S, NEW s \in Seq(S), s # <<>>
    PROVE  /\ Len(s) \in Nat \ {0}
           /\ Last(s) = s[Len(s)] /\ Last(s) \in S
           /\ Front(s) \in Seq(S) /\ Len(Front(s)) = Len(s) - 1
           /\ \A i \in 1 .. Len(s) - 1 : Front(s)[i] = s[i]
<1>1. Len(s) \in Nat \ {0}
  BY EmptySeq
<1>2. PICK e \in 0 .. Len(s) : e = Len(s) - 1
  <2>1. Len(s) - 1 \in 0 .. Len(s)
    BY <1>1
  <2> QED BY <2>1
<1>3. /\ SubSeq(s, 1, e) \in Seq(S) /\ Len(SubSeq(s, 1, e)) = e
      /\ \A i \in 1 .. e : SubSeq(s, 1, e)[i] = s[i]
  OBVIOUS
<1> QED BY <1>1, <1>2, <1>3 DEF Front, Last

-------------------------------------------------------------------------------
(* The inductive invariant *)

\* The chain collected by the walk, or what is left of it.
ChainLinked ==
    pc \in {"walk", "rotate", "replay"} =>
        /\ \A i \in 1 .. Len(path) : node[path[i]].t = nil
        /\ \A i \in 1 .. Len(path) - 1 : node[path[i]].p = path[i + 1]
        /\ path # <<>> => path[1] = call.m
        /\ pc # "replay" => IF path = <<>> THEN cur = call.m
                                          ELSE node[Last(path)].p = cur

\* While the table is replayed: the version it has reached.
Reached == IF path = <<>> THEN call.m ELSE node[Last(path)].p

Replaying == pc = "replay" => Holds(Reached, t, n)

Rerooting ==
    /\ pc \in {"rotate", "replay"} => call.m # Empty
    /\ pc = "rotate" => cur # Empty
    /\ pc = "body" => node[call.m].t # nil

\* The table under construction holds the list read so far.
Building ==
    pc = "build" => /\ \A k \in Keys : Unbox(store[t][k]) = call.v[k]
                    /\ n = Size(call.v)

\* A suspended show still walks the version it was called on.
FrameFaithful(f) ==
    /\ \A k \in Keys : Unbox(f.snap[k]) = val[f.m][k]
    /\ \A k \in f.left : val[f.m][k] # absent
    /\ f.out = {<<k, val[f.m][k]>> : k \in {x \in Keys \ f.left : val[f.m][x] # absent}}

ShowsFaithful == \A i \in 1 .. Len(shows) : FrameFaithful(shows[i])

\* Every diff lies above its neighbour, so the chains have no cycle and the
\* nodes of the walked chain are all different.
Ranking(rank) ==
    /\ \A h \in DOMAIN node :
        node[h].t = nil /\ (pc = "rotate" => h # cur) => rank[node[h].p] < rank[h]
    /\ pc \in {"walk", "rotate"} =>
        /\ \A i \in 1 .. Len(path) : rank[cur] < rank[path[i]]
        /\ \A i, j \in 1 .. Len(path) : i < j => rank[path[j]] < rank[path[i]]

Acyclic == \E rank \in [DOMAIN node -> Int] : Ranking(rank)

Inv ==
    /\ TypeOK /\ Consistent /\ OneRootPerStore /\ EmptyFrozen
    /\ ChainLinked /\ Replaying /\ Rerooting /\ Building
    /\ ShowsFaithful /\ AnswersFaithful /\ Acyclic

-------------------------------------------------------------------------------
(* Init and the steps that leave the heap alone *)

\* At startup the heap holds hmEmpty alone.
LEMMA InitInv == Init => Inv
<1> SUFFICES ASSUME Init PROVE Inv
  OBVIOUS
<1>1. PICK s \in Stores :
        /\ store = [x \in {s} |-> [k \in Keys |-> nil]]
        /\ node = [h \in {Empty} |-> Root(s, 0)]
  BY DEF Init
<1> USE <1>1, EmptyAssumption, NilAssumption DEF Init, Root
<1>2. TypeOK
  <2>1. node \in [DOMAIN node -> Roots \cup Diffs]
    BY DEF Roots
  <2>2. store \in [DOMAIN store -> [Keys -> Slot]] /\ val \in [DOMAIN node -> Contents]
    BY DEF Slot, Contents
  <2>3. call \in [op : Ops, m : DOMAIN node, k : Keys \cup {nil}, v : Values \cup Contents]
    BY DEF NoCall, Call, Ops, Values
  <2> QED BY <2>1, <2>2, <2>3 DEF TypeOK
<1>3. Consistent
  BY SizeEmpty, UnboxBox DEF Consistent, Holds
<1>4. OneRootPerStore /\ EmptyFrozen
  BY DEF OneRootPerStore, EmptyFrozen
<1>5. ChainLinked /\ Replaying /\ Rerooting /\ Building
  BY DEF ChainLinked, Replaying, Rerooting, Building
<1>6. ShowsFaithful /\ AnswersFaithful
  BY DEF ShowsFaithful, AnswersFaithful, NoAnswer, Answer
<1>7. Acyclic
  <2>1. Ranking([h \in DOMAIN node |-> 0])
    BY DEF Ranking
  <2> QED BY <2>1 DEF Acyclic
<1> QED BY <1>2, <1>3, <1>4, <1>5, <1>6, <1>7 DEF Inv

\* Calling an operation disturbs nothing but the running call.
LEMMA BeginInv ==
    ASSUME Inv, NEW c \in Requests(DOMAIN node), Begin(c)
    PROVE  Inv'
<1> USE DEF Inv, Begin
<1>1. TypeOK'
  <2>1. c \in [op : Ops, m : DOMAIN node, k : Keys \cup {nil}, v : Values \cup Contents]
    BY DEF Requests, Call, Ops, Values
  <2> QED BY <2>1, EmptySeq DEF TypeOK, Frames, Requests
<1>2. Consistent' /\ OneRootPerStore' /\ EmptyFrozen'
  BY DEF Consistent, Holds, OneRootPerStore, EmptyFrozen
<1>3. ChainLinked' /\ Replaying' /\ Rerooting' /\ Building'
  BY DEF ChainLinked, Replaying, Rerooting, Building
<1>4. ShowsFaithful' /\ AnswersFaithful'
  BY DEF ShowsFaithful, FrameFaithful, AnswersFaithful, NoAnswer, Answer
<1>5. Acyclic'
  BY DEF Acyclic, Ranking
<1> QED BY <1>1, <1>2, <1>3, <1>4, <1>5

\* Each turn of the walk records a diff and moves one hop toward the root.
LEMMA WalkInv == Inv /\ Walk => Inv'
<1> SUFFICES ASSUME Inv, Walk PROVE Inv'
  OBVIOUS
<1> USE DEF Inv, Walk
<1>0. /\ path' \in Seq(DOMAIN node) /\ path' # <<>> /\ Len(path') = Len(path) + 1
      /\ \A i \in 1 .. Len(path) : path'[i] = path[i]
      /\ path'[Len(path')] = cur /\ Len(path) \in Nat
      /\ path = <<>> => Len(path) = 0
      /\ path # <<>> => Len(path) > 0
  BY AppendProperties, EmptySeq DEF TypeOK
<1>1. TypeOK'
  BY <1>0 DEF TypeOK, Frames, Requests
<1>2. Consistent' /\ OneRootPerStore' /\ EmptyFrozen'
  BY DEF Consistent, Holds, OneRootPerStore, EmptyFrozen
<1>3. ChainLinked'
  BY <1>0 DEF ChainLinked, Last, TypeOK
<1>4. Replaying' /\ Rerooting' /\ Building'
  BY DEF Replaying, Rerooting, Building
<1>5. ShowsFaithful' /\ AnswersFaithful'
  BY DEF ShowsFaithful, FrameFaithful, AnswersFaithful
<1>6. Acyclic'
  <2>1. PICK rank \in [DOMAIN node -> Int] : Ranking(rank)
    BY DEF Acyclic
  <2>2. \A h \in DOMAIN node : rank[h] \in Int
    OBVIOUS
  <2>3. rank[cur'] < rank[cur] /\ cur \in DOMAIN node /\ cur' \in DOMAIN node
    BY <2>1 DEF Ranking, TypeOK
  <2>4. \A i \in 1 .. Len(path) : path[i] \in DOMAIN node
    BY DEF TypeOK
  <2>5. ASSUME NEW i \in 1 .. Len(path') PROVE rank[cur'] < rank[path'[i]]
    <3>1. CASE i \in 1 .. Len(path)
      <4>1. path'[i] = path[i] /\ rank[cur] < rank[path[i]] /\ path[i] \in DOMAIN node
        BY <3>1, <1>0, <2>1, <2>4 DEF Ranking
      <4> QED BY <4>1, <2>2, <2>3
    <3>2. CASE i = Len(path')
      BY <3>2, <1>0, <2>3
    <3> QED BY <3>1, <3>2, <1>0
  <2>6. ASSUME NEW i \in 1 .. Len(path'), NEW j \in 1 .. Len(path'), i < j
        PROVE  rank[path'[j]] < rank[path'[i]]
    <3>1. i \in 1 .. Len(path) /\ path'[i] = path[i]
      BY <2>6, <1>0
    <3>2. CASE j \in 1 .. Len(path)
      BY <3>1, <3>2, <2>6, <1>0, <2>1 DEF Ranking
    <3>3. CASE j = Len(path')
      BY <3>1, <3>3, <1>0, <2>1 DEF Ranking
    <3> QED BY <3>2, <3>3, <1>0
  <2>7. Ranking(rank)'
    BY <2>1, <2>5, <2>6 DEF Ranking
  <2> QED BY <2>7 DEF Acyclic
<1> QED BY <1>1, <1>2, <1>3, <1>4, <1>5, <1>6

\* A root needs no rerooting.
LEMMA AtRootInv == Inv /\ AtRoot => Inv'
<1> SUFFICES ASSUME Inv, AtRoot PROVE Inv'
  OBVIOUS
<1> USE DEF Inv, AtRoot, regs
<1>1. TypeOK'
  BY DEF TypeOK, Frames, Requests
<1>2. Consistent' /\ OneRootPerStore' /\ EmptyFrozen'
  BY DEF Consistent, Holds, OneRootPerStore, EmptyFrozen
<1>3. ChainLinked' /\ Replaying' /\ Rerooting' /\ Building'
  BY DEF ChainLinked, Replaying, Rerooting, Building
<1>4. ShowsFaithful' /\ AnswersFaithful' /\ Acyclic'
  BY DEF ShowsFaithful, FrameFaithful, AnswersFaithful, Acyclic, Ranking
<1> QED BY <1>1, <1>2, <1>3, <1>4

\* Before the first turn of the rotation the holder still owns the table.
LEMMA StartRotateInv == Inv /\ StartRotate => Inv'
<1> SUFFICES ASSUME Inv, StartRotate PROVE Inv'
  OBVIOUS
<1> USE DEF Inv, StartRotate
<1>0. node[cur] \in Roots /\ node[cur].t \in DOMAIN store /\ path # <<>>
  BY EmptySeq DEF TypeOK, Roots, Diffs
<1>1. TypeOK'
  BY <1>0 DEF TypeOK, Frames, Requests, Roots
<1>2. Consistent'
  BY <1>0 DEF Consistent, Holds, TypeOK
<1>3. OneRootPerStore' /\ EmptyFrozen'
  BY <1>0 DEF OneRootPerStore, EmptyFrozen, TypeOK
<1>4. ChainLinked' /\ Replaying' /\ Building'
  BY DEF ChainLinked, Replaying, Building
<1>5. Rerooting'
  BY <1>0, EmptySeq DEF Rerooting, ChainLinked, EmptyFrozen, Last, TypeOK
<1>6. ShowsFaithful' /\ AnswersFaithful'
  BY DEF ShowsFaithful, FrameFaithful, AnswersFaithful
<1>7. Acyclic'
  BY DEF Acyclic, Ranking
<1> QED BY <1>1, <1>2, <1>3, <1>4, <1>5, <1>6, <1>7

-------------------------------------------------------------------------------
(* The steps of __mll_hm_reroot that write a table *)

\* The copy holds what the root's table holds and belongs to no map yet.
LEMMA StartMaterializeInv == Inv /\ StartMaterialize => Inv'
<1> SUFFICES ASSUME Inv, StartMaterialize PROVE Inv'
  OBVIOUS
<1> USE DEF Inv
<1>0. /\ pc = "walk" /\ pc' = "replay" /\ n' = node[cur].n
      /\ UNCHANGED <<node, val, call, path, cur, shows, ret>>
      /\ node[cur].t # nil
  BY DEF StartMaterialize
<1>1. PICK c \in Stores \ DOMAIN store :
        store' = Put(store, c, store[node[cur].t]) /\ t' = c
  BY DEF StartMaterialize
<1>2. /\ node[cur] \in Roots /\ node[cur].t \in DOMAIN store
      /\ path # <<>> /\ cur \in DOMAIN node
  BY BoundAssumption, <1>0 DEF StartMaterialize, Cap, TypeOK, Roots, Diffs
<1>3. /\ DOMAIN store' = DOMAIN store \cup {c} /\ store'[c] = store[node[cur].t]
      /\ \A s \in DOMAIN store : store'[s] = store[s]
  BY <1>1 DEF Put
<1>4. TypeOK'
  <2>1. store' \in [DOMAIN store' -> [Keys -> Slot]]
    BY <1>1, <1>2 DEF Put, TypeOK
  <2>2. n' \in Int
    BY <1>0, <1>2 DEF Roots
  <2> QED BY <1>0, <1>1, <1>3, <2>1, <2>2 DEF TypeOK, Frames, Requests
<1>5. Consistent' /\ OneRootPerStore' /\ EmptyFrozen'
  <2>1. \A h \in DOMAIN node : node[h].t # nil => node[h].t \in DOMAIN store
    BY DEF TypeOK
  <2>2. Consistent'
    BY <1>0, <1>3, <2>1 DEF Consistent, Holds
  <2>3. OneRootPerStore'
    BY <1>0, <1>1, <2>1, NilAssumption DEF OneRootPerStore
  <2>4. EmptyFrozen'
    BY <1>0, <1>3, <2>1, <1>4 DEF EmptyFrozen, TypeOK
  <2> QED BY <2>2, <2>3, <2>4
<1>6. Replaying'
  <2>1. Reached' = cur
    BY <1>0, <1>2 DEF Reached, ChainLinked
  <2>2. Holds(cur, node[cur].t, node[cur].n)
    BY <1>0, <1>2 DEF Consistent
  <2> QED BY <2>1, <2>2, <1>0, <1>1, <1>3 DEF Replaying, Holds
<1>7. ChainLinked' /\ Building'
  BY <1>0 DEF ChainLinked, Building
<1>8. Rerooting'
  <2>1. node[path[1]].t = nil /\ path[1] = call.m
    <3>1. path \in Seq(DOMAIN node) /\ 1 \in 1 .. Len(path)
      BY <1>2, EmptySeq DEF TypeOK
    <3> QED BY <1>0, <1>2, <3>1 DEF ChainLinked
  <2> QED BY <1>0, <2>1 DEF Rerooting, EmptyFrozen
<1>9. ShowsFaithful' /\ AnswersFaithful' /\ Acyclic'
  BY <1>0 DEF ShowsFaithful, FrameFaithful, AnswersFaithful, Acyclic, Ranking
<1> QED BY <1>4, <1>5, <1>6, <1>7, <1>8, <1>9

\* One turn of either loop moves table t from one version to the one the
\* diff d leads to.
LEMMA ApplyDiffHolds ==
    ASSUME TypeOK, t \in DOMAIN store, NEW g \in DOMAIN node, NEW d \in DOMAIN node,
           node[d].t = nil, Holds(g, t, n),
           val[d] = Patch(val[g], node[d].k, Unbox(node[d].v)),
           ApplyDiff(node[d])
    PROVE  /\ \A k \in Keys : Unbox(store'[t][k]) = val[d][k]
           /\ n' = Size(val[d]) /\ n' \in Int
           /\ Unbox(store[t][node[d].k]) = val[g][node[d].k]
           /\ val[g] = Patch(val[d], node[d].k, Unbox(store[t][node[d].k]))
           /\ DOMAIN store' = DOMAIN store
           /\ store' \in [DOMAIN store' -> [Keys -> Slot]]
           /\ \A s \in DOMAIN store : s # t => store'[s] = store[s]
           /\ node[d].k \in Keys /\ node[d].v \in Slot /\ store[t][node[d].k] \in Slot
<1> DEFINE key == node[d].k
           old == store[t][key]
<1>1. node[d] \in Diffs /\ key \in Keys /\ node[d].v \in Slot
  <2>1. node[d] \in Roots \cup Diffs
    BY DEF TypeOK
  <2> QED BY <2>1, NilAssumption DEF Roots, Diffs
<1>2. store[t] \in [Keys -> Slot] /\ old \in Slot /\ val[g] \in Contents /\ val[d] \in Contents
  <2>1. store \in [DOMAIN store -> [Keys -> Slot]] /\ val \in [DOMAIN node -> Contents]
    BY DEF TypeOK
  <2> QED BY <1>1, <2>1
<1>3. store' = [store EXCEPT ![t][key] = node[d].v] /\ n' = Resize(n, old, node[d].v)
  BY DEF ApplyDiff
<1>4. DOMAIN store' = DOMAIN store /\ store' \in [DOMAIN store' -> [Keys -> Slot]]
  BY <1>1, <1>3 DEF TypeOK
<1>5. store'[t] = [store[t] EXCEPT ![key] = node[d].v]
  BY <1>3
<1>6. \A k \in Keys : Unbox(store'[t][k]) = val[d][k]
  BY <1>1, <1>2, <1>5 DEF Holds, Contents, Patch
<1>7. Unbox(old) = val[g][key]
  BY <1>1 DEF Holds
<1>8. n' = Size(val[d]) /\ n' \in Int
  <2> DEFINE x == Unbox(node[d].v)
  <2>1. x \in Values \cup {absent}
    BY <1>1, UnboxBox
  <2>2. /\ node[d].v = nil <=> Unbox(node[d].v) = absent
        /\ old = nil <=> val[g][key] = absent
    BY <1>1, <1>2, <1>7, UnboxBox
  <2>3. /\ Size(val[d]) = IF x = absent
                          THEN IF val[g][key] = absent THEN Size(val[g]) ELSE Size(val[g]) - 1
                          ELSE IF val[g][key] = absent THEN Size(val[g]) + 1 ELSE Size(val[g])
        /\ Size(val[g]) \in Nat
    BY <1>1, <1>2, <2>1, SizePatch
  <2>4. n = Size(val[g])
    BY DEF Holds
  <2> QED BY <1>3, <2>2, <2>3, <2>4 DEF Resize
<1>9. val[g] = Patch(val[d], key, Unbox(old))
  BY <1>1, <1>2, <1>7 DEF Contents, Patch
<1>10. \A s \in DOMAIN store : s # t => store'[s] = store[s]
  BY <1>3
<1> QED BY <1>1, <1>2, <1>4, <1>6, <1>7, <1>8, <1>9, <1>10

\* One turn of the rotation hands the table from the holder to the next diff,
\* which is the map it then holds; the holder becomes the diff that undoes it.
LEMMA RotateInv == Inv /\ Rotate => Inv'
<1> SUFFICES ASSUME Inv, Rotate PROVE Inv'
  OBVIOUS
<1> USE DEF Inv
<1> DEFINE d == Last(path)
           len == Len(path)
           key == node[d].k
           old == store[t][key]
<1>1. /\ pc = "rotate" /\ path # <<>> /\ ApplyDiff(node[d]) /\ path' = Front(path)
      /\ node' = [node EXCEPT ![cur] = Diff(key, old, d)] /\ cur' = d
      /\ UNCHANGED <<val, pc, call, t, shows, ret>>
  BY DEF Rotate, ApplyDiff, FlipHolder
<1>2. /\ node \in [DOMAIN node -> Roots \cup Diffs] /\ cur \in DOMAIN node
      /\ path \in Seq(DOMAIN node) /\ t \in DOMAIN store /\ t # nil
      /\ \A h \in DOMAIN node : IF node[h].t = nil THEN node[h].p \in DOMAIN node
                                                   ELSE node[h].t \in DOMAIN store
  BY <1>1, NilAssumption DEF TypeOK
<1>3. /\ len \in Nat \ {0} /\ d = path[len] /\ d \in DOMAIN node
      /\ Front(path) \in Seq(DOMAIN node) /\ Len(Front(path)) = len - 1
      /\ \A i \in 1 .. len - 1 : Front(path)[i] = path[i]
      /\ \A i \in 1 .. len : path[i] \in DOMAIN node
  BY <1>1, <1>2, FrontProperties
<1>4. node[d].t = nil /\ node[d].p = cur
  BY <1>1, <1>3 DEF ChainLinked
<1>5. PICK rank \in [DOMAIN node -> Int] : Ranking(rank)
  BY DEF Acyclic
<1>6. /\ rank[cur] < rank[d]
      /\ \A i \in 1 .. len - 1 : rank[d] < rank[path[i]]
      /\ \A h \in DOMAIN node : rank[h] \in Int
  BY <1>1, <1>3, <1>5 DEF Ranking
<1>7. d # cur /\ \A i \in 1 .. len - 1 : path[i] # d /\ path[i] # cur
  BY <1>1, <1>2, <1>3, <1>6
<1>8. Holds(cur, t, n) /\ val[d] = Patch(val[cur], key, Unbox(node[d].v))
  BY <1>1, <1>3, <1>4, <1>7 DEF Consistent
<1>9. /\ \A k \in Keys : Unbox(store'[t][k]) = val[d][k]
      /\ n' = Size(val[d]) /\ n' \in Int
      /\ val[cur] = Patch(val[d], key, Unbox(old))
      /\ DOMAIN store' = DOMAIN store
      /\ store' \in [DOMAIN store' -> [Keys -> Slot]]
      /\ \A s \in DOMAIN store : s # t => store'[s] = store[s]
      /\ key \in Keys /\ old \in Slot
  BY <1>1, <1>2, <1>3, <1>4, <1>8, ApplyDiffHolds
<1>10. /\ DOMAIN node' = DOMAIN node /\ node'[cur] = Diff(key, old, d)
       /\ \A h \in DOMAIN node : h # cur => node'[h] = node[h]
  BY <1>1, <1>2
<1>11. Diff(key, old, d) \in Diffs
  BY <1>3, <1>9 DEF Diff, Diffs, TypeOK
<1>21. path' \in Seq(DOMAIN node) /\ Len(path') = len - 1
       /\ \A i \in 1 .. Len(path') : i \in 1 .. len - 1 /\ path'[i] = path[i]
  BY <1>1, <1>3
<1> HIDE DEF d, key, old, len
<1>12. TypeOK'
  <2>1. node' \in [DOMAIN node' -> Roots \cup Diffs]
    BY <1>1, <1>2, <1>11
  <2>2. ASSUME NEW h \in DOMAIN node'
        PROVE  IF node'[h].t = nil THEN node'[h].p \in DOMAIN node'
                                   ELSE node'[h].t \in DOMAIN store'
    <3>1. CASE h = cur
      BY <3>1, <1>3, <1>10 DEF Diff
    <3>2. CASE h # cur
      BY <3>2, <1>2, <1>9, <1>10
    <3> QED BY <3>1, <3>2
  <2> QED BY <1>1, <1>2, <1>3, <1>9, <1>10, <2>1, <2>2 DEF TypeOK, Frames, Requests
<1>13. Consistent'
  <2>1. Holds(cur, t, n)'
    BY <1>1, <1>9 DEF Holds
  <2>2. ASSUME NEW h \in DOMAIN node, h # d
        PROVE  IF node'[h].t # nil
               THEN Holds(h, node[h].t, node[h].n)'
               ELSE val'[h] = Patch(val'[node'[h].p], node'[h].k, Unbox(node'[h].v))
    <3>1. CASE h = cur
      BY <3>1, <1>1, <1>9, <1>10 DEF Diff
    <3>2. CASE h # cur /\ node[h].t = nil
      BY <3>2, <1>1, <1>10 DEF Consistent
    <3>3. CASE h # cur /\ node[h].t # nil
      <4>1. Holds(h, node[h].t, node[h].n) /\ node[h].t # t
        BY <3>3, <1>1 DEF Consistent, OneRootPerStore
      <4> QED BY <4>1, <3>3, <1>1, <1>2, <1>9, <1>10 DEF Holds
    <3> QED BY <3>1, <3>2, <3>3
  <2> QED BY <2>1, <2>2, <1>1, <1>10 DEF Consistent
<1>14. OneRootPerStore'
  BY <1>1, <1>2, <1>10 DEF OneRootPerStore, Diff
<1>15. EmptyFrozen'
  <2>1. cur # Empty /\ d # Empty /\ Empty \in DOMAIN node
    BY <1>1, <1>4 DEF Rerooting, EmptyFrozen, TypeOK
  <2>2. node[Empty].t # t /\ node[Empty].t \in DOMAIN store
    BY <2>1, <1>1, <1>2 DEF OneRootPerStore, EmptyFrozen
  <2> QED BY <2>1, <2>2, <1>9, <1>10 DEF EmptyFrozen, Diff
<1>16. ChainLinked'
  <2>0. /\ \A i \in 1 .. len : node[path[i]].t = nil
        /\ \A i \in 1 .. len - 1 : node[path[i]].p = path[i + 1]
        /\ path[1] = call.m
        /\ \A i \in 1 .. len - 1 : node'[path[i]] = node[path[i]]
    BY <1>1, <1>3, <1>7, <1>10 DEF ChainLinked, len
  <2>1. /\ \A i \in 1 .. Len(path') : node'[path'[i]].t = nil
        /\ \A i \in 1 .. Len(path') - 1 : node'[path'[i]].p = path'[i + 1]
    <3>1. ASSUME NEW i \in 1 .. Len(path') PROVE node'[path'[i]].t = nil
      <4>1. i \in 1 .. len - 1 /\ i \in 1 .. len /\ path'[i] = path[i]
        BY <1>3, <1>21
      <4> QED BY <2>0, <4>1
    <3>2. ASSUME NEW i \in 1 .. Len(path') - 1
          PROVE  node'[path'[i]].p = path'[i + 1]
      <4>1. i \in 1 .. Len(path') /\ i + 1 \in 1 .. Len(path')
        BY <1>3, <1>21
      <4>2. path'[i] = path[i] /\ path'[i + 1] = path[i + 1] /\ i \in 1 .. len - 1
        BY <4>1, <1>21
      <4> QED BY <2>0, <4>2
    <3> QED BY <3>1, <3>2
  <2>2. path' # <<>> => path'[1] = call.m /\ node'[Last(path')].p = cur'
    <3> SUFFICES ASSUME path' # <<>> PROVE path'[1] = call.m /\ node'[Last(path')].p = cur'
      OBVIOUS
    <3>1. Len(path') \in Nat \ {0}
      BY <1>21, EmptySeq
    <3>2. path'[1] = path[1] /\ Last(path') = path[len - 1]
      <4>1. 1 \in 1 .. Len(path') /\ Len(path') \in 1 .. Len(path')
        BY <3>1
      <4>2. path'[1] = path[1] /\ path'[Len(path')] = path[Len(path')]
        BY <1>21, <4>1
      <4>3. Len(path') = len - 1
        BY <1>21
      <4> QED BY <4>2, <4>3 DEF Last
    <3>3. node'[path[len - 1]].p = d
      <4>1. len - 1 \in 1 .. len - 1 /\ path[(len - 1) + 1] = d
        BY <1>3, <1>21, <3>1
      <4>2. node[path[len - 1]].p = d /\ node'[path[len - 1]] = node[path[len - 1]]
        BY <2>0, <4>1
      <4> QED BY <4>2
    <3> QED BY <1>1, <2>0, <3>2, <3>3
  <2>3. path' = <<>> => cur' = call.m
    <3>1. path' = <<>> => len = 1
      BY <1>3, <1>21
    <3> QED BY <1>1, <1>3, <2>0, <3>1
  <2> QED BY <1>1, <2>1, <2>2, <2>3 DEF ChainLinked
<1>17. Replaying' /\ Building'
  BY <1>1 DEF Replaying, Building
<1>18. Rerooting'
  BY <1>1, <1>4 DEF Rerooting, EmptyFrozen
<1>19. ShowsFaithful' /\ AnswersFaithful'
  BY <1>1 DEF ShowsFaithful, FrameFaithful, AnswersFaithful
<1>20. Acyclic'
  <2> DEFINE new == [rank EXCEPT ![d] = rank[cur] - 1]
  <2>1. new \in [DOMAIN node' -> Int] /\ new[d] = rank[cur] - 1
        /\ \A h \in DOMAIN node : h # d => new[h] = rank[h]
    BY <1>2, <1>3, <1>5, <1>6, <1>10
  <2> HIDE DEF new
  <2>2. ASSUME NEW h \in DOMAIN node', node'[h].t = nil, h # d
        PROVE  new[node'[h].p] < new[h]
    <3>1. CASE h = cur
      BY <3>1, <2>1, <1>2, <1>6, <1>7, <1>10 DEF Diff
    <3>2. CASE h # cur
      <4>1. rank[node[h].p] < rank[h] /\ node[h].p \in DOMAIN node
        BY <3>2, <2>2, <1>1, <1>5, <1>10 DEF Ranking, TypeOK
      <4>2. /\ rank[d] \in Int /\ rank[cur] \in Int /\ rank[node[h].p] \in Int
            /\ rank[h] \in Int /\ rank[cur] < rank[d] /\ h \in DOMAIN node
        BY <4>1, <2>2, <1>2, <1>3, <1>6, <1>10
      <4>3. new[h] = rank[h] /\ node'[h].p = node[h].p
        BY <3>2, <4>2, <2>1, <2>2, <1>10
      <4>4. CASE node[h].p = d
        BY <4>1, <4>2, <4>3, <4>4, <2>1
      <4>5. CASE node[h].p # d
        BY <4>1, <4>3, <4>5, <2>1
      <4> QED BY <4>4, <4>5
    <3> QED BY <3>1, <3>2
  <2>3. \A i \in 1 .. Len(path') : new[d] < new[path'[i]]
    <3> SUFFICES ASSUME NEW i \in 1 .. len - 1 PROVE new[d] < new[path[i]]
      BY <1>21
    <3>1. path[i] \in DOMAIN node /\ new[path[i]] = rank[path[i]]
      <4>1. i \in 1 .. len
        BY <1>3
      <4>2. path[i] \in DOMAIN node
        BY <4>1, <1>3
      <4>3. path[i] # d
        BY <1>7
      <4> QED BY <4>2, <4>3, <2>1
    <3>2. /\ rank[path[i]] \in Int /\ rank[d] \in Int /\ rank[cur] \in Int
          /\ rank[cur] < rank[d] /\ rank[d] < rank[path[i]]
      BY <3>1, <1>2, <1>3, <1>6
    <3> QED BY <3>1, <3>2, <2>1
  <2>4. \A i, j \in 1 .. Len(path') : i < j => new[path'[j]] < new[path'[i]]
    <3>1. \A i \in 1 .. len - 1 : new[path[i]] = rank[path[i]]
      BY <2>1, <1>3, <1>7
    <3>2. \A i, j \in 1 .. len : i < j => rank[path[j]] < rank[path[i]]
      BY <1>1, <1>5 DEF Ranking, len
    <3> SUFFICES ASSUME NEW i \in 1 .. Len(path'), NEW j \in 1 .. Len(path'), i < j
                 PROVE  new[path'[j]] < new[path'[i]]
      OBVIOUS
    <3>3. /\ path'[i] = path[i] /\ path'[j] = path[j]
          /\ i \in 1 .. len - 1 /\ j \in 1 .. len - 1
      BY <1>21
    <3>4. i \in 1 .. len /\ j \in 1 .. len
      BY <3>3, <1>3
    <3> QED BY <3>1, <3>2, <3>3, <3>4
  <2> QED BY <2>1, <2>2, <2>3, <2>4, <1>1 DEF Acyclic, Ranking
<1> QED BY <1>12, <1>13, <1>14, <1>15, <1>16, <1>17, <1>18, <1>19, <1>20

\* One turn of the replay brings the copy to the next diff's map.
LEMMA ReplayInv == Inv /\ Replay => Inv'
<1> SUFFICES ASSUME Inv, Replay PROVE Inv'
  OBVIOUS
<1> USE DEF Inv
<1> DEFINE d == Last(path)
           g == node[d].p
           len == Len(path)
<1>1. /\ pc = "replay" /\ path # <<>> /\ ApplyDiff(node[d]) /\ path' = Front(path)
      /\ UNCHANGED <<node, val, pc, call, cur, t, shows, ret>>
  BY DEF Replay, ApplyDiff
<1>2. /\ path \in Seq(DOMAIN node) /\ t \in DOMAIN store
      /\ \A h \in DOMAIN node : IF node[h].t = nil THEN node[h].p \in DOMAIN node
                                                   ELSE node[h].t \in DOMAIN store
      /\ \A h \in DOMAIN node : node[h].t # t
  BY <1>1 DEF TypeOK, OneRootPerStore
<1>3. /\ len \in Nat \ {0} /\ d = path[len] /\ d \in DOMAIN node
      /\ path' \in Seq(DOMAIN node) /\ Len(path') = len - 1
      /\ \A i \in 1 .. len - 1 : path'[i] = path[i]
  BY <1>1, <1>2, FrontProperties
<1>4. node[d].t = nil /\ g \in DOMAIN node /\ Holds(g, t, n)
  BY <1>1, <1>2, <1>3 DEF ChainLinked, Replaying, Reached
<1>5. val[d] = Patch(val[g], node[d].k, Unbox(node[d].v))
  BY <1>1, <1>3, <1>4 DEF Consistent
<1>6. /\ \A k \in Keys : Unbox(store'[t][k]) = val[d][k]
      /\ n' = Size(val[d]) /\ n' \in Int
      /\ DOMAIN store' = DOMAIN store
      /\ store' \in [DOMAIN store' -> [Keys -> Slot]]
      /\ \A s \in DOMAIN store : s # t => store'[s] = store[s]
  BY <1>1, <1>2, <1>3, <1>4, <1>5, ApplyDiffHolds
<1> HIDE DEF d, g, len
<1>7. TypeOK'
  BY <1>1, <1>3, <1>6 DEF TypeOK, Frames, Requests
<1>8. Consistent'
  BY <1>1, <1>2, <1>6 DEF Consistent, Holds
<1>9. OneRootPerStore' /\ Rerooting'
  BY <1>1 DEF OneRootPerStore, Rerooting
<1>10. EmptyFrozen'
  <2>1. Empty \in DOMAIN node
    BY DEF TypeOK
  <2>2. node[Empty].t # t /\ node[Empty].t \in DOMAIN store
    BY <2>1, <1>2 DEF EmptyFrozen
  <2> QED BY <2>2, <1>1, <1>6 DEF EmptyFrozen
<1>11. /\ \A i \in 1 .. len : node[path[i]].t = nil
       /\ \A i \in 1 .. len - 1 : node[path[i]].p = path[i + 1]
       /\ path[1] = call.m
  BY <1>1 DEF ChainLinked, len
<1>12. ChainLinked'
  <2>1. ASSUME NEW i \in 1 .. Len(path') PROVE node[path'[i]].t = nil
    <3>1. i \in 1 .. len - 1 /\ i \in 1 .. len
      BY <1>3
    <3> QED BY <3>1, <1>3, <1>11
  <2>2. ASSUME NEW i \in 1 .. Len(path') - 1 PROVE node[path'[i]].p = path'[i + 1]
    <3>1. i \in 1 .. len - 1 /\ i + 1 \in 1 .. len - 1
      BY <1>3
    <3> QED BY <3>1, <1>3, <1>11
  <2>3. path' # <<>> => path'[1] = call.m
    <3>1. path' # <<>> => 1 \in 1 .. len - 1
      BY <1>3, EmptySeq
    <3> QED BY <3>1, <1>3, <1>11
  <2> QED BY <2>1, <2>2, <2>3, <1>1 DEF ChainLinked
<1>13. Reached' = d
  <2>1. CASE path' = <<>>
    <3>1. len = 1
      BY <2>1, <1>3
    <3> QED BY <2>1, <3>1, <1>1, <1>3, <1>11 DEF Reached
  <2>2. CASE path' # <<>>
    <3>1. len - 1 \in 1 .. len - 1 /\ Len(path') = len - 1
      BY <2>2, <1>3, EmptySeq
    <3>2. Last(path') = path[len - 1]
      BY <3>1, <1>3 DEF Last
    <3>3. node[path[len - 1]].p = path[len]
      BY <3>1, <1>3, <1>11
    <3> QED BY <2>2, <3>2, <3>3, <1>1, <1>3 DEF Reached
  <2> QED BY <2>1, <2>2
<1>14. Replaying'
  BY <1>1, <1>6, <1>13 DEF Replaying, Holds
<1>15. Building' /\ ShowsFaithful' /\ AnswersFaithful' /\ Acyclic'
  BY <1>1 DEF Building, ShowsFaithful, FrameFaithful, AnswersFaithful, Acyclic, Ranking
<1> QED BY <1>7, <1>8, <1>9, <1>10, <1>12, <1>14, <1>15

\* The table replayed down to m holds m's map when m becomes its root.
LEMMA BecomeRootInv == Inv /\ BecomeRoot => Inv'
<1> SUFFICES ASSUME Inv, BecomeRoot PROVE Inv'
  OBVIOUS
<1> USE DEF Inv
<1> DEFINE m == call.m
<1>1. /\ pc \in {"rotate", "replay"} /\ pc' = "body" /\ path = <<>>
      /\ node' = [node EXCEPT ![m] = Root(t, n)]
      /\ UNCHANGED <<store, val, call, path, cur, t, n, shows, ret>>
  BY DEF BecomeRoot, regs
<1>2. /\ m \in DOMAIN node /\ m # Empty /\ t \in DOMAIN store /\ t # nil /\ t \in Stores
      /\ node \in [DOMAIN node -> Roots \cup Diffs] /\ val[m] \in Contents
  BY <1>1, NilAssumption DEF TypeOK, Rerooting
<1>3. Holds(m, t, n) /\ (pc = "rotate" => cur = m)
  BY <1>1 DEF Consistent, Replaying, Reached, ChainLinked
<1>4. n \in Nat
  BY <1>2, <1>3, SizeNat DEF Holds
<1>5. /\ DOMAIN node' = DOMAIN node /\ node'[m] = Root(t, n)
      /\ \A h \in DOMAIN node : h # m => node'[h] = node[h]
  BY <1>1, <1>2
<1> HIDE DEF m
<1>6. TypeOK'
  <2>1. node' \in [DOMAIN node' -> Roots \cup Diffs]
    BY <1>1, <1>2, <1>4, <1>5 DEF Root, Roots
  <2>2. \A h \in DOMAIN node' : IF node'[h].t = nil THEN node'[h].p \in DOMAIN node'
                                                   ELSE node'[h].t \in DOMAIN store'
    BY <1>1, <1>2, <1>5 DEF TypeOK, Root
  <2> QED BY <1>1, <1>2, <1>5, <2>1, <2>2 DEF TypeOK, Frames, Requests
<1>7. Consistent'
  BY <1>1, <1>2, <1>3, <1>5 DEF Consistent, Holds, Root
<1>8. OneRootPerStore'
  BY <1>1, <1>2, <1>3, <1>5 DEF OneRootPerStore, Root
<1>9. EmptyFrozen'
  BY <1>1, <1>2, <1>5, EmptyAssumption, NilAssumption DEF EmptyFrozen, Root, TypeOK
<1>10. ChainLinked' /\ Replaying' /\ Building'
  BY <1>1 DEF ChainLinked, Replaying, Building
<1>11. Rerooting'
  BY <1>1, <1>2, <1>5 DEF Rerooting, Root, m
<1>12. ShowsFaithful' /\ AnswersFaithful'
  BY <1>1 DEF ShowsFaithful, FrameFaithful, AnswersFaithful
<1>13. Acyclic'
  BY <1>1, <1>2, <1>3, <1>5 DEF Acyclic, Ranking, Root
<1> QED BY <1>6, <1>7, <1>8, <1>9, <1>10, <1>11, <1>12, <1>13

-------------------------------------------------------------------------------
(* The reads and show_HashMap *)

\* Leaving an operation that wrote nothing.
LEMMA ReturnInv ==
    ASSUME Inv, NEW answer, Return(answer), pc = "body", UNCHANGED <<node, store, val>>,
           shows' \in Seq(Frames), ShowsFaithful', AnswersFaithful'
    PROVE  Inv'
<1> USE DEF Inv, Return
<1>1. TypeOK'
  <2>1. NoCall \in [op : Ops, m : DOMAIN node, k : Keys \cup {nil}, v : Values \cup Contents]
    BY DEF NoCall, Call, Ops, Values, TypeOK
  <2>2. path' \in Seq(DOMAIN node')
    BY EmptySeq
  <2> QED BY <2>1, <2>2 DEF TypeOK, Frames
<1>2. Consistent' /\ OneRootPerStore' /\ EmptyFrozen'
  BY DEF Consistent, Holds, OneRootPerStore, EmptyFrozen
<1>3. ChainLinked' /\ Replaying' /\ Rerooting' /\ Building'
  BY DEF ChainLinked, Replaying, Rerooting, Building
<1>4. Acyclic'
  BY DEF Acyclic, Ranking
<1> QED BY <1>1, <1>2, <1>3, <1>4

\* What an operation's body finds: m is a root whose table holds its map.
LEMMA BodyFacts ==
    ASSUME Inv, pc = "body"
    PROVE  /\ call.m \in DOMAIN node /\ M.t \in DOMAIN store /\ M.t # nil /\ M \in Roots
           /\ Holds(call.m, M.t, M.n)
           /\ store[M.t] \in [Keys -> Slot] /\ val[call.m] \in Contents
           /\ call \in Requests(DOMAIN node)
           /\ \A k \in Keys : store[M.t][k] = nil <=> val[call.m][k] = absent
<1>1. call.m \in DOMAIN node /\ M.t # nil
  BY DEF Inv, TypeOK, Rerooting, M
<1>2. /\ M.t \in DOMAIN store /\ M \in Roots /\ store[M.t] \in [Keys -> Slot]
      /\ val[call.m] \in Contents /\ call \in Requests(DOMAIN node)
  <2>1. node[call.m] \in Roots \cup Diffs
    BY <1>1 DEF Inv, TypeOK
  <2>2. M \in Roots
    BY <1>1, <2>1 DEF Diffs, M
  <2>3. M.t \in DOMAIN store
    BY <1>1 DEF Inv, TypeOK, M
  <2> QED BY <1>1, <2>2, <2>3 DEF Inv, TypeOK
<1>3. Holds(call.m, M.t, M.n)
  BY <1>1 DEF Inv, Consistent, M
<1>4. \A k \in Keys : store[M.t][k] = nil <=> val[call.m][k] = absent
  BY <1>2, <1>3, UnboxBox DEF Holds
<1> QED BY <1>1, <1>2, <1>3, <1>4

\* A request for a keyed operation has a key, an insert also a value.
LEMMA RequestFacts ==
    ASSUME NEW Live, call \in Requests(Live)
    PROVE  /\ call.op \in {"insert", "delete", "lookup"} => call.k \in Keys
           /\ call.op = "insert" => call.v \in Values
BY DEF Requests, Call

\* A lookup at the root answers from the version's own map.
LEMMA LookupInv == Inv /\ Lookup => Inv'
<1> SUFFICES ASSUME Inv, Lookup PROVE Inv'
  OBVIOUS
<1>1. /\ pc = "body" /\ call.op = "lookup" /\ Return(Answer("lookup", call.m, call.k, Unbox(Old)))
      /\ UNCHANGED <<node, store, val, shows>>
  BY DEF Lookup, Begun
<1>2. Unbox(Old) = val[call.m][call.k]
  BY <1>1, BodyFacts, RequestFacts DEF Holds, Old
<1>3. AnswersFaithful'
  BY <1>1, <1>2 DEF AnswersFaithful, Return, Answer
<1>4. shows' \in Seq(Frames) /\ ShowsFaithful'
  BY <1>1 DEF Inv, TypeOK, ShowsFaithful, FrameFaithful
<1> QED BY <1>1, <1>3, <1>4, ReturnInv

\* The size kept with the root is the number of keys of its map.
LEMMA SizeOfInv == Inv /\ SizeOf => Inv'
<1> SUFFICES ASSUME Inv, SizeOf PROVE Inv'
  OBVIOUS
<1>1. /\ pc = "body" /\ Return(Answer("size", call.m, absent, M.n))
      /\ UNCHANGED <<node, store, val, shows>>
  BY DEF SizeOf, Begun
<1>2. M.n = Size(val[call.m])
  BY <1>1, BodyFacts DEF Holds
<1>3. AnswersFaithful'
  <2>1. ret' = Answer("size", call.m, absent, M.n)
    BY <1>1 DEF Return
  <2> QED BY <2>1, <1>1, <1>2 DEF AnswersFaithful, Answer, Size
<1>4. shows' \in Seq(Frames) /\ ShowsFaithful'
  BY <1>1 DEF Inv, TypeOK, ShowsFaithful, FrameFaithful
<1> QED BY <1>1, <1>3, <1>4, ReturnInv

\* The enumerators list exactly the non-empty slots.
LEMMA ListOfInv == Inv /\ ListOf => Inv'
<1> SUFFICES ASSUME Inv, ListOf PROVE Inv'
  OBVIOUS
<1> DEFINE listed == {<<k, Unbox(store[M.t][k])>> : k \in {x \in Keys : store[M.t][x] # nil}}
<1>1. /\ pc = "body" /\ Return(Answer("list", call.m, absent, listed))
      /\ UNCHANGED <<node, store, val, shows>>
  BY DEF ListOf, Begun
<1>2. /\ {x \in Keys : store[M.t][x] # nil} = {x \in Keys : val[call.m][x] # absent}
      /\ \A k \in Keys : Unbox(store[M.t][k]) = val[call.m][k]
  BY <1>1, BodyFacts DEF Holds
<1>3. listed = Entries(val[call.m])
  BY <1>2 DEF Entries
<1>4. AnswersFaithful'
  <2>1. ret' = Answer("list", call.m, absent, listed)
    BY <1>1 DEF Return
  <2> HIDE DEF listed
  <2>2. /\ ret'.op = "list" /\ ret'.m = call.m /\ ret'.res = Entries(val[call.m])
    BY <2>1, <1>3 DEF Answer
  <2> QED BY <2>2, <1>1 DEF AnswersFaithful
<1>5. shows' \in Seq(Frames) /\ ShowsFaithful'
  BY <1>1 DEF Inv, TypeOK, ShowsFaithful, FrameFaithful
<1> QED BY <1>1, <1>4, <1>5, ReturnInv

\* Deleting a missing key allocates nothing.
LEMMA DeleteMissingInv == Inv /\ DeleteMissing => Inv'
<1> SUFFICES ASSUME Inv, DeleteMissing PROVE Inv'
  OBVIOUS
<1>1. /\ pc = "body" /\ Return(Answer("delete", call.m, call.k, call.m))
      /\ UNCHANGED <<node, store, val, shows>>
  BY DEF DeleteMissing, Begun
<1>2. AnswersFaithful'
  BY <1>1 DEF AnswersFaithful, Return, Answer
<1>3. shows' \in Seq(Frames) /\ ShowsFaithful'
  BY <1>1 DEF Inv, TypeOK, ShowsFaithful, FrameFaithful
<1> QED BY <1>1, <1>2, <1>3, ReturnInv

\* A show starts from the entries of its own version.
LEMMA SnapshotInv == Inv /\ Snapshot => Inv'
<1> SUFFICES ASSUME Inv, Snapshot PROVE Inv'
  OBVIOUS
<1> DEFINE f == [m |-> call.m, snap |-> store[M.t],
                 left |-> {k \in Keys : store[M.t][k] # nil}, out |-> {}]
<1>1. /\ pc = "body" /\ Return(NoAnswer) /\ shows' = Append(shows, f)
      /\ UNCHANGED <<node, store, val>>
  BY DEF Snapshot, Begun
<1>2. f \in Frames /\ shows \in Seq(Frames)
  BY <1>1, BodyFacts DEF Frames, Inv, TypeOK
<1>3. FrameFaithful(f)
  <2>1. /\ \A k \in Keys : Unbox(f.snap[k]) = val[f.m][k]
        /\ \A k \in Keys : k \in f.left <=> val[f.m][k] # absent
    BY <1>1, BodyFacts DEF Holds
  <2>2. {x \in Keys \ f.left : val[f.m][x] # absent} = {}
    BY <2>1
  <2> QED BY <2>1, <2>2 DEF FrameFaithful
<1> HIDE DEF f
<1>4. /\ shows' \in Seq(Frames) /\ Len(shows') = Len(shows) + 1
      /\ \A i \in 1 .. Len(shows) : shows'[i] = shows[i]
      /\ shows'[Len(shows) + 1] = f /\ Len(shows) \in Nat
  BY <1>1, <1>2, AppendProperties
<1>5. ShowsFaithful'
  <2>1. \A i \in 1 .. Len(shows) : FrameFaithful(shows[i])
    BY DEF Inv, ShowsFaithful
  <2>2. ASSUME NEW i \in 1 .. Len(shows') PROVE FrameFaithful(shows'[i])
    BY <2>1, <1>3, <1>4
  <2> QED BY <2>2, <1>1 DEF ShowsFaithful, FrameFaithful
<1>6. AnswersFaithful'
  BY <1>1 DEF AnswersFaithful, Return, NoAnswer, Answer
<1> QED BY <1>1, <1>4, <1>5, <1>6, ReturnInv

\* A step of a suspended show touches nothing but the shows and the answer.
LEMMA ShowStepInv ==
    ASSUME Inv, pc = "idle", UNCHANGED <<node, store, val, pc, call, regs>>,
           shows' \in Seq(Frames), ShowsFaithful', AnswersFaithful'
    PROVE  Inv'
<1> USE DEF Inv, regs
<1>1. TypeOK'
  BY DEF TypeOK, Frames
<1>2. Consistent' /\ OneRootPerStore' /\ EmptyFrozen'
  BY DEF Consistent, Holds, OneRootPerStore, EmptyFrozen
<1>3. ChainLinked' /\ Replaying' /\ Rerooting' /\ Building' /\ Acyclic'
  BY DEF ChainLinked, Replaying, Rerooting, Building, Acyclic, Ranking
<1> QED BY <1>1, <1>2, <1>3

\* The innermost suspended show.
LEMMA LastShow ==
    ASSUME Inv, shows # <<>>
    PROVE  /\ Len(shows) \in Nat \ {0} /\ shows \in Seq(Frames)
           /\ Last(shows) = shows[Len(shows)]
           /\ Last(shows) \in Frames /\ FrameFaithful(Last(shows))
<1>1. shows \in Seq(Frames)
  BY DEF Inv, TypeOK
<1>2. /\ Len(shows) \in Nat \ {0} /\ Last(shows) = shows[Len(shows)]
      /\ Last(shows) \in Frames
  BY <1>1, FrontProperties
<1> QED BY <1>1, <1>2 DEF Inv, ShowsFaithful

\* Printing an entry takes it from the snapshot, not from the live table.
LEMMA ShowEntryInv == Inv /\ ShowEntry => Inv'
<1> SUFFICES ASSUME Inv, ShowEntry PROVE Inv'
  OBVIOUS
<1> DEFINE f == Last(shows)
<1>1. PICK k \in f.left :
        shows' = [shows EXCEPT ![Len(shows)] =
                    [f EXCEPT !.left = f.left \ {k},
                              !.out = f.out \cup {<<k, Unbox(f.snap[k])>>}]]
  BY DEF ShowEntry
<1> DEFINE g == [f EXCEPT !.left = f.left \ {k},
                          !.out = f.out \cup {<<k, Unbox(f.snap[k])>>}]
<1>2. /\ pc = "idle" /\ shows # <<>> /\ ret' = NoAnswer
      /\ UNCHANGED <<node, store, val, pc, call, regs>>
  BY DEF ShowEntry
<1>3. f \in Frames /\ FrameFaithful(f) /\ Len(shows) \in Nat \ {0} /\ shows \in Seq(Frames)
  BY <1>2, LastShow
<1>4. k \in Keys /\ Unbox(f.snap[k]) = val[f.m][k] /\ val[f.m][k] # absent
  BY <1>1, <1>3 DEF Frames, FrameFaithful
<1>5. g \in Frames
  <2>1. Unbox(f.snap[k]) \in Values
    BY <1>3, <1>4, UnboxBox DEF Frames
  <2>2. <<k, Unbox(f.snap[k])>> \in Keys \X Values
    BY <2>1, <1>4
  <2>3. /\ f.left \ {k} \in SUBSET Keys
        /\ f.out \cup {<<k, Unbox(f.snap[k])>>} \in SUBSET (Keys \X Values)
    BY <2>2, <1>3 DEF Frames
  <2> QED BY <2>3, <1>3 DEF Frames
<1>6. FrameFaithful(g)
  <2>1. /\ g.m = f.m /\ g.snap = f.snap /\ g.left = f.left \ {k}
        /\ g.out = f.out \cup {<<k, val[f.m][k]>>}
    BY <1>3, <1>4 DEF Frames
  <2> HIDE DEF g, f
  <2>2. {x \in Keys \ g.left : val[f.m][x] # absent}
          = {x \in Keys \ f.left : val[f.m][x] # absent} \cup {k}
    BY <2>1, <1>4
  <2>3. g.out = {<<x, val[f.m][x]>> : x \in {y \in Keys \ g.left : val[f.m][y] # absent}}
    BY <2>1, <2>2, <1>3 DEF FrameFaithful
  <2> QED BY <2>1, <2>3, <1>3 DEF FrameFaithful
<1> HIDE DEF f, g
<1>7. /\ shows' \in Seq(Frames) /\ Len(shows') = Len(shows)
      /\ \A i \in 1 .. Len(shows) : shows'[i] = IF i = Len(shows) THEN g ELSE shows[i]
  BY <1>1, <1>3, <1>5, ExceptSeq DEF g
<1>8. ShowsFaithful'
  <2>1. \A i \in 1 .. Len(shows) : FrameFaithful(shows[i])
    BY DEF Inv, ShowsFaithful
  <2>2. ASSUME NEW i \in 1 .. Len(shows') PROVE FrameFaithful(shows'[i])
    BY <2>1, <1>6, <1>7
  <2> QED BY <2>2, <1>2 DEF ShowsFaithful, FrameFaithful
<1>9. AnswersFaithful'
  BY <1>2 DEF AnswersFaithful, NoAnswer, Answer
<1> QED BY <1>2, <1>7, <1>8, <1>9, ShowStepInv

\* A show that has printed every entry has listed its version.
LEMMA ShowDoneInv == Inv /\ ShowDone => Inv'
<1> SUFFICES ASSUME Inv, ShowDone PROVE Inv'
  OBVIOUS
<1> DEFINE f == Last(shows)
<1>1. /\ pc = "idle" /\ shows # <<>> /\ f.left = {}
      /\ ret' = Answer("list", f.m, absent, f.out) /\ shows' = Front(shows)
      /\ UNCHANGED <<node, store, val, pc, call, regs>>
  BY DEF ShowDone
<1>2. f.out = Entries(val[f.m])
  <2>1. {x \in Keys \ f.left : val[f.m][x] # absent} = {x \in Keys : val[f.m][x] # absent}
    BY <1>1
  <2> QED BY <2>1, <1>1, LastShow DEF FrameFaithful, Entries
<1> HIDE DEF f
<1>3. AnswersFaithful'
  <2>1. ret'.op = "list" /\ ret'.m = f.m /\ ret'.res = Entries(val[f.m])
    BY <1>1, <1>2 DEF Answer
  <2> QED BY <2>1, <1>1 DEF AnswersFaithful
<1>4. /\ shows' \in Seq(Frames) /\ Len(shows') = Len(shows) - 1 /\ Len(shows) \in Nat \ {0}
      /\ \A i \in 1 .. Len(shows) - 1 : shows'[i] = shows[i]
  BY <1>1, LastShow, FrontProperties
<1>5. ShowsFaithful'
  <2>1. ASSUME NEW i \in 1 .. Len(shows') PROVE FrameFaithful(shows'[i])
    BY <1>4 DEF Inv, ShowsFaithful
  <2> QED BY <2>1, <1>1 DEF ShowsFaithful, FrameFaithful
<1> QED BY <1>1, <1>3, <1>4, <1>5, ShowStepInv

\* An error abandons the innermost shows and leaves the maps alone.
LEMMA RaiseInv == Inv /\ Raise => Inv'
<1> SUFFICES ASSUME Inv, Raise PROVE Inv'
  OBVIOUS
<1>1. PICK i \in 1 .. Len(shows) : shows' = SubSeq(shows, 1, i - 1)
  BY DEF Raise
<1>2. /\ pc = "idle" /\ ret' = NoAnswer /\ UNCHANGED <<node, store, val, pc, call, regs>>
      /\ shows \in Seq(Frames)
  BY DEF Raise, Inv, TypeOK
<1>3. PICK e \in 0 .. Len(shows) : e = i - 1
  BY <1>1, <1>2
<1>4. /\ shows' \in Seq(Frames) /\ Len(shows') = e
      /\ \A j \in 1 .. e : shows'[j] = shows[j]
  BY <1>1, <1>2, <1>3
<1>5. ShowsFaithful'
  <2>1. ASSUME NEW j \in 1 .. Len(shows') PROVE FrameFaithful(shows'[j])
    BY <1>3, <1>4 DEF Inv, ShowsFaithful
  <2> QED BY <2>1, <1>2 DEF ShowsFaithful, FrameFaithful
<1>6. AnswersFaithful'
  BY <1>2 DEF AnswersFaithful, NoAnswer, Answer
<1> QED BY <1>2, <1>4, <1>5, <1>6, ShowStepInv

-------------------------------------------------------------------------------
(* Building a map from a list *)

\* The table of a fromList is nobody's until it ends.
LEMMA FromListBeginInv == Inv /\ FromListBegin => Inv'
<1> SUFFICES ASSUME Inv, FromListBegin PROVE Inv'
  OBVIOUS
<1> USE DEF Inv
<1> DEFINE none == [k \in Keys |-> absent]
<1>1. PICK s \in Stores \ DOMAIN store :
        store' = Put(store, s, [k \in Keys |-> nil]) /\ t' = s
  BY DEF FromListBegin
<1>2. /\ pc = "idle" /\ pc' = "build" /\ n' = 0 /\ ret' = NoAnswer
      /\ call' = Call("fromList", Empty, nil, none)
      /\ UNCHANGED <<node, val, path, cur, shows>>
  BY DEF FromListBegin
<1>3. /\ DOMAIN store' = DOMAIN store \cup {s} /\ store'[s] = [k \in Keys |-> nil]
      /\ \A x \in DOMAIN store : store'[x] = store[x]
  BY <1>1 DEF Put
<1>4. \A h \in DOMAIN node : node[h].t # nil => node[h].t \in DOMAIN store
  BY DEF TypeOK
<1>5. none \in Contents
  BY DEF Contents
<1>6. TypeOK'
  <2>1. store' \in [DOMAIN store' -> [Keys -> Slot]]
    BY <1>1 DEF Put, TypeOK, Slot
  <2>2. call' \in [op : Ops, m : DOMAIN node, k : Keys \cup {nil}, v : Values \cup Contents]
    BY <1>2, <1>5 DEF Call, Ops, TypeOK
  <2> QED BY <1>1, <1>2, <1>3, <1>5, <2>1, <2>2 DEF TypeOK, Frames, Call
<1>7. Consistent'
  BY <1>2, <1>3, <1>4 DEF Consistent, Holds
<1>8. OneRootPerStore'
  BY <1>1, <1>2, <1>4, NilAssumption DEF OneRootPerStore
<1>9. EmptyFrozen'
  BY <1>2, <1>3, <1>4 DEF EmptyFrozen, TypeOK
<1>10. ChainLinked' /\ Replaying' /\ Rerooting'
  BY <1>2 DEF ChainLinked, Replaying, Rerooting
<1>11. Building'
  <2>1. Size(none) = 0
    BY SizeEmpty
  <2> QED BY <2>1, <1>1, <1>2, <1>3, UnboxBox DEF Building, Call
<1>12. ShowsFaithful' /\ AnswersFaithful' /\ Acyclic'
  BY <1>2 DEF ShowsFaithful, FrameFaithful, AnswersFaithful, NoAnswer, Answer, Acyclic, Ranking
<1> QED BY <1>6, <1>7, <1>8, <1>9, <1>10, <1>11, <1>12

\* Adding a pair to the table under construction counts each key once.
LEMMA FromListAddInv ==
    ASSUME Inv, NEW k \in Keys, NEW v \in Values, FromListAdd(k, v)
    PROVE  Inv'
<1> USE DEF Inv
<1> DEFINE old == store[t][k]
<1>1. /\ pc = "build" /\ n' = (IF old = nil THEN n + 1 ELSE n)
      /\ store' = [store EXCEPT ![t][k] = Box(v)]
      /\ call' = [call EXCEPT !.v = Patch(call.v, k, v)]
      /\ UNCHANGED <<node, val, pc, path, cur, t, shows, ret>>
  BY DEF FromListAdd
<1>2. /\ t \in DOMAIN store /\ call.v \in Contents /\ store[t] \in [Keys -> Slot]
      /\ \A h \in DOMAIN node : node[h].t # t
      /\ \A h \in DOMAIN node : node[h].t # nil => node[h].t \in DOMAIN store
      /\ \A x \in Keys : Unbox(store[t][x]) = call.v[x]
      /\ n = Size(call.v)
  BY <1>1 DEF TypeOK, OneRootPerStore, Building
<1>3. /\ DOMAIN store' = DOMAIN store /\ store'[t] = [store[t] EXCEPT ![k] = Box(v)]
      /\ \A s \in DOMAIN store : s # t => store'[s] = store[s]
  BY <1>1, <1>2
<1>4. /\ call'.op = call.op /\ call'.m = call.m /\ call'.k = call.k
      /\ call'.v = Patch(call.v, k, v)
      /\ call' \in [op : Ops, m : DOMAIN node, k : Keys \cup {nil}, v : Values \cup Contents]
  <2>1. call \in [op : Ops, m : DOMAIN node, k : Keys \cup {nil}, v : Values \cup Contents]
    BY DEF TypeOK
  <2>2. Patch(call.v, k, v) \in Contents
    BY <1>2, SizePatch
  <2> QED BY <2>1, <2>2, <1>1
<1>5. n' = Size(Patch(call.v, k, v)) /\ n' \in Int /\ Patch(call.v, k, v) \in Contents
  <2>1. old = nil <=> call.v[k] = absent
    BY <1>2, UnboxBox
  <2>2. v \in Values \cup {absent} /\ v # absent
    BY UnboxBox
  <2>3. /\ Size(Patch(call.v, k, v)) =
             IF v = absent
             THEN IF call.v[k] = absent THEN Size(call.v) ELSE Size(call.v) - 1
             ELSE IF call.v[k] = absent THEN Size(call.v) + 1 ELSE Size(call.v)
        /\ Size(call.v) \in Nat /\ Patch(call.v, k, v) \in Contents
    BY <1>2, <2>2, SizePatch
  <2> QED BY <1>1, <1>2, <2>1, <2>2, <2>3
<1>6. TypeOK'
  <2>1. store' \in [DOMAIN store' -> [Keys -> Slot]]
    BY <1>1, <1>2, UnboxBox DEF TypeOK
  <2> QED BY <1>1, <1>3, <1>4, <1>5, <2>1 DEF TypeOK, Frames
<1>7. Consistent'
  BY <1>1, <1>2, <1>3 DEF Consistent, Holds
<1>8. OneRootPerStore' /\ ChainLinked' /\ Replaying' /\ Rerooting'
  BY <1>1 DEF OneRootPerStore, ChainLinked, Replaying, Rerooting
<1>9. EmptyFrozen'
  BY <1>1, <1>2, <1>3 DEF EmptyFrozen, TypeOK
<1>10. Building'
  <2>1. \A x \in Keys : Unbox(store'[t][x]) = Patch(call.v, k, v)[x]
    BY <1>2, <1>3, UnboxBox DEF Patch, Contents
  <2> QED BY <2>1, <1>1, <1>4, <1>5 DEF Building
<1>11. ShowsFaithful' /\ AnswersFaithful' /\ Acyclic'
  BY <1>1 DEF ShowsFaithful, FrameFaithful, AnswersFaithful, Acyclic, Ranking
<1> QED BY <1>6, <1>7, <1>8, <1>9, <1>10, <1>11

-------------------------------------------------------------------------------
(* The steps that create a map *)

\* Creating a map on a table no other node uses.
LEMMA NewRootInv ==
    ASSUME Inv, pc \in {"body", "build"}, NEW h \in Handles \ DOMAIN node,
           NEW s \in DOMAIN store', \A g \in DOMAIN node : node[g].t # s,
           DOMAIN store \subseteq DOMAIN store', DOMAIN store' \subseteq Stores,
           store' \in [DOMAIN store' -> [Keys -> Slot]],
           \A x \in DOMAIN store : x # s => store'[x] = store[x],
           NEW map \in Contents, \A k \in Keys : Unbox(store'[s][k]) = map[k],
           NEW size, size = Size(map),
           node' = Put(node, h, Root(s, size)), val' = Put(val, h, map),
           NEW answer, Return(answer), answer.op \notin {"lookup", "size", "list"},
           UNCHANGED shows
    PROVE  Inv'
<1> USE DEF Inv
<1>1. /\ pc' = "idle" /\ call' = NoCall /\ path' = <<>> /\ cur' = Empty /\ n' = 0
      /\ ret' = answer
  BY DEF Return
<1>2. /\ DOMAIN node' = DOMAIN node \cup {h} /\ node'[h] = Root(s, size)
      /\ DOMAIN val' = DOMAIN node \cup {h} /\ val'[h] = map
      /\ \A g \in DOMAIN node : g # h /\ node'[g] = node[g] /\ val'[g] = val[g]
  BY DEF Put, TypeOK
<1>3. s # nil /\ s \in Stores /\ size \in Nat /\ h # Empty
  BY NilAssumption, SizeNat DEF TypeOK
<1>4. \A g \in DOMAIN node : IF node[g].t = nil
                             THEN node[g].p \in DOMAIN node
                             ELSE node[g].t \in DOMAIN store /\ node[g].t # s
  BY DEF TypeOK
<1>5. TypeOK'
  <2>1. /\ node' \in [DOMAIN node' -> Roots \cup Diffs]
        /\ val' \in [DOMAIN node' -> Contents]
    BY <1>2, <1>3 DEF Put, TypeOK, Root, Roots
  <2>2. NoCall \in [op : Ops, m : DOMAIN node', k : Keys \cup {nil}, v : Values \cup Contents]
    BY <1>2 DEF NoCall, Call, Ops, Values, TypeOK
  <2>3. path' \in Seq(DOMAIN node')
    BY <1>1, EmptySeq
  <2>4. shows' \in Seq(Frames')
    <3>1. Frames \subseteq Frames'
      BY <1>2 DEF Frames
    <3> QED BY <3>1, SeqMonotonic DEF TypeOK
  <2>5. \A g \in DOMAIN node' : IF node'[g].t = nil THEN node'[g].p \in DOMAIN node'
                                                   ELSE node'[g].t \in DOMAIN store'
    <3>1. node'[h].t = s
      BY <1>2 DEF Root
    <3>2. ASSUME NEW g \in DOMAIN node
          PROVE  IF node'[g].t = nil THEN node'[g].p \in DOMAIN node'
                                     ELSE node'[g].t \in DOMAIN store'
      BY <1>2, <1>4
    <3> QED BY <3>1, <3>2, <1>2, <1>3
  <2>6. DOMAIN node' \subseteq Handles /\ Empty \in DOMAIN node'
    BY <1>2 DEF TypeOK
  <2> QED BY <1>1, <2>1, <2>2, <2>3, <2>4, <2>5, <2>6 DEF TypeOK
<1>6. Consistent'
  <2>1. Holds(h, s, size)'
    BY <1>2 DEF Holds, Size
  <2>2. ASSUME NEW g \in DOMAIN node
        PROVE  IF node'[g].t # nil
               THEN Holds(g, node[g].t, node[g].n)'
               ELSE val'[g] = Patch(val'[node'[g].p], node'[g].k, Unbox(node'[g].v))
    <3>1. CASE node[g].t = nil
      <4>1. val[g] = Patch(val[node[g].p], node[g].k, Unbox(node[g].v))
        BY <3>1 DEF Consistent
      <4> QED BY <3>1, <4>1, <1>2, <1>4
    <3>2. CASE node[g].t # nil
      <4>1. Holds(g, node[g].t, node[g].n)
        BY <3>2 DEF Consistent
      <4> QED BY <3>2, <4>1, <1>2, <1>4 DEF Holds
    <3> QED BY <3>1, <3>2
  <2> QED BY <2>1, <2>2, <1>1, <1>2, <1>3 DEF Consistent, Root
<1>7. OneRootPerStore'
  BY <1>1, <1>2, <1>3, <1>4 DEF OneRootPerStore, Root
<1>8. EmptyFrozen'
  BY <1>2, <1>3, <1>4, EmptyAssumption, NilAssumption DEF EmptyFrozen, Root, TypeOK
<1>9. ChainLinked' /\ Replaying' /\ Rerooting' /\ Building'
  BY <1>1 DEF ChainLinked, Replaying, Rerooting, Building
<1>10. ShowsFaithful'
  <2>1. ASSUME NEW i \in 1 .. Len(shows') PROVE FrameFaithful(shows[i])'
    <3>1. FrameFaithful(shows[i])
      BY DEF ShowsFaithful
    <3>2. shows[i] \in Frames
      BY ElementOfSeq DEF TypeOK
    <3>3. shows[i].m \in DOMAIN node /\ shows[i].left \in SUBSET Keys
      BY <3>2 DEF Frames
    <3> QED BY <3>1, <3>3, <1>2 DEF FrameFaithful
  <2> QED BY <2>1 DEF ShowsFaithful
<1>11. AnswersFaithful'
  BY <1>1 DEF AnswersFaithful
<1>12. Acyclic'
  <2>1. PICK rank \in [DOMAIN node -> Int] : Ranking(rank)
    BY DEF Acyclic
  <2> DEFINE new == Put(rank, h, 0)
  <2>2. /\ new \in [DOMAIN node' -> Int]
        /\ \A g \in DOMAIN node : new[g] = rank[g]
    BY <1>2 DEF Put
  <2> HIDE DEF new
  <2>3. ASSUME NEW g \in DOMAIN node', node'[g].t = nil
        PROVE  new[node'[g].p] < new[g]
    <3>1. g \in DOMAIN node /\ node'[g] = node[g]
      BY <2>3, <1>2, <1>3 DEF Root
    <3>2. rank[node[g].p] < rank[g] /\ node[g].p \in DOMAIN node
      BY <2>1, <2>3, <3>1, <1>4 DEF Ranking
    <3> QED BY <2>2, <3>1, <3>2
  <2>4. Ranking(new)'
    BY <2>3, <1>1 DEF Ranking
  <2> QED BY <2>2, <2>4 DEF Acyclic
<1> QED BY <1>5, <1>6, <1>7, <1>8, <1>9, <1>10, <1>11, <1>12

\* The finished table becomes a fresh root.
LEMMA FromListEndInv == Inv /\ FromListEnd => Inv'
<1> SUFFICES ASSUME Inv, FromListEnd PROVE Inv'
  OBVIOUS
<1>1. PICK h \in Handles \ DOMAIN node :
        /\ node' = Put(node, h, Root(t, n)) /\ val' = Put(val, h, call.v)
        /\ Return(Answer("fromList", h, absent, h))
  BY DEF FromListEnd
<1>2. pc = "build" /\ UNCHANGED <<store, shows>>
  BY DEF FromListEnd
<1>3. /\ t \in DOMAIN store /\ DOMAIN store \subseteq Stores
      /\ store \in [DOMAIN store -> [Keys -> Slot]]
      /\ call.v \in Contents /\ \A g \in DOMAIN node : node[g].t # t
      /\ \A k \in Keys : Unbox(store[t][k]) = call.v[k]
      /\ n = Size(call.v)
  BY <1>2 DEF Inv, TypeOK, OneRootPerStore, Building
<1>4. Answer("fromList", h, absent, h).op \notin {"lookup", "size", "list"}
  BY DEF Answer
<1> QED BY <1>1, <1>2, <1>3, <1>4, NewRootInv

\* Writing the live table of m, which becomes a diff to the new root h.
Flipped(h, slot, size, map) ==
    /\ store' = [store EXCEPT ![M.t][call.k] = slot]
    /\ node' = Put([node EXCEPT ![call.m] = Diff(call.k, Old, h)], h, Root(M.t, size))
    /\ val' = Put(val, h, map)

\* Flipping m into a diff toward the new root keeps both maps.
LEMMA FlipInv ==
    ASSUME Inv, pc = "body", call.m # Empty, call.k \in Keys,
           NEW h \in Handles \ DOMAIN node, NEW slot \in Slot, NEW size,
           NEW map, map = Patch(val[call.m], call.k, Unbox(slot)), size = Size(map),
           Flipped(h, slot, size, map),
           NEW answer, Return(answer), answer.op \notin {"lookup", "size", "list"},
           UNCHANGED shows
    PROVE  Inv'
<1> USE DEF Inv
<1> DEFINE m == call.m
           s == M.t
           k == call.k
<1>1. /\ pc' = "idle" /\ call' = NoCall /\ path' = <<>> /\ cur' = Empty /\ n' = 0
      /\ ret' = answer
  BY DEF Return
<1>2. /\ m \in DOMAIN node /\ s \in DOMAIN store /\ s # nil /\ node[m].t = s
      /\ Holds(m, s, M.n) /\ store[s] \in [Keys -> Slot] /\ val[m] \in Contents
  BY BodyFacts DEF M
<1>3. /\ Old \in Slot /\ Unbox(Old) = val[m][k]
      /\ Unbox(slot) \in Values \cup {absent} /\ k \in Keys
  BY <1>2, UnboxBox DEF Old, Holds
<1>4. map \in Contents /\ size \in Nat
  BY <1>2, <1>3, SizePatch, SizeNat
<1>5. h # m /\ h # Empty /\ s \in Stores
  BY <1>2 DEF TypeOK
<1>6. /\ DOMAIN node' = DOMAIN node \cup {h} /\ node'[h] = Root(s, size)
      /\ node'[m] = Diff(k, Old, h)
      /\ \A g \in DOMAIN node : g # h /\ (g # m => node'[g] = node[g])
      /\ DOMAIN val' = DOMAIN node \cup {h} /\ val'[h] = map
      /\ \A g \in DOMAIN node : val'[g] = val[g]
  BY <1>2, <1>5 DEF Flipped, Put, TypeOK
<1>7. /\ DOMAIN store' = DOMAIN store /\ store'[s] = [store[s] EXCEPT ![k] = slot]
      /\ \A x \in DOMAIN store : x # s => store'[x] = store[x]
      /\ store' \in [DOMAIN store' -> [Keys -> Slot]]
  BY <1>2 DEF Flipped, TypeOK
<1>8. val[m] = Patch(map, k, Unbox(Old))
  BY <1>2, <1>3 DEF Patch, Contents
<1>9. \A x \in Keys : Unbox(store'[s][x]) = map[x]
  BY <1>2, <1>3, <1>7 DEF Holds, Patch, Contents
<1>10. \A g \in DOMAIN node : IF node[g].t = nil
                              THEN node[g].p \in DOMAIN node
                              ELSE node[g].t \in DOMAIN store /\ (g # m => node[g].t # s)
  BY <1>2 DEF TypeOK, OneRootPerStore
<1>11. Diff(k, Old, h).t = nil /\ Diff(k, Old, h).p = h /\ Diff(k, Old, h).k = k
       /\ Diff(k, Old, h).v = Old /\ Root(s, size).t = s /\ Root(s, size).n = size
       /\ Root(s, size).p = nil
  BY DEF Diff, Root
<1> HIDE DEF m, s, k
<1>a. /\ node'[h].t = s /\ node'[h].n = size /\ node'[h].p = nil /\ s # nil
      /\ node'[m].t = nil /\ node'[m].p = h /\ node'[m].k = k /\ node'[m].v = Old
      /\ m # h /\ m \in DOMAIN node /\ h \in DOMAIN node' /\ s \in DOMAIN store
  BY <1>2, <1>5, <1>6, <1>11
<1>b. ASSUME NEW g \in DOMAIN node'
      PROVE  g = h \/ g = m \/ (g \in DOMAIN node /\ g # m /\ g # h /\ node'[g] = node[g])
  BY <1>6
<1>12. TypeOK'
  <2>1. Root(s, size) \in Roots /\ Diff(k, Old, h) \in Diffs
    BY <1>3, <1>4, <1>5 DEF Root, Roots, Diff, Diffs
  <2>2. node' \in [DOMAIN node' -> Roots \cup Diffs]
    <3>1. ASSUME NEW g \in DOMAIN node' PROVE node'[g] \in Roots \cup Diffs
      <4>1. CASE g = h
        BY <4>1, <2>1, <1>6
      <4>2. CASE g = m
        BY <4>2, <2>1, <1>6
      <4>3. CASE g \in DOMAIN node /\ node'[g] = node[g]
        BY <4>3 DEF TypeOK
      <4> QED BY <4>1, <4>2, <4>3, <1>b
    <3>2. node' = [g \in DOMAIN node' |-> node'[g]]
      BY DEF Flipped, Put
    <3> QED BY <3>1, <3>2
  <2>3. val' \in [DOMAIN node' -> Contents]
    BY <1>4, <1>6 DEF Flipped, Put, TypeOK
  <2>4. NoCall \in [op : Ops, m : DOMAIN node', k : Keys \cup {nil}, v : Values \cup Contents]
    BY <1>6 DEF NoCall, Call, Ops, Values, TypeOK
  <2>5. path' \in Seq(DOMAIN node')
    BY <1>1, EmptySeq
  <2>6. shows' \in Seq(Frames')
    <3>1. Frames \subseteq Frames'
      BY <1>6 DEF Frames
    <3> QED BY <3>1, SeqMonotonic DEF TypeOK
  <2>7. \A g \in DOMAIN node' : IF node'[g].t = nil THEN node'[g].p \in DOMAIN node'
                                                   ELSE node'[g].t \in DOMAIN store'
    <3>1. ASSUME NEW g \in DOMAIN node, g # m
          PROVE  IF node'[g].t = nil THEN node'[g].p \in DOMAIN node'
                                     ELSE node'[g].t \in DOMAIN store'
      BY <3>1, <1>6, <1>7, <1>10
    <3>2. node'[h].t # nil /\ node'[h].t \in DOMAIN store'
      BY <1>a, <1>7
    <3>3. node'[m].t = nil /\ node'[m].p \in DOMAIN node'
      BY <1>a
    <3> QED BY <3>1, <3>2, <3>3, <1>b
  <2>8. DOMAIN node' \subseteq Handles /\ Empty \in DOMAIN node' /\ DOMAIN store' \subseteq Stores
    BY <1>6, <1>7 DEF TypeOK
  <2>9. store' \in [DOMAIN store' -> [Keys -> Slot]]
    BY <1>7
  <2>10. /\ pc' \in {"idle", "walk", "rotate", "replay", "body", "build"}
         /\ pc' \notin {"walk", "rotate", "replay", "body", "build"}
         /\ call' \in [op : Ops, m : DOMAIN node', k : Keys \cup {nil},
                       v : Values \cup Contents]
         /\ cur' \in DOMAIN node' /\ n' \in Int
    BY <1>1, <2>4, <2>8
  <2> QED BY <2>2, <2>3, <2>5, <2>6, <2>7, <2>8, <2>9, <2>10 DEF TypeOK
<1>13. Consistent'
  <2>1. /\ \A x \in Keys : Unbox(store'[s][x]) = val'[h][x]
        /\ size = Size(val'[h])
    BY <1>6, <1>9
  <2>2. ASSUME NEW g \in DOMAIN node, g # m
        PROVE  IF node'[g].t # nil
               THEN Holds(g, node[g].t, node[g].n)'
               ELSE val'[g] = Patch(val'[node'[g].p], node'[g].k, Unbox(node'[g].v))
    <3>0. node'[g] = node[g] /\ val'[g] = val[g]
      BY <2>2, <1>6
    <3>1. CASE node[g].t = nil
      <4>1. val[g] = Patch(val[node[g].p], node[g].k, Unbox(node[g].v))
        BY <3>1 DEF Consistent
      <4>2. val'[node[g].p] = val[node[g].p]
        BY <3>1, <1>6, <1>10
      <4> QED BY <3>0, <3>1, <4>1, <4>2
    <3>2. CASE node[g].t # nil
      <4>1. Holds(g, node[g].t, node[g].n)
        BY <3>2 DEF Consistent
      <4>2. store'[node[g].t] = store[node[g].t]
        BY <2>2, <3>2, <1>7, <1>10
      <4> QED BY <3>0, <3>2, <4>1, <4>2 DEF Holds
    <3> QED BY <3>1, <3>2
  <2>3. ASSUME NEW g \in DOMAIN node'
        PROVE  IF node'[g].t # nil
               THEN Holds(g, node[g].t, node[g].n)'
               ELSE val'[g] = Patch(val'[node'[g].p], node'[g].k, Unbox(node'[g].v))
    <3>1. CASE g = h
      BY <3>1, <2>1, <1>a DEF Holds
    <3>2. CASE g = m
      BY <3>2, <1>a, <1>6, <1>8
    <3> QED BY <3>1, <3>2, <2>2, <1>b
  <2> QED BY <2>3, <1>1 DEF Consistent
<1>14. OneRootPerStore'
  <2>1. ASSUME NEW g \in DOMAIN node', node'[g].t = s PROVE g = h
    <3>1. g # m
      BY <2>1, <1>a
    <3>2. CASE g \in DOMAIN node /\ node'[g] = node[g]
      BY <2>1, <3>1, <3>2, <1>10, <1>a
    <3> QED BY <3>1, <3>2, <1>b
  <2>2. ASSUME NEW f \in DOMAIN node', NEW g \in DOMAIN node',
               node'[f].t # nil, node'[f].t = node'[g].t
        PROVE  f = g
    <3>1. CASE node'[f].t = s
      BY <2>1, <2>2, <3>1
    <3>2. CASE node'[f].t # s
      <4>1. f # h /\ g # h /\ f # m /\ g # m
        BY <2>2, <3>2, <1>a
      <4>2. /\ f \in DOMAIN node /\ g \in DOMAIN node
            /\ node'[f] = node[f] /\ node'[g] = node[g]
        BY <4>1, <1>b
      <4> QED BY <2>2, <4>2 DEF OneRootPerStore
    <3> QED BY <3>1, <3>2
  <2> QED BY <2>2, <1>1 DEF OneRootPerStore
<1>15. EmptyFrozen'
  <2>1. m # Empty /\ Empty \in DOMAIN node /\ Empty # nil
    BY EmptyAssumption, NilAssumption DEF TypeOK, m
  <2>2. node'[Empty] = node[Empty] /\ node[Empty].t # nil /\ node[Empty].t \in DOMAIN store
    BY <2>1, <1>6, <1>10 DEF EmptyFrozen
  <2>3. store'[node[Empty].t] = store[node[Empty].t]
    BY <2>1, <2>2, <1>7, <1>10
  <2>4. ASSUME NEW g \in DOMAIN node' PROVE node'[g].p # Empty
    <3>1. CASE g = h \/ g = m
      BY <3>1, <2>1, <1>5, <1>a
    <3>2. CASE g \in DOMAIN node /\ node'[g] = node[g]
      BY <3>2 DEF EmptyFrozen
    <3> QED BY <3>1, <3>2, <1>b
  <2> QED BY <2>2, <2>3, <2>4 DEF EmptyFrozen
<1>16. ChainLinked' /\ Replaying' /\ Rerooting' /\ Building'
  BY <1>1 DEF ChainLinked, Replaying, Rerooting, Building
<1>17. ShowsFaithful'
  <2>1. ASSUME NEW i \in 1 .. Len(shows') PROVE FrameFaithful(shows[i])'
    <3>1. FrameFaithful(shows[i])
      BY DEF ShowsFaithful
    <3>2. shows[i] \in Frames
      BY ElementOfSeq DEF TypeOK
    <3>3. shows[i].m \in DOMAIN node /\ shows[i].left \in SUBSET Keys
      BY <3>2 DEF Frames
    <3> QED BY <3>1, <3>3, <1>6 DEF FrameFaithful
  <2> QED BY <2>1 DEF ShowsFaithful
<1>18. AnswersFaithful'
  BY <1>1 DEF AnswersFaithful
<1>19. Acyclic'
  <2>1. PICK rank \in [DOMAIN node -> Int] : Ranking(rank)
    BY DEF Acyclic
  <2>a. PICK low \in Int : low = rank[m] - 1 /\ rank[m] \in Int
    BY <1>2
  <2> DEFINE new == Put(rank, h, low)
  <2>2. /\ new \in [DOMAIN node' -> Int] /\ new[h] = rank[m] - 1 /\ rank[m] \in Int
        /\ \A g \in DOMAIN node : new[g] = rank[g]
    BY <2>a, <1>2, <1>6 DEF Put
  <2> HIDE DEF new
  <2>3. ASSUME NEW g \in DOMAIN node', node'[g].t = nil
        PROVE  new[node'[g].p] < new[g]
    <3>1. CASE g = m
      <4>1. new[h] < new[m]
        <5>1. new[m] = rank[m]
          BY <2>2, <1>a
        <5> QED BY <2>2, <5>1
      <4>2. node'[g].p = h
        BY <3>1, <1>a
      <4> QED BY <3>1, <4>1, <4>2
    <3>2. CASE g # m
      <4>1. g \in DOMAIN node /\ node'[g] = node[g]
        BY <3>2, <2>3, <1>a, <1>b
      <4>2. rank[node[g].p] < rank[g] /\ node[g].p \in DOMAIN node
        BY <2>1, <2>3, <4>1, <1>10 DEF Ranking
      <4> QED BY <2>2, <4>1, <4>2
    <3> QED BY <3>1, <3>2
  <2>4. Ranking(new)'
    BY <2>3, <1>1 DEF Ranking
  <2> QED BY <2>2, <2>4 DEF Acyclic
<1> QED BY <1>12, <1>13, <1>14, <1>15, <1>16, <1>17, <1>18, <1>19

\* Both cases of a write: hmEmpty is copied, any other map is flipped.
LEMMA WriteInv ==
    ASSUME Inv, pc = "body", call.k \in Keys,
           NEW h \in Handles \ DOMAIN node, NEW slot \in Slot, NEW size,
           NEW map, map = Patch(val[call.m], call.k, Unbox(slot)), size = Size(map),
           Write(h, slot, size), val' = Put(val, h, map),
           NEW answer, Return(answer), answer.op \notin {"lookup", "size", "list"},
           UNCHANGED shows
    PROVE  Inv'
<1>1. CASE call.m # Empty
  BY <1>1, FlipInv DEF Write, Flipped
<1>2. CASE call.m = Empty
  <2>1. PICK c \in Stores \ DOMAIN store :
          /\ store' = Put(store, c, [store[M.t] EXCEPT ![call.k] = slot])
          /\ node' = Put(node, h, Root(c, size))
    BY <1>2 DEF Write
  <2>2. /\ M.t \in DOMAIN store /\ store[M.t] \in [Keys -> Slot] /\ val[call.m] \in Contents
        /\ Holds(call.m, M.t, M.n)
    BY BodyFacts
  <2>3. map \in Contents
    BY <2>2, UnboxBox, SizePatch
  <2>4. /\ DOMAIN store' = DOMAIN store \cup {c}
        /\ store'[c] = [store[M.t] EXCEPT ![call.k] = slot]
        /\ \A x \in DOMAIN store : store'[x] = store[x]
    BY <2>1 DEF Put
  <2>5. store' \in [DOMAIN store' -> [Keys -> Slot]]
    BY <2>1, <2>2 DEF Put, Inv, TypeOK
  <2>6. \A k \in Keys : Unbox(store'[c][k]) = map[k]
    BY <2>2, <2>4 DEF Holds, Patch, Contents
  <2>7. /\ \A g \in DOMAIN node : node[g].t # c
        /\ DOMAIN store' \subseteq Stores
    <3>1. c # nil /\ c \notin DOMAIN store
      BY <2>1, NilAssumption
    <3>2. \A g \in DOMAIN node : node[g].t # nil => node[g].t \in DOMAIN store
      BY DEF Inv, TypeOK
    <3>3. DOMAIN store' \subseteq Stores
      BY <2>1, <2>4 DEF Inv, TypeOK
    <3> QED BY <3>1, <3>2, <3>3
  <2> QED BY <2>1, <2>3, <2>4, <2>5, <2>6, <2>7, NewRootInv
<1> QED BY <1>1, <1>2

\* An insert keeps the version it was given and makes the one it returns.
LEMMA InsertInv == Inv /\ Insert => Inv'
<1> SUFFICES ASSUME Inv, Insert PROVE Inv'
  OBVIOUS
<1> DEFINE map == Patch(val[call.m], call.k, call.v)
           size == IF Old = nil THEN M.n + 1 ELSE M.n
<1>1. PICK h \in Handles \ DOMAIN node :
        /\ Write(h, Box(call.v), size) /\ val' = Put(val, h, map)
        /\ Return(Answer("insert", call.m, call.k, h))
  BY DEF Insert
<1>2. pc = "body" /\ call.op = "insert" /\ UNCHANGED shows
  BY DEF Insert, Begun
<1>3. call.k \in Keys /\ call.v \in Values
  BY <1>2, BodyFacts, RequestFacts
<1>4. Box(call.v) \in Slot /\ Unbox(Box(call.v)) = call.v /\ call.v # absent
  BY <1>3, UnboxBox
<1>5. size = Size(map)
  <2>1. Old = nil <=> val[call.m][call.k] = absent
    BY <1>2, <1>3, BodyFacts DEF Old
  <2>2. M.n = Size(val[call.m]) /\ val[call.m] \in Contents
    BY <1>2, BodyFacts DEF Holds
  <2> QED BY <1>3, <1>4, <2>1, <2>2, SizePatch
<1>6. Answer("insert", call.m, call.k, h).op \notin {"lookup", "size", "list"}
  BY DEF Answer
<1> QED BY <1>1, <1>2, <1>3, <1>4, <1>5, <1>6, WriteInv

\* A delete of a present key does the same.
LEMMA DeleteInv == Inv /\ Delete => Inv'
<1> SUFFICES ASSUME Inv, Delete PROVE Inv'
  OBVIOUS
<1> DEFINE map == Patch(val[call.m], call.k, absent)
<1>1. PICK h \in Handles \ DOMAIN node :
        /\ Write(h, nil, M.n - 1) /\ val' = Put(val, h, map)
        /\ Return(Answer("delete", call.m, call.k, h))
  BY DEF Delete
<1>2. pc = "body" /\ call.op = "delete" /\ Old # nil /\ UNCHANGED shows
  BY DEF Delete, Begun
<1>3. call.k \in Keys
  BY <1>2, BodyFacts, RequestFacts
<1>4. nil \in Slot /\ Unbox(nil) = absent
  BY UnboxBox DEF Unbox
<1>5. M.n - 1 = Size(map)
  <2>1. val[call.m][call.k] # absent
    BY <1>2, <1>3, BodyFacts DEF Old
  <2>2. M.n = Size(val[call.m]) /\ val[call.m] \in Contents
    BY <1>2, BodyFacts DEF Holds
  <2> QED BY <1>3, <2>1, <2>2, SizePatch
<1>6. Answer("delete", call.m, call.k, h).op \notin {"lookup", "size", "list"}
  BY DEF Answer
<1> QED BY <1>1, <1>2, <1>3, <1>4, <1>5, <1>6, WriteInv

-------------------------------------------------------------------------------
(* The inductive invariant, and the theorems *)

\* Every step of the runtime keeps Inv.
LEMMA NextInv == Inv /\ [Next]_vars => Inv'
<1> SUFFICES ASSUME Inv, [Next]_vars PROVE Inv'
  OBVIOUS
<1>1. ASSUME NEW c \in Requests(DOMAIN node), Begin(c) PROVE Inv'
  BY <1>1, BeginInv
<1>2. CASE Reroot
  BY <1>2, WalkInv, AtRootInv, StartRotateInv, StartMaterializeInv, RotateInv,
     ReplayInv, BecomeRootInv DEF Reroot
<1>3. CASE Body
  BY <1>3, LookupInv, SizeOfInv, ListOfInv, InsertInv, DeleteMissingInv, DeleteInv,
     SnapshotInv DEF Body
<1>4. CASE FromList
  BY <1>4, FromListBeginInv, FromListAddInv, FromListEndInv DEF FromList
<1>5. CASE Show
  BY <1>5, ShowEntryInv, ShowDoneInv, RaiseInv DEF Show
<1>6. CASE UNCHANGED vars
  <2>1. TypeOK'
    BY <1>6 DEF vars, Inv, TypeOK, Frames, Requests
  <2>2. /\ Consistent' /\ OneRootPerStore' /\ EmptyFrozen'
        /\ ChainLinked' /\ Replaying' /\ Rerooting' /\ Building'
    BY <1>6 DEF vars, Inv, Consistent, Holds, OneRootPerStore, EmptyFrozen,
                ChainLinked, Replaying, Reached, Rerooting, Building
  <2>3. ShowsFaithful' /\ AnswersFaithful'
    BY <1>6 DEF vars, Inv, ShowsFaithful, FrameFaithful, AnswersFaithful
  <2>4. Acyclic'
    BY <1>6 DEF vars, Inv, Acyclic, Ranking
  <2> QED BY <2>1, <2>2, <2>3, <2>4 DEF Inv
<1> QED BY <1>1, <1>2, <1>3, <1>4, <1>5, <1>6 DEF Next

\* Inv holds in every reachable state.
LEMMA InvHolds == Spec => []Inv
<1> QED BY InitInv, NextInv, PTL DEF Spec

\* Every map value the runtime allocates keeps the shape runtime.lua 1813-1821
\* documents, through every step of every loop.
THEOREM TypeCorrect == Spec => []TypeOK
<1>1. Inv => TypeOK
  BY DEF Inv
<1> QED BY <1>1, InvHolds, PTL

\* No version leaks into another: each keeps the map it was created with,
\* while the family's single table is rotated under it or copied away.
THEOREM VersionsConsistent == Spec => []Consistent
<1>1. Inv => Consistent
  BY DEF Inv
<1> QED BY <1>1, InvHolds, PTL

\* No two map values ever own the same live table.
THEOREM RootsDisjoint == Spec => []OneRootPerStore
<1>1. Inv => OneRootPerStore
  BY DEF Inv
<1> QED BY <1>1, InvHolds, PTL

\* hmEmpty stays an empty root, whatever is derived from it.
THEOREM EmptyStaysFrozen == Spec => []EmptyFrozen
<1>1. Inv => EmptyFrozen
  BY DEF Inv
<1> QED BY <1>1, InvHolds, PTL

\* Every answer is that of an independent copy of the version asked.
THEOREM EveryAnswerFaithful == Spec => []AnswersFaithful
<1>1. Inv => AnswersFaithful
  BY DEF Inv
<1> QED BY <1>1, InvHolds, PTL

-------------------------------------------------------------------------------
(* Refinement *)

\* The runtime starts as the abstract maps do.
LEMMA InitRefines == Init => Abstract!Init
BY DEF Init, Abstract!Init, NoAnswer, Answer, Abstract!NoAnswer, Abstract!Answer

\* The end of a lookup is the abstract lookup in the same version.
LEMMA LookupRefines ==
    ASSUME Inv, Inv', NEW m \in DOMAIN node, NEW k \in Keys, NEW res, UNCHANGED val,
           ret' = Answer("lookup", m, k, res)
    PROVE  Abstract!Next
<1>1. m \in DOMAIN val /\ AnswersFaithful'
  BY DEF Inv, TypeOK
<1>2. res = val[m][k]
  BY <1>1 DEF AnswersFaithful, Answer
<1>3. Abstract!Lookup(m, k)
  BY <1>2 DEF Abstract!Lookup, Abstract!Answer, Answer
<1> QED BY <1>1, <1>3 DEF Abstract!Next

\* So is the end of a size or an enumeration.
LEMMA EnumerationRefines ==
    ASSUME Inv, Inv', NEW m \in DOMAIN node, NEW res, UNCHANGED val,
           NEW op \in {"size", "list"}, ret' = Answer(op, m, absent, res)
    PROVE  Abstract!Next
<1>1. m \in DOMAIN val /\ AnswersFaithful'
  BY DEF Inv, TypeOK
<1>2. CASE op = "size"
  <2>1. res = Size(val[m])
    BY <1>1, <1>2 DEF AnswersFaithful, Answer
  <2>2. Size(val[m]) = Abstract!Size(val[m])
    BY DEF Size, Abstract!Size, Cardinality, Abstract!Cardinality
  <2>3. Abstract!SizeOf(m)
    BY <1>2, <2>1, <2>2 DEF Abstract!SizeOf, Abstract!Answer, Answer
  <2> QED BY <1>1, <2>3 DEF Abstract!Next
<1>3. CASE op = "list"
  <2>1. res = Abstract!Entries(val[m])
    BY <1>1, <1>3 DEF AnswersFaithful, Answer, Entries, Abstract!Entries
  <2>2. Abstract!ListOf(m)
    BY <1>3, <2>1 DEF Abstract!ListOf, Abstract!Answer, Answer
  <2> QED BY <1>1, <2>2 DEF Abstract!Next
<1> QED BY <1>2, <1>3

\* An answerless step at a read or a force is the abstract Ask.
LEMMA AskRefines == ret' = NoAnswer /\ UNCHANGED val => Abstract!Next
BY DEF Abstract!Next, Abstract!Ask, NoAnswer, Answer, Abstract!NoAnswer, Abstract!Answer

\* A new version is the abstract creation of the map it was meant to be.
LEMMA CreateRefines ==
    ASSUME NEW h \in Handles \ DOMAIN node, NEW map, Inv, val' = Put(val, h, map)
    PROVE  Abstract!Create(h, map)
BY DEF Inv, TypeOK, Abstract!Create, Put

\* The end of an insert is the abstract insert.
LEMMA InsertRefines == Inv /\ Insert => Abstract!Next
<1> SUFFICES ASSUME Inv, Insert PROVE Abstract!Next
  OBVIOUS
<1>1. PICK h \in Handles \ DOMAIN node :
        /\ val' = Put(val, h, Patch(val[call.m], call.k, call.v))
        /\ ret' = Answer("insert", call.m, call.k, h)
  BY DEF Insert, Return
<1>2. pc = "body" /\ call.op = "insert"
  BY DEF Insert, Begun
<1>3. call.m \in DOMAIN val /\ call.k \in Keys /\ call.v \in Values
  BY <1>2, BodyFacts, RequestFacts DEF Inv, TypeOK
<1>4. Abstract!Create(h, [val[call.m] EXCEPT ![call.k] = call.v])
  BY <1>1, CreateRefines DEF Patch
<1>5. Abstract!Insert(call.m, call.k, call.v)
  BY <1>1, <1>4 DEF Abstract!Insert, Abstract!Answer, Answer
<1> QED BY <1>3, <1>5 DEF Abstract!Next

\* The end of a delete is the abstract delete.
LEMMA DeleteRefines == Inv /\ Delete => Abstract!Next
<1> SUFFICES ASSUME Inv, Delete PROVE Abstract!Next
  OBVIOUS
<1>1. PICK h \in Handles \ DOMAIN node :
        /\ val' = Put(val, h, Patch(val[call.m], call.k, absent))
        /\ ret' = Answer("delete", call.m, call.k, h)
  BY DEF Delete, Return
<1>2. pc = "body" /\ call.op = "delete" /\ Old # nil
  BY DEF Delete, Begun
<1>3. call.m \in DOMAIN val /\ call.k \in Keys
  BY <1>2, BodyFacts, RequestFacts DEF Inv, TypeOK
<1>4. val[call.m][call.k] # absent
  BY <1>2, <1>3, BodyFacts DEF Old
<1>5. Abstract!Create(h, [val[call.m] EXCEPT ![call.k] = absent])
  BY <1>1, CreateRefines DEF Patch
<1>6. Abstract!Delete(call.m, call.k)
  BY <1>1, <1>4, <1>5 DEF Abstract!Delete, Abstract!Answer, Answer
<1> QED BY <1>3, <1>6 DEF Abstract!Next

\* A delete that finds nothing is the abstract delete of a missing key.
LEMMA DeleteMissingRefines == Inv /\ DeleteMissing => Abstract!Next
<1> SUFFICES ASSUME Inv, DeleteMissing PROVE Abstract!Next
  OBVIOUS
<1>1. /\ pc = "body" /\ call.op = "delete" /\ Old = nil /\ UNCHANGED val
      /\ ret' = Answer("delete", call.m, call.k, call.m)
  BY DEF DeleteMissing, Begun, Return
<1>2. call.m \in DOMAIN val /\ call.k \in Keys
  BY <1>1, BodyFacts, RequestFacts DEF Inv, TypeOK
<1>3. val[call.m][call.k] = absent
  BY <1>1, <1>2, BodyFacts DEF Old
<1>4. Abstract!DeleteMissing(call.m, call.k)
  BY <1>1, <1>3 DEF Abstract!DeleteMissing, Abstract!Answer, Answer
<1> QED BY <1>2, <1>4 DEF Abstract!Next

\* The end of a fromList is the abstract fromList of what was added.
LEMMA FromListRefines == Inv /\ FromListEnd => Abstract!Next
<1> SUFFICES ASSUME Inv, FromListEnd PROVE Abstract!Next
  OBVIOUS
<1>1. PICK h \in Handles \ DOMAIN node :
        val' = Put(val, h, call.v) /\ ret' = Answer("fromList", h, absent, h)
  BY DEF FromListEnd, Return
<1>2. call.v \in Abstract!Contents
  BY DEF FromListEnd, Inv, TypeOK, Contents, Abstract!Contents
<1>3. Abstract!Create(h, call.v)
  BY <1>1, CreateRefines
<1>4. Abstract!FromList(call.v)
  BY <1>1, <1>3 DEF Abstract!FromList, Abstract!Answer, Answer
<1> QED BY <1>2, <1>4 DEF Abstract!Next

\* Every step of the runtime is an abstract step or changes nothing abstract.
LEMMA StepRefines == Inv /\ Inv' /\ [Next]_vars => [Abstract!Next]_<<val, ret>>
<1> SUFFICES ASSUME Inv, Inv', [Next]_vars PROVE [Abstract!Next]_<<val, ret>>
  OBVIOUS
<1>1. ASSUME NEW c \in Requests(DOMAIN node), Begin(c) PROVE Abstract!Next
  BY <1>1, AskRefines DEF Begin
<1>2. CASE Reroot
  BY <1>2 DEF Reroot, Walk, AtRoot, StartRotate, StartMaterialize, Rotate, Replay, BecomeRoot
<1>3. CASE Body
  <2>1. CASE Lookup
    <3>1. call.m \in DOMAIN node /\ call.k \in Keys
      BY <2>1, BodyFacts, RequestFacts DEF Lookup, Begun, Inv, TypeOK
    <3> QED BY <2>1, <3>1, LookupRefines DEF Lookup, Return
  <2>2. CASE SizeOf \/ ListOf
    <3>1. call.m \in DOMAIN node
      BY DEF Inv, TypeOK
    <3>2. PICK res : \/ ret' = Answer("size", call.m, absent, res)
                     \/ ret' = Answer("list", call.m, absent, res)
      BY <2>2 DEF SizeOf, ListOf, Return
    <3>3. UNCHANGED val
      BY <2>2 DEF SizeOf, ListOf
    <3>4. PICK op \in {"size", "list"} : ret' = Answer(op, call.m, absent, res)
      BY <3>2
    <3> QED BY <3>1, <3>3, <3>4, EnumerationRefines
  <2>3. CASE Snapshot
    BY <2>3, AskRefines DEF Snapshot, Return
  <2> QED BY <1>3, <2>1, <2>2, <2>3, InsertRefines, DeleteRefines, DeleteMissingRefines DEF Body
<1>4. CASE FromList
  <2>1. CASE FromListBegin
    BY <2>1, AskRefines DEF FromListBegin
  <2>2. ASSUME NEW k \in Keys, NEW v \in Values, FromListAdd(k, v)
        PROVE  UNCHANGED <<val, ret>>
    BY <2>2 DEF FromListAdd
  <2> QED BY <1>4, <2>1, <2>2, FromListRefines DEF FromList
<1>5. CASE Show
  <2>1. CASE ShowEntry \/ Raise
    BY <2>1, AskRefines DEF ShowEntry, Raise
  <2>2. CASE ShowDone
    <3>1. Last(shows).m \in DOMAIN node
      BY <2>2, LastShow DEF ShowDone, Frames
    <3>2. ret' = Answer("list", Last(shows).m, absent, Last(shows).out) /\ UNCHANGED val
      BY <2>2 DEF ShowDone
    <3> QED BY <3>1, <3>2, EnumerationRefines
  <2> QED BY <1>5, <2>1, <2>2 DEF Show
<1>6. CASE UNCHANGED vars
  BY <1>6 DEF vars
<1> QED BY <1>1, <1>2, <1>3, <1>4, <1>5, <1>6 DEF Next

\* The destructive, rerooting runtime implements the persistent maps the
\* language promises: whatever the order of reads and writes, no program can
\* tell them from maps that are copied on every write.
THEOREM Refinement == Spec => ImplementsPersistentMaps
<1> QED BY InvHolds, InitRefines, StepRefines, PTL DEF Spec, ImplementsPersistentMaps, Abstract!Spec

-------------------------------------------------------------------------------
(* Structural keys: the inductive invariant *)

\* The map a reroot is asked for is a diff until the table becomes its own;
\* the holder has either not been flipped yet, or owns no table.
TargetIsDiff ==
    /\ pc \in {"rotate", "replay"} => node[call.m].t = nil
    /\ pc = "rotate" => node[cur].t \in {nil, t}

\* Some map value owns the live table s, or the rotation in progress is
\* carrying it from its old owner to its new one.
Owned(s) ==
    \/ \E g \in DOMAIN node : node[g].t = s
    \/ pc = "rotate" /\ s = t

\* A suspended read names a map and a key, and holds an owned table.
ReadOwned(r) ==
    /\ r.m \in DOMAIN node
    /\ r.k \in Keys
    /\ r.t \in Stores
    /\ Owned(r.t)

Read == [m : Handles, k : Keys, t : Stores]

ReadsOwned ==
    /\ reads \in Seq(Read)
    /\ \A i \in 1 .. Len(reads) : ReadOwned(reads[i])

SInv == Inv /\ TargetIsDiff /\ ReadsOwned

-------------------------------------------------------------------------------
(* No step leaves a table without an owner *)

\* No map value is forgotten, and the owner a table loses in a step is
\* followed by another.
TablesKept ==
    /\ DOMAIN node \subseteq DOMAIN node'
    /\ \A s \in Stores : Owned(s) => Owned(s)'

\* Steps that leave the map values alone, outside a rotation.
LEMMA QuietKeepsTables == UNCHANGED node /\ pc # "rotate" => TablesKept
BY DEF TablesKept, Owned

\* The rotation takes the table from the holder it flips.
LEMMA RotateKeepsTables == Inv /\ TargetIsDiff /\ Rotate => TablesKept
<1> SUFFICES ASSUME Inv, TargetIsDiff, Rotate PROVE TablesKept
  OBVIOUS
<1>1. /\ pc = "rotate" /\ pc' = "rotate" /\ t' = t /\ node' = FlipHolder(Last(path))
      /\ node \in [DOMAIN node -> Roots \cup Diffs] /\ node[cur].t \in {nil, t}
  BY DEF Rotate, Inv, TypeOK, TargetIsDiff
<1>2. DOMAIN node' = DOMAIN node
  BY <1>1 DEF FlipHolder
<1>3. ASSUME NEW s \in Stores, Owned(s) PROVE Owned(s)'
  <2>1. CASE s = t
    BY <1>1, <2>1 DEF Owned
  <2>2. CASE s # t
    <3>1. PICK g \in DOMAIN node : node[g].t = s
      BY <1>3, <2>2 DEF Owned
    <3>2. g # cur
      BY <1>1, <2>2, <3>1, NilAssumption
    <3>3. node'[g].t = s
      BY <1>1, <3>1, <3>2 DEF FlipHolder
    <3> QED BY <1>2, <3>3 DEF Owned
  <2> QED BY <2>1, <2>2
<1> QED BY <1>2, <1>3 DEF TablesKept

\* The map that becomes the root owned nothing before.
LEMMA BecomeRootKeepsTables == Inv /\ TargetIsDiff /\ BecomeRoot => TablesKept
<1> SUFFICES ASSUME Inv, TargetIsDiff, BecomeRoot PROVE TablesKept
  OBVIOUS
<1>1. /\ node' = [node EXCEPT ![call.m] = Root(t, n)] /\ node[call.m].t = nil
      /\ node \in [DOMAIN node -> Roots \cup Diffs] /\ call.m \in DOMAIN node
  BY DEF BecomeRoot, Inv, TypeOK, TargetIsDiff
<1>2. DOMAIN node' = DOMAIN node /\ node'[call.m].t = t
  BY <1>1 DEF Root
<1>3. ASSUME NEW s \in Stores, Owned(s) PROVE Owned(s)'
  <2>1. CASE s = t
    BY <1>1, <1>2, <2>1 DEF Owned
  <2>2. CASE s # t
    <3>1. PICK g \in DOMAIN node : node[g].t = s
      BY <1>3, <2>2 DEF Owned
    <3>2. g # call.m
      BY <1>1, <3>1, NilAssumption
    <3>3. node'[g].t = s
      BY <1>1, <3>1, <3>2
    <3> QED BY <1>2, <3>1, <3>3 DEF Owned
  <2> QED BY <2>1, <2>2
<1> QED BY <1>2, <1>3 DEF TablesKept

\* A write hands the table of the version it was given to the one it makes;
\* hmEmpty keeps its own.
LEMMA WriteKeepsTables ==
    ASSUME Inv, pc = "body", NEW h \in Handles \ DOMAIN node, NEW slot, NEW size,
           Write(h, slot, size)
    PROVE  TablesKept
<1>1. node \in [DOMAIN node -> Roots \cup Diffs] /\ call.m \in DOMAIN node
  BY DEF Inv, TypeOK
<1>2. CASE call.m = Empty
  <2>1. PICK c : node' = Put(node, h, Root(c, size))
    BY <1>2 DEF Write
  <2>2. DOMAIN node \subseteq DOMAIN node' /\ \A g \in DOMAIN node : node'[g] = node[g]
    BY <2>1 DEF Put
  <2> QED BY <2>2 DEF TablesKept, Owned
<1>3. CASE call.m # Empty
  <2>1. node' = Put([node EXCEPT ![call.m] = Diff(call.k, Old, h)], h, Root(M.t, size))
    BY <1>3 DEF Write
  <2>2. /\ DOMAIN node \subseteq DOMAIN node' /\ h \in DOMAIN node'
        /\ node'[h].t = node[call.m].t
        /\ \A g \in DOMAIN node : g # call.m => node'[g] = node[g]
    BY <1>1, <2>1 DEF Put, Root, M
  <2>3. ASSUME NEW s \in Stores, Owned(s) PROVE Owned(s)'
    <3>1. PICK g \in DOMAIN node : node[g].t = s
      BY <2>3 DEF Owned
    <3> QED BY <2>2, <3>1 DEF Owned
  <2> QED BY <2>2, <2>3 DEF TablesKept
<1> QED BY <1>2, <1>3

\* So does every operation of the runtime.
LEMMA OthersKeepTables == Inv /\ TargetIsDiff /\ Others => TablesKept
<1> SUFFICES ASSUME Inv, TargetIsDiff, Others PROVE TablesKept
  OBVIOUS
<1>1. CASE Reroot
  <2>1. CASE Walk \/ AtRoot \/ StartRotate \/ StartMaterialize \/ Replay
    BY <2>1, QuietKeepsTables DEF Walk, AtRoot, StartRotate, StartMaterialize, Replay
  <2> QED BY <1>1, <2>1, RotateKeepsTables, BecomeRootKeepsTables DEF Reroot
<1>2. CASE SizeOf \/ ListOf \/ DeleteMissing
  BY <1>2, QuietKeepsTables DEF SizeOf, ListOf, DeleteMissing, Begun
<1>3. CASE Insert \/ Delete
  BY <1>3, WriteKeepsTables DEF Insert, Delete, Begun
<1>4. CASE FromList
  <2>1. CASE FromListBegin \/ \E k \in Keys, v \in Values : FromListAdd(k, v)
    BY <2>1, QuietKeepsTables DEF FromListBegin, FromListAdd
  <2>2. CASE FromListEnd
    <3>1. PICK h \in Handles \ DOMAIN node : node' = Put(node, h, Root(t, n))
      BY <2>2 DEF FromListEnd
    <3>2. DOMAIN node \subseteq DOMAIN node' /\ \A g \in DOMAIN node : node'[g] = node[g]
      BY <3>1 DEF Put
    <3> QED BY <2>2, <3>2 DEF TablesKept, Owned, FromListEnd
  <2> QED BY <1>4, <2>1, <2>2 DEF FromList
<1> QED BY <1>1, <1>2, <1>3, <1>4 DEF Others

-------------------------------------------------------------------------------
(* Every step keeps the invariant *)

\* Suspended reads outlive every step that keeps the tables owned.
LEMMA ReadsKept == ReadsOwned /\ TablesKept /\ UNCHANGED reads => ReadsOwned'
BY DEF ReadsOwned, ReadOwned, TablesKept

\* A read that has just begun finds the table of its map.
LEMMA FetchReads == SInv /\ Fetch => ReadsOwned'
<1> SUFFICES ASSUME SInv, Fetch PROVE ReadsOwned'
  OBVIOUS
<1>1. /\ pc = "body" /\ call.op = "lookup" /\ UNCHANGED node /\ Inv
      /\ reads' = Append(reads, [m |-> call.m, k |-> call.k, t |-> M.t])
  BY DEF Fetch, Begun, SInv
<1>2. /\ call.m \in DOMAIN node /\ call.k \in Keys /\ M.t \in DOMAIN store
      /\ DOMAIN node \subseteq Handles /\ DOMAIN store \subseteq Stores
  BY <1>1, BodyFacts, RequestFacts DEF Inv, TypeOK
<1>3. PICK m \in DOMAIN node : m = call.m
  BY <1>2
<1>4. PICK r \in Read : r = [m |-> m, k |-> call.k, t |-> node[m].t]
  BY <1>2, <1>3 DEF Read, M
<1>5. ReadOwned(r)'
  BY <1>1, <1>2, <1>3, <1>4 DEF ReadOwned, Owned, Read
<1>6. reads' = Append(reads, r) /\ reads \in Seq(Read)
  BY <1>1, <1>3, <1>4 DEF SInv, ReadsOwned, M
<1>7. ReadsOwned /\ TablesKept
  BY <1>1, QuietKeepsTables DEF SInv
<1>8. ASSUME NEW i \in 1 .. Len(reads') PROVE ReadOwned(reads[i])'
  <2>1. PICK q : q = reads'[i]
    OBVIOUS
  <2>2. CASE i = Len(reads) + 1
    BY <1>5, <1>6, <2>1, <2>2
  <2>3. CASE i # Len(reads) + 1
    <3>1. i \in 1 .. Len(reads) /\ q = reads[i]
      BY <1>6, <2>1, <2>3
    <3>2. ReadOwned(q)'
      BY <1>7, <3>1 DEF ReadsOwned, ReadOwned, TablesKept
    <3> QED BY <2>1, <3>2
  <2> QED BY <2>2, <2>3
<1> QED BY <1>6, <1>8 DEF ReadsOwned

\* Leaving some reads leaves the others as they were.
LEMMA ReadsLeft ==
    ASSUME ReadsOwned, UNCHANGED <<node, pc>>, pc = "idle",
           NEW e \in 0 .. Len(reads), reads' = SubSeq(reads, 1, e)
    PROVE  ReadsOwned'
<1>1. /\ reads' \in Seq(Read) /\ Len(reads') = e
      /\ \A i \in 1 .. e : reads'[i] = reads[i]
  BY DEF ReadsOwned
<1>2. ASSUME NEW i \in 1 .. Len(reads') PROVE ReadOwned(reads[i])'
  <2>1. PICK q : q = reads[i] /\ q = reads'[i]
    BY <1>1
  <2>2. ReadOwned(q)
    BY <1>1, <2>1 DEF ReadsOwned
  <2>3. ReadOwned(q)'
    BY <2>2 DEF ReadOwned, Owned
  <2> QED BY <2>1, <2>3
<1> QED BY <1>1, <1>2 DEF ReadsOwned

\* A reroot starts at a diff, and flips its holder into one.
LEMMA RerootTarget == Inv /\ TargetIsDiff /\ Reroot => TargetIsDiff'
<1> SUFFICES ASSUME Inv, TargetIsDiff, Reroot PROVE TargetIsDiff'
  OBVIOUS
<1>1. /\ call.m \in DOMAIN node /\ cur \in DOMAIN node /\ path \in Seq(DOMAIN node)
      /\ node \in [DOMAIN node -> Roots \cup Diffs]
  BY DEF Inv, TypeOK
<1>2. CASE Walk \/ AtRoot \/ BecomeRoot
  BY <1>2 DEF TargetIsDiff, Walk, AtRoot, BecomeRoot
<1>3. CASE StartRotate \/ StartMaterialize
  <2>1. /\ pc = "walk" /\ UNCHANGED <<node, call, path, cur>> /\ node[cur].t # nil
        /\ Len(path) \in 1 .. Cap(node[cur].n) \/ Len(path) > Cap(node[cur].n)
    BY <1>3 DEF StartRotate, StartMaterialize
  <2>2. node[cur] \in Roots
    BY <1>1, <2>1 DEF Diffs
  <2>3. Cap(node[cur].n) \in Nat
    BY <2>2, BoundAssumption DEF Cap, Roots
  <2>4. path # <<>>
    BY <2>1, <2>3
  <2>5. node[call.m].t = nil
    BY <1>1, <2>1, <2>4, FrontProperties DEF Inv, ChainLinked
  <2> QED BY <1>3, <2>1, <2>5 DEF TargetIsDiff, StartRotate, StartMaterialize
<1>4. CASE Rotate
  <2>1. /\ pc = "rotate" /\ pc' = "rotate" /\ UNCHANGED <<call, t>> /\ path # <<>>
        /\ node' = FlipHolder(Last(path)) /\ cur' = Last(path)
    BY <1>4 DEF Rotate
  <2>2. PICK d \in DOMAIN node : d = Last(path) /\ node[d].t = nil
    BY <1>1, <2>1, FrontProperties DEF Inv, ChainLinked
  <2>3. \A g \in DOMAIN node : node'[g].t \in {nil, node[g].t}
    BY <1>1, <2>1 DEF FlipHolder, Diff
  <2> QED BY <1>1, <2>1, <2>2, <2>3 DEF TargetIsDiff
<1>5. CASE Replay
  BY <1>5 DEF TargetIsDiff, Replay
<1> QED BY <1>2, <1>3, <1>4, <1>5 DEF Reroot

\* Every other step leaves no reroot in progress.
LEMMA IdleTarget == pc' \notin {"rotate", "replay"} => TargetIsDiff'
BY DEF TargetIsDiff

\* At startup no read is suspended.
LEMMA SInitInv == SInit => SInv
<1> SUFFICES ASSUME SInit PROVE SInv
  OBVIOUS
<1>1. Inv
  BY InitInv DEF SInit
<1>2. pc = "idle" /\ reads = <<>> /\ reads \in Seq(Read) /\ Len(reads) = 0
  BY DEF SInit, Init
<1> QED BY <1>1, <1>2 DEF SInv, TargetIsDiff, ReadsOwned

\* Every step of the runtime and of the reads keeps SInv.
LEMMA SNextInv == SInv /\ [SNext]_svars => SInv'
<1> SUFFICES ASSUME SInv, [SNext]_svars PROVE SInv'
  OBVIOUS
<1>1. Inv /\ TargetIsDiff /\ ReadsOwned
  BY DEF SInv
<1>2. ASSUME NEW c \in Requests(DOMAIN node), SBegin(c) PROVE SInv'
  <2>1. Begin(c) /\ UNCHANGED <<node, reads>> /\ pc = "idle" /\ pc' = "walk"
    BY <1>2 DEF SBegin, Begin
  <2>2. TargetIsDiff'
    BY <2>1, IdleTarget
  <2> QED BY <1>1, <2>1, <2>2, BeginInv, QuietKeepsTables, ReadsKept DEF SInv
<1>3. CASE Fetch
  <2>1. pc = "body" /\ Return(NoAnswer) /\ UNCHANGED <<node, store, val, shows>>
    BY <1>3 DEF Fetch, Begun
  <2>2. shows' \in Seq(Frames) /\ ShowsFaithful' /\ AnswersFaithful'
    BY <1>1, <2>1 DEF Inv, TypeOK, ShowsFaithful, FrameFaithful, AnswersFaithful,
                      Return, NoAnswer, Answer
  <2>3. Inv'
    BY <1>1, <2>1, <2>2, ReturnInv
  <2>4. TargetIsDiff'
    BY <2>1, IdleTarget DEF Return
  <2> QED BY <1>3, <2>3, <2>4, FetchReads DEF SInv
<1>4. CASE Index \/ EncodeRaises
  <2>1. /\ pc = "idle" /\ ret' = NoAnswer
        /\ UNCHANGED <<node, store, val, pc, call, regs, shows>>
    BY <1>4 DEF Index, EncodeRaises
  <2>2. shows' \in Seq(Frames) /\ ShowsFaithful' /\ AnswersFaithful'
    BY <1>1, <2>1 DEF Inv, TypeOK, ShowsFaithful, FrameFaithful, AnswersFaithful,
                      NoAnswer, Answer
  <2>3. Inv'
    BY <1>1, <2>1, <2>2, ShowStepInv
  <2>4. TargetIsDiff'
    BY <2>1, IdleTarget
  <2>5. Len(reads) \in Nat /\ (reads # <<>> => Len(reads) # 0)
    BY <1>1, EmptySeq DEF ReadsOwned
  <2>6. \E e \in 0 .. Len(reads) : reads' = SubSeq(reads, 1, e)
    <3>1. CASE Index
      <4>1. reads' = SubSeq(reads, 1, Len(reads) - 1) /\ reads # <<>>
        BY <3>1 DEF Index, Front
      <4> QED BY <2>5, <4>1
    <3>2. CASE EncodeRaises
      <4>1. PICK i \in 1 .. Len(reads) : reads' = SubSeq(reads, 1, i - 1)
        BY <3>2 DEF EncodeRaises
      <4> QED BY <2>5, <4>1
    <3> QED BY <1>4, <3>1, <3>2
  <2> QED BY <1>1, <2>1, <2>3, <2>4, <2>6, ReadsLeft DEF SInv
<1>5. CASE Others
  <2>1. Inv'
    BY <1>1, <1>5, NextInv DEF Others, Next, Body
  <2>2. TargetIsDiff'
    <3>1. CASE Reroot
      BY <1>1, <3>1, RerootTarget
    <3>2. CASE ~Reroot
      <4>1. pc' \notin {"rotate", "replay"}
        BY <1>5, <3>2 DEF Others, SizeOf, ListOf, Insert, DeleteMissing, Delete, Return,
                          FromList, FromListBegin, FromListAdd, FromListEnd
      <4> QED BY <4>1, IdleTarget
    <3> QED BY <3>1, <3>2
  <2> QED BY <1>1, <1>5, <2>1, <2>2, OthersKeepTables, ReadsKept DEF SInv, Others
<1>6. CASE UNCHANGED svars
  <2>1. UNCHANGED vars /\ UNCHANGED <<node, pc, call, cur, t, reads>>
    BY <1>6 DEF svars, vars, regs
  <2> QED BY <1>1, <2>1, NextInv
          DEF SInv, TargetIsDiff, ReadsOwned, ReadOwned, Owned
<1> QED BY <1>2, <1>3, <1>4, <1>5, <1>6 DEF SNext

\* SInv holds in every reachable state.
LEMMA SInvHolds == SSpec => []SInv
<1> QED BY SInitInv, SNextInv, PTL DEF SSpec

-------------------------------------------------------------------------------
(* The theorems *)

\* What a read finds in the table it fetched is what its owner has.
LEMMA IndexAnswers ==
    ASSUME SInv, Index
    PROVE  /\ Last(reads) = reads[Len(reads)] /\ ReadOwned(Last(reads))
           /\ \A g \in DOMAIN node :
                node[g].t = Last(reads).t => got'.res = val[g][Last(reads).k]
<1>1. Consistent /\ pc = "idle" /\ reads # <<>>
  BY DEF SInv, Inv, Index
<1>2. /\ Len(reads) \in 1 .. Len(reads) /\ Last(reads) = reads[Len(reads)]
  <2>1. reads \in Seq(Read) /\ Len(reads) \in Nat \ {0}
    BY <1>1, EmptySeq DEF SInv, ReadsOwned
  <2> QED BY <2>1 DEF Last
<1>3. PICK r : r = Last(reads) /\ ReadOwned(r)
  BY <1>2 DEF SInv, ReadsOwned
<1>4. got'.res = Unbox(store[r.t][r.k])
  BY <1>3 DEF Index, Answer
<1>5. ASSUME NEW g \in DOMAIN node, node[g].t = r.t PROVE got'.res = val[g][r.k]
  <2>1. node[g].t # nil /\ r.k \in Keys
    BY <1>3, <1>5, NilAssumption DEF ReadOwned
  <2> QED BY <1>1, <1>4, <1>5, <2>1 DEF Consistent, Holds
<1> QED BY <1>2, <1>3, <1>5

\* A read whose encoder left its version at the root of the family answers as
\* an independent copy of that version would.
THEOREM StructuralReads == SSpec => AnswersUnlessRerooted
<1>1. SInv /\ Index => LET r == Last(reads)
                       IN  node[r.m].t = r.t => got'.res = val[r.m][r.k]
  BY IndexAnswers DEF ReadOwned
<1> QED BY <1>1, SInvHolds, PTL DEF AnswersUnlessRerooted

\* Whatever the encoder ran, the table it fetched has an owner again when it is
\* indexed, and the answer is that version's.
THEOREM StructuralOwners == SSpec => AnswersTableOwner
<1>1. SInv /\ Index => LET r == Last(reads)
                       IN  \E g \in DOMAIN node :
                               node[g].t = r.t /\ got'.res = val[g][r.k]
  <2> SUFFICES ASSUME SInv, Index
               PROVE  \E g \in DOMAIN node :
                        node[g].t = Last(reads).t /\ got'.res = val[g][Last(reads).k]
    OBVIOUS
  <2>1. PICK r : r = Last(reads) /\ ReadOwned(r) /\ pc = "idle"
    BY IndexAnswers DEF Index
  <2>2. PICK g \in DOMAIN node : node[g].t = r.t
    BY <2>1 DEF ReadOwned, Owned
  <2> QED BY <2>1, <2>2, IndexAnswers
<1> QED BY <1>1, SInvHolds, PTL DEF AnswersTableOwner

\* The operations an encoder runs in the middle of a read leave every version
\* of the family its own map.
THEOREM StructuralVersions == SSpec => []Consistent
<1>1. SInv => Consistent
  BY DEF SInv, Inv
<1> QED BY <1>1, SInvHolds, PTL

(***************************************************************************)
(* NaN keys keep the order of their inserts.                               *)
(*                                                                         *)
(* The order of a map's stamps is not inductive alone: an insert stamps    *)
(* its entry with a counter that inserts nested in its encoder moved, and  *)
(* adds it to a map it chose before they ran.  What saves it: the map an   *)
(* insert works on holds no stamp above the counter the insert saved, and  *)
(* stays as it is, for inserts make new maps; so a counter that has moved  *)
(* is above every stamp of that map.                                       *)
(***************************************************************************)

NanInsert == [m : Maps, seq : Nat, left : 0 .. MaxWidth, nan : BOOLEAN]

Stacked == inserts \in Seq(NanInsert) /\ DOMAIN maps \subseteq Maps

\* No stamp is above the counter.
StampsCounted ==
    \A m \in DOMAIN maps : \A i \in DOMAIN maps[m] : maps[m][i].stamp <= nan_seq

\* The map an insert works on holds no stamp above the counter it saved, which
\* moves on when a component is a NaN.
SavedCounted ==
    \A c \in DOMAIN inserts :
        /\ inserts[c].nan => inserts[c].seq < nan_seq
        /\ \A i \in DOMAIN maps[inserts[c].m] : maps[inserts[c].m][i].stamp <= inserts[c].seq

NanInv == Stacked /\ NanTypeOK /\ StampsCounted /\ SavedCounted /\ NanInOrder

-------------------------------------------------------------------------------
(* What the operators on sequences return. *)

\* An entry taken out leaves the others in their order.
LEMMA RemoveAtFacts ==
    ASSUME NEW S, NEW s \in Seq(S), NEW i \in DOMAIN s
    PROVE  /\ RemoveAt(s, i) \in Seq(S)
           /\ DOMAIN RemoveAt(s, i) = 1 .. Len(s) - 1
           /\ \A j \in 1 .. i - 1 : RemoveAt(s, i)[j] = s[j]
           /\ \A j \in i .. Len(s) - 1 : RemoveAt(s, i)[j] = s[j + 1]
<1> DEFINE a == SubSeq(s, 1, i - 1)
           b == SubSeq(s, i + 1, Len(s))
<1>1. /\ a \in Seq(S) /\ Len(a) = i - 1
      /\ \A j \in 1 .. i - 1 : a[j] = s[j]
  OBVIOUS
<1>2. /\ b \in Seq(S) /\ Len(b) = Len(s) - i
      /\ \A j \in 1 .. Len(s) - i : b[j] = s[i + j]
  OBVIOUS
<1>3. RemoveAt(s, i) = a \o b
  BY DEF RemoveAt
<1> HIDE DEF a, b
<1>4. a \o b \in Seq(S) /\ Len(a \o b) = Len(s) - 1 /\ DOMAIN (a \o b) = 1 .. Len(s) - 1
  BY <1>1, <1>2
<1>5. \A j \in 1 .. Len(s) - 1 : (a \o b)[j] = IF j <= i - 1 THEN a[j] ELSE b[j - (i - 1)]
  BY <1>1, <1>2
<1>6. ASSUME NEW j \in 1 .. i - 1 PROVE (a \o b)[j] = s[j]
  BY <1>1, <1>5
<1>7. ASSUME NEW j \in i .. Len(s) - 1 PROVE (a \o b)[j] = s[j + 1]
  <2> DEFINE k == j - (i - 1)
  <2>1. k \in 1 .. Len(s) - i /\ i + k = j + 1 /\ ~(j <= i - 1) /\ j \in 1 .. Len(s) - 1
    OBVIOUS
  <2>2. (a \o b)[j] = b[k]
    BY <1>5, <2>1
  <2>3. b[k] = s[i + k]
    BY <1>2, <2>1
  <2> QED BY <2>1, <2>2, <2>3
<1> QED BY <1>3, <1>4, <1>6, <1>7

\* new: e, and before it c entries of old in their order, those from these places;
\* when e has an ordinary key, none of them has it.
Extension(old, e, new, c, from) ==
    /\ from \in [1 .. c -> DOMAIN old]
    /\ new \in Seq(Entry)
    /\ DOMAIN new = 1 .. c + 1
    /\ new[c + 1] = e
    /\ \A i \in 1 .. c : new[i] = old[from[i]]
    /\ \A i, j \in 1 .. c : i < j => from[i] < from[j]
    /\ e.key # nan => \A i \in 1 .. c : old[from[i]].key # e.key

\* A map with an entry added holds it last, after the entries that stay.
LEMMA AddedFacts ==
    ASSUME NEW entries \in Seq(Entry), NEW e \in Entry,
           \A i, j \in DOMAIN entries :
                entries[i].key = entries[j].key => entries[i].key = nan \/ i = j
    PROVE  \E c \in Nat : \E from : Extension(entries, e, Added(entries, e), c, from)
<1>1. CASE Replaces(entries, e.key)
  <2> DEFINE p == Place(entries, e.key)
             c == Len(entries) - 1
             from == [i \in 1 .. c |-> IF i < p THEN i ELSE i + 1]
  <2>1. p \in DOMAIN entries /\ entries[p].key = e.key /\ e.key # nan
    BY <1>1 DEF Replaces, Place
  <2>2. Added(entries, e) = Append(RemoveAt(entries, p), e)
    BY <1>1 DEF Added
  <2> HIDE DEF p
  <2>3. c \in Nat /\ from \in [1 .. c -> DOMAIN entries]
    BY <2>1
  <2>4. /\ RemoveAt(entries, p) \in Seq(Entry)
        /\ DOMAIN RemoveAt(entries, p) = 1 .. c
        /\ \A j \in 1 .. c : RemoveAt(entries, p)[j] = entries[from[j]]
    BY <2>1, RemoveAtFacts
  <2>5. \A i, j \in 1 .. c : i < j => from[i] < from[j]
    BY <2>1
  <2>6. \A i \in 1 .. c : from[i] # p
    BY <2>1
  <2>7. \A i \in 1 .. c : entries[from[i]].key # e.key
    BY <2>1, <2>3, <2>6
  <2> HIDE DEF c, from
  <2>8. Len(RemoveAt(entries, p)) = c
    BY <2>3, <2>4
  <2>9. /\ Added(entries, e) \in Seq(Entry)
        /\ DOMAIN Added(entries, e) = 1 .. c + 1
        /\ Added(entries, e)[c + 1] = e
        /\ \A i \in 1 .. c : Added(entries, e)[i] = entries[from[i]]
    BY <2>2, <2>3, <2>4, <2>8
  <2>10. Extension(entries, e, Added(entries, e), c, from)
    BY <2>3, <2>5, <2>7, <2>9 DEF Extension
  <2> QED BY <2>3, <2>10
<1>2. CASE ~Replaces(entries, e.key)
  <2> DEFINE c == Len(entries)
             from == [i \in 1 .. c |-> i]
  <2>1. Added(entries, e) = Append(entries, e)
    BY <1>2 DEF Added
  <2>2. e.key # nan => \A i \in DOMAIN entries : entries[i].key # e.key
    BY <1>2 DEF Replaces
  <2>3. c \in Nat /\ from \in [1 .. c -> DOMAIN entries]
    OBVIOUS
  <2>4. \A i \in 1 .. c : from[i] = i /\ from[i] \in DOMAIN entries
    OBVIOUS
  <2>5. /\ Added(entries, e) \in Seq(Entry)
        /\ DOMAIN Added(entries, e) = 1 .. c + 1
        /\ Added(entries, e)[c + 1] = e
        /\ \A i \in 1 .. c : Added(entries, e)[i] = entries[from[i]]
    BY <2>1
  <2>6. \A i, j \in 1 .. c : i < j => from[i] < from[j]
    BY <2>4
  <2>7. e.key # nan => \A i \in 1 .. c : entries[from[i]].key # e.key
    BY <2>2, <2>4
  <2> HIDE DEF c, from
  <2>8. Extension(entries, e, Added(entries, e), c, from)
    BY <2>3, <2>5, <2>6, <2>7 DEF Extension
  <2> QED BY <2>3, <2>8
<1> QED BY <1>1, <1>2

-------------------------------------------------------------------------------
(* The invariant. *)

\* The top of the stack of inserts, and what setting it or popping it leaves.
LEMMA InnerFacts ==
    ASSUME Stacked, inserts # <<>>
    PROVE  /\ Len(inserts) \in DOMAIN inserts /\ Inner = inserts[Len(inserts)]
           /\ Inner \in NanInsert
  BY DEF Stacked, Inner, Last

LEMMA SetInnerFacts ==
    ASSUME Stacked, inserts # <<>>, NEW f \in NanInsert
    PROVE  /\ SetInner(f) \in Seq(NanInsert) /\ DOMAIN SetInner(f) = DOMAIN inserts
           /\ \A c \in DOMAIN inserts : SetInner(f)[c] = IF c = Len(inserts) THEN f ELSE inserts[c]
  BY DEF Stacked, SetInner

LEMMA NanInitInv == NanInit => NanInv
  BY NanKeysAssumption DEF NanInit, NanInv, Stacked, NanTypeOK, StampsCounted, SavedCounted,
     NanInOrder

LEMMA MapsTyped ==
    ASSUME NanTypeOK
    PROVE  \A m \in DOMAIN maps :
            /\ maps[m] \in Seq(Entry)
            /\ \A i \in DOMAIN maps[m] : maps[m][i] \in Entry /\ maps[m][i].stamp \in Nat
<1>1. \A m \in DOMAIN maps : maps[m] \in Seq(Entry)
  BY DEF NanTypeOK
<1>2. \A s \in Seq(Entry) : \A i \in DOMAIN s : s[i] \in Entry
  OBVIOUS
<1>3. \A e \in Entry : e.stamp \in Nat
  BY NanKeysAssumption DEF Entry
<1> QED BY <1>1, <1>2, <1>3

\* The maps an insert works on and the stamps in them stay as they are while the
\* stack changes into one whose inserts were there, or carry on what was there.
LEMMA StackChanges ==
    ASSUME NanInv, inserts' \in Seq(NanInsert), UNCHANGED maps,
           nan_seq' \in nan_seq .. MaxSeq,
           \A c \in DOMAIN inserts' : \E o \in DOMAIN inserts :
                /\ inserts'[c].m = inserts[o].m /\ inserts'[c].seq = inserts[o].seq
                /\ inserts'[c].nan = inserts[o].nan \/ nan_seq' > nan_seq
    PROVE  NanInv'
<1> USE NanKeysAssumption DEF NanInv
<1>1. Stacked'
  BY DEF Stacked
<1>2. NanTypeOK'
  <2>1. ASSUME NEW c \in DOMAIN inserts'
        PROVE  /\ inserts'[c].m \in DOMAIN maps /\ inserts'[c].left \in 0 .. MaxWidth
               /\ inserts'[c].seq \in 0 .. nan_seq' /\ inserts'[c].nan \in BOOLEAN
    <3>1. PICK o \in DOMAIN inserts : inserts'[c].m = inserts[o].m /\ inserts'[c].seq = inserts[o].seq
      OBVIOUS
    <3>2. inserts'[c] \in NanInsert
      OBVIOUS
    <3>3. inserts[o].m \in DOMAIN maps /\ inserts[o].seq \in 0 .. nan_seq /\ nan_seq \in 0 .. MaxSeq
      BY DEF NanTypeOK
    <3> QED BY <3>1, <3>2, <3>3 DEF NanInsert
  <2>2. nan_seq' \in 0 .. MaxSeq
    BY DEF NanTypeOK
  <2> QED BY <2>1, <2>2 DEF NanTypeOK
<1>3. StampsCounted'
  <2>1. maps \in [DOMAIN maps -> Seq(Entry)] /\ nan_seq \in 0 .. MaxSeq
    BY DEF NanTypeOK
  <2>2. \A m \in DOMAIN maps : \A i \in DOMAIN maps[m] : maps[m][i].stamp \in Nat
    BY MapsTyped
  <2>3. nan_seq' \in Nat /\ nan_seq <= nan_seq' /\ maps' = maps
    BY <2>1
  <2> QED BY <2>1, <2>2, <2>3 DEF StampsCounted
<1>4. SavedCounted'
  <2> SUFFICES ASSUME NEW c \in DOMAIN inserts'
               PROVE  /\ inserts'[c].nan => inserts'[c].seq < nan_seq'
                      /\ \A i \in DOMAIN maps[inserts'[c].m] :
                            maps[inserts'[c].m][i].stamp <= inserts'[c].seq
    BY DEF SavedCounted
  <2>1. PICK o \in DOMAIN inserts :
                /\ inserts'[c].m = inserts[o].m /\ inserts'[c].seq = inserts[o].seq
                /\ inserts'[c].nan = inserts[o].nan \/ nan_seq' > nan_seq
    OBVIOUS
  <2>2. inserts[o].seq \in 0 .. nan_seq /\ nan_seq \in Nat /\ nan_seq' \in Nat
    BY DEF NanTypeOK
  <2>3. \A i \in DOMAIN maps[inserts[o].m] : maps[inserts[o].m][i].stamp <= inserts[o].seq
    BY DEF SavedCounted
  <2>4. inserts'[c].nan => inserts'[c].seq < nan_seq'
    <3>1. inserts[o].nan => inserts[o].seq < nan_seq
      BY DEF SavedCounted
    <3>2. nan_seq <= nan_seq'
      BY <2>2
    <3>3. CASE inserts'[c].nan = inserts[o].nan
      BY <2>1, <2>2, <3>1, <3>2, <3>3
    <3>4. CASE nan_seq' > nan_seq
      BY <2>1, <2>2, <3>4
    <3> QED BY <2>1, <3>3, <3>4
  <2> QED BY <2>1, <2>3, <2>4
<1>5. NanInOrder'
  BY DEF NanInOrder
<1> QED BY <1>1, <1>2, <1>3, <1>4, <1>5

\* An insert that finishes makes a map of the one it chose.
LEMMA InsertEndInv == NanInv /\ InsertEnd => NanInv'
<1> SUFFICES ASSUME NanInv, InsertEnd PROVE NanInv'
  OBVIOUS
<1> USE NanKeysAssumption DEF NanInv
<1> DEFINE stamp == IF nan_seq # Inner.seq THEN nan_seq ELSE 0
<1>1. PICK h \in Maps \ DOMAIN maps, k \in IF Inner.nan THEN {nan} ELSE OrdinaryKeys :
        maps' = [x \in DOMAIN maps \cup {h} |->
                    IF x = h THEN Added(maps[Inner.m], [key |-> k, stamp |-> stamp]) ELSE maps[x]]
  BY DEF InsertEnd
<1> DEFINE e == [key |-> k, stamp |-> stamp]
           old == maps[Inner.m]
<1>2. inserts # <<>> /\ inserts' = Front(inserts) /\ nan_seq' = nan_seq
  BY DEF InsertEnd
<1>3. Len(inserts) \in DOMAIN inserts /\ Inner = inserts[Len(inserts)] /\ Inner \in NanInsert
  BY <1>2, InnerFacts
<1>4. Inner.m \in DOMAIN maps /\ Inner.seq \in 0 .. nan_seq /\ nan_seq \in 0 .. MaxSeq
  BY <1>3 DEF NanTypeOK
<1>5. old \in Seq(Entry) /\ \A i \in DOMAIN old : old[i].stamp \in Nat /\ old[i].stamp <= Inner.seq
  BY <1>3, <1>4, MapsTyped DEF SavedCounted
<1>6. Inner.nan => Inner.seq < nan_seq
  BY <1>3 DEF SavedCounted
<1>7. /\ e \in Entry /\ e.key = k /\ e.stamp = stamp
      /\ stamp \in 0 .. nan_seq /\ (stamp = 0 \/ stamp > Inner.seq)
  BY <1>4 DEF Entry, NanInsert
<1>8. k = nan => stamp # 0
  BY <1>3, <1>4, <1>6 DEF NanInsert
<1>9. \A i, j \in DOMAIN old : old[i].key = old[j].key => old[i].key = nan \/ i = j
  BY <1>4 DEF NanTypeOK
<1> DEFINE new == Added(old, e)
<1>12. /\ DOMAIN maps' = DOMAIN maps \cup {h} /\ maps'[h] = new
       /\ \A m \in DOMAIN maps : maps'[m] = maps[m] /\ m # h
  BY <1>1
<1> HIDE DEF e, old, stamp
<1>10. PICK c \in Nat : \E from : Extension(old, e, new, c, from)
  BY <1>5, <1>7, <1>9, AddedFacts
<1>11. PICK from : Extension(old, e, new, c, from)
  BY <1>10
<1> HIDE DEF new
<1>13. DOMAIN inserts' \subseteq DOMAIN inserts /\ inserts' \in Seq(NanInsert)
       /\ \A i \in DOMAIN inserts' : inserts'[i] = inserts[i]
  BY <1>2 DEF Front, Stacked
<1>14. \A i \in DOMAIN new : i = c + 1 \/ (i \in 1 .. c /\ from[i] \in DOMAIN old)
  BY <1>11 DEF Extension
<1>15. \A i, j \in 1 .. c : i # j => from[i] # from[j]
  <2> SUFFICES ASSUME NEW i \in 1 .. c, NEW j \in 1 .. c, i # j PROVE from[i] # from[j]
    OBVIOUS
  <2>1. from[i] \in Int /\ from[j] \in Int
    BY <1>5, <1>11 DEF Extension
  <2> QED BY <2>1, <1>11 DEF Extension
<1>16. Stacked'
  BY <1>12, <1>13 DEF Stacked
<1>17. NanTypeOK'
  <2>1. maps' \in [DOMAIN maps' -> Seq(Entry)] /\ EmptyMap \in DOMAIN maps'
    BY <1>1, <1>11, <1>12, MapsTyped DEF NanTypeOK, Extension
  <2>2. \A m \in DOMAIN maps' : \A i, j \in DOMAIN maps'[m] :
            maps'[m][i].key = maps'[m][j].key => maps'[m][i].key = nan \/ i = j
    <3>1. \A i, j \in DOMAIN new : new[i].key = new[j].key => new[i].key = nan \/ i = j
      BY <1>7, <1>9, <1>11, <1>14, <1>15 DEF Extension
    <3> QED BY <1>12, <3>1 DEF NanTypeOK
  <2>3. \A i \in DOMAIN inserts' :
            /\ inserts'[i].m \in DOMAIN maps' /\ inserts'[i].left \in 0 .. MaxWidth
            /\ inserts'[i].seq \in 0 .. nan_seq' /\ inserts'[i].nan \in BOOLEAN
    BY <1>2, <1>12, <1>13 DEF NanTypeOK
  <2> QED BY <1>2, <1>4, <2>1, <2>2, <2>3 DEF NanTypeOK
<1>18. StampsCounted'
  <2>1. ASSUME NEW i \in DOMAIN new PROVE new[i].stamp <= nan_seq
    <3>1. CASE i = c + 1
      BY <3>1, <1>4, <1>7, <1>11 DEF Extension
    <3>2. CASE i \in 1 .. c /\ from[i] \in DOMAIN old
      BY <3>2, <1>4, <1>5, <1>11 DEF Extension
    <3> QED BY <3>1, <3>2, <1>14
  <2> QED BY <1>2, <1>12, <2>1 DEF StampsCounted
<1>19. SavedCounted'
  BY <1>2, <1>12, <1>13 DEF SavedCounted, NanTypeOK
<1>20. NanInOrder'
  <2>1. \A i \in DOMAIN new : new[i].key = nan => new[i].stamp # 0
    BY <1>4, <1>7, <1>8, <1>11, <1>14 DEF NanInOrder, Extension, old
  <2>2. ASSUME NEW i \in DOMAIN new, NEW j \in DOMAIN new, i < j,
               new[i].stamp # 0, new[j].stamp # 0
        PROVE  new[i].stamp < new[j].stamp
    <3>1. i \in 1 .. c /\ from[i] \in DOMAIN old /\ new[i] = old[from[i]]
      BY <2>2, <1>11, <1>14 DEF Extension
    <3>2. CASE j = c + 1
      <4>1. new[j] = e /\ e.stamp = stamp
        BY <3>2, <1>7, <1>11 DEF Extension
      <4>2. stamp > Inner.seq /\ stamp \in Nat /\ Inner.seq \in Nat
        BY <2>2, <4>1, <1>4, <1>7
      <4>3. new[i].stamp <= Inner.seq /\ new[i].stamp \in Nat
        BY <3>1, <1>5
      <4> QED BY <4>1, <4>2, <4>3
    <3>3. CASE j # c + 1
      <4>1. from[j] \in DOMAIN old /\ new[j] = old[from[j]] /\ from[i] < from[j]
        BY <2>2, <3>1, <3>3, <1>11, <1>14 DEF Extension
      <4> QED BY <2>2, <3>1, <4>1, <1>4 DEF NanInOrder, old
    <3> QED BY <3>2, <3>3
  <2> QED BY <1>12, <2>1, <2>2 DEF NanInOrder
<1> QED BY <1>16, <1>17, <1>18, <1>19, <1>20

LEMMA NanNextInv == NanInv /\ [NanNext]_nanVars => NanInv'
<1> SUFFICES ASSUME NanInv, [NanNext]_nanVars PROVE NanInv'
  OBVIOUS
<1> USE NanKeysAssumption
<1>1. nan_seq \in 0 .. MaxSeq /\ Stacked
  BY DEF NanInv, NanTypeOK
<1>2. CASE InsertBegin
  <2>1. PICK m \in DOMAIN maps, width \in 0 .. MaxWidth :
            inserts' = Append(inserts, [m |-> m, seq |-> nan_seq, left |-> width, nan |-> FALSE])
    BY <1>2 DEF InsertBegin
  <2> DEFINE f == [m |-> m, seq |-> nan_seq, left |-> width, nan |-> FALSE]
  <2>2. f \in NanInsert
    BY <1>1 DEF NanInsert, Stacked
  <2>3. /\ inserts' \in Seq(NanInsert) /\ DOMAIN inserts' = 1 .. Len(inserts) + 1
        /\ \A c \in DOMAIN inserts' : inserts'[c] = IF c = Len(inserts) + 1 THEN f ELSE inserts[c]
        /\ \A c \in DOMAIN inserts' : c # Len(inserts) + 1 => c \in DOMAIN inserts
    BY <1>1, <2>1, <2>2 DEF Stacked
  <2>4. f.m = m /\ f.seq = nan_seq /\ f.nan = FALSE /\ f.left = width /\ f.nan \in BOOLEAN
    OBVIOUS
  <2> HIDE DEF f
  <2>5. maps' = maps /\ nan_seq' = nan_seq
    BY <1>2 DEF InsertBegin
  <2>6. Stacked' /\ StampsCounted' /\ NanInOrder'
    BY <2>3, <2>5 DEF NanInv, Stacked, StampsCounted, NanInOrder
  <2>7. NanTypeOK'
    <3>1. ASSUME NEW c \in DOMAIN inserts'
          PROVE  /\ inserts'[c].m \in DOMAIN maps /\ inserts'[c].left \in 0 .. MaxWidth
                 /\ inserts'[c].seq \in 0 .. nan_seq /\ inserts'[c].nan \in BOOLEAN
      <4>1. CASE c = Len(inserts) + 1
        BY <4>1, <1>1, <2>3, <2>4
      <4>2. CASE c # Len(inserts) + 1
        BY <4>2, <2>3 DEF NanInv, NanTypeOK
      <4> QED BY <4>1, <4>2
    <3> QED BY <2>5, <3>1 DEF NanInv, NanTypeOK
  <2>8. SavedCounted'
    BY <2>3, <2>4, <2>5 DEF NanInv, SavedCounted, StampsCounted
  <2> QED BY <2>6, <2>7, <2>8 DEF NanInv
<1>3. CASE EncodeOrdinary
  <2>1. inserts # <<>> /\ Inner.left > 0 /\ inserts' = SetInner([Inner EXCEPT !.left = @ - 1])
        /\ maps' = maps /\ nan_seq' = nan_seq
    BY <1>3 DEF EncodeOrdinary
  <2>2. Len(inserts) \in DOMAIN inserts /\ Inner = inserts[Len(inserts)] /\ Inner \in NanInsert
    BY <1>1, <2>1, InnerFacts
  <2> DEFINE f == [Inner EXCEPT !.left = @ - 1]
  <2>3. f \in NanInsert /\ f.m = Inner.m /\ f.seq = Inner.seq /\ f.nan = Inner.nan
    BY <2>1, <2>2 DEF NanInsert
  <2> HIDE DEF f
  <2>4. /\ inserts' \in Seq(NanInsert) /\ DOMAIN inserts' = DOMAIN inserts
        /\ \A c \in DOMAIN inserts : inserts'[c] = IF c = Len(inserts) THEN f ELSE inserts[c]
    BY <1>1, <2>1, <2>3, SetInnerFacts DEF f
  <2> QED BY <1>1, <2>1, <2>2, <2>3, <2>4, StackChanges
<1>4. CASE EncodeNan
  <2>1. inserts # <<>> /\ Inner.left > 0
        /\ inserts' = SetInner([Inner EXCEPT !.left = @ - 1, !.nan = TRUE])
        /\ maps' = maps /\ nan_seq < MaxSeq /\ nan_seq' = nan_seq + 1
    BY <1>4 DEF EncodeNan
  <2>2. Len(inserts) \in DOMAIN inserts /\ Inner = inserts[Len(inserts)] /\ Inner \in NanInsert
    BY <1>1, <2>1, InnerFacts
  <2> DEFINE f == [Inner EXCEPT !.left = @ - 1, !.nan = TRUE]
  <2>3. f \in NanInsert /\ f.m = Inner.m /\ f.seq = Inner.seq
    <3>1. Inner.left \in 0 .. MaxWidth /\ Inner.left - 1 \in 0 .. MaxWidth
      BY <2>1, <2>2 DEF NanInsert
    <3> DEFINE g == [Inner EXCEPT !.left = Inner.left - 1]
    <3>2. g \in NanInsert /\ g.m = Inner.m /\ g.seq = Inner.seq
      BY <2>2, <3>1 DEF NanInsert
    <3>3. f = [g EXCEPT !.nan = TRUE]
      OBVIOUS
    <3> HIDE DEF g
    <3>4. [g EXCEPT !.nan = TRUE] \in NanInsert
      BY <3>2 DEF NanInsert
    <3>5. [g EXCEPT !.nan = TRUE].m = g.m /\ [g EXCEPT !.nan = TRUE].seq = g.seq
      BY <3>2 DEF NanInsert
    <3> QED BY <3>2, <3>3, <3>4, <3>5
  <2> HIDE DEF f
  <2>4. /\ inserts' \in Seq(NanInsert) /\ DOMAIN inserts' = DOMAIN inserts
        /\ \A c \in DOMAIN inserts : inserts'[c] = IF c = Len(inserts) THEN f ELSE inserts[c]
    BY <1>1, <2>1, <2>3, SetInnerFacts DEF f
  <2>5. nan_seq' \in nan_seq .. MaxSeq /\ nan_seq' > nan_seq
    BY <1>1, <2>1
  <2> QED BY <2>1, <2>2, <2>3, <2>4, <2>5, StackChanges
<1>5. CASE Mint
  <2>1. maps' = maps /\ inserts' = inserts /\ nan_seq < MaxSeq /\ nan_seq' = nan_seq + 1
    BY <1>5 DEF Mint
  <2>2. nan_seq' \in nan_seq .. MaxSeq /\ inserts' \in Seq(NanInsert)
    BY <1>1, <2>1 DEF Stacked
  <2> QED BY <2>1, <2>2, StackChanges
<1>6. CASE EncoderRaises
  <2>1. maps' = maps /\ nan_seq' = nan_seq
    BY <1>6 DEF EncoderRaises
  <2>2. /\ inserts' \in Seq(NanInsert) /\ DOMAIN inserts' \subseteq DOMAIN inserts
        /\ \A c \in DOMAIN inserts' : inserts'[c] = inserts[c]
    BY <1>1, <1>6 DEF EncoderRaises, Stacked
  <2> QED BY <1>1, <2>1, <2>2, StackChanges
<1>7. CASE UNCHANGED nanVars
  <2>1. maps' = maps /\ nan_seq' = nan_seq /\ inserts' = inserts
    BY <1>7 DEF nanVars
  <2> QED BY <1>1, <2>1, StackChanges DEF Stacked
<1> QED BY <1>2, <1>3, <1>4, <1>5, <1>6, <1>7, InsertEndInv DEF NanNext

\* Every state of every run satisfies the invariant.
THEOREM NanInvHolds == NanSpec => []NanInv
  BY NanInitInv, NanNextInv, PTL DEF NanSpec

\* Maps hold one entry for an ordinary key, and no running insert has saved a
\* counter ahead of the program's (__mll_hme_insert).
THEOREM NanTypeCorrect == NanSpec => []NanTypeOK
<1>1. NanInv => NanTypeOK
  BY DEF NanInv
<1> QED BY NanInvHolds, <1>1, PTL

\* However inserts nest in the encoders of others, every entry whose key holds a
\* NaN is stamped, and the stamps of a map order its entries by insertion without a
\* tie, as the enumerators need (__mll_hme_insert, __mll_hme_sorted).
THEOREM NanKeysOrdered == NanSpec => []NanInOrder
<1>1. NanInv => NanInOrder
  BY DEF NanInv
<1> QED BY NanInvHolds, <1>1, PTL
===============================================================================
