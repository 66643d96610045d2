----------------------------- MODULE HashMapStore -----------------------------
(***************************************************************************)
(* The HashMap runtime of mllc/src/codegen/runtime.lua: persistent maps    *)
(* over one mutable Lua table per version family.  A map value is a node:  *)
(*   a root  {t = store, n = size}    owns the live table;                 *)
(*   a diff  {k = key, v = old, p = next}  differs from p in one slot.     *)
(* A write mutates the table and flips the old root into a diff.  Reading  *)
(* an old version first reroots its family (__mll_hm_reroot).             *)
(*                                                                         *)
(* One step is one turn of one of the runtime's loops, or the straight-    *)
(* line body of one operation.  Lua is single-threaded, so nothing runs    *)
(* between two steps of an operation except where the code forces a lazy   *)
(* value; the forces of an operation's own arguments all precede its first *)
(* access to the table, so they are operations completed before its Begin, *)
(* and show_HashMap, which forces values as it walks, is suspended on      *)
(* `shows` meanwhile.                                                      *)
(*                                                                         *)
(* val is a history variable: the map the program means by each node.  It  *)
(* is written when a node is created and read by no action.                *)
(***************************************************************************)
EXTENDS Integers, Sequences, FiniteSets, SequencesExt

CONSTANTS Handles,      \* the identities of map values (Lua tables)
          Stores,       \* the identities of live tables
          Keys,         \* scalar keys, or encoded structural keys
          Vals,         \* the values other than those Lua represents as nil
          Empty,        \* hashmap_empty, the frozen shared root
          nil, nilv,    \* Lua's nil; the __mll_hm_nilv sentinel
          absent,       \* the answer for a missing key
          CapBase,      \* the least reroot cap, 16 in the code
          MaxShows      \* bound: shows suspended at once

ASSUME EmptyAssumption == Empty \in Handles

ASSUME FiniteAssumption == IsFiniteSet(Keys)

ASSUME NilAssumption ==
    /\ nil \notin Vals \cup Stores \cup Keys \cup Handles
    /\ nilv \notin Vals \cup {nil}
    /\ absent \notin Vals \cup {nil}

ASSUME BoundAssumption == CapBase \in Nat /\ MaxShows \in Nat

VARIABLES node,         \* the map values allocated so far, as the Lua fields
          store,        \* the live tables allocated so far
          val,          \* history: the map each node stands for
          pc,           \* where the running operation is
          call,         \* its name and arguments
          path, cur,    \* __mll_hm_reroot's locals: the chain, cur / holder
          t, n,         \* its locals: the table written, the running size
          shows,        \* the suspended show_HashMap calls, innermost last
          ret           \* what the last operation returned

regs == <<path, cur, t, n>>
vars == <<node, store, val, pc, call, path, cur, t, n, shows, ret>>

-------------------------------------------------------------------------------

Values == Vals \cup {nil}               \* program values: Nothing, [], () are nil
Slot == Vals \cup {nil, nilv}           \* what a table slot may hold
Contents == [Keys -> Values \cup {absent}]

\* Mutant of Box: nil is stored as it is.
BoxNothing(v) == v

\* Writing nil is Lua's delete, so a stored nil is boxed behind the sentinel...
Box(v) == IF v = nil THEN nilv ELSE v

\* ...and every read unwraps it; an empty slot is a missing key.
Unbox(s) == IF s = nil THEN absent ELSE IF s = nilv THEN nil ELSE s

Entries(map) == {<<k, map[k]>> : k \in {x \in Keys : map[x] # absent}}
Size(map) == Cardinality({k \in Keys : map[k] # absent})

\* The map that differs from map in one key.
Patch(map, k, x) == [map EXCEPT ![k] = x]

Root(s, size) == [t |-> s, n |-> size, k |-> nil, v |-> nil, p |-> nil]
Diff(k, old, next) == [t |-> nil, n |-> nil, k |-> k, v |-> old, p |-> next]

Roots == [t : Stores, n : Nat, k : {nil}, v : {nil}, p : {nil}]
Diffs == [t : {nil}, n : {nil}, k : Keys, v : Slot, p : Handles]

Put(f, x, y) == [z \in DOMAIN f \cup {x} |-> IF z = x THEN y ELSE f[z]]

Call(op, m, k, v) == [op |-> op, m |-> m, k |-> k, v |-> v]
NoCall == Call("none", Empty, nil, nil)
Answer(op, m, k, res) == [op |-> op, m |-> m, k |-> k, res |-> res]
NoAnswer == Answer("none", Empty, absent, absent)

\* The operations: hashmap_insert, hashmap_delete, hashmap_lookup (and its
\* twins __mll_hm_slot and hashmap_member, which differ in what they make of
\* the same slot), hashmap_size, the enumerators (keys, values, toList) and
\* show_HashMap.
Requests(Live) ==
    {Call("insert", m, k, v) : m \in Live, k \in Keys, v \in Values}
    \cup {Call(op, m, k, nil) : op \in {"delete", "lookup"}, m \in Live, k \in Keys}
    \cup {Call(op, m, nil, nil) : op \in {"size", "list", "show"}, m \in Live}

Init ==
    /\ \E s \in Stores :
        /\ store = [x \in {s} |-> [k \in Keys |-> nil]]
        /\ node = [h \in {Empty} |-> Root(s, 0)]
    /\ val = [h \in {Empty} |-> [k \in Keys |-> absent]]
    /\ pc = "idle" /\ call = NoCall
    /\ path = <<>> /\ cur = Empty /\ t = nil /\ n = 0
    /\ shows = <<>> /\ ret = NoAnswer

\* Leaving an operation discards its locals.
Return(answer) ==
    /\ pc' = "idle" /\ call' = NoCall
    /\ path' = <<>> /\ cur' = Empty /\ t' = nil /\ n' = 0
    /\ ret' = answer

-------------------------------------------------------------------------------
(* __mll_hm_reroot *)

\* The program (or a lazy value being forced by a suspended show) calls an
\* operation; every one starts by fetching m.t, rerooting when it is nil.
Begin(c) ==
    /\ pc = "idle"
    /\ c.op \in {"insert", "delete"} => Handles \ DOMAIN node # {}  \* bound: the heap
    /\ c.op = "show" => Len(shows) < MaxShows
    /\ call' = c /\ pc' = "walk"
    /\ path' = <<>> /\ cur' = c.m
    /\ ret' = NoAnswer
    /\ UNCHANGED <<node, store, val, t, n, shows>>

\* while cur.t == nil do path[#path + 1] = cur; cur = cur.p end
Walk ==
    /\ pc = "walk"
    /\ node[cur].t = nil
    /\ path' = Append(path, cur)
    /\ cur' = node[cur].p
    /\ UNCHANGED <<node, store, val, pc, call, t, n, shows, ret>>

Cap(size) == IF size < CapBase THEN CapBase ELSE size

\* m is the root already: t = m.t.
AtRoot ==
    /\ pc = "walk"
    /\ node[cur].t # nil
    /\ path = <<>>
    /\ pc' = "body"
    /\ UNCHANGED <<node, store, val, call, regs, shows, ret>>

\* A chain within the cap is replayed on the live table itself.
StartRotate ==
    /\ pc = "walk"
    /\ node[cur].t # nil
    /\ Len(path) \in 1 .. Cap(node[cur].n)
    /\ t' = node[cur].t /\ n' = node[cur].n
    /\ pc' = "rotate"
    /\ UNCHANGED <<node, store, val, call, path, cur, shows, ret>>

\* Mutant of StartMaterialize: the table is shared, not copied.
MaterializeShared ==
    /\ pc = "walk"
    /\ node[cur].t # nil
    /\ Len(path) > Cap(node[cur].n)
    /\ t' = node[cur].t /\ n' = node[cur].n
    /\ pc' = "replay"
    /\ UNCHANGED <<node, store, val, call, path, cur, shows, ret>>

\* A longer one on a copy, which leaves the old root alone.
StartMaterialize ==
    /\ pc = "walk"
    /\ node[cur].t # nil
    /\ Len(path) > Cap(node[cur].n)
    /\ \E c \in Stores \ DOMAIN store :
        /\ store' = Put(store, c, store[node[cur].t])
        /\ t' = c
    /\ n' = node[cur].n
    /\ pc' = "replay"
    /\ UNCHANGED <<node, val, call, path, cur, shows, ret>>

\* The size of a table after one of its slots changes.
Resize(size, old, new) ==
    IF new = nil
    THEN IF old = nil THEN size ELSE size - 1
    ELSE IF old = nil THEN size + 1 ELSE size

\* Mutant of ApplyDiff: the loop index is not decremented.
ApplyDiffForever(d) ==
    /\ store' = [store EXCEPT ![t][d.k] = d.v]
    /\ n' = Resize(n, store[t][d.k], d.v)
    /\ UNCHANGED path

\* What one turn of either loop shares: the last diff of the chain is
\* applied to t.
ApplyDiff(d) ==
    /\ store' = [store EXCEPT ![t][d.k] = d.v]
    /\ n' = Resize(n, store[t][d.k], d.v)
    /\ path' = Front(path)

\* Mutant of FlipHolder: the old value is read after the slot is written.
FlipHolderLate(d) == [node EXCEPT ![cur] = Diff(node[d].k, node[d].v, d)]

\* The node the table belongs to becomes a diff toward the next one.
FlipHolder(d) == [node EXCEPT ![cur] = Diff(node[d].k, store[t][node[d].k], d)]

Rotate ==
    /\ pc = "rotate"
    /\ path # <<>>
    /\ ApplyDiff(node[Last(path)])
    /\ node' = FlipHolder(Last(path))
    /\ cur' = Last(path)
    /\ UNCHANGED <<val, pc, call, t, shows, ret>>

Replay ==
    /\ pc = "replay"
    /\ path # <<>>
    /\ ApplyDiff(node[Last(path)])
    /\ UNCHANGED <<node, val, pc, call, cur, t, shows, ret>>

\* m.k, m.v, m.p = nil; m.t, m.n = t, n
BecomeRoot ==
    /\ pc \in {"rotate", "replay"}
    /\ path = <<>>
    /\ node' = [node EXCEPT ![call.m] = Root(t, n)]
    /\ pc' = "body"
    /\ UNCHANGED <<store, val, call, regs, shows, ret>>

-------------------------------------------------------------------------------
(* The bodies of the operations, at the live table of m *)

M == node[call.m]
Old == store[M.t][call.k]

Begun(op) == pc = "body" /\ call.op = op

Lookup ==
    /\ Begun("lookup")
    /\ Return(Answer("lookup", call.m, call.k, Unbox(Old)))
    /\ UNCHANGED <<node, store, val, shows>>

SizeOf ==
    /\ Begun("size")
    /\ Return(Answer("size", call.m, absent, M.n))
    /\ UNCHANGED <<node, store, val, shows>>

\* hashmap_keys, hashmap_values, hashmap_toList collect without forcing.
ListOf ==
    /\ Begun("list")
    /\ Return(Answer("list", call.m, absent,
                     {<<k, Unbox(store[M.t][k])>> :
                        k \in {x \in Keys : store[M.t][x] # nil}}))
    /\ UNCHANGED <<node, store, val, shows>>

\* Mutant of Write: the old root keeps the table.
WriteUnflipped(h, slot, size) ==
    /\ store' = [store EXCEPT ![M.t][call.k] = slot]
    /\ node' = Put(node, h, Root(M.t, size))

\* The table of the new root h: m's own, or a copy when m is frozen.  The
\* frozen m keeps its table; any other m is flipped into a diff to h.
Write(h, slot, size) ==
    IF call.m = Empty
    THEN \E c \in Stores \ DOMAIN store :
            /\ store' = Put(store, c, [store[M.t] EXCEPT ![call.k] = slot])
            /\ node' = Put(node, h, Root(c, size))
    ELSE /\ store' = [store EXCEPT ![M.t][call.k] = slot]
         /\ node' = Put([node EXCEPT ![call.m] = Diff(call.k, Old, h)],
                        h, Root(M.t, size))

\* Mutant of Insert: overwriting a key counts it again.
InsertCountsTwice ==
    /\ Begun("insert")
    /\ \E h \in Handles \ DOMAIN node :
        /\ Write(h, Box(call.v), M.n + 1)
        /\ val' = Put(val, h, Patch(val[call.m], call.k, call.v))
        /\ Return(Answer("insert", call.m, call.k, h))
    /\ UNCHANGED shows

Insert ==
    /\ Begun("insert")
    /\ \E h \in Handles \ DOMAIN node :
        /\ Write(h, Box(call.v), IF Old = nil THEN M.n + 1 ELSE M.n)
        /\ val' = Put(val, h, Patch(val[call.m], call.k, call.v))
        /\ Return(Answer("insert", call.m, call.k, h))
    /\ UNCHANGED shows

\* if old == nil then return m end
DeleteMissing ==
    /\ Begun("delete")
    /\ Old = nil
    /\ Return(Answer("delete", call.m, call.k, call.m))
    /\ UNCHANGED <<node, store, val, shows>>

Delete ==
    /\ Begun("delete")
    /\ Old # nil
    /\ \E h \in Handles \ DOMAIN node :
        /\ Write(h, nil, M.n - 1)
        /\ val' = Put(val, h, Patch(val[call.m], call.k, absent))
        /\ Return(Answer("delete", call.m, call.k, h))
    /\ UNCHANGED shows

-------------------------------------------------------------------------------
(* show_HashMap *)

\* Snapshot the table, then force and print entry by entry.
Snapshot ==
    /\ Begun("show")
    /\ shows' = Append(shows, [m |-> call.m, snap |-> store[M.t],
                               left |-> {k \in Keys : store[M.t][k] # nil}, out |-> {}])
    /\ Return(NoAnswer)
    /\ UNCHANGED <<node, store, val>>

\* Other operations may run before the next entry's value is known.
ShowEntry ==
    /\ pc = "idle"
    /\ shows # <<>>
    /\ LET f == Last(shows) IN
        \E k \in f.left :
            shows' = [shows EXCEPT ![Len(shows)] =
                        [f EXCEPT !.left = f.left \ {k},
                                  !.out = f.out \cup {<<k, Unbox(f.snap[k])>>}]]
    /\ ret' = NoAnswer
    /\ UNCHANGED <<node, store, val, pc, call, regs>>

ShowDone ==
    /\ pc = "idle"
    /\ shows # <<>>
    /\ Last(shows).left = {}
    /\ ret' = Answer("list", Last(shows).m, absent, Last(shows).out)
    /\ shows' = Front(shows)
    /\ UNCHANGED <<node, store, val, pc, call, regs>>

\* Forcing a value raises a Lua error: it unwinds to a pcall outside some of
\* the suspended shows.
Raise ==
    /\ pc = "idle"
    /\ \E i \in 1 .. Len(shows) : shows' = SubSeq(shows, 1, i - 1)
    /\ ret' = NoAnswer
    /\ UNCHANGED <<node, store, val, pc, call, regs>>

-------------------------------------------------------------------------------
(* hashmap_fromList, and the FFI decoder of a Lua table (runtime.lua 430) *)

\* The table under construction is local to the call, so the forces of the
\* list's cells cannot reach it; the map meant so far is kept in call.v.
FromListBegin ==
    /\ pc = "idle"
    /\ Handles \ DOMAIN node # {}
    /\ \E s \in Stores \ DOMAIN store :
        /\ store' = Put(store, s, [k \in Keys |-> nil])
        /\ t' = s
    /\ call' = Call("fromList", Empty, nil, [k \in Keys |-> absent])
    /\ pc' = "build" /\ n' = 0
    /\ ret' = NoAnswer
    /\ UNCHANGED <<node, val, path, cur, shows>>

FromListAdd(k, v) ==
    /\ pc = "build"
    /\ n' = IF store[t][k] = nil THEN n + 1 ELSE n
    /\ store' = [store EXCEPT ![t][k] = Box(v)]
    /\ call' = [call EXCEPT !.v = Patch(call.v, k, v)]
    /\ UNCHANGED <<node, val, pc, path, cur, t, shows, ret>>

FromListEnd ==
    /\ pc = "build"
    /\ \E h \in Handles \ DOMAIN node :
        /\ node' = Put(node, h, Root(t, n))
        /\ val' = Put(val, h, call.v)
        /\ Return(Answer("fromList", h, absent, h))
    /\ UNCHANGED <<store, shows>>

-------------------------------------------------------------------------------

Reroot ==
    \/ Walk \/ AtRoot \/ StartRotate \/ StartMaterialize
    \/ Rotate \/ Replay \/ BecomeRoot

Body == Lookup \/ SizeOf \/ ListOf \/ Insert \/ DeleteMissing \/ Delete \/ Snapshot

FromList ==
    \/ FromListBegin
    \/ \E k \in Keys, v \in Values : FromListAdd(k, v)
    \/ FromListEnd

Show == ShowEntry \/ ShowDone \/ Raise

Next ==
    \/ \E c \in Requests(DOMAIN node) : Begin(c)
    \/ Reroot
    \/ Body
    \/ FromList
    \/ Show

Spec == Init /\ [][Next]_vars

\* Lua runs a started operation to its end: its loops are never preempted.
Fairness == WF_vars(Reroot) /\ WF_vars(Body)

FairSpec == Spec /\ Fairness

-------------------------------------------------------------------------------
(* Properties *)

Ops == {"none", "insert", "delete", "lookup", "size", "list", "show", "fromList"}

Frames == [m : DOMAIN node, snap : [Keys -> Slot], left : SUBSET Keys,
           out : SUBSET (Keys \X Values)]

\* Every variable holds what the code stores in it: each allocated map value
\* is a root or a diff record of the shapes runtime.lua 1813-1821 describes,
\* its neighbour an allocated map value, its table an allocated table.
TypeOK ==
    /\ DOMAIN node \subseteq Handles /\ Empty \in DOMAIN node
    /\ node \in [DOMAIN node -> Roots \cup Diffs]
    /\ \A h \in DOMAIN node :
        IF node[h].t = nil THEN node[h].p \in DOMAIN node
                           ELSE node[h].t \in DOMAIN store
    /\ DOMAIN store \subseteq Stores
    /\ store \in [DOMAIN store -> [Keys -> Slot]]
    /\ val \in [DOMAIN node -> Contents]
    /\ pc \in {"idle", "walk", "rotate", "replay", "body", "build"}
    /\ call \in [op : Ops, m : DOMAIN node, k : Keys \cup {nil}, v : Values \cup Contents]
    /\ pc \in {"walk", "rotate", "replay", "body"} => call \in Requests(DOMAIN node)
    /\ pc = "build" => call.v \in Contents
    /\ path \in Seq(DOMAIN node) /\ cur \in DOMAIN node
    /\ pc \in {"rotate", "replay", "build"} => t \in DOMAIN store
    /\ n \in Int
    /\ shows \in Seq(Frames)

\* Whether h stands for its map by the live table s (n entries of it).
Holds(h, s, size) ==
    /\ \A k \in Keys : Unbox(store[s][k]) = val[h][k]
    /\ size = Size(val[h])

\* The versions never leak into each other (runtime.lua 1829-1830,
\* "observationally the maps are as persistent as before"): at every step of
\* every loop, each root's table holds that version's map and each diff
\* differs from its neighbour by its one slot; in the middle of a rotation
\* the table holds the version that has just been reached.
Consistent ==
    /\ pc = "rotate" => Holds(cur, t, n)
    /\ \A h \in DOMAIN node :
        (pc = "rotate" => h # cur) =>
            IF node[h].t # nil
            THEN Holds(h, node[h].t, node[h].n)
            ELSE val[h] = Patch(val[node[h].p], node[h].k, Unbox(node[h].v))

\* No two roots share a live table, so that a write through one never shows
\* in the other; a table under construction belongs to no root
\* (runtime.lua 1841-1846, "two roots then coexist").
OneRootPerStore ==
    /\ \A g, h \in DOMAIN node : node[g].t # nil /\ node[g].t = node[h].t => g = h
    /\ pc \in {"replay", "build"} => \A h \in DOMAIN node : node[h].t # t
    /\ pc = "rotate" => \A h \in DOMAIN node : node[h].t = t => h = cur

\* hmEmpty is frozen (runtime.lua 1834-1838): it stays the root of an empty
\* table and no diff chain runs through it.
EmptyFrozen ==
    /\ node[Empty].t # nil /\ node[Empty].n = 0
    /\ store[node[Empty].t] = [k \in Keys |-> nil]
    /\ \A h \in DOMAIN node : node[h].p # Empty

\* Every answer is the one of an independent copy of that version
\* (hashmap_versions.mll 4-5, "every version answers as if it were an
\* independent copy, in every read order").
AnswersFaithful ==
    /\ ret.op = "lookup" => ret.res = val[ret.m][ret.k]
    /\ ret.op = "size" => ret.res = Size(val[ret.m])
    /\ ret.op = "list" => ret.res = Entries(val[ret.m])

\* Refinement: the runtime implements the persistent maps of the language.
Abstract == INSTANCE PersistentMaps WITH maps <- val

ImplementsPersistentMaps == Abstract!Spec

\* An operation that has started returns: the chain walk and both replay
\* loops of __mll_hm_reroot come to an end.
OperationsReturn == pc \in {"walk", "rotate", "replay", "body"} ~> pc = "idle"

===============================================================================
