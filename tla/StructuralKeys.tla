---------------------------- MODULE StructuralKeys ----------------------------
(***************************************************************************)
(* HashMaps keyed by tuples, lists and Maybes (runtime.lua, the            *)
(* __mll_hme_* family).  The store is that of HashMapStore, keyed by an    *)
(* injective string encoding of the key and holding {key, value} entries:  *)
(* a slot's Box(v) stands for the entry, which is never Lua's nil.         *)
(*                                                                         *)
(* Encoding a key forces its lazy components, so it runs other operations. *)
(* The writes encode before they touch the map, so their encodings are     *)
(* operations completed before Begin.  The two reads, __mll_hme_lookup and *)
(* __mll_hme_member, fetch the live table first and index it by enc(k)     *)
(* afterwards: between the two, any operations may run.                    *)
(***************************************************************************)
EXTENDS HashMapStore

CONSTANT MaxReads       \* bound: reads suspended in their encoder at once

ASSUME ReadsAssumption == MaxReads \in Nat

VARIABLES reads,        \* those reads, innermost last: map, key, table fetched
          got           \* what the last step answered to such a read, if it did

svars == <<vars, reads, got>>

SInit == Init /\ reads = <<>> /\ got = NoAnswer

\* A read inside a full stack of suspended reads is left out by the bound.
SBegin(c) ==
    /\ c.op # "show"
    /\ c.op = "lookup" => Len(reads) < MaxReads
    /\ Begin(c)
    /\ got' = NoAnswer
    /\ UNCHANGED reads

\* local t = m.t, rerooted when nil; then the encoder starts.
Fetch ==
    /\ Begun("lookup")
    /\ reads' = Append(reads, [m |-> call.m, k |-> call.k, t |-> M.t])
    /\ Return(NoAnswer)
    /\ got' = NoAnswer
    /\ UNCHANGED <<node, store, val, shows>>

\* The encoder has returned: t[enc(k)].
Index ==
    /\ pc = "idle"
    /\ reads # <<>>
    /\ LET r == Last(reads)
       IN  got' = Answer("lookup", r.m, r.k, Unbox(store[r.t][r.k]))
    /\ reads' = Front(reads)
    /\ ret' = NoAnswer
    /\ UNCHANGED <<node, store, val, pc, call, regs, shows>>

\* Forcing a component raises: the error unwinds to a pcall outside some of
\* the suspended reads.
EncodeRaises ==
    /\ pc = "idle"
    /\ \E i \in 1 .. Len(reads) : reads' = SubSeq(reads, 1, i - 1)
    /\ ret' = NoAnswer /\ got' = NoAnswer
    /\ UNCHANGED <<node, store, val, pc, call, regs, shows>>

\* The operations the encoder leaves whole.
Others ==
    /\ Reroot \/ SizeOf \/ ListOf \/ Insert \/ DeleteMissing \/ Delete \/ FromList
    /\ got' = NoAnswer
    /\ UNCHANGED reads

SNext ==
    \/ \E c \in Requests(DOMAIN node) : SBegin(c)
    \/ Fetch
    \/ Index
    \/ EncodeRaises
    \/ Others

SSpec == SInit /\ [][SNext]_svars

-------------------------------------------------------------------------------
(* Properties *)

\* A structural read answers from its own version whenever the version still
\* owns the table fetched before the encoder ran: only an encoder that reads
\* another version of the same family can falsify it.
AnswersUnlessRerooted ==
    [][Index => LET r == Last(reads)
                IN  node[r.m].t = r.t => got'.res = val[r.m][r.k]]_svars

\* What a structural read answers in any case: the value the key has in the
\* version that owns the fetched table by the time it is indexed (the table is
\* never left without an owner).
AnswersTableOwner ==
    [][Index => LET r == Last(reads)
                IN  \E g \in DOMAIN node :
                        node[g].t = r.t /\ got'.res = val[g][r.k]]_svars

\* Every read answers as an independent copy of its version would, "in every
\* read order" (hashmap_versions.mll 4-5); runtime.lua 1829-1831, "the maps
\* are as persistent as before ... no runtime function yields mid-operation".
ReadsFaithful == got.op = "lookup" => got.res = val[got.m][got.k]
===============================================================================
