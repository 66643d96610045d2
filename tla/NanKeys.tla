-------------------------------- MODULE NanKeys --------------------------------
(***************************************************************************)
(* NaN keys in structural HashMaps (runtime.lua, __mll_key_scalar and      *)
(* __mll_hme_insert).  One counter, __mll_hm_nan_seq, numbers every NaN    *)
(* that is encoded or boxed anywhere in the program.  An insert saves the  *)
(* counter, runs the encoder over the key's components and, when the       *)
(* counter has moved, stamps the entry with it (e[3]): the enumerators     *)
(* list the stamped entries last, in the order of their stamps.            *)
(*                                                                         *)
(* A component may be lazy, so the encoder may run other inserts and       *)
(* lookups, nested to any depth.  A map is the sequence of its entries in  *)
(* the order of their insertion; keys are told apart only by whether they  *)
(* hold a NaN (such a key equals no other).                                *)
(***************************************************************************)
EXTENDS Integers, Sequences, FiniteSets, SequencesExt

CONSTANTS Maps,         \* the identities of map values
          EmptyMap,     \* hashmap_empty
          OrdinaryKeys, \* the keys that hold no NaN
          nan,          \* a key that holds a NaN
          MaxWidth,     \* bound: components of a key
          MaxNested,    \* bound: inserts nested in encoders
          MaxSeq        \* bound: NaNs encoded in a run

ASSUME NanKeysAssumption ==
    EmptyMap \in Maps /\ nan \notin OrdinaryKeys /\ MaxWidth \in Nat /\ MaxSeq \in Nat

VARIABLES maps,         \* the maps created so far: their entries
          nan_seq,      \* __mll_hm_nan_seq
          inserts       \* the inserts running their encoder, innermost last

nanVars == <<maps, nan_seq, inserts>>

\* An entry {key, value, stamp}; stamp 0 is Lua's nil.
Entry == [key : OrdinaryKeys \cup {nan}, stamp : 0 .. MaxSeq]

NanInit ==
    /\ maps = [m \in {EmptyMap} |-> <<>>]
    /\ nan_seq = 0
    /\ inserts = <<>>

Inner == Last(inserts)
SetInner(f) == [inserts EXCEPT ![Len(inserts)] = f]

\* The code of an encoder can only run while one of its components is left.
Encoding == inserts # <<>> => Inner.left > 0

\* The map is forced, the counter saved, the encoder started.
InsertBegin ==
    /\ Encoding
    /\ Len(inserts) < MaxNested                                  \* bound
    /\ Cardinality(Maps \ DOMAIN maps) > Len(inserts)           \* bound
    /\ \E m \in DOMAIN maps, width \in 0 .. MaxWidth :
        inserts' = Append(inserts, [m |-> m, seq |-> nan_seq, left |-> width,
                                    nan |-> FALSE])
    /\ UNCHANGED <<maps, nan_seq>>

\* Mutant of EncodeOrdinary: the walk over the components runs one too far.
EncodeOrdinaryPast ==
    /\ inserts # <<>> /\ Inner.left >= 0
    /\ inserts' = SetInner([Inner EXCEPT !.left = @ - 1])
    /\ UNCHANGED <<maps, nan_seq>>

\* A component that is no NaN, once its own force is over.
EncodeOrdinary ==
    /\ inserts # <<>> /\ Inner.left > 0
    /\ inserts' = SetInner([Inner EXCEPT !.left = @ - 1])
    /\ UNCHANGED <<maps, nan_seq>>

\* A NaN component: a fresh token.
EncodeNan ==
    /\ inserts # <<>> /\ Inner.left > 0
    /\ nan_seq < MaxSeq                                         \* bound
    /\ nan_seq' = nan_seq + 1
    /\ inserts' = SetInner([Inner EXCEPT !.left = @ - 1, !.nan = TRUE])
    /\ UNCHANGED maps

\* Any other use of a NaN as a key: a lookup, a scalar map's insert.
Mint ==
    /\ Encoding
    /\ nan_seq < MaxSeq                                         \* bound
    /\ nan_seq' = nan_seq + 1
    /\ UNCHANGED <<maps, inserts>>

\* The entries of the map an insert returns: an entry of the same key makes way,
\* unless the key holds a NaN.
Replaces(entries, k) == k # nan /\ \E i \in DOMAIN entries : entries[i].key = k
Place(entries, k) == CHOOSE i \in DOMAIN entries : entries[i].key = k
Added(entries, e) ==
    Append(IF Replaces(entries, e.key) THEN RemoveAt(entries, Place(entries, e.key)) ELSE entries, e)

\* Mutant of InsertEnd: the map is forced after the encoder has run.
InsertEndLate ==
    /\ inserts # <<>> /\ Inner.left = 0
    /\ \E h \in Maps \ DOMAIN maps, m \in DOMAIN maps,
       k \in IF Inner.nan THEN {nan} ELSE OrdinaryKeys :
        LET e == [key |-> k, stamp |-> IF nan_seq # Inner.seq THEN nan_seq ELSE 0]
        IN  maps' = [x \in DOMAIN maps \cup {h} |->
                        IF x = h THEN Added(maps[m], e) ELSE maps[x]]
    /\ inserts' = Front(inserts)
    /\ UNCHANGED nan_seq

\* if __mll_hm_nan_seq ~= seq then e[3] = __mll_hm_nan_seq end
InsertEnd ==
    /\ inserts # <<>> /\ Inner.left = 0
    /\ \E h \in Maps \ DOMAIN maps, k \in IF Inner.nan THEN {nan} ELSE OrdinaryKeys :
        LET e == [key |-> k, stamp |-> IF nan_seq # Inner.seq THEN nan_seq ELSE 0]
        IN  maps' = [x \in DOMAIN maps \cup {h} |->
                        IF x = h THEN Added(maps[Inner.m], e) ELSE maps[x]]
    /\ inserts' = Front(inserts)
    /\ UNCHANGED nan_seq

\* A component raises: the error unwinds to a pcall outside some inserts.
EncoderRaises ==
    /\ Encoding
    /\ \E i \in 1 .. Len(inserts) : inserts' = SubSeq(inserts, 1, i - 1)
    /\ UNCHANGED <<maps, nan_seq>>

NanNext ==
    \/ InsertBegin \/ EncodeOrdinary \/ EncodeNan \/ Mint \/ InsertEnd \/ EncoderRaises

NanSpec == NanInit /\ [][NanNext]_nanVars

-------------------------------------------------------------------------------
(* Properties *)

\* Maps hold entries, one for an ordinary key; a saved counter is never ahead of
\* the counter.
NanTypeOK ==
    /\ maps \in [DOMAIN maps -> Seq(Entry)] /\ EmptyMap \in DOMAIN maps
    /\ \A m \in DOMAIN maps : \A i, j \in DOMAIN maps[m] :
        maps[m][i].key = maps[m][j].key => maps[m][i].key = nan \/ i = j
    /\ nan_seq \in 0 .. MaxSeq
    /\ \A i \in DOMAIN inserts :
        /\ inserts[i].m \in DOMAIN maps /\ inserts[i].left \in 0 .. MaxWidth
        /\ inserts[i].seq \in 0 .. nan_seq /\ inserts[i].nan \in BOOLEAN

\* Every entry whose key holds a NaN is stamped (runtime.lua 2081), so the compare
\* sort, which a NaN would break, never sees one; and the stamps order the entries
\* of a map by insertion, without a tie (2124-2128), however the inserts were nested.
NanInOrder ==
    \A m \in DOMAIN maps :
        /\ \A i \in DOMAIN maps[m] : maps[m][i].key = nan => maps[m][i].stamp # 0
        /\ \A i, j \in DOMAIN maps[m] :
            i < j /\ maps[m][i].stamp # 0 /\ maps[m][j].stamp # 0
                => maps[m][i].stamp < maps[m][j].stamp
===============================================================================
