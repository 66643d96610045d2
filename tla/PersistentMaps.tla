---------------------------- MODULE PersistentMaps ----------------------------
(***************************************************************************)
(* What a mata-ll HashMap promises (doc/articles/SPEC.md "HashMap", and    *)
(* mll-tests/tests/cases/hashmap_versions.mll): every map value is an      *)
(* independent, immutable finite map.  An insert or a delete returns       *)
(* another value; a read answers from the value it was given, whatever was *)
(* derived from it or read in between.                                     *)
(***************************************************************************)
EXTENDS Integers, FiniteSets

CONSTANTS Handles,      \* the map values a program run may create
          Keys,         \* the keys, as the program tells them apart
          Values,       \* what a program stores under a key
          Empty,        \* the handle of hmEmpty, one value program-wide
          absent        \* what a lookup of a missing key answers

VARIABLES maps,         \* the contents of every map created so far
          ret           \* the answer of the last operation

Contents == [Keys -> Values \cup {absent}]

\* The association list of a map: what hmToList, hmKeys and hmValues list.
Entries(map) == {<<k, map[k]>> : k \in {x \in Keys : map[x] # absent}}

Size(map) == Cardinality({k \in Keys : map[k] # absent})

Answer(op, m, k, res) == [op |-> op, m |-> m, k |-> k, res |-> res]

NoAnswer == Answer("none", Empty, absent, absent)

Init ==
    /\ maps = [h \in {Empty} |-> [k \in Keys |-> absent]]
    /\ ret = NoAnswer

\* The program evaluates something else before the next answer.
Ask == ret' = NoAnswer /\ UNCHANGED maps

\* A new map value, every other one untouched.
Create(h, map) ==
    /\ h \in Handles \ DOMAIN maps
    /\ maps' = [x \in DOMAIN maps \cup {h} |-> IF x = h THEN map ELSE maps[x]]

Insert(m, k, v) ==
    \E h \in Handles :
        /\ Create(h, [maps[m] EXCEPT ![k] = v])
        /\ ret' = Answer("insert", m, k, h)

Delete(m, k) ==
    /\ maps[m][k] # absent
    /\ \E h \in Handles :
        /\ Create(h, [maps[m] EXCEPT ![k] = absent])
        /\ ret' = Answer("delete", m, k, h)

\* Deleting a missing key returns the very same map.
DeleteMissing(m, k) ==
    /\ maps[m][k] = absent
    /\ ret' = Answer("delete", m, k, m)
    /\ UNCHANGED maps

FromList(map) ==
    \E h \in Handles :
        /\ Create(h, map)
        /\ ret' = Answer("fromList", h, absent, h)

Lookup(m, k) == ret' = Answer("lookup", m, k, maps[m][k]) /\ UNCHANGED maps

SizeOf(m) == ret' = Answer("size", m, absent, Size(maps[m])) /\ UNCHANGED maps

ListOf(m) == ret' = Answer("list", m, absent, Entries(maps[m])) /\ UNCHANGED maps

Next ==
    \/ Ask
    \/ \E map \in Contents : FromList(map)
    \/ \E m \in DOMAIN maps : SizeOf(m) \/ ListOf(m)
    \/ \E m \in DOMAIN maps, k \in Keys :
        Delete(m, k) \/ DeleteMissing(m, k) \/ Lookup(m, k)
    \/ \E m \in DOMAIN maps, k \in Keys, v \in Values : Insert(m, k, v)

Spec == Init /\ [][Next]_<<maps, ret>>
===============================================================================
