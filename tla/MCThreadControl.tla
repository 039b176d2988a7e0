-------------------------- MODULE MCThreadControl --------------------------
(***************************************************************************)
(* Small task trees for TLC.  The threads are the integers 1 (the root),   *)
(* 2 and 3: alone, in a chain 1-2-3, or as siblings under the root.        *)
(***************************************************************************)
EXTENDS ThreadControl

PairThreads == {1, 2}
PairParent  == [t \in PairThreads |-> 1]
PairBelow   == [t \in PairThreads |-> IF t = 1 THEN {2} ELSE {}]
PairSpawned == <<2>>

TrioThreads  == {1, 2, 3}
ChainParent  == [t \in TrioThreads |-> IF t = 3 THEN 2 ELSE 1]
ChainBelow   == [t \in TrioThreads |-> {u \in TrioThreads : u > t}]
FlatParent   == [t \in TrioThreads |-> 1]
TrioSpawned  == <<2, 3>>
FlatBelow    == [t \in TrioThreads |-> IF t = 1 THEN {2, 3} ELSE {}]

(* Bounds per thread, on native turns and on waits.                        *)
PerThread11 == <<1, 1>>
PerThread10 == <<1, 0>>
PerThread12 == <<1, 2>>
PerThread20 == <<2, 0>>
PerThread21 == <<2, 1>>
PerThread31 == <<3, 1>>
PerThread100 == <<1, 0, 0>>
PerThread010 == <<0, 1, 0>>
PerThread111 == <<1, 1, 1>>
=============================================================================
