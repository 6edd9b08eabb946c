---------------------------- MODULE MCIterators ----------------------------
(* Iterators over keys of which two share their first byte and two their   *)
(* last, beside a store without faults.  The third key is longer than      *)
(* LoadHint allows, its record with a value longer than Reader.Next does,  *)
(* and the three are one more than LoadHint loads (MaxHintKeyLen = 2,      *)
(* MaxRecordPayload = 3, MaxHintEntries = 2).                              *)
EXTENDS Iterators, TLC

CONSTANTS v1, v2

MCKey == {<<1, 1>>, <<1, 2>>, <<2, 1, 1>>}
MCBound == {<<>>, <<1>>, <<1, 2>>, <<1, 2, 1>>}
MCKeyLen == [k \in Key |-> Q!Len(k)]
MCValueLen == [v \in Value \cup {NoValue} |-> IF v = NoValue THEN 0 ELSE 1]

ValueSymmetry == Permutations(Value)
=============================================================================
