----------------------------- MODULE MCArchives -----------------------------
(* The store of MCStore with one archive. *)
EXTENDS Archives, TLC

CONSTANTS k1, k2, v1, v2

MCKeyLen == [k \in Key |-> 1]
MCValueLen == [v \in Value \cup {NoValue} |-> IF v = NoValue THEN 0 ELSE 1]
KeySymmetry == Permutations(Key)
=============================================================================
