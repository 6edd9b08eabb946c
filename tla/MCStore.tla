------------------------------ MODULE MCStore ------------------------------
(* The store on a small instance: frames of a tombstone and of a value     *)
(* differ in size.                                                         *)
EXTENDS StoreProps, TLC

CONSTANTS k1, k2, v1, v2

MCKeyLen == [k \in Key |-> 1]
MCValueLen == [v \in Value \cup {NoValue} |-> IF v = NoValue THEN 0 ELSE 1]

KeySymmetry == Permutations(Key)
=============================================================================
