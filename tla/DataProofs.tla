------------------------------ MODULE DataProofs ----------------------------
(***************************************************************************)
(* Proofs about the packages whose correctness is an induction over their  *)
(* data: batch, keydir, cache, codec and the command line, each under its  *)
(* own specification and for every value of its constants.                 *)
(***************************************************************************)
EXTENDS Batch, KeyDir, LRUCache, Codec, CommandLine, FiniteSetTheorems, SequenceTheorems, TLAPS

(***************************************************************************)
(* A set of naturals has a least element.  An induction over the length of *)
(* a list is written with it: the library's induction theorems take a      *)
(* predicate, which the provers cannot supply.                             *)
(***************************************************************************)
LEMMA LeastExists ==
  ASSUME NEW S \in SUBSET Nat, S # {}
  PROVE  \E q \in S : \A x \in S : q <= x
<1> DEFINE R == {p \in Nat \X Nat : p[1] < p[2]}
<1>1. IsWellFoundedOn(R, Nat)
  BY NatLessThanWellFounded DEF OpToRel
<1>2. PICK q \in S : \A x \in S : <<x, q>> \notin R
  <2> HIDE DEF R
  <2> QED BY <1>1, WFMin
<1>3. ASSUME NEW x \in S PROVE q <= x
  <2>1. <<x, q>> \notin R /\ <<x, q>> \in Nat \X Nat
    BY <1>2
  <2> QED BY <2>1
<1> QED
  BY <1>3

\* Of the places in 1 .. n that P has, one is the last.
LEMMA LastPlace ==
  ASSUME NEW n \in Nat, NEW P \in SUBSET (1 .. n), P # {}
  PROVE  \E q \in P : \A x \in P : x <= q
<1> DEFINE T == {n - x : x \in P}
<1>1. T \in SUBSET Nat
  OBVIOUS
<1>2. \E t \in T : \A y \in T : t <= y
  <2>1. T # {}
    OBVIOUS
  <2> HIDE DEF T
  <2> QED BY <1>1, <2>1, LeastExists
<1>3. PICK q \in P : \A y \in T : n - q <= y
  BY <1>2
<1>4. ASSUME NEW x \in P PROVE x <= q
  <2>1. n - q <= n - x
    BY <1>3
  <2>2. q \in 1 .. n /\ x \in 1 .. n
    OBVIOUS
  <2> HIDE DEF T
  <2> QED BY <2>1, <2>2
<1> QED
  BY <1>4

(***************************************************************************)
(* A loop defines a function: the value before the first step, and each    *)
(* value from the one before it.                                           *)
(***************************************************************************)
Loop(f, S, a, h, p) ==
  f \in [0 .. p -> S] /\ f[0] = a /\ \A n \in 1 .. p : f[n] = h[<<f[n - 1], n>>]

LEMMA LoopExists ==
  ASSUME NEW S, NEW a \in S, NEW q \in Nat, NEW h \in [S \X (1 .. q) -> S]
  PROVE  \E f : Loop(f, S, a, h, q)
<1> USE DEF Loop
<1> DEFINE Runs(f, p) == Loop(f, S, a, h, p)
           Missing == {p \in 0 .. q : ~ \E f : Runs(f, p)}
<1>0. q \in 0 .. q /\ (q \notin Missing => \E f : Runs(f, q))
  OBVIOUS
<1>1. SUFFICES ASSUME Missing # {} PROVE FALSE
  BY <1>0, Zenon DEF Loop
<1>2. PICK p \in Missing : \A x \in Missing : p <= x
  <2>1. Missing \in SUBSET Nat
    OBVIOUS
  <2> HIDE DEF Missing
  <2> QED BY <1>1, <2>1, LeastExists
<1>3. p \in 0 .. q /\ ~ \E f : Runs(f, p)
  OBVIOUS
<1>4. CASE p = 0
  <2>1. Runs([n \in 0 .. 0 |-> a], 0)
    OBVIOUS
  <2> HIDE DEF Runs, Loop
  <2> QED
    BY <1>3, <1>4, <2>1
<1>5. CASE p # 0
  <2>1. p \in 1 .. q /\ p - 1 \in 0 .. q /\ ~(p <= p - 1) /\ p - 1 \in 0 .. p - 1
    BY <1>3, <1>5
  <2>2. PICK f : Runs(f, p - 1)
    <3> HIDE DEF Runs, Loop
    <3> QED BY <1>2, <2>1
  <2>3. /\ \A n \in 0 .. p - 1 : f[n] \in S
        /\ f[0] = a /\ \A n \in 1 .. p - 1 : f[n] = h[<<f[n - 1], n>>]
    BY <2>2
  <2> DEFINE v == h[<<f[p - 1], p>>]
             g == [n \in 0 .. p |-> IF n = p THEN v ELSE f[n]]
  <2>4. v \in S
    BY <2>1, <2>3
  <2> HIDE DEF v
  <2>5. \A n \in 0 .. p : n = p \/ (n \in 0 .. p - 1 /\ n # p)
    BY <2>1
  <2>6. g[0] = a /\ g \in [0 .. p -> S]
    BY <1>5, <2>1, <2>3, <2>4, <2>5
  <2>7. ASSUME NEW n \in 1 .. p PROVE g[n] = h[<<g[n - 1], n>>]
    <3>1. n \in 0 .. p /\ n - 1 \in 0 .. p /\ n - 1 # p
      BY <2>1
    <3>2. g[n - 1] = f[n - 1]
      BY <3>1
    <3>3. CASE n = p
      <4>1. g[n] = v
        BY <3>1, <3>3
      <4> HIDE DEF g
      <4> QED
        BY <3>2, <3>3, <4>1 DEF v
    <3>4. CASE n # p
      <4>1. g[n] = f[n] /\ n \in 1 .. p - 1
        BY <2>1, <3>1, <3>4
      <4> HIDE DEF g
      <4> QED
        BY <2>3, <3>2, <4>1
    <3> QED
      BY <3>3, <3>4
  <2> HIDE DEF g
  <2>8. Runs(g, p)
    BY <2>6, <2>7
  <2> HIDE DEF Runs, Loop
  <2> QED
    BY <1>3, <2>8
<1> QED
  BY <1>4, <1>5

(***************************************************************************)
(* batch.  A slice that shares the batch's array ends where the batch's    *)
(* operations do, or earlier, unless Reset was called since: append writes *)
(* behind it.                                                              *)
(***************************************************************************)
BatchInv ==
  /\ array \in Seq(Op) /\ length \in Nat /\ length <= Len(array) /\ room \in Nat
  /\ held.shared \in BOOLEAN /\ held.array \in Seq(Op) /\ held.length \in Nat
  /\ held = [shared |-> held.shared, array |-> held.array, length |-> held.length]
  /\ (held.shared /\ ~reused) => held.length <= length
  /\ reused \in BOOLEAN
  /\ HeldOpsStable

\* A prefix depends on nothing behind it.
LEMMA SamePrefix ==
  ASSUME NEW S, NEW s \in Seq(S), NEW t \in Seq(S), NEW n \in Nat, n <= Len(s), n <= Len(t),
         \A i \in 1 .. n : s[i] = t[i]
  PROVE  SubSeq(s, 1, n) = SubSeq(t, 1, n)
OBVIOUS

\* When the batch leaves its array, the client's slice keeps it.
LEMMA LeaveArrayInv ==
  ASSUME BatchInv, LeaveArray, array' \in Seq(Op), length' \in Nat, length' <= Len(array'),
         room' \in Nat, UNCHANGED <<heldOps, reused>>
  PROVE  BatchInv'
<1>1. CASE held.shared
  <2>1. held' = [held EXCEPT !.shared = FALSE, !.array = array]
    BY <1>1 DEF LeaveArray
  <2>2. held' = [shared |-> FALSE, array |-> array, length |-> held.length]
    BY <2>1 DEF BatchInv
  <2> QED
    BY <1>1, <2>2 DEF BatchInv, HeldOpsStable, HeldOps
<1>2. CASE ~held.shared
  BY <1>2 DEF LeaveArray, BatchInv, HeldOpsStable, HeldOps
<1> QED
  BY <1>1, <1>2 DEF BatchInv

\* The staged operations are a list of operations.
LEMMA OpsType == ASSUME BatchInv PROVE ops \in Seq(Op) /\ Len(ops) = length
BY DEF BatchInv, ops

\* Put and Delete, in the array or out of it.
LEMMA StageInv == ASSUME BatchInv, NEW op \in Op, Stage(op) PROVE BatchInv'
<1>1. AppendOp(op) /\ length' = length + 1 /\ UNCHANGED <<heldOps, reused>>
  BY DEF Stage
<1>2. /\ array \in Seq(Op) /\ length \in Nat /\ length <= Len(array) /\ room \in Nat
      /\ Len(array) \in Nat
  BY DEF BatchInv
<1>3. CASE length < room
  <2> DEFINE n == IF length < Len(array) THEN Len(array) ELSE length + 1
  <2>1. /\ array' = [i \in 1 .. n |-> IF i = length + 1 THEN op ELSE array[i]]
        /\ UNCHANGED <<room, held>>
    BY <1>1, <1>3 DEF AppendOp
  <2>2. n \in Nat /\ length + 1 <= n /\ Len(array) <= n /\ n <= Len(array) + 1
    BY <1>2
  <2>3. \A i \in 1 .. n : i # length + 1 => i \in 1 .. Len(array)
    BY <1>2
  <2>4. array' \in Seq(Op) /\ Len(array') = n
    <3>1. \A i \in 1 .. n : (IF i = length + 1 THEN op ELSE array[i]) \in Op
      BY <1>2, <2>3
    <3> HIDE DEF n
    <3> QED
      BY <2>1, <2>2, <3>1
  <2>5. \A i \in 1 .. length : array'[i] = array[i]
    BY <1>2, <2>1, <2>2
  <2>6. ASSUME held.shared, ~reused PROVE HeldOps' = HeldOps
    <3>1. held.length \in Nat /\ held.length <= length
      BY <2>6 DEF BatchInv
    <3>2. \A i \in 1 .. held.length : array'[i] = array[i]
      BY <1>2, <2>5, <3>1
    <3>3. held.length <= Len(array) /\ held.length <= Len(array')
      BY <1>2, <2>2, <2>4, <3>1
    <3>4. SubSeq(array', 1, held.length) = SubSeq(array, 1, held.length)
      BY <1>2, <2>4, <3>1, <3>2, <3>3, SamePrefix
    <3> QED
      BY <2>1, <2>6, <3>4 DEF HeldOps
  <2>7. HeldOpsStable'
    <3>1. CASE held.shared
      BY <1>1, <2>6, <3>1 DEF BatchInv, HeldOpsStable
    <3>2. CASE ~held.shared
      BY <1>1, <2>1, <3>2 DEF BatchInv, HeldOpsStable, HeldOps
    <3> QED
      BY <3>1, <3>2 DEF BatchInv
  <2>8. (held'.shared /\ ~reused') => held'.length <= length'
    BY <1>1, <1>2, <2>1 DEF BatchInv
  <2> QED
    BY <1>1, <1>2, <2>1, <2>2, <2>4, <2>7, <2>8 DEF BatchInv
<1>4. CASE ~(length < room)
  <2>1. array' = Append(ops, op) /\ room' = 2 * length + 1 /\ LeaveArray
    BY <1>1, <1>4 DEF AppendOp
  <2>2. array' \in Seq(Op) /\ Len(array') = length + 1 /\ room' \in Nat
    BY <1>2, <2>1, OpsType
  <2> QED
    BY <1>1, <1>2, <2>1, <2>2, LeaveArrayInv
<1> QED
  BY <1>3, <1>4

\* Deduplicate leaves a list of operations.
LEMMA InOrderType ==
  ASSUME NEW s \in Seq(Op), NEW at \in SUBSET (1 .. Len(s)), NEW t \in InOrder(s, at)
  PROVE  t \in Seq(Op) /\ Len(t) \in Nat
<1>1. Cardinality(at) \in Nat
  <2>1. IsFiniteSet(1 .. Len(s))
    BY FS_Interval
  <2> QED
    BY <2>1, FS_Subset, FS_CardinalityType
<1>2. PICK o \in [1 .. Cardinality(at) -> at] : t = [i \in DOMAIN o |-> s[o[i]]]
  BY DEF InOrder
<1>3. ASSUME NEW i \in 1 .. Cardinality(at) PROVE s[o[i]] \in Op
  <2>1. o[i] \in 1 .. Len(s)
    BY <1>2
  <2> QED
    BY <2>1
<1>4. t = [i \in 1 .. Cardinality(at) |-> s[o[i]]]
  BY <1>2
<1> QED
  BY <1>1, <1>3, <1>4

\* Every step keeps the invariant.
LEMMA NextBatchInv == BatchInv /\ [BatchNext]_batchVars => BatchInv'
<1> SUFFICES ASSUME BatchInv, [BatchNext]_batchVars PROVE BatchInv'
  OBVIOUS
<1>1. CASE UNCHANGED batchVars
  BY <1>1 DEF batchVars, BatchInv, HeldOpsStable, HeldOps
<1>2. ASSUME NEW op \in Op, Stage(op) PROVE BatchInv'
  BY <1>2, StageInv
<1>3. CASE Ops
  <2>1. /\ held' = [shared |-> TRUE, array |-> <<>>, length |-> length]
        /\ heldOps' = SubSeq(array, 1, length) /\ reused' = FALSE
        /\ UNCHANGED <<array, length, room>>
    BY <1>3 DEF Ops, ops
  <2>2. held'.shared = TRUE /\ held'.array = <<>> /\ held'.length = length
    BY <2>1
  <2>3. HeldOpsStable'
    BY <2>1, <2>2 DEF HeldOpsStable, HeldOps
  <2>4. held'.array \in Seq(Op)
    BY <2>2
  <2>5. held' = [shared |-> held'.shared, array |-> held'.array, length |-> held'.length]
    BY <2>1, <2>2
  <2>6. array' \in Seq(Op) /\ length' \in Nat /\ length' <= Len(array') /\ room' \in Nat
    BY <2>1 DEF BatchInv
  <2>7. held'.length \in Nat /\ held'.length <= length' /\ held'.shared \in BOOLEAN
    BY <2>1, <2>2, <2>6
  <2> QED
    BY <2>1, <2>3, <2>4, <2>5, <2>6, <2>7 DEF BatchInv
<1>4. CASE MarkCommitted
  BY <1>4 DEF MarkCommitted, BatchInv, HeldOpsStable, HeldOps
<1>5. CASE Discard
  <2>1. /\ array' = <<>> /\ length' = 0 /\ room' = 0 /\ LeaveArray
        /\ UNCHANGED <<heldOps, reused>>
    BY <1>5 DEF Discard
  <2> QED
    BY <2>1, LeaveArrayInv
<1>6. CASE BatchReset
  <2>1. /\ length' = 0 /\ array' = (IF held.shared THEN array ELSE <<>>)
        /\ IF held.shared THEN reused' = TRUE ELSE UNCHANGED <<reused, heldOps>>
        /\ UNCHANGED <<room, held>>
    BY <1>6 DEF BatchReset
  <2>2. CASE held.shared
    BY <2>1, <2>2 DEF BatchInv, HeldOpsStable
  <2>3. CASE ~held.shared
    BY <2>1, <2>3 DEF BatchInv, HeldOpsStable, HeldOps
  <2> QED
    BY <2>2, <2>3
<1>7. CASE Deduplicate
  <2>1. PICK t \in InOrder(ops, LastPerKey(ops)) :
          /\ array' = t /\ length' = Len(t) /\ room' = Len(t) /\ LeaveArray
          /\ UNCHANGED <<heldOps, reused>>
    BY <1>7 DEF Deduplicate
  <2>2. ops \in Seq(Op) /\ LastPerKey(ops) \in SUBSET (1 .. Len(ops))
    BY OpsType DEF LastPerKey
  <2>3. t \in Seq(Op) /\ Len(t) \in Nat
    BY <2>2, InOrderType
  <2> QED
    BY <2>1, <2>3, LeaveArrayInv
<1> QED
  BY <1>1, <1>2, <1>3, <1>4, <1>5, <1>6, <1>7 DEF BatchNext

\* Initially no client has a slice.
LEMMA InitBatchInv == BatchInit => BatchInv
<1> SUFFICES ASSUME BatchInit PROVE BatchInv
  OBVIOUS
<1>1. held.shared = FALSE /\ held.array = <<>> /\ held.length = 0
  BY DEF BatchInit, NoneHeld
<1>2. HeldOps = <<>>
  BY <1>1 DEF HeldOps
<1>3. held.array \in Seq(Op) /\ array \in Seq(Op) /\ Len(array) = 0
  BY <1>1 DEF BatchInit
<1>4. held = [shared |-> held.shared, array |-> held.array, length |-> held.length]
  BY <1>1 DEF BatchInit, NoneHeld
<1>5. held.length \in Nat /\ length \in Nat /\ room \in Nat /\ length <= Len(array)
  BY <1>1, <1>3, BatchAssumption DEF BatchInit
<1>6. HeldOpsStable /\ ~held.shared /\ reused \in BOOLEAN /\ held.shared \in BOOLEAN
  BY <1>1, <1>2 DEF BatchInit, HeldOpsStable
<1> QED
  BY <1>3, <1>4, <1>5, <1>6 DEF BatchInv

(***************************************************************************)
(* A slice that Ops returned keeps its operations until a Reset, for       *)
(* batches of any length and arrays of any capacity.                       *)
(***************************************************************************)
THEOREM HeldOpsAlwaysStable == BatchSpec => []HeldOpsStable
<1>1. BatchInv => HeldOpsStable
  BY DEF BatchInv
<1> QED
  BY InitBatchInv, NextBatchInv, <1>1, PTL DEF BatchSpec

(***************************************************************************)
(* The loop that adds the sizes of the first q operations.                 *)
(***************************************************************************)
Sums(f, s, q) == f = [n \in 0 .. q |-> IF n = 0 THEN 0 ELSE f[n - 1] + OpSize(s[n])]

LEMMA SumsIs ==
  ASSUME NEW f, NEW s, NEW q \in Nat, Sums(f, s, q)
  PROVE  f[0] = 0 /\ \A n \in 1 .. q : f[n] = f[n - 1] + OpSize(s[n])
<1>1. \A n \in 0 .. q : f[n] = IF n = 0 THEN 0 ELSE f[n - 1] + OpSize(s[n])
  BY DEF Sums
<1> QED
  BY <1>1

LEMMA SumsExist ==
  ASSUME NEW s \in Seq(Op)
  PROVE  \E f : Sums(f, s, Len(s))
<1> DEFINE q == Len(s)
           h == [p \in Nat \X (1 .. q) |-> p[1] + OpSize(s[p[2]])]
<1>1. q \in Nat /\ \A n \in 1 .. q : OpSize(s[n]) \in Nat
  <2>1. \A n \in 1 .. q : s[n] \in Op
    OBVIOUS
  <2>2. ASSUME NEW x \in Op PROVE OpSize(x) \in Nat
    <3>1. x.key \in Nat /\ PutSize \in Nat
      BY BatchAssumption DEF Op
    <3>2. (IF x.put THEN PutSize ELSE 0) \in Nat
      BY <3>1
    <3> QED
      BY <3>1, <3>2 DEF OpSize
  <2> QED
    BY <2>1, <2>2
<1> HIDE DEF q
<1>2. h \in [Nat \X (1 .. q) -> Nat] /\ \A x \in Nat, n \in 1 .. q : h[<<x, n>>] = x + OpSize(s[n])
  BY <1>1
<1> HIDE DEF h
<1>3. PICK f : Loop(f, Nat, 0, h, q)
  BY <1>1, <1>2, LoopExists
<1>4. f \in [0 .. q -> Nat] /\ f[0] = 0 /\ \A n \in 1 .. q : f[n] = h[<<f[n - 1], n>>]
  BY <1>3 DEF Loop
<1>5. ASSUME NEW n \in 0 .. q PROVE f[n] = IF n = 0 THEN 0 ELSE f[n - 1] + OpSize(s[n])
  <2>1. n = 0 \/ (n # 0 /\ n \in 1 .. q /\ n - 1 \in 0 .. q)
    BY <1>1
  <2> QED
    BY <1>2, <1>4, <2>1
<1>6. f = [n \in 0 .. q |-> f[n]]
  BY <1>4
<1>7. Sums(f, s, q)
  BY <1>5, <1>6 DEF Sums
<1> QED
  BY <1>7 DEF q

LEMMA SizeIs ==
  ASSUME NEW s \in Seq(Op)
  PROVE  \E f : Sums(f, s, Len(s)) /\ SizeOf(s) = f[Len(s)]
<1> DEFINE f == CHOOSE f : f = [n \in 0 .. Len(s) |-> IF n = 0 THEN 0 ELSE f[n - 1] + OpSize(s[n])]
<1>1. SizeOf(s) = f[Len(s)]
  BY DEF SizeOf
<1>2. Sums(f, s, Len(s))
  BY SumsExist DEF Sums
<1> QED
  BY <1>1, <1>2

LEMMA SizeOfNone == ASSUME NEW s \in Seq(Op), Len(s) = 0 PROVE SizeOf(s) = 0
<1>1. PICK f : Sums(f, s, 0) /\ SizeOf(s) = f[0]
  BY SizeIs
<1> QED
  BY <1>1, SumsIs

LEMMA SizeOfOneMore ==
  ASSUME NEW s \in Seq(Op), NEW op \in Op
  PROVE  SizeOf(Append(s, op)) = SizeOf(s) + OpSize(op)
<1> DEFINE t == Append(s, op)
           q == Len(s)
<1>1. /\ t \in Seq(Op) /\ Len(t) = q + 1 /\ q \in Nat /\ t[q + 1] = op
      /\ \A n \in 1 .. q : s[n] = t[n]
  OBVIOUS
<1>2. PICK f : Sums(f, s, q) /\ SizeOf(s) = f[q]
  BY SizeIs
<1> HIDE DEF t, q
<1>3. PICK g : Sums(g, t, q + 1) /\ SizeOf(t) = g[q + 1]
  BY <1>1, SizeIs
<1>4. f[q] = g[q]
  <2> DEFINE Wrong == {n \in 0 .. q : f[n] # g[n]}
  <2> SUFFICES ASSUME Wrong # {} PROVE FALSE
    BY <1>1
  <2>1. PICK n \in Wrong : \A x \in Wrong : n <= x
    <3>1. Wrong \in SUBSET Nat
      BY <1>1
    <3> HIDE DEF Wrong
    <3> QED BY <3>1, LeastExists
  <2>2. n \in 0 .. q /\ f[n] # g[n]
    OBVIOUS
  <2>3. n # 0
    BY <1>1, <1>2, <1>3, <2>2, SumsIs
  <2>4. n \in 1 .. q /\ n \in 1 .. q + 1 /\ n - 1 \in 0 .. q /\ ~(n <= n - 1)
    BY <1>1, <2>2, <2>3
  <2>5. f[n - 1] = g[n - 1]
    BY <2>1, <2>4
  <2>6. f[n] = f[n - 1] + OpSize(s[n])
    BY <1>1, <1>2, <2>4, SumsIs
  <2>7. g[n] = g[n - 1] + OpSize(t[n])
    BY <1>1, <1>3, <2>4, SumsIs
  <2> QED
    BY <1>1, <2>2, <2>4, <2>5, <2>6, <2>7
<1>5. g[q + 1] = g[(q + 1) - 1] + OpSize(t[q + 1])
  <2>1. q + 1 \in Nat /\ q + 1 \in 1 .. q + 1
    BY <1>1
  <2>2. \A n \in 1 .. q + 1 : g[n] = g[n - 1] + OpSize(t[n])
    BY <1>3, <2>1, SumsIs
  <2> QED
    BY <2>1, <2>2
<1>6. (q + 1) - 1 = q
  BY <1>1
<1> QED
  BY <1>1, <1>2, <1>3, <1>4, <1>5, <1>6 DEF t

(***************************************************************************)
(* What a list of operations does: the last one on each key counts.        *)
(***************************************************************************)
LastAt(s, i) == \A j \in i + 1 .. Len(s) : s[j].key # s[i].key

LEMMA EffectIs ==
  ASSUME NEW s \in Seq(Op), NEW x
  PROVE  x \in Effect(s) <=> \E i \in 1 .. Len(s) : s[i] = x /\ LastAt(s, i)
BY DEF Effect, ToSet, LastAt

\* One more operation replaces what the list did to its key.
LEMMA EffectOfOneMore ==
  ASSUME NEW s \in Seq(Op), NEW op \in Op
  PROVE  /\ Effect(Append(s, op)) = {x \in Effect(s) : x.key # op.key} \cup {op}
         /\ Validate(Append(s, op)) <=> Validate(s) /\ op.key # 0
<1> DEFINE t == Append(s, op)
           q == Len(s)
<1>1. /\ t \in Seq(Op) /\ Len(t) = q + 1 /\ q \in Nat /\ t[q + 1] = op
      /\ \A n \in 1 .. q : t[n] = s[n]
  OBVIOUS
<1> HIDE DEF t
<1>2. LastAt(t, q + 1)
  BY <1>1 DEF LastAt
<1>3. \A i \in 1 .. q : LastAt(t, i) <=> LastAt(s, i) /\ s[i].key # op.key
  <2> SUFFICES ASSUME NEW i \in 1 .. q PROVE LastAt(t, i) <=> LastAt(s, i) /\ s[i].key # op.key
    OBVIOUS
  <2>1. \A j \in i + 1 .. q : j \in i + 1 .. q + 1 /\ j \in 1 .. q
    BY <1>1
  <2>2. q + 1 \in i + 1 .. q + 1 /\ \A j \in i + 1 .. q + 1 : j = q + 1 \/ j \in i + 1 .. q
    BY <1>1
  <2> HIDE DEF q
  <2>3. ASSUME LastAt(t, i) PROVE LastAt(s, i) /\ s[i].key # op.key
    <3>1. \A j \in i + 1 .. q + 1 : t[j].key # s[i].key
      BY <1>1, <2>3 DEF LastAt
    <3>2. s[i].key # op.key
      BY <1>1, <2>2, <3>1
    <3>3. \A j \in i + 1 .. q : s[j].key # s[i].key
      BY <1>1, <2>1, <3>1
    <3> QED
      BY <3>2, <3>3 DEF LastAt, q
  <2>4. ASSUME LastAt(s, i), s[i].key # op.key PROVE LastAt(t, i)
    <3>1. \A j \in i + 1 .. q : s[j].key # s[i].key
      BY <2>4 DEF LastAt, q
    <3>2. \A j \in i + 1 .. q + 1 : t[j].key # t[i].key
      BY <1>1, <2>1, <2>2, <2>4, <3>1
    <3> QED
      BY <1>1, <3>2 DEF LastAt
  <2> QED
    BY <2>3, <2>4
<1>4. q + 1 \in 1 .. q + 1 /\ (\A i \in 1 .. q : i \in 1 .. q + 1)
      /\ \A i \in 1 .. q + 1 : i = q + 1 \/ i \in 1 .. q
  BY <1>1
<1>5. ASSUME NEW x \in Effect(t) PROVE x = op \/ (x \in Effect(s) /\ x.key # op.key)
  <2>1. PICK i \in 1 .. q + 1 : t[i] = x /\ LastAt(t, i)
    BY <1>1, EffectIs
  <2> HIDE DEF q
  <2>2. CASE i = q + 1
    BY <1>1, <2>1, <2>2
  <2>3. CASE i \in 1 .. q
    <3>1. s[i] = x /\ LastAt(s, i) /\ x.key # op.key
      BY <1>1, <1>3, <2>1, <2>3
    <3> QED
      BY <2>3, <3>1, EffectIs DEF q
  <2> QED
    BY <1>4, <2>2, <2>3
<1>6. ASSUME NEW x \in Effect(s), x.key # op.key PROVE x \in Effect(t)
  <2>1. PICK i \in 1 .. q : s[i] = x /\ LastAt(s, i)
    BY EffectIs
  <2> HIDE DEF q
  <2>2. i \in 1 .. q + 1 /\ t[i] = x /\ LastAt(t, i)
    BY <1>1, <1>3, <1>4, <1>6, <2>1
  <2> QED
    BY <1>1, <2>2, EffectIs
<1>7. op \in Effect(t)
  <2> HIDE DEF q
  <2> QED
    BY <1>1, <1>2, <1>4, EffectIs
<1>8. Effect(t) = {x \in Effect(s) : x.key # op.key} \cup {op}
  BY <1>5, <1>6, <1>7
<1>9. Validate(t) <=> Validate(s) /\ op.key # 0
  <2>1. Validate(t) <=> \A i \in 1 .. q + 1 : t[i].key # 0
    BY <1>1 DEF Validate
  <2>2. Validate(s) <=> \A i \in 1 .. q : s[i].key # 0
    BY DEF Validate
  <2> HIDE DEF q
  <2> QED
    BY <1>1, <1>4, <2>1, <2>2
<1> QED
  BY <1>8, <1>9 DEF t

\* The last operation on each key, in order, does what all of them do.
LEMMA EffectOfLast ==
  ASSUME NEW s \in Seq(Op), NEW t \in InOrder(s, LastPerKey(s))
  PROVE  t \in Seq(Op) /\ Effect(t) = Effect(s) /\ (Validate(t) <=> Validate(s))
<1> DEFINE at == LastPerKey(s)
           n == Cardinality(at)
<1>1. at \in SUBSET (1 .. Len(s)) /\ \A i \in 1 .. Len(s) : i \in at <=> LastAt(s, i)
  BY DEF LastPerKey, LastAt
<1> HIDE DEF at
<1>2. n \in Nat
  <2>1. IsFiniteSet(1 .. Len(s))
    BY FS_Interval
  <2> QED
    BY <1>1, <2>1, FS_Subset, FS_CardinalityType
<1>3. PICK o \in [1 .. n -> at] : /\ t = [i \in DOMAIN o |-> s[o[i]]]
                                  /\ at = {o[i] : i \in DOMAIN o}
                                  /\ \A i, j \in DOMAIN o : i < j => o[i] < o[j]
  BY DEF InOrder, at
<1> HIDE DEF n
<1>4. t = [i \in 1 .. n |-> s[o[i]]] /\ \A i \in 1 .. n : o[i] \in 1 .. Len(s) /\ s[o[i]] \in Op
  <2>1. \A i \in 1 .. n : o[i] \in 1 .. Len(s)
    BY <1>1, <1>3
  <2>2. \A i \in 1 .. Len(s) : s[i] \in Op
    OBVIOUS
  <2> QED
    BY <1>3, <2>1, <2>2
<1>5. t \in Seq(Op) /\ Len(t) = n
  BY <1>2, <1>4
<1>6. \A i \in 1 .. n : t[i] = s[o[i]] /\ o[i] \in at /\ LastAt(s, o[i])
  BY <1>1, <1>3, <1>4
<1>7. ASSUME NEW i \in 1 .. n, NEW j \in i + 1 .. n PROVE t[j].key # t[i].key
  <2>1. i \in 1 .. n /\ j \in 1 .. n /\ i < j
    BY <1>2
  <2>2. o[i] < o[j] /\ o[i] \in 1 .. Len(s) /\ o[j] \in 1 .. Len(s)
    BY <1>3, <1>4, <2>1
  <2>3. o[j] \in o[i] + 1 .. Len(s)
    BY <2>2
  <2> QED
    BY <1>6, <2>1, <2>3 DEF LastAt
<1>8. \A i \in 1 .. n : LastAt(t, i)
  BY <1>5, <1>7 DEF LastAt
<1>9. \A x : x \in Effect(t) <=> \E i \in 1 .. n : s[o[i]] = x
  BY <1>5, <1>6, <1>8, EffectIs
<1>10. \A x : x \in Effect(s) <=> \E p \in at : s[p] = x
  BY <1>1, EffectIs
<1>11. \A p \in at : \E i \in 1 .. n : o[i] = p
  BY <1>3
<1>12. Effect(t) = Effect(s)
  <2>1. ASSUME NEW x \in Effect(t) PROVE x \in Effect(s)
    <3>1. PICK i \in 1 .. n : s[o[i]] = x
      BY <1>9
    <3> QED
      BY <1>6, <1>10, <3>1
  <2>2. ASSUME NEW x \in Effect(s) PROVE x \in Effect(t)
    <3>1. PICK p \in at : s[p] = x
      BY <1>10
    <3>2. PICK i \in 1 .. n : o[i] = p
      BY <1>11
    <3> QED
      BY <1>9, <3>1, <3>2
  <2> QED
    BY <2>1, <2>2
<1>13. ASSUME Validate(s) PROVE Validate(t)
  BY <1>4, <1>5, <1>6, <1>13 DEF Validate
<1>14. ASSUME ~Validate(s) PROVE ~Validate(t)
  <2> DEFINE Empty == {i \in 1 .. Len(s) : s[i].key = 0}
  <2>1. Empty # {} /\ Empty \in SUBSET (1 .. Len(s)) /\ Len(s) \in Nat
    BY <1>14 DEF Validate
  <2>2. PICK p \in Empty : \A x \in Empty : x <= p
    <3> HIDE DEF Empty
    <3> QED
      BY <2>1, LastPlace
  <2>3. p \in 1 .. Len(s) /\ s[p].key = 0
    OBVIOUS
  <2>4. ASSUME NEW j \in p + 1 .. Len(s) PROVE s[j].key # 0
    <3>1. j \in 1 .. Len(s) /\ ~(j <= p)
      BY <2>3
    <3> QED
      BY <2>2, <3>1
  <2>5. p \in at
    BY <1>1, <2>3, <2>4 DEF LastAt
  <2>6. PICK i \in 1 .. n : o[i] = p
    BY <1>11, <2>5
  <2> QED
    BY <1>5, <1>6, <2>3, <2>6 DEF Validate
<1> QED
  BY <1>5, <1>12, <1>13, <1>14

(***************************************************************************)
(* The invariant is the property itself, with the type of what was         *)
(* accepted.                                                               *)
(***************************************************************************)
EffectInv == accepted \in Seq(Op) /\ SameEffect

LEMMA AppendIs ==
  ASSUME NEW s \in Seq(Op), NEW op \in Op, NEW n, n = Len(s)
  PROVE  Append(s, op) = [i \in 1 .. n + 1 |-> IF i = n + 1 THEN op ELSE s[i]]
<1> DEFINE t == Append(s, op)
<1>1. /\ t \in Seq(Op) /\ Len(t) = n + 1 /\ n \in Nat /\ t[n + 1] = op
      /\ \A i \in 1 .. n : t[i] = s[i]
  OBVIOUS
<1> HIDE DEF t
<1>2. t = [i \in 1 .. n + 1 |-> t[i]]
  BY <1>1
<1>3. \A i \in 1 .. n + 1 : i = n + 1 \/ i \in 1 .. n
  BY <1>1
<1>4. \A i \in 1 .. n + 1 : t[i] = IF i = n + 1 THEN op ELSE s[i]
  BY <1>1, <1>3
<1> QED
  BY <1>2, <1>4 DEF t

\* Put and Delete put their operation behind the others.
LEMMA StagedOps ==
  ASSUME BatchInv, NEW op \in Op, Stage(op)
  PROVE  ops' = Append(ops, op)
<1>1. AppendOp(op) /\ length' = length + 1
  BY DEF Stage
<1>2. array \in Seq(Op) /\ length \in Nat /\ length <= Len(array) /\ Len(array) \in Nat
  BY DEF BatchInv
<1>3. ops \in Seq(Op) /\ Len(ops) = length /\ \A i \in 1 .. length : ops[i] = array[i]
  BY <1>2 DEF ops
<1>4. Append(ops, op) = [i \in 1 .. length + 1 |-> IF i = length + 1 THEN op ELSE array[i]]
  <2>1. Append(ops, op) = [i \in 1 .. length + 1 |-> IF i = length + 1 THEN op ELSE ops[i]]
    BY <1>3, AppendIs
  <2>2. \A i \in 1 .. length + 1 : i = length + 1 \/ i \in 1 .. length
    BY <1>2
  <2>3. \A i \in 1 .. length + 1 :
          (IF i = length + 1 THEN op ELSE ops[i]) = IF i = length + 1 THEN op ELSE array[i]
    BY <1>3, <2>2
  <2> QED
    BY <2>1, <2>3
<1>5. CASE length < room
  <2> DEFINE n == IF length < Len(array) THEN Len(array) ELSE length + 1
  <2>1. array' = [i \in 1 .. n |-> IF i = length + 1 THEN op ELSE array[i]]
    BY <1>1, <1>5 DEF AppendOp
  <2>2. n \in Nat /\ length + 1 <= n /\ length + 1 \in Nat
    BY <1>2
  <2> HIDE DEF n
  <2>3. \A i \in 1 .. length + 1 : i \in 1 .. n
    BY <2>2
  <2>4. SubSeq(array', 1, length + 1) = [i \in 1 .. length + 1 |-> array'[i]]
    BY <2>1, <2>2
  <2>5. \A i \in 1 .. length + 1 : array'[i] = IF i = length + 1 THEN op ELSE array[i]
    BY <2>1, <2>3
  <2> QED
    BY <1>1, <1>4, <2>4, <2>5 DEF ops
<1>6. CASE ~(length < room)
  <2>1. array' = Append(ops, op)
    BY <1>1, <1>6 DEF AppendOp
  <2>2. array' \in Seq(Op) /\ Len(array') = length + 1
    BY <1>3, <2>1
  <2>3. SubSeq(array', 1, length + 1) = array'
    BY <1>2, <2>2
  <2> QED
    BY <1>1, <2>1, <2>3 DEF ops
<1> QED
  BY <1>5, <1>6

\* The empty list does nothing.
LEMMA EffectOfNone ==
  ASSUME NEW s \in Seq(Op), Len(s) = 0
  PROVE  s = <<>> /\ SizeOf(s) = 0
<1>1. s = <<>>
  BY EmptySeq
<1> QED
  BY <1>1, SizeOfNone

LEMMA NextEffectInv == BatchInv /\ BatchInv' /\ EffectInv /\ [BatchNext]_batchVars => EffectInv'
<1> SUFFICES ASSUME BatchInv, BatchInv', EffectInv, [BatchNext]_batchVars PROVE EffectInv'
  OBVIOUS
<1>0. /\ ops \in Seq(Op) /\ ops' \in Seq(Op) /\ Len(ops') = length'
      /\ accepted \in Seq(Op) /\ Effect(ops) = Effect(accepted)
      /\ Validate(ops) = Validate(accepted) /\ (~discarded => sizeBytes = SizeOf(ops))
  <2>1. ops' \in Seq(Op) /\ Len(ops') = length'
    BY DEF BatchInv, ops
  <2> QED
    BY <2>1, OpsType DEF EffectInv, SameEffect
<1>1. CASE UNCHANGED batchVars \/ Ops \/ MarkCommitted
  <2>1. UNCHANGED <<array, length, accepted, discarded, sizeBytes>>
    BY <1>1 DEF batchVars, Ops, MarkCommitted
  <2>2. ops' = ops
    BY <2>1 DEF ops
  <2> QED
    BY <1>0, <2>1, <2>2 DEF EffectInv, SameEffect
<1>2. ASSUME NEW op \in Op, Stage(op) PROVE EffectInv'
  <2>1. /\ ops' = Append(ops, op) /\ accepted' = Append(accepted, op)
        /\ sizeBytes' = sizeBytes + OpSize(op) /\ ~discarded /\ discarded' = discarded
    BY <1>2, StagedOps DEF Stage
  <2>2. accepted' \in Seq(Op)
    BY <1>0, <2>1
  <2>3. Effect(ops') = Effect(accepted')
    <3>1. Effect(ops') = {x \in Effect(ops) : x.key # op.key} \cup {op}
      BY <1>0, <2>1, EffectOfOneMore
    <3>2. Effect(accepted') = {x \in Effect(accepted) : x.key # op.key} \cup {op}
      BY <1>0, <2>1, EffectOfOneMore
    <3> QED
      BY <1>0, <3>1, <3>2
  <2>4. Validate(ops') = Validate(accepted')
    <3>1. Validate(ops') \in BOOLEAN /\ Validate(accepted') \in BOOLEAN
      BY DEF Validate
    <3>2. Validate(ops') <=> Validate(ops) /\ op.key # 0
      BY <1>0, <2>1, EffectOfOneMore
    <3>3. Validate(accepted') <=> Validate(accepted) /\ op.key # 0
      BY <1>0, <2>1, EffectOfOneMore
    <3> QED
      BY <1>0, <3>1, <3>2, <3>3
  <2>5. sizeBytes' = SizeOf(ops')
    BY <1>0, <2>1, SizeOfOneMore
  <2> QED
    BY <2>2, <2>3, <2>4, <2>5 DEF EffectInv, SameEffect
<1>3. CASE Discard \/ BatchReset
  <2>1. length' = 0 /\ accepted' = <<>> /\ (discarded' \/ sizeBytes' = 0)
    BY <1>3 DEF Discard, BatchReset
  <2>2. ops' = <<>> /\ SizeOf(ops') = 0
    BY <1>0, <2>1, EffectOfNone
  <2> QED
    BY <2>1, <2>2 DEF EffectInv, SameEffect
<1>4. CASE Deduplicate
  <2>1. PICK t \in InOrder(ops, LastPerKey(ops)) :
          /\ array' = t /\ length' = Len(t) /\ sizeBytes' = SizeOf(t)
          /\ UNCHANGED <<discarded, accepted>>
    BY <1>4 DEF Deduplicate
  <2>2. t \in Seq(Op) /\ Effect(t) = Effect(ops) /\ (Validate(t) <=> Validate(ops))
    BY <1>0, EffectOfLast
  <2>3. ops' = t
    BY <2>1, <2>2 DEF ops
  <2>4. Validate(ops') = Validate(accepted')
    <3>1. Validate(t) \in BOOLEAN /\ Validate(ops) \in BOOLEAN
      BY DEF Validate
    <3> QED
      BY <1>0, <2>1, <2>2, <2>3, <3>1
  <2> QED
    BY <1>0, <2>1, <2>2, <2>3, <2>4 DEF EffectInv, SameEffect
<1> QED
  BY <1>1, <1>2, <1>3, <1>4 DEF BatchNext

LEMMA InitEffectInv == BatchInit => EffectInv
<1> SUFFICES ASSUME BatchInit PROVE EffectInv
  OBVIOUS
<1>1. ops = <<>> /\ accepted = <<>> /\ sizeBytes = 0
  BY DEF BatchInit, ops
<1>2. SizeOf(ops) = 0
  <2>1. ops \in Seq(Op) /\ Len(ops) = 0
    BY <1>1
  <2> QED
    BY <2>1, SizeOfNone
<1> QED
  BY <1>1, <1>2 DEF EffectInv, SameEffect

(***************************************************************************)
(* The operations a batch would apply do what all the accepted ones would  *)
(* have done, Validate finds an empty key in them when it would have in    *)
(* those, and SizeBytes is their size until a Discard, for any keys, sizes *)
(* and number of operations (Put, Delete, Deduplicate, Reset, Validate).   *)
(***************************************************************************)
THEOREM EffectAlwaysSame == BatchSpec => []SameEffect
<1>1. EffectInv => SameEffect
  BY DEF EffectInv
<1> QED
  BY <1>1, InitBatchInv, NextBatchInv, InitEffectInv, NextEffectInv, PTL DEF BatchSpec

(***************************************************************************)
(* keydir.  A saved directory survives power losses, what a load takes     *)
(* back is a list that was given to a save, and NewSnapshot's loop answers *)
(* by the last record of each key, for any keys and lists.                 *)
(***************************************************************************)

DirRecord == [key : DirKey, tomb : BOOLEAN]

Block == [count : Nat] \cup DirRecord

\* The lists a load may find: the one saved last and those tried since.
SavedLists == (tried \cup {stored}) \ {NoList}

\* A file holds the first blocks of a list.
PartOf(f, l) ==
  /\ f \in Seq(Block) /\ Len(f) <= Len(l) + 1
  /\ \A i \in 1 .. Len(f) : f[i] = Blocks(l)[i]

\* A load has read the count and the first records of a list.
ReadOf(load, l) ==
  /\ load = [count |-> load.count, recs |-> load.recs] /\ load.count = Len(l)
  /\ load.recs \in Seq(DirRecord) /\ Len(load.recs) <= Len(l)
  /\ \A i \in 1 .. Len(load.recs) : load.recs[i] = l[i]

(***************************************************************************)
(* The inductive invariant: SavedIsDurable needs that no save runs and     *)
(* that the synced file is the same; what a load returns, that the file    *)
(* and the synced file hold the beginning of one list each, and that a     *)
(* load no save overlapped read all of one list.                           *)
(***************************************************************************)
KeyDirInv ==
  /\ tried \subseteq DirList /\ stored \in DirList \cup {NoList}
  /\ saving # NoList => saving \in tried /\ PartOf(dirFile, saving)
  /\ dirFile = NoList \/ \E l \in SavedLists : PartOf(dirFile, l)
  /\ onDisk = NoList \/ \E l \in SavedLists : PartOf(onDisk, l)
  /\ (tried = {} /\ stored # NoList) => dirFile = Blocks(stored) /\ onDisk = dirFile
  /\ (loading # NoList /\ ~raced) =>
       /\ saving = NoList
       /\ \E l \in SavedLists : PartOf(dirFile, l) /\ ReadOf(loading, l)

\* The blocks WriteTo writes: the header, then the records.
LEMMA BlocksOf ==
  ASSUME NEW l \in DirList
  PROVE  /\ l \in Seq(DirRecord) /\ Len(l) \in Nat
         /\ Blocks(l) \in Seq(Block) /\ Len(Blocks(l)) = Len(l) + 1
         /\ Blocks(l)[1] = [count |-> Len(l)]
         /\ \A i \in 1 .. Len(l) : Blocks(l)[i + 1] = l[i]
<1>1. l \in Seq(DirRecord)
  BY KeyDirAssumption DEF DirRecord
<1>2. Len(l) \in Nat /\ [count |-> Len(l)] \in Block
  BY <1>1 DEF Block
<1>3. l \in Seq(Block) /\ <<[count |-> Len(l)]>> \in Seq(Block)
  BY <1>1, <1>2 DEF Block
<1> DEFINE h == <<[count |-> Len(l)]>>
<1>4. Len(h) = 1 /\ h[1] = [count |-> Len(l)]
  OBVIOUS
<1> HIDE DEF h
<1>5. Blocks(l) = h \o l
  BY DEF Blocks, h
<1>6. h \in Seq(Block)
  BY <1>3 DEF h
<1>7. /\ Blocks(l) \in Seq(Block) /\ Len(Blocks(l)) = 1 + Len(l)
      /\ \A i \in 1 .. 1 + Len(l) : Blocks(l)[i] = IF i <= 1 THEN h[i] ELSE l[i - 1]
  <2>1. /\ h \o l \in Seq(Block) /\ Len(h \o l) = Len(h) + Len(l)
        /\ \A i \in 1 .. Len(h) + Len(l) :
             (h \o l)[i] = IF i <= Len(h) THEN h[i] ELSE l[i - Len(h)]
    BY <1>3, <1>6, ConcatProperties, Zenon
  <2> QED
    BY <1>4, <1>5, <2>1, Zenon
<1>8. Blocks(l)[1] = [count |-> Len(l)]
  BY <1>2, <1>4, <1>7
<1>9. ASSUME NEW i \in 1 .. Len(l) PROVE Blocks(l)[i + 1] = l[i]
  BY <1>2, <1>7
<1> QED
  BY <1>1, <1>2, <1>7, <1>8, <1>9

\* A complete file holds all of its list.
LEMMA BlocksArePart ==
  ASSUME NEW l \in DirList
  PROVE  PartOf(Blocks(l), l)
<1>1. Blocks(l) \in Seq(Block) /\ Len(Blocks(l)) = Len(l) + 1 /\ Len(l) \in Nat
  BY BlocksOf
<1> QED
  BY <1>1 DEF PartOf

\* A save begins with an empty file.
LEMMA SaveCreatesInv ==
  ASSUME KeyDirInv, NEW l \in DirList, SaveCreates(l)
  PROVE  KeyDirInv'
<1>1. /\ dirFile' = <<>> /\ saving' = l /\ tried' = tried \cup {l} /\ raced' = (loading # NoList)
      /\ UNCHANGED <<onDisk, loading, stored>>
  BY DEF SaveCreates
<1>2. l # NoList /\ l \in SavedLists' /\ SavedLists \subseteq SavedLists'
  BY <1>1, KeyDirAssumption DEF SavedLists
<1>3. PartOf(<<>>, l)
  BY BlocksOf DEF PartOf
<1> QED
  BY <1>1, <1>2, <1>3 DEF KeyDirInv

\* Each write makes the file a longer part of the list.
LEMMA SaveWritesInv ==
  ASSUME KeyDirInv, SaveWrites
  PROVE  KeyDirInv'
<1>1. /\ saving # NoList /\ Len(dirFile) < Len(Blocks(saving))
      /\ dirFile' = Append(dirFile, Blocks(saving)[Len(dirFile) + 1])
      /\ UNCHANGED <<onDisk, saving, loading, raced, tried, stored>>
  BY DEF SaveWrites
<1>2. saving \in tried /\ saving \in DirList /\ PartOf(dirFile, saving) /\ tried # {}
  BY <1>1 DEF KeyDirInv
<1>3. PartOf(dirFile', saving)
  <2> DEFINE b == Blocks(saving)
  <2>1. b \in Seq(Block) /\ Len(b) = Len(saving) + 1 /\ Len(saving) \in Nat
    BY <1>2, BlocksOf
  <2>2. dirFile \in Seq(Block) /\ \A i \in 1 .. Len(dirFile) : dirFile[i] = b[i]
    BY <1>2 DEF PartOf
  <2> HIDE DEF b
  <2>3. b[Len(dirFile) + 1] \in Block
    BY <1>1, <2>1, <2>2 DEF b
  <2>4. dirFile' = Append(dirFile, b[Len(dirFile) + 1])
    BY <1>1 DEF b
  <2>5. dirFile' \in Seq(Block) /\ Len(dirFile') = Len(dirFile) + 1 /\ Len(dirFile') <= Len(b)
    BY <1>1, <2>1, <2>2, <2>3, <2>4 DEF b
  <2>6. \A i \in 1 .. Len(dirFile') : dirFile'[i] = b[i]
    BY <2>2, <2>3, <2>4, <2>5
  <2> QED
    BY <2>1, <2>5, <2>6 DEF PartOf, b
<1>4. SavedLists' = SavedLists /\ saving \in SavedLists
  BY <1>1, <1>2 DEF SavedLists
<1> QED
  BY <1>1, <1>2, <1>3, <1>4 DEF KeyDirInv

\* A save returns with its list in the file and on the disk.
LEMMA SaveReturnsInv ==
  ASSUME KeyDirInv, SaveReturns
  PROVE  KeyDirInv'
<1>1. /\ saving # NoList /\ dirFile = Blocks(saving) /\ onDisk' = dirFile
      /\ stored' = saving /\ tried' = {} /\ saving' = NoList
      /\ UNCHANGED <<dirFile, loading, raced>>
  BY DEF SaveReturns
<1>2. saving \in DirList /\ SavedLists' = {saving}
  BY <1>1 DEF KeyDirInv, SavedLists
<1>3. PartOf(dirFile, saving)
  BY <1>1, <1>2, BlocksArePart
<1> QED
  BY <1>1, <1>2, <1>3 DEF KeyDirInv

\* A load reads the count of the list the file holds.
LEMMA LoadReadsHeaderInv ==
  ASSUME KeyDirInv, LoadReadsHeader
  PROVE  KeyDirInv'
<1>1. /\ dirFile # NoList /\ dirFile # <<>>
      /\ loading' = [count |-> dirFile[1].count, recs |-> <<>>] /\ raced' = (saving # NoList)
      /\ UNCHANGED <<dirFile, onDisk, saving, tried, stored>>
  BY DEF LoadReadsHeader
<1>2. PICK l \in SavedLists : PartOf(dirFile, l)
  BY <1>1 DEF KeyDirInv
<1>3. l \in DirList
  BY DEF KeyDirInv, SavedLists
<1>4. dirFile[1] = [count |-> Len(l)]
  BY <1>1, <1>2, <1>3, BlocksOf DEF PartOf
<1>5. loading'.count = Len(l) /\ loading'.recs = <<>>
  BY <1>1, <1>4
<1>6. ReadOf(loading', l)
  BY <1>1, <1>3, <1>5, BlocksOf DEF ReadOf
<1>7. SavedLists' = SavedLists
  BY <1>1 DEF SavedLists
<1> QED
  BY <1>1, <1>2, <1>6, <1>7 DEF KeyDirInv

\* A load reads the next record of that list.
LEMMA LoadReadsRecordInv ==
  ASSUME KeyDirInv, LoadReadsRecord
  PROVE  KeyDirInv'
<1> DEFINE n == Len(loading.recs)
<1>1. /\ loading # NoList /\ n < loading.count /\ Len(dirFile) > n + 1
      /\ loading' = [loading EXCEPT !.recs = Append(@, dirFile[Len(@) + 2])]
      /\ UNCHANGED <<dirFile, onDisk, saving, raced, tried, stored>>
  BY DEF LoadReadsRecord
<1>2. SavedLists' = SavedLists
  BY <1>1 DEF SavedLists
<1>3. CASE raced
  BY <1>1, <1>2, <1>3 DEF KeyDirInv
<1>4. CASE ~raced
  <2>1. PICK l \in SavedLists : PartOf(dirFile, l) /\ ReadOf(loading, l)
    BY <1>1, <1>4 DEF KeyDirInv
  <2>2. l \in DirList
    BY DEF KeyDirInv, SavedLists
  <2>3. /\ loading = [count |-> loading.count, recs |-> loading.recs] /\ loading.count = Len(l)
        /\ loading.recs \in Seq(DirRecord) /\ \A i \in 1 .. n : loading.recs[i] = l[i]
    BY <2>1 DEF ReadOf
  <2>4. n \in Nat /\ Len(l) \in Nat /\ l \in Seq(DirRecord) /\ n + 1 \in 1 .. Len(l)
    <3>1. l \in Seq(DirRecord) /\ Len(l) \in Nat
      BY <2>2, BlocksOf
    <3>2. n \in Nat
      BY <2>3
    <3> QED
      BY <1>1, <2>3, <3>1, <3>2
  <2>5. dirFile[n + 2] = l[n + 1]
    <3>1. n + 2 \in 1 .. Len(dirFile)
      BY <1>1, <2>1, <2>4 DEF PartOf
    <3>2. dirFile[n + 2] = Blocks(l)[n + 2]
      BY <2>1, <3>1 DEF PartOf
    <3>3. Blocks(l)[(n + 1) + 1] = l[n + 1]
      BY <2>2, <2>4, BlocksOf
    <3> QED
      BY <2>4, <3>2, <3>3
  <2>6. l[n + 1] \in DirRecord
    BY <2>4
  <2>7. loading' = [count |-> loading.count, recs |-> Append(loading.recs, l[n + 1])]
    BY <1>1, <2>3, <2>5
  <2>8. loading'.count = Len(l) /\ loading'.recs = Append(loading.recs, l[n + 1])
    BY <2>3, <2>7
  <2>9. /\ loading'.recs \in Seq(DirRecord) /\ Len(loading'.recs) = n + 1
        /\ \A i \in 1 .. n + 1 : loading'.recs[i] = l[i]
    BY <2>3, <2>4, <2>6, <2>8
  <2>10. ReadOf(loading', l)
    BY <2>4, <2>7, <2>8, <2>9 DEF ReadOf
  <2>11. saving = NoList
    BY <1>1, <1>4 DEF KeyDirInv
  <2> QED
    BY <1>1, <1>2, <2>1, <2>10, <2>11 DEF KeyDirInv
<1> QED
  BY <1>3, <1>4

\* A power loss leaves the synced file or a part of the present one.
LEMMA DirPowerLossInv ==
  ASSUME KeyDirInv, DirPowerLoss
  PROVE  KeyDirInv'
<1>1. /\ dirFile # NoList /\ onDisk' = dirFile'
      /\ saving' = NoList /\ loading' = NoList /\ UNCHANGED <<tried, stored>>
      /\ \/ dirFile' = onDisk
         \/ dirFile # onDisk /\ \E n \in 0 .. Len(dirFile) : dirFile' = SubSeq(dirFile, 1, n)
  BY DEF DirPowerLoss
<1>2. SavedLists' = SavedLists
  BY <1>1 DEF SavedLists
<1>3. CASE dirFile' = onDisk
  BY <1>1, <1>2, <1>3 DEF KeyDirInv
<1>4. CASE dirFile # onDisk /\ \E n \in 0 .. Len(dirFile) : dirFile' = SubSeq(dirFile, 1, n)
  <2>1. PICK n \in 0 .. Len(dirFile) : dirFile' = SubSeq(dirFile, 1, n)
    BY <1>4
  <2>2. PICK l \in SavedLists : PartOf(dirFile, l)
    BY <1>1 DEF KeyDirInv
  <2>3. dirFile \in Seq(Block) /\ l \in DirList
    BY <2>2 DEF PartOf, KeyDirInv, SavedLists
  <2>4. /\ SubSeq(dirFile, 1, n) \in Seq(Block) /\ Len(SubSeq(dirFile, 1, n)) = n
        /\ \A i \in 1 .. n : SubSeq(dirFile, 1, n)[i] = dirFile[i]
    BY <2>3
  <2>5. Len(l) \in Nat
    BY <2>3, BlocksOf
  <2>6. PartOf(dirFile', l)
    BY <2>1, <2>2, <2>3, <2>4, <2>5 DEF PartOf
  <2>7. ~(tried = {} /\ stored # NoList)
    BY <1>4 DEF KeyDirInv
  <2> QED
    BY <1>1, <1>2, <2>2, <2>6, <2>7 DEF KeyDirInv
<1> QED
  BY <1>1, <1>3, <1>4

\* Every step keeps the invariant.
LEMMA NextKeyDirInv == KeyDirInv /\ [KeyDirNext]_keyDirVars => KeyDirInv'
<1> SUFFICES ASSUME KeyDirInv, [KeyDirNext]_keyDirVars PROVE KeyDirInv'
  OBVIOUS
<1>1. CASE UNCHANGED keyDirVars
  BY <1>1 DEF keyDirVars, KeyDirInv, SavedLists
<1>2. ASSUME NEW l \in DirList, SaveCreates(l) PROVE KeyDirInv'
  BY <1>2, SaveCreatesInv
<1>3. CASE SaveStops
  BY <1>3 DEF SaveStops, KeyDirInv, SavedLists
<1>4. CASE LoadFails \/ LoadReturns
  BY <1>4 DEF LoadFails, LoadReturns, KeyDirInv, SavedLists
<1> QED
  BY <1>1, <1>2, <1>3, <1>4, SaveWritesInv, SaveReturnsInv, LoadReadsHeaderInv,
     LoadReadsRecordInv, DirPowerLossInv DEF KeyDirNext

\* Initially there is no file.
LEMMA InitKeyDirInv == KeyDirInit => KeyDirInv
BY DEF KeyDirInit, KeyDirInv

(***************************************************************************)
(* Once SaveToFile returned nil the file holds the saved list through any  *)
(* power losses, until the next SaveToFile, for any lists.                 *)
(***************************************************************************)
THEOREM SavedAlwaysDurable == KeyDirSpec => []SavedIsDurable
<1>1. KeyDirInv => SavedIsDurable
  BY DEF KeyDirInv, SavedIsDurable
<1> QED
  BY InitKeyDirInv, NextKeyDirInv, <1>1, PTL DEF KeyDirSpec

(***************************************************************************)
(* A load that succeeds and that no save overlapped returns exactly one of *)
(* the lists: the one saved last or one that a later save was given, and   *)
(* never a mixture or a part (SaveToFile, ReadFrom).                       *)
(***************************************************************************)
LoadReturnsASave ==
  (loading # NoList /\ Len(loading.recs) = loading.count /\ ~raced) =>
    loading.recs \in SavedLists

\* A load no save overlapped has read the whole of one list.
LEMMA InvReturnsASave == KeyDirInv => LoadReturnsASave
<1> SUFFICES ASSUME KeyDirInv, loading # NoList, Len(loading.recs) = loading.count, ~raced
             PROVE  loading.recs \in SavedLists
  BY DEF LoadReturnsASave
<1>1. PICK l \in SavedLists : ReadOf(loading, l)
  BY DEF KeyDirInv
<1>2. l \in Seq(DirRecord)
  BY BlocksOf DEF KeyDirInv, SavedLists
<1>3. /\ loading.recs \in Seq(DirRecord) /\ Len(loading.recs) = Len(l)
      /\ \A i \in 1 .. Len(l) : loading.recs[i] = l[i]
  BY <1>1 DEF ReadOf
<1>4. loading.recs = l
  BY <1>2, <1>3
<1> QED
  BY <1>4

(***************************************************************************)
(* LoadReturnsASave holds for any lists, through failed saves, kills and   *)
(* power losses (SaveToFile, LoadFromFile).                                *)
(***************************************************************************)
THEOREM LoadAlwaysReturnsASave == KeyDirSpec => []LoadReturnsASave
BY InitKeyDirInv, NextKeyDirInv, InvReturnsASave, PTL DEF KeyDirSpec

(***************************************************************************)
(* NewSnapshot's loop over the first q records of a list.                  *)
(***************************************************************************)
Maps(f, l, q) ==
  f = [i \in 0 .. q |-> IF i = 0 THEN [k \in DirKey |-> 0] ELSE [f[i - 1] EXCEPT ![l[i].key] = i]]

\* The same, one turn of the loop after another.
MapsTurns(f, l, q) ==
  /\ f[0] = [k \in DirKey |-> 0]
  /\ \A i \in 1 .. q : f[i] = [f[i - 1] EXCEPT ![l[i].key] = i]

LEMMA MapsIs ==
  ASSUME NEW f, NEW l, NEW q \in Nat, Maps(f, l, q)
  PROVE  MapsTurns(f, l, q)
<1>1. \A i \in 0 .. q : f[i] = IF i = 0 THEN [k \in DirKey |-> 0]
                               ELSE [f[i - 1] EXCEPT ![l[i].key] = i]
  BY DEF Maps
<1>2. 0 \in 0 .. q /\ \A i \in 1 .. q : i \in 0 .. q /\ i # 0
  OBVIOUS
<1>3. f[0] = [k \in DirKey |-> 0]
  BY <1>1, <1>2
<1>4. ASSUME NEW i \in 1 .. q PROVE f[i] = [f[i - 1] EXCEPT ![l[i].key] = i]
  BY <1>1, <1>2
<1> QED
  BY <1>3, <1>4 DEF MapsTurns

LEMMA MapsExist ==
  ASSUME NEW l \in Seq(DirRecord)
  PROVE  \E f : Maps(f, l, Len(l))
<1> DEFINE q == Len(l)
           S == [DirKey -> Nat]
           none == [k \in DirKey |-> 0]
           h == [p \in S \X (1 .. q) |-> [p[1] EXCEPT ![l[p[2]].key] = p[2]]]
<1>1. q \in Nat /\ none \in S
  OBVIOUS
<1> HIDE DEF q
<1>2. ASSUME NEW p \in S \X (1 .. q) PROVE [p[1] EXCEPT ![l[p[2]].key] = p[2]] \in S
  <2>1. p[1] \in S /\ p[2] \in Nat
    BY <1>1
  <2> QED
    BY <2>1
<1>3. h \in [S \X (1 .. q) -> S]
  <2> HIDE DEF S
  <2> QED BY <1>2
<1>4. \A x \in S, n \in 1 .. q : h[<<x, n>>] = [x EXCEPT ![l[n].key] = n]
  <2> HIDE DEF S
  <2> QED OBVIOUS
<1> HIDE DEF h, S, none
<1>5. PICK f : Loop(f, S, none, h, q)
  BY <1>1, <1>3, LoopExists
<1>6. f \in [0 .. q -> S] /\ f[0] = none /\ \A n \in 1 .. q : f[n] = h[<<f[n - 1], n>>]
  BY <1>5 DEF Loop
<1>7. ASSUME NEW n \in 0 .. q PROVE f[n] = IF n = 0 THEN none ELSE [f[n - 1] EXCEPT ![l[n].key] = n]
  <2>1. n = 0 \/ (n # 0 /\ n \in 1 .. q /\ n - 1 \in 0 .. q)
    BY <1>1
  <2>2. CASE n = 0
    BY <1>6, <2>2
  <2>3. CASE n # 0 /\ n \in 1 .. q /\ n - 1 \in 0 .. q
    <3>1. f[n - 1] \in S
      BY <1>6, <2>3
    <3> QED
      BY <1>4, <1>6, <2>3, <3>1
  <2> QED
    BY <2>1, <2>2, <2>3
<1>8. f = [n \in 0 .. q |-> f[n]]
  BY <1>6
<1>9. Maps(f, l, q)
  BY <1>7, <1>8 DEF Maps, none
<1> QED
  BY <1>9 DEF q

\* The place v of key k among the first q records: the last one, or 0.
PlaceOf(l, q, k, v) ==
  \/ v = 0 /\ \A j \in 1 .. q : l[j].key # k
  \/ v \in 1 .. q /\ l[v].key = k /\ \A j \in v + 1 .. q : l[j].key # k

\* The loop leaves the last place of each key.
LEMMA MapsPlaces ==
  ASSUME NEW l \in Seq(DirRecord), NEW f, Maps(f, l, Len(l))
  PROVE  \A k \in DirKey : PlaceOf(l, Len(l), k, f[Len(l)][k])
<1> DEFINE n == Len(l)
           Good(i) == DOMAIN f[i] = DirKey /\ \A k \in DirKey : PlaceOf(l, i, k, f[i][k])
           Wrong == {i \in 0 .. n : ~Good(i)}
<1>1. n \in Nat /\ \A i \in 1 .. n : l[i].key \in DirKey
  <2>1. \A i \in 1 .. n : l[i] \in DirRecord
    OBVIOUS
  <2>2. n \in Nat
    OBVIOUS
  <2> QED
    BY <2>1, <2>2 DEF DirRecord
<1> HIDE DEF n
<1>2. /\ f[0] = [k \in DirKey |-> 0]
      /\ \A i \in 1 .. n : f[i] = [f[i - 1] EXCEPT ![l[i].key] = i]
  <2>1. Maps(f, l, n)
    BY DEF n
  <2>2. n \in Nat
    BY <1>1
  <2>3. MapsTurns(f, l, n)
    BY <2>1, <2>2, MapsIs
  <2> QED
    BY <2>3 DEF MapsTurns
<1>3. Good(0)
  BY <1>2 DEF PlaceOf
<1>4. ASSUME NEW i \in 1 .. n, Good(i - 1) PROVE Good(i)
  <2> DEFINE h == f[i - 1]
             c == l[i].key
  <2>1. f[i] = [h EXCEPT ![c] = i] /\ c \in DirKey /\ DOMAIN h = DirKey
    BY <1>1, <1>2, <1>4
  <2>2. i \in Nat /\ i - 1 \in Nat /\ i \in 1 .. i
    BY <1>1
  <2>3. \A j \in 1 .. i : j = i \/ j \in 1 .. i - 1
    BY <2>2
  <2>4. ASSUME NEW k \in DirKey PROVE PlaceOf(l, i, k, f[i][k])
    <3>1. CASE k = c
      <4>1. f[i][k] = i
        BY <2>1, <3>1
      <4>2. \A j \in i + 1 .. i : FALSE
        BY <2>2
      <4> QED
        BY <2>2, <3>1, <4>1, <4>2 DEF PlaceOf
    <3>2. CASE k # c
      <4> DEFINE v == h[k]
      <4>1. f[i][k] = v
        BY <2>1, <3>2
      <4>2. PlaceOf(l, i - 1, k, v)
        BY <1>4
      <4> HIDE DEF v
      <4>3. CASE v = 0 /\ \A j \in 1 .. i - 1 : l[j].key # k
        BY <2>3, <3>2, <4>1, <4>3 DEF PlaceOf
      <4>4. CASE v \in 1 .. i - 1 /\ l[v].key = k /\ \A j \in v + 1 .. i - 1 : l[j].key # k
        <5>1. v \in 1 .. i /\ \A j \in v + 1 .. i : j = i \/ j \in v + 1 .. i - 1
          BY <2>2, <4>4
        <5>2. \A j \in v + 1 .. i : l[j].key # k
          BY <3>2, <4>4, <5>1
        <5> QED
          BY <4>1, <4>4, <5>1, <5>2 DEF PlaceOf
      <4> QED
        BY <4>2, <4>3, <4>4 DEF PlaceOf
    <3> QED
      BY <3>1, <3>2
  <2>5. DOMAIN f[i] = DirKey
    BY <2>1
  <2> QED
    BY <2>4, <2>5
<1>5. Wrong = {}
  <2> SUFFICES ASSUME Wrong # {} PROVE FALSE
    OBVIOUS
  <2>1. PICK i \in Wrong : \A x \in Wrong : i <= x
    <3>1. Wrong \in SUBSET Nat
      BY <1>1
    <3> HIDE DEF Wrong
    <3> QED BY <3>1, LeastExists
  <2>2. i \in 0 .. n /\ ~Good(i)
    OBVIOUS
  <2> HIDE DEF Good
  <2>3. i # 0
    BY <1>3, <2>2
  <2>4. i \in 1 .. n /\ i - 1 \in 0 .. n /\ ~(i <= i - 1)
    BY <1>1, <2>2, <2>3
  <2>5. Good(i - 1)
    BY <2>1, <2>4
  <2> QED
    BY <1>4, <2>2, <2>4, <2>5
<1>6. Good(n)
  <2>1. n \in 0 .. n
    BY <1>1
  <2> QED
    BY <1>5, <2>1
<1> QED
  BY <1>6 DEF n

\* A key is live in a loaded directory when its last record is no tombstone.
LEMMA LiveIsLast == ASSUME NEW l \in Seq(DirRecord) PROVE LiveKeys(l) = LastIsLive(l)
<1> DEFINE F == CHOOSE f : f = [i \in 0 .. Len(l) |-> IF i = 0 THEN [k \in DirKey |-> 0]
                                                     ELSE [f[i - 1] EXCEPT ![l[i].key] = i]]
           at == byKey(l)
<1>1. Len(l) \in Nat
  OBVIOUS
<1>2. at = F[Len(l)]
  BY DEF byKey
<1>3. Maps(F, l, Len(l))
  BY MapsExist DEF Maps
<1> HIDE DEF F, at
<1>4. \A k \in DirKey : PlaceOf(l, Len(l), k, at[k])
  BY <1>2, <1>3, MapsPlaces
<1>5. ASSUME NEW k \in DirKey
      PROVE  (at[k] # 0 /\ ~l[at[k]].tomb) <=>
             \E i \in 1 .. Len(l) : /\ l[i].key = k /\ ~l[i].tomb
                                    /\ \A j \in i + 1 .. Len(l) : l[j].key # k
  <2> DEFINE v == at[k]
             n == Len(l)
  <2>1. PlaceOf(l, n, k, v)
    BY <1>4
  <2>2. n \in Nat
    OBVIOUS
  <2> HIDE DEF v, n
  <2>3. CASE v = 0 /\ \A j \in 1 .. n : l[j].key # k
    BY <2>3 DEF v, n
  <2>4. CASE v \in 1 .. n /\ l[v].key = k /\ \A j \in v + 1 .. n : l[j].key # k
    <3>1. v # 0
      BY <2>2, <2>4
    <3>2. ASSUME NEW i \in 1 .. n, l[i].key = k, \A j \in i + 1 .. n : l[j].key # k PROVE i = v
      <4>1. i \notin v + 1 .. n /\ v \notin i + 1 .. n
        BY <2>4, <3>2
      <4> QED
        BY <2>2, <2>4, <4>1
    <3> QED
      BY <2>4, <3>1, <3>2 DEF v, n
  <2> QED
    BY <2>1, <2>3, <2>4 DEF PlaceOf
<1>6. LiveKeys(l) = {k \in DirKey : at[k] # 0 /\ ~l[at[k]].tomb}
  BY DEF LiveKeys, at
<1> QED
  BY <1>5, <1>6 DEF LastIsLive

(***************************************************************************)
(* DirectorySurvives, for any keys and any lists: a saved list stays in    *)
(* the file, and a directory loaded while nothing was saved answers for    *)
(* every key as the last record of it says, in the list saved last or one  *)
(* that a later save was given (SaveToFile, LoadFromFile, NewSnapshot).    *)
(***************************************************************************)
THEOREM DirectoryAlwaysSurvives == KeyDirSpec => []DirectorySurvives
<1>1. KeyDirInv => DirectorySurvives
  <2> SUFFICES ASSUME KeyDirInv PROVE DirectorySurvives
    OBVIOUS
  <2>1. SavedIsDurable
    BY DEF KeyDirInv, SavedIsDurable
  <2>2. ASSUME loading # NoList, Len(loading.recs) = loading.count, ~raced
        PROVE  \E l \in SavedLists : LiveKeys(loading.recs) = LastIsLive(l)
    <3>1. loading.recs \in SavedLists
      BY <2>2, InvReturnsASave DEF LoadReturnsASave
    <3>2. loading.recs \in Seq(DirRecord)
      BY <3>1, BlocksOf DEF KeyDirInv, SavedLists
    <3> QED
      BY <3>1, <3>2, LiveIsLast
  <2> QED
    BY <2>1, <2>2 DEF DirectorySurvives, LoadAnswersAsSaved, SavedLists
<1> QED
  BY InitKeyDirInv, NextKeyDirInv, <1>1, PTL DEF KeyDirSpec

(***************************************************************************)
(* cache.  The keys of the list are the first of those used lately, which  *)
(* are all different; the map has the keys of the list (CacheIsCoherent,   *)
(* HoldsMostRecent), for any keys, values and capacities.                  *)
(***************************************************************************)

\* What the operations on a list give, element by element.
LEMMA RemoveAtIs ==
  ASSUME NEW S, NEW s \in Seq(S), NEW p \in 1 .. Len(s)
  PROVE  /\ RemoveAt(s, p) \in Seq(S) /\ Len(RemoveAt(s, p)) = Len(s) - 1
         /\ \A j \in 1 .. Len(s) - 1 : RemoveAt(s, p)[j] = IF j < p THEN s[j] ELSE s[j + 1]
<1> DEFINE a == SubSeq(s, 1, p - 1)  b == SubSeq(s, p + 1, Len(s))
<1>1. Len(s) \in Nat /\ p \in Int /\ 1 <= p /\ p <= Len(s)
  OBVIOUS
<1>2. a \in Seq(S) /\ Len(a) = p - 1 /\ \A i \in 1 .. p - 1 : a[i] = s[i]
  <2>1. \A i \in 1 .. p - 1 : s[i] \in S
    BY <1>1
  <2>2. a = [i \in 1 .. p - 1 |-> s[i]]
    BY <1>1
  <2> QED
    BY <1>1, <2>1, <2>2
<1>3. b \in Seq(S) /\ Len(b) = Len(s) - p /\ \A i \in 1 .. Len(s) - p : b[i] = s[p + i]
  BY <1>1
<1>4. RemoveAt(s, p) = a \o b
  BY DEF RemoveAt
<1> HIDE DEF a, b
<1>5. a \o b \in Seq(S) /\ Len(a \o b) = Len(a) + Len(b)
  BY <1>2, <1>3, ConcatProperties
<1>6. ASSUME NEW j \in 1 .. Len(s) - 1
      PROVE  (a \o b)[j] = IF j < p THEN s[j] ELSE s[j + 1]
  <2>1. j \in 1 .. Len(a) + Len(b)
    BY <1>1, <1>2, <1>3
  <2>2. (a \o b)[j] = IF j <= Len(a) THEN a[j] ELSE b[j - Len(a)]
    BY <2>1, <1>2, <1>3
  <2>3. CASE j < p
    <3>1. j <= Len(a) /\ j \in 1 .. p - 1
      BY <2>3, <1>1, <1>2
    <3> QED
      BY <3>1, <2>2, <2>3, <1>2
  <2>4. CASE j >= p
    <3>1. j - Len(a) \in 1 .. Len(s) - p /\ p + (j - Len(a)) = j + 1
      BY <2>4, <1>1, <1>2
    <3> QED
      BY <3>1, <2>2, <2>4, <1>1, <1>2, <1>3
  <2>5. j < p \/ j >= p
    BY <1>1
  <2> HIDE DEF a, b
  <2> QED
    BY <2>3, <2>4, <2>5
<1>7. RemoveAt(s, p) \in Seq(S)
  BY <1>4, <1>5
<1>8. Len(RemoveAt(s, p)) = Len(s) - 1
  <2>1. Len(RemoveAt(s, p)) = (p - 1) + (Len(s) - p)
    BY <1>2, <1>3, <1>4, <1>5
  <2> QED
    BY <1>1, <2>1
<1> QED
  BY <1>4, <1>6, <1>7, <1>8

LEMMA RemoveFirstIs ==
  ASSUME NEW s, NEW k, NEW p \in 1 .. Len(s), s[p] = k, \A i \in 1 .. Len(s) : s[i] = k => i = p
  PROVE  RemoveFirst(s, k) = RemoveAt(s, p)
<1>1. {i \in 1 .. Len(s) : s[i] = k} = {p}
  OBVIOUS
<1>2. Min({p}) = p
  BY DEF Min
<1>3. SelectInSeq(s, LAMBDA v : v = k) = p
  BY <1>1, <1>2 DEF SelectInSeq
<1> QED
  BY <1>3 DEF RemoveFirst

LEMMA InFrontIs ==
  ASSUME NEW S, NEW s \in Seq(S), NEW x \in S
  PROVE  /\ <<x>> \o s \in Seq(S) /\ Len(<<x>> \o s) = Len(s) + 1 /\ (<<x>> \o s)[1] = x
         /\ \A j \in 1 .. Len(s) : (<<x>> \o s)[j + 1] = s[j]
OBVIOUS

CacheEntry == [key : CacheKey, value : CacheValue]

ListKeys(l) == {l[i].key : i \in 1 .. Len(l)}

\* The list l has the first of the keys u, which differ, and the map mapped has its keys.
Fits(l, u, mapped) ==
  /\ l \in Seq(CacheEntry) /\ u \in Seq(CacheKey)
  /\ \A i, j \in 1 .. Len(u) : u[i] = u[j] => i = j
  /\ Len(l) <= Len(u) /\ \A i \in 1 .. Len(l) : l[i].key = u[i]
  /\ mapped = ListKeys(l)

\* Every value that l has is the last one put, for the keys not in d.
HasLatest(l, f, d) == \A i \in 1 .. Len(l) : l[i].key \notin d => l[i].value = f[l[i].key]

\* No key of u is k.
Lacks(u, k) == \A i \in 1 .. Len(u) : u[i] # k

\* What is left without one of the used keys.
LEMMA RemovedKeys ==
  ASSUME NEW u \in Seq(CacheKey), NEW p \in 1 .. Len(u),
         \A i, j \in 1 .. Len(u) : u[i] = u[j] => i = j
  PROVE  /\ RemoveAt(u, p) \in Seq(CacheKey) /\ Lacks(RemoveAt(u, p), u[p])
         /\ \A i, j \in 1 .. Len(RemoveAt(u, p)) : RemoveAt(u, p)[i] = RemoveAt(u, p)[j] => i = j
<1> DEFINE w == RemoveAt(u, p)
<1>1. /\ w \in Seq(CacheKey) /\ Len(w) = Len(u) - 1
      /\ \A j \in 1 .. Len(u) - 1 : w[j] = IF j < p THEN u[j] ELSE u[j + 1]
  BY RemoveAtIs
<1> HIDE DEF w
<1>2. Len(u) \in Nat
  OBVIOUS
<1>3. ASSUME NEW i \in 1 .. Len(w) PROVE w[i] # u[p]
  BY <1>1, <1>2
<1>4. ASSUME NEW i \in 1 .. Len(w), NEW j \in 1 .. Len(w), w[i] = w[j] PROVE i = j
  BY <1>1, <1>2, <1>4
<1> QED
  BY <1>1, <1>3, <1>4 DEF Lacks, w

\* An element leaves the list, the map and the used keys.
LEMMA FitsRemoved ==
  ASSUME NEW l, NEW u, NEW mapped, Fits(l, u, mapped), NEW p \in 1 .. Len(l),
         NEW f, NEW d, HasLatest(l, f, d)
  PROVE  /\ Fits(RemoveAt(l, p), RemoveAt(u, p), mapped \ {l[p].key})
         /\ HasLatest(RemoveAt(l, p), f, d) /\ Lacks(RemoveAt(u, p), l[p].key)
         /\ Len(RemoveAt(l, p)) = Len(l) - 1
<1> DEFINE s == RemoveAt(l, p)  w == RemoveAt(u, p)
<1>1. /\ l \in Seq(CacheEntry) /\ u \in Seq(CacheKey) /\ Len(l) \in Nat /\ Len(u) \in Nat
      /\ Len(l) <= Len(u) /\ p \in 1 .. Len(u) /\ u[p] = l[p].key
  BY DEF Fits
<1>2. /\ s \in Seq(CacheEntry) /\ Len(s) = Len(l) - 1
      /\ \A j \in 1 .. Len(l) - 1 : s[j] = IF j < p THEN l[j] ELSE l[j + 1]
  BY <1>1, RemoveAtIs
<1>3. /\ w \in Seq(CacheKey) /\ Len(w) = Len(u) - 1
      /\ \A j \in 1 .. Len(u) - 1 : w[j] = IF j < p THEN u[j] ELSE u[j + 1]
  BY <1>1, RemoveAtIs
<1>4. Lacks(w, l[p].key) /\ \A i, j \in 1 .. Len(w) : w[i] = w[j] => i = j
  BY <1>1, RemovedKeys DEF Fits
<1> HIDE DEF s, w
<1>5. ASSUME NEW i \in 1 .. Len(s) PROVE s[i].key = w[i]
  <2>1. i \in 1 .. Len(l) /\ i + 1 \in 1 .. Len(l) /\ i \in 1 .. Len(l) - 1 /\ i \in 1 .. Len(u) - 1
    BY <1>1, <1>2
  <2>2. l[i].key = u[i] /\ l[i + 1].key = u[i + 1]
    BY <2>1 DEF Fits
  <2>3. /\ s[i] = IF i < p THEN l[i] ELSE l[i + 1]
        /\ w[i] = IF i < p THEN u[i] ELSE u[i + 1]
    BY <2>1, <1>2, <1>3
  <2> QED
    BY <2>2, <2>3
<1>6. ASSUME NEW i \in 1 .. Len(s) PROVE \E j \in 1 .. Len(l) : s[i] = l[j]
  <2>1. i \in 1 .. Len(l) /\ i + 1 \in 1 .. Len(l) /\ i \in 1 .. Len(l) - 1
    BY <1>1, <1>2
  <2> QED
    BY <1>2, <2>1
<1>7. ASSUME NEW j \in 1 .. Len(l), j # p PROVE \E i \in 1 .. Len(s) : s[i] = l[j]
  <2>1. CASE j < p
    BY <1>1, <1>2, <2>1
  <2>2. CASE j > p
    <3>1. j - 1 \in 1 .. Len(l) - 1 /\ ~(j - 1 < p) /\ (j - 1) + 1 = j
      BY <2>2, <1>1
    <3>2. s[j - 1] = l[j]
      BY <3>1, <1>2
    <3> QED
      BY <3>1, <3>2, <1>2
  <2> QED
    BY <2>1, <2>2, <1>7
<1>8. ListKeys(s) = ListKeys(l) \ {l[p].key}
  <2>1. ASSUME NEW i \in 1 .. Len(s) PROVE s[i].key # l[p].key
    BY <1>1, <1>2, <1>3, <1>4, <1>5 DEF Lacks
  <2>2. ASSUME NEW x \in ListKeys(s) PROVE x \in ListKeys(l) \ {l[p].key}
    BY <1>6, <2>1 DEF ListKeys
  <2>3. ASSUME NEW x \in ListKeys(l), x # l[p].key PROVE x \in ListKeys(s)
    BY <1>7, <2>3 DEF ListKeys
  <2> QED
    BY <2>2, <2>3
<1>9. HasLatest(s, f, d)
  BY <1>6 DEF HasLatest
<1>10. Len(s) <= Len(w)
  BY <1>1, <1>2, <1>3
<1> QED
  BY <1>2, <1>3, <1>4, <1>5, <1>8, <1>9, <1>10 DEF Fits, s, w

\* An entry whose key was not used lately is put in front.
LEMMA FitsPushed ==
  ASSUME NEW l, NEW u, NEW mapped, Fits(l, u, mapped), NEW e \in CacheEntry, Lacks(u, e.key),
         NEW f, NEW d, HasLatest(l, f, d), e.key \notin d => e.value = f[e.key]
  PROVE  /\ Fits(<<e>> \o l, <<e.key>> \o u, mapped \cup {e.key})
         /\ HasLatest(<<e>> \o l, f, d) /\ Len(<<e>> \o l) = Len(l) + 1
<1> DEFINE s == <<e>> \o l  w == <<e.key>> \o u
<1>1. /\ l \in Seq(CacheEntry) /\ u \in Seq(CacheKey) /\ Len(l) \in Nat /\ Len(u) \in Nat
      /\ Len(l) <= Len(u) /\ e.key \in CacheKey
  BY DEF Fits, CacheEntry
<1>2. /\ s \in Seq(CacheEntry) /\ Len(s) = Len(l) + 1 /\ s[1] = e
      /\ \A j \in 1 .. Len(l) : s[j + 1] = l[j]
  BY <1>1, InFrontIs
<1>3. /\ w \in Seq(CacheKey) /\ Len(w) = Len(u) + 1 /\ w[1] = e.key
      /\ \A j \in 1 .. Len(u) : w[j + 1] = u[j]
  BY <1>1, InFrontIs
<1> HIDE DEF s, w
<1>4. ASSUME NEW i \in 1 .. Len(s), i # 1
      PROVE  i - 1 \in 1 .. Len(l) /\ i - 1 \in 1 .. Len(u) /\ s[i] = l[i - 1] /\ w[i] = u[i - 1]
  <2>1. i - 1 \in 1 .. Len(l) /\ i - 1 \in 1 .. Len(u) /\ (i - 1) + 1 = i
    BY <1>1, <1>2, <1>4
  <2>2. s[(i - 1) + 1] = l[i - 1] /\ w[(i - 1) + 1] = u[i - 1]
    BY <2>1, <1>2, <1>3
  <2> QED
    BY <2>1, <2>2
<1>5. ASSUME NEW i \in 1 .. Len(w), i # 1 PROVE i - 1 \in 1 .. Len(u) /\ w[i] = u[i - 1]
  <2>1. i - 1 \in 1 .. Len(u) /\ (i - 1) + 1 = i
    BY <1>1, <1>3, <1>5
  <2>2. w[(i - 1) + 1] = u[i - 1]
    BY <2>1, <1>3
  <2> QED
    BY <2>1, <2>2
<1>6. ASSUME NEW i \in 1 .. Len(w), NEW j \in 1 .. Len(w), w[i] = w[j] PROVE i = j
  <2>1. CASE i = 1 \/ j = 1
    BY <1>3, <1>5, <1>6, <2>1 DEF Lacks
  <2>2. CASE i # 1 /\ j # 1
    <3>1. i - 1 = j - 1
      BY <1>5, <1>6, <2>2 DEF Fits
    <3> QED
      BY <3>1, <1>1, <1>3
  <2> QED
    BY <2>1, <2>2
<1>7. ASSUME NEW i \in 1 .. Len(s) PROVE s[i].key = w[i]
  <2>1. CASE i = 1
    BY <2>1, <1>2, <1>3
  <2>2. CASE i # 1
    <3>1. l[i - 1].key = u[i - 1]
      BY <2>2, <1>4 DEF Fits
    <3> QED
      BY <3>1, <2>2, <1>4
  <2> QED
    BY <2>1, <2>2
<1>8. ListKeys(s) = ListKeys(l) \cup {e.key}
  <2>1. 1 \in 1 .. Len(s)
    BY <1>1, <1>2
  <2>2. ASSUME NEW x \in ListKeys(s) PROVE x \in ListKeys(l) \cup {e.key}
    BY <1>2, <1>4 DEF ListKeys
  <2>3. ASSUME NEW j \in 1 .. Len(l) PROVE l[j].key \in ListKeys(s)
    <3>1. j + 1 \in 1 .. Len(s)
      BY <1>1, <1>2
    <3> QED
      BY <3>1, <1>2 DEF ListKeys
  <2>4. e.key \in ListKeys(s)
    BY <2>1, <1>2 DEF ListKeys
  <2> QED
    BY <2>2, <2>3, <2>4 DEF ListKeys
<1>9. HasLatest(s, f, d)
  <2> SUFFICES ASSUME NEW i \in 1 .. Len(s), s[i].key \notin d PROVE s[i].value = f[s[i].key]
    BY DEF HasLatest
  <2>1. CASE i = 1
    BY <2>1, <1>2
  <2>2. CASE i # 1
    BY <2>2, <1>4 DEF HasLatest
  <2> QED
    BY <2>1, <2>2
<1>10. Len(s) <= Len(w)
  BY <1>1, <1>2, <1>3
<1> QED
  BY <1>2, <1>3, <1>6, <1>7, <1>8, <1>9, <1>10 DEF Fits, s, w

\* A used key that the list has no more is used anew: its place is behind the list's.
LEMMA FitsForgotten ==
  ASSUME NEW l, NEW u, NEW mapped, Fits(l, u, mapped), NEW k, k \notin mapped
  PROVE  Fits(l, RemoveFirst(u, k), mapped) /\ Lacks(RemoveFirst(u, k), k)
<1>1. CASE ~ \E i \in 1 .. Len(u) : u[i] = k
  BY <1>1 DEF RemoveFirst, Lacks
<1>2. CASE \E i \in 1 .. Len(u) : u[i] = k
  <2>1. PICK p \in 1 .. Len(u) : u[p] = k
    BY <1>2
  <2> DEFINE w == RemoveAt(u, p)
  <2>2. RemoveFirst(u, k) = w
    <3>1. \A i \in 1 .. Len(u) : u[i] = k => i = p
      BY <2>1 DEF Fits
    <3> QED
      BY <2>1, <3>1, RemoveFirstIs
  <2>3. /\ l \in Seq(CacheEntry) /\ u \in Seq(CacheKey) /\ Len(l) \in Nat /\ Len(u) \in Nat
        /\ Len(l) <= Len(u)
    BY DEF Fits
  <2>4. p > Len(l)
    BY <2>1, <2>3 DEF Fits, ListKeys
  <2>5. /\ w \in Seq(CacheKey) /\ Len(w) = Len(u) - 1
        /\ \A j \in 1 .. Len(u) - 1 : w[j] = IF j < p THEN u[j] ELSE u[j + 1]
    BY <2>1, <2>3, RemoveAtIs
  <2>6. Lacks(w, k) /\ \A i, j \in 1 .. Len(w) : w[i] = w[j] => i = j
    BY <2>1, <2>3, RemovedKeys DEF Fits
  <2> HIDE DEF w
  <2>7. Len(l) <= Len(w)
    BY <2>1, <2>3, <2>4, <2>5
  <2>8. ASSUME NEW i \in 1 .. Len(l) PROVE l[i].key = w[i]
    <3>1. i \in 1 .. Len(u) - 1 /\ i < p
      BY <2>1, <2>3, <2>4
    <3> QED
      BY <3>1, <2>5 DEF Fits
  <2> QED
    BY <2>2, <2>3, <2>5, <2>6, <2>7, <2>8 DEF Fits
<1> QED
  BY <1>1, <1>2

\* The entries behind the first n are evicted.
LEMMA FitsEvicted ==
  ASSUME NEW l, NEW u, NEW mapped, Fits(l, u, mapped), NEW n \in 0 .. Len(l),
         NEW f, NEW d, HasLatest(l, f, d)
  PROVE  /\ Fits(SubSeq(l, 1, n), u, mapped \ {l[i].key : i \in n + 1 .. Len(l)})
         /\ HasLatest(SubSeq(l, 1, n), f, d) /\ Len(SubSeq(l, 1, n)) = n
<1> DEFINE s == SubSeq(l, 1, n)
<1>1. /\ l \in Seq(CacheEntry) /\ u \in Seq(CacheKey) /\ Len(l) \in Nat /\ Len(u) \in Nat
      /\ Len(l) <= Len(u) /\ n \in Nat /\ n <= Len(l)
  BY DEF Fits
<1>2. s = [i \in 1 .. n |-> l[i]]
  BY <1>1
<1>3. \A i \in 1 .. n : i \in 1 .. Len(l) /\ i \in 1 .. Len(u) /\ l[i] \in CacheEntry
  BY <1>1
<1>4. s \in Seq(CacheEntry) /\ Len(s) = n
  BY <1>1, <1>2, <1>3
<1>5. \A i \in 1 .. n : s[i] = l[i]
  BY <1>2
<1> HIDE DEF s
<1>6. ListKeys(s) = ListKeys(l) \ {l[i].key : i \in n + 1 .. Len(l)}
  <2>1. ASSUME NEW i \in 1 .. n, NEW j \in n + 1 .. Len(l) PROVE l[i].key # l[j].key
    <3>1. i \in 1 .. Len(l) /\ j \in 1 .. Len(l) /\ i \in 1 .. Len(u) /\ j \in 1 .. Len(u) /\ i # j
      BY <1>1
    <3> QED
      BY <3>1 DEF Fits
  <2>2. ASSUME NEW x \in ListKeys(s) PROVE x \in ListKeys(l) \ {l[i].key : i \in n + 1 .. Len(l)}
    <3>1. PICK i \in 1 .. n : x = l[i].key
      BY <1>4, <1>5 DEF ListKeys
    <3> QED
      BY <3>1, <2>1, <1>3 DEF ListKeys
  <2>3. ASSUME NEW x \in ListKeys(l), x \notin {l[i].key : i \in n + 1 .. Len(l)}
        PROVE  x \in ListKeys(s)
    <3>1. PICK i \in 1 .. Len(l) : x = l[i].key
      BY DEF ListKeys
    <3>2. i \notin n + 1 .. Len(l)
      BY <3>1, <2>3
    <3>3. i \in 1 .. n
      BY <3>2, <1>1
    <3> QED
      BY <3>1, <3>3, <1>4, <1>5 DEF ListKeys
  <2> QED
    BY <2>2, <2>3
<1>7. HasLatest(s, f, d)
  BY <1>3, <1>4, <1>5 DEF HasLatest
<1> QED
  BY <1>1, <1>3, <1>4, <1>5, <1>6, <1>7 DEF Fits, s

CacheTypes ==
  /\ capacity \in Nat /\ items \subseteq CacheKey /\ dropped \subseteq CacheKey
  /\ latest \in [CacheKey -> CacheValue \cup {NotPut}]

CacheInv ==
  /\ CacheTypes /\ Fits(ll, recent, items) /\ HasLatest(ll, latest, dropped)
  /\ CacheEnabled => Len(ll) <= capacity

\* The element of a cached key, and its place among the used keys.
LEMMA ElementIs ==
  ASSUME CacheInv, NEW k \in items
  PROVE  /\ ElementOf(ll, k) \in 1 .. Len(ll) /\ ll[ElementOf(ll, k)].key = k
         /\ RemoveFirst(recent, k) = RemoveAt(recent, ElementOf(ll, k))
<1> DEFINE p == ElementOf(ll, k)
<1>1. \E i \in 1 .. Len(ll) : ll[i].key = k
  BY DEF CacheInv, Fits, ListKeys
<1>2. p \in 1 .. Len(ll) /\ ll[p].key = k
  BY <1>1 DEF ElementOf
<1> HIDE DEF p
<1>3. p \in 1 .. Len(recent) /\ recent[p] = k
  BY <1>2 DEF CacheInv, Fits
<1>4. \A i \in 1 .. Len(recent) : recent[i] = k => i = p
  BY <1>3 DEF CacheInv, Fits
<1>5. RemoveFirst(recent, k) = RemoveAt(recent, p)
  BY <1>3, <1>4, RemoveFirstIs
<1> QED
  BY <1>2, <1>5 DEF p

\* A value put for k leaves the values of the other keys the last ones put.
LEMMA OthersLatest ==
  ASSUME NEW l, NEW u, NEW mapped, Fits(l, u, mapped), NEW k \in CacheKey, k \notin mapped, NEW v,
         NEW f, DOMAIN f = CacheKey, NEW d, HasLatest(l, f, d)
  PROVE  HasLatest(l, [f EXCEPT ![k] = v], d \ {k})
<1> SUFFICES ASSUME NEW i \in 1 .. Len(l), l[i].key \notin d \ {k}
             PROVE  l[i].value = [f EXCEPT ![k] = v][l[i].key]
  BY DEF HasLatest
<1>1. l[i].key # k /\ l[i].key \in CacheKey
  BY DEF Fits, ListKeys, CacheEntry
<1>2. [f EXCEPT ![k] = v][l[i].key] = f[l[i].key]
  BY <1>1
<1> QED
  BY <1>1, <1>2 DEF HasLatest

\* The element of a cached key is moved to the front, with value v.
LEMMA MovedFits ==
  ASSUME CacheInv, NEW k \in items, NEW v \in CacheValue,
         NEW f, NEW d, HasLatest(WithoutElement(ll, k), f, d), k \notin d => v = f[k]
  PROVE  /\ Fits(MovedToFront(ll, k, v), <<k>> \o RemoveFirst(recent, k), items)
         /\ HasLatest(MovedToFront(ll, k, v), f, d) /\ Len(MovedToFront(ll, k, v)) = Len(ll)
<1> DEFINE p == ElementOf(ll, k)  e == [key |-> k, value |-> v]
<1>1. p \in 1 .. Len(ll) /\ ll[p].key = k /\ RemoveFirst(recent, k) = RemoveAt(recent, p)
  BY ElementIs
<1>2. WithoutElement(ll, k) = RemoveAt(ll, p)
  BY DEF WithoutElement
<1> HIDE DEF p
<1>3. /\ Fits(RemoveAt(ll, p), RemoveAt(recent, p), items \ {k}) /\ Lacks(RemoveAt(recent, p), k)
      /\ Len(RemoveAt(ll, p)) = Len(ll) - 1
  BY <1>1, FitsRemoved DEF CacheInv
<1>4. k \in CacheKey
  BY DEF CacheInv, CacheTypes
<1>5. e \in CacheEntry /\ e.key = k /\ e.value = v
  BY <1>4 DEF CacheEntry
<1>6. MovedToFront(ll, k, v) = <<e>> \o RemoveAt(ll, p)
  BY <1>2 DEF MovedToFront, PushedFront
<1> HIDE DEF e
<1>7. /\ Fits(<<e>> \o RemoveAt(ll, p), <<k>> \o RemoveAt(recent, p), (items \ {k}) \cup {k})
      /\ HasLatest(<<e>> \o RemoveAt(ll, p), f, d)
      /\ Len(<<e>> \o RemoveAt(ll, p)) = Len(RemoveAt(ll, p)) + 1
  BY <1>2, <1>3, <1>5, FitsPushed
<1>8. (items \ {k}) \cup {k} = items
  OBVIOUS
<1>9. Len(ll) \in Nat
  BY DEF CacheInv, Fits
<1>10. Len(<<e>> \o RemoveAt(ll, p)) = Len(ll)
  BY <1>3, <1>7, <1>9
<1> QED
  BY <1>1, <1>6, <1>7, <1>8, <1>10, Zenon

LEMMA InitCache == CacheInit => CacheInv
<1> SUFFICES ASSUME CacheInit PROVE CacheInv
  OBVIOUS
<1>1. capacity \in Nat /\ items \subseteq CacheKey /\ dropped \subseteq CacheKey
  BY CacheAssumption DEF CacheInit
<1>2. latest \in [CacheKey -> CacheValue \cup {NotPut}]
  BY DEF CacheInit
<1>3. Fits(ll, recent, items) /\ HasLatest(ll, latest, dropped) /\ Len(ll) = 0
  BY DEF CacheInit, Fits, HasLatest, ListKeys
<1> QED
  BY <1>1, <1>2, <1>3 DEF CacheInv, CacheTypes, CacheEnabled

LEMMA GetCache ==
  ASSUME CacheInv, NEW k \in CacheKey, LRUGet(k)
  PROVE  CacheInv'
<1> DEFINE p == ElementOf(ll, k)
<1>1. p \in 1 .. Len(ll) /\ ll[p].key = k
  BY ElementIs DEF LRUGet
<1>2. WithoutElement(ll, k) = RemoveAt(ll, p)
  BY DEF WithoutElement
<1>3. ll' = MovedToFront(ll, k, ll[p].value)
  BY DEF LRUGet
<1> HIDE DEF p
<1>4. HasLatest(RemoveAt(ll, p), latest, dropped)
  BY <1>1, FitsRemoved DEF CacheInv
<1>5. ll[p].value \in CacheValue
  <2>1. ll[p] \in CacheEntry
    BY <1>1 DEF CacheInv, Fits
  <2> QED
    BY <2>1 DEF CacheEntry
<1>6. k \notin dropped => ll[p].value = latest[k]
  BY <1>1 DEF CacheInv, HasLatest
<1>7. Fits(ll', recent', items) /\ HasLatest(ll', latest, dropped) /\ Len(ll') = Len(ll)
  BY <1>2, <1>3, <1>4, <1>5, <1>6, MovedFits DEF LRUGet, Used
<1> QED
  BY <1>7 DEF LRUGet, CacheInv, CacheTypes, CacheEnabled

LEMMA DisabledCache ==
  ASSUME CacheInv, NEW k \in CacheKey, NEW v \in CacheValue, PutDisabled(k, v)
  PROVE  CacheInv'
<1>1. HasLatest(ll', latest', dropped')
  <2> SUFFICES ASSUME NEW i \in 1 .. Len(ll), ll[i].key \notin dropped \cup {k}
               PROVE  ll[i].value = latest'[ll[i].key]
    BY DEF HasLatest, PutDisabled
  <2>1. ll[i].key \in CacheKey
    BY DEF CacheInv, Fits, CacheEntry
  <2>2. latest'[ll[i].key] = latest[ll[i].key]
    BY <2>1 DEF PutDisabled, CacheInv, CacheTypes
  <2> QED
    BY <2>2 DEF CacheInv, HasLatest
<1>2. latest' \in [CacheKey -> CacheValue \cup {NotPut}]
  BY DEF PutDisabled, CacheInv, CacheTypes
<1>3. dropped' \subseteq CacheKey
  BY DEF PutDisabled, CacheInv, CacheTypes
<1> QED
  BY <1>1, <1>2, <1>3 DEF PutDisabled, CacheInv, CacheTypes, CacheEnabled

\* What an insertion leaves before it adds the new entry.
LEMMA RoomMade ==
  ASSUME CacheInv, NEW n \in 0 .. Len(ll)
  PROVE  /\ Fits(Evicted(n).list, recent, Evicted(n).map)
         /\ HasLatest(Evicted(n).list, latest, dropped) /\ Len(Evicted(n).list) = n
BY FitsEvicted DEF CacheInv, Evicted

LEMMA PutCache ==
  ASSUME CacheInv, NEW k \in CacheKey, NEW v \in CacheValue, LRUPut(k, v)
  PROVE  CacheInv'
<1>1. CASE PutDisabled(k, v)
  BY <1>1, DisabledCache
<1>2. CASE ~PutDisabled(k, v)
  <2> DEFINE f == [latest EXCEPT ![k] = v]  d == dropped \ {k}
  <2>1. /\ PutUpdate(k, v) \/ PutInsert(k, v)
        /\ Used(k) /\ latest' = f /\ dropped' = d /\ UNCHANGED capacity
    BY <1>2 DEF LRUPut
  <2>2. DOMAIN latest = CacheKey /\ f[k] = v
    BY DEF CacheInv, CacheTypes
  <2>3. CacheTypes' /\ k \notin d
    <3>1. latest' \in [CacheKey -> CacheValue \cup {NotPut}]
      BY <2>1 DEF CacheInv, CacheTypes
    <3>2. items' \subseteq CacheKey
      BY <2>1 DEF PutUpdate, PutInsert, Evicted, CacheInv, CacheTypes
    <3>3. dropped' \subseteq CacheKey /\ capacity' \in Nat /\ k \notin d
      BY <2>1 DEF CacheInv, CacheTypes
    <3> QED
      BY <3>1, <3>2, <3>3 DEF CacheTypes
  <2>4. CASE PutUpdate(k, v)
    <3> DEFINE p == ElementOf(ll, k)
    <3>1. p \in 1 .. Len(ll) /\ ll[p].key = k /\ k \in items
      BY <2>4, ElementIs DEF PutUpdate
    <3>2. WithoutElement(ll, k) = RemoveAt(ll, p)
      BY DEF WithoutElement
    <3> HIDE DEF p
    <3>3. /\ Fits(RemoveAt(ll, p), RemoveAt(recent, p), items \ {k})
          /\ HasLatest(RemoveAt(ll, p), latest, dropped)
      BY <3>1, FitsRemoved DEF CacheInv
    <3>4. HasLatest(WithoutElement(ll, k), f, d)
      <4>1. k \notin items \ {k}
        OBVIOUS
      <4>2. HasLatest(RemoveAt(ll, p), f, d)
        BY <3>3, <4>1, <2>2, OthersLatest
      <4> QED
        BY <3>2, <4>2, Zenon
    <3>5. /\ Fits(ll', recent', items) /\ HasLatest(ll', f, d) /\ Len(ll') = Len(ll)
      <4> HIDE DEF f, d
      <4> QED
        BY <2>1, <2>2, <2>3, <2>4, <3>1, <3>4, MovedFits DEF PutUpdate, Used
    <3>6. items' = items /\ CacheEnabled
      BY <2>4 DEF PutUpdate
    <3>7. CacheEnabled' => Len(ll') <= capacity'
      BY <2>1, <3>5, <3>6 DEF CacheInv, CacheEnabled
    <3> QED
      BY <2>1, <2>3, <3>5, <3>6, <3>7 DEF CacheInv
  <2>5. CASE PutInsert(k, v)
    <3> DEFINE left == IF Len(ll) >= capacity THEN Evicted(Len(ll) - 1)
                       ELSE [list |-> ll, map |-> items]
               e == [key |-> k, value |-> v]
    <3>1. /\ k \notin items /\ CacheEnabled
          /\ ll' = <<e>> \o left.list /\ items' = left.map \cup {k}
      BY <2>5 DEF PutInsert, PushedFront
    <3>2. Len(ll) \in Nat /\ capacity \in Nat /\ capacity > 0 /\ Len(ll) <= capacity
      BY <3>1 DEF CacheInv, CacheTypes, Fits, CacheEnabled
    <3>3. /\ Fits(left.list, recent, left.map) /\ HasLatest(left.list, latest, dropped)
          /\ Len(left.list) < capacity /\ left.map \subseteq items
      <4>1. CASE Len(ll) >= capacity
        <5>1. Len(ll) - 1 \in 0 .. Len(ll) /\ Len(ll) - 1 < capacity
          BY <4>1, <3>2
        <5>2. Evicted(Len(ll) - 1).map \subseteq items
          BY DEF Evicted
        <5> QED
          BY <4>1, <5>1, <5>2, RoomMade
      <4>2. CASE ~(Len(ll) >= capacity)
        BY <4>2, <3>2 DEF CacheInv
      <4> QED
        BY <4>1, <4>2
    <3>4. e \in CacheEntry /\ e.key = k /\ e.value = v
      BY DEF CacheEntry
    <3> HIDE DEF left, e
    <3>5. k \notin left.map
      BY <3>1, <3>3
    <3>6. Fits(left.list, RemoveFirst(recent, k), left.map) /\ Lacks(RemoveFirst(recent, k), k)
      BY <3>3, <3>5, FitsForgotten
    <3>7. HasLatest(left.list, f, d)
      BY <3>3, <3>5, <2>2, OthersLatest
    <3>8. /\ Fits(ll', recent', items') /\ HasLatest(ll', f, d) /\ Len(ll') = Len(left.list) + 1
      <4>1. e.key \notin d => e.value = f[e.key]
        BY <3>4, <2>2
      <4> HIDE DEF f, d
      <4>2. /\ Fits(<<e>> \o left.list, <<e.key>> \o RemoveFirst(recent, k), left.map \cup {e.key})
            /\ HasLatest(<<e>> \o left.list, f, d)
            /\ Len(<<e>> \o left.list) = Len(left.list) + 1
        BY <3>4, <3>6, <3>7, <4>1, FitsPushed
      <4> QED
        BY <4>2, <3>1, <3>4, <2>1 DEF Used
    <3>9. Len(ll') <= capacity
      <4>1. Len(left.list) \in Nat
        BY <3>6 DEF Fits
      <4> QED
        BY <4>1, <3>2, <3>3, <3>8
    <3> QED
      BY <2>1, <2>3, <3>8, <3>9 DEF CacheInv
  <2> QED
    BY <2>1, <2>4, <2>5
<1> QED
  BY <1>1, <1>2

LEMMA DeleteCache ==
  ASSUME CacheInv, NEW k \in CacheKey, LRUDelete(k)
  PROVE  CacheInv'
<1> DEFINE p == ElementOf(ll, k)
<1>1. p \in 1 .. Len(ll) /\ ll[p].key = k /\ RemoveFirst(recent, k) = RemoveAt(recent, p)
  BY ElementIs DEF LRUDelete
<1>2. ll' = RemoveAt(ll, p) /\ items' = items \ {k} /\ recent' = RemoveFirst(recent, k)
  BY DEF LRUDelete, WithoutElement
<1> HIDE DEF p
<1>3. /\ Fits(RemoveAt(ll, p), RemoveAt(recent, p), items \ {k})
      /\ HasLatest(RemoveAt(ll, p), latest, dropped) /\ Len(RemoveAt(ll, p)) = Len(ll) - 1
  BY <1>1, FitsRemoved DEF CacheInv
<1>4. UNCHANGED <<capacity, latest, dropped>> /\ Len(ll) \in Nat
  BY DEF LRUDelete, CacheInv, Fits
<1>5. CacheTypes'
  BY <1>2, <1>4 DEF CacheInv, CacheTypes
<1>6. Len(ll') = Len(ll) - 1
  BY <1>2, <1>3
<1>7. CacheEnabled' => Len(ll') <= capacity'
  BY <1>4, <1>6 DEF CacheInv, CacheTypes, CacheEnabled
<1>8. Fits(ll', recent', items') /\ HasLatest(ll', latest', dropped')
  BY <1>1, <1>2, <1>3, <1>4, Zenon
<1> QED
  BY <1>5, <1>7, <1>8 DEF CacheInv

LEMMA ClearCache ==
  ASSUME CacheInv, LRUClear
  PROVE  CacheInv'
<1>1. Fits(ll', recent', items') /\ HasLatest(ll', latest', dropped') /\ Len(ll') = 0
  BY DEF LRUClear, Fits, HasLatest, ListKeys
<1>2. CacheTypes'
  BY DEF LRUClear, CacheInv, CacheTypes
<1> QED
  BY <1>1, <1>2 DEF CacheInv, CacheTypes, CacheEnabled

LEMMA ResizeCache ==
  ASSUME CacheInv, NEW c \in Capacities, Resize(c)
  PROVE  CacheInv'
<1>1. c \in Nat /\ Len(ll) \in Nat /\ capacity' = c /\ UNCHANGED <<recent, latest, dropped>>
  BY CacheAssumption DEF Resize, CacheInv, Fits
<1>2. CASE Len(ll) > c /\ c > 0
  <2>1. ll' = Evicted(c).list /\ items' = Evicted(c).map
    BY <1>2 DEF Resize
  <2>2. c \in 0 .. Len(ll)
    BY <1>1, <1>2
  <2>3. Fits(ll', recent, items') /\ HasLatest(ll', latest, dropped) /\ Len(ll') = c
    BY <2>1, <2>2, RoomMade
  <2>4. items' \subseteq items
    BY <2>1 DEF Evicted
  <2> QED
    BY <1>1, <2>3, <2>4 DEF CacheInv, CacheTypes, CacheEnabled
<1>3. CASE ~(Len(ll) > c /\ c > 0)
  <2>1. UNCHANGED <<ll, items>>
    BY <1>3 DEF Resize
  <2> QED
    BY <1>1, <1>3, <2>1 DEF CacheInv, CacheTypes, CacheEnabled
<1> QED
  BY <1>2, <1>3

LEMMA CacheStep ==
  ASSUME CacheInv, [CacheNext]_cacheVars
  PROVE  CacheInv'
<1>1. CASE CacheNext
  BY <1>1, GetCache, DeleteCache, PutCache, ClearCache, ResizeCache DEF CacheNext
<1>2. CASE UNCHANGED cacheVars
  BY <1>2 DEF cacheVars, CacheInv, CacheTypes, CacheEnabled
<1> QED
  BY <1>1, <1>2

LEMMA CacheAlways == CacheSpec => []CacheInv
<1>1. CacheInit => CacheInv
  BY InitCache
<1>2. CacheInv /\ [CacheNext]_cacheVars => CacheInv'
  BY CacheStep
<1> QED
  BY <1>1, <1>2, PTL DEF CacheSpec

\* The two properties of the cache, from the invariant.
LEMMA FitsIsCoherent ==
  ASSUME CacheInv
  PROVE  CacheIsCoherent
<1>1. /\ ll \in Seq(CacheEntry) /\ recent \in Seq(CacheKey) /\ Len(ll) \in Nat /\ Len(recent) \in Nat
      /\ Len(ll) <= Len(recent) /\ items = ListKeys(ll)
      /\ \A i \in 1 .. Len(ll) : ll[i].key = recent[i]
  BY DEF CacheInv, Fits
<1>2. DOMAIN KeysOf(ll) = 1 .. Len(ll) /\ \A i \in 1 .. Len(ll) : KeysOf(ll)[i] = ll[i].key
  BY DEF KeysOf
<1>3. ToSet(KeysOf(ll)) = items
  BY <1>1, <1>2 DEF ToSet, ListKeys
<1>4. IsInjective(KeysOf(ll))
  <2> SUFFICES ASSUME NEW i \in 1 .. Len(ll), NEW j \in 1 .. Len(ll), ll[i].key = ll[j].key
               PROVE  i = j
    BY <1>2 DEF IsInjective
  <2>1. i \in 1 .. Len(recent) /\ j \in 1 .. Len(recent) /\ recent[i] = recent[j]
    BY <1>1
  <2> QED
    BY <2>1 DEF CacheInv, Fits
<1>5. ValuesAreLatest
  <2> SUFFICES ASSUME NEW e \in ToSet(ll), e.key \notin dropped PROVE e.value = latest[e.key]
    BY DEF ValuesAreLatest
  <2>1. PICK i \in 1 .. Len(ll) : e = ll[i]
    BY <1>1 DEF ToSet
  <2> QED
    BY <2>1 DEF CacheInv, HasLatest
<1> QED
  BY <1>3, <1>4, <1>5 DEF CacheIsCoherent, ListMatchesMap

LEMMA FitsIsRecent ==
  ASSUME CacheInv
  PROVE  HoldsMostRecent
<1>1. /\ recent \in Seq(CacheKey) /\ Len(ll) \in Nat /\ Len(recent) \in Nat
      /\ Len(ll) <= Len(recent) /\ \A i \in 1 .. Len(ll) : ll[i].key = recent[i]
  BY DEF CacheInv, Fits
<1>2. SubSeq(recent, 1, Len(ll)) = [i \in 1 .. Len(ll) |-> recent[i]]
  BY <1>1
<1>3. KeysOf(ll) = SubSeq(recent, 1, Len(ll))
  BY <1>1, <1>2 DEF KeysOf
<1> QED
  BY <1>3 DEF HoldsMostRecent, CacheInv

(***************************************************************************)
(* Under any puts, reads, deletions, evictions and resizes, the list and   *)
(* the map of the cache have the same keys, each key once, and a value is  *)
(* the last one put, unless that Put met a disabled cache (Put, Get,       *)
(* removeElement, Resize).                                                 *)
(***************************************************************************)
THEOREM CacheAlwaysCoherent == CacheSpec => []CacheIsCoherent
<1>1. CacheInv => CacheIsCoherent
  BY FitsIsCoherent
<1> QED
  BY <1>1, CacheAlways, PTL

(***************************************************************************)
(* The cache holds the keys used last, in the order of their last use, and *)
(* when it is enabled no more than its capacity (Get, Put, evictOldest,    *)
(* Resize).                                                                *)
(***************************************************************************)
THEOREM CacheHoldsMostRecent == CacheSpec => []HoldsMostRecent
<1>1. CacheInv => HoldsMostRecent
  BY FitsIsRecent
<1> QED
  BY <1>1, CacheAlways, PTL

(***************************************************************************)
(* codec.  A word written as a varint is read back, and so is a payload    *)
(* behind its length, from a stream that may be cut (CodecRoundTrip).      *)
(***************************************************************************)

\* What the digits stand for: the base to the power n.
LEMMA WeightIs ==
  /\ Weight \in [0 .. MaxVarintLen - 1 -> Nat]
  /\ Weight[0] = 1 /\ \A n \in 1 .. MaxVarintLen - 1 : Weight[n] = Weight[n - 1] * Group
<1> DEFINE q == MaxVarintLen - 1
           h == [p \in Nat \X (1 .. q) |-> p[1] * Group]
<1>1. q \in Nat /\ Group \in Nat
  BY CodecAssumption
<1> HIDE DEF q
<1>2. h \in [Nat \X (1 .. q) -> Nat]
  BY <1>1
<1>3. \A x \in Nat, n \in 1 .. q : h[<<x, n>>] = x * Group
  OBVIOUS
<1> HIDE DEF h
<1>4. PICK f \in [0 .. q -> Nat] : f[0] = 1 /\ \A n \in 1 .. q : f[n] = h[<<f[n - 1], n>>]
  <2>1. \E f : Loop(f, Nat, 1, h, q)
    BY <1>1, <1>2, LoopExists
  <2> QED
    BY <2>1 DEF Loop
<1>5. \A n \in 1 .. q : f[n] = f[n - 1] * Group
  <2> SUFFICES ASSUME NEW n \in 1 .. q PROVE f[n] = f[n - 1] * Group
    OBVIOUS
  <2>1. n - 1 \in 0 .. q
    BY <1>1
  <2> QED
    BY <1>3, <1>4, <2>1
<1>6. f = [n \in 0 .. q |-> IF n = 0 THEN 1 ELSE f[n - 1] * Group]
  <2>1. \A n \in 0 .. q : n = 0 \/ n \in 1 .. q
    BY <1>1
  <2> QED
    BY <1>4, <1>5, <2>1
<1>7. Weight = [n \in 0 .. q |-> IF n = 0 THEN 1 ELSE Weight[n - 1] * Group]
  BY <1>6 DEF Weight, q
<1>8. Weight[0] = 1
  BY <1>1, <1>7
<1>9. ASSUME NEW n \in 1 .. q PROVE Weight[n] = Weight[n - 1] * Group
  <2>1. n \in 0 .. q /\ n # 0
    BY <1>1
  <2> QED
    BY <1>7, <2>1
<1>10. \A n \in 0 .. q : Weight[n] \in Nat
  <2> DEFINE Wrong == {n \in 0 .. q : Weight[n] \notin Nat}
  <2> SUFFICES ASSUME Wrong # {} PROVE FALSE
    OBVIOUS
  <2>1. PICK n \in Wrong : \A x \in Wrong : n <= x
    <3>1. Wrong \in SUBSET Nat
      BY <1>1
    <3> HIDE DEF Wrong
    <3> QED BY <3>1, LeastExists
  <2>2. n \in 0 .. q /\ Weight[n] \notin Nat
    OBVIOUS
  <2>3. n \in 1 .. q /\ n - 1 \in 0 .. q /\ ~(n <= n - 1)
    BY <1>1, <1>8, <2>2
  <2>4. Weight[n - 1] \in Nat
    BY <2>1, <2>3
  <2> QED
    BY <1>1, <1>9, <2>2, <2>3, <2>4
<1> QED
  BY <1>7, <1>8, <1>9, <1>10 DEF q

\* The arithmetic of one digit.
LEMMA Digit ==
  ASSUME NEW u \in Nat
  PROVE  /\ u \div Group \in Nat /\ u % Group \in 0 .. Group - 1
         /\ u = Group * (u \div Group) + (u % Group)
         /\ (u < Group => u % Group = u) /\ (u >= Group => u \div Group < u)
<1> DEFINE g == Group
<1>1. g \in Nat /\ g >= 2
  BY CodecAssumption
<1> HIDE DEF g
<1>2. u \div g \in Nat
  BY <1>1
<1>3. u % g \in 0 .. g - 1
  BY <1>1
<1>4. u % g = u - g * (u \div g)
  BY <1>1
<1>5. u = g * (u \div g) + (u % g)
  <2> DEFINE v == g * (u \div g)
             w == u % g
  <2>1. v \in Nat /\ w \in Int /\ w = u - v
    BY <1>1, <1>2, <1>3, <1>4
  <2> HIDE DEF v, w
  <2>2. u = v + w
    BY <2>1
  <2> QED
    BY <2>2 DEF v, w
<1>6. u < g => u % g = u
  BY <1>1
<1>7. ASSUME u >= g PROVE u \div g < u
  <2> DEFINE v == u \div g
  <2>1. v \in Nat /\ u % g \in Nat
    BY <1>1, <1>2, <1>3
  <2>2. u = g * v + (u % g)
    BY <1>5
  <2> HIDE DEF v
  <2>3. v < u
    <3> DEFINE w == u % g
    <3>1. w \in Nat /\ u = g * v + w
      BY <2>1, <2>2
    <3> HIDE DEF w
    <3> QED
      BY <1>1, <1>7, <2>1, <3>1
  <2> QED
    BY <2>3 DEF v
<1> QED
  BY <1>2, <1>3, <1>5, <1>6, <1>7 DEF g

\* The weights grow, the last one is half a word.
LEMMA WeightsGrow ==
  /\ Half \in Nat /\ Half >= 1 /\ Word \in Nat /\ Word = 2 * Half
  /\ \A n \in 0 .. MaxVarintLen - 1 : Weight[n] >= 1 /\ Weight[n] <= Half
<1> DEFINE q == MaxVarintLen - 1
<1>1. q \in Nat /\ Group \in Nat /\ Group >= 2
  BY CodecAssumption
<1>2. /\ \A n \in 0 .. q : Weight[n] \in Nat
      /\ Weight[0] = 1 /\ \A n \in 1 .. q : Weight[n] = Weight[n - 1] * Group
  BY WeightIs
<1>3. Half = Weight[q]
  BY DEF Half
<1> HIDE DEF q
<1>4. \A n \in 0 .. q : Weight[n] >= 1
  <2> DEFINE Wrong == {n \in 0 .. q : ~(Weight[n] >= 1)}
  <2> SUFFICES ASSUME Wrong # {} PROVE FALSE
    OBVIOUS
  <2>1. PICK n \in Wrong : \A x \in Wrong : n <= x
    <3>1. Wrong \in SUBSET Nat
      BY <1>1
    <3> HIDE DEF Wrong
    <3> QED BY <3>1, LeastExists
  <2>2. n \in 0 .. q /\ ~(Weight[n] >= 1)
    OBVIOUS
  <2>3. n \in 1 .. q /\ n - 1 \in 0 .. q /\ ~(n <= n - 1)
    BY <1>1, <1>2, <2>2
  <2>4. Weight[n - 1] >= 1
    BY <2>1, <2>3
  <2>5. Weight[n] = Weight[n - 1] * Group /\ Weight[n] \in Nat /\ Weight[n - 1] \in Nat
    BY <1>2, <2>2, <2>3
  <2> QED
    BY <1>1, <2>2, <2>4, <2>5
<1>5. \A n \in 0 .. q : Weight[n] <= Half
  <2> DEFINE Wrong == {t \in 0 .. q : ~(Weight[q - t] <= Half)}
  <2>1. Wrong = {}
    <3> SUFFICES ASSUME Wrong # {} PROVE FALSE
      OBVIOUS
    <3>1. PICK t \in Wrong : \A x \in Wrong : t <= x
      <4>1. Wrong \in SUBSET Nat
        BY <1>1
      <4> HIDE DEF Wrong
      <4> QED BY <4>1, LeastExists
    <3>2. t \in 0 .. q /\ ~(Weight[q - t] <= Half)
      OBVIOUS
    <3>3. Half \in Nat /\ Weight[q - 0] = Half
      BY <1>1, <1>2, <1>3
    <3>4. t # 0
      BY <3>2, <3>3
    <3>5. t - 1 \in 0 .. q /\ ~(t <= t - 1) /\ q - t \in 0 .. q /\ q - (t - 1) \in 1 .. q
          /\ (q - (t - 1)) - 1 = q - t /\ q - (t - 1) \in 0 .. q
      BY <1>1, <3>2, <3>4
    <3>6. Weight[q - (t - 1)] <= Half
      BY <3>1, <3>5
    <3>7. Weight[q - (t - 1)] = Weight[q - t] * Group
      BY <1>2, <3>5
    <3>8. Weight[q - t] \in Nat /\ Weight[q - (t - 1)] \in Nat
      BY <1>2, <3>5
    <3> DEFINE a == Weight[q - t]
               b == Weight[q - (t - 1)]
    <3>9. a \in Nat /\ b \in Nat /\ b = a * Group /\ b <= Half /\ ~(a <= Half)
      BY <3>2, <3>6, <3>7, <3>8
    <3> HIDE DEF a, b
    <3> QED
      BY <1>1, <3>3, <3>9
  <2>2. ASSUME NEW n \in 0 .. q PROVE Weight[n] <= Half
    <3>1. q - n \in 0 .. q /\ q - (q - n) = n
      BY <1>1
    <3> QED
      BY <2>1, <3>1
  <2> QED
    BY <2>2
<1>6. Half \in Nat /\ Half >= 1
  <2>1. q \in 0 .. q
    BY <1>1
  <2> QED
    BY <1>2, <1>3, <1>4, <2>1
<1>7. Word \in Nat /\ Word = 2 * Half
  BY <1>6 DEF Word
<1> QED
  BY <1>4, <1>5, <1>6, <1>7 DEF q

(***************************************************************************)
(* The loop of ReadVarint over the first q bytes: f[n] is x after n of     *)
(* them.                                                                   *)
(***************************************************************************)
Values(f, b, q) ==
  f[0] = 0 /\ \A n \in 1 .. q : f[n] = f[n - 1] + (b[n] % Group) * Weight[n - 1]

LEMMA ValuesExist ==
  ASSUME NEW b, NEW q \in 0 .. MaxVarintLen, \A n \in 1 .. q : b[n] \in Nat
  PROVE  \E f \in [0 .. q -> Nat] : Values(f, b, q)
<1> DEFINE h == [p \in Nat \X (1 .. q) |-> p[1] + (b[p[2]] % Group) * Weight[p[2] - 1]]
<1>1. q \in Nat /\ MaxVarintLen \in Nat
  BY CodecAssumption
<1>2. ASSUME NEW n \in 1 .. q PROVE (b[n] % Group) * Weight[n - 1] \in Nat
  <2>1. n - 1 \in 0 .. MaxVarintLen - 1
    BY <1>1
  <2>2. Weight[n - 1] \in Nat
    BY <2>1, WeightIs
  <2>3. b[n] % Group \in Nat
    <3>1. b[n] % Group \in 0 .. Group - 1
      BY Digit
    <3> QED
      BY <3>1, CodecAssumption
  <2> QED
    BY <2>2, <2>3
<1>3. ASSUME NEW p \in Nat \X (1 .. q) PROVE p[1] + (b[p[2]] % Group) * Weight[p[2] - 1] \in Nat
  BY <1>2
<1>4. h \in [Nat \X (1 .. q) -> Nat]
  BY <1>3
<1>5. \A x \in Nat, n \in 1 .. q : h[<<x, n>>] = x + (b[n] % Group) * Weight[n - 1]
  OBVIOUS
<1> HIDE DEF h
<1>6. PICK f : Loop(f, Nat, 0, h, q)
  BY <1>1, <1>4, LoopExists
<1>7. f \in [0 .. q -> Nat] /\ f[0] = 0 /\ \A n \in 1 .. q : f[n] = h[<<f[n - 1], n>>]
  BY <1>6 DEF Loop
<1>8. ASSUME NEW n \in 1 .. q PROVE f[n] = f[n - 1] + (b[n] % Group) * Weight[n - 1]
  <2>1. n - 1 \in 0 .. q
    BY <1>1
  <2>2. f[n - 1] \in Nat
    BY <1>7, <2>1
  <2> QED
    BY <1>5, <1>7, <2>2
<1> QED
  BY <1>7, <1>8 DEF Values

\* Two runs over the same bytes give the same values.
LEMMA ValuesAgree ==
  ASSUME NEW b, NEW c, NEW q \in Nat, \A n \in 1 .. q : b[n] = c[n],
         NEW f, Values(f, b, q), NEW g, Values(g, c, q)
  PROVE  \A n \in 0 .. q : f[n] = g[n]
<1> DEFINE Wrong == {n \in 0 .. q : f[n] # g[n]}
<1> SUFFICES ASSUME Wrong # {} PROVE FALSE
  OBVIOUS
<1>1. PICK n \in Wrong : \A x \in Wrong : n <= x
  <2>1. Wrong \in SUBSET Nat
    OBVIOUS
  <2> HIDE DEF Wrong
  <2> QED BY <2>1, LeastExists
<1>2. n \in 0 .. q /\ f[n] # g[n]
  OBVIOUS
<1>3. n # 0
  BY <1>2 DEF Values
<1>4. n \in 1 .. q /\ n - 1 \in 0 .. q /\ ~(n <= n - 1)
  BY <1>2, <1>3
<1>5. f[n - 1] = g[n - 1]
  BY <1>1, <1>4
<1> QED
  BY <1>2, <1>4, <1>5 DEF Values

\* After n digits, x is below the weight of the next one.
LEMMA ValuesBound ==
  ASSUME NEW b, NEW q \in 0 .. MaxVarintLen, \A n \in 1 .. q : b[n] \in Nat,
         NEW f, Values(f, b, q)
  PROVE  /\ \A n \in 0 .. q : f[n] \in Nat
         /\ \A n \in 0 .. q : n < MaxVarintLen => f[n] < Weight[n]
<1> DEFINE L == MaxVarintLen
           Wrong == {n \in 0 .. q : n < L /\ ~(f[n] < Weight[n])}
<1>1. q \in Nat /\ L \in Nat /\ q <= L /\ Group \in Nat
  BY CodecAssumption
<1> HIDE DEF L
<1>2. \A n \in 0 .. q : f[n] \in Nat
  <2>1. PICK g \in [0 .. q -> Nat] : Values(g, b, q)
    BY ValuesExist
  <2>2. \A n \in 0 .. q : f[n] = g[n]
    BY <1>1, <2>1, ValuesAgree
  <2> QED
    BY <2>1, <2>2
<1>3. Wrong = {}
  <2> SUFFICES ASSUME Wrong # {} PROVE FALSE
    OBVIOUS
  <2>1. PICK n \in Wrong : \A x \in Wrong : n <= x
    <3>1. Wrong \in SUBSET Nat
      BY <1>1
    <3> HIDE DEF Wrong
    <3> QED BY <3>1, LeastExists
  <2>2. n \in 0 .. q /\ n < L /\ ~(f[n] < Weight[n])
    OBVIOUS
  <2>3. n # 0
    BY <2>2, WeightIs DEF Values
  <2>4. n \in 1 .. q /\ n - 1 \in 0 .. q /\ ~(n <= n - 1) /\ n - 1 < L
        /\ n \in 1 .. L - 1 /\ n - 1 \in 0 .. L - 1
    BY <1>1, <2>2, <2>3
  <2> DEFINE v == f[n - 1]
             w == Weight[n - 1]
             d == b[n] % Group
  <2>5. v < w
    BY <2>1, <2>4
  <2>6. f[n] = v + d * w /\ v \in Nat
    BY <1>2, <2>4 DEF Values
  <2>7. w \in Nat /\ Weight[n] = w * Group
    BY <2>4, WeightIs DEF L
  <2>8. d \in Nat /\ d < Group
    <3>1. d \in 0 .. Group - 1
      BY <2>4, Digit
    <3> QED
      BY <1>1, <3>1
  <2> HIDE DEF v, w, d
  <2>9. v + d * w < w * Group
    BY <1>1, <2>5, <2>6, <2>7, <2>8
  <2> QED
    BY <2>2, <2>6, <2>7, <2>9
<1> QED
  BY <1>2, <1>3 DEF L

\* A varint ends at its first byte below the base.
LEMMA VarintLenIs ==
  ASSUME NEW b \in Seq(Nat), Ends(b) # {}
  PROVE  /\ VarintLen(b) \in Ends(b) /\ \A i \in Ends(b) : VarintLen(b) <= i
         /\ VarintLen(b) \in 1 .. Len(b) /\ VarintLen(b) \in 1 .. MaxVarintLen
<1>1. Len(b) \in Nat /\ MaxVarintLen \in Nat
  BY CodecAssumption
<1>2. Ends(b) \in SUBSET Nat /\ \A i \in Ends(b) : i \in 1 .. Len(b) /\ i \in 1 .. MaxVarintLen
  BY <1>1 DEF Ends
<1>3. \E n \in Ends(b) : \A i \in Ends(b) : n <= i
  BY <1>2, LeastExists
<1>4. VarintLen(b) \in Ends(b) /\ \A i \in Ends(b) : VarintLen(b) <= i
  BY <1>3 DEF VarintLen
<1> QED
  BY <1>2, <1>4

\* What ReadVarint returns is what its loop has at the end.
LEMMA VarintValueIs ==
  ASSUME NEW b \in Seq(Nat), Ends(b) # {}
  PROVE  \E f : Values(f, b, VarintLen(b)) /\ VarintValue(b) = f[VarintLen(b)]
<1> DEFINE q == VarintLen(b)
           F == CHOOSE f : f = [n \in 0 .. q |-> IF n = 0 THEN 0
                                                ELSE f[n - 1] + (b[n] % Group) * Weight[n - 1]]
<1>1. VarintValue(b) = F[q]
  BY DEF VarintValue
<1>2. q \in 1 .. Len(b) /\ q \in 1 .. MaxVarintLen /\ Len(b) \in Nat /\ MaxVarintLen \in Nat
  BY VarintLenIs, CodecAssumption
<1> HIDE DEF q
<1>3. q \in Nat /\ q \in 0 .. MaxVarintLen /\ \A n \in 1 .. q : b[n] \in Nat
  <2>1. \A n \in 1 .. q : n \in 1 .. Len(b)
    BY <1>2
  <2>2. \A n \in 1 .. Len(b) : b[n] \in Nat
    OBVIOUS
  <2> QED
    BY <1>2, <2>1, <2>2
<1>4. PICK g \in [0 .. q -> Nat] : Values(g, b, q)
  BY <1>3, ValuesExist
<1>5. g = [n \in 0 .. q |-> IF n = 0 THEN 0 ELSE g[n - 1] + (b[n] % Group) * Weight[n - 1]]
  <2>1. \A n \in 0 .. q : n = 0 \/ n \in 1 .. q
    BY <1>3
  <2>2. \A n \in 0 .. q : g[n] = IF n = 0 THEN 0 ELSE g[n - 1] + (b[n] % Group) * Weight[n - 1]
    BY <1>4, <2>1 DEF Values
  <2>3. g = [n \in 0 .. q |-> g[n]]
    OBVIOUS
  <2> QED
    BY <2>2, <2>3
<1>6. F = [n \in 0 .. q |-> IF n = 0 THEN 0 ELSE F[n - 1] + (b[n] % Group) * Weight[n - 1]]
  BY <1>5
<1> HIDE DEF F
<1>7. Values(F, b, q)
  <2>1. F[0] = 0
    BY <1>3, <1>6
  <2>2. ASSUME NEW n \in 1 .. q PROVE F[n] = F[n - 1] + (b[n] % Group) * Weight[n - 1]
    <3>1. n \in 0 .. q /\ n # 0
      BY <1>3
    <3> QED
      BY <1>6, <3>1
  <2> QED
    BY <2>1, <2>2 DEF Values
<1> QED
  BY <1>1, <1>7 DEF q

\* No varint is accepted whose value does not fit the word.
LEMMA ForeignFits ==
  ASSUME NEW b \in Seq(Nat), VarintFits(b)
  PROVE  VarintValue(b) \in Nat /\ VarintValue(b) < Word
<1> DEFINE q == VarintLen(b)
           L == MaxVarintLen
<1>1. Ends(b) # {} /\ (q = L => b[L] <= 1)
  BY DEF VarintFits
<1>2. q \in 1 .. Len(b) /\ q \in 1 .. L /\ Len(b) \in Nat /\ L \in Nat
  BY <1>1, VarintLenIs, CodecAssumption
<1>3. PICK f : Values(f, b, q) /\ VarintValue(b) = f[q]
  BY <1>1, VarintValueIs
<1>4. q \in 0 .. L /\ q \in 0 .. q /\ q - 1 \in 0 .. q /\ \A n \in 1 .. q : b[n] \in Nat
  <2>1. \A n \in 1 .. q : n \in 1 .. Len(b)
    BY <1>2
  <2>2. \A n \in 1 .. Len(b) : b[n] \in Nat
    OBVIOUS
  <2> QED
    BY <1>2, <2>1, <2>2
<1>5. (\A n \in 0 .. q : f[n] \in Nat) /\ \A n \in 0 .. q : n < L => f[n] < Weight[n]
  <2> HIDE DEF q
  <2> QED
    BY <1>3, <1>4, ValuesBound
<1> HIDE DEF q, L
<1>6. f[q] \in Nat /\ f[q - 1] \in Nat
  BY <1>4, <1>5
<1>7. Half \in Nat /\ Word = 2 * Half /\ Half >= 1
  BY WeightsGrow
<1>8. CASE q < L
  <2>1. q \in 0 .. L - 1
    BY <1>2, <1>8
  <2>2. Weight[q] <= Half /\ Weight[q] \in Nat
    BY <2>1, WeightsGrow, WeightIs DEF L
  <2>3. f[q] < Weight[q]
    BY <1>4, <1>5, <1>8
  <2> QED
    BY <1>3, <1>6, <1>7, <2>2, <2>3
<1>9. CASE q = L
  <2>1. f[q - 1] < Weight[q - 1] /\ Weight[q - 1] = Half
    <3>1. q - 1 < L
      BY <1>2, <1>9
    <3> QED
      BY <1>4, <1>5, <1>9, <3>1 DEF Half, L
  <2>2. f[q] = f[q - 1] + (b[q] % Group) * Weight[q - 1]
    <3>1. q \in 1 .. q
      BY <1>2
    <3> QED
      BY <1>3, <3>1 DEF Values
  <2>3. b[q] \in Nat /\ b[q] <= 1
    <3>1. q \in 1 .. q
      BY <1>2
    <3> QED
      BY <1>1, <1>4, <1>9, <3>1
  <2>4. b[q] % Group = b[q]
    <3>1. Group \in Nat /\ Group >= 2
      BY CodecAssumption
    <3>2. b[q] < Group
      BY <2>3, <3>1
    <3> QED
      BY <2>3, <3>2, Digit
  <2>5. b[q] = 0 \/ b[q] = 1
    BY <2>3
  <2> DEFINE v == f[q - 1]
             c == b[q]
  <2>6. f[q] = v + c * Half /\ v < Half /\ v \in Nat /\ (c = 0 \/ c = 1)
    BY <1>6, <2>1, <2>2, <2>4, <2>5
  <2> HIDE DEF v, c
  <2>7. f[q] < 2 * Half
    BY <1>7, <2>6
  <2> QED
    BY <1>3, <1>6, <1>7, <2>7
<1> QED
  BY <1>2, <1>8, <1>9

(***************************************************************************)
(* The bytes e are the varint of u: only the last byte is below the base,  *)
(* ReadVarint's loop finds u in them, and they are no more than u needs.   *)
(***************************************************************************)
Ending(e) ==
  /\ e \in Seq(Nat) /\ Len(e) >= 1 /\ e[Len(e)] < Group
  /\ \A i \in 1 .. Len(e) - 1 : e[i] >= Group

Short(e, u) ==
  \A n \in 0 .. MaxVarintLen - 1 :
    u < 2 * Weight[n] => Len(e) <= n + 1 /\ (Len(e) = n + 1 => e[n + 1] <= 1)

Holds(e, u) == Len(e) <= MaxVarintLen => \A f : Values(f, e, Len(e)) => f[Len(e)] = u

IsVarint(e, u) == Ending(e) /\ Short(e, u) /\ Holds(e, u)

LEMMA OneDigit == ASSUME NEW u \in Nat, u < Group PROVE IsVarint(<<u>>, u)
<1>1. Group \in Nat /\ MaxVarintLen \in Nat /\ Weight[0] = 1
  BY CodecAssumption, WeightIs
<1> DEFINE e == <<u>>
<1>2. e \in Seq(Nat) /\ Len(e) = 1 /\ e[1] = u
  OBVIOUS
<1> HIDE DEF e
<1>3. Ending(e)
  BY <1>1, <1>2 DEF Ending
<1>4. Short(e, u)
  <2> SUFFICES ASSUME NEW n \in 0 .. MaxVarintLen - 1, u < 2 * Weight[n]
               PROVE  Len(e) <= n + 1 /\ (Len(e) = n + 1 => e[n + 1] <= 1)
    BY DEF Short
  <2>1. Len(e) <= n + 1
    BY <1>1, <1>2
  <2>2. ASSUME Len(e) = n + 1 PROVE e[n + 1] <= 1
    <3>1. n \in Nat
      BY <1>1
    <3>2. n = 0
      <4>1. 1 = n + 1
        BY <1>2, <2>2
      <4> QED
        BY <3>1, <4>1
    <3>3. Weight[n] = 1
      BY <1>1, <3>2
    <3>4. e[n + 1] = u
      BY <1>2, <3>2
    <3> QED
      BY <3>3, <3>4
  <2> QED
    BY <2>1, <2>2
<1>5. Holds(e, u)
  <2> SUFFICES ASSUME NEW f, Values(f, e, 1) PROVE f[1] = u
    BY <1>2 DEF Holds
  <2>1. 1 \in 1 .. 1 /\ 1 - 1 = 0
    OBVIOUS
  <2>2. f[1] = f[0] + (e[1] % Group) * Weight[0] /\ f[0] = 0
    BY <2>1 DEF Values
  <2>3. e[1] % Group = u
    BY <1>2, Digit
  <2> QED
    BY <1>1, <2>2, <2>3
<1> QED
  BY <1>3, <1>4, <1>5 DEF IsVarint, e

LEMMA MoreDigits ==
  ASSUME NEW u \in Nat, u >= Group, NEW e, IsVarint(e, u \div Group)
  PROVE  IsVarint(<<Group + (u % Group)>> \o e, u)
<1> DEFINE L == MaxVarintLen
           r == u % Group
           w == u \div Group
           d == Group + r
           c == <<d>> \o e
           k == Len(e)
<1>1. Group \in Nat /\ Group >= 2 /\ L \in Nat /\ L >= 1
  BY CodecAssumption
<1>2. w \in Nat /\ r \in 0 .. Group - 1 /\ u = Group * w + r
  BY Digit
<1>3. e \in Seq(Nat) /\ k \in Nat /\ k >= 1 /\ e[k] < Group /\ \A i \in 1 .. k - 1 : e[i] >= Group
  BY DEF IsVarint, Ending
<1>4. Short(e, w) /\ Holds(e, w)
  BY DEF IsVarint
<1>5. d \in Nat /\ d >= Group /\ d % Group = r /\ r \in Nat
  <2>1. r \in Nat /\ r < Group
    BY <1>1, <1>2
  <2> HIDE DEF r
  <2> QED
    BY <1>1, <2>1
<1> HIDE DEF d
<1>6. c \in Seq(Nat) /\ Len(c) = k + 1 /\ c[1] = d /\ \A i \in 1 .. k : c[i + 1] = e[i]
  BY <1>3, <1>5, InFrontIs
<1> HIDE DEF c, k, w, r, L
<1>7. Ending(c)
  <2>1. c[k + 1] < Group
    <3>1. k \in 1 .. k
      BY <1>3
    <3> QED
      BY <1>3, <1>6, <3>1
  <2>2. ASSUME NEW i \in 1 .. k PROVE c[i] >= Group
    <3>1. CASE i = 1
      BY <1>5, <1>6, <3>1
    <3>2. CASE i # 1
      <4>1. i - 1 \in 1 .. k /\ i - 1 \in 1 .. k - 1 /\ (i - 1) + 1 = i
        BY <1>3, <3>2
      <4>2. c[(i - 1) + 1] = e[i - 1]
        BY <1>6, <4>1
      <4> QED
        BY <1>3, <4>1, <4>2
    <3> QED
      BY <3>1, <3>2
  <2>3. (k + 1) - 1 = k /\ k + 1 >= 1
    BY <1>3
  <2> QED
    BY <1>6, <2>1, <2>2, <2>3 DEF Ending
<1>8. Short(c, u)
  <2> SUFFICES ASSUME NEW n \in 0 .. L - 1, u < 2 * Weight[n]
               PROVE  Len(c) <= n + 1 /\ (Len(c) = n + 1 => c[n + 1] <= 1)
    BY DEF Short, L
  <2>1. n # 0
    <3>1. ASSUME n = 0 PROVE FALSE
      <4>1. Weight[n] = 1
        BY <3>1, WeightIs
      <4> QED
        BY <1>1, <4>1
    <3> QED
      BY <3>1
  <2>2. n \in 1 .. L - 1 /\ n - 1 \in 0 .. L - 1 /\ (n - 1) + 1 = n /\ n \in Nat
    BY <1>1, <2>1
  <2>3. Weight[n] = Weight[n - 1] * Group /\ Weight[n - 1] \in Nat
    BY <2>2, WeightIs DEF L
  <2>4. w < 2 * Weight[n - 1]
    <3> DEFINE x == Weight[n - 1]
               y == 2 * x
    <3>1. x \in Nat /\ u < 2 * (x * Group)
      BY <2>3
    <3> HIDE DEF x
    <3>2. y \in Nat /\ 2 * (x * Group) = Group * y
      BY <1>1, <3>1
    <3> HIDE DEF y
    <3>3. Group * w + r < Group * y
      BY <1>2, <3>1, <3>2
    <3>4. w < y
      BY <1>1, <1>2, <1>5, <3>2, <3>3
    <3> QED
      BY <3>4 DEF y, x
  <2>5. k <= n /\ (k = n => e[n] <= 1)
    <3>1. k <= (n - 1) + 1 /\ (k = (n - 1) + 1 => e[(n - 1) + 1] <= 1)
      BY <1>4, <2>2, <2>4 DEF Short, k, L
    <3> QED
      BY <2>2, <3>1
  <2>6. Len(c) <= n + 1
    BY <1>3, <1>6, <2>2, <2>5
  <2>7. ASSUME Len(c) = n + 1 PROVE c[n + 1] <= 1
    <3>1. k = n /\ n \in 1 .. k
      BY <1>3, <1>6, <2>2, <2>7
    <3> QED
      BY <1>6, <2>5, <3>1
  <2> QED
    BY <2>6, <2>7
<1>9. Holds(c, u)
  <2> SUFFICES ASSUME k + 1 <= L, NEW g, Values(g, c, k + 1) PROVE g[k + 1] = u
    BY <1>6 DEF Holds, L
  <2>1. k \in 0 .. L /\ \A n \in 1 .. k : e[n] \in Nat
    <3>1. k \in 0 .. L
      BY <1>1, <1>3
    <3> QED
      BY <1>3, <3>1 DEF k
  <2>2. PICK f \in [0 .. k -> Nat] : Values(f, e, k)
    BY <2>1, ValuesExist DEF L
  <2>3. f[k] = w
    BY <1>1, <1>3, <1>4, <2>2 DEF Holds, k, L
  <2> DEFINE Wrong == {n \in 0 .. k : g[n + 1] # r + Group * f[n]}
  <2>4. Wrong = {}
    <3> SUFFICES ASSUME Wrong # {} PROVE FALSE
      OBVIOUS
    <3>1. PICK n \in Wrong : \A x \in Wrong : n <= x
      <4>1. Wrong \in SUBSET Nat
        BY <1>3
      <4> HIDE DEF Wrong
      <4> QED BY <4>1, LeastExists
    <3>2. n \in 0 .. k /\ g[n + 1] # r + Group * f[n]
      OBVIOUS
    <3>3. g[n + 1] = g[(n + 1) - 1] + (c[n + 1] % Group) * Weight[(n + 1) - 1]
      <4>1. n + 1 \in 1 .. k + 1
        BY <1>3, <3>2
      <4> QED
        BY <4>1 DEF Values
    <3>4. (n + 1) - 1 = n
      BY <1>3, <3>2
    <3>5. n # 0
      <4> SUFFICES ASSUME n = 0 PROVE FALSE
        OBVIOUS
      <4>1. g[0] = 0 /\ f[0] = 0 /\ Weight[0] = 1
        BY <2>2, WeightIs DEF Values
      <4>2. g[1] = 0 + r * 1
        BY <1>5, <1>6, <3>3, <4>1
      <4> QED
        BY <1>1, <1>5, <3>2, <4>1, <4>2
    <3>6. /\ n \in 1 .. k /\ n - 1 \in 0 .. k /\ ~(n <= n - 1) /\ (n - 1) + 1 = n
          /\ n \in 1 .. L - 1 /\ n - 1 \in 0 .. L - 1
      <4>1. n \in 0 .. k /\ k \in Nat /\ L \in Nat /\ k + 1 <= L
        BY <1>1, <1>3, <3>2
      <4> HIDE DEF Wrong
      <4>2. n \in Nat /\ 1 <= n /\ n <= k
        BY <3>5, <4>1
      <4>3. n \in 1 .. k /\ n - 1 \in 0 .. k /\ ~(n <= n - 1) /\ (n - 1) + 1 = n
        BY <4>1, <4>2
      <4>4. n \in 1 .. L - 1 /\ n - 1 \in 0 .. L - 1
        BY <4>1, <4>2
      <4> QED
        BY <4>3, <4>4
    <3>7. g[n] = r + Group * f[n - 1]
      <4>1. g[(n - 1) + 1] = r + Group * f[n - 1]
        BY <3>1, <3>6
      <4> QED
        BY <3>6, <4>1
    <3> DEFINE x == Weight[n - 1]
               y == f[n - 1]
               z == e[n] % Group
    <3>8. f[n] = y + z * x /\ y \in Nat /\ x \in Nat /\ Weight[n] = x * Group
      BY <2>2, <3>6, WeightIs DEF Values, L
    <3>9. z \in Nat
      <4>1. z \in 0 .. Group - 1
        BY <2>1, <3>6, Digit
      <4> QED
        BY <1>1, <4>1
    <3>10. g[n + 1] = (r + Group * y) + z * (x * Group)
      BY <1>6, <3>3, <3>4, <3>6, <3>7, <3>8
    <3> HIDE DEF x, y, z
    <3>11. z * (x * Group) = Group * (z * x) /\ z * x \in Nat /\ Group * y \in Nat
      BY <1>1, <3>8, <3>9
    <3>12. Group * (y + z * x) = Group * y + Group * (z * x)
      BY <1>1, <3>8, <3>11
    <3>13. Group * (z * x) \in Nat
      BY <1>1, <3>11
    <3> QED
      BY <1>5, <3>2, <3>8, <3>10, <3>11, <3>12, <3>13
  <2>5. g[k + 1] = r + Group * f[k]
    <3>1. k \in 0 .. k
      BY <1>3
    <3> QED
      BY <2>4, <3>1
  <2>6. Group * w \in Nat
    BY <1>1, <1>2
  <2> QED
    BY <1>2, <1>5, <2>3, <2>5, <2>6
<1> QED
  BY <1>7, <1>8, <1>9 DEF IsVarint, c, d, r

\* PutUvarint's loop ends for every number.
LEMMA EncodeExists ==
  ASSUME NEW q \in Nat
  PROVE  \E f : f = [u \in 0 .. q |-> IF u < Group THEN <<u>>
                                      ELSE <<Group + (u % Group)>> \o f[u \div Group]]
<1> DEFINE Next(f, u) == IF u < Group THEN <<u>> ELSE <<Group + (u % Group)>> \o f[u \div Group]
           Runs(f, p) == DOMAIN f = 0 .. p /\ f = [u \in 0 .. p |-> f[u]]
                           /\ \A u \in 0 .. p : f[u] = Next(f, u)
           Missing == {p \in 0 .. q : ~ \E f : Runs(f, p)}
<1>0. Group \in Nat /\ Group >= 2
  BY CodecAssumption
<1>1. ASSUME Missing # {} PROVE FALSE
  <2>1. PICK p \in Missing : \A x \in Missing : p <= x
    <3>1. Missing \in SUBSET Nat
      OBVIOUS
    <3> HIDE DEF Missing
    <3> QED BY <1>1, <3>1, LeastExists
  <2>2. p \in 0 .. q /\ ~ \E f : Runs(f, p)
    OBVIOUS
  <2>3. \E f : \A u \in 0 .. p - 1 : f[u] = Next(f, u)
    <3>1. CASE p = 0
      <4>1. \A u \in 0 .. p - 1 : FALSE
        BY <3>1
      <4> QED
        BY <4>1
    <3>2. CASE p # 0
      <4>1. p - 1 \in 0 .. q /\ ~(p <= p - 1)
        BY <2>2, <3>2
      <4>2. \E f : Runs(f, p - 1)
        <5> HIDE DEF Runs
        <5> QED BY <2>1, <4>1
      <4> QED
        BY <4>2
    <3> QED
      BY <3>1, <3>2
  <2>4. PICK f : \A u \in 0 .. p - 1 : f[u] = Next(f, u)
    BY <2>3
  <2> DEFINE g == [u \in 0 .. p |-> IF u = p THEN Next(f, p) ELSE f[u]]
  <2>5. ASSUME NEW u \in 0 .. p PROVE g[u] = Next(g, u)
    <3>1. u \in Nat /\ (u = p \/ u \in 0 .. p - 1)
      BY <2>2
    <3>2. CASE u < Group
      <4>1. g[u] = Next(f, u)
        <5>1. CASE u = p
          BY <5>1
        <5>2. CASE u # p
          <6>1. f[u] = Next(f, u)
            BY <2>4, <3>1, <5>2
          <6>2. g[u] = f[u]
            BY <5>2
          <6> QED
            BY <6>1, <6>2
        <5> QED
          BY <5>1, <5>2
      <4> QED
        BY <3>2, <4>1
    <3>3. CASE ~(u < Group)
      <4>1. u \div Group \in 0 .. p - 1 /\ u \div Group # p /\ u \div Group \in 0 .. p
        <5>1. u \div Group \in Nat /\ u \div Group < u
          BY <1>0, <3>1, <3>3, Digit
        <5> QED
          BY <2>2, <5>1
      <4>2. g[u \div Group] = f[u \div Group]
        BY <4>1
      <4>3. g[u] = Next(f, u)
        <5>1. CASE u = p
          BY <5>1
        <5>2. CASE u # p
          <6>1. f[u] = Next(f, u)
            BY <2>4, <3>1, <5>2
          <6>2. g[u] = f[u]
            BY <5>2
          <6> QED
            BY <6>1, <6>2
        <5> QED
          BY <5>1, <5>2
      <4> HIDE DEF g
      <4> QED
        BY <3>3, <4>2, <4>3
    <3> QED
      BY <3>2, <3>3
  <2>6. DOMAIN g = 0 .. p /\ g = [u \in 0 .. p |-> g[u]]
    OBVIOUS
  <2> HIDE DEF g
  <2>7. Runs(g, p)
    BY <2>5, <2>6
  <2> HIDE DEF Runs
  <2> QED
    BY <2>2, <2>7
<1>2. PICK f : Runs(f, q)
  <2>1. q \in 0 .. q
    OBVIOUS
  <2> HIDE DEF Runs
  <2> QED BY <1>1, <2>1
<1>3. f = [u \in 0 .. q |-> Next(f, u)]
  <2>1. f = [u \in 0 .. q |-> f[u]] /\ \A u \in 0 .. q : f[u] = Next(f, u)
    BY <1>2
  <2> HIDE DEF Next
  <2> QED
    BY <2>1
<1> QED
  BY <1>3

\* EncodeVarint gives the varint of every word.
LEMMA EncodeIs == ASSUME NEW v \in 0 .. Word - 1 PROVE IsVarint(EncodeVarint(v), v)
<1> DEFINE q == Word - 1
           F == CHOOSE f : f = [u \in 0 .. q |-> IF u < Group THEN <<u>>
                                      ELSE <<Group + (u % Group)>> \o f[u \div Group]]
<1>1. Word \in Nat /\ q \in Nat /\ Group \in Nat /\ v \in 0 .. q
  BY WeightsGrow, CodecAssumption
<1>2. EncodeVarint(v) = F[v]
  BY DEF EncodeVarint
<1> HIDE DEF q
<1>3. F = [u \in 0 .. q |-> IF u < Group THEN <<u>> ELSE <<Group + (u % Group)>> \o F[u \div Group]]
  BY <1>1, EncodeExists
<1> HIDE DEF F
<1>4. \A u \in 0 .. q : F[u] = IF u < Group THEN <<u>> ELSE <<Group + (u % Group)>> \o F[u \div Group]
  BY <1>3
<1> DEFINE Wrong == {u \in 0 .. q : ~IsVarint(F[u], u)}
<1>5. Wrong = {}
  <2> SUFFICES ASSUME Wrong # {} PROVE FALSE
    OBVIOUS
  <2>1. PICK u \in Wrong : \A x \in Wrong : u <= x
    <3>1. Wrong \in SUBSET Nat
      BY <1>1
    <3> HIDE DEF Wrong
    <3> QED BY <3>1, LeastExists
  <2>2. u \in 0 .. q /\ ~IsVarint(F[u], u) /\ u \in Nat
    BY <1>1
  <2>3. CASE u < Group
    BY <1>4, <2>2, <2>3, OneDigit
  <2>4. CASE ~(u < Group)
    <3> DEFINE w == u \div Group
    <3>1. w \in Nat /\ w < u /\ u >= Group
      BY <1>1, <2>2, <2>4, Digit
    <3>2. F[u] = <<Group + (u % Group)>> \o F[w]
      BY <1>4, <2>2, <2>4
    <3>3. w \in 0 .. q /\ ~(u <= w)
      <4> HIDE DEF w
      <4> QED BY <1>1, <2>2, <3>1
    <3>4. IsVarint(F[w], w)
      BY <2>1, <3>3
    <3> QED
      BY <2>2, <3>1, <3>2, <3>4, MoreDigits
  <2> QED
    BY <2>3, <2>4
<1> QED
  BY <1>1, <1>2, <1>5

\* Zig-zag takes every signed word to a word and back.
LEMMA ZigZag ==
  ASSUME NEW v \in SignedWord
  PROVE  ZigZagEncode(v) \in 0 .. Word - 1 /\ ZigZagDecode(ZigZagEncode(v)) = v
<1>1. Half \in Nat /\ Half >= 1 /\ Word = 2 * Half /\ v \in Int /\ -Half <= v /\ v < Half
  BY WeightsGrow DEF SignedWord
<1> DEFINE u == ZigZagEncode(v)
<1>2. CASE v >= 0
  <2>1. (2 * v) % (2 * Half) = 2 * v
    BY <1>1, <1>2
  <2>2. u = 2 * v
    BY <1>1, <1>2, <2>1 DEF ZigZagEncode
  <2> HIDE DEF u
  <2>3. u % 2 = 0 /\ u \div 2 = v /\ u \in 0 .. Word - 1
    BY <1>1, <1>2, <2>2
  <2> QED
    BY <2>3 DEF ZigZagDecode, u
<1>3. CASE ~(v >= 0)
  <2>1. (-2 * v - 1) % (2 * Half) = -2 * v - 1
    BY <1>1, <1>3
  <2>2. u = -2 * v - 1
    BY <1>1, <1>3, <2>1 DEF ZigZagEncode
  <2> HIDE DEF u
  <2>3. u % 2 = 1 /\ u \div 2 = -v - 1 /\ u \in 0 .. Word - 1
    BY <1>1, <1>3, <2>2
  <2>4. -(u \div 2) - 1 = v
    BY <1>1, <2>3
  <2> QED
    BY <2>3, <2>4 DEF ZigZagDecode, u
<1> QED
  BY <1>2, <1>3

(***************************************************************************)
(* A stream begins with an encoding, or ends within it.                    *)
(***************************************************************************)
Begins(s, e) == Len(e) <= Len(s) /\ \A i \in 1 .. Len(e) : s[i] = e[i]
EndsIn(s, e) == Len(s) < Len(e) /\ \A i \in 1 .. Len(s) : s[i] = e[i]

\* ReadVarint finds the varint its stream begins with.
LEMMA WholeVarint ==
  ASSUME NEW u \in 0 .. Word - 1, NEW e, IsVarint(e, u), NEW s \in Seq(Nat), Begins(s, e)
  PROVE  VarintFits(s) /\ VarintLen(s) = Len(e) /\ VarintValue(s) = u
<1> DEFINE L == MaxVarintLen
           k == Len(e)
           t == Len(s)
<1>1. L \in Nat /\ L >= 1 /\ Group \in Nat
  BY CodecAssumption
<1>2. /\ e \in Seq(Nat) /\ k \in Nat /\ k >= 1 /\ e[k] < Group
      /\ \A i \in 1 .. k - 1 : e[i] >= Group
  BY DEF IsVarint, Ending
<1>3. k <= L /\ (k = L => e[L] <= 1)
  <2>1. L - 1 \in 0 .. L - 1 /\ (L - 1) + 1 = L
    BY <1>1
  <2>2. u < 2 * Weight[L - 1]
    <3>1. u \in Int /\ u <= Word - 1 /\ Word \in Nat
      BY WeightsGrow
    <3> QED
      BY <3>1 DEF Word, Half
  <2>3. k <= (L - 1) + 1 /\ (k = (L - 1) + 1 => e[(L - 1) + 1] <= 1)
    BY <2>1, <2>2 DEF IsVarint, Short
  <2> QED
    BY <2>1, <2>3
<1>4. t \in Nat /\ k <= t /\ \A i \in 1 .. k : s[i] = e[i]
  BY DEF Begins
<1> HIDE DEF k, t, L
<1>5. k \in Ends(s)
  <2>1. k \in 1 .. t /\ k \in 1 .. k
    BY <1>2, <1>4
  <2> QED
    BY <1>2, <1>3, <1>4, <2>1 DEF Ends, t, L
<1>6. ASSUME NEW i \in Ends(s) PROVE k <= i
  <2>1. i \in 1 .. t /\ s[i] < Group
    BY DEF Ends, t
  <2>2. ASSUME i < k PROVE FALSE
    <3>1. i \in 1 .. k /\ i \in 1 .. k - 1
      BY <1>2, <1>4, <2>1, <2>2
    <3>2. e[i] < Group /\ e[i] >= Group
      BY <1>2, <1>4, <2>1, <3>1
    <3>3. e[i] \in Nat
      BY <1>2, <3>1 DEF k
    <3> QED
      BY <1>1, <3>2, <3>3
  <2> QED
    BY <1>2, <1>4, <2>1, <2>2
<1>7. VarintLen(s) = k
  <2>1. VarintLen(s) \in Ends(s) /\ VarintLen(s) <= k /\ VarintLen(s) \in 1 .. Len(s)
    BY <1>5, VarintLenIs
  <2>2. k <= VarintLen(s)
    BY <1>6, <2>1
  <2> QED
    BY <1>2, <2>1, <2>2
<1>8. VarintFits(s)
  <2>1. k \in 1 .. k
    BY <1>2
  <2> QED
    BY <1>3, <1>4, <1>5, <1>7, <2>1 DEF VarintFits, L
<1>9. VarintValue(s) = u
  <2>1. PICK f : Values(f, s, k) /\ VarintValue(s) = f[k]
    BY <1>5, <1>7, VarintValueIs
  <2>2. Values(f, e, k)
    BY <1>4, <2>1 DEF Values
  <2> QED
    BY <1>3, <2>1, <2>2 DEF IsVarint, Holds, k, L
<1> QED
  BY <1>7, <1>8, <1>9 DEF k

\* It finds none in a part of one.
LEMMA PartVarint ==
  ASSUME NEW e, Ending(e), NEW s \in Seq(Nat), EndsIn(s, e)
  PROVE  ~VarintFits(s)
<1>1. e \in Seq(Nat) /\ \A i \in 1 .. Len(e) - 1 : e[i] >= Group
  BY DEF Ending
<1>2. Len(s) \in Nat /\ Len(e) \in Nat /\ Len(s) < Len(e) /\ Group \in Nat
  BY <1>1, CodecAssumption DEF EndsIn
<1>3. ASSUME NEW i \in Ends(s) PROVE FALSE
  <2>1. i \in 1 .. Len(s) /\ s[i] < Group
    BY DEF Ends
  <2>2. i \in 1 .. Len(e) - 1 /\ i \in 1 .. Len(e)
    BY <1>2, <2>1
  <2>3. s[i] = e[i] /\ e[i] >= Group /\ e[i] \in Nat
    BY <1>1, <2>1, <2>2 DEF EndsIn
  <2> QED
    BY <1>2, <2>1, <2>3
<1> QED
  BY <1>3 DEF VarintFits

\* A length prefix is a number, and the length while it fits.
LEMMA PrefixIs ==
  ASSUME NEW p \in Seq(Nat)
  PROVE  /\ Len(p) % LenWord \in Nat
         /\ Len(p) < LenWord => Len(p) % LenWord = Len(p)
<1>1. Len(p) \in Nat /\ LenWord \in Nat \ {0}
  BY CodecAssumption
<1> QED
  BY <1>1

\* ReadLengthPrefixed finds the payload its stream begins with, within the limit.
LEMMA WholePrefixed ==
  ASSUME NEW p \in Seq(Nat), NEW s \in Seq(Nat), Begins(s, LengthPrefixed(p)), Len(p) < LenWord
  PROVE  /\ s # <<>> /\ Head(s) = Len(p) /\ (ReadsPrefixed(s) <=> Len(p) <= Limit)
         /\ SubSeq(s, 2, Len(p) + 1) = p
<1> DEFINE e == LengthPrefixed(p)
           n == Len(p)
<1>1. n \in Nat /\ Len(s) \in Nat
  OBVIOUS
<1>2. e \in Seq(Nat) /\ Len(e) = n + 1 /\ e[1] = n /\ \A i \in 1 .. n : e[i + 1] = p[i]
  BY InFrontIs, PrefixIs DEF LengthPrefixed
<1> HIDE DEF e
<1>3. n + 1 <= Len(s) /\ \A i \in 1 .. n + 1 : s[i] = e[i]
  BY <1>2 DEF Begins, e
<1>4. s # <<>> /\ s[1] = n
  BY <1>1, <1>2, <1>3
<1>5. Head(s) = n
  BY <1>4
<1>6. ReadsPrefixed(s) <=> n <= Limit
  BY <1>1, <1>3, <1>4, <1>5 DEF ReadsPrefixed
<1>7. /\ SubSeq(s, 2, n + 1) \in Seq(Nat) /\ Len(SubSeq(s, 2, n + 1)) = n
      /\ \A i \in 1 .. n : SubSeq(s, 2, n + 1)[i] = s[i + 1]
  BY <1>1, <1>3
<1>8. ASSUME NEW i \in 1 .. n PROVE SubSeq(s, 2, n + 1)[i] = p[i]
  <2>1. i + 1 \in 1 .. n + 1
    BY <1>1
  <2> QED
    BY <1>2, <1>3, <1>7, <2>1
<1>9. SubSeq(s, 2, n + 1) = p
  BY <1>1, <1>7, <1>8
<1> QED
  BY <1>4, <1>5, <1>6, <1>9

\* It finds none in a part.
LEMMA PartPrefixed ==
  ASSUME NEW p \in Seq(Nat), NEW s \in Seq(Nat), EndsIn(s, LengthPrefixed(p)), Len(p) < LenWord
  PROVE  ~ReadsPrefixed(s)
<1> DEFINE e == LengthPrefixed(p)
           n == Len(p)
<1>1. n \in Nat /\ Len(s) \in Nat
  OBVIOUS
<1>2. e \in Seq(Nat) /\ Len(e) = n + 1 /\ e[1] = n
  BY InFrontIs, PrefixIs DEF LengthPrefixed
<1> HIDE DEF e
<1>3. Len(s) < n + 1 /\ \A i \in 1 .. Len(s) : s[i] = e[i]
  BY <1>2 DEF EndsIn, e
<1>4. ASSUME s # <<>> PROVE Head(s) = n
  <2>1. Len(s) >= 1 /\ 1 \in 1 .. Len(s) /\ Head(s) = s[1]
    BY <1>1, <1>4
  <2> QED
    BY <1>2, <1>3, <2>1
<1> QED
  BY <1>1, <1>3, <1>4 DEF ReadsPrefixed

\* What is sent is an integer or a byte string.
LEMMA ItemIs ==
  ASSUME NEW x \in CodecItem
  PROVE  \/ x.kind = "int" /\ x.int \in SignedWord /\ x = [kind |-> "int", int |-> x.int]
         \/ x.kind = "bytes" /\ x.bytes \in Payload /\ x = [kind |-> "bytes", bytes |-> x.bytes]
BY DEF CodecItem

LEMMA EncodingType ==
  ASSUME NEW x \in CodecItem
  PROVE  /\ Encoding(x) \in Seq(Nat) /\ Len(Encoding(x)) \in Nat
         /\ (x.kind = "int" => IsVarint(Encoding(x), ZigZagEncode(x.int)))
         /\ (x.kind = "bytes" => Encoding(x) = LengthPrefixed(x.bytes) /\ x.bytes \in Seq(Nat))
<1>1. CASE x.kind = "int" /\ x.int \in SignedWord
  <2>1. Encoding(x) = EncodeVarint(ZigZagEncode(x.int))
    BY <1>1 DEF Encoding
  <2>2. ZigZagEncode(x.int) \in 0 .. Word - 1
    BY <1>1, ZigZag
  <2>3. IsVarint(Encoding(x), ZigZagEncode(x.int))
    BY <2>1, <2>2, EncodeIs
  <2>4. Encoding(x) \in Seq(Nat)
    BY <2>3 DEF IsVarint, Ending
  <2> QED
    BY <1>1, <2>3, <2>4
<1>2. CASE x.kind = "bytes" /\ x.bytes \in Payload
  <2>1. Encoding(x) = LengthPrefixed(x.bytes)
    BY <1>2 DEF Encoding
  <2>2. x.bytes \in Seq(Nat)
    BY <1>2, CodecAssumption
  <2>3. LengthPrefixed(x.bytes) \in Seq(Nat)
    BY <2>2, InFrontIs, PrefixIs DEF LengthPrefixed
  <2> QED
    BY <1>2, <2>1, <2>2, <2>3
<1> QED
  BY <1>1, <1>2, ItemIs

(***************************************************************************)
(* The stream holds the encodings of the items of a list behind the first  *)
(* k, one after the other, as far as it goes: that of item k + i from      *)
(* at[i - 1] to at[i].                                                     *)
(***************************************************************************)
Laid(at, s, list, k) ==
  /\ at \in [0 .. Len(list) - k -> Nat] /\ at[0] = 0
  /\ \A i \in 1 .. Len(list) - k : at[i] = at[i - 1] + Len(Encoding(list[k + i]))
  /\ \A i, j \in 0 .. Len(list) - k : i <= j => at[i] <= at[j]
  /\ \A i \in 1 .. Len(list) - k : \A j \in 1 .. Len(Encoding(list[k + i])) :
       at[i - 1] + j <= Len(s) => s[at[i - 1] + j] = Encoding(list[k + i])[j]
  /\ Len(s) <= at[Len(list) - k]

\* One more item is sent.
LEMMA LaidSend ==
  ASSUME NEW list \in Seq(CodecItem), NEW k \in 0 .. Len(list), NEW s \in Seq(Nat), NEW at,
         Laid(at, s, list, k), Len(s) = at[Len(list) - k], NEW x \in CodecItem
  PROVE  \E new : /\ Laid(new, s \o Encoding(x), Append(list, x), k)
                  /\ Len(s \o Encoding(x)) = new[Len(Append(list, x)) - k]
<1> DEFINE n == Len(list) - k
           e == Encoding(x)
           more == Append(list, x)
           t == s \o e
           new == [i \in 0 .. n + 1 |-> IF i = n + 1 THEN at[n] + Len(e) ELSE at[i]]
           Enc(i) == Encoding(list[k + i])
<1>1. n \in Nat /\ k \in Nat /\ Len(list) \in Nat /\ Len(list) = k + n
  OBVIOUS
<1>2. e \in Seq(Nat) /\ Len(e) \in Nat
  BY EncodingType
<1>3. Len(more) = Len(list) + 1 /\ more[Len(list) + 1] = x /\ \A i \in 1 .. Len(list) : more[i] = list[i]
  OBVIOUS
<1> HIDE DEF e, more
<1>4. /\ t \in Seq(Nat) /\ Len(t) = Len(s) + Len(e) /\ Len(s) \in Nat
      /\ \A i \in 1 .. Len(s) : t[i] = s[i]
      /\ \A i \in 1 .. Len(e) : t[Len(s) + i] = e[i]
  <2>1. t \in Seq(Nat) /\ Len(t) = Len(s) + Len(e) /\ Len(s) \in Nat
    <3>1. s \in Seq(Nat) /\ Len(s) \in Nat
      OBVIOUS
    <3> QED
      BY <1>2, <3>1, ConcatProperties, Zenon
  <2>2. \A i \in 1 .. Len(s) : t[i] = s[i]
    BY <1>2
  <2>3. \A i \in 1 .. Len(e) : t[Len(s) + i] = e[i]
    BY <1>2
  <2> QED
    BY <2>1, <2>2, <2>3
<1>5. /\ at \in [0 .. n -> Nat] /\ at[0] = 0
      /\ \A i \in 1 .. n : at[i] = at[i - 1] + Len(Enc(i))
      /\ \A i, j \in 0 .. n : i <= j => at[i] <= at[j]
      /\ \A i \in 1 .. n : \A j \in 1 .. Len(Enc(i)) :
           at[i - 1] + j <= Len(s) => s[at[i - 1] + j] = Enc(i)[j]
      /\ Len(s) = at[n]
  BY DEF Laid
<1>6. (\A i \in 1 .. n : more[k + i] = list[k + i]) /\ more[k + (n + 1)] = x /\ Len(more) - k = n + 1
  <2>1. \A i \in 1 .. n : k + i \in 1 .. Len(list)
    BY <1>1
  <2>2. k + (n + 1) = Len(list) + 1 /\ (Len(list) + 1) - k = n + 1
    BY <1>1
  <2> QED
    BY <1>3, <2>1, <2>2
<1>7. \A i \in 1 .. n : Len(Enc(i)) \in Nat
  <2> SUFFICES ASSUME NEW i \in 1 .. n PROVE Len(Enc(i)) \in Nat
    OBVIOUS
  <2>1. k + i \in 1 .. Len(list)
    BY <1>1
  <2>2. list[k + i] \in CodecItem
    BY <2>1
  <2> QED
    BY <2>2, EncodingType
<1> HIDE DEF n, t
<1>8. /\ \A i \in 0 .. n : new[i] = at[i] /\ new[i] \in Nat /\ i \in 0 .. n + 1
      /\ new[n + 1] = at[n] + Len(e) /\ new[n + 1] \in Nat /\ n \in 0 .. n
      /\ new \in [0 .. n + 1 -> Nat]
  <2>1. \A i \in 0 .. n : i \in 0 .. n + 1 /\ i # n + 1
    BY <1>1
  <2>2. n + 1 \in 0 .. n + 1 /\ n \in 0 .. n /\ \A i \in 0 .. n + 1 : i = n + 1 \/ i \in 0 .. n
    BY <1>1
  <2>3. at[n] \in Nat /\ \A i \in 0 .. n : at[i] \in Nat
    BY <1>5, <2>2
  <2>4. at[n] + Len(e) \in Nat
    BY <1>2, <2>3
  <2>5. new[n + 1] = at[n] + Len(e) /\ \A i \in 0 .. n : new[i] = at[i]
    BY <2>1, <2>2
  <2> QED
    BY <2>1, <2>2, <2>3, <2>4, <2>5
<1> HIDE DEF new, Enc
<1>9. \A i \in 1 .. n + 1 : i = n + 1 \/ i \in 1 .. n
  BY <1>1
<1>10. \A i \in 1 .. n : i \in 0 .. n /\ i - 1 \in 0 .. n
  BY <1>1
<1>11. (n + 1) - 1 = n
  BY <1>1
<1>12. ASSUME NEW i \in 1 .. n + 1
       PROVE  /\ new[i] = new[i - 1] + Len(Encoding(more[k + i]))
              /\ \A j \in 1 .. Len(Encoding(more[k + i])) :
                   new[i - 1] + j <= Len(t) => t[new[i - 1] + j] = Encoding(more[k + i])[j]
  <2>1. CASE i = n + 1
    <3>1. Encoding(more[k + i]) = e /\ new[i - 1] = at[n] /\ new[i - 1] = Len(s)
      BY <1>5, <1>6, <1>8, <1>11, <2>1 DEF e
    <3> QED
      BY <1>4, <1>8, <2>1, <3>1
  <2>2. CASE i \in 1 .. n
    <3>1. Encoding(more[k + i]) = Enc(i) /\ new[i - 1] = at[i - 1] /\ new[i] = at[i]
      BY <1>6, <1>8, <1>10, <2>2 DEF Enc
    <3>2. at[i] = at[i - 1] + Len(Enc(i)) /\ at[i] <= Len(s) /\ at[i] \in Nat /\ at[i - 1] \in Nat
      <4>1. at[i] = at[i - 1] + Len(Enc(i))
        BY <1>5, <2>2
      <4>2. i \in 0 .. n /\ i - 1 \in 0 .. n /\ n \in 0 .. n /\ i <= n
        BY <1>1, <1>10, <2>2
      <4>3. at[i] <= at[n]
        BY <1>5, <4>2
      <4>4. at[i] \in Nat /\ at[i - 1] \in Nat
        BY <1>5, <4>2
      <4> QED
        BY <1>5, <4>1, <4>3, <4>4
    <3>3. ASSUME NEW j \in 1 .. Len(Enc(i)) PROVE t[at[i - 1] + j] = Enc(i)[j]
      <4>1. at[i - 1] + j <= Len(s) /\ at[i - 1] + j \in 1 .. Len(s)
        <5> DEFINE p == at[i - 1]
                   c == Len(Enc(i))
        <5>1. p \in Nat /\ c \in Nat /\ p + c <= Len(s) /\ j \in 1 .. c /\ Len(s) \in Nat
          BY <1>4, <1>7, <2>2, <3>2
        <5> HIDE DEF p, c
        <5>2. p + j <= Len(s) /\ p + j \in 1 .. Len(s)
          BY <5>1
        <5> QED
          BY <5>2 DEF p
      <4> QED
        BY <1>4, <1>5, <2>2, <4>1
    <3> QED
      BY <3>1, <3>2, <3>3
  <2> QED
    BY <1>9, <2>1, <2>2
<1>13. ASSUME NEW i \in 0 .. n + 1, NEW j \in 0 .. n + 1, i <= j PROVE new[i] <= new[j]
  <2>1. (i = n + 1 \/ i \in 0 .. n) /\ (j = n + 1 \/ j \in 0 .. n)
    BY <1>1
  <2>2. CASE i = n + 1
    <3>1. j = n + 1
      BY <1>1, <1>13, <2>2
    <3> QED
      BY <1>8, <2>2, <3>1
  <2>3. CASE i \in 0 .. n /\ j \in 0 .. n
    BY <1>5, <1>8, <1>13, <2>3
  <2>4. CASE i \in 0 .. n /\ j = n + 1
    <3>1. i <= n /\ at[i] <= at[n] /\ at[i] \in Nat /\ at[n] \in Nat
      BY <1>1, <1>5, <1>8, <2>4
    <3> QED
      BY <1>2, <1>8, <2>4, <3>1
  <2> QED
    BY <2>1, <2>2, <2>3, <2>4
<1>14. Len(t) = new[n + 1] /\ new[0] = 0
  <2>1. 0 \in 0 .. n
    BY <1>1
  <2> QED
    BY <1>4, <1>5, <1>8, <2>1
<1>15. Laid(new, t, more, k)
  <2>1. Len(t) <= new[n + 1]
    BY <1>8, <1>14
  <2> QED
    BY <1>6, <1>8, <1>12, <1>13, <1>14, <2>1 DEF Laid
<1> QED
  BY <1>6, <1>14, <1>15 DEF t, e, more

\* A cut leaves the encodings in place.
LEMMA LaidCut ==
  ASSUME NEW list \in Seq(CodecItem), NEW k \in 0 .. Len(list), NEW s \in Seq(Nat), NEW at,
         Laid(at, s, list, k), NEW n \in 0 .. Len(s)
  PROVE  Laid(at, SubSeq(s, 1, n), list, k)
<1> DEFINE t == SubSeq(s, 1, n)
           d == Len(list) - k
<1>1. d \in Nat /\ n \in Nat /\ n <= Len(s) /\ Len(s) \in Nat
  OBVIOUS
<1>2. Len(t) = n /\ \A i \in 1 .. n : t[i] = s[i]
  BY <1>1
<1> HIDE DEF t
<1>3. at[d] \in Nat /\ Len(s) <= at[d] /\ \A i \in 0 .. d : at[i] \in Nat
  <2>1. at \in [0 .. d -> Nat] /\ Len(s) <= at[d]
    BY DEF Laid
  <2> HIDE DEF d
  <2>2. d \in 0 .. d
    BY <1>1
  <2> QED
    BY <2>1, <2>2
<1>4. Len(t) <= at[d]
  <2> HIDE DEF d
  <2> QED BY <1>1, <1>2, <1>3
<1>5. ASSUME NEW i \in 1 .. d, NEW j \in 1 .. Len(Encoding(list[k + i])), at[i - 1] + j <= Len(t)
      PROVE  t[at[i - 1] + j] = Encoding(list[k + i])[j]
  <2>1. k + i \in 1 .. Len(list) /\ i - 1 \in 0 .. d
    BY <1>1
  <2>2. list[k + i] \in CodecItem
    BY <2>1
  <2>3. at[i - 1] \in Nat /\ j \in Nat /\ j >= 1
    BY <1>3, <2>1, <2>2, EncodingType
  <2>4. at[i - 1] + j \in 1 .. n /\ at[i - 1] + j <= Len(s)
    <3> DEFINE p == at[i - 1]
    <3>1. p \in Nat /\ j \in Nat /\ j >= 1 /\ p + j <= n
      BY <1>2, <1>5, <2>3
    <3> HIDE DEF p
    <3>2. p + j \in 1 .. n /\ p + j <= Len(s)
      BY <1>1, <3>1
    <3> QED
      BY <3>2 DEF p
  <2>5. s[at[i - 1] + j] = Encoding(list[k + i])[j]
    BY <2>4 DEF Laid
  <2> QED
    BY <1>2, <2>4, <2>5
<1> QED
  BY <1>4, <1>5 DEF Laid, t

\* The stream begins with the next item's encoding, or was cut within it.
LEMMA LaidFirst ==
  ASSUME NEW list \in Seq(CodecItem), NEW k \in Nat, k < Len(list), NEW s \in Seq(Nat), NEW at,
         Laid(at, s, list, k)
  PROVE  LET e == Encoding(list[k + 1])
         IN  /\ at[1] = Len(e) /\ (Begins(s, e) \/ EndsIn(s, e))
             /\ (Len(s) = at[Len(list) - k] => Begins(s, e))
<1> DEFINE e == Encoding(list[k + 1])
           d == Len(list) - k
<1>1. d \in Nat /\ d >= 1 /\ k + 1 \in 1 .. Len(list) /\ Len(s) \in Nat
  OBVIOUS
<1>2. list[k + 1] \in CodecItem
  BY <1>1
<1>3. Len(e) \in Nat
  BY <1>2, EncodingType
<1>4. at[0] = 0 /\ 1 - 1 = 0 /\ 1 \in 1 .. d /\ 1 \in 0 .. d /\ d \in 0 .. d
  BY <1>1 DEF Laid
<1>5. at[1] = 0 + Len(e) /\ at[1] <= at[d]
  BY <1>1, <1>4 DEF Laid
<1>6. ASSUME NEW j \in 1 .. Len(e), j <= Len(s) PROVE s[j] = e[j]
  <2>1. at[1 - 1] + j = j
    BY <1>3, <1>4
  <2>2. at[1 - 1] + j <= Len(s) => s[at[1 - 1] + j] = Encoding(list[k + 1])[j]
    BY <1>4 DEF Laid
  <2> QED
    BY <1>6, <2>1, <2>2
<1> HIDE DEF e, d
<1>7. CASE Len(e) <= Len(s)
  <2>1. Begins(s, e)
    <3>1. \A j \in 1 .. Len(e) : j <= Len(s)
      BY <1>1, <1>3, <1>7
    <3> QED
      BY <1>6, <1>7, <3>1 DEF Begins
  <2> QED
    BY <1>3, <1>5, <2>1 DEF e
<1>8. CASE ~(Len(e) <= Len(s))
  <2>1. Len(s) < Len(e) /\ \A j \in 1 .. Len(s) : j \in 1 .. Len(e) /\ j <= Len(s)
    BY <1>1, <1>3, <1>8
  <2>2. EndsIn(s, e)
    BY <1>6, <2>1 DEF EndsIn
  <2>3. Len(s) # at[d]
    BY <1>1, <1>3, <1>5, <2>1
  <2> QED
    BY <1>3, <1>5, <2>2, <2>3 DEF e, d
<1> QED
  BY <1>7, <1>8

LEMMA TailIs ==
  ASSUME NEW s \in Seq(Nat), NEW c \in Nat, c <= Len(s)
  PROVE  /\ SubSeq(s, c + 1, Len(s)) \in Seq(Nat) /\ Len(SubSeq(s, c + 1, Len(s))) = Len(s) - c
         /\ \A i \in 1 .. Len(s) - c : SubSeq(s, c + 1, Len(s))[i] = s[i + c]
<1> DEFINE n == Len(s)
           t == SubSeq(s, c + 1, n)
<1>1. n \in Nat /\ c + 1 \in 1 .. n + 1
  OBVIOUS
<1>2. t = [i \in 1 .. (n - (c + 1)) + 1 |-> s[(i + (c + 1)) - 1]]
  BY <1>1
<1>3. t \in Seq(Nat)
  BY <1>1
<1> HIDE DEF n, t
<1>4. (n - (c + 1)) + 1 = n - c /\ n - c \in Nat /\ \A i \in 1 .. n - c : (i + (c + 1)) - 1 = i + c
  BY <1>1
<1>5. t = [i \in 1 .. n - c |-> s[i + c]]
  BY <1>2, <1>4
<1>6. Len(t) = n - c
  BY <1>4, <1>5
<1> QED
  BY <1>3, <1>5, <1>6 DEF t, n

\* The next item is read: the stream t holds the others.
HoldsOthers(at, s, t, list, k) ==
  \E new : /\ Laid(new, t, list, k + 1)
           /\ (Len(s) = at[Len(list) - k] => Len(t) = new[Len(list) - (k + 1)])

LEMMA LaidRead ==
  ASSUME NEW list \in Seq(CodecItem), NEW k \in Nat, k < Len(list), NEW s \in Seq(Nat), NEW at,
         Laid(at, s, list, k), at[1] \in Nat, at[1] <= Len(s),
         NEW t, t = SubSeq(s, at[1] + 1, Len(s))
  PROVE  HoldsOthers(at, s, t, list, k)
<1> DEFINE c == at[1]
           d == Len(list) - (k + 1)
           new == [i \in 0 .. d |-> at[i + 1] - c]
           Enc(i) == Encoding(list[k + i])
<1>1. d \in Nat /\ Len(s) \in Nat /\ Len(list) - k = d + 1 /\ Len(list) \in Nat /\ Len(list) = k + (d + 1)
  OBVIOUS
<1>2. Len(t) = Len(s) - c /\ \A i \in 1 .. Len(s) - c : t[i] = s[i + c]
  BY TailIs
<1>3. /\ at \in [0 .. d + 1 -> Nat]
      /\ \A i \in 1 .. d + 1 : at[i] = at[i - 1] + Len(Enc(i))
      /\ \A i, j \in 0 .. d + 1 : i <= j => at[i] <= at[j]
      /\ \A i \in 1 .. d + 1 : \A j \in 1 .. Len(Enc(i)) :
           at[i - 1] + j <= Len(s) => s[at[i - 1] + j] = Enc(i)[j]
      /\ Len(s) <= at[d + 1]
  BY <1>1 DEF Laid
<1>4. \A i \in 1 .. d + 1 : Len(Enc(i)) \in Nat
  <2> SUFFICES ASSUME NEW i \in 1 .. d + 1 PROVE Len(Enc(i)) \in Nat
    OBVIOUS
  <2>1. k + i \in 1 .. Len(list)
    BY <1>1
  <2>2. list[k + i] \in CodecItem
    BY <2>1
  <2> QED
    BY <2>2, EncodingType
<1>0. c \in Nat
  OBVIOUS
<1> HIDE DEF c, d, Enc
<1> USE <1>0
<1>5. \A i \in 0 .. d : i + 1 \in 0 .. d + 1 /\ i + 1 \in 1 .. d + 1 /\ 1 <= i + 1 /\ i \in Nat
  BY <1>1
<1>6. 1 \in 0 .. d + 1 /\ 0 \in 0 .. d /\ d \in 0 .. d /\ d + 1 \in 0 .. d + 1
  BY <1>1
<1>7. \A i \in 0 .. d : at[i + 1] \in Nat /\ c <= at[i + 1] /\ new[i] = at[i + 1] - c
  BY <1>3, <1>5, <1>6 DEF c
<1>8. \A i \in 0 .. d : new[i] \in Nat
  BY <1>7
<1>9. new \in [0 .. d -> Nat] /\ new[0] = 0
  <2>1. new[0] = at[0 + 1] - c /\ at[0 + 1] = c
    BY <1>6, <1>7 DEF c
  <2> QED
    BY <1>8, <2>1
<1> HIDE DEF new
<1>10. \A i \in 1 .. d : i \in 0 .. d /\ i - 1 \in 0 .. d /\ (i - 1) + 1 = i
                         /\ i + 1 \in 1 .. d + 1 /\ (i + 1) - 1 = i /\ (k + 1) + i = k + (i + 1)
  BY <1>1
<1>11. ASSUME NEW i \in 1 .. d
       PROVE  /\ new[i] = new[i - 1] + Len(Encoding(list[(k + 1) + i]))
              /\ \A j \in 1 .. Len(Encoding(list[(k + 1) + i])) :
                   new[i - 1] + j <= Len(t) => t[new[i - 1] + j] = Encoding(list[(k + 1) + i])[j]
  <2> DEFINE e == Enc(i + 1)
             p == at[i]
  <2>1. Encoding(list[(k + 1) + i]) = e
    BY <1>10 DEF Enc
  <2>2. new[i] = at[i + 1] - c /\ new[i - 1] = p - c /\ p \in Nat /\ at[i + 1] \in Nat /\ c <= p
    BY <1>7, <1>10
  <2>3. at[i + 1] = p + Len(e) /\ Len(e) \in Nat
    BY <1>3, <1>4, <1>10
  <2>4. \A j \in 1 .. Len(e) : p + j <= Len(s) => s[p + j] = e[j]
    <3> DEFINE u == i + 1
    <3>1. u \in 1 .. d + 1 /\ u - 1 = i
      BY <1>10
    <3> HIDE DEF u
    <3>2. \A j \in 1 .. Len(Enc(u)) : at[u - 1] + j <= Len(s) => s[at[u - 1] + j] = Enc(u)[j]
      BY <1>3, <3>1
    <3> QED
      BY <3>1, <3>2 DEF u
  <2> HIDE DEF e, p
  <2>5. new[i] = new[i - 1] + Len(e)
    BY <2>2, <2>3
  <2>6. ASSUME NEW j \in 1 .. Len(e), new[i - 1] + j <= Len(t) PROVE t[new[i - 1] + j] = e[j]
    <3>1. j \in Nat /\ j >= 1
      BY <2>3
    <3>2. (p - c) + j \in 1 .. Len(s) - c /\ ((p - c) + j) + c = p + j /\ p + j <= Len(s)
      <4>1. (p - c) + j <= Len(s) - c
        BY <1>2, <2>2, <2>6
      <4>2. p - c \in Nat /\ (p - c) + j >= 1 /\ (p - c) + j \in Int
        <5>1. p \in Nat /\ c \in Nat /\ c <= p
          BY <2>2
        <5>2. p - c \in Nat
          BY <5>1
        <5> QED
          BY <3>1, <5>2
      <4>3. (p - c) + j \in 1 .. Len(s) - c
        BY <1>1, <4>1, <4>2
      <4>4. ((p - c) + j) + c = p + j
        BY <2>2, <3>1
      <4>5. p + j <= Len(s)
        BY <1>1, <2>2, <3>1, <4>1
      <4> QED
        BY <4>3, <4>4, <4>5
    <3>3. t[(p - c) + j] = s[p + j]
      BY <1>2, <3>2
    <3> QED
      BY <2>2, <2>4, <3>2, <3>3
  <2> QED
    BY <2>1, <2>5, <2>6
<1>12. ASSUME NEW i \in 0 .. d, NEW j \in 0 .. d, i <= j PROVE new[i] <= new[j]
  <2>1. i + 1 \in 0 .. d + 1 /\ j + 1 \in 0 .. d + 1 /\ i + 1 <= j + 1
    BY <1>1, <1>12
  <2>2. at[i + 1] <= at[j + 1]
    BY <1>3, <2>1
  <2> QED
    BY <1>7, <2>2
<1>13. Len(t) <= new[d] /\ (Len(s) = at[d + 1] => Len(t) = new[d])
  <2>1. new[d] = at[d + 1] - c /\ at[d + 1] \in Nat /\ Len(s) <= at[d + 1] /\ Len(t) = Len(s) - c
    BY <1>2, <1>3, <1>6, <1>7
  <2> DEFINE x == at[d + 1]
             y == Len(s)
  <2>2. x \in Nat /\ y \in Nat /\ y <= x /\ new[d] = x - c /\ Len(t) = y - c
    BY <1>1, <2>1
  <2> HIDE DEF x, y
  <2>3. y - c <= x - c /\ (y = x => y - c = x - c)
    BY <2>2
  <2> QED
    BY <2>2, <2>3 DEF x, y
<1>14. Laid(new, t, list, k + 1)
  BY <1>9, <1>11, <1>12, <1>13 DEF Laid, d
<1> QED
  BY <1>1, <1>13, <1>14 DEF HoldsOthers, d

(***************************************************************************)
(* The inductive invariant: what has been read is the beginning of what    *)
(* was sent, and the stream holds the rest, all of it until it is cut.     *)
(***************************************************************************)
TooLong(x) == x.kind = "bytes" /\ Len(x.bytes) > Limit

CodecInv ==
  /\ sent \in Seq(CodecItem) /\ got \in Seq(CodecItem) /\ stream \in Seq(Nat)
  /\ cut \in BOOLEAN /\ failed \in BOOLEAN /\ foreign \in Nat /\ foreign < Word
  /\ Len(got) <= Len(sent) /\ \A i \in 1 .. Len(got) : got[i] = sent[i]
  /\ failed => Len(got) < Len(sent) /\ (cut \/ TooLong(sent[Len(got) + 1]))
  /\ \E at : Laid(at, stream, sent, Len(got)) /\ (~cut => Len(stream) = at[Len(sent) - Len(got)])

LEMMA InitCodecInv == CodecInit => CodecInv
<1> SUFFICES ASSUME CodecInit PROVE CodecInv
  OBVIOUS
<1>1. /\ stream = <<>> /\ sent = <<>> /\ got = <<>> /\ cut = FALSE /\ failed = FALSE /\ foreign = 0
      /\ Len(stream) = 0 /\ Len(sent) = 0 /\ Len(got) = 0
  BY DEF CodecInit
<1>2. foreign < Word /\ foreign \in Nat
  BY <1>1, WeightsGrow
<1> DEFINE at == [i \in 0 .. 0 |-> 0]
<1>3. at \in [0 .. 0 -> Nat] /\ at[0] = 0
  OBVIOUS
<1> HIDE DEF at
<1>4. Laid(at, stream, sent, Len(got)) /\ Len(stream) = at[Len(sent) - Len(got)]
  <2>1. \A i \in 1 .. 0 : FALSE
    OBVIOUS
  <2>2. \A i, j \in 0 .. 0 : at[i] <= at[j]
    BY <1>3
  <2>3. Len(sent) - Len(got) = 0
    BY <1>1
  <2> QED
    BY <1>1, <1>3, <2>1, <2>2, <2>3 DEF Laid
<1>5. sent \in Seq(CodecItem) /\ got \in Seq(CodecItem) /\ stream \in Seq(Nat)
  BY <1>1
<1>6. Len(got) <= Len(sent) /\ \A i \in 1 .. Len(got) : FALSE
  BY <1>1
<1>7. cut \in BOOLEAN /\ failed \in BOOLEAN /\ ~failed
  BY <1>1
<1> QED
  BY <1>2, <1>4, <1>5, <1>6, <1>7 DEF CodecInv

\* Something is sent.
LEMMA SendCodecInv ==
  ASSUME CodecInv, NEW x \in CodecItem, Send(x)
  PROVE  CodecInv'
<1>1. /\ ~cut /\ stream' = stream \o Encoding(x) /\ sent' = Append(sent, x)
      /\ got' = got /\ cut' = cut /\ failed' = failed /\ foreign' = foreign
  BY DEF Send
<1>2. /\ sent \in Seq(CodecItem) /\ got \in Seq(CodecItem) /\ stream \in Seq(Nat)
      /\ Len(got) <= Len(sent) /\ Len(got) \in Nat /\ Len(sent) \in Nat
  BY DEF CodecInv
<1>3. Len(got) \in 0 .. Len(sent)
  BY <1>2
<1>4. PICK at : Laid(at, stream, sent, Len(got)) /\ Len(stream) = at[Len(sent) - Len(got)]
  BY <1>1 DEF CodecInv
<1>5. \E new : Laid(new, stream', sent', Len(got)) /\ Len(stream') = new[Len(sent') - Len(got)]
  BY <1>1, <1>2, <1>3, <1>4, LaidSend
<1>6. stream' \in Seq(Nat)
  BY <1>1, <1>2, EncodingType, ConcatProperties
<1>7. /\ sent' \in Seq(CodecItem) /\ Len(sent') = Len(sent) + 1
      /\ \A i \in 1 .. Len(sent) : sent'[i] = sent[i]
  BY <1>1, <1>2
<1>8. Len(got') <= Len(sent') /\ \A i \in 1 .. Len(got') : got'[i] = sent'[i]
  <2>1. \A i \in 1 .. Len(got) : i \in 1 .. Len(sent)
    BY <1>2
  <2>2. \A i \in 1 .. Len(got) : got[i] = sent[i]
    BY DEF CodecInv
  <2>3. Len(got) <= Len(sent')
    BY <1>2, <1>7
  <2> QED
    BY <1>1, <1>7, <2>1, <2>2, <2>3
<1>9. ASSUME failed PROVE Len(got) < Len(sent') /\ (cut \/ TooLong(sent'[Len(got) + 1]))
  <2>1. Len(got) < Len(sent) /\ (cut \/ TooLong(sent[Len(got) + 1]))
    BY <1>9 DEF CodecInv
  <2>2. Len(got) < Len(sent') /\ Len(got) + 1 \in 1 .. Len(sent)
    BY <1>2, <1>7, <2>1
  <2> QED
    BY <1>7, <2>1, <2>2
<1>10. cut' \in BOOLEAN /\ failed' \in BOOLEAN /\ foreign' \in Nat /\ foreign' < Word
  BY <1>1 DEF CodecInv
<1> QED
  BY <1>1, <1>2, <1>5, <1>6, <1>7, <1>8, <1>9, <1>10 DEF CodecInv

\* The stream is cut.
LEMMA CutCodecInv ==
  ASSUME CodecInv, NEW n \in 0 .. Len(stream), Cut(n)
  PROVE  CodecInv'
<1>1. /\ cut' = TRUE /\ stream' = SubSeq(stream, 1, n)
      /\ sent' = sent /\ got' = got /\ failed' = failed /\ foreign' = foreign
  BY DEF Cut
<1>2. /\ sent \in Seq(CodecItem) /\ got \in Seq(CodecItem) /\ stream \in Seq(Nat)
      /\ Len(got) <= Len(sent) /\ Len(got) \in Nat /\ Len(sent) \in Nat
  BY DEF CodecInv
<1>3. Len(got) \in 0 .. Len(sent)
  BY <1>2
<1>4. PICK at : Laid(at, stream, sent, Len(got))
  BY DEF CodecInv
<1>5. Laid(at, stream', sent, Len(got))
  BY <1>1, <1>2, <1>3, <1>4, LaidCut
<1>6. stream' \in Seq(Nat)
  BY <1>1, <1>2
<1> QED
  BY <1>1, <1>2, <1>5, <1>6 DEF CodecInv

\* A read of the next item succeeds: the rest of the stream holds the others.
LEMMA ReadCodecInv ==
  ASSUME CodecInv, ~failed, Len(got) < Len(sent), NEW c \in Nat,
         c = Len(Encoding(sent[Len(got) + 1])), c <= Len(stream),
         got' = Append(got, sent[Len(got) + 1]), stream' = SubSeq(stream, c + 1, Len(stream)),
         UNCHANGED <<sent, cut, failed, foreign>>
  PROVE  CodecInv'
<1> DEFINE k == Len(got)
<1>1. /\ sent \in Seq(CodecItem) /\ got \in Seq(CodecItem) /\ stream \in Seq(Nat)
      /\ k \in Nat /\ Len(sent) \in Nat /\ k < Len(sent) /\ k + 1 \in 1 .. Len(sent)
  BY DEF CodecInv
<1>2. sent[k + 1] \in CodecItem
  BY <1>1
<1>3. /\ got' \in Seq(CodecItem) /\ Len(got') = k + 1 /\ got'[k + 1] = sent[k + 1]
      /\ \A i \in 1 .. k : got'[i] = got[i]
  BY <1>1, <1>2
<1>4. PICK at : Laid(at, stream, sent, k) /\ (~cut => Len(stream) = at[Len(sent) - k])
  BY DEF CodecInv
<1>5. \A i \in 1 .. k : got[i] = sent[i]
  BY DEF CodecInv
<1> HIDE DEF k
<1>6. c = at[1]
  BY <1>1, <1>4, LaidFirst DEF k
<1>7. HoldsOthers(at, stream, stream', sent, k)
  <2>1. at[1] \in Nat /\ at[1] <= Len(stream) /\ stream' = SubSeq(stream, at[1] + 1, Len(stream))
    BY <1>6
  <2> QED
    BY <1>1, <1>4, <2>1, LaidRead
<1>8. stream' \in Seq(Nat)
  BY <1>1, TailIs
<1>9. Len(got') <= Len(sent) /\ \A i \in 1 .. Len(got') : got'[i] = sent[i]
  <2>1. \A i \in 1 .. k + 1 : i = k + 1 \/ i \in 1 .. k
    BY <1>1
  <2>2. k + 1 <= Len(sent)
    BY <1>1
  <2> QED
    BY <1>3, <1>5, <2>1, <2>2
<1>10. \E new : /\ Laid(new, stream', sent', Len(got'))
                /\ (~cut' => Len(stream') = new[Len(sent') - Len(got')])
  BY <1>3, <1>4, <1>7 DEF HoldsOthers
<1>11. /\ cut' \in BOOLEAN /\ failed' \in BOOLEAN /\ ~failed' /\ foreign' \in Nat /\ foreign' < Word
  BY DEF CodecInv
<1> QED
  BY <1>1, <1>3, <1>8, <1>9, <1>10, <1>11 DEF CodecInv

\* A read of it fails: the stream was cut or the payload is too long.
LEMMA FailCodecInv ==
  ASSUME CodecInv, Len(got) < Len(sent), cut \/ TooLong(sent[Len(got) + 1]), failed' = TRUE,
         UNCHANGED <<stream, got, sent, cut, foreign>>
  PROVE  CodecInv'
BY DEF CodecInv, TooLong

\* The next encoding is at the front of the stream unless the stream was cut.
LEMMA NextEncoding ==
  ASSUME CodecInv, Len(got) < Len(sent)
  PROVE  LET e == Encoding(sent[Len(got) + 1])
         IN Begins(stream, e) \/ (EndsIn(stream, e) /\ cut)
<1>1. /\ sent \in Seq(CodecItem) /\ stream \in Seq(Nat) /\ Len(got) \in Nat /\ cut \in BOOLEAN
  BY DEF CodecInv
<1>2. PICK at : /\ Laid(at, stream, sent, Len(got))
                /\ (~cut => Len(stream) = at[Len(sent) - Len(got)])
  BY DEF CodecInv
<1> QED
  BY <1>1, <1>2, LaidFirst

LEMMA ReadIntInv ==
  ASSUME CodecInv, ReadInt
  PROVE  CodecInv'
<1> DEFINE x == sent[Len(got) + 1]
           e == Encoding(x)
           u == ZigZagEncode(x.int)
<1>1. ~failed /\ Len(got) < Len(sent) /\ x.kind = "int"
  BY DEF ReadInt, Expects
<1>2. stream \in Seq(Nat) /\ Len(got) + 1 \in 1 .. Len(sent) /\ sent \in Seq(CodecItem)
  BY <1>1 DEF CodecInv
<1>3. x \in CodecItem
  BY <1>2
<1>4. x.int \in SignedWord /\ x = [kind |-> "int", int |-> x.int]
  BY <1>1, <1>3, ItemIs
<1>5. u \in 0 .. Word - 1 /\ ZigZagDecode(u) = x.int /\ IsVarint(e, u)
  BY <1>1, <1>3, <1>4, ZigZag, EncodingType
<1>6. Begins(stream, e) \/ (EndsIn(stream, e) /\ cut)
  BY <1>1, NextEncoding
<1> HIDE DEF e, u
<1>7. CASE Begins(stream, e)
  <2>1. VarintFits(stream) /\ VarintLen(stream) = Len(e) /\ VarintValue(stream) = u
    BY <1>2, <1>5, <1>7, WholeVarint
  <2>2. /\ got' = Append(got, [kind |-> "int", int |-> ZigZagDecode(VarintValue(stream))])
        /\ stream' = SubSeq(stream, VarintLen(stream) + 1, Len(stream))
        /\ UNCHANGED <<sent, cut, failed, foreign>>
    BY <2>1 DEF ReadInt
  <2>3. got' = Append(got, x)
    BY <1>4, <1>5, <2>1, <2>2
  <2>4. stream' = SubSeq(stream, Len(e) + 1, Len(stream))
    BY <2>1, <2>2
  <2>5. Len(e) \in Nat /\ Len(e) <= Len(stream)
    BY <1>3, <1>7, EncodingType DEF Begins, e
  <2> QED
    BY <1>1, <2>2, <2>3, <2>4, <2>5, ReadCodecInv DEF e
<1>8. CASE EndsIn(stream, e) /\ cut
  <2>1. ~VarintFits(stream)
    BY <1>2, <1>5, <1>8, PartVarint DEF IsVarint
  <2>2. failed' = TRUE /\ UNCHANGED <<stream, got, sent, cut, foreign>>
    BY <2>1 DEF ReadInt
  <2> QED
    BY <1>1, <1>8, <2>2, FailCodecInv
<1> QED
  BY <1>6, <1>7, <1>8

LEMMA ReadBytesInv ==
  ASSUME CodecInv, ReadBytes, LengthsFit
  PROVE  CodecInv'
<1> DEFINE x == sent[Len(got) + 1]
           e == Encoding(x)
           p == x.bytes
<1>1. ~failed /\ Len(got) < Len(sent) /\ x.kind = "bytes"
  BY DEF ReadBytes, Expects
<1>2. stream \in Seq(Nat) /\ Len(got) + 1 \in 1 .. Len(sent) /\ sent \in Seq(CodecItem)
  BY <1>1 DEF CodecInv
<1>3. x \in CodecItem
  BY <1>2
<1>4. x = [kind |-> "bytes", bytes |-> p] /\ p \in Seq(Nat) /\ e = LengthPrefixed(p)
  BY <1>1, <1>3, ItemIs, EncodingType
<1>5. Len(p) \in Nat /\ Limit \in Int /\ Len(e) = Len(p) + 1 /\ Len(p) < LenWord
  <2>1. Len(p) \in Nat /\ Len(LengthPrefixed(p)) = Len(p) + 1
    BY <1>4, InFrontIs, PrefixIs DEF LengthPrefixed
  <2>2. Len(p) < LenWord
    BY <1>1, <1>2 DEF LengthsFit
  <2>3. Limit \in Int
    BY CodecAssumption DEF Limit
  <2> QED
    BY <1>4, <2>1, <2>2, <2>3
<1>6. Begins(stream, e) \/ (EndsIn(stream, e) /\ cut)
  BY <1>1, NextEncoding
<1> HIDE DEF e, p
<1>7. CASE Begins(stream, e)
  <2>1. /\ Head(stream) = Len(p) /\ (ReadsPrefixed(stream) <=> Len(p) <= Limit)
        /\ SubSeq(stream, 2, Len(p) + 1) = p
    BY <1>2, <1>4, <1>5, <1>7, WholePrefixed
  <2>2. CASE Len(p) <= Limit
    <3>1. /\ got' = Append(got, [kind |-> "bytes", bytes |-> SubSeq(stream, 2, Head(stream) + 1)])
          /\ stream' = SubSeq(stream, Head(stream) + 2, Len(stream))
          /\ UNCHANGED <<sent, cut, failed, foreign>>
      BY <2>1, <2>2 DEF ReadBytes
    <3>2. got' = Append(got, x)
      BY <1>4, <2>1, <3>1
    <3>3. stream' = SubSeq(stream, Len(e) + 1, Len(stream))
      <4>1. Len(e) + 1 = Len(p) + 2
        BY <1>5
      <4> QED
        BY <2>1, <3>1, <4>1
    <3>4. Len(e) \in Nat /\ Len(e) <= Len(stream)
      BY <1>5, <1>7 DEF Begins
    <3> QED
      BY <1>1, <3>1, <3>2, <3>3, <3>4, ReadCodecInv DEF e
  <2>3. CASE ~(Len(p) <= Limit)
    <3>1. TooLong(x)
      BY <1>1, <1>5, <2>3 DEF TooLong, p
    <3>2. failed' = TRUE /\ UNCHANGED <<stream, got, sent, cut, foreign>>
      BY <2>1, <2>3 DEF ReadBytes
    <3> QED
      BY <1>1, <3>1, <3>2, FailCodecInv
  <2> QED
    BY <2>2, <2>3
<1>8. CASE EndsIn(stream, e) /\ cut
  <2>1. ~ReadsPrefixed(stream)
    BY <1>2, <1>4, <1>5, <1>8, PartPrefixed
  <2>2. failed' = TRUE /\ UNCHANGED <<stream, got, sent, cut, foreign>>
    BY <2>1 DEF ReadBytes
  <2> QED
    BY <1>1, <1>8, <2>2, FailCodecInv
<1> QED
  BY <1>6, <1>7, <1>8

LEMMA ForeignCodecInv ==
  ASSUME CodecInv, NEW b \in [1 .. MaxVarintLen -> 0 .. 2 * Group - 1], ReadForeign(b)
  PROVE  CodecInv'
<1>1. b \in Seq(Nat)
  <2>1. MaxVarintLen \in Nat /\ Group \in Nat
    BY CodecAssumption
  <2>2. \A i \in 1 .. MaxVarintLen : b[i] \in Nat
    BY <2>1
  <2> QED
    BY <2>1, <2>2
<1>2. VarintValue(b) \in Nat /\ VarintValue(b) < Word
  BY <1>1, ForeignFits DEF ReadForeign
<1> QED
  BY <1>2 DEF ReadForeign, CodecInv

\* Every step keeps the invariant while every length fits its prefix.
LEMMA NextCodecInv ==
  ASSUME CodecInv, LengthsFit, [CodecNext]_codecVars
  PROVE  CodecInv'
<1>1. CASE UNCHANGED codecVars
  BY <1>1 DEF codecVars, CodecInv
<1>2. ASSUME NEW x \in CodecItem, Send(x) PROVE CodecInv'
  BY <1>2, SendCodecInv
<1>3. ASSUME NEW n \in 0 .. Len(stream), Cut(n) PROVE CodecInv'
  BY <1>3, CutCodecInv
<1>4. ASSUME NEW b \in [1 .. MaxVarintLen -> 0 .. 2 * Group - 1], ReadForeign(b) PROVE CodecInv'
  BY <1>4, ForeignCodecInv
<1> QED
  BY <1>1, <1>2, <1>3, <1>4, ReadIntInv, ReadBytesInv DEF CodecNext

(***************************************************************************)
(* Once a payload of 4 GiB was sent, reads may return anything, and what   *)
(* is left of the invariant is this.                                       *)
(***************************************************************************)
LooseInv ==
  /\ sent \in Seq(CodecItem) /\ foreign \in Nat /\ foreign < Word
  /\ LengthsFit => CodecInv

LEMMA NextLooseInv == LooseInv /\ [CodecNext]_codecVars => LooseInv'
<1> SUFFICES ASSUME LooseInv, [CodecNext]_codecVars PROVE LooseInv'
  OBVIOUS
<1>1. CASE \E b \in [1 .. MaxVarintLen -> 0 .. 2 * Group - 1] : ReadForeign(b)
  <2>1. sent = <<>> /\ sent' = sent
    BY <1>1 DEF ReadForeign
  <2>2. LengthsFit /\ CodecInv
    BY <2>1 DEF LooseInv, LengthsFit
  <2> QED
    BY <2>2, NextCodecInv DEF LooseInv, CodecInv
<1>2. CASE (\E x \in CodecItem : Send(x)) \/ (\E n \in 0 .. Len(stream) : Cut(n))
              \/ ReadInt \/ ReadBytes \/ UNCHANGED codecVars
  <2>1. foreign' = foreign /\ (sent' = sent \/ \E x \in CodecItem : sent' = Append(sent, x))
    BY <1>2 DEF Send, Cut, ReadInt, ReadBytes, codecVars
  <2>2. sent' \in Seq(CodecItem) /\ foreign' \in Nat /\ foreign' < Word
    BY <2>1 DEF LooseInv
  <2>3. ASSUME LengthsFit' PROVE LengthsFit
    <3>1. Len(sent) \in Nat /\ sent \in Seq(CodecItem)
      BY DEF LooseInv
    <3>2. Len(sent) <= Len(sent') /\ \A i \in 1 .. Len(sent) : sent'[i] = sent[i]
      BY <2>1, <3>1
    <3>3. \A i \in 1 .. Len(sent) : i \in 1 .. Len(sent')
      BY <2>2, <3>1, <3>2
    <3> QED
      BY <2>3, <3>2, <3>3 DEF LengthsFit
  <2> QED
    BY <2>2, <2>3, NextCodecInv DEF LooseInv
<1> QED
  BY <1>1, <1>2 DEF CodecNext

(***************************************************************************)
(* What is read is what was sent, from a stream cut anywhere, reads fail   *)
(* only for a cut or a payload above the limit, and no varint beyond the   *)
(* word is accepted: for words of 64 bits and varints of ten bytes as for  *)
(* any other base and length, as long as the length of every payload fits  *)
(* the prefix (ReadVarint, ReadLengthPrefixed).                            *)
(***************************************************************************)
THEOREM CodecAlwaysRoundTrips == CodecSpec => []CodecRoundTrip
<1>1. CodecInv => ReadsAreExact /\ ReadsFailForCause
  <2> SUFFICES ASSUME CodecInv PROVE ReadsAreExact /\ ReadsFailForCause
    OBVIOUS
  <2>1. ReadsAreExact
    <3>1. /\ got \in Seq(CodecItem) /\ sent \in Seq(CodecItem) /\ Len(got) <= Len(sent)
          /\ \A i \in 1 .. Len(got) : got[i] = sent[i]
      BY DEF CodecInv
    <3>2. SubSeq(got, 1, Len(got)) = SubSeq(sent, 1, Len(got))
      BY <3>1
    <3> QED
      BY <3>1, <3>2 DEF ReadsAreExact, IsPrefix
  <2>2. ReadsFailForCause
    BY DEF CodecInv, ReadsFailForCause, TooLong
  <2> QED
    BY <2>1, <2>2
<1>2. LooseInv => CodecRoundTrip
  BY <1>1 DEF LooseInv, CodecRoundTrip, VarintFitsWord
<1>3. CodecInit => LooseInv
  BY InitCodecInv DEF LooseInv, CodecInv
<1> QED
  BY NextLooseInv, <1>2, <1>3, PTL DEF CodecSpec

(***************************************************************************)
(* The command line.  The flag words of a line, in front of the others,    *)
(* are read to the last db flag of the line, for lines of any length       *)
(* (FlagsMayComeAnywhere).                                                 *)
(***************************************************************************)

\* Which words there are.
IsPlain(w) == w.is = "plain" /\ ~w.dash /\ ~w.eq /\ w \notin {Db, OtherFlag, Dash, DashDash}

HasValue(w) ==
  w.is = "db" /\ w.dash /\ w.eq /\ w.raw = "-" /\ w \notin {Db, OtherFlag, Dash, DashDash}

LEMMA WordKinds ==
  ASSUME NEW w \in Words
  PROVE  \/ IsPlain(w) /\ w.raw \in PlainWord
         \/ HasValue(w) /\ w.value \in PlainWord
         \/ w \in {Db, OtherFlag, Dash, DashDash}
<1>1. ASSUME NEW x \in PlainWord PROVE IsPlain(Plain(x)) /\ Plain(x).raw = x
  BY DEF Plain, Db, OtherFlag, Dash, DashDash, IsPlain
<1>2. ASSUME NEW x \in PlainWord PROVE HasValue(DbIs(x)) /\ DbIs(x).value = x
  BY DEF DbIs, Db, OtherFlag, Dash, DashDash, HasValue
<1>3. CASE \E x \in PlainWord : w = Plain(x)
  BY <1>1, <1>3
<1>4. CASE \E x \in PlainWord : w = DbIs(x)
  BY <1>2, <1>4
<1> QED
  BY <1>3, <1>4 DEF Words

LEMMA DashedWords ==
  /\ Db.dash /\ ~Db.eq /\ Db.is = "db" /\ Db.raw = "-" /\ Db \notin {OtherFlag, Dash, DashDash}
  /\ OtherFlag.dash /\ ~OtherFlag.eq /\ OtherFlag.is = "other" /\ OtherFlag.raw = "-"
  /\ OtherFlag \notin {Db, Dash, DashDash}
  /\ Dash.dash /\ ~Dash.eq /\ Dash.is = "dash" /\ Dash.raw = "-" /\ Dash \notin {Db, OtherFlag, DashDash}
  /\ DashDash.dash /\ ~DashDash.eq /\ DashDash.is = "end" /\ DashDash.raw = "-"
  /\ DashDash \notin {Db, OtherFlag, Dash}
BY DEF Db, OtherFlag, Dash, DashDash

(***************************************************************************)
(* The loop that picks the words at the places in is, each of which is in  *)
(* T: f[n] is what it has after n words.                                   *)
(***************************************************************************)
Picks(f, s, is) ==
  f = [n \in 0 .. Len(s) |->
         IF n = 0 THEN <<>> ELSE IF n \in is THEN Append(f[n - 1], s[n]) ELSE f[n - 1]]

Picked(f, s, is, T) ==
  /\ f \in [0 .. Len(s) -> Seq(T)] /\ f[0] = <<>>
  /\ \A n \in 1 .. Len(s) : /\ n \in is => f[n] = Append(f[n - 1], s[n])
                            /\ n \notin is => f[n] = f[n - 1]

LEMMA PickedExists ==
  ASSUME NEW T, NEW W, NEW s \in Seq(W), NEW is, \A i \in 1 .. Len(s) : i \in is => s[i] \in T
  PROVE  \E f : Picked(f, s, is, T)
<1> DEFINE q == Len(s)
           S == Seq(T)
           h == [p \in S \X (1 .. q) |-> IF p[2] \in is THEN Append(p[1], s[p[2]]) ELSE p[1]]
<1>1. q \in Nat /\ <<>> \in S
  OBVIOUS
<1>2. ASSUME NEW p \in S \X (1 .. q) PROVE (IF p[2] \in is THEN Append(p[1], s[p[2]]) ELSE p[1]) \in S
  <2>1. p[1] \in Seq(T) /\ p[2] \in 1 .. q
    OBVIOUS
  <2>2. CASE p[2] \in is
    <3>1. s[p[2]] \in T
      BY <2>1, <2>2
    <3> QED
      BY <2>1, <2>2, <3>1
  <2> QED
    BY <2>1, <2>2
<1>3. h \in [S \X (1 .. q) -> S]
  BY <1>2
<1>4. \A x \in S, n \in 1 .. q : h[<<x, n>>] = IF n \in is THEN Append(x, s[n]) ELSE x
  OBVIOUS
<1> HIDE DEF h, q, S
<1>5. PICK f : Loop(f, S, <<>>, h, q)
  BY <1>1, <1>3, LoopExists
<1>6. f \in [0 .. q -> S] /\ f[0] = <<>> /\ \A n \in 1 .. q : f[n] = h[<<f[n - 1], n>>]
  BY <1>5 DEF Loop
<1>7. ASSUME NEW n \in 1 .. q
      PROVE  (n \in is => f[n] = Append(f[n - 1], s[n])) /\ (n \notin is => f[n] = f[n - 1])
  <2>1. f[n - 1] \in S
    <3>1. n - 1 \in 0 .. q
      BY <1>1
    <3> QED
      BY <1>6, <3>1
  <2>2. f[n] = IF n \in is THEN Append(f[n - 1], s[n]) ELSE f[n - 1]
    BY <1>4, <1>6, <2>1
  <2> QED
    BY <2>2
<1>8. Picked(f, s, is, T)
  BY <1>6, <1>7 DEF Picked, q, S
<1> QED
  BY <1>8

\* What Chosen gives is what the loop has at the end.
ChosenBy(f, s, is, T) == Picked(f, s, is, T) /\ Chosen(s, is) = f[Len(s)]

LEMMA PickedPicks ==
  ASSUME NEW T, NEW W, NEW s \in Seq(W), NEW is, NEW f, Picked(f, s, is, T)
  PROVE  Picks(f, s, is)
<1>1. Len(s) \in Nat
  OBVIOUS
<1>2. ASSUME NEW n \in 0 .. Len(s)
      PROVE  f[n] = IF n = 0 THEN <<>> ELSE IF n \in is THEN Append(f[n - 1], s[n]) ELSE f[n - 1]
  <2>1. n = 0 \/ (n # 0 /\ n \in 1 .. Len(s))
    BY <1>1
  <2> QED
    BY <2>1 DEF Picked
<1>3. f = [n \in 0 .. Len(s) |-> f[n]]
  BY DEF Picked
<1> QED
  BY <1>2, <1>3 DEF Picks

\* Any two loops agree.
LEMMA PicksAgree ==
  ASSUME NEW T, NEW W, NEW s \in Seq(W), NEW is, NEW f, Picked(f, s, is, T), NEW g, Picks(g, s, is)
  PROVE  g = f
<1> DEFINE Wrong == {n \in 0 .. Len(s) : g[n] # f[n]}
<1>1. Len(s) \in Nat
  OBVIOUS
<1>2. \A n \in 0 .. Len(s) :
        g[n] = IF n = 0 THEN <<>> ELSE IF n \in is THEN Append(g[n - 1], s[n]) ELSE g[n - 1]
  BY DEF Picks
<1>3. g = [n \in 0 .. Len(s) |-> g[n]] /\ f = [n \in 0 .. Len(s) |-> f[n]]
  <2>1. DOMAIN g = 0 .. Len(s) /\ g = [n \in DOMAIN g |-> g[n]]
    BY DEF Picks
  <2> QED
    BY <2>1 DEF Picked
<1>4. Wrong = {}
  <2> SUFFICES ASSUME Wrong # {} PROVE FALSE
    OBVIOUS
  <2>1. PICK n \in Wrong : \A x \in Wrong : n <= x
    <3>1. Wrong \in SUBSET Nat
      BY <1>1
    <3> HIDE DEF Wrong
    <3> QED BY <3>1, LeastExists
  <2>2. n \in 0 .. Len(s) /\ g[n] # f[n]
    OBVIOUS
  <2>3. n # 0
    BY <1>2, <2>2 DEF Picked
  <2>4. n \in 1 .. Len(s) /\ n - 1 \in 0 .. Len(s) /\ ~(n <= n - 1)
    BY <1>1, <2>2, <2>3
  <2>5. g[n - 1] = f[n - 1]
    BY <2>1, <2>4
  <2>6. g[n] = IF n \in is THEN Append(f[n - 1], s[n]) ELSE f[n - 1]
    BY <1>2, <2>2, <2>3, <2>5
  <2> QED
    BY <2>2, <2>4, <2>6 DEF Picked
<1>5. \A n \in 0 .. Len(s) : g[n] = f[n]
  BY <1>4
<1> HIDE DEF Wrong
<1> QED
  BY <1>3, <1>5

LEMMA ChosenIs ==
  ASSUME NEW T, NEW W, NEW s \in Seq(W), NEW is, \A i \in 1 .. Len(s) : i \in is => s[i] \in T
  PROVE  \E f : ChosenBy(f, s, is, T)
<1> DEFINE g == CHOOSE g : g = [n \in 0 .. Len(s) |->
                 IF n = 0 THEN <<>> ELSE IF n \in is THEN Append(g[n - 1], s[n]) ELSE g[n - 1]]
<1>1. Chosen(s, is) = g[Len(s)]
  BY DEF Chosen
<1>2. PICK f : Picked(f, s, is, T)
  BY PickedExists
<1>3. Picks(g, s, is)
  <2>1. Picks(f, s, is)
    BY <1>2, PickedPicks
  <2> QED
    BY <2>1 DEF Picks
<1> HIDE DEF g
<1>4. g = f
  BY <1>2, <1>3, PicksAgree
<1> QED
  BY <1>1, <1>2, <1>4 DEF ChosenBy

(***************************************************************************)
(* What the loop has after k words begins what it has in the end, and the  *)
(* last of it is the word at k if that is one to pick.                     *)
(***************************************************************************)
PlacedAt(f, s, is, k) ==
  /\ Len(f[k]) \in Nat /\ Len(f[k]) <= Len(f[Len(s)])
  /\ k \in 1 .. Len(s) =>
       /\ k \in is => Len(f[k]) = Len(f[k - 1]) + 1 /\ f[Len(s)][Len(f[k])] = s[k]
       /\ k \notin is => f[k] = f[k - 1]

LEMMA PickedPlaces ==
  ASSUME NEW T, NEW W, NEW s \in Seq(W), NEW is, NEW f, Picked(f, s, is, T)
  PROVE  \A k \in 0 .. Len(s) : PlacedAt(f, s, is, k)
<1> DEFINE q == Len(s)
           StartsBy(k, n) == Len(f[k]) <= Len(f[n]) /\ \A j \in 1 .. Len(f[k]) : f[n][j] = f[k][j]
           Wrong == {n \in 0 .. q : \E k \in 0 .. n : ~StartsBy(k, n)}
<1>1. q \in Nat /\ \A n \in 0 .. q : f[n] \in Seq(T) /\ Len(f[n]) \in Nat
  BY DEF Picked
<1>2. ASSUME NEW n \in 1 .. q, n \in is
      PROVE  /\ Len(f[n]) = Len(f[n - 1]) + 1 /\ f[n][Len(f[n])] = s[n]
             /\ \A j \in 1 .. Len(f[n - 1]) : f[n][j] = f[n - 1][j]
  <2>1. n - 1 \in 0 .. q
    BY <1>1
  <2>2. f[n - 1] \in Seq(T) /\ f[n] = Append(f[n - 1], s[n])
    BY <1>1, <1>2, <2>1 DEF Picked
  <2> HIDE DEF q
  <2> QED
    BY <2>2
<1>3. ASSUME NEW n \in 1 .. q, n \notin is PROVE f[n] = f[n - 1]
  BY <1>3 DEF Picked
<1> HIDE DEF q
<1>4. Wrong = {}
  <2> SUFFICES ASSUME Wrong # {} PROVE FALSE
    OBVIOUS
  <2>1. PICK n \in Wrong : \A x \in Wrong : n <= x
    <3>1. Wrong \in SUBSET Nat
      BY <1>1
    <3> HIDE DEF Wrong
    <3> QED BY <3>1, LeastExists
  <2>2. PICK k \in 0 .. n : ~StartsBy(k, n)
    BY <2>1
  <2>3. n \in 0 .. q
    BY <2>1
  <2>4. k # n
    <3>1. StartsBy(n, n)
      BY <1>1, <2>3
    <3> HIDE DEF StartsBy
    <3> QED
      BY <2>2, <3>1
  <2>5. n \in 1 .. q /\ k \in 0 .. n - 1 /\ n - 1 \in 0 .. q /\ ~(n <= n - 1) /\ k \in 0 .. q
    BY <1>1, <2>2, <2>3, <2>4
  <2>6. StartsBy(k, n - 1)
    <3> HIDE DEF StartsBy
    <3> QED
      BY <2>1, <2>5
  <2>7. StartsBy(n - 1, n)
    <3>1. CASE n \in is
      <4>1. Len(f[n]) = Len(f[n - 1]) + 1 /\ \A j \in 1 .. Len(f[n - 1]) : f[n][j] = f[n - 1][j]
        BY <1>2, <2>5, <3>1
      <4> QED
        BY <1>1, <2>5, <4>1
    <3>2. CASE n \notin is
      BY <1>1, <1>3, <2>5, <3>2
    <3> QED
      BY <3>1, <3>2
  <2>8. Len(f[k]) \in Nat /\ Len(f[n - 1]) \in Nat /\ Len(f[n]) \in Nat
    BY <1>1, <2>3, <2>5
  <2>9. Len(f[k]) <= Len(f[n])
    BY <2>6, <2>7, <2>8
  <2>10. ASSUME NEW j \in 1 .. Len(f[k]) PROVE f[n][j] = f[k][j]
    <3>1. j \in 1 .. Len(f[n - 1])
      BY <2>6, <2>8
    <3> QED
      BY <2>6, <2>7, <3>1
  <2> QED
    BY <2>2, <2>9, <2>10
<1>5. ASSUME NEW k \in 0 .. q PROVE StartsBy(k, q)
  <2>1. q \in 0 .. q /\ q \notin Wrong
    BY <1>1, <1>4
  <2> HIDE DEF StartsBy
  <2> QED
    BY <2>1
<1> HIDE DEF Wrong
<1>6. ASSUME NEW k \in 1 .. q, k \in is PROVE f[q][Len(f[k])] = s[k]
  <2>1. k \in 0 .. q /\ k - 1 \in 0 .. q
    BY <1>1
  <2>2. Len(f[k]) = Len(f[k - 1]) + 1 /\ f[k][Len(f[k])] = s[k] /\ Len(f[k - 1]) \in Nat
    BY <1>1, <1>2, <1>6, <2>1
  <2>3. Len(f[k]) \in 1 .. Len(f[k])
    BY <2>2
  <2> QED
    BY <1>5, <2>1, <2>2, <2>3
<1>7. ASSUME NEW k \in 0 .. q
      PROVE  /\ Len(f[k]) \in Nat /\ Len(f[k]) <= Len(f[q])
             /\ k \in 1 .. q =>
                  /\ k \in is => Len(f[k]) = Len(f[k - 1]) + 1 /\ f[q][Len(f[k])] = s[k]
                  /\ k \notin is => f[k] = f[k - 1]
  <2>1. Len(f[k]) \in Nat /\ Len(f[k]) <= Len(f[q])
    BY <1>1, <1>5
  <2> HIDE DEF StartsBy
  <2> QED
    BY <2>1, <1>2, <1>3, <1>6
<1> QED
  BY <1>7 DEF PlacedAt, q

(***************************************************************************)
(* flag.Parse, word by word.                                               *)
(***************************************************************************)
ParseState == [mode : {"flag", "value", "rest", "error"}, db : {"", "-"} \cup PlainWord, next : Nat]

LEMMA ParseReads ==
  ASSUME NEW p \in ParseState, NEW w \in Words, NEW n
  PROVE  /\ p.mode = "value" => ParseWord(p, w, n) = Parsing("flag", w.raw, n + 1)
         /\ p.mode \in {"rest", "error"} => ParseWord(p, w, n) = p
         /\ p.mode = "flag" =>
              /\ IsPlain(w) \/ w = Dash => ParseWord(p, w, n) = Parsing("rest", p.db, n)
              /\ w = DashDash => ParseWord(p, w, n) = Parsing("rest", p.db, n + 1)
              /\ w = OtherFlag => ParseWord(p, w, n) = Parsing("error", p.db, n)
              /\ HasValue(w) => ParseWord(p, w, n) = Parsing("flag", w.value, n + 1)
              /\ w = Db => ParseWord(p, w, n) = Parsing("value", p.db, n)
<1>1. CASE p.mode = "value"
  BY <1>1 DEF ParseWord
<1>2. CASE p.mode \in {"rest", "error"}
  BY <1>2 DEF ParseWord
<1>3. CASE p.mode = "flag"
  <2>1. ParseWord(p, w, n) = ParseFlag(p, w, n)
    BY <1>3 DEF ParseWord
  <2>2. ASSUME IsPlain(w) \/ w = Dash PROVE ParseFlag(p, w, n) = Parsing("rest", p.db, n)
    <3>1. ~w.dash \/ w = Dash
      BY <2>2 DEF IsPlain
    <3>2. w.is \in {"plain", "dash"}
      <4>1. CASE IsPlain(w)
        BY <4>1 DEF IsPlain
      <4>2. CASE w = Dash
        BY <4>2, DashedWords
      <4> QED
        BY <2>2, <4>1, <4>2
    <3> QED
      BY <3>1, <3>2 DEF ParseFlag
  <2>3. ASSUME w = DashDash PROVE ParseFlag(p, w, n) = Parsing("rest", p.db, n + 1)
    BY <2>3, DashedWords DEF ParseFlag
  <2>4. ASSUME w = OtherFlag PROVE ParseFlag(p, w, n) = Parsing("error", p.db, n)
    BY <2>4, DashedWords DEF ParseFlag
  <2>5. ASSUME HasValue(w) PROVE ParseFlag(p, w, n) = Parsing("flag", w.value, n + 1)
    BY <2>5 DEF ParseFlag, HasValue
  <2>6. ASSUME w = Db PROVE ParseFlag(p, w, n) = Parsing("value", p.db, n)
    BY <2>6, DashedWords DEF ParseFlag
  <2> QED
    BY <1>3, <2>1, <2>2, <2>3, <2>4, <2>5, <2>6
<1> QED
  BY <1>1, <1>2, <1>3 DEF ParseState

LEMMA ParseWordType ==
  ASSUME NEW p \in ParseState, NEW w \in Words, NEW n \in Nat
  PROVE  ParseWord(p, w, n) \in ParseState
<1>1. p.db \in {"", "-"} \cup PlainWord /\ n + 1 \in Nat
  <2>1. p.db \in {"", "-"} \cup PlainWord
    BY DEF ParseState
  <2>2. n + 1 \in Nat
    OBVIOUS
  <2> QED
    BY <2>1, <2>2, Zenon
<1>2. w.raw \in {"", "-"} \cup PlainWord /\ (HasValue(w) => w.value \in PlainWord)
  <2>1. CASE IsPlain(w) /\ w.raw \in PlainWord
    BY <2>1 DEF IsPlain, HasValue
  <2>2. CASE HasValue(w) /\ w.value \in PlainWord
    BY <2>2 DEF HasValue
  <2>3. CASE w \in {Db, OtherFlag, Dash, DashDash}
    BY <2>3, DashedWords DEF HasValue
  <2> QED
    BY <2>1, <2>2, <2>3, WordKinds
<1>3. \A mode \in {"flag", "value", "rest", "error"}, db \in {"", "-"} \cup PlainWord, next \in Nat :
        Parsing(mode, db, next) \in ParseState
  BY DEF Parsing, ParseState
<1>4. CASE p.mode = "value"
  <2>1. ParseWord(p, w, n) = Parsing("flag", w.raw, n + 1)
    BY <1>4, ParseReads
  <2> QED
    BY <1>1, <1>2, <1>3, <2>1
<1>5. CASE p.mode \in {"rest", "error"}
  BY <1>5, ParseReads
<1>6. CASE p.mode = "flag"
  <2>1. \/ ParseWord(p, w, n) = Parsing("rest", p.db, n)
        \/ ParseWord(p, w, n) = Parsing("rest", p.db, n + 1)
        \/ ParseWord(p, w, n) = Parsing("error", p.db, n)
        \/ HasValue(w) /\ ParseWord(p, w, n) = Parsing("flag", w.value, n + 1)
        \/ ParseWord(p, w, n) = Parsing("value", p.db, n)
    BY <1>6, ParseReads, WordKinds
  <2> QED
    BY <1>1, <1>2, <1>3, <2>1
<1> QED
  BY <1>4, <1>5, <1>6 DEF ParseState

Parses(g, t) ==
  g = [n \in 0 .. Len(t) |->
         IF n = 0 THEN Parsing("flag", "", 1) ELSE ParseWord(g[n - 1], t[n], n)]

ParsedBy(g, t) ==
  /\ g \in [0 .. Len(t) -> ParseState] /\ g[0] = Parsing("flag", "", 1)
  /\ \A n \in 1 .. Len(t) : g[n] = ParseWord(g[n - 1], t[n], n)

LEMMA ParsedExists == ASSUME NEW t \in Seq(Words) PROVE \E g : ParsedBy(g, t)
<1> DEFINE q == Len(t)
           h == [p \in ParseState \X (1 .. q) |-> ParseWord(p[1], t[p[2]], p[2])]
           a == Parsing("flag", "", 1)
<1>1. q \in Nat /\ a \in ParseState /\ \A n \in 1 .. q : t[n] \in Words /\ n \in Nat
  BY DEF Parsing, ParseState
<1> HIDE DEF q, a
<1>2. ASSUME NEW p \in ParseState \X (1 .. q) PROVE ParseWord(p[1], t[p[2]], p[2]) \in ParseState
  <2>1. p[1] \in ParseState /\ p[2] \in 1 .. q
    OBVIOUS
  <2> QED
    BY <1>1, <2>1, ParseWordType
<1>3. h \in [ParseState \X (1 .. q) -> ParseState]
  BY <1>2
<1>4. \A x \in ParseState, n \in 1 .. q : h[<<x, n>>] = ParseWord(x, t[n], n)
  OBVIOUS
<1> HIDE DEF h
<1>5. PICK g : Loop(g, ParseState, a, h, q)
  BY <1>1, <1>3, LoopExists
<1>6. g \in [0 .. q -> ParseState] /\ g[0] = a /\ \A n \in 1 .. q : g[n] = h[<<g[n - 1], n>>]
  BY <1>5 DEF Loop
<1>7. ASSUME NEW n \in 1 .. q PROVE g[n] = ParseWord(g[n - 1], t[n], n)
  <2>1. n - 1 \in 0 .. q
    BY <1>1
  <2> QED
    BY <1>4, <1>6, <2>1
<1>8. ParsedBy(g, t)
  BY <1>6, <1>7 DEF ParsedBy, q, a
<1> QED
  BY <1>8

LEMMA ParsesTyped == ASSUME NEW t \in Seq(Words), NEW g, Parses(g, t) PROVE ParsedBy(g, t)
<1> DEFINE Wrong == {n \in 0 .. Len(t) : g[n] \notin ParseState}
<1>1. Len(t) \in Nat /\ \A n \in 1 .. Len(t) : t[n] \in Words
  OBVIOUS
<1>2. \A n \in 0 .. Len(t) :
        g[n] = IF n = 0 THEN Parsing("flag", "", 1) ELSE ParseWord(g[n - 1], t[n], n)
  BY DEF Parses
<1>3. DOMAIN g = 0 .. Len(t) /\ g = [n \in DOMAIN g |-> g[n]]
  BY DEF Parses
<1>4. g[0] = Parsing("flag", "", 1) /\ \A n \in 1 .. Len(t) : g[n] = ParseWord(g[n - 1], t[n], n)
  <2>1. 0 \in 0 .. Len(t) /\ \A n \in 1 .. Len(t) : n \in 0 .. Len(t) /\ n # 0
    BY <1>1
  <2> QED
    BY <1>2, <2>1
<1>5. Wrong = {}
  <2> SUFFICES ASSUME Wrong # {} PROVE FALSE
    OBVIOUS
  <2>1. PICK n \in Wrong : \A x \in Wrong : n <= x
    <3>1. Wrong \in SUBSET Nat
      BY <1>1
    <3> HIDE DEF Wrong
    <3> QED BY <3>1, LeastExists
  <2>2. n \in 0 .. Len(t) /\ g[n] \notin ParseState
    OBVIOUS
  <2>3. n # 0
    <3>1. Parsing("flag", "", 1) \in ParseState
      BY DEF Parsing, ParseState
    <3> QED
      BY <1>4, <2>2, <3>1
  <2>4. n \in 1 .. Len(t) /\ n - 1 \in 0 .. Len(t) /\ ~(n <= n - 1) /\ n \in Nat
    BY <1>1, <2>2, <2>3
  <2>5. g[n - 1] \in ParseState
    BY <2>1, <2>4
  <2> QED
    BY <1>1, <1>4, <2>2, <2>4, <2>5, ParseWordType
<1>6. \A n \in 0 .. Len(t) : g[n] \in ParseState
  BY <1>5
<1> HIDE DEF Wrong
<1>7. g \in [0 .. Len(t) -> ParseState]
  BY <1>3, <1>6
<1> QED
  BY <1>4, <1>7 DEF ParsedBy

\* What Parse gives is what it has at the end.
ParseBy(g, t) == ParsedBy(g, t) /\ Parse(t) = g[Len(t)]

LEMMA ParseIs == ASSUME NEW t \in Seq(Words) PROVE \E g : ParseBy(g, t)
<1> DEFINE g == CHOOSE g : g = [n \in 0 .. Len(t) |->
                 IF n = 0 THEN Parsing("flag", "", 1) ELSE ParseWord(g[n - 1], t[n], n)]
<1>1. Parse(t) = g[Len(t)]
  BY DEF Parse
<1>2. PICK f : ParsedBy(f, t)
  BY ParsedExists
<1>3. Parses(f, t)
  <2>1. Len(t) \in Nat
    OBVIOUS
  <2>2. ASSUME NEW n \in 0 .. Len(t)
        PROVE  f[n] = IF n = 0 THEN Parsing("flag", "", 1) ELSE ParseWord(f[n - 1], t[n], n)
    <3>1. n = 0 \/ (n # 0 /\ n \in 1 .. Len(t))
      BY <2>1
    <3> QED
      BY <1>2, <3>1 DEF ParsedBy
  <2>3. f = [n \in 0 .. Len(t) |-> f[n]]
    BY <1>2 DEF ParsedBy
  <2> QED
    BY <2>2, <2>3 DEF Parses
<1>4. Parses(g, t)
  BY <1>3 DEF Parses
<1> HIDE DEF g
<1>5. ParsedBy(g, t)
  BY <1>4, ParsesTyped
<1> QED
  BY <1>1, <1>5 DEF ParseBy

\* After an error, or the first word that is not a flag, nothing changes.
LEMMA ParseEnds ==
  ASSUME NEW t \in Seq(Words), NEW g, ParsedBy(g, t), NEW a \in 0 .. Len(t),
         g[a].mode \in {"rest", "error"}
  PROVE  g[Len(t)] = g[a]
<1> DEFINE Wrong == {n \in a .. Len(t) : g[n] # g[a]}
<1>1. Len(t) \in Nat /\ a \in Nat /\ a <= Len(t) /\ \A n \in 1 .. Len(t) : t[n] \in Words
  OBVIOUS
<1>2. Wrong = {}
  <2> SUFFICES ASSUME Wrong # {} PROVE FALSE
    OBVIOUS
  <2>1. PICK n \in Wrong : \A x \in Wrong : n <= x
    <3>1. Wrong \in SUBSET Nat
      BY <1>1
    <3> HIDE DEF Wrong
    <3> QED BY <3>1, LeastExists
  <2>2. n \in a .. Len(t) /\ g[n] # g[a]
    OBVIOUS
  <2>3. n # a
    BY <2>2
  <2>4. n \in 1 .. Len(t) /\ n - 1 \in a .. Len(t) /\ ~(n <= n - 1) /\ n - 1 \in 0 .. Len(t)
    BY <1>1, <2>2, <2>3
  <2>5. g[n - 1] = g[a]
    BY <2>1, <2>4
  <2>6. g[n] = ParseWord(g[n - 1], t[n], n) /\ g[n - 1] \in ParseState /\ t[n] \in Words
    BY <1>1, <2>4 DEF ParsedBy
  <2>7. ParseWord(g[n - 1], t[n], n) = g[n - 1]
    BY <2>5, <2>6, ParseReads
  <2> QED
    BY <2>2, <2>5, <2>6, <2>7
<1>3. Len(t) \in a .. Len(t) /\ Len(t) \notin Wrong
  BY <1>1, <1>2
<1> QED
  BY <1>3

(***************************************************************************)
(* A line that the property speaks of, its flag words f and the parse g of *)
(* the reordered line t.                                                   *)
(***************************************************************************)
Clean(k) == \A i \in 1 .. k : args[i] # OtherFlag /\ args[i] # Dash

\* d is what the last db flag among the first k words names.
Names(k, d) ==
  \/ d = "" /\ \A v \in DbValues : v[1] > k
  \/ \E v \in DbValues : v[1] <= k /\ v[2] = d /\ \A x \in DbValues : x[1] <= k => x[1] <= v[1]

\* What the parse p has come to, when it has read a words of t.
Reading(p, a, k) ==
  /\ Names(k, p.db)
  /\ IF k # 0 /\ args[k] = Db THEN p.mode = "value" ELSE p.mode = "flag" /\ p.next = a + 1

Stopped(p, t) == p.mode = "error" \/ (p.mode = "rest" /\ p.next \in 1 .. Len(t) /\ t[p.next] = Dash)

\* The words whose place gives a db value.
LEMMA DbPlaces ==
  ASSUME args \in Seq(Words), WellFormed
  PROVE  /\ \A v \in DbValues : v[1] \in 1 .. Len(args)
         /\ \A k \in 1 .. Len(args) :
              /\ IsPlain(args[k]) /\ IsDbValue(k) =>
                   <<k, args[k].raw>> \in DbValues /\ \A v \in DbValues : v[1] = k => v[2] = args[k].raw
              /\ HasValue(args[k]) =>
                   /\ ~IsDbValue(k) /\ <<k, args[k].value>> \in DbValues
                   /\ \A v \in DbValues : v[1] = k => v[2] = args[k].value
              /\ (~args[k].eq /\ ~IsDbValue(k)) => \A v \in DbValues : v[1] # k
<1> DEFINE q == Len(args)
<1>1. q \in Nat
  OBVIOUS
<1>2. ASSUME NEW v \in DbValues
      PROVE  /\ v[1] \in 1 .. q
             /\ \/ args[v[1]].eq /\ v[2] = args[v[1]].value
                \/ IsDbValue(v[1]) /\ v[2] = args[v[1]].raw
  BY DEF DbValues
<1>3. ASSUME NEW k \in 1 .. q, args[k].eq PROVE <<k, args[k].value>> \in DbValues
  BY <1>3 DEF DbValues
<1>4. ASSUME NEW k \in 1 .. q, IsDbValue(k) PROVE <<k, args[k].raw>> \in DbValues
  BY <1>4 DEF DbValues
<1>5. ASSUME NEW k \in 1 .. q, IsDbValue(k) PROVE ~args[k].dash
  <2>1. k > 1 /\ args[k - 1] = Db
    BY <1>5 DEF IsDbValue
  <2>2. k - 1 \in 1 .. q /\ (k - 1) + 1 = k
    BY <1>1, <2>1
  <2>3. \A i \in 1 .. q : args[i] = Db => ~args[i + 1].dash
    BY DEF WellFormed
  <2>4. ~args[(k - 1) + 1].dash
    BY <2>1, <2>2, <2>3
  <2> QED
    BY <2>2, <2>4
<1> HIDE DEF q
<1>6. ASSUME NEW k \in 1 .. q, IsPlain(args[k]), IsDbValue(k)
      PROVE  <<k, args[k].raw>> \in DbValues /\ \A v \in DbValues : v[1] = k => v[2] = args[k].raw
  BY <1>2, <1>4, <1>6 DEF IsPlain
<1>7. ASSUME NEW k \in 1 .. q, HasValue(args[k])
      PROVE  /\ ~IsDbValue(k) /\ <<k, args[k].value>> \in DbValues
             /\ \A v \in DbValues : v[1] = k => v[2] = args[k].value
  BY <1>2, <1>3, <1>5, <1>7 DEF HasValue
<1>8. ASSUME NEW k \in 1 .. q, ~args[k].eq, ~IsDbValue(k) PROVE \A v \in DbValues : v[1] # k
  BY <1>2, <1>8
<1> QED
  BY <1>2, <1>6, <1>7, <1>8 DEF q

\* The name after one word more.
LEMMA NamesKept ==
  ASSUME args \in Seq(Words), WellFormed, NEW k \in 1 .. Len(args), NEW d, Names(k - 1, d),
         ~args[k].eq, ~IsDbValue(k)
  PROVE  Names(k, d)
<1>1. Len(args) \in Nat /\ \A v \in DbValues : v[1] \in 1 .. Len(args) /\ v[1] # k
  <2>1. \A v \in DbValues : v[1] \in 1 .. Len(args)
    BY DbPlaces
  <2>2. \A v \in DbValues : v[1] # k
    BY DbPlaces
  <2> QED
    BY <2>1, <2>2
<1>2. k \in Nat /\ \A i \in 1 .. Len(args) : i # k => (i <= k <=> i <= k - 1) /\ (i > k <=> i > k - 1)
  BY <1>1
<1>3. \A v \in DbValues : (v[1] <= k <=> v[1] <= k - 1) /\ (v[1] > k <=> v[1] > k - 1)
  BY <1>1, <1>2
<1> QED
  BY <1>3 DEF Names

LEMMA NamesNew ==
  ASSUME args \in Seq(Words), WellFormed, NEW k \in 1 .. Len(args), NEW d, <<k, d>> \in DbValues
  PROVE  Names(k, d)
<1> DEFINE v == <<k, d>>
<1>1. v \in DbValues /\ v[1] <= k /\ v[2] = d /\ \A x \in DbValues : x[1] <= k => x[1] <= v[1]
  OBVIOUS
<1> HIDE DEF v
<1> QED
  BY <1>1 DEF Names

\* At the end of the line it is LastDb.
LEMMA NamesLast ==
  ASSUME args \in Seq(Words), WellFormed, NEW d, Names(Len(args), d)
  PROVE  d = LastDb
<1>1. Len(args) \in Nat /\ \A v \in DbValues : v[1] \in 1 .. Len(args)
  BY DbPlaces
<1>2. \A v \in DbValues : v[1] \in Nat /\ v[1] <= Len(args) /\ ~(v[1] > Len(args))
  BY <1>1
<1>3. CASE DbValues = {}
  BY <1>3 DEF Names, LastDb
<1>4. CASE DbValues # {}
  <2> DEFINE IsLast(v) == \A w \in DbValues : w[1] <= v[1]
             c == CHOOSE v \in DbValues : IsLast(v)
  <2>1. PICK v \in DbValues : v[2] = d /\ \A x \in DbValues : x[1] <= v[1]
    BY <1>2, <1>4 DEF Names
  <2>2. c \in DbValues /\ IsLast(c)
    BY <2>1
  <2>3. LastDb = c[2]
    BY <1>4 DEF LastDb
  <2> HIDE DEF c
  <2>4. c[1] = v[1]
    <3>1. c[1] <= v[1] /\ v[1] <= c[1]
      BY <2>1, <2>2
    <3>2. c[1] \in Nat /\ v[1] \in Nat
      BY <1>2, <2>1, <2>2
    <3> QED
      BY <3>1, <3>2
  <2>5. c[2] = v[2]
    <3> DEFINE k == v[1]
    <3>1. k \in 1 .. Len(args)
      BY <1>1, <2>1
    <3>2. args[k] \in Words
      BY <3>1
    <3> HIDE DEF k
    <3>3. CASE HasValue(args[k])
      <4>1. \A x \in DbValues : x[1] = k => x[2] = args[k].value
        BY <3>1, <3>3, DbPlaces
      <4> QED
        BY <2>1, <2>2, <2>4, <4>1 DEF k
    <3>4. CASE IsPlain(args[k]) /\ IsDbValue(k)
      <4>1. \A x \in DbValues : x[1] = k => x[2] = args[k].raw
        BY <3>1, <3>4, DbPlaces
      <4> QED
        BY <2>1, <2>2, <2>4, <4>1 DEF k
    <3>5. CASE ~args[k].eq /\ ~IsDbValue(k)
      BY <2>1, <3>1, <3>5, DbPlaces DEF k
    <3>6. CASE IsDbValue(k) /\ args[k] \in {Db, OtherFlag, Dash, DashDash}
      <4>1. k > 1 /\ args[k - 1] = Db
        BY <3>6 DEF IsDbValue
      <4>2. k - 1 \in 1 .. Len(args) /\ (k - 1) + 1 = k
        BY <1>1, <3>1, <4>1
      <4>3. ~args[(k - 1) + 1].dash
        BY <4>1, <4>2 DEF WellFormed
      <4> QED
        BY <3>6, <4>2, <4>3, DashedWords
    <3> QED
      BY <3>2, <3>3, <3>4, <3>5, <3>6, WordKinds, DashedWords DEF IsPlain
  <2> QED
    BY <2>1, <2>3, <2>5
<1> QED
  BY <1>3, <1>4

(***************************************************************************)
(* One word more: if it is a flag word, the parse reads it next.           *)
(***************************************************************************)
LEMMA ReadsOneMore ==
  ASSUME args \in Seq(Words), WellFormed, NEW k \in 1 .. Len(args),
         NEW t, NEW a \in Nat, a + 1 \in 1 .. Len(t), t[a + 1] = args[k],
         NEW p \in ParseState, k \in FlagWords(args),
         Clean(k - 1) => Reading(p, a, k - 1), ~Clean(k - 1) => Stopped(p, t)
  PROVE  LET r == ParseWord(p, args[k], a + 1)
         IN (Clean(k) => Reading(r, a + 1, k)) /\ (~Clean(k) => Stopped(r, t))
<1> DEFINE w == args[k]
           r == ParseWord(p, w, a + 1)
<1>1. k \in Nat /\ k - 1 \in Nat /\ Len(args) \in Nat /\ w \in Words
  OBVIOUS
<1>2. \A i \in 1 .. k : i = k \/ i \in 1 .. k - 1
  BY <1>1
<1>3. \A i \in 1 .. k - 1 : i \in 1 .. k
  BY <1>1
<1>4. Clean(k) <=> Clean(k - 1) /\ w # OtherFlag /\ w # Dash
  <2>1. k \in 1 .. k
    BY <1>1
  <2> QED
    BY <1>2, <1>3, <2>1 DEF Clean
<1>5. w # DashDash
  BY DEF WellFormed, ToSet
<1>6. IsDbValue(k) <=> k - 1 # 0 /\ args[k - 1] = Db
  BY <1>1 DEF IsDbValue
<1> HIDE DEF w
<1>7. CASE ~Clean(k - 1)
  <2>1. p.mode \in {"rest", "error"}
    BY <1>7 DEF Stopped
  <2>2. r = p
    BY <1>1, <2>1, ParseReads
  <2> QED
    BY <1>4, <1>7, <2>2 DEF w
<1>8. CASE Clean(k - 1) /\ IsDbValue(k)
  <2>1. p.mode = "value"
    BY <1>6, <1>8 DEF Reading
  <2>2. ~w.dash
    <3>1. k - 1 \in 1 .. Len(args) /\ (k - 1) + 1 = k
      BY <1>1, <1>6, <1>8
    <3>2. ~args[(k - 1) + 1].dash
      BY <1>6, <1>8, <3>1 DEF WellFormed
    <3> QED
      BY <3>1, <3>2 DEF w
  <2>3. IsPlain(w)
    BY <1>1, <2>2, WordKinds, DashedWords DEF HasValue
  <2>4. w # Db /\ w # OtherFlag /\ w # Dash
    BY <2>3 DEF IsPlain
  <2>5. r = Parsing("flag", w.raw, (a + 1) + 1)
    BY <1>1, <2>1, ParseReads
  <2>6. <<k, w.raw>> \in DbValues
    BY <1>8, <2>3, DbPlaces DEF w
  <2>7. Names(k, w.raw)
    BY <2>6, NamesNew
  <2>8. Reading(r, a + 1, k)
    BY <2>4, <2>5, <2>7 DEF Reading, Parsing, w
  <2> QED
    BY <1>4, <1>8, <2>4, <2>8 DEF w
<1>9. CASE Clean(k - 1) /\ ~IsDbValue(k)
  <2>1. p.mode = "flag" /\ p.next = a + 1 /\ Names(k - 1, p.db)
    BY <1>6, <1>9 DEF Reading
  <2>2. w.dash
    <3> SUFFICES ASSUME ~w.dash PROVE FALSE
      OBVIOUS
    <3>1. k \in 2 .. Len(args) /\ args[k - 1].dash /\ ~args[k - 1].eq
      BY DEF FlagWords, FlagValues, w
    <3>2. k - 1 # 0 /\ k - 1 \in 1 .. Len(args) /\ k - 1 \in 1 .. k - 1
      BY <1>1, <3>1
    <3>3. args[k - 1] \in Words /\ args[k - 1] # DashDash
      <4>1. args[k - 1] \in Words
        BY <3>2
      <4>2. args[k - 1] # DashDash
        BY <3>2 DEF WellFormed, ToSet
      <4> QED
        BY <4>1, <4>2
    <3>4. args[k - 1] # OtherFlag /\ args[k - 1] # Dash
      BY <1>9, <3>2 DEF Clean
    <3>5. args[k - 1] # Db
      BY <1>6, <1>9, <3>2
    <3> QED
      BY <3>1, <3>3, <3>4, <3>5, WordKinds DEF IsPlain, HasValue
  <2>3. CASE HasValue(w)
    <3>1. r = Parsing("flag", w.value, (a + 1) + 1) /\ w # Db /\ w # OtherFlag /\ w # Dash
      BY <1>1, <2>1, <2>3, ParseReads DEF HasValue
    <3>2. <<k, w.value>> \in DbValues
      BY <2>3, DbPlaces DEF w
    <3>3. Names(k, w.value)
      BY <3>2, NamesNew
    <3>4. Reading(r, a + 1, k)
      BY <3>1, <3>3 DEF Reading, Parsing, w
    <3> QED
      BY <1>4, <1>9, <3>1, <3>4 DEF w
  <2>4. CASE w = Db
    <3>1. r = Parsing("value", p.db, a + 1) /\ w # OtherFlag /\ w # Dash /\ ~w.eq
      BY <1>1, <2>1, <2>4, ParseReads, DashedWords
    <3>2. Names(k, p.db)
      BY <1>9, <2>1, <3>1, NamesKept DEF w
    <3>3. Reading(r, a + 1, k)
      BY <1>1, <2>4, <3>1, <3>2 DEF Reading, Parsing, w
    <3> QED
      BY <1>4, <1>9, <3>1, <3>3 DEF w
  <2>5. CASE w = OtherFlag
    <3>1. r = Parsing("error", p.db, a + 1)
      BY <1>1, <2>1, <2>5, ParseReads
    <3>2. Stopped(r, t)
      BY <3>1 DEF Stopped, Parsing
    <3> QED
      BY <1>4, <2>5, <3>2 DEF w
  <2>6. CASE w = Dash
    <3>1. r = Parsing("rest", p.db, a + 1)
      BY <1>1, <2>1, <2>6, ParseReads
    <3>2. Stopped(r, t)
      BY <2>6, <3>1 DEF Stopped, Parsing, w
    <3> QED
      BY <1>4, <2>6, <3>2 DEF w
  <2> QED
    BY <1>1, <1>5, <2>2, <2>3, <2>4, <2>5, <2>6, WordKinds DEF IsPlain
<1> QED
  BY <1>7, <1>8, <1>9

\* A word that is left behind changes nothing.
LEMMA LeavesOne ==
  ASSUME args \in Seq(Words), WellFormed, NEW k \in 1 .. Len(args),
         NEW t, NEW a, NEW p, k \notin FlagWords(args),
         Clean(k - 1) => Reading(p, a, k - 1), ~Clean(k - 1) => Stopped(p, t)
  PROVE  (Clean(k) => Reading(p, a, k)) /\ (~Clean(k) => Stopped(p, t))
<1> DEFINE w == args[k]
<1>1. k \in Nat /\ k - 1 \in Nat /\ Len(args) \in Nat /\ w \in Words /\ k # 0
  OBVIOUS
<1>2. \A i \in 1 .. k : i = k \/ i \in 1 .. k - 1
  BY <1>1
<1>3. \A i \in 1 .. k - 1 : i \in 1 .. k
  BY <1>1
<1>4. IsDbValue(k) <=> k - 1 # 0 /\ args[k - 1] = Db
  BY <1>1 DEF IsDbValue
<1>5. ~w.dash
  BY DEF FlagWords
<1> HIDE DEF w
<1>6. IsPlain(w)
  BY <1>1, <1>5, WordKinds, DashedWords DEF HasValue
<1>7. w # Db /\ w # OtherFlag /\ w # Dash /\ ~w.eq
  BY <1>6 DEF IsPlain
<1>8. Clean(k) <=> Clean(k - 1)
  BY <1>2, <1>3, <1>7 DEF Clean, w
<1>9. ~IsDbValue(k)
  <2> SUFFICES ASSUME IsDbValue(k) PROVE FALSE
    OBVIOUS
  <2>1. k \in 2 .. Len(args) /\ args[k - 1] = Db
    BY <1>1, <1>4
  <2>2. args[k - 1].dash /\ ~args[k - 1].eq
    BY <2>1, DashedWords
  <2>3. k \in FlagValues(args)
    BY <1>5, <2>1, <2>2 DEF FlagValues, w
  <2> QED
    BY <2>3 DEF FlagWords
<1>10. ASSUME Clean(k - 1) PROVE Reading(p, a, k)
  <2>1. p.mode = "flag" /\ p.next = a + 1 /\ Names(k - 1, p.db)
    BY <1>4, <1>9, <1>10 DEF Reading
  <2>2. Names(k, p.db)
    BY <1>7, <1>9, <2>1, NamesKept DEF w
  <2> QED
    BY <1>7, <2>1, <2>2 DEF Reading, w
<1> QED
  BY <1>8, <1>10

\* The parse has read all flag words when it comes to the others.
LEMMA LineRead ==
  ASSUME args \in Seq(Words), WellFormed,
         NEW f, Picked(f, args, FlagWords(args), Words), NEW F, F = f[Len(args)],
         NEW t \in Seq(Words), Len(F) <= Len(t), \A i \in 1 .. Len(F) : t[i] = F[i],
         NEW g, ParsedBy(g, t)
  PROVE  /\ Clean(Len(args)) => Reading(g[Len(F)], Len(F), Len(args))
         /\ ~Clean(Len(args)) => Stopped(g[Len(F)], t)
<1> DEFINE q == Len(args)
           Good(k) == /\ Clean(k) => Reading(g[Len(f[k])], Len(f[k]), k)
                      /\ ~Clean(k) => Stopped(g[Len(f[k])], t)
           Wrong == {k \in 0 .. q : ~Good(k)}
<1>1. q \in Nat /\ Len(t) \in Nat /\ Len(F) \in Nat
  <2>1. q \in Nat /\ q \in 0 .. q /\ Len(t) \in Nat
    OBVIOUS
  <2>2. Len(f[q]) \in Nat
    BY <2>1, PickedPlaces DEF PlacedAt
  <2> QED
    BY <2>1, <2>2
<1>2. \A k \in 0 .. q : Len(f[k]) \in Nat /\ Len(f[k]) <= Len(F)
  BY PickedPlaces DEF PlacedAt
<1>3. ASSUME NEW k \in 1 .. q
      PROVE  /\ k \in FlagWords(args) => Len(f[k]) = Len(f[k - 1]) + 1 /\ F[Len(f[k])] = args[k]
             /\ k \notin FlagWords(args) => f[k] = f[k - 1]
  <2>1. k \in 0 .. q
    BY <1>1
  <2>2. PlacedAt(f, args, FlagWords(args), k)
    BY <2>1, PickedPlaces
  <2> QED
    BY <2>2 DEF PlacedAt
<1> HIDE DEF q
<1>4. Good(0)
  <2>1. f[0] = <<>> /\ Len(f[0]) = 0 /\ g[0] = Parsing("flag", "", 1)
    BY DEF Picked, ParsedBy
  <2>2. Clean(0) /\ Names(0, "")
    <3>1. \A v \in DbValues : v[1] > 0
      <4>1. Len(args) \in Nat /\ \A v \in DbValues : v[1] \in 1 .. Len(args)
        BY DbPlaces
      <4> QED
        BY <4>1
    <3>2. Clean(0)
      BY DEF Clean
    <3>3. Names(0, "")
      BY <3>1 DEF Names
    <3> QED
      BY <3>2, <3>3
  <2>3. Reading(g[0], 0, 0)
    <3>1. g[0].mode = "flag" /\ g[0].db = "" /\ g[0].next = 1
      <4>1. g[0] = Parsing("flag", "", 1)
        BY <2>1
      <4> DEFINE e == Parsing("flag", "", 1)
      <4>2. e.mode = "flag" /\ e.db = "" /\ e.next = 1
        BY DEF Parsing
      <4> HIDE DEF e
      <4>3. g[0] = e
        BY <4>1 DEF e
      <4> QED
        BY <4>2, <4>3, Zenon
    <3>2. Names(0, g[0].db)
      BY <2>2, <3>1
    <3>3. g[0].next = 0 + 1
      <4>1. 0 + 1 = 1
        OBVIOUS
      <4> QED
        BY <3>1, <4>1, Zenon
    <3> QED
      BY <3>1, <3>2, <3>3 DEF Reading
  <2> QED
    BY <2>1, <2>2, <2>3
<1>5. ASSUME NEW k \in 1 .. q, Good(k - 1) PROVE Good(k)
  <2> DEFINE a == Len(f[k - 1])
  <2>1. k \in 1 .. Len(args) /\ k - 1 \in 0 .. q /\ k \in 0 .. q
    BY <1>1 DEF q
  <2>2. a \in Nat
    BY <1>2, <2>1
  <2>3. /\ Clean(k - 1) => Reading(g[a], a, k - 1)
        /\ ~Clean(k - 1) => Stopped(g[a], t)
    BY <1>5
  <2> HIDE DEF a
  <2>4. CASE k \in FlagWords(args)
    <3>1. Len(f[k]) = a + 1 /\ F[a + 1] = args[k]
      BY <1>3, <2>4 DEF a
    <3>2. a + 1 \in 1 .. Len(F) /\ a + 1 \in 1 .. Len(t) /\ (a + 1) - 1 = a /\ a \in 0 .. Len(t)
      <4>1. a + 1 <= Len(F)
        BY <1>2, <2>1, <3>1
      <4> QED
        BY <1>1, <2>2, <4>1
    <3>3. t[a + 1] = args[k]
      BY <3>1, <3>2
    <3>4. g[a] \in ParseState
      BY <3>2 DEF ParsedBy
    <3>5. g[a + 1] = ParseWord(g[a], args[k], a + 1)
      <4>1. g[a + 1] = ParseWord(g[(a + 1) - 1], t[a + 1], a + 1)
        BY <3>2 DEF ParsedBy
      <4> QED
        BY <3>2, <3>3, <4>1
    <3>6. /\ Clean(k) => Reading(g[a + 1], a + 1, k)
          /\ ~Clean(k) => Stopped(g[a + 1], t)
      BY <2>1, <2>2, <2>3, <2>4, <3>2, <3>3, <3>4, <3>5, ReadsOneMore
    <3> QED
      BY <3>1, <3>6
  <2>5. CASE k \notin FlagWords(args)
    <3>1. Len(f[k]) = a
      BY <1>3, <2>5 DEF a
    <3>2. (Clean(k) => Reading(g[a], a, k)) /\ (~Clean(k) => Stopped(g[a], t))
      BY <2>1, <2>3, <2>5, LeavesOne
    <3> QED
      BY <3>1, <3>2
  <2> QED
    BY <2>4, <2>5
<1> HIDE DEF Good
<1>6. Wrong = {}
  <2> SUFFICES ASSUME Wrong # {} PROVE FALSE
    OBVIOUS
  <2>1. PICK k \in Wrong : \A x \in Wrong : k <= x
    <3>1. Wrong \in SUBSET Nat
      BY <1>1
    <3> HIDE DEF Wrong
    <3> QED BY <3>1, LeastExists
  <2>2. k \in 0 .. q /\ ~Good(k)
    OBVIOUS
  <2>3. k # 0
    BY <1>4, <2>2
  <2>4. k \in 1 .. q /\ k - 1 \in 0 .. q /\ ~(k <= k - 1)
    BY <1>1, <2>2, <2>3
  <2>5. Good(k - 1)
    BY <2>1, <2>4
  <2> QED
    BY <1>5, <2>2, <2>4, <2>5
<1>7. Good(q)
  <2>1. q \in 0 .. q
    BY <1>1
  <2> QED
    BY <1>6, <2>1
<1> QED
  BY <1>7 DEF Good, q

\* The words behind the first Len(F) of F \o R are R.
LEMMA BehindIs ==
  ASSUME NEW S, NEW F \in Seq(S), NEW R \in Seq(S)
  PROVE  /\ F \o R \in Seq(S) /\ Len(F \o R) = Len(F) + Len(R)
         /\ \A i \in 1 .. Len(F) : (F \o R)[i] = F[i]
         /\ \A i \in 1 .. Len(R) : (F \o R)[Len(F) + i] = R[i]
         /\ SubSeq(F \o R, Len(F) + 1, Len(F \o R)) = R
<1> DEFINE t == F \o R
           a == Len(F)
           b == Len(R)
<1>1. a \in Nat /\ b \in Nat
  OBVIOUS
<1>2. t \in Seq(S) /\ Len(t) = a + b
  OBVIOUS
<1>3. (\A i \in 1 .. a : t[i] = F[i]) /\ \A i \in 1 .. b : t[a + i] = R[i]
  OBVIOUS
<1>4. R = [i \in 1 .. b |-> R[i]]
  OBVIOUS
<1>5. SubSeq(t, a + 1, a + b) = [i \in 1 .. ((a + b) - (a + 1)) + 1 |-> t[(i + (a + 1)) - 1]]
  BY <1>1, <1>2
<1> HIDE DEF t, a, b
<1>6. ((a + b) - (a + 1)) + 1 = b /\ \A i \in 1 .. b : (i + (a + 1)) - 1 = a + i
  BY <1>1
<1>7. SubSeq(t, a + 1, a + b) = [i \in 1 .. b |-> R[i]]
  BY <1>3, <1>5, <1>6
<1>8. SubSeq(t, a + 1, Len(t)) = R
  BY <1>2, <1>4, <1>7
<1> QED
  BY <1>2, <1>3, <1>8 DEF t, a, b

LEMMA UsageRefuses == \A d : UsageError(d).command = <<>>
BY DEF UsageError

\* A line with a word that is refused.
LEMMA StoppedRefuses ==
  ASSUME NEW t \in Seq(Words), NEW p \in ParseState, Stopped(p, t), p.mode \in {"flag", "rest"}
  PROVE  Dispatch(p.db, SubSeq(t, p.next, Len(t))).command = <<>>
<1> DEFINE r == SubSeq(t, p.next, Len(t))
<1>1. p.next \in 1 .. Len(t) /\ t[p.next] = Dash
  BY DEF Stopped
<1>2. r # <<>> /\ r[1] = Dash
  <2> DEFINE a == p.next
             b == Len(t)
  <2>1. a \in Nat /\ b \in Nat /\ 1 <= a /\ a <= b
    BY <1>1
  <2>2. r = [i \in 1 .. (b - a) + 1 |-> t[(i + a) - 1]]
    BY <2>1
  <2> HIDE DEF a, b, r
  <2>3. 1 \in 1 .. (b - a) + 1 /\ (1 + a) - 1 = a
    BY <2>1
  <2>4. r[1] = t[a] /\ 1 \in DOMAIN r
    BY <2>2, <2>3
  <2> QED
    BY <1>1, <2>4 DEF a
<1> HIDE DEF r
<1>3. r[1].raw = "-"
  BY <1>2, DashedWords
<1>4. "-" \notin DOMAIN Commands
  BY DEF Commands
<1>5. Dispatch(p.db, r) = UsageError("") \/ Dispatch(p.db, r) = UsageError(p.db)
  BY <1>3, <1>4 DEF Dispatch
<1> QED
  BY <1>5, UsageRefuses DEF r

LEMMA AnyLine == ASSUME args \in Seq(Words) PROVE FlagsMayComeAnywhere
<1> SUFFICES ASSUME WellFormed
             PROVE  IF {OtherFlag, Dash} \cap ToSet(args) # {} THEN run(args).command = <<>>
                    ELSE run(args) = Dispatch(LastDb, Typed)
  BY DEF FlagsMayComeAnywhere
<1> DEFINE q == Len(args)
           Others == (1 .. q) \ FlagWords(args)
           R == Chosen(args, Others)
           P == {w \in Words : IsPlain(w)}
           p == Parse(reorder(args))
<1>1. q \in Nat /\ \A i \in 1 .. q : args[i] \in Words
  OBVIOUS
<1>2. PICK f : ChosenBy(f, args, FlagWords(args), Words)
  BY <1>1, ChosenIs
<1> DEFINE F == f[q]
           t == F \o R
<1>3. Picked(f, args, FlagWords(args), Words) /\ Chosen(args, FlagWords(args)) = F /\ F \in Seq(Words)
  <2>1. q \in 0 .. q
    BY <1>1
  <2> QED
    BY <1>2, <2>1 DEF ChosenBy, Picked
<1>4. R \in Seq(P)
  <2>1. ASSUME NEW i \in 1 .. q, i \in Others PROVE args[i] \in P
    <3>1. ~args[i].dash
      BY <2>1 DEF FlagWords
    <3> QED
      BY <1>1, <3>1, WordKinds, DashedWords DEF HasValue
  <2> HIDE DEF Others, P
  <2>2. PICK h : ChosenBy(h, args, Others, P)
    BY <2>1, ChosenIs
  <2>3. q \in 0 .. q
    BY <1>1
  <2> QED
    BY <2>2, <2>3 DEF ChosenBy, Picked
<1>5. R \in Seq(Words)
  BY <1>4
<1>6. reorder(args) = t
  BY <1>3 DEF reorder
<1> HIDE DEF F, R, Others
<1>7. /\ t \in Seq(Words) /\ Len(t) = Len(F) + Len(R) /\ Len(F) \in Nat /\ Len(R) \in Nat
      /\ \A i \in 1 .. Len(F) : t[i] = F[i]
      /\ \A i \in 1 .. Len(R) : t[Len(F) + i] = R[i]
      /\ SubSeq(t, Len(F) + 1, Len(t)) = R
  BY <1>3, <1>5, BehindIs
<1> HIDE DEF t
<1>8. PICK g : ParseBy(g, t)
  BY <1>7, ParseIs
<1>9. ParsedBy(g, t) /\ p = g[Len(t)]
  BY <1>6, <1>8 DEF ParseBy
<1> HIDE DEF p
<1>10. Len(F) <= Len(t) /\ Len(F) \in 0 .. Len(t) /\ Len(t) \in 0 .. Len(t)
  BY <1>7
<1>11. g[Len(F)] \in ParseState /\ p \in ParseState
  BY <1>9, <1>10 DEF ParsedBy
<1>12. /\ Clean(q) => Reading(g[Len(F)], Len(F), q)
       /\ ~Clean(q) => Stopped(g[Len(F)], t)
  BY <1>3, <1>7, <1>9, <1>10, LineRead DEF F
<1>13. Clean(q) <=> {OtherFlag, Dash} \cap ToSet(args) = {}
  BY DEF Clean, ToSet
<1>14. run(args) = IF p.mode \in {"flag", "rest"} THEN Dispatch(p.db, SubSeq(t, p.next, Len(t)))
                   ELSE UsageError("")
  BY <1>6 DEF run, p
<1>15. CASE ~Clean(q)
  <2>1. Stopped(g[Len(F)], t)
    BY <1>12, <1>15
  <2>2. p = g[Len(F)]
    BY <1>7, <1>9, <1>10, <2>1, ParseEnds DEF Stopped
  <2>3. run(args).command = <<>>
    <3>1. CASE p.mode \in {"flag", "rest"}
      BY <1>7, <1>11, <1>14, <2>1, <2>2, <3>1, StoppedRefuses
    <3>2. CASE p.mode \notin {"flag", "rest"}
      BY <1>14, <3>2, UsageRefuses
    <3> QED
      BY <3>1, <3>2
  <2> QED
    BY <1>13, <1>15, <2>3
<1>16. CASE Clean(q)
  <2> DEFINE d == g[Len(F)].db
  <2>1. Reading(g[Len(F)], Len(F), q)
    BY <1>12, <1>16
  <2>2. q = 0 \/ args[q] # Db
    <3>1. q # 0 => q \in 1 .. q /\ ~(q < q)
      BY <1>1
    <3> QED
      BY <3>1 DEF WellFormed
  <2>3. g[Len(F)].mode = "flag" /\ g[Len(F)].next = Len(F) + 1 /\ Names(q, d)
    BY <2>1, <2>2 DEF Reading
  <2> HIDE DEF d
  <2>4. d = LastDb
    BY <2>3, NamesLast DEF q
  <2>5. p.mode \in {"flag", "rest"} /\ p.db = d /\ p.next = Len(F) + 1
    <3>1. CASE Len(R) = 0
      <4>1. Len(t) = Len(F)
        BY <1>7, <3>1
      <4> QED
        BY <1>9, <2>3, <4>1 DEF d
    <3>2. CASE Len(R) # 0
      <4> DEFINE n == Len(F) + 1
      <4>1. n \in 1 .. Len(t) /\ n - 1 = Len(F) /\ 1 \in 1 .. Len(R) /\ n \in 0 .. Len(t)
        BY <1>7, <3>2
      <4>2. t[n] = R[1] /\ R[1] \in P
        BY <1>4, <1>7, <4>1
      <4>3. IsPlain(t[n]) /\ t[n] \in Words
        BY <4>2
      <4>4. g[n] = ParseWord(g[Len(F)], t[n], n)
        <5>1. g[n] = ParseWord(g[n - 1], t[n], n)
          BY <1>9, <4>1 DEF ParsedBy
        <5> QED
          BY <4>1, <5>1
      <4> HIDE DEF n
      <4>5. g[n] = Parsing("rest", d, n)
        BY <1>11, <2>3, <4>3, <4>4, ParseReads DEF d
      <4>6. g[n].mode = "rest" /\ g[n].db = d /\ g[n].next = n
        BY <4>5 DEF Parsing
      <4>7. p = g[n]
        BY <1>7, <1>9, <4>1, <4>6, ParseEnds
      <4> QED
        BY <4>6, <4>7 DEF n
    <3> QED
      BY <3>1, <3>2
  <2>6. run(args) = Dispatch(LastDb, R)
    BY <1>7, <1>14, <2>4, <2>5
  <2>7. R = Typed
    <3>1. ASSUME NEW i \in 1 .. q PROVE i \in FlagWords(args) <=> args[i].dash \/ IsDbValue(i)
      <4>1. i \in FlagWords(args) <=> args[i].dash \/ i \in FlagValues(args)
        BY DEF FlagWords, FlagValues
      <4>2. ASSUME i \in FlagValues(args) PROVE IsDbValue(i)
        <5>1. i \in 2 .. q /\ args[i - 1].dash /\ ~args[i - 1].eq
          BY <4>2 DEF FlagValues
        <5>2. i > 1 /\ i - 1 \in 1 .. q
          BY <1>1, <5>1
        <5>3. args[i - 1] \in Words /\ args[i - 1] # OtherFlag /\ args[i - 1] # Dash
          BY <1>1, <1>16, <5>2 DEF Clean
        <5>4. args[i - 1] # DashDash
          BY <5>2 DEF WellFormed, ToSet
        <5>5. args[i - 1] = Db
          BY <5>1, <5>3, <5>4, WordKinds DEF IsPlain, HasValue
        <5> QED
          BY <5>2, <5>5 DEF IsDbValue
      <4>3. ASSUME IsDbValue(i), ~args[i].dash PROVE i \in FlagValues(args)
        <5>1. i > 1 /\ args[i - 1] = Db
          BY <4>3 DEF IsDbValue
        <5>2. i \in 2 .. q
          BY <1>1, <5>1
        <5> QED
          BY <4>3, <5>1, <5>2, DashedWords DEF FlagValues
      <4> QED
        BY <4>1, <4>2, <4>3
    <3>2. Others = {i \in 1 .. q : ~args[i].dash /\ ~IsDbValue(i)}
      BY <3>1 DEF Others
    <3> QED
      BY <3>2 DEF Typed, R
  <2> QED
    BY <1>13, <1>16, <2>6, <2>7
<1> QED
  BY <1>15, <1>16

(***************************************************************************)
(* FlagsMayComeAnywhere holds of every command line, of any words and any  *)
(* length: wherever the db flags stand, run does what the other words say, *)
(* in the directory the last of them names (reorder, run).                 *)
(***************************************************************************)
THEOREM FlagsAlwaysComeAnywhere == CommandLineSpec => []FlagsMayComeAnywhere
<1>1. CommandLineInit => args \in Seq(Words)
  BY DEF CommandLineInit
<1>2. args \in Seq(Words) /\ [CommandLineNext]_args => (args \in Seq(Words))'
  BY DEF CommandLineNext
<1> QED
  BY <1>1, <1>2, AnyLine, PTL DEF CommandLineSpec
=============================================================================
