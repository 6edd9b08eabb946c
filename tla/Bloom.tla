-------------------------------- MODULE Bloom --------------------------------
(***************************************************************************)
(* internal/bloom: Bloom filters shared by goroutines.  Add, Reset,        *)
(* WriteTo and ReadFrom hold the filter's RWMutex from their first access  *)
(* to it to the last: one step each.  Union(other) locks f, then locks     *)
(* other for reading, so it is two steps with f locked in between.         *)
(* The floating-point sizing of New is left out: a filter has some number  *)
(* of bits and of hash functions.  The item count n is read by Count and   *)
(* EstimateFPRate alone: left out too.                                     *)
(***************************************************************************)
EXTENDS Naturals, FiniteSets

CONSTANTS
  Filter,      \* the filters
  Item,        \* the keys added to them
  HashRange,   \* 2^64: hashes and their sums wrap there
  Hash1, Hash2,  \* fnv.New64a and fnv.New64 of an item
  Bits, HashCount,  \* the number of bits and of hash functions, by filter
  MaxBits,     \* 64 * 2^28: what ReadFrom takes at most
  UnionPairs   \* <<f, other>> for the calls f.Union(other) that are made

ASSUME BloomAssumption ==
  /\ HashRange \in Nat \ {0} /\ MaxBits \in Nat
  /\ Hash1 \in [Item -> Nat] /\ Hash2 \in [Item -> Nat]
  /\ Bits \in [Filter -> Nat \ {0}] /\ HashCount \in [Filter -> Nat \ {0}]
  /\ UnionPairs \subseteq Filter \X Filter
  /\ \A p \in UnionPairs : p[1] # p[2]  \* f.Union(f) would wait for itself

VARIABLES
  filter,   \* m, k and the set bits, by filter
  uniting,  \* the filter a Union that holds f's lock waits for, or f itself
  saved,    \* what the last WriteTo wrote; Unreadable when it failed
  added,    \* history: the items each filter should contain
  savedItems  \* history: and those saved should

bloomVars == <<filter, uniting, saved, added, savedItems>>

Free(f) == uniting[f] = f

Unreadable == [m |-> 0, k |-> 0, bits |-> {}]

BloomTypeOK ==
  /\ filter \in [Filter -> [m : Nat \ {0}, k : Nat \ {0}, bits : SUBSET Nat]]
  /\ uniting \in [Filter -> Filter]
  /\ saved \in [m : Nat, k : Nat, bits : SUBSET Nat]
  /\ added \in [Filter -> SUBSET Item] /\ savedItems \subseteq Item

(***************************************************************************)
(* twoHashes, and the positions Add sets and MayContain looks at.          *)
(***************************************************************************)
SecondHash(x) == IF Hash2[x] = 0 THEN 1 ELSE Hash2[x]

Positions(x, m, k) ==
  {((Hash1[x] + i * SecondHash(x)) % HashRange) % m : i \in 0 .. k - 1}

MayContain(f, x) == Positions(x, f.m, f.k) \subseteq f.bits

\* Wrong: the last hash function is not used.
BloomAddOneFewer(f, x) ==
  /\ Free(f)
  /\ filter' = [filter EXCEPT ![f].bits = @ \cup Positions(x, filter[f].m, filter[f].k - 1)]
  /\ added' = [added EXCEPT ![f] = @ \cup {x}]
  /\ UNCHANGED <<uniting, saved, savedItems>>

BloomAdd(f, x) ==
  /\ Free(f)
  /\ filter' = [filter EXCEPT ![f].bits = @ \cup Positions(x, filter[f].m, filter[f].k)]
  /\ added' = [added EXCEPT ![f] = @ \cup {x}]
  /\ UNCHANGED <<uniting, saved, savedItems>>

BloomReset(f) ==
  /\ Free(f)
  /\ filter' = [filter EXCEPT ![f].bits = {}]
  /\ added' = [added EXCEPT ![f] = {}]
  /\ UNCHANGED <<uniting, saved, savedItems>>

BloomWriteTo(f) ==
  /\ Free(f)
  /\ saved' = filter[f]
  /\ savedItems' = added[f]
  /\ UNCHANGED <<filter, uniting, added>>

\* The writer fails part of the way: the stream ends early, and ReadFrom
\* refuses it before it touches the filter.
BloomWriteFails(f) ==
  /\ Free(f)
  /\ saved' = Unreadable /\ savedItems' = {}
  /\ UNCHANGED <<filter, uniting, added>>

BloomReadFrom(f) ==
  /\ Free(f) /\ saved.m # 0 /\ saved.k # 0 /\ saved.m <= MaxBits
  /\ filter' = [filter EXCEPT ![f] = saved]
  /\ added' = [added EXCEPT ![f] = savedItems]
  /\ UNCHANGED <<uniting, saved, savedItems>>

UnionLocks(f, other) ==
  /\ Free(f)
  /\ uniting' = [uniting EXCEPT ![f] = other]
  /\ UNCHANGED <<filter, saved, added, savedItems>>

SameParameters(f, g) == filter[f].m = filter[g].m /\ filter[f].k = filter[g].k

\* other is read-locked, the bits are joined, and both are unlocked.
UnionJoins(f) ==
  LET other == uniting[f]
  IN /\ ~Free(f) /\ Free(other) /\ SameParameters(f, other)
     /\ filter' = [filter EXCEPT ![f].bits = @ \cup filter[other].bits]
     /\ added' = [added EXCEPT ![f] = @ \cup added[other]]
     /\ uniting' = [uniting EXCEPT ![f] = f]
     /\ UNCHANGED <<saved, savedItems>>

\* Wrong: filters of different sizes are joined.
UnionJoinsAnyway(f) ==
  LET other == uniting[f]
  IN /\ ~Free(f) /\ Free(other) /\ ~SameParameters(f, other)
     /\ filter' = [filter EXCEPT ![f].bits = @ \cup filter[other].bits]
     /\ added' = [added EXCEPT ![f] = @ \cup added[other]]
     /\ uniting' = [uniting EXCEPT ![f] = f]
     /\ UNCHANGED <<saved, savedItems>>

\* Wrong: the error path returns with the lock held.
UnionRefusedLocked(f) ==
  /\ ~Free(f) /\ Free(uniting[f]) /\ ~SameParameters(f, uniting[f])
  /\ UNCHANGED bloomVars

UnionRefused(f) ==
  /\ ~Free(f) /\ Free(uniting[f]) /\ ~SameParameters(f, uniting[f])
  /\ uniting' = [uniting EXCEPT ![f] = f]
  /\ UNCHANGED <<filter, saved, added, savedItems>>

BloomInit ==
  /\ filter = [f \in Filter |-> [m |-> Bits[f], k |-> HashCount[f], bits |-> {}]]
  /\ uniting = [f \in Filter |-> f]
  /\ saved = Unreadable
  /\ added = [f \in Filter |-> {}] /\ savedItems = {}

BloomNext ==
  \/ \E f \in Filter :
       \/ \E x \in Item : BloomAdd(f, x)
       \/ BloomReset(f) \/ BloomWriteTo(f) \/ BloomWriteFails(f) \/ BloomReadFrom(f)
       \/ UnionJoins(f) \/ UnionRefused(f)
  \/ \E p \in UnionPairs : UnionLocks(p[1], p[2])

BloomSpec == BloomInit /\ [][BloomNext]_bloomVars

(***************************************************************************)
(* Go's RWMutex lets a reader that waits go before the next writer, so a   *)
(* Union that can go on again and again does go on.                        *)
(***************************************************************************)
BloomFairness ==
  \A f \in Filter : SF_bloomVars(UnionJoins(f) \/ UnionRefused(f))

(***************************************************************************)
(* An item that was added to a filter, to one that was joined into it, or  *)
(* to one whose saved form it was read from, is never reported absent,     *)
(* also when the filters differ in size (Add, Union, WriteTo, ReadFrom).   *)
(***************************************************************************)
NoFalseNegatives == \A f \in Filter : \A x \in added[f] : MayContain(filter[f], x)

(***************************************************************************)
(* A filter has no bit that none of its items accounts for: Reset, a       *)
(* refused Union and a reload leave nothing behind that would raise the    *)
(* rate of false positives (Reset, Union, ReadFrom).                       *)
(***************************************************************************)
NoStrayBits ==
  \A f \in Filter :
    filter[f].bits \subseteq UNION {Positions(x, filter[f].m, filter[f].k) : x \in added[f]}

(***************************************************************************)
(* A Union that holds its lock returns, as long as the unions that are     *)
(* made do not go round in a circle (Union).                               *)
(***************************************************************************)
UnionReturns == \A f \in Filter : ~Free(f) ~> Free(f)
=============================================================================
