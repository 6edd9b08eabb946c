------------------------------ MODULE LRUCache ------------------------------
(***************************************************************************)
(* internal/cache: the LRU cache.  Every method holds LRU.mu throughout,   *)
(* so each is one step; Len, Keys, Contains and Peek change nothing.  The  *)
(* hit, miss and eviction counters are read by Stats alone: left out.      *)
(***************************************************************************)
EXTENDS Naturals, Sequences, SequencesExt

CONSTANTS
  CacheKey, CacheValue,
  NotPut,     \* never put
  Capacities   \* the capacities New and Resize are called with

ASSUME CacheAssumption == NotPut \notin CacheValue /\ Capacities \subseteq Nat

VARIABLES
  capacity,  \* LRU.capacity; 0 stands for every capacity <= 0
  ll,        \* LRU.ll, front first
  items,     \* the keys of LRU.items
  recent,    \* history: keys that were used, the latest first
  latest,    \* history: the value last passed to Put, by key
  dropped    \* history: keys whose last Put met a disabled cache

cacheVars == <<capacity, ll, items, recent, latest, dropped>>

KeysOf(s) == [i \in 1 .. Len(s) |-> s[i].key]

CacheEnabled == capacity > 0

\* The place of the element that items has for k, which is in the list.
ElementOf(s, k) == CHOOSE i \in 1 .. Len(s) : s[i].key = k

\* ll.Remove
WithoutElement(s, k) == RemoveAt(s, ElementOf(s, k))

PushedFront(s, k, v) == <<[key |-> k, value |-> v]>> \o s

\* ll.MoveToFront, with the value the element then has.
MovedToFront(s, k, v) == PushedFront(WithoutElement(s, k), k, v)

\* Wrong: the newest entry is evicted.
EvictNewest(n) == [list |-> Tail(ll), map |-> items \ {Head(ll).key}]

\* Wrong: the key of the evicted entry stays in items.
EvictFromListOnly(n) == [list |-> SubSeq(ll, 1, n), map |-> items]

\* The list and the map when evictOldest was called until n entries are left.
Evicted(n) ==
  [list |-> SubSeq(ll, 1, n),
   map |-> items \ {ll[i].key : i \in n + 1 .. Len(ll)}]

Used(k) == recent' = <<k>> \o RemoveFirst(recent, k)

LRUGet(k) ==
  /\ CacheEnabled /\ k \in items
  /\ ll' = MovedToFront(ll, k, ll[ElementOf(ll, k)].value)
  /\ Used(k)
  /\ UNCHANGED <<capacity, items, latest, dropped>>

\* Put on a disabled cache returns at once.
PutDisabled(k, v) ==
  /\ ~CacheEnabled
  /\ latest' = [latest EXCEPT ![k] = v]
  /\ dropped' = dropped \cup {k}
  /\ UNCHANGED <<capacity, ll, items, recent>>

PutUpdate(k, v) ==
  /\ CacheEnabled /\ k \in items
  /\ ll' = MovedToFront(ll, k, v)
  /\ UNCHANGED items

PutInsert(k, v) ==
  /\ CacheEnabled /\ k \notin items
  /\ LET left == IF Len(ll) >= capacity THEN Evicted(Len(ll) - 1)
                 ELSE [list |-> ll, map |-> items]
     IN /\ ll' = PushedFront(left.list, k, v)
        /\ items' = left.map \cup {k}

LRUPut(k, v) ==
  \/ PutDisabled(k, v)
  \/ /\ PutUpdate(k, v) \/ PutInsert(k, v)
     /\ Used(k)
     /\ latest' = [latest EXCEPT ![k] = v]
     /\ dropped' = dropped \ {k}
     /\ UNCHANGED capacity

LRUDelete(k) ==
  /\ k \in items
  /\ ll' = WithoutElement(ll, k) /\ items' = items \ {k}
  /\ recent' = RemoveFirst(recent, k)
  /\ UNCHANGED <<capacity, latest, dropped>>

LRUClear ==
  /\ ll' = <<>> /\ items' = {}
  /\ recent' = <<>>
  /\ UNCHANGED <<capacity, latest, dropped>>

\* Resize evicts down to the new capacity, unless that is 0.
Resize(c) ==
  /\ capacity' = c
  /\ IF Len(ll) > c /\ c > 0
       THEN ll' = Evicted(c).list /\ items' = Evicted(c).map
       ELSE UNCHANGED <<ll, items>>
  /\ UNCHANGED <<recent, latest, dropped>>

CacheInit ==
  /\ capacity \in Capacities
  /\ ll = <<>> /\ items = {}
  /\ recent = <<>>
  /\ latest = [k \in CacheKey |-> NotPut]
  /\ dropped = {}

CacheNext ==
  \/ \E k \in CacheKey : LRUGet(k) \/ LRUDelete(k) \/ \E v \in CacheValue : LRUPut(k, v)
  \/ LRUClear
  \/ \E c \in Capacities : Resize(c)

CacheSpec == CacheInit /\ [][CacheNext]_cacheVars

(***************************************************************************)
(* The list and the map are one structure: each cached key is in the list  *)
(* exactly once and the map has no other key, however puts, deletions,     *)
(* evictions and resizes follow each other.  The value there is the one    *)
(* the last Put of the key passed, unless that Put met a disabled cache    *)
(* (Put, Get, removeElement, Clear).                                       *)
(***************************************************************************)
ListMatchesMap == ToSet(KeysOf(ll)) = items /\ IsInjective(KeysOf(ll))

ValuesAreLatest ==
  \A e \in ToSet(ll) : e.key \notin dropped => e.value = latest[e.key]

CacheIsCoherent == ListMatchesMap /\ ValuesAreLatest

(***************************************************************************)
(* What is cached is exactly the most recently used keys, in the order of  *)
(* their last use, and no more of them than the capacity of an enabled     *)
(* cache: an eviction never takes a key that was used later than one that  *)
(* stays (Get, Put, evictOldest, Resize).                                  *)
(***************************************************************************)
HoldsMostRecent ==
  /\ KeysOf(ll) = SubSeq(recent, 1, Len(ll))
  /\ CacheEnabled => Len(ll) <= capacity
=============================================================================
