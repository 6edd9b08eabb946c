---------------------------- MODULE SharedIndex ----------------------------
(***************************************************************************)
(* internal/index used by several goroutines at once, as its RWMutex       *)
(* allows.  (The store calls it under its own mutex: KeyIndex.)  Put,      *)
(* MarkDelete, Delete and LoadHint are one step each.  Range takes the     *)
(* sorted keys in one step and then locks once per key, so other calls     *)
(* fall in between; LiveEntries and WriteHint are built on it.  A location *)
(* is Live or a tombstone; a key that is gone when Range comes to it is    *)
(* given the zero Location, which is not a tombstone.                      *)
(***************************************************************************)
EXTENDS Naturals, Sequences, FiniteSets, SequencesExt

CONSTANTS
  IndexKey,       \* keys, numbered in their order
  MaxIndexSteps   \* bound: calls beside the Range

ASSUME SharedIndexAssumption == IndexKey \subseteq Nat /\ MaxIndexSteps \in Nat

VARIABLES
  m,        \* Index.m: "live", "tomb" (tombstoned) or "none" (not tracked), by key
  walk,     \* the Range in progress
  hintFile, \* what the last WriteHint wrote
  seen,     \* history: what each key has been since the Range began
  steps     \* counter for the bound

sharedIndexVars == <<m, walk, hintFile, seen, steps>>

NoWalk == [op |-> "none"]

Tracked == {k \in IndexKey : m[k] # "none"}

\* Another goroutine's call, during or between the calls of Range.
IndexBecomes(next) ==
  /\ steps < MaxIndexSteps /\ steps' = steps + 1
  /\ m' = next
  /\ seen' = [k \in IndexKey |-> seen[k] \cup {next[k]}]
  /\ UNCHANGED <<walk, hintFile>>

SharedPut(k, is) == IndexBecomes([m EXCEPT ![k] = is])

MarkDelete(k) == k \in Tracked /\ IndexBecomes([m EXCEPT ![k] = "tomb"])

IndexDelete(k) == k \in Tracked /\ IndexBecomes([m EXCEPT ![k] = "none"])

\* The first count entries that were written; a file with less is refused.
LoadHint ==
  /\ hintFile.count <= Len(hintFile.all)
  /\ LET loaded == SubSeq(hintFile.all, 1, hintFile.count)
     IN IndexBecomes([k \in IndexKey |->
          IF \E e \in ToSet(loaded) : e.key = k
            THEN (CHOOSE e \in ToSet(loaded) : e.key = k).is ELSE "none"])

\* Index.Keys: the tracked keys in ascending order, of which there is one list.
SharedKeys ==
  {keys \in [1 .. Cardinality(Tracked) -> Tracked] :
     /\ Tracked = {keys[i] : i \in DOMAIN keys}
     /\ \A i, j \in DOMAIN keys : i < j => keys[i] < keys[j]}

RangeBegins(op) ==
  /\ walk = NoWalk
  /\ \E keys \in SharedKeys : walk' = [op |-> op, keys |-> keys, out |-> <<>>]
  /\ seen' = [k \in IndexKey |-> {m[k]}]
  /\ UNCHANGED <<m, hintFile, steps>>

\* i.m[k] of a key that is gone is the zero Location.
LocationOf(k) == IF m[k] = "tomb" THEN "tomb" ELSE "live"

RangeVisits ==
  /\ walk # NoWalk /\ walk.keys # <<>>
  /\ walk' = [walk EXCEPT !.keys = Tail(@),
       !.out = Append(@, [key |-> Head(walk.keys), is |-> LocationOf(Head(walk.keys))])]
  /\ UNCHANGED <<m, hintFile, seen, steps>>

\* Wrong: tombstones are not skipped.
LiveOfAll(out) == ToSet(out)

\* The entries LiveEntries keeps, as a set.
LiveOf(out) == {e \in ToSet(out) : e.is = "live"}

LiveEntriesReturns ==
  /\ walk.op = "live" /\ walk.keys = <<>>
  /\ walk' = NoWalk
  /\ UNCHANGED <<m, hintFile, seen, steps>>

\* Wrong: the count is that of the live entries.
HintOfLive(out) == [count |-> Cardinality(LiveOf(out)), all |-> out]

\* What WriteHint writes: the count and the entries.
HintOf(out) == [count |-> Len(out), all |-> out]

\* WriteHint also calls LiveEntries first and drops the result.
WriteHint ==
  /\ walk.op = "hint" /\ walk.keys = <<>>
  /\ hintFile' = HintOf(walk.out)
  /\ walk' = NoWalk
  /\ UNCHANGED <<m, seen, steps>>

SharedIndexInit ==
  /\ m = [k \in IndexKey |-> "none"] /\ walk = NoWalk
  /\ hintFile = HintOf(<<>>)
  /\ seen = [k \in IndexKey |-> {"none"}]
  /\ steps = 0

SharedIndexNext ==
  \/ \E k \in IndexKey :
       MarkDelete(k) \/ IndexDelete(k) \/ \E is \in {"live", "tomb"} : SharedPut(k, is)
  \/ LoadHint
  \/ \E op \in {"live", "hint"} : RangeBegins(op)
  \/ RangeVisits \/ LiveEntriesReturns \/ WriteHint

SharedIndexSpec == SharedIndexInit /\ [][SharedIndexNext]_sharedIndexVars

(***************************************************************************)
(* The list LiveEntries returns has every key that was live all through    *)
(* the call, and no key that was tracked all through it and never live:    *)
(* only a key that another goroutine removed on the way can be listed      *)
(* without ever having been live (LiveEntries, Range, Delete).             *)
(***************************************************************************)
LiveEntriesAreLive ==
  (walk.op = "live" /\ walk.keys = <<>>) =>
    LET listed == {e.key : e \in LiveOf(walk.out)}
    IN \A k \in IndexKey :
         /\ (seen[k] = {"live"} => k \in listed)
         /\ (k \in listed => seen[k] \cap {"live", "none"} # {})

(***************************************************************************)
(* However writers interleave with WriteHint, LoadHint takes back of the   *)
(* file an entry for every key that was tracked all through the call, in a *)
(* state the key was in meanwhile (WriteHint, LoadHint).                   *)
(***************************************************************************)
HintHoldsTracked ==
  (walk.op = "hint" /\ walk.keys = <<>>) =>
    LET hint == HintOf(walk.out)
    IN \A k \in IndexKey : ("none" \notin seen[k]) =>
         \E i \in 1 .. hint.count : hint.all[i].key = k /\ hint.all[i].is \in seen[k]
=============================================================================
