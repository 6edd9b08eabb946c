--------------------------------- MODULE TTL ---------------------------------
(***************************************************************************)
(* internal/ttl: the table of expiry times, shared by goroutines, and the  *)
(* clock.  Sweep reads the clock before it takes the lock, IsExpired after *)
(* it has released it: each is two steps, with the clock and other calls   *)
(* in between.  SetTTL reads the clock and calls Set, which takes any      *)
(* time, so it is Set here.  Remaining reads like IsExpired; ExpiresAt,    *)
(* NextExpiry, AllEntries, Keys and Len read under the lock.               *)
(*                                                                         *)
(* Time is counted in clock ticks, and runs far before and after what an   *)
(* int64 of nanoseconds holds, 1678 to 2262: time.Time{} is the year 1,    *)
(* and now plus the longest Duration is beyond the end.  The clock itself  *)
(* stays inside and does not run backwards.                                *)
(***************************************************************************)
EXTENDS Integers, FiniteSets, SequencesExt

CONSTANTS
  TTLKey,
  Never,     \* not a time: a key without an entry
  SetTime,   \* the times keys are set to expire at
  HalfWord,  \* 2^63 ticks
  MaxTime    \* bound: the last tick of the clock

ASSUME TTLAssumption ==
  /\ Never \notin Int /\ SetTime \subseteq Int
  /\ MaxTime \in Nat /\ HalfWord \in Nat \ {0} /\ MaxTime < HalfWord

VARIABLES
  now,      \* the clock
  expiry,   \* Manager.entries; Never for a key without one
  asking,   \* an IsExpired between its lookup and its look at the clock
  answer,   \* history: what it returned
  sweeping, \* the clock a Sweep has read, or Never
  due       \* history: the keys that had expired then

ttlVars == <<now, expiry, asking, answer, sweeping, due>>

NoAsk == [at |-> Never]

\* now.After(exp)
Expired(exp, t) == exp # Never /\ t > exp

\* A call of another goroutine that leaves the table as e.
TableBecomes(e) ==
  /\ expiry' = e
  /\ asking' = IF asking # NoAsk /\ e[asking.key] # expiry[asking.key]
                 THEN [asking EXCEPT !.changed = TRUE] ELSE asking
  /\ answer' = NoAsk
  /\ UNCHANGED now

Tick ==
  /\ now < MaxTime /\ now' = now + 1
  /\ answer' = NoAsk
  /\ UNCHANGED <<expiry, asking, sweeping, due>>

SetExpiry(k, t) == TableBecomes([expiry EXCEPT ![k] = t]) /\ UNCHANGED <<sweeping, due>>

RemoveExpiry(k) == TableBecomes([expiry EXCEPT ![k] = Never]) /\ UNCHANGED <<sweeping, due>>

ClearExpiry == TableBecomes([k \in TTLKey |-> Never]) /\ UNCHANGED <<sweeping, due>>

(***************************************************************************)
(* IsExpired.                                                              *)
(***************************************************************************)
AskLooksUp(k) ==
  /\ asking = NoAsk
  /\ asking' = [key |-> k, exp |-> expiry[k], at |-> now, changed |-> FALSE]
  /\ answer' = NoAsk
  /\ UNCHANGED <<now, expiry, sweeping, due>>

\* Wrong: a key expires at its time, not after it.
AnswerAtTime(a) == a.exp # Never /\ now >= a.exp

AnswerOf(a) == Expired(a.exp, now)

AskReadsClock ==
  /\ asking # NoAsk
  /\ answer' = [key |-> asking.key, exp |-> asking.exp, at |-> asking.at,
                changed |-> asking.changed, is |-> AnswerOf(asking)]
  /\ asking' = NoAsk
  /\ UNCHANGED <<now, expiry, sweeping, due>>

(***************************************************************************)
(* Sweep.                                                                  *)
(***************************************************************************)
SweepReadsClock ==
  /\ sweeping = Never
  /\ sweeping' = now
  /\ due' = {k \in TTLKey : Expired(expiry[k], now)}
  /\ answer' = NoAsk
  /\ UNCHANGED <<now, expiry, asking>>

\* Wrong: the keys are chosen before the lock is taken.
SweptBeforehand == due

\* The keys Sweep removes and returns.
Swept == {k \in TTLKey : Expired(expiry[k], sweeping)}

SweepRemoves ==
  /\ sweeping # Never
  /\ TableBecomes([k \in TTLKey |-> IF k \in Swept THEN Never ELSE expiry[k]])
  /\ sweeping' = Never /\ due' = {}

(***************************************************************************)
(* Encode and Decode.  Truncated data is refused and changes nothing.      *)
(***************************************************************************)
\* A time after UnixNano, which wraps, and time.Unix.
Stored(exp) == ((exp + HalfWord) % (2 * HalfWord)) - HalfWord

\* The table of a Decode of what Encode returned.
Reload ==
  /\ TableBecomes([k \in TTLKey |-> IF expiry[k] = Never THEN Never ELSE Stored(expiry[k])])
  /\ UNCHANGED <<sweeping, due>>

TTLInit ==
  /\ now = 0 /\ expiry = [k \in TTLKey |-> Never]
  /\ asking = NoAsk /\ answer = NoAsk /\ sweeping = Never /\ due = {}

TTLNext ==
  \/ Tick
  \/ \E k \in TTLKey : RemoveExpiry(k) \/ AskLooksUp(k) \/ \E t \in SetTime : SetExpiry(k, t)
  \/ ClearExpiry \/ AskReadsClock
  \/ SweepReadsClock \/ SweepRemoves
  \/ Reload

TTLSpec == TTLInit /\ [][TTLNext]_ttlVars

(***************************************************************************)
(* A Sweep removes only keys that have expired by the time it removes      *)
(* them, so a key renewed while the Sweep waited for the lock stays, and   *)
(* it removes every key that had expired when it was called and was not    *)
(* changed since (Sweep, Set).                                             *)
(***************************************************************************)
SweepTakesTheExpired ==
  [][(sweeping # Never /\ sweeping' = Never) =>
       \A k \in TTLKey :
         /\ expiry[k] # expiry'[k] => expiry[k] < now
         /\ expiry'[k] # Never => expiry'[k] >= sweeping]_ttlVars

(***************************************************************************)
(* IsExpired says no only of a key that had not expired when it was        *)
(* called, and yes only of one that has expired when it returns, unless    *)
(* the entry was changed between its two steps (IsExpired, Set).           *)
(***************************************************************************)
ExpiredAnswerIsTimely ==
  answer # NoAsk =>
    /\ ~answer.is => ~Expired(answer.exp, answer.at)
    /\ (answer.is /\ ~answer.changed) => Expired(expiry[answer.key], now)
=============================================================================
