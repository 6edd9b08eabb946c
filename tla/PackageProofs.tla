--------------------------- MODULE PackageProofs ---------------------------
(***************************************************************************)
(* Proofs about the packages that stand beside the store: bloom, ttl,      *)
(* stats, config and the index used by several goroutines, each under its  *)
(* own specification and for every value of its constants.                 *)
(***************************************************************************)
EXTENDS Bloom, TTL, Stats, Config, SharedIndex,
        FiniteSetTheorems, SequenceTheorems, TLAPS

(***************************************************************************)
(* bloom.  A filter holds exactly the bits of its items (NoFalseNegatives  *)
(* and NoStrayBits), for any filters, items, hashes and unions.            *)
(***************************************************************************)

\* The bits that a filter of w bits and k hashes has of the items in s.
BitsOf(s, w, k) == UNION {Positions(x, w, k) : x \in s}

(***************************************************************************)
(* The inductive invariant.  NoFalseNegatives and NoStrayBits alone say    *)
(* nothing of what WriteTo saved, which ReadFrom brings back.              *)
(***************************************************************************)
ExactBits ==
  /\ BloomTypeOK
  /\ \A f \in Filter : filter[f].bits = BitsOf(added[f], filter[f].m, filter[f].k)
  /\ saved.bits = BitsOf(savedItems, saved.m, saved.k)

\* The positions Add sets are numbers, whatever the hashes wrap to.
LEMMA PositionsAreNumbers ==
  ASSUME NEW x \in Item, NEW w \in Nat \ {0}, NEW k \in Nat
  PROVE  Positions(x, w, k) \subseteq Nat
<1>1. HashRange \in Nat \ {0} /\ Hash1[x] \in Nat /\ SecondHash(x) \in Nat
  BY BloomAssumption DEF SecondHash
<1>2. SUFFICES ASSUME NEW i \in 0 .. k - 1
               PROVE  ((Hash1[x] + i * SecondHash(x)) % HashRange) % w \in Nat
  BY DEF Positions
<1>3. i * SecondHash(x) \in Nat
  BY <1>1
<1>4. Hash1[x] + i * SecondHash(x) \in Nat
  BY <1>1, <1>3
<1>5. \A a \in Nat, b \in Nat \ {0} : a % b \in Nat
  OBVIOUS
<1> QED
  BY <1>1, <1>4, <1>5

\* What Add does to the bits: those of one more item.
LEMMA BitsOfOneMore ==
  ASSUME NEW s, NEW x, NEW w, NEW k
  PROVE  BitsOf(s \cup {x}, w, k) = BitsOf(s, w, k) \cup Positions(x, w, k)
BY DEF BitsOf

\* What Union does to them: those of the items of both.
LEMMA BitsOfBoth ==
  ASSUME NEW s, NEW t, NEW w, NEW k
  PROVE  BitsOf(s \cup t, w, k) = BitsOf(s, w, k) \cup BitsOf(t, w, k)
BY DEF BitsOf

LEMMA BitsOfNone ==
  ASSUME NEW w, NEW k
  PROVE  BitsOf({}, w, k) = {}
BY DEF BitsOf

\* A new filter is empty (New).
LEMMA ExactBitsInit == BloomInit => ExactBits
<1> SUFFICES ASSUME BloomInit PROVE ExactBits
  OBVIOUS
<1>1. BloomTypeOK
  BY BloomAssumption DEF BloomInit, BloomTypeOK, Unreadable
<1> QED
  BY <1>1, BitsOfNone DEF BloomInit, ExactBits, Unreadable

\* Every method keeps the bits exact.
LEMMA ExactBitsNext == ExactBits /\ [BloomNext]_bloomVars => ExactBits'
<1> SUFFICES ASSUME ExactBits, [BloomNext]_bloomVars PROVE ExactBits'
  OBVIOUS
<1> USE DEF ExactBits
<1>1. ASSUME NEW f \in Filter, NEW x \in Item, BloomAdd(f, x) PROVE ExactBits'
  <2>1. Positions(x, filter[f].m, filter[f].k) \subseteq Nat
    BY PositionsAreNumbers DEF BloomTypeOK
  <2>2. BloomTypeOK'
    BY <1>1, <2>1 DEF BloomAdd, BloomTypeOK
  <2>3. ASSUME NEW g \in Filter
        PROVE  filter'[g].bits = BitsOf(added'[g], filter'[g].m, filter'[g].k)
    <3>1. CASE g = f
      <4>1. /\ filter'[f].bits = filter[f].bits \cup Positions(x, filter[f].m, filter[f].k)
            /\ filter'[f].m = filter[f].m /\ filter'[f].k = filter[f].k
            /\ added'[f] = added[f] \cup {x}
        BY <1>1 DEF BloomAdd, BloomTypeOK
      <4>2. filter[f].bits = BitsOf(added[f], filter[f].m, filter[f].k)
        OBVIOUS
      <4> HIDE DEF ExactBits
      <4> QED
        BY <3>1, <4>1, <4>2, BitsOfOneMore
    <3>2. CASE g # f
      BY <1>1, <3>2 DEF BloomAdd, BloomTypeOK
    <3> QED BY <3>1, <3>2
  <2> QED
    BY <1>1, <2>2, <2>3 DEF BloomAdd
<1>2. ASSUME NEW f \in Filter, BloomReset(f) PROVE ExactBits'
  <2>1. BloomTypeOK'
    BY <1>2 DEF BloomReset, BloomTypeOK
  <2>2. ASSUME NEW g \in Filter
        PROVE  filter'[g].bits = BitsOf(added'[g], filter'[g].m, filter'[g].k)
    <3>1. CASE g = f
      BY <1>2, <3>1, BitsOfNone DEF BloomReset, BloomTypeOK
    <3>2. CASE g # f
      BY <1>2, <3>2 DEF BloomReset, BloomTypeOK
    <3> QED BY <3>1, <3>2
  <2> QED
    BY <1>2, <2>1, <2>2 DEF BloomReset
<1>3. ASSUME NEW f \in Filter, BloomWriteTo(f) PROVE ExactBits'
  BY <1>3 DEF BloomWriteTo, BloomTypeOK
<1>4. ASSUME NEW f \in Filter, BloomWriteFails(f) PROVE ExactBits'
  BY <1>4, BitsOfNone DEF BloomWriteFails, BloomTypeOK, Unreadable
<1>5. ASSUME NEW f \in Filter, BloomReadFrom(f) PROVE ExactBits'
  <2>1. BloomTypeOK'
    BY <1>5 DEF BloomReadFrom, BloomTypeOK
  <2>2. ASSUME NEW g \in Filter
        PROVE  filter'[g].bits = BitsOf(added'[g], filter'[g].m, filter'[g].k)
    BY <1>5 DEF BloomReadFrom, BloomTypeOK
  <2> QED
    BY <1>5, <2>1, <2>2 DEF BloomReadFrom
<1>6. ASSUME NEW f \in Filter, UnionJoins(f) PROVE ExactBits'
  <2> DEFINE other == uniting[f]
  <2>1. other \in Filter
    BY DEF BloomTypeOK
  <2>2. BloomTypeOK'
    BY <1>6, <2>1 DEF UnionJoins, BloomTypeOK
  <2>3. ASSUME NEW g \in Filter
        PROVE  filter'[g].bits = BitsOf(added'[g], filter'[g].m, filter'[g].k)
    <3>1. CASE g = f
      <4>1. filter'[f].bits = filter[f].bits \cup filter[other].bits
        BY <1>6 DEF UnionJoins, BloomTypeOK
      <4>2. /\ filter'[f].m = filter[f].m /\ filter'[f].k = filter[f].k
            /\ added'[f] = added[f] \cup added[other]
        BY <1>6 DEF UnionJoins, BloomTypeOK
      <4>3. filter[other].m = filter[f].m /\ filter[other].k = filter[f].k
        BY <1>6 DEF UnionJoins, SameParameters
      <4> QED
        BY <2>1, <3>1, <4>1, <4>2, <4>3, BitsOfBoth
    <3>2. CASE g # f
      BY <1>6, <3>2 DEF UnionJoins, BloomTypeOK
    <3> QED BY <3>1, <3>2
  <2> QED
    BY <1>6, <2>2, <2>3 DEF UnionJoins
<1>7. ASSUME NEW f \in Filter, UnionRefused(f) PROVE ExactBits'
  BY <1>7 DEF UnionRefused, BloomTypeOK
<1>8. ASSUME NEW p \in UnionPairs, UnionLocks(p[1], p[2]) PROVE ExactBits'
  BY <1>8, BloomAssumption DEF UnionLocks, BloomTypeOK
<1>9. CASE UNCHANGED bloomVars
  BY <1>9 DEF bloomVars, BloomTypeOK
<1> QED
  BY <1>1, <1>2, <1>3, <1>4, <1>5, <1>6, <1>7, <1>8, <1>9 DEF BloomNext

(***************************************************************************)
(* bloom.go's promise, "False means key is definitely absent" (MayContain) *)
(* for filters of any size and any hash functions, through every Add,      *)
(* Union, Reset, WriteTo and ReadFrom of any number of goroutines.         *)
(***************************************************************************)
THEOREM NeverFalselyAbsent == BloomSpec => []NoFalseNegatives
<1>1. ExactBits => NoFalseNegatives
  BY DEF ExactBits, NoFalseNegatives, MayContain, BitsOf
<1> QED
  BY <1>1, ExactBitsInit, ExactBitsNext, PTL DEF BloomSpec

(***************************************************************************)
(* And no filter ever has a bit that none of its items accounts for:       *)
(* Reset, a refused Union and ReadFrom leave nothing behind.               *)
(***************************************************************************)
THEOREM NeverAStrayBit == BloomSpec => []NoStrayBits
<1>1. ExactBits => NoStrayBits
  BY DEF ExactBits, NoStrayBits, BitsOf
<1> QED
  BY <1>1, ExactBitsInit, ExactBitsNext, PTL DEF BloomSpec

(***************************************************************************)
(* ttl.  The clock an IsExpired or a Sweep works with is never ahead of    *)
(* the clock, and an IsExpired that no call has disturbed works with the   *)
(* entry of the table.                                                     *)
(***************************************************************************)
Clock == 0 .. MaxTime
Times == Int \cup {Never}
Asking == [key : TTLKey, exp : Times, at : Clock, changed : BOOLEAN]

TTLInv ==
  /\ now \in Clock
  /\ expiry \in [TTLKey -> Times]
  /\ sweeping \in Clock \cup {Never} /\ (sweeping # Never => sweeping <= now)
  /\ asking \in Asking \cup {NoAsk}
  /\ asking # NoAsk => asking.at <= now /\ (asking.changed \/ asking.exp = expiry[asking.key])
  /\ ExpiredAnswerIsTimely

\* Times are integers, and Never is none of them.
LEMMA TimeTypes ==
  /\ MaxTime \in Nat /\ (\A t \in Times : t # Never => t \in Int)
  /\ \A t \in Clock : t \in Nat /\ t \in Int
  /\ Never \notin Clock /\ Never \in Times
  /\ \A t \in Clock : t <= MaxTime
  /\ SetTime \subseteq Times
BY TTLAssumption DEF Times, Clock

\* A call under way is told apart from none.
LEMMA AskingIsNotNoAsk == \A a \in Asking : a # NoAsk
BY TimeTypes DEF Asking, NoAsk

\* Set, Remove, Clear, Sweep and Decode, beside an IsExpired.
LEMMA TableInv ==
  ASSUME TTLInv, NEW e \in [TTLKey -> Times], TableBecomes(e),
         sweeping' \in {sweeping, Never}
  PROVE  TTLInv'
<1>1. expiry' = e /\ now' = now /\ answer' = NoAsk
  BY DEF TableBecomes
<1>2. CASE asking = NoAsk
  <2>1. asking' = NoAsk
    BY <1>2 DEF TableBecomes
  <2> QED
    BY <1>1, <2>1 DEF TTLInv, ExpiredAnswerIsTimely
<1>3. CASE asking # NoAsk /\ e[asking.key] # expiry[asking.key]
  <2>1. asking \in Asking /\ asking' = [asking EXCEPT !.changed = TRUE]
    BY <1>3 DEF TableBecomes, TTLInv
  <2>2. asking' \in Asking /\ asking'.changed /\ asking'.at = asking.at
    BY <2>1 DEF Asking
  <2> QED
    BY <1>1, <1>3, <2>2 DEF TTLInv, ExpiredAnswerIsTimely
<1>4. CASE asking # NoAsk /\ e[asking.key] = expiry[asking.key]
  <2>1. asking' = asking
    BY <1>4 DEF TableBecomes
  <2> QED
    BY <1>1, <1>4, <2>1 DEF TTLInv, ExpiredAnswerIsTimely
<1> QED
  BY <1>2, <1>3, <1>4

\* Every step keeps the invariant.
LEMMA NextTTLInv == TTLInv /\ [TTLNext]_ttlVars => TTLInv'
<1> SUFFICES ASSUME TTLInv, [TTLNext]_ttlVars PROVE TTLInv'
  OBVIOUS
<1>1. CASE UNCHANGED ttlVars
  BY <1>1 DEF ttlVars, TTLInv, ExpiredAnswerIsTimely
<1>2. CASE Tick
  <2>1. /\ now \in Clock /\ now < MaxTime /\ now' = now + 1 /\ answer' = NoAsk
        /\ UNCHANGED <<expiry, asking, sweeping>>
    BY <1>2 DEF Tick, TTLInv
  <2>2. now \in Nat /\ now' \in Clock /\ now <= now'
    BY <2>1, TimeTypes DEF Clock
  <2>3. sweeping # Never => sweeping \in Nat
    BY TimeTypes DEF TTLInv
  <2>4. asking # NoAsk => asking.at \in Nat
    BY TimeTypes DEF TTLInv, Asking
  <2> QED
    BY <2>1, <2>2, <2>3, <2>4 DEF TTLInv, ExpiredAnswerIsTimely
<1>3. ASSUME NEW k \in TTLKey, NEW t \in SetTime, SetExpiry(k, t) PROVE TTLInv'
  <2>1. [expiry EXCEPT ![k] = t] \in [TTLKey -> Times]
    BY TimeTypes DEF TTLInv
  <2> QED
    BY <1>3, <2>1, TableInv DEF SetExpiry
<1>4. ASSUME NEW k \in TTLKey, RemoveExpiry(k) PROVE TTLInv'
  <2>1. [expiry EXCEPT ![k] = Never] \in [TTLKey -> Times]
    BY TimeTypes DEF TTLInv
  <2> QED
    BY <1>4, <2>1, TableInv DEF RemoveExpiry
<1>5. CASE ClearExpiry
  BY <1>5, TimeTypes, TableInv DEF ClearExpiry
<1>6. ASSUME NEW k \in TTLKey, AskLooksUp(k) PROVE TTLInv'
  <2>1. /\ asking' = [key |-> k, exp |-> expiry[k], at |-> now, changed |-> FALSE]
        /\ answer' = NoAsk /\ UNCHANGED <<now, expiry, sweeping>>
    BY <1>6 DEF AskLooksUp
  <2>2. now \in Clock /\ expiry[k] \in Times /\ now \in Nat
    BY TimeTypes DEF TTLInv
  <2>3. /\ asking' \in Asking /\ asking'.at = now /\ asking'.exp = expiry[k] /\ asking'.key = k
    BY <2>1, <2>2 DEF Asking
  <2> QED
    BY <2>1, <2>2, <2>3 DEF TTLInv, ExpiredAnswerIsTimely
<1>7. CASE AskReadsClock
  <2>1. /\ asking # NoAsk /\ asking' = NoAsk /\ UNCHANGED <<now, expiry, sweeping>>
        /\ answer' = [key |-> asking.key, exp |-> asking.exp, at |-> asking.at,
                      changed |-> asking.changed, is |-> Expired(asking.exp, now)]
    BY <1>7 DEF AskReadsClock, AnswerOf
  <2>2. /\ asking \in Asking /\ asking.at <= now
        /\ asking.changed \/ asking.exp = expiry[asking.key]
    BY <2>1 DEF TTLInv
  <2>3. asking.at \in Clock /\ now \in Clock /\ asking.exp \in Times
    BY <2>2 DEF Asking, TTLInv
  <2>4. Expired(asking.exp, asking.at) => Expired(asking.exp, now)
    BY <2>2, <2>3, TimeTypes DEF Expired
  <2>5. ExpiredAnswerIsTimely'
    BY <2>1, <2>2, <2>4 DEF ExpiredAnswerIsTimely, Expired
  <2> QED
    BY <2>1, <2>5 DEF TTLInv
<1>8. CASE SweepReadsClock
  BY <1>8, TimeTypes DEF SweepReadsClock, TTLInv, ExpiredAnswerIsTimely
<1>9. CASE SweepRemoves
  <2>1. [k \in TTLKey |-> IF k \in Swept THEN Never ELSE expiry[k]] \in [TTLKey -> Times]
    BY TimeTypes DEF TTLInv
  <2> QED
    BY <1>9, <2>1, TableInv DEF SweepRemoves
<1>10. CASE Reload
  <2>1. ASSUME NEW t \in Int PROVE Stored(t) \in Int
    BY TTLAssumption DEF Stored
  <2>2. [k \in TTLKey |-> IF expiry[k] = Never THEN Never ELSE Stored(expiry[k])]
          \in [TTLKey -> Times]
    BY <2>1, TimeTypes DEF TTLInv, Times
  <2> QED
    BY <1>10, <2>2, TableInv DEF Reload
<1> QED
  BY <1>1, <1>2, <1>3, <1>4, <1>5, <1>6, <1>7, <1>8, <1>9, <1>10 DEF TTLNext

\* Initially no key expires.
LEMMA InitTTLInv == TTLInit => TTLInv
BY TimeTypes DEF TTLInit, TTLInv, ExpiredAnswerIsTimely, Clock

(***************************************************************************)
(* An answer of IsExpired holds of some moment of the call, whatever the   *)
(* clock and the other goroutines do between its two steps.                *)
(***************************************************************************)
THEOREM AnswersAreTimely == TTLSpec => []ExpiredAnswerIsTimely
<1>1. TTLInv => ExpiredAnswerIsTimely
  BY DEF TTLInv
<1> QED
  BY InitTTLInv, NextTTLInv, <1>1, PTL DEF TTLSpec

(***************************************************************************)
(* A Sweep takes every expired key and no renewed one.                     *)
(***************************************************************************)
THEOREM SweepIsExact == TTLSpec => SweepTakesTheExpired
<1>1. ASSUME TTLInv, [TTLNext]_ttlVars, sweeping # Never, sweeping' = Never, NEW k \in TTLKey
      PROVE  /\ expiry[k] # expiry'[k] => expiry[k] < now
             /\ expiry'[k] # Never => expiry'[k] >= sweeping
  <2>1. SweepRemoves
    BY <1>1 DEF TTLNext, ttlVars, Tick, RemoveExpiry, AskLooksUp, SetExpiry, ClearExpiry,
       AskReadsClock, SweepReadsClock, Reload
  <2>2. expiry'[k] = IF k \in Swept THEN Never ELSE expiry[k]
    BY <2>1 DEF SweepRemoves, TableBecomes
  <2>3. expiry[k] \in Times /\ sweeping \in Clock /\ now \in Clock /\ sweeping <= now
    BY <1>1 DEF TTLInv
  <2> QED
    BY <2>2, <2>3, TimeTypes DEF Swept, Expired
<1>2. TTLInv /\ [TTLNext]_ttlVars =>
        [(sweeping # Never /\ sweeping' = Never) =>
           \A k \in TTLKey :
             /\ expiry[k] # expiry'[k] => expiry[k] < now
             /\ expiry'[k] # Never => expiry'[k] >= sweeping]_ttlVars
  BY <1>1
<1> QED
  BY InitTTLInv, NextTTLInv, <1>2, PTL DEF TTLSpec, SweepTakesTheExpired

(***************************************************************************)
(* stats, the history.                                                     *)
(***************************************************************************)
HistoryInv ==
  /\ lastID \in Nat /\ clearedID \in Nat /\ clearedID <= lastID
  /\ HistoryKeepsLatest

\* The events from one to another, as a list.
Numbers(first, n) == [i \in 1 .. n |-> first + i]

\* Dropping the first of them and adding the next one.
LEMMA NumbersShift ==
  ASSUME NEW first \in Nat, NEW n \in Nat
  PROVE  /\ Len(Numbers(first, n)) = n /\ Numbers(first, n) \in Seq(Nat)
         /\ Append(Numbers(first, n), first + n + 1) = Numbers(first, n + 1)
         /\ n > 0 => Tail(Numbers(first, n)) = Numbers(first + 1, n - 1)
<1>1. Len(Numbers(first, n)) = n /\ Numbers(first, n) \in Seq(Nat)
  BY DEF Numbers
<1>2. Append(Numbers(first, n), first + n + 1) = Numbers(first, n + 1)
  BY <1>1 DEF Numbers
<1>3. n > 0 => Tail(Numbers(first, n)) = Numbers(first + 1, n - 1)
  BY <1>1 DEF Numbers
<1> QED
  BY <1>1, <1>2, <1>3

\* Every step keeps the invariant.
LEMMA NextHistoryInv == HistoryInv /\ [HistoryNext]_historyVars => HistoryInv'
<1> SUFFICES ASSUME HistoryInv, [HistoryNext]_historyVars PROVE HistoryInv'
  OBVIOUS
<1> DEFINE since == lastID - clearedID
           kept == IF since < HistoryCap THEN since ELSE HistoryCap
<1>0. /\ lastID \in Nat /\ clearedID \in Nat /\ clearedID <= lastID /\ HistoryCap \in Nat \ {0}
      /\ since \in Nat /\ kept \in Nat /\ kept <= since /\ lastID - kept \in Nat
  BY StatsAssumption DEF HistoryInv
<1>1. events = Numbers(lastID - kept, kept)
  BY DEF HistoryInv, HistoryKeepsLatest, Numbers
<1>2. CASE UNCHANGED historyVars
  BY <1>2 DEF historyVars, HistoryInv, HistoryKeepsLatest
<1>3. CASE ClearEvents
  BY <1>0, <1>3 DEF ClearEvents, HistoryInv, HistoryKeepsLatest
<1>4. CASE AddEvent
  <2>1. /\ lastID' = lastID + 1 /\ clearedID' = clearedID
        /\ events' = Append(Shifted(events), lastID + 1)
    BY <1>4 DEF AddEvent
  <2>2. Len(events) = kept
    BY <1>0, <1>1, NumbersShift
  <2>3. PICK first \in Nat, n \in Nat : first = lastID - kept /\ n = kept
    BY <1>0
  <2>4. first + n + 1 = lastID + 1 /\ events = Numbers(first, n) /\ Len(events) = n
    BY <1>0, <1>1, <2>2, <2>3
  <2>5. CASE since < HistoryCap
    <3>1. n < HistoryCap /\ n = since
      BY <2>3, <2>5
    <3>2. Shifted(events) = Numbers(first, n)
      BY <1>0, <2>4, <3>1 DEF Shifted
    <3>3. events' = Numbers(first, n + 1)
      BY <2>1, <2>4, <3>2, NumbersShift
    <3>4. /\ lastID' - clearedID' = n + 1 /\ lastID' - (n + 1) = first
          /\ n + 1 = IF n + 1 < HistoryCap THEN n + 1 ELSE HistoryCap
      BY <1>0, <2>1, <2>4, <3>1
    <3>5. HistoryKeepsLatest'
      BY <3>3, <3>4 DEF HistoryKeepsLatest, Numbers
    <3> QED
      BY <1>0, <2>1, <3>5 DEF HistoryInv
  <2>6. CASE ~(since < HistoryCap)
    <3>1. n = HistoryCap /\ n > 0 /\ n - 1 \in Nat /\ first + 1 \in Nat
      BY <1>0, <2>3, <2>6
    <3>2. Shifted(events) = Numbers(first + 1, n - 1)
      <4>1. Shifted(events) = Tail(events)
        BY <2>4, <3>1 DEF Shifted
      <4>2. Tail(Numbers(first, n)) = Numbers(first + 1, n - 1)
        BY <3>1, NumbersShift
      <4> QED
        BY <2>4, <4>1, <4>2
    <3>3. Append(Numbers(first + 1, n - 1), (first + 1) + (n - 1) + 1) = Numbers(first + 1, (n - 1) + 1)
      BY <3>1, NumbersShift
    <3>4. (first + 1) + (n - 1) + 1 = lastID + 1 /\ (n - 1) + 1 = n
      BY <2>4, <3>1
    <3>5. events' = Numbers(first + 1, n)
      BY <2>1, <3>2, <3>3, <3>4
    <3>6. ~(lastID' - clearedID' < HistoryCap) /\ lastID' - HistoryCap = first + 1
      BY <1>0, <2>1, <2>4, <2>6, <3>1
    <3>7. HistoryKeepsLatest'
      BY <3>1, <3>5, <3>6, StatsAssumption DEF HistoryKeepsLatest, Numbers
    <3> QED
      BY <1>0, <2>1, <3>7 DEF HistoryInv
  <2> QED
    BY <2>5, <2>6
<1> QED
  BY <1>2, <1>3, <1>4 DEF HistoryNext

\* Initially there are no events.
LEMMA InitHistoryInv == HistoryInit => HistoryInv
BY StatsAssumption DEF HistoryInit, HistoryInv, HistoryKeepsLatest

(***************************************************************************)
(* The history holds the last events since Clear, in their order, for any  *)
(* capacity.                                                               *)
(***************************************************************************)
THEOREM HistoryAlwaysKeepsLatest == HistorySpec => []HistoryKeepsLatest
<1>1. HistoryInv => HistoryKeepsLatest
  BY DEF HistoryInv
<1> QED
  BY InitHistoryInv, NextHistoryInv, <1>1, PTL DEF HistorySpec

(***************************************************************************)
(* config.                                                                 *)
(***************************************************************************)
Layer == [sync : {"none", "every_write", "interval"}, interval : Int, number : Int]

ConfigInv ==
  /\ configFile \in Layer \cup {Absent, TornFile}
  /\ base \in Layer \cup {Absent} /\ config \in Layer \cup {Absent} /\ overrides \in Layer
  /\ negative \in BOOLEAN
  /\ config # Absent => base # Absent
  /\ LayersMergeSoundly

\* A configuration is told apart from an error and from a torn file.
LEMMA LayerTypes ==
  /\ Configs \subseteq Layer /\ Zero \in Layer /\ Default \in Layer
  /\ \A c \in Layer : c # Absent /\ c # TornFile
  /\ Absent # TornFile
<1>1. Configs \subseteq Layer
  BY ConfigAssumption DEF Configs, Layer
<1>2. Zero \in Layer /\ Default \in Layer
  BY ConfigAssumption DEF Layer, Zero, Default
<1>3. ASSUME NEW c \in Layer PROVE c # Absent /\ c # TornFile
  <2>1. "is" \notin DOMAIN c
    BY DEF Layer
  <2>2. "is" \in DOMAIN Absent /\ "is" \in DOMAIN TornFile
    BY DEF Absent, TornFile
  <2> QED
    BY <2>1, <2>2
<1>4. Absent # TornFile
  <2>1. Absent.is = "absent" /\ TornFile.is = "torn"
    BY DEF Absent, TornFile
  <2> QED
    BY <2>1
<1> QED
  BY <1>1, <1>2, <1>3, <1>4

\* Merging is a monoid: Zero overrides nothing, and layers may be grouped.
LEMMA MergedIsMonoid ==
  /\ \A b, o \in Layer : Merged(b, o) \in Layer
  /\ \A b \in Layer : Merged(b, Zero) = b
  /\ \A b, o, p \in Layer : Merged(Merged(b, o), p) = Merged(b, Merged(o, p))
<1>1. \A b, o \in Layer : Merged(b, o) \in Layer
  BY DEF Layer, Merged, Over
<1>2. \A b \in Layer : Merged(b, Zero) = b
  BY DEF Layer, Merged, Over, Zero
<1>3. \A b, o, p \in Layer : Merged(Merged(b, o), p) = Merged(b, Merged(o, p))
  BY DEF Layer, Merged, Over
<1> QED
  BY <1>1, <1>2, <1>3

\* A valid layer without a negative interval keeps a configuration valid.
LEMMA MergedIsValid ==
  ASSUME NEW b \in Layer, NEW o \in Layer, ValidConfig(b), ValidConfig(o), o.interval >= 0
  PROVE  ValidConfig(Merged(b, o))
BY DEF Layer, Merged, Over, ValidConfig

\* Every step keeps the invariant.
LEMMA NextConfigInv == ConfigInv /\ [ConfigNext]_configVars => ConfigInv'
<1> SUFFICES ASSUME ConfigInv, [ConfigNext]_configVars PROVE ConfigInv'
  OBVIOUS
<1>1. CASE UNCHANGED configVars
  BY <1>1 DEF configVars, ConfigInv, LayersMergeSoundly
<1>2. CASE (\E c \in Configs : ConfigSave(c)) \/ ConfigSaveTorn
  BY <1>2, LayerTypes DEF ConfigSave, ConfigSaveTorn, ConfigInv, LayersMergeSoundly
<1>3. CASE ConfigLoad
  <2>1. /\ base' = LoadedConfig(configFile) /\ config' = base' /\ overrides' = Zero
        /\ negative' = (base' # Absent /\ base'.interval < 0) /\ configFile' = configFile
    BY <1>3 DEF ConfigLoad
  <2>2. base' \in Layer \cup {Absent} /\ (base' # Absent => ValidConfig(base'))
    <3>1. ValidConfig(Default)
      BY ConfigAssumption DEF ValidConfig, Default
    <3> QED
      BY <2>1, <3>1, LayerTypes DEF LoadedConfig, ConfigInv
  <2>3. config' # Absent => config' = Merged(base', overrides')
    BY <2>1, <2>2, MergedIsMonoid
  <2> QED
    BY <2>1, <2>2, <2>3, LayerTypes DEF ConfigInv, LayersMergeSoundly
<1>4. ASSUME NEW o \in Configs, Override(o) PROVE ConfigInv'
  <2>1. /\ config # Absent /\ ValidConfig(o) /\ config' = Merged(config, o)
        /\ overrides' = Merged(overrides, o) /\ UNCHANGED <<configFile, base>>
        /\ negative' = (negative \/ o.interval < 0)
    BY <1>4 DEF Override
  <2>2. /\ o \in Layer /\ config \in Layer /\ base \in Layer /\ overrides \in Layer
        /\ config = Merged(base, overrides) /\ (~negative => ValidConfig(config))
    BY <2>1, LayerTypes DEF ConfigInv, LayersMergeSoundly
  <2>3. config' \in Layer /\ overrides' \in Layer /\ config' = Merged(base, overrides')
    BY <2>1, <2>2, MergedIsMonoid
  <2>4. ASSUME ~negative' PROVE ValidConfig(config')
    <3>1. ~negative /\ ~(o.interval < 0)
      BY <2>1, <2>4, Zenon
    <3>2. o.interval \in Int
      BY <2>2 DEF Layer
    <3>3. o.interval >= 0
      BY <3>1, <3>2
    <3> QED
      BY <2>1, <2>2, <3>1, <3>3, MergedIsValid
  <2> QED
    BY <2>1, <2>2, <2>3, <2>4 DEF ConfigInv, LayersMergeSoundly
<1> QED
  BY <1>1, <1>2, <1>3, <1>4 DEF ConfigNext

\* Initially nothing was loaded.
LEMMA InitConfigInv == ConfigInit => ConfigInv
BY LayerTypes DEF ConfigInit, ConfigInv, LayersMergeSoundly

(***************************************************************************)
(* Layers of valid configurations give a valid one, in whatever grouping   *)
(* they are merged, for any number of layers and any fields.               *)
(***************************************************************************)
THEOREM LayersAlwaysMergeSoundly == ConfigSpec => []LayersMergeSoundly
<1>1. ConfigInv => LayersMergeSoundly
  BY DEF ConfigInv
<1> QED
  BY InitConfigInv, NextConfigInv, <1>1, PTL DEF ConfigSpec

(***************************************************************************)
(* index used by several goroutines.  LiveEntries and WriteHint report     *)
(* each key in a state it was in meanwhile (LiveEntriesAreLive and         *)
(* HintHoldsTracked), for any keys and any number of calls beside Range.   *)
(***************************************************************************)

\* What Range collects: a key and whether its location is a tombstone.
WalkEntry == [key : IndexKey, is : {"live", "tomb"}]

\* A list of entries tells of each key no more than it has been.
Witnessed(out) ==
  \A i \in 1 .. Len(out) :
    /\ (out[i].is = "tomb" => "tomb" \in seen[out[i].key])
    /\ (out[i].is = "live" => seen[out[i].key] \cap {"live", "none"} # {})

\* A key that has been tracked all along is still to be visited or is collected.
Covered(keys, out) ==
  \A k \in IndexKey :
    \/ "none" \in seen[k]
    \/ \E i \in 1 .. Len(keys) : keys[i] = k
    \/ \E i \in 1 .. Len(out) : out[i].key = k

\* The Range in progress.
WalkInv ==
  walk # NoWalk =>
    /\ walk = [op |-> walk.op, keys |-> walk.keys, out |-> walk.out]
    /\ walk.keys \in Seq(IndexKey) /\ walk.out \in Seq(WalkEntry)
    /\ Witnessed(walk.out) /\ Covered(walk.keys, walk.out)

(***************************************************************************)
(* The inductive invariant: besides the Range, the history follows the     *)
(* index, and what is tracked is finite, so that Keys has a list of it.    *)
(***************************************************************************)
SharedIndexInv ==
  /\ m \in [IndexKey -> {"live", "tomb", "none"}] /\ IsFiniteSet(Tracked)
  /\ seen \in [IndexKey -> SUBSET {"live", "tomb", "none"}]
  /\ \A k \in IndexKey : m[k] \in seen[k]
  /\ hintFile.count \in Nat /\ hintFile.all \in Seq(WalkEntry)
  /\ WalkInv

\* Another goroutine's call keeps the invariant: the history only grows.
LEMMA IndexBecomesInv ==
  ASSUME SharedIndexInv, NEW next \in [IndexKey -> {"live", "tomb", "none"}],
         IsFiniteSet({k \in IndexKey : next[k] # "none"}), IndexBecomes(next)
  PROVE  SharedIndexInv'
<1>1. /\ m' = next /\ seen' = [k \in IndexKey |-> seen[k] \cup {next[k]}]
      /\ UNCHANGED <<walk, hintFile>>
  BY DEF IndexBecomes
<1>2. IsFiniteSet(Tracked)'
  BY <1>1 DEF Tracked
<1>3. /\ seen' \in [IndexKey -> SUBSET {"live", "tomb", "none"}]
      /\ \A k \in IndexKey : m'[k] \in seen'[k] /\ seen[k] \subseteq seen'[k]
  BY <1>1 DEF SharedIndexInv
<1>4. WalkInv'
  <2> SUFFICES ASSUME walk # NoWalk
               PROVE  Witnessed(walk.out)' /\ Covered(walk.keys, walk.out)'
    BY <1>1 DEF SharedIndexInv, WalkInv
  <2>1. walk.out \in Seq(WalkEntry) /\ Witnessed(walk.out) /\ Covered(walk.keys, walk.out)
    BY DEF SharedIndexInv, WalkInv
  <2>2. ASSUME NEW i \in 1 .. Len(walk.out) PROVE walk.out[i].key \in IndexKey
    <3>1. walk.out[i] \in WalkEntry
      BY <2>1
    <3> QED
      BY <3>1 DEF WalkEntry
  <2>3. Witnessed(walk.out)'
    BY <1>1, <1>3, <2>1, <2>2 DEF Witnessed
  <2>4. \A k \in IndexKey :
          \/ "none" \in seen'[k]
          \/ \E i \in 1 .. Len(walk.keys) : walk.keys[i] = k
          \/ \E i \in 1 .. Len(walk.out) : walk.out[i].key = k
    BY <1>3, <2>1 DEF Covered
  <2> QED
    BY <1>1, <2>3, <2>4 DEF Covered
<1> QED
  BY <1>1, <1>2, <1>3, <1>4 DEF SharedIndexInv

\* What LoadHint reads is a list of entries, so the keys it tracks are finite.
LEMMA LoadedIsFinite ==
  ASSUME NEW s \in Seq(WalkEntry)
  PROVE  IsFiniteSet({k \in IndexKey : \E e \in ToSet(s) : e.key = k})
<1> DEFINE at == 1 .. Len(s)
           keysOf == {s[i].key : i \in at}
<1>1. IsFiniteSet(at)
  BY FS_Interval
<1>2. [i \in at |-> s[i].key] \in Surjection(at, keysOf)
  BY DEF Surjection
<1>3. IsFiniteSet(keysOf)
  BY <1>1, <1>2, FS_Surjection
<1>4. {k \in IndexKey : \E e \in ToSet(s) : e.key = k} \subseteq keysOf
  BY DEF ToSet
<1> QED
  BY <1>3, <1>4, FS_Subset

\* LoadHint keeps the invariant.
LEMMA LoadHintInv ==
  ASSUME SharedIndexInv, LoadHint
  PROVE  SharedIndexInv'
<1> DEFINE loaded == SubSeq(hintFile.all, 1, hintFile.count)
           holds(k) == \E e \in ToSet(loaded) : e.key = k
           next == [k \in IndexKey |->
                     IF holds(k) THEN (CHOOSE e \in ToSet(loaded) : e.key = k).is
                     ELSE "none"]
<1>1. IndexBecomes(next)
  BY DEF LoadHint
<1>2. loaded \in Seq(WalkEntry)
  BY DEF SharedIndexInv, LoadHint
<1>3. ToSet(loaded) \subseteq WalkEntry
  <2> HIDE DEF loaded
  <2> QED
    BY <1>2 DEF ToSet
<1>4. ASSUME NEW k \in IndexKey, holds(k)
      PROVE  (CHOOSE e \in ToSet(loaded) : e.key = k).is \in {"live", "tomb"}
  <2> HIDE DEF loaded
  <2>1. (CHOOSE e \in ToSet(loaded) : e.key = k) \in ToSet(loaded)
    BY <1>4
  <2> QED
    BY <2>1, <1>3 DEF WalkEntry
<1>5. next \in [IndexKey -> {"live", "tomb", "none"}]
  <2> HIDE DEF loaded, holds
  <2> QED
    BY <1>4
<1>6. IsFiniteSet({k \in IndexKey : holds(k)})
  <2> HIDE DEF loaded
  <2> QED
    BY <1>2, LoadedIsFinite
<1>7. {k \in IndexKey : next[k] # "none"} \subseteq {k \in IndexKey : holds(k)}
  <2> HIDE DEF loaded, holds
  <2> QED
    OBVIOUS
<1>8. IsFiniteSet({k \in IndexKey : next[k] # "none"})
  <2> HIDE DEF next, holds
  <2> QED
    BY <1>6, <1>7, FS_Subset
<1> HIDE DEF next
<1> QED
  BY <1>1, <1>5, <1>8, IndexBecomesInv

\* Put, MarkDelete and Delete keep it: they change one key.
LEMMA OneKeyInv ==
  ASSUME SharedIndexInv, NEW k \in IndexKey, NEW is \in {"live", "tomb", "none"},
         IndexBecomes([m EXCEPT ![k] = is])
  PROVE  SharedIndexInv'
<1> DEFINE next == [m EXCEPT ![k] = is]
<1>1. next \in [IndexKey -> {"live", "tomb", "none"}]
  BY DEF SharedIndexInv
<1>2. {j \in IndexKey : next[j] # "none"} \subseteq Tracked \cup {k}
  BY DEF SharedIndexInv, Tracked
<1>3. IsFiniteSet(Tracked \cup {k})
  BY FS_AddElement DEF SharedIndexInv
<1>4. IsFiniteSet({j \in IndexKey : next[j] # "none"})
  <2> HIDE DEF next
  <2> QED
    BY <1>2, <1>3, FS_Subset
<1>5. IndexBecomes(next)
  OBVIOUS
<1> HIDE DEF next
<1> QED
  BY <1>1, <1>4, <1>5, IndexBecomesInv

\* Range begins with the tracked keys all to be visited.
LEMMA RangeBeginsInv ==
  ASSUME SharedIndexInv, NEW op, RangeBegins(op)
  PROVE  SharedIndexInv'
<1>1. PICK keys \in SharedKeys : walk' = [op |-> op, keys |-> keys, out |-> <<>>]
  BY DEF RangeBegins
<1>2. /\ seen' = [k \in IndexKey |-> {m[k]}] /\ m' = m /\ hintFile' = hintFile
  BY DEF RangeBegins
<1>3. Cardinality(Tracked) \in Nat
  BY FS_CardinalityType DEF SharedIndexInv
<1>4. /\ keys \in [1 .. Cardinality(Tracked) -> Tracked]
      /\ Tracked = {keys[i] : i \in DOMAIN keys}
  BY DEF SharedKeys
<1>5. Tracked \subseteq IndexKey
  BY DEF Tracked
<1>6. keys \in Seq(IndexKey)
  BY <1>3, <1>4, <1>5
<1>7. \A k \in Tracked : \E i \in 1 .. Len(keys) : keys[i] = k
  <2>1. DOMAIN keys = 1 .. Len(keys)
    BY <1>6
  <2> QED
    BY <1>4, <2>1
<1>8. walk'.op = op /\ walk'.keys = keys /\ walk'.out = <<>>
  BY <1>1
<1>9. Covered(keys, <<>>)'
  <2>1. \A k \in IndexKey : k \in Tracked \/ "none" \in seen'[k]
    BY <1>2 DEF Tracked, SharedIndexInv
  <2> QED
    BY <1>7, <2>1 DEF Covered
<1>10. Witnessed(<<>>)'
  BY DEF Witnessed
<1>11. WalkInv'
  BY <1>1, <1>6, <1>8, <1>9, <1>10 DEF WalkInv
<1>12. Tracked' = Tracked
  BY <1>2 DEF Tracked
<1> QED
  BY <1>2, <1>11, <1>12 DEF SharedIndexInv

\* Range moves a key from those to be visited to those collected.
LEMMA RangeVisitsInv ==
  ASSUME SharedIndexInv, RangeVisits
  PROVE  SharedIndexInv'
<1> DEFINE k == Head(walk.keys)
           e == [key |-> k, is |-> LocationOf(k)]
<1>1. /\ walk # NoWalk /\ walk.keys # <<>>
      /\ walk' = [walk EXCEPT !.keys = Tail(@), !.out = Append(@, e)]
      /\ UNCHANGED <<m, hintFile, seen>>
  BY DEF RangeVisits
<1>2. /\ walk = [op |-> walk.op, keys |-> walk.keys, out |-> walk.out]
      /\ walk.keys \in Seq(IndexKey) /\ walk.out \in Seq(WalkEntry)
      /\ Witnessed(walk.out) /\ Covered(walk.keys, walk.out)
  BY <1>1 DEF SharedIndexInv, WalkInv
<1>3. walk' = [op |-> walk.op, keys |-> Tail(walk.keys), out |-> Append(walk.out, e)]
  BY <1>1, <1>2
<1>4. k \in IndexKey /\ Tail(walk.keys) \in Seq(IndexKey)
  BY <1>1, <1>2
<1>5. e \in WalkEntry
  BY <1>4 DEF WalkEntry, LocationOf
<1>6. Append(walk.out, e) \in Seq(WalkEntry)
  BY <1>2, <1>5
<1>7. Witnessed(Append(walk.out, e))
  <2>1. m[k] \in seen[k] /\ m[k] \in {"live", "tomb", "none"}
    BY <1>4 DEF SharedIndexInv
  <2>2. /\ e.key = k
        /\ (e.is = "tomb" => "tomb" \in seen[k])
        /\ (e.is = "live" => seen[k] \cap {"live", "none"} # {})
    BY <2>1 DEF LocationOf
  <2> HIDE DEF e, k
  <2>3. \A i \in 1 .. Len(Append(walk.out, e)) :
          \/ i \in 1 .. Len(walk.out) /\ Append(walk.out, e)[i] = walk.out[i]
          \/ Append(walk.out, e)[i] = e
    BY <1>2, <1>5
  <2> QED
    BY <1>2, <2>2, <2>3 DEF Witnessed
<1>8. Covered(Tail(walk.keys), Append(walk.out, e))
  <2> SUFFICES ASSUME NEW j \in IndexKey, "none" \notin seen[j]
               PROVE  \/ \E i \in 1 .. Len(Tail(walk.keys)) : Tail(walk.keys)[i] = j
                      \/ \E i \in 1 .. Len(Append(walk.out, e)) : Append(walk.out, e)[i].key = j
    BY DEF Covered
  <2>1. CASE \E i \in 1 .. Len(walk.out) : walk.out[i].key = j
    <3>1. PICK i \in 1 .. Len(walk.out) : walk.out[i].key = j
      BY <2>1
    <3> HIDE DEF e
    <3>2. i \in 1 .. Len(Append(walk.out, e)) /\ Append(walk.out, e)[i] = walk.out[i]
      BY <1>2, <1>5
    <3> QED
      BY <3>1, <3>2
  <2>2. CASE \E i \in 1 .. Len(walk.keys) : walk.keys[i] = j
    <3>1. PICK i \in 1 .. Len(walk.keys) : walk.keys[i] = j
      BY <2>2
    <3>2. CASE i = 1
      <4>1. e.key = j
        BY <1>1, <1>2, <3>1, <3>2
      <4> HIDE DEF e
      <4>2. /\ Len(walk.out) + 1 \in 1 .. Len(Append(walk.out, e))
            /\ Append(walk.out, e)[Len(walk.out) + 1] = e
        BY <1>2, <1>5
      <4> QED
        BY <4>1, <4>2
    <3>3. CASE i # 1
      <4>1. i - 1 \in 1 .. Len(Tail(walk.keys)) /\ Tail(walk.keys)[i - 1] = j
        BY <1>1, <1>2, <3>1, <3>3
      <4> QED
        BY <4>1
    <3> QED
      BY <3>2, <3>3
  <2> QED
    BY <1>2, <2>1, <2>2 DEF Covered
<1>9. WalkInv'
  <2>1. /\ walk'.keys = Tail(walk.keys) /\ walk'.out = Append(walk.out, e)
        /\ walk' = [op |-> walk'.op, keys |-> walk'.keys, out |-> walk'.out]
    BY <1>3
  <2> HIDE DEF e
  <2>2. Witnessed(walk'.out) /\ Covered(walk'.keys, walk'.out)
    BY <1>7, <1>8, <2>1
  <2>3. Witnessed(walk.out)' /\ Covered(walk.keys, walk.out)'
    BY <1>1, <2>2 DEF Witnessed, Covered
  <2> QED
    BY <1>4, <1>6, <2>1, <2>3 DEF WalkInv
<1>10. Tracked' = Tracked
  BY <1>1 DEF Tracked
<1> QED
  BY <1>1, <1>9, <1>10 DEF SharedIndexInv

\* Every step keeps the invariant.
LEMMA NextSharedIndexInv ==
  SharedIndexInv /\ [SharedIndexNext]_sharedIndexVars => SharedIndexInv'
<1> SUFFICES ASSUME SharedIndexInv, [SharedIndexNext]_sharedIndexVars PROVE SharedIndexInv'
  OBVIOUS
<1>1. CASE UNCHANGED sharedIndexVars
  BY <1>1 DEF sharedIndexVars, SharedIndexInv, WalkInv, Witnessed, Covered, Tracked
<1>2. ASSUME NEW k \in IndexKey,
             MarkDelete(k) \/ IndexDelete(k) \/ \E is \in {"live", "tomb"} : SharedPut(k, is)
      PROVE  SharedIndexInv'
  BY <1>2, OneKeyInv DEF MarkDelete, IndexDelete, SharedPut
<1>3. CASE LoadHint
  BY <1>3, LoadHintInv
<1>4. ASSUME NEW op, RangeBegins(op) PROVE SharedIndexInv'
  BY <1>4, RangeBeginsInv
<1>5. CASE RangeVisits
  BY <1>5, RangeVisitsInv
<1>6. CASE LiveEntriesReturns
  BY <1>6 DEF LiveEntriesReturns, SharedIndexInv, WalkInv, Tracked
<1>7. CASE WriteHint
  <2>1. walk # NoWalk
    BY <1>7 DEF WriteHint, NoWalk
  <2>2. walk.out \in Seq(WalkEntry)
    BY <2>1 DEF SharedIndexInv, WalkInv
  <2>3. hintFile'.count = Len(walk.out) /\ hintFile'.all = walk.out
    BY <1>7 DEF WriteHint, HintOf
  <2>4. hintFile'.count \in Nat /\ hintFile'.all \in Seq(WalkEntry)
    BY <2>2, <2>3
  <2>5. walk' = NoWalk /\ UNCHANGED <<m, seen>>
    BY <1>7 DEF WriteHint
  <2> QED
    BY <2>4, <2>5 DEF SharedIndexInv, WalkInv, Tracked
<1> QED
  BY <1>1, <1>2, <1>3, <1>4, <1>5, <1>6, <1>7 DEF SharedIndexNext

\* Initially nothing is tracked and no Range runs.
LEMMA InitSharedIndexInv == SharedIndexInit => SharedIndexInv
<1> SUFFICES ASSUME SharedIndexInit PROVE SharedIndexInv
  OBVIOUS
<1>1. Tracked = {} /\ m \in [IndexKey -> {"live", "tomb", "none"}]
  BY DEF SharedIndexInit, Tracked
<1>2. IsFiniteSet(Tracked)
  BY <1>1, FS_EmptySet
<1>3. hintFile.count = 0 /\ hintFile.all = <<>>
  BY DEF SharedIndexInit, HintOf
<1>4. hintFile.count \in Nat /\ hintFile.all \in Seq(WalkEntry)
  BY <1>3
<1> QED
  BY <1>1, <1>2, <1>4 DEF SharedIndexInit, SharedIndexInv, WalkInv

(***************************************************************************)
(* LiveEntries lists what was live all along and nothing that was a        *)
(* tombstone all along, for any keys and however many calls fall between   *)
(* those of Range.                                                         *)
(***************************************************************************)
THEOREM LiveEntriesAlwaysLive == SharedIndexSpec => []LiveEntriesAreLive
<1>1. SharedIndexInv => LiveEntriesAreLive
  <2> SUFFICES ASSUME SharedIndexInv, walk.op = "live", walk.keys = <<>>, NEW k \in IndexKey
               PROVE  LET listed == {e.key : e \in LiveOf(walk.out)}
                      IN  /\ (seen[k] = {"live"} => k \in listed)
                          /\ (k \in listed => seen[k] \cap {"live", "none"} # {})
    BY DEF LiveEntriesAreLive
  <2> DEFINE listed == {e.key : e \in LiveOf(walk.out)}
  <2>1. walk # NoWalk
    BY DEF NoWalk
  <2>2. walk.out \in Seq(WalkEntry) /\ Witnessed(walk.out) /\ Covered(<<>>, walk.out)
    BY <2>1 DEF SharedIndexInv, WalkInv
  <2>3. \A i \in 1 .. Len(walk.out) : walk.out[i] \in WalkEntry /\ walk.out[i] \in ToSet(walk.out)
    BY <2>2 DEF ToSet
  <2>4. ASSUME seen[k] = {"live"} PROVE k \in listed
    <3>1. PICK i \in 1 .. Len(walk.out) : walk.out[i].key = k
      BY <2>2, <2>4 DEF Covered
    <3>2. walk.out[i].is = "live"
      BY <2>2, <2>3, <2>4, <3>1 DEF Witnessed, WalkEntry
    <3>3. walk.out[i] \in LiveOf(walk.out)
      BY <2>3, <3>2 DEF LiveOf
    <3> QED
      BY <3>1, <3>3
  <2>5. ASSUME k \in listed PROVE seen[k] \cap {"live", "none"} # {}
    <3>1. PICK e \in ToSet(walk.out) : e.is = "live" /\ e.key = k
      BY <2>5 DEF LiveOf
    <3>2. PICK i \in 1 .. Len(walk.out) : e = walk.out[i]
      BY <2>2 DEF ToSet
    <3> QED
      BY <2>2, <3>1, <3>2 DEF Witnessed
  <2> QED
    BY <2>4, <2>5
<1> QED
  BY InitSharedIndexInv, NextSharedIndexInv, <1>1, PTL DEF SharedIndexSpec

(***************************************************************************)
(* WriteHint writes, for every key tracked all along, an entry in a state  *)
(* the key was in meanwhile, and counts it, whatever falls between.        *)
(***************************************************************************)
THEOREM HintAlwaysHoldsTracked == SharedIndexSpec => []HintHoldsTracked
<1>1. SharedIndexInv => HintHoldsTracked
  <2> SUFFICES ASSUME SharedIndexInv, walk.op = "hint", walk.keys = <<>>, NEW k \in IndexKey,
                      "none" \notin seen[k]
               PROVE  \E i \in 1 .. HintOf(walk.out).count :
                         /\ HintOf(walk.out).all[i].key = k
                         /\ HintOf(walk.out).all[i].is \in seen[k]
    BY DEF HintHoldsTracked
  <2>1. walk # NoWalk
    BY DEF NoWalk
  <2>2. walk.out \in Seq(WalkEntry) /\ Witnessed(walk.out) /\ Covered(<<>>, walk.out)
    BY <2>1 DEF SharedIndexInv, WalkInv
  <2>3. PICK i \in 1 .. Len(walk.out) : walk.out[i].key = k
    BY <2>2 DEF Covered
  <2>4. walk.out[i] \in WalkEntry
    BY <2>2
  <2>5. walk.out[i].is \in seen[k]
    BY <2>2, <2>3, <2>4 DEF Witnessed, WalkEntry
  <2>6. HintOf(walk.out).count = Len(walk.out) /\ HintOf(walk.out).all = walk.out
    BY DEF HintOf
  <2> QED
    BY <2>3, <2>5, <2>6
<1> QED
  BY InitSharedIndexInv, NextSharedIndexInv, <1>1, PTL DEF SharedIndexSpec
=============================================================================
