-------------------------------- MODULE Stats --------------------------------
(***************************************************************************)
(* internal/stats, used by several goroutines: the atomic Counters, the    *)
(* compaction History.  They share no state, so each has its own           *)
(* next-state relation.  Take loads the counters one after the other and   *)
(* Reset stores them one after the other, with anything in between.        *)
(***************************************************************************)
EXTENDS Naturals, Sequences, FiniteSets, SequencesExt

CONSTANTS
  Counter,       \* the number of counters, loaded and stored in this order
  MaxCount,      \* bound: the largest value of a counter
  HistoryCap,    \* History.cap
  MaxEvents      \* bound: calls of History.Add

ASSUME StatsAssumption ==
  /\ Counter \in Nat \ {0} /\ MaxCount \in Nat
  /\ HistoryCap \in Nat \ {0} /\ MaxEvents \in Nat

VARIABLES
  counters,  \* the values of the counters
  take,      \* the values the Take in progress has loaded
  moments,   \* history: what the counters were together since it began
  zeroed,    \* how many counters the Reset in progress has stored; 0 when none is
  events,    \* History.events
  lastID,    \* history: the number of the last event, and of the last one cleared
  clearedID

counterVars == <<counters, take, moments, zeroed>>
historyVars == <<events, lastID, clearedID>>

(***************************************************************************)
(* Counters.                                                               *)
(***************************************************************************)
Taking == moments # {}

\* The counters become c.
CountersBecome(c) ==
  /\ counters' = c
  /\ moments' = IF Taking THEN moments \cup {c} ELSE {}

Count(c) ==
  /\ counters[c] < MaxCount
  /\ CountersBecome([counters EXCEPT ![c] = @ + 1])
  /\ UNCHANGED <<take, zeroed>>

TakeBegins ==
  /\ ~Taking /\ moments' = {counters}
  /\ UNCHANGED <<counters, take, zeroed>>

TakeLoads ==
  /\ Taking /\ Len(take) < Counter
  /\ take' = Append(take, counters[Len(take) + 1])
  /\ UNCHANGED <<counters, moments, zeroed>>

TakeReturns ==
  /\ Len(take) = Counter
  /\ take' = <<>> /\ moments' = {}
  /\ UNCHANGED <<counters, zeroed>>

\* Reset stores zero into the next counter.
ResetStores ==
  /\ CountersBecome([counters EXCEPT ![zeroed + 1] = 0])
  /\ zeroed' = (zeroed + 1) % Counter
  /\ UNCHANGED take

CountersInit ==
  /\ counters = [c \in 1 .. Counter |-> 0] /\ zeroed = 0
  /\ take = <<>> /\ moments = {}

CountersNext ==
  \/ \E c \in 1 .. Counter : Count(c)
  \/ TakeBegins \/ TakeLoads \/ TakeReturns \/ ResetStores

CountersSpec == CountersInit /\ [][CountersNext]_counterVars

(***************************************************************************)
(* History.  Events are numbered in the order they are added.              *)
(***************************************************************************)
\* Wrong: one event too many is kept.
ShiftedLate(es) == IF Len(es) > HistoryCap THEN Tail(es) ELSE es

\* copy(events, events[1:]) and the slice shortened by one, when it is full.
Shifted(es) == IF Len(es) >= HistoryCap THEN Tail(es) ELSE es

AddEvent ==
  /\ lastID < MaxEvents
  /\ lastID' = lastID + 1
  /\ events' = Append(Shifted(events), lastID')
  /\ UNCHANGED clearedID

ClearEvents == events' = <<>> /\ clearedID' = lastID /\ UNCHANGED lastID

HistoryInit == events = <<>> /\ lastID = 0 /\ clearedID = 0
HistoryNext == AddEvent \/ ClearEvents
HistorySpec == HistoryInit /\ [][HistoryNext]_historyVars

(***************************************************************************)
(* "Snapshot is a point-in-time copy of all counters", stats.go says: at   *)
(* some moment of the Take that returned it, the counters were what it     *)
(* holds (Take, Reset).                                                    *)
(***************************************************************************)
SnapshotIsPointInTime == Len(take) = Counter => take \in moments

(***************************************************************************)
(* The history holds the last HistoryCap of the events added since Clear,  *)
(* in the order they happened (History.Add, Events, Last).                 *)
(***************************************************************************)
HistoryKeepsLatest ==
  LET since == lastID - clearedID
      kept == IF since < HistoryCap THEN since ELSE HistoryCap
  IN events = [i \in 1 .. kept |-> lastID - kept + i]
=============================================================================
