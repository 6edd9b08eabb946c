-------------------------------- MODULE Batch --------------------------------
(***************************************************************************)
(* internal/batch: a batch of staged writes and a client that holds a      *)
(* slice Ops returned.  Every method holds Batch.mu: one step each.        *)
(*                                                                         *)
(* Ops returns the batch's own slice, so the arrays behind slices matter:  *)
(* append writes into the array when it has room and moves to a new one    *)
(* when it has not, and Reset starts over in the same array.  array and    *)
(* room are the batch's array and its capacity; the held slice shares that *)
(* array or has one that the batch has left behind.                        *)
(***************************************************************************)
EXTENDS Naturals, Sequences, FiniteSets, SequencesExt

CONSTANTS
  BatchKey,    \* keys, as the numbers of their bytes; 0 is the empty key
  PutSize,     \* the number of bytes of every value
  FirstRoom,   \* the capacity New gives the slice
  MaxOps       \* bound: operations accepted between two resets

ASSUME BatchAssumption ==
  BatchKey \subseteq Nat /\ PutSize \in Nat /\ FirstRoom \in Nat /\ MaxOps \in Nat

VARIABLES
  array, length, room,   \* Batch.ops
  committed, discarded,  \* Batch.committed, Batch.discarded
  sizeBytes,             \* Batch.sizeBytes
  held,                  \* the slice a client got from Ops
  heldOps,               \* history: its operations at that time
  reused,                \* history: Reset was called while its array was the batch's
  accepted               \* history: what Put and Delete took since Reset or Discard

batchVars == <<array, length, room, committed, discarded, sizeBytes, held, heldOps, reused, accepted>>

Op == [put : BOOLEAN, key : BatchKey]

ops == SubSeq(array, 1, length)

NoneHeld == [shared |-> FALSE, array |-> <<>>, length |-> 0]

HeldOps == SubSeq(IF held.shared THEN array ELSE held.array, 1, held.length)

\* The batch turns to a new array; a client's slice keeps the old one.
LeaveArray == held' = IF held.shared THEN [held EXCEPT !.shared = FALSE, !.array = array] ELSE held

OpSize(op) == op.key + (IF op.put THEN PutSize ELSE 0)

SizeOf(s) ==
  LET size[n \in 0 .. Len(s)] == IF n = 0 THEN 0 ELSE size[n - 1] + OpSize(s[n])
  IN size[Len(s)]

\* append(b.ops, op): in place while there is room.
AppendOp(op) ==
  IF length < room
    THEN /\ array' = [i \in 1 .. (IF length < Len(array) THEN Len(array) ELSE length + 1) |->
                        IF i = length + 1 THEN op ELSE array[i]]
         /\ UNCHANGED <<room, held>>
    ELSE /\ array' = Append(ops, op)
         /\ room' = 2 * length + 1
         /\ LeaveArray

\* Put and Delete
Stage(op) ==
  /\ ~committed /\ ~discarded /\ Len(accepted) < MaxOps
  /\ AppendOp(op)
  /\ length' = length + 1
  /\ sizeBytes' = sizeBytes + OpSize(op)
  /\ accepted' = Append(accepted, op)
  /\ UNCHANGED <<committed, discarded, heldOps, reused>>

Ops ==
  /\ held' = [shared |-> TRUE, array |-> <<>>, length |-> length]
  /\ heldOps' = ops /\ reused' = FALSE
  /\ UNCHANGED <<array, length, room, committed, discarded, sizeBytes, accepted>>

MarkCommitted ==
  /\ committed' = TRUE
  /\ UNCHANGED <<array, length, room, discarded, sizeBytes, held, heldOps, reused, accepted>>

\* Discard drops the slice and leaves sizeBytes.
Discard ==
  /\ discarded' = TRUE
  /\ array' = <<>> /\ length' = 0 /\ room' = 0 /\ LeaveArray
  /\ accepted' = <<>>
  /\ UNCHANGED <<committed, sizeBytes, heldOps, reused>>

\* Reset keeps the array, and what is staged next overwrites it.  Only a
\* client's slice can still see what it held, so without one it is dropped.
BatchReset ==
  /\ length' = 0 /\ sizeBytes' = 0 /\ committed' = FALSE /\ discarded' = FALSE
  /\ array' = IF held.shared THEN array ELSE <<>>
  /\ IF held.shared THEN reused' = TRUE /\ heldOps' = <<>> ELSE UNCHANGED <<reused, heldOps>>
  /\ accepted' = <<>>
  /\ UNCHANGED <<room, held>>

\* The operations of s at the positions in at, in order: there is one such list.
InOrder(s, at) ==
  {[i \in DOMAIN order |-> s[order[i]]] : order \in
     {o \in [1 .. Cardinality(at) -> at] :
        /\ at = {o[i] : i \in DOMAIN o}
        /\ \A i, j \in DOMAIN o : i < j => o[i] < o[j]}}

\* Wrong: the first operation on each key is kept.
FirstPerKey(s) == {i \in 1 .. Len(s) : \A j \in 1 .. i - 1 : s[j].key # s[i].key}

\* The positions of the last operation on each key.
LastPerKey(s) == {i \in 1 .. Len(s) : \A j \in i + 1 .. Len(s) : s[j].key # s[i].key}

\* Wrong: the operations that stay are moved to the front of the same array.
DeduplicateInPlace ==
  \E deduped \in InOrder(ops, LastPerKey(ops)) :
    /\ array' = deduped \o SubSeq(array, Len(deduped) + 1, Len(array))
    /\ length' = Len(deduped) /\ sizeBytes' = SizeOf(deduped)
    /\ UNCHANGED <<room, held, committed, discarded, heldOps, reused, accepted>>

Deduplicate ==
  \E deduped \in InOrder(ops, LastPerKey(ops)) :
    /\ array' = deduped /\ length' = Len(deduped) /\ room' = Len(deduped) /\ LeaveArray
    /\ sizeBytes' = SizeOf(deduped)
    /\ UNCHANGED <<committed, discarded, heldOps, reused, accepted>>

\* Validate: no operation has an empty key.
Validate(s) == \A i \in 1 .. Len(s) : s[i].key # 0

BatchInit ==
  /\ array = <<>> /\ length = 0 /\ room = FirstRoom
  /\ committed = FALSE /\ discarded = FALSE /\ sizeBytes = 0
  /\ held = NoneHeld /\ heldOps = <<>> /\ reused = FALSE /\ accepted = <<>>

BatchNext ==
  \/ \E op \in Op : Stage(op)
  \/ Ops \/ MarkCommitted \/ Discard \/ BatchReset \/ Deduplicate

BatchSpec == BatchInit /\ [][BatchNext]_batchVars

(***************************************************************************)
(* The operations a client got from Ops, to apply them, do not change      *)
(* under it, although the batch goes on writing into the same array, grows *)
(* out of it, is deduplicated or discarded.  Only a Reset before the batch *)
(* has left that array lets later writes overwrite them (Ops, Put, Reset). *)
(***************************************************************************)
HeldOpsStable == ~reused => HeldOps = heldOps

(***************************************************************************)
(* Applied in order, the staged operations have the effect of all that     *)
(* were accepted, and Validate says of them what it would say of those,    *)
(* however often the batch was deduplicated in between.  SizeBytes is      *)
(* their size, until a Discard, which leaves the old figure (Put, Delete,  *)
(* Deduplicate, Reset).                                                    *)
(***************************************************************************)
Effect(s) == {op \in ToSet(s) :
                \E i \in 1 .. Len(s) : /\ s[i] = op
                                       /\ \A j \in i + 1 .. Len(s) : s[j].key # s[i].key}

SameEffect ==
  /\ Effect(ops) = Effect(accepted) /\ Validate(ops) = Validate(accepted)
  /\ ~discarded => sizeBytes = SizeOf(ops)
=============================================================================
