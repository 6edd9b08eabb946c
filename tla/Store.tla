-------------------------------- MODULE Store --------------------------------
(***************************************************************************)
(* internal/store: the bitcask engine over a directory of segment files    *)
(* and a hint file (store.go, merge.go).                                   *)
(*                                                                         *)
(* Every method holds Store.mu from its first line to its last, so Put,    *)
(* Delete, Close and Open are one step each.  Merge holds the mutex too,   *)
(* but it changes the directory in many steps, and the process or the      *)
(* machine may stop between any two of them: it is one action per change,  *)
(* ordered by pc, and the other methods wait for pc = "idle".  A method    *)
(* that returns an error before it changes anything is a stuttering step.  *)
(*                                                                         *)
(* Faults are actions of their own: Kill (the process dies, the page cache *)
(* survives), KillInWrite (it dies with part of a frame written),          *)
(* PowerLoss (unsynced bytes may be lost), and the I/O errors, one per     *)
(* error path of the code.                                                 *)
(***************************************************************************)
EXTENDS KeyIndex

CONSTANTS
  ReadError,     \* what Get returns besides a value or "not found"
  SyncOnWrite,   \* Options.SyncOnWrite
  MaxFileSize,   \* Options.MaxFileSize; 0 never rotates
  MaxFileID,     \* bound: segments numbered above this are not created
  MaxOrphanSize, \* bound: Merge does not start over a longer left-over segment
  MaxWrites,     \* bound: calls of Put and Delete
  MaxCrashes,    \* bound: Kill, KillInWrite and PowerLoss steps
  MaxIOErrors    \* bound: I/O errors

ASSUME StoreAssumption ==
  /\ ReadError \notin Value \cup {NoValue}
  /\ SyncOnWrite \in BOOLEAN
  /\ MaxFileSize \in Nat
  /\ MaxFileID \in Nat /\ MaxOrphanSize \in Nat /\ MaxWrites \in Nat
  /\ MaxCrashes \in Nat /\ MaxIOErrors \in Nat

VARIABLES
  disk,       \* the segment files of the directory, by file ID
  hint,       \* hint.bin: absent, unreadable, or whole
  hintIndex,  \* the index a whole hint file holds
  up,         \* a process has the store open
  index,      \* Store.index
  segments,   \* the IDs in Store.segments; their handles are open
  activeID,   \* Store.activeID
  size,       \* Segment.size of the active handle
  pc,         \* where Merge is
  newID,      \* Merge's new segment
  newIndex,   \* Merge's new index
  todo,       \* the live keys Merge has still to copy
  acked,      \* history: what the client may find after a crash, by key
  faults,     \* history: the kinds of faults that matter to a property
  writes, crashes, ioErrors  \* counters for the bounds

diskVars == <<disk, hint, hintIndex>>
memVars == <<index, segments, activeID, size>>
mergeVars == <<pc, newID, newIndex, todo>>
bounds == <<writes, crashes, ioErrors>>
vars == <<diskVars, up, memVars, mergeVars, acked, faults, bounds>>

FileID == Nat \ {0}

\* append: an append failed.  merge: Merge gave up before its removals.
\* remove: Merge gave up in its removals.  reset: resetToEmpty did not get as
\* far as removing the hint file.
Fault == {"append", "merge", "remove", "reset"}
Damaged == faults \ {"merge"} # {}

Result == Value \cup {NoValue, ReadError}

TypeOK ==
  /\ DOMAIN disk \subseteq FileID
  /\ disk = [id \in DOMAIN disk |-> disk[id]]
  /\ \A id \in DOMAIN disk : IsFile(disk[id])
  /\ hint \in {"none", "torn", "whole"}
  /\ IsIndex(hintIndex)
  /\ up \in BOOLEAN
  /\ IsIndex(index)
  /\ segments \subseteq FileID
  /\ activeID \in Nat
  /\ size \in Nat
  /\ pc \in {"idle", "copy", "hint", "remove", "reset", "fresh"}
  /\ newID \in Nat
  /\ IsIndex(newIndex)
  /\ todo \subseteq Key
  /\ acked \in [Key -> SUBSET Result]
  /\ faults \subseteq Fault
  /\ writes \in Nat /\ crashes \in Nat /\ ioErrors \in Nat

(***************************************************************************)
(* Helpers.                                                                *)
(***************************************************************************)

\* The last of a non-empty set of file IDs in ascending order.
FirstID(ids) == CHOOSE id \in ids : \A i \in ids : id <= i
lastID(ids) == CHOOSE id \in ids : \A i \in ids : i <= id

\* Store.maxFileID: 0 when no segment is open.
maxFileID == IF segments = {} THEN 0 ELSE lastID(segments)

\* The directory after log.NewSegment(id): created unless it was there.
WithSegment(d, id) ==
  [i \in DOMAIN d \cup {id} |-> IF i \in DOMAIN d THEN d[i] ELSE EmptyFile]

WithoutSegment(d, id) == [i \in DOMAIN d \ {id} |-> d[i]]

\* Store.Get over an index m, the open segments s and the directory d.  Where
\* a live location holds a tombstone, which only a damaged store has, Get finds
\* the key with an empty value: neither a stored value nor "not found".
Get(m, s, d, k) ==
  IF m[k].tomb THEN NoValue
  ELSE IF /\ m[k].file \in s
          /\ CanReadAt(d[m[k].file], m[k].off)
          /\ ~ReadAt(d[m[k].file], m[k].off).tomb
    THEN ReadAt(d[m[k].file], m[k].off).val
  ELSE ReadError

Ready == up /\ pc = "idle"
CanAppend == Ready /\ activeID \in segments

(***************************************************************************)
(* Open.  With no segment file it starts segment 1 and does not look at a  *)
(* hint file; otherwise the hint file, when there is one, is the index,    *)
(* and only without one are the segments scanned.  An unreadable hint file *)
(* or a scan that ends in an error makes Open fail and changes nothing.    *)
(* A client that is shown something else than it was promised goes on from *)
(* there, so acked does too.                                               *)
(***************************************************************************)
Opened(d, m) ==
  LET ids == DOMAIN d
      last == lastID(ids)
  IN /\ up' = TRUE
     /\ disk' = d
     /\ index' = m
     /\ segments' = ids
     /\ activeID' = last
     /\ size' = d[last].len
     /\ acked' = [k \in Key |-> LET found == Get(m, ids, d, k)
                                IN IF found \in acked[k] THEN acked[k] ELSE {found}]
     /\ UNCHANGED <<hint, hintIndex, mergeVars, faults, bounds>>

OpenEmpty ==
  /\ ~up /\ DOMAIN disk = {}
  /\ Opened(WithSegment(disk, 1), NewIndex)

OpenHint ==
  /\ ~up /\ DOMAIN disk # {} /\ HintLoads(hint, hintIndex)
  /\ Opened(disk, hintIndex)

OpenScan ==
  /\ ~up /\ DOMAIN disk # {} /\ hint = "none"
  /\ \A id \in DOMAIN disk : TRUE \in ScanVerdicts(disk[id])
  /\ Opened(disk, scanIndex(disk))

Open == OpenEmpty \/ OpenHint \/ OpenScan

Down ==
  /\ up' = FALSE
  /\ index' = NewIndex /\ segments' = {} /\ activeID' = 0 /\ size' = 0
  /\ pc' = "idle" /\ newID' = 0 /\ newIndex' = NewIndex /\ todo' = {}

Close ==
  /\ Ready /\ Down
  /\ UNCHANGED <<diskVars, acked, faults, bounds>>

(***************************************************************************)
(* Put and Delete.                                                         *)
(***************************************************************************)

\* Wrong: the index takes the offset the handle has after the append.
WrittenPastRecord(e, sync) ==
  LET f == Append(disk[activeID], e)
  IN /\ disk' = [disk EXCEPT ![activeID] = IF sync THEN Sync(f) ELSE f]
     /\ index' = IndexPut(index, e.key, activeID, f.len, e.tomb)
     /\ size' = f.len
     /\ UNCHANGED <<segments, activeID>>

\* The bookkeeping of a write of e: appended to the active file (and synced
\* when sync holds), and the index points where the handle says it went.
Written(e, sync) ==
  LET f == Append(disk[activeID], e)
  IN /\ disk' = [disk EXCEPT ![activeID] = IF sync THEN Sync(f) ELSE f]
     /\ index' = IndexPut(index, e.key, activeID, size, e.tomb)
     /\ size' = size + frameSize(e)
     /\ UNCHANGED <<segments, activeID>>

\* Wrong: the segment is rotated before the index is told where e went.
RotatedThenIndexed(e, sync) ==
  LET f == Append(disk[activeID], e)
      id == maxFileID + 1
  IN /\ id <= MaxFileID
     /\ disk' = WithSegment([disk EXCEPT ![activeID] = IF sync THEN Sync(f) ELSE f], id)
     /\ index' = IndexPut(index, e.key, id, size, e.tomb)
     /\ segments' = segments \cup {id} /\ activeID' = id /\ size' = disk'[id].len

\* The same write followed by Store.rotate.
WrittenAndRotated(e, sync) ==
  LET f == Append(disk[activeID], e)
      d == [disk EXCEPT ![activeID] = IF sync THEN Sync(f) ELSE f]
      id == maxFileID + 1
      d2 == WithSegment(d, id)
  IN /\ id <= MaxFileID
     /\ disk' = d2
     /\ index' = IndexPut(index, e.key, activeID, size, e.tomb)
     /\ segments' = segments \cup {id}
     /\ activeID' = id
     /\ size' = d2[id].len

Grows(e) == MaxFileSize > 0 /\ size + frameSize(e) > MaxFileSize

Ack(e) == acked' = [acked EXCEPT ![e.key] = {e.val}]
MayAck(e) == acked' = [acked EXCEPT ![e.key] = @ \cup {e.val}]

CountWrite == writes < MaxWrites /\ writes' = writes + 1

Put(k, v) ==
  LET e == PutEntry(k, v)
  IN /\ CanAppend /\ CountWrite
     /\ IF Grows(e) THEN WrittenAndRotated(e, SyncOnWrite) ELSE Written(e, SyncOnWrite)
     /\ Ack(e)
     /\ UNCHANGED <<hint, hintIndex, up, mergeVars, faults, crashes, ioErrors>>

\* Wrong: Delete ignores SyncOnWrite.
DeleteUnsynced(k) ==
  LET e == DelEntry(k)
  IN /\ CanAppend /\ CountWrite /\ Written(e, FALSE) /\ Ack(e)
     /\ UNCHANGED <<hint, hintIndex, up, mergeVars, faults, crashes, ioErrors>>

\* Delete appends a tombstone for any key, present or not, and never rotates.
Delete(k) ==
  LET e == DelEntry(k)
  IN /\ CanAppend /\ CountWrite
     /\ Written(e, SyncOnWrite)
     /\ Ack(e)
     /\ UNCHANGED <<hint, hintIndex, up, mergeVars, faults, crashes, ioErrors>>

WriteEntries == {PutEntry(k, v) : k \in Key, v \in Value} \cup {DelEntry(k) : k \in Key}

(***************************************************************************)
(* Merge.  MergeStart syncs the active segment and, with no live key,      *)
(* turns to resetToEmpty.                                                  *)
(***************************************************************************)
SyncedActive == [disk EXCEPT ![activeID] = Sync(@)]

\* Wrong: Merge copies from the older segments only.
MergeStartSkipsActive ==
  /\ CanAppend /\ LiveEntries(index) # {} /\ maxFileID + 1 <= MaxFileID
  /\ disk' = WithSegment(SyncedActive, maxFileID + 1)
  /\ pc' = "copy" /\ newID' = maxFileID + 1 /\ newIndex' = NewIndex
  /\ todo' = {k \in LiveEntries(index) : index[k].file # activeID}
  /\ UNCHANGED <<hint, hintIndex, up, memVars, acked, faults, bounds>>

MergeStart ==
  /\ CanAppend /\ LiveEntries(index) # {}
  /\ maxFileID + 1 <= MaxFileID
  /\ maxFileID + 1 \in DOMAIN disk => disk[maxFileID + 1].len <= MaxOrphanSize
  /\ disk' = WithSegment(SyncedActive, maxFileID + 1)
  /\ pc' = "copy" /\ newID' = maxFileID + 1
  /\ newIndex' = NewIndex /\ todo' = LiveEntries(index)
  /\ UNCHANGED <<hint, hintIndex, up, memVars, acked, faults, bounds>>

\* The live record of k, as Merge finds it through its own file handles.
SourceReadable(k) ==
  index[k].file \in DOMAIN disk /\ CanReadAt(disk[index[k].file], index[k].off)

\* What the copy loop appends for k: the key and the value it read.
Copied(k) ==
  LET e == ReadAt(disk[index[k].file], index[k].off) IN PutEntry(e.key, e.val)

\* One turn of the copy loop.  The loop runs in key order; the model allows
\* every order.
MergeCopy(k) ==
  LET f == disk[newID]
  IN /\ pc = "copy" /\ k \in todo /\ SourceReadable(k)
     /\ disk' = [disk EXCEPT ![newID] = Append(f, Copied(k))]
     /\ newIndex' = IndexPut(newIndex, k, newID, f.len, FALSE)
     /\ todo' = todo \ {k}
     /\ UNCHANGED <<hint, hintIndex, up, memVars, pc, newID, acked, faults, bounds>>

\* Wrong: the new segment is not synced before the hint file names it.
MergeUnsynced ==
  /\ pc = "copy" /\ todo = {} /\ hint' = "torn" /\ pc' = "hint"
  /\ UNCHANGED <<disk, hintIndex, up, memVars, newID, newIndex, todo, acked, faults, bounds>>

\* newSeg.Sync, then writeHintFile: os.Create truncates the old hint file.
MergeSync ==
  /\ pc = "copy" /\ todo = {}
  /\ disk' = [disk EXCEPT ![newID] = Sync(@)]
  /\ hint' = "torn"
  /\ pc' = "hint"
  /\ UNCHANGED <<hintIndex, up, memVars, newID, newIndex, todo, acked, faults, bounds>>

\* Wrong: the hint entries stay in a buffer that nobody flushes.
MergeHintUnflushed ==
  /\ pc = "hint" /\ pc' = "remove"
  /\ UNCHANGED <<diskVars, up, memVars, newID, newIndex, todo, acked, faults, bounds>>

MergeHint ==
  /\ pc = "hint"
  /\ hint' = "whole" /\ hintIndex' = newIndex
  /\ pc' = "remove"
  /\ UNCHANGED <<disk, up, memVars, newID, newIndex, todo, acked, faults, bounds>>

\* Wrong: the segment is closed and forgotten, its file stays.
RemoveSegmentKeepsFile(id) ==
  /\ pc \in {"remove", "reset"} /\ id \in segments /\ segments' = segments \ {id}
  /\ UNCHANGED <<diskVars, up, index, activeID, size, mergeVars, acked, faults, bounds>>

\* The old segments are closed and removed one by one, in map order: the loop
\* is over the list of their IDs, taken before the first turn, and each turn
\* deletes one from Store.segments, so what is left of the list is segments.
RemoveSegment(id) ==
  /\ pc \in {"remove", "reset"} /\ id \in segments
  /\ segments' = segments \ {id}
  /\ disk' = WithoutSegment(disk, id)
  /\ UNCHANGED <<hint, hintIndex, up, index, activeID, size, mergeVars, acked, faults, bounds>>

\* Wrong: the new segment is promoted under the old index.
MergePromoteOldIndex ==
  /\ pc = "remove" /\ segments = {}
  /\ segments' = {newID} /\ activeID' = newID /\ size' = disk[newID].len
  /\ pc' = "idle" /\ newID' = 0 /\ newIndex' = NewIndex
  /\ UNCHANGED <<diskVars, up, index, todo, acked, faults, bounds>>

MergePromote ==
  /\ pc = "remove" /\ segments = {}
  /\ segments' = {newID} /\ activeID' = newID
  /\ size' = disk[newID].len /\ index' = newIndex
  /\ pc' = "idle" /\ newID' = 0 /\ newIndex' = NewIndex
  /\ UNCHANGED <<diskVars, up, todo, acked, faults, bounds>>

\* resetToEmpty: remove every segment, then the hint file, then start over
\* with segment 1.
ResetStart ==
  /\ CanAppend /\ LiveEntries(index) = {}
  /\ disk' = SyncedActive
  /\ pc' = "reset"
  /\ UNCHANGED <<hint, hintIndex, up, memVars, newID, newIndex, todo, acked, faults, bounds>>

ResetHint ==
  /\ pc = "reset" /\ segments = {}
  /\ hint' = "none" /\ hintIndex' = NewIndex
  /\ pc' = "fresh"
  /\ UNCHANGED <<disk, up, memVars, newID, newIndex, todo, acked, faults, bounds>>

ResetFresh ==
  /\ pc = "fresh"
  /\ disk' = WithSegment(disk, 1)
  /\ segments' = {1} /\ activeID' = 1 /\ size' = disk'[1].len
  /\ index' = NewIndex
  /\ pc' = "idle"
  /\ UNCHANGED <<hint, hintIndex, up, newID, newIndex, todo, acked, faults, bounds>>

MergeAborts(fault) ==
  /\ pc' = "idle" /\ newID' = 0 /\ newIndex' = NewIndex /\ todo' = {}
  /\ faults' = faults \cup fault
  /\ UNCHANGED <<up, index, activeID, size, acked, writes, crashes>>

\* A live record cannot be read back: not an I/O error but a bad location.
MergeReadFails(k) ==
  /\ pc = "copy" /\ k \in todo /\ ~SourceReadable(k)
  /\ MergeAborts({"merge"})
  /\ UNCHANGED <<diskVars, segments, ioErrors>>

MergeStep ==
  \/ \E k \in Key : MergeCopy(k) \/ MergeReadFails(k)
  \/ MergeSync \/ MergeHint \/ MergePromote \/ ResetHint \/ ResetFresh
  \/ \E id \in segments : RemoveSegment(id)

(***************************************************************************)
(* I/O errors.  Each is an early return of the code, with what it leaves   *)
(* behind; Merge then leaves the store open on its old state.              *)
(***************************************************************************)
CountIOError == ioErrors < MaxIOErrors /\ ioErrors' = ioErrors + 1

\* Append wrote n bytes and failed: Segment.size and the index stay.
AppendFails(e, n) ==
  /\ CanAppend /\ CountWrite /\ CountIOError
  /\ disk' = [disk EXCEPT ![activeID] = AppendPrefix(@, e, n)]
  /\ faults' = faults \cup {"append"}
  /\ UNCHANGED <<hint, hintIndex, up, memVars, mergeVars, acked, crashes>>

\* Put or Delete: the record is written and indexed, then Sync fails.
SyncFails(e) ==
  /\ CanAppend /\ SyncOnWrite /\ CountWrite /\ CountIOError
  /\ Written(e, FALSE) /\ MayAck(e)
  /\ UNCHANGED <<hint, hintIndex, up, mergeVars, faults, crashes>>

\* Put: the record is written and indexed, then rotate fails.
RotateFails(e) ==
  /\ CanAppend /\ ~e.tomb /\ Grows(e) /\ CountWrite /\ CountIOError
  /\ Written(e, SyncOnWrite) /\ MayAck(e)
  /\ UNCHANGED <<hint, hintIndex, up, mergeVars, faults, crashes>>

\* A copy is cut short, or newSeg.Sync or the creation of the hint file fails.
MergeCopyFails ==
  /\ pc = "copy" /\ CountIOError
  /\ \/ disk' = disk
     \/ \E k \in todo :
          /\ SourceReadable(k)
          /\ \E n \in 1 .. frameSize(Copied(k)) - 1 :
               disk' = [disk EXCEPT ![newID] = AppendPrefix(@, Copied(k), n)]
  /\ MergeAborts({"merge"})
  /\ UNCHANGED <<hint, hintIndex, segments>>

\* Writing the hint file fails, or only syncing or closing it does.
MergeHintFails ==
  /\ pc = "hint" /\ CountIOError
  /\ \/ UNCHANGED <<hint, hintIndex>>
     \/ hint' = "whole" /\ hintIndex' = newIndex
  /\ MergeAborts({"merge"})
  /\ UNCHANGED <<disk, segments>>

\* os.Remove fails: the segment is closed and forgotten, its file stays.
RemoveFails(id) ==
  /\ pc \in {"remove", "reset"} /\ id \in segments /\ CountIOError
  /\ segments' = segments \ {id}
  /\ MergeAborts({pc})
  /\ UNCHANGED diskVars

\* The hint file cannot be removed, or segment 1 cannot be created.
ResetFails ==
  /\ \/ pc = "reset" /\ segments = {}
     \/ pc = "fresh"
  /\ CountIOError
  /\ MergeAborts({pc} \cap Fault)
  /\ UNCHANGED <<diskVars, segments>>

IOError ==
  \/ \E e \in WriteEntries :
       \/ \E n \in 1 .. frameSize(e) - 1 : AppendFails(e, n)
       \/ SyncFails(e) \/ RotateFails(e)
  \/ MergeCopyFails \/ MergeHintFails \/ ResetFails
  \/ \E id \in segments : RemoveFails(id)

(***************************************************************************)
(* Crashes.                                                                *)
(***************************************************************************)
CountCrash == crashes < MaxCrashes /\ crashes' = crashes + 1

\* A crash inside resetToEmpty's removals leaves a part of the segments.
CrashFault == faults' = faults \cup ({pc} \cap {"reset"})

Kill ==
  /\ up /\ CountCrash /\ CrashFault /\ Down
  /\ UNCHANGED <<diskVars, acked, writes, ioErrors>>

\* The process dies in a Put or Delete with n bytes of the frame written.
KillInWrite(e, n) ==
  /\ CanAppend /\ CountWrite /\ CountCrash /\ Down
  /\ disk' = [disk EXCEPT ![activeID] = AppendPrefix(@, e, n)]
  /\ MayAck(e)
  /\ UNCHANGED <<hint, hintIndex, faults, ioErrors>>

\* The process dies in Merge's copy loop with part of a frame written.
KillInCopy(k) ==
  /\ pc = "copy" /\ k \in todo /\ SourceReadable(k) /\ CountCrash /\ Down
  /\ \E n \in 1 .. frameSize(Copied(k)) - 1 :
       disk' = [disk EXCEPT ![newID] = AppendPrefix(@, Copied(k), n)]
  /\ UNCHANGED <<hint, hintIndex, acked, faults, writes, ioErrors>>

\* Without SyncOnWrite nothing is promised about what a power loss leaves.
PowerLoss ==
  /\ CountCrash /\ CrashFault /\ Down
  /\ disk' \in {d \in [DOMAIN disk -> UNION {AfterPowerLoss(disk[id]) : id \in DOMAIN disk}] :
                  \A id \in DOMAIN disk : d[id] \in AfterPowerLoss(disk[id])}
  /\ acked' = IF SyncOnWrite THEN acked ELSE [k \in Key |-> Value \cup {NoValue}]
  /\ UNCHANGED <<hint, hintIndex, writes, ioErrors>>

Crash ==
  \/ Kill
  \/ \E e \in WriteEntries : \E n \in 1 .. frameSize(e) : KillInWrite(e, n)
  \/ \E k \in todo : KillInCopy(k)
  \/ PowerLoss

(***************************************************************************)
(* The specification: a store that has not been opened yet, on an empty    *)
(* directory.                                                              *)
(***************************************************************************)
Init ==
  /\ disk = [id \in {} |-> EmptyFile] /\ hint = "none" /\ hintIndex = NewIndex
  /\ up = FALSE
  /\ index = NewIndex /\ segments = {} /\ activeID = 0 /\ size = 0
  /\ pc = "idle" /\ newID = 0 /\ newIndex = NewIndex /\ todo = {}
  /\ acked = [k \in Key |-> {NoValue}]
  /\ faults = {}
  /\ writes = 0 /\ crashes = 0 /\ ioErrors = 0

Next ==
  \/ Open \/ Close
  \/ \E k \in Key : Delete(k) \/ \E v \in Value : Put(k, v)
  \/ MergeStart \/ ResetStart \/ MergeStep
  \/ IOError \/ Crash

Spec == Init /\ [][Next]_vars
=============================================================================
