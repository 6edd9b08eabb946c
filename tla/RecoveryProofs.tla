--------------------------- MODULE RecoveryProofs ---------------------------
(***************************************************************************)
(* What is on disk: which files there are and in which order they were     *)
(* written (ActiveIsNewest, MergeCompacts), that Open accepts them         *)
(* (CleanOpenSucceeds), what a short write damages (DamageIsLocal), that a *)
(* fresh hint file finds the acknowledged writes (FreshHintRecovers), and  *)
(* so does a scan of the segments (ScanRecovers), proved for Store.        *)
(***************************************************************************)
EXTENDS ResolutionProofs, FiniteSetTheorems

(***************************************************************************)
(* The files of the directory, by where Merge is.  Only a Merge that gives *)
(* up leaves a file behind that the store does not know of.                *)
(***************************************************************************)
DirInv ==
  faults \subseteq {"append"} =>
    /\ (up /\ pc = "idle" /\ segments # {}) =>
         /\ DOMAIN disk = segments
         /\ activeID \in segments /\ \A id \in segments : id <= activeID
    /\ pc \in {"copy", "hint", "remove"} => DOMAIN disk = segments \cup {newID}
    /\ pc \in {"reset", "fresh"} => DOMAIN disk = segments

FreshInv == pc = "fresh" => segments = {}

\* A store that is down has no open segments to compare.
LEMMA DownDir == ASSUME Down PROVE DirInv' /\ FreshInv'
BY DEF Down, DirInv, FreshInv

\* Open takes every file there is, and the last of them is the active one.
LEMMA OpenDir == ASSUME TypeInv, ~up, Open PROVE DirInv' /\ FreshInv'
<1>1. PICK d, m : Opened(d, m) /\ DiskOK(d) /\ DOMAIN d # {}
  <2>1. CASE OpenEmpty
    <3>1. 1 \in FileID /\ 1 <= MaxFileID + 1 /\ DiskOK(disk)
      BY StoreAssumption DEF TypeInv, Shape, FileID
    <3>2. DiskOK(WithSegment(disk, 1)) /\ DOMAIN WithSegment(disk, 1) # {}
      BY <3>1, WithSegmentKeeps
    <3> QED
      BY <2>1, <3>2 DEF OpenEmpty
  <2>2. CASE OpenHint \/ OpenScan
    BY <2>2 DEF OpenHint, OpenScan, TypeInv, Shape
  <2> QED
    BY <2>1, <2>2 DEF Open
<1>2. /\ disk' = d /\ segments' = DOMAIN d /\ activeID' = lastID(DOMAIN d) /\ pc' = pc
  BY <1>1 DEF Opened, mergeVars
<1>3. lastID(DOMAIN d) \in DOMAIN d /\ \A id \in DOMAIN d : id <= lastID(DOMAIN d)
  BY <1>1, LastIDIn
<1>4. pc = "idle"
  BY DEF TypeInv, Shape
<1> QED
  BY <1>2, <1>3, <1>4 DEF DirInv, FreshInv

\* Writes keep it: rotation numbers the new segment above all others.
LEMMA WriteDir ==
  ASSUME TypeInv, DirInv, CanAppend, NEW e \in Entry, NEW sync \in BOOLEAN,
         Written(e, sync) \/ WrittenAndRotated(e, sync), UNCHANGED <<up, mergeVars, faults>>
  PROVE  DirInv' /\ FreshInv'
<1>1. up /\ pc = "idle" /\ pc' = "idle" /\ activeID \in segments
  BY DEF CanAppend, Ready, mergeVars
<1>2. CASE Written(e, sync)
  BY <1>1, <1>2, WrittenType DEF DirInv, FreshInv
<1>3. CASE WrittenAndRotated(e, sync)
  <2>1. /\ DOMAIN disk' = DOMAIN disk \cup {activeID'} /\ segments' = segments \cup {activeID'}
        /\ activeID' \in FileID /\ \A id \in segments : id < activeID'
    BY <1>1, <1>3, WrittenAndRotatedType
  <2>2. \A id \in segments' : id <= activeID'
    BY <2>1 DEF TypeInv, TypeOK, FileID
  <2> QED
    BY <1>1, <2>1, <2>2 DEF DirInv, FreshInv
<1> QED
  BY <1>2, <1>3

\* So do the steps of Merge and of resetToEmpty.
LEMMA MergeDir ==
  ASSUME TypeInv, DirInv, FreshInv, MergeStart \/ ResetStart \/ MergeStep
  PROVE  DirInv' /\ FreshInv'
<1>1. CASE MergeStart
  <2>1. DOMAIN disk' = DOMAIN disk \cup {newID'} /\ segments # {} /\ up /\ pc = "idle"
    BY <1>1, MergeStartDisk DEF MergeStart, CanAppend, Ready
  <2> QED
    BY <1>1, <2>1 DEF MergeStart, memVars, DirInv, FreshInv
<1>2. CASE ResetStart
  <2>1. DOMAIN disk' = DOMAIN disk /\ segments # {} /\ up /\ pc = "idle"
    BY <1>2, SyncedActiveOK DEF ResetStart, CanAppend, Ready
  <2> QED
    BY <1>2, <2>1 DEF ResetStart, memVars, DirInv, FreshInv
<1>3. ASSUME NEW k \in Key, MergeCopy(k) PROVE DirInv' /\ FreshInv'
  <2>1. DOMAIN disk' = DOMAIN disk
    BY <1>3, MergeCopyDisk
  <2> QED
    BY <1>3, <2>1 DEF MergeCopy, memVars, DirInv, FreshInv
<1>4. ASSUME NEW k \in Key, MergeReadFails(k) PROVE DirInv' /\ FreshInv'
  BY <1>4 DEF MergeReadFails, MergeAborts, DirInv, FreshInv
<1>5. CASE MergeSync
  <2>1. DOMAIN disk' = DOMAIN disk
    BY <1>5, MergeSyncDisk
  <2> QED
    BY <1>5, <2>1 DEF MergeSync, memVars, DirInv, FreshInv
<1>6. CASE MergeHint
  BY <1>6 DEF MergeHint, memVars, DirInv, FreshInv
<1>7. CASE MergePromote
  <2>1. newID \in Nat
    BY DEF TypeInv, TypeOK
  <2> QED
    BY <1>7, <2>1 DEF MergePromote, diskVars, DirInv, FreshInv
<1>8. CASE ResetHint
  BY <1>8 DEF ResetHint, memVars, DirInv, FreshInv
<1>9. CASE ResetFresh
  <2>1. DOMAIN disk' = DOMAIN disk \cup {1}
    BY <1>9, ResetFreshDisk
  <2> QED
    BY <1>9, <2>1 DEF ResetFresh, DirInv, FreshInv
<1>10. ASSUME NEW id \in segments, RemoveSegment(id) PROVE DirInv' /\ FreshInv'
  <2>1. /\ pc \in {"remove", "reset"} /\ pc' = pc /\ segments' = segments \ {id}
        /\ disk' = WithoutSegment(disk, id) /\ UNCHANGED <<newID, faults>>
    BY <1>10 DEF RemoveSegment, mergeVars
  <2>2. DOMAIN disk' = DOMAIN disk \ {id}
    BY <2>1 DEF WithoutSegment
  <2>3. pc = "remove" => newID # id
    BY DEF TypeInv, TypeOK, Shape, FileID
  <2> QED
    BY <2>1, <2>2, <2>3 DEF DirInv, FreshInv
<1> QED
  BY <1>1, <1>2, <1>3, <1>4, <1>5, <1>6, <1>7, <1>8, <1>9, <1>10 DEF MergeStep

\* And the I/O errors.
LEMMA IOErrorDir ==
  ASSUME TypeInv, DirInv, FreshInv, IOError PROVE DirInv' /\ FreshInv'
<1>1. ASSUME NEW e \in WriteEntries, NEW n \in 1 .. frameSize(e) - 1, AppendFails(e, n)
      PROVE  DirInv' /\ FreshInv'
  <2>1. DOMAIN disk' = DOMAIN disk /\ pc = "idle"
    BY <1>1 DEF AppendFails, CanAppend, Ready
  <2> QED
    BY <1>1, <2>1 DEF AppendFails, memVars, mergeVars, DirInv, FreshInv
<1>2. ASSUME NEW e \in WriteEntries, SyncFails(e) \/ RotateFails(e) PROVE DirInv' /\ FreshInv'
  <2>1. /\ e \in Entry /\ CanAppend /\ SyncOnWrite \in BOOLEAN
        /\ Written(e, SyncOnWrite) \/ Written(e, FALSE)
        /\ UNCHANGED <<up, mergeVars, faults>>
    BY <1>2, WriteEntryTypes, StoreAssumption DEF SyncFails, RotateFails
  <2> QED
    BY <2>1, WriteDir
<1>3. CASE MergeCopyFails \/ MergeHintFails
  BY <1>3 DEF MergeCopyFails, MergeHintFails, MergeAborts, DirInv, FreshInv
<1>4. ASSUME NEW id \in segments, RemoveFails(id) PROVE DirInv' /\ FreshInv'
  BY <1>4 DEF RemoveFails, MergeAborts, DirInv, FreshInv
<1>5. CASE ResetFails
  <2>1. segments = {} /\ segments' = {} /\ pc' = "idle"
    BY <1>5 DEF ResetFails, MergeAborts, FreshInv
  <2> QED
    BY <2>1 DEF DirInv, FreshInv
<1> QED
  BY <1>1, <1>2, <1>3, <1>4, <1>5 DEF IOError

\* Every step keeps it.
LEMMA NextDirInv == TypeInv /\ DirInv /\ FreshInv /\ [Next]_vars => DirInv' /\ FreshInv'
<1> SUFFICES ASSUME TypeInv, DirInv, FreshInv, [Next]_vars PROVE DirInv' /\ FreshInv'
  OBVIOUS
<1>1. CASE UNCHANGED vars
  BY <1>1 DEF vars, diskVars, memVars, mergeVars, DirInv, FreshInv
<1>2. CASE Open
  BY <1>2, OpenDir DEF Open, OpenEmpty, OpenHint, OpenScan
<1>3. ASSUME NEW k \in Key, Delete(k) PROVE DirInv' /\ FreshInv'
  BY <1>3, EntryTypes, StoreAssumption, WriteDir DEF Delete
<1>4. ASSUME NEW k \in Key, NEW v \in Value, Put(k, v) PROVE DirInv' /\ FreshInv'
  BY <1>4, EntryTypes, StoreAssumption, WriteDir DEF Put
<1>5. CASE MergeStart \/ ResetStart \/ MergeStep
  BY <1>5, MergeDir
<1>6. CASE IOError
  BY <1>6, IOErrorDir
<1>7. CASE Close \/ Crash
  BY <1>7, DownDir DEF Close, Crash, Kill, KillInWrite, KillInCopy, PowerLoss
<1> QED
  BY <1>1, <1>2, <1>3, <1>4, <1>5, <1>6, <1>7 DEF Next

\* Initially the store is down.
LEMMA InitDirInv == Init => DirInv /\ FreshInv
BY DEF Init, DirInv, FreshInv

(***************************************************************************)
(* Between calls, as long as no Merge gave up, the open segments are all   *)
(* the files there are and the newest of them takes the writes: the order  *)
(* of file IDs is the order of the writes, across rotations, merges,       *)
(* restarts and crashes.                                                   *)
(***************************************************************************)
THEOREM ActiveAlwaysNewest == Spec => []ActiveIsNewest
<1>1. DirInv => ActiveIsNewest
  BY DEF DirInv, ActiveIsNewest, Ready
<1> QED
  BY InitTypeInv, NextTypeInv, InitDirInv, NextDirInv, <1>1, PTL DEF Spec

(***************************************************************************)
(* Merge's new segment holds what the new index names and nothing else:    *)
(* it starts empty, because its number is above every file's, and every    *)
(* live key is copied into it once.                                        *)
(***************************************************************************)
NewNames(k, o) == newIndex[k] = [file |-> newID, off |-> o, tomb |-> FALSE]

CompactInv ==
  faults = {} =>
    /\ pc \in {"copy", "hint", "remove"} =>
         \A o \in DOMAIN disk[newID].at : \E k \in Key : NewNames(k, o)
    /\ pc = "copy" => \A k \in todo : newIndex[k].tomb

\* The new segment is empty when Merge starts.
LEMMA MergeStartCompact ==
  ASSUME TypeInv, DirInv, MergeStart PROVE CompactInv'
<1> SUFFICES ASSUME faults' = {} PROVE CompactInv'
  BY DEF CompactInv
<1>1. /\ pc' = "copy" /\ newIndex' = NewIndex /\ todo' \subseteq Key
      /\ faults = {} /\ up /\ pc = "idle" /\ segments # {}
  BY DEF MergeStart, CanAppend, Ready, LiveEntries
<1>2. /\ newID' \notin DOMAIN disk => disk'[newID'] = EmptyFile
      /\ newID' \in Nat /\ \A id \in segments : id < newID'
  BY MergeStartDisk
<1>3. newID' \notin DOMAIN disk
  BY <1>1, <1>2 DEF DirInv, TypeInv, TypeOK, FileID
<1>4. DOMAIN disk'[newID'].at = {}
  BY <1>2, <1>3 DEF EmptyFile
<1>5. \A k \in Key : NewIndex[k].tomb
  BY NewIndexType DEF LiveEntries
<1> QED
  BY <1>1, <1>4, <1>5 DEF CompactInv

\* A copied key was not copied before, so no location is overwritten.
LEMMA MergeCopyCompact ==
  ASSUME TypeInv, CompactInv, NEW k \in Key, MergeCopy(k) PROVE CompactInv'
<1> SUFFICES ASSUME faults' = {} PROVE CompactInv'
  BY DEF CompactInv
<1> DEFINE f == disk[newID]
<1>1. /\ pc = "copy" /\ pc' = "copy" /\ k \in todo /\ todo' = todo \ {k} /\ todo \subseteq Key
      /\ newIndex' = IndexPut(newIndex, k, newID, f.len, FALSE) /\ newID' = newID /\ faults = {}
  BY DEF MergeCopy, TypeInv, TypeOK
<1>2. disk'[newID] = Append(f, Copied(k)) /\ IsFile(f)
  BY MergeCopyDisk
<1>3. DOMAIN disk'[newID].at = DOMAIN f.at \cup {f.len}
  BY <1>2 DEF Append, Place
<1>4. /\ newIndex'[k] = [file |-> newID, off |-> f.len, tomb |-> FALSE]
      /\ \A j \in Key : j # k => newIndex'[j] = newIndex[j]
  BY <1>1 DEF IndexPut, IsIndex, TypeInv, TypeOK
<1>5. /\ \A o \in DOMAIN f.at : \E j \in Key : NewNames(j, o)
      /\ \A j \in todo : newIndex[j].tomb
  BY <1>1 DEF CompactInv
<1>6. ASSUME NEW o \in DOMAIN disk'[newID].at PROVE \E j \in Key : NewNames(j, o)'
  <2>1. CASE o = f.len
    BY <1>1, <1>4, <2>1 DEF NewNames
  <2>2. CASE o \in DOMAIN f.at
    <3>1. PICK j \in Key : newIndex[j] = [file |-> newID, off |-> o, tomb |-> FALSE]
      BY <1>5, <2>2 DEF NewNames
    <3>2. j # k
      BY <1>1, <1>5, <3>1
    <3> QED
      BY <1>1, <1>4, <3>1, <3>2 DEF NewNames
  <2> QED
    BY <1>3, <2>1, <2>2
<1>7. \A j \in todo' : newIndex'[j].tomb
  BY <1>1, <1>4, <1>5
<1> QED
  BY <1>1, <1>6, <1>7 DEF CompactInv

\* The rest of Merge leaves the new segment and the new index alone.
LEMMA MergeRestCompact ==
  ASSUME TypeInv, CompactInv,
         MergeSync \/ MergeHint \/ \E id \in segments : RemoveSegment(id)
  PROVE  CompactInv'
<1>1. CASE MergeSync
  <2>1. disk'[newID].at = disk[newID].at
    BY <1>1, MergeSyncDisk DEF Sync
  <2> QED
    BY <1>1, <2>1 DEF MergeSync, CompactInv, NewNames
<1>2. CASE MergeHint
  BY <1>2 DEF MergeHint, CompactInv, NewNames
<1>3. ASSUME NEW id \in segments, RemoveSegment(id) PROVE CompactInv'
  <2>1. /\ pc \in {"remove", "reset"} /\ pc' = pc /\ disk' = WithoutSegment(disk, id)
        /\ UNCHANGED <<newID, newIndex, faults>>
    BY <1>3 DEF RemoveSegment, mergeVars
  <2>2. pc = "remove" => disk'[newID] = disk[newID]
    BY <2>1 DEF WithoutSegment, TypeInv, TypeOK, Shape, FileID
  <2> QED
    BY <2>1, <2>2 DEF CompactInv, NewNames
<1> QED
  BY <1>1, <1>2, <1>3

\* Every other step ends with Merge idle or in resetToEmpty.
LEMMA NextCompactInv ==
  TypeInv /\ DirInv /\ CompactInv /\ [Next]_vars => CompactInv'
<1> SUFFICES ASSUME TypeInv, DirInv, CompactInv, [Next]_vars PROVE CompactInv'
  OBVIOUS
<1>1. CASE UNCHANGED vars
  BY <1>1 DEF vars, diskVars, mergeVars, CompactInv, NewNames
<1>2. CASE Open \/ (\E k \in Key : Delete(k) \/ \E v \in Value : Put(k, v))
  <2>1. pc' = "idle"
    BY <1>2 DEF Open, OpenEmpty, OpenHint, OpenScan, Opened, Delete, Put, CanAppend, Ready,
       mergeVars, TypeInv, Shape
  <2> QED
    BY <2>1 DEF CompactInv
<1>3. CASE MergeStart \/ ResetStart
  BY <1>3, MergeStartCompact DEF ResetStart, CompactInv
<1>4. CASE MergeStep
  BY <1>4, MergeCopyCompact, MergeRestCompact
  DEF MergeStep, MergeReadFails, MergeAborts, MergePromote, ResetHint, ResetFresh, CompactInv
<1>5. CASE IOError
  <2>1. pc' = "idle"
    BY <1>5 DEF IOError, AppendFails, SyncFails, RotateFails, MergeCopyFails, MergeHintFails,
       ResetFails, RemoveFails, MergeAborts, CanAppend, Ready, mergeVars
  <2> QED
    BY <2>1 DEF CompactInv
<1>6. CASE Close \/ Crash
  BY <1>6 DEF Close, Crash, Kill, KillInWrite, KillInCopy, PowerLoss, Down, CompactInv
<1> QED
  BY <1>1, <1>2, <1>3, <1>4, <1>5, <1>6 DEF Next

\* What a Merge that returns leaves.
Compacted ==
  (pc # "idle" /\ pc' = "idle" /\ up' /\ faults' = {} /\ ioErrors' = ioErrors) =>
    /\ segments' = {activeID'} /\ DOMAIN disk' = {activeID'}
    /\ \A o \in DOMAIN disk'[activeID'].at :
         \E k \in Key : index'[k] = [file |-> activeID', off |-> o, tomb |-> FALSE]

\* Only MergePromote and ResetFresh return without an error.
LEMMA StepCompacts ==
  ASSUME TypeInv, DirInv, FreshInv, CompactInv, [Next]_vars PROVE Compacted
<1> SUFFICES ASSUME pc # "idle", pc' = "idle", up', faults' = {}, ioErrors' = ioErrors
             PROVE  /\ segments' = {activeID'} /\ DOMAIN disk' = {activeID'}
                    /\ \A o \in DOMAIN disk'[activeID'].at :
                         \E k \in Key : index'[k] = [file |-> activeID', off |-> o, tomb |-> FALSE]
  BY DEF Compacted
<1>1. faults = {}
  BY FaultsOnlyGrow
<1>2. CASE MergePromote
  <2>1. /\ pc = "remove" /\ segments = {} /\ segments' = {newID} /\ activeID' = newID
        /\ index' = newIndex /\ disk' = disk
    BY <1>2 DEF MergePromote, diskVars
  <2> QED
    BY <1>1, <2>1 DEF DirInv, CompactInv, NewNames
<1>3. CASE ResetFresh
  <2>1. pc = "fresh" /\ segments' = {1} /\ activeID' = 1 /\ disk' = WithSegment(disk, 1)
    BY <1>3 DEF ResetFresh
  <2>2. DOMAIN disk = {}
    BY <1>1, <2>1 DEF DirInv, FreshInv
  <2>3. DOMAIN disk' = {1} /\ DOMAIN disk'[1].at = {}
    BY <2>1, <2>2 DEF WithSegment, EmptyFile
  <2> QED
    BY <2>1, <2>3
<1>4. CASE UNCHANGED vars \/ Open \/ Close \/ Crash
  BY <1>4 DEF vars, mergeVars, Open, OpenEmpty, OpenHint, OpenScan, Opened, Close, Ready, Crash,
     Kill, KillInWrite, KillInCopy, PowerLoss, Down
<1>5. CASE (\E k \in Key : Delete(k) \/ \E v \in Value : Put(k, v)) \/ MergeStart \/ ResetStart
  BY <1>5 DEF Delete, Put, MergeStart, ResetStart, CanAppend, Ready
<1>6. CASE IOError
  <2>1. ioErrors' = ioErrors + 1 /\ ioErrors \in Nat
    BY <1>6 DEF IOError, AppendFails, SyncFails, RotateFails, MergeCopyFails, MergeHintFails,
       ResetFails, RemoveFails, CountIOError, TypeInv, TypeOK
  <2> QED
    BY <2>1
<1>7. CASE \/ \E k \in Key : MergeCopy(k) \/ MergeReadFails(k)
           \/ MergeSync \/ MergeHint \/ ResetHint \/ \E id \in segments : RemoveSegment(id)
  BY <1>7 DEF MergeCopy, MergeReadFails, MergeAborts, MergeSync, MergeHint, ResetHint,
     RemoveSegment, mergeVars
<1> QED
  BY <1>2, <1>3, <1>4, <1>5, <1>6, <1>7 DEF Next, MergeStep

\* Initially Merge is idle.
LEMMA InitCompactInv == Init => CompactInv
BY DEF Init, CompactInv

(***************************************************************************)
(* A Merge that returns nil, in a store that had no fault before, leaves   *)
(* one file, the active one, and in it exactly the records its index       *)
(* names: no stale record and no tombstone outlives it.                    *)
(***************************************************************************)
THEOREM MergeAlwaysCompacts == Spec => MergeCompacts
<1>1. TypeInv /\ DirInv /\ FreshInv /\ CompactInv /\ [Next]_vars => [Compacted]_vars
  BY StepCompacts
<1> QED
  BY InitTypeInv, NextTypeInv, InitDirInv, NextDirInv, InitCompactInv, NextCompactInv, <1>1, PTL
  DEF Spec, MergeCompacts, Compacted

(***************************************************************************)
(* Without crashes and I/O errors no frame is torn, and the hint file is   *)
(* unreadable only while Merge is writing it.                              *)
(***************************************************************************)
NoTear(d) == \A id \in DOMAIN d : Torn(d[id]) = {}

CleanInv ==
  (crashes = 0 /\ ioErrors = 0) => NoTear(disk) /\ (hint = "torn" => pc = "hint")

\* A whole record appended, a sync and a new segment tear nothing.
LEMMA NoTearKept ==
  /\ \A f : Torn(Sync(f)) = Torn(f)
  /\ \A f, e : Torn(f) = {} /\ ~e.torn => Torn(Append(f, e)) = {}
  /\ \A d, id : NoTear(d) => NoTear(WithSegment(d, id)) /\ NoTear(WithoutSegment(d, id))
  /\ \A d, id, f : NoTear(d) /\ Torn(f) = {} => NoTear([d EXCEPT ![id] = f])
<1>1. \A f : Torn(Sync(f)) = Torn(f)
  BY DEF Torn, Sync
<1>2. \A f, e : Torn(f) = {} /\ ~e.torn => Torn(Append(f, e)) = {}
  BY DEF Torn, Append, Place
<1>3. Torn(EmptyFile) = {}
  BY DEF Torn, EmptyFile
<1>4. \A d, id : NoTear(d) => NoTear(WithSegment(d, id)) /\ NoTear(WithoutSegment(d, id))
  BY <1>3 DEF NoTear, WithSegment, WithoutSegment
<1>5. \A d, id, f : NoTear(d) /\ Torn(f) = {} => NoTear([d EXCEPT ![id] = f])
  BY DEF NoTear
<1> QED
  BY <1>1, <1>2, <1>4, <1>5

\* A write tears nothing.
LEMMA WriteClean ==
  ASSUME TypeInv, activeID \in segments, NoTear(disk), NEW e, ~e.torn, NEW sync,
         Written(e, sync) \/ WrittenAndRotated(e, sync)
  PROVE  NoTear(disk')
<1> DEFINE g == WrittenFile(e, sync)
           d == [disk EXCEPT ![activeID] = g]
<1>1. Torn(disk[activeID]) = {}
  BY DEF NoTear, TypeInv, Shape
<1>2. Torn(g) = {}
  BY <1>1, NoTearKept DEF WrittenFile
<1>3. NoTear(d)
  BY <1>2, NoTearKept
<1>4. disk' = d \/ disk' = WithSegment(d, maxFileID + 1)
  BY DEF Written, WrittenAndRotated, WrittenFile
<1> HIDE DEF d
<1> QED
  BY <1>3, <1>4, NoTearKept

\* Every step keeps the invariant.
LEMMA NextCleanInv == TypeInv /\ CleanInv /\ [Next]_vars => CleanInv'
<1> SUFFICES ASSUME TypeInv, CleanInv, [Next]_vars, crashes' = 0, ioErrors' = 0
             PROVE  NoTear(disk') /\ (hint' = "torn" => pc' = "hint")
  BY DEF CleanInv
<1>1. crashes \in Nat /\ ioErrors \in Nat /\ activeID \in Nat
  BY DEF TypeInv, TypeOK
<1>2. CASE UNCHANGED vars
  BY <1>2 DEF vars, diskVars, mergeVars, bounds, CleanInv
<1>3. CASE Open
  <2>1. PICK d, m : Opened(d, m) /\ (d = disk \/ d = WithSegment(disk, 1)) /\ ~up
    BY <1>3 DEF Open, OpenEmpty, OpenHint, OpenScan
  <2>2. crashes = 0 /\ ioErrors = 0 /\ disk' = d /\ hint' = hint /\ pc' = pc
    BY <2>1 DEF Opened, bounds, mergeVars
  <2> QED
    BY <2>1, <2>2, NoTearKept DEF CleanInv
<1>4. ASSUME NEW k \in Key, Delete(k) PROVE NoTear(disk') /\ (hint' = "torn" => pc' = "hint")
  <2>1. /\ crashes = 0 /\ ioErrors = 0 /\ hint' = hint /\ pc' = pc /\ activeID \in segments
        /\ Written(DelEntry(k), SyncOnWrite) /\ ~DelEntry(k).torn
    BY <1>4 DEF Delete, CanAppend, mergeVars, DelEntry
  <2> QED
    BY <2>1, WriteClean DEF CleanInv
<1>5. ASSUME NEW k \in Key, NEW v \in Value, Put(k, v)
      PROVE  NoTear(disk') /\ (hint' = "torn" => pc' = "hint")
  <2>1. /\ crashes = 0 /\ ioErrors = 0 /\ hint' = hint /\ pc' = pc /\ activeID \in segments
        /\ ~PutEntry(k, v).torn
        /\ \/ Written(PutEntry(k, v), SyncOnWrite)
           \/ WrittenAndRotated(PutEntry(k, v), SyncOnWrite)
    BY <1>5 DEF Put, CanAppend, mergeVars, PutEntry
  <2> QED
    BY <2>1, WriteClean DEF CleanInv
<1>6. CASE MergeStart \/ ResetStart
  <2>1. /\ crashes = 0 /\ ioErrors = 0 /\ hint' = hint /\ pc = "idle"
        /\ disk' = SyncedActive \/ disk' = WithSegment(SyncedActive, maxFileID + 1)
    BY <1>6 DEF MergeStart, ResetStart, CanAppend, Ready, bounds
  <2>2. NoTear(disk) /\ activeID \in DOMAIN disk
    BY <1>6, <2>1 DEF CleanInv, MergeStart, ResetStart, CanAppend, TypeInv, Shape
  <2>3. Torn(Sync(disk[activeID])) = {}
    BY <2>2, NoTearKept DEF NoTear
  <2>4. NoTear(SyncedActive)
    BY <2>2, <2>3, NoTearKept DEF SyncedActive
  <2> QED
    BY <2>1, <2>4, NoTearKept DEF CleanInv
<1>7. ASSUME NEW k \in Key, MergeCopy(k) PROVE NoTear(disk') /\ (hint' = "torn" => pc' = "hint")
  <2>1. /\ crashes = 0 /\ ioErrors = 0 /\ hint' = hint /\ pc' = pc
        /\ disk' = [disk EXCEPT ![newID] = Append(disk[newID], Copied(k))]
        /\ newID \in DOMAIN disk
    BY <1>7 DEF MergeCopy, bounds, TypeInv, Shape
  <2>2. ~Copied(k).torn
    BY DEF Copied, PutEntry
  <2>3. Torn(Append(disk[newID], Copied(k))) = {}
    BY <2>1, <2>2, NoTearKept DEF CleanInv, NoTear
  <2> QED
    BY <2>1, <2>3, NoTearKept DEF CleanInv
<1>8. CASE MergeSync
  <2>1. /\ crashes = 0 /\ ioErrors = 0 /\ pc' = "hint" /\ newID \in DOMAIN disk
        /\ disk' = [disk EXCEPT ![newID] = Sync(disk[newID])]
    BY <1>8 DEF MergeSync, bounds, TypeInv, Shape
  <2>2. Torn(Sync(disk[newID])) = {}
    BY <2>1, NoTearKept DEF CleanInv, NoTear
  <2> QED
    BY <2>1, <2>2, NoTearKept DEF CleanInv
<1>9. CASE \/ \E k \in Key : MergeReadFails(k)
           \/ MergeHint \/ MergePromote \/ ResetHint
  BY <1>9 DEF MergeReadFails, MergeAborts, MergeHint, MergePromote, ResetHint, bounds, diskVars,
     CleanInv
<1>10. CASE ResetFresh
  <2>1. /\ crashes = 0 /\ ioErrors = 0 /\ hint' = hint /\ pc = "fresh"
        /\ disk' = WithSegment(disk, 1)
    BY <1>10 DEF ResetFresh, bounds
  <2> QED
    BY <2>1, NoTearKept DEF CleanInv
<1>11. ASSUME NEW id \in segments, RemoveSegment(id)
       PROVE  NoTear(disk') /\ (hint' = "torn" => pc' = "hint")
  <2>1. /\ crashes = 0 /\ ioErrors = 0 /\ hint' = hint /\ pc' = pc
        /\ disk' = WithoutSegment(disk, id)
    BY <1>11 DEF RemoveSegment, bounds, mergeVars
  <2> QED
    BY <2>1, NoTearKept DEF CleanInv
<1>12. CASE IOError
  <2>1. ioErrors' = ioErrors + 1
    BY <1>12 DEF IOError, AppendFails, SyncFails, RotateFails, MergeCopyFails, MergeHintFails,
       ResetFails, RemoveFails, CountIOError
  <2> QED
    BY <1>1, <2>1
<1>13. CASE Crash
  <2>1. crashes' = crashes + 1
    BY <1>13 DEF Crash, Kill, KillInWrite, KillInCopy, PowerLoss, CountCrash
  <2> QED
    BY <1>1, <2>1
<1>14. CASE Close
  BY <1>14 DEF Close, Ready, Down, diskVars, bounds, CleanInv
<1> QED
  BY <1>2, <1>3, <1>4, <1>5, <1>6, <1>7, <1>8, <1>9, <1>10, <1>11, <1>12, <1>13, <1>14
  DEF Next, MergeStep

\* The empty directory has no torn frame.
LEMMA InitCleanInv == Init => CleanInv
BY DEF Init, CleanInv, NoTear

\* Nor is the store damaged: every fault but a Merge that could not read a
\* record comes with a crash or an I/O error.
FaultFree == (crashes = 0 /\ ioErrors = 0) => faults \subseteq {"merge"}

LEMMA NextFaultFree == TypeInv /\ FaultFree /\ [Next]_vars => FaultFree'
<1> SUFFICES ASSUME TypeInv, FaultFree, [Next]_vars, crashes' = 0, ioErrors' = 0
             PROVE  faults' \subseteq {"merge"}
  BY DEF FaultFree
<1>1. crashes \in Nat /\ ioErrors \in Nat
  BY DEF TypeInv, TypeOK
<1>2. CASE UNCHANGED <<faults, crashes, ioErrors>>
  BY <1>2 DEF FaultFree
<1>3. CASE IOError
  <2>1. ioErrors' = ioErrors + 1
    BY <1>3 DEF IOError, AppendFails, SyncFails, RotateFails, MergeCopyFails, MergeHintFails,
       ResetFails, RemoveFails, CountIOError
  <2> QED
    BY <1>1, <2>1
<1>4. CASE Crash
  <2>1. crashes' = crashes + 1
    BY <1>4 DEF Crash, Kill, KillInWrite, KillInCopy, PowerLoss, CountCrash
  <2> QED
    BY <1>1, <2>1
<1>5. ASSUME NEW k \in Key, MergeReadFails(k) PROVE faults' \subseteq {"merge"}
  BY <1>5 DEF MergeReadFails, MergeAborts, FaultFree
<1>6. CASE Open \/ Close \/ \E k \in Key : Delete(k) \/ \E v \in Value : Put(k, v)
  BY <1>2, <1>6 DEF Open, OpenEmpty, OpenHint, OpenScan, Opened, Close, Delete, Put, bounds
<1>7. CASE MergeStart \/ ResetStart \/ MergeStep
  BY <1>2, <1>5, <1>7 DEF MergeStart, ResetStart, MergeStep, MergeCopy, MergeSync, MergeHint,
     MergePromote, ResetHint, ResetFresh, RemoveSegment, bounds
<1>8. CASE UNCHANGED vars
  BY <1>2, <1>8 DEF vars, bounds
<1> QED
  BY <1>3, <1>4, <1>6, <1>7, <1>8 DEF Next

LEMMA InitFaultFree == Init => FaultFree
BY DEF Init, FaultFree

(***************************************************************************)
(* Without crashes and I/O errors a closed store can be opened again while *)
(* its records are within the limits of the readers, for any lengths of    *)
(* keys and values and whatever was written and merged away before.  A     *)
(* hint file is within LoadHint's limits because the keys it names have    *)
(* their records in the segments.                                          *)
(***************************************************************************)
THEOREM CleanStoreReopens == Spec => []CleanOpenSucceeds
<1>1. TypeInv /\ LocInv /\ CleanInv /\ FaultFree => CleanOpenSucceeds
  <2> SUFFICES ASSUME TypeInv, LocInv, CleanInv, FaultFree, ~up, crashes = 0, ioErrors = 0,
                      WithinLimits
               PROVE  \/ HintLoads(hint, hintIndex)
                      \/ hint = "none" /\ \A id \in DOMAIN disk : TRUE \in ScanVerdicts(disk[id])
    BY DEF CleanOpenSucceeds
  <2>1. pc = "idle" /\ hint \in {"none", "torn", "whole"}
    BY DEF TypeInv, TypeOK, Shape
  <2>2. hint # "torn" /\ NoTear(disk)
    BY <2>1 DEF CleanInv
  <2>3. CASE hint = "whole"
    <3>1. AllResolve(disk, hintIndex)
      BY <2>1, <2>3 DEF LocInv, HintInv, FaultFree, Damaged
    <3>2. LiveEntries(hintIndex) \subseteq KeysOnDisk
      BY <3>1 DEF AllResolve, Resolves, CanReadAt, ReadAt, KeysOnDisk, LiveEntries
    <3>3. IsFiniteSet(KeysOnDisk)
      BY HintAssumption, FS_Subset DEF KeysOnDisk
    <3>4. /\ Cardinality(LiveEntries(hintIndex)) <= Cardinality(KeysOnDisk)
          /\ IsFiniteSet(LiveEntries(hintIndex))
      BY <3>2, <3>3, FS_Subset
    <3>5. Cardinality(LiveEntries(hintIndex)) \in Nat /\ Cardinality(KeysOnDisk) \in Nat
      BY <3>3, <3>4, FS_CardinalityType
    <3>6. Cardinality(LiveEntries(hintIndex)) <= MaxHintEntries
      BY <3>4, <3>5, HintAssumption DEF WithinLimits
    <3> QED
      BY <2>3, <3>2, <3>6 DEF HintLoads, WithinLimits
  <2>4. ASSUME NEW id \in DOMAIN disk PROVE TRUE \in ScanVerdicts(disk[id])
    <3>1. Torn(disk[id]) = {}
      BY <2>2 DEF NoTear
    <3>2. ASSUME NEW o \in DOMAIN disk[id].at PROVE ~(payloadLen(disk[id].at[o]) > MaxRecordPayload)
      <4>1. disk[id].at[o] \in Entry
        BY DEF TypeInv, Shape, DiskOK, IsFile
      <4>2. payloadLen(disk[id].at[o]) \in Nat /\ MaxRecordPayload \in Nat
        BY <4>1, LogAssumption DEF payloadLen, Entry
      <4>3. payloadLen(disk[id].at[o]) <= MaxRecordPayload
        BY DEF WithinLimits
      <4> QED
        BY <4>2, <4>3
    <3> QED
      BY <3>1, <3>2 DEF ScanVerdicts
  <2> QED
    BY <2>1, <2>2, <2>3, <2>4
<1> QED
  BY InitTypeInv, NextTypeInv, InitResInv, NextResInv, ResLoc, InitCleanInv, NextCleanInv,
     InitFaultFree, NextFaultFree, <1>1, PTL
  DEF Spec

(***************************************************************************)
(* Damage.  After a short write Segment.size lies behind the end of the    *)
(* file; what is written next gets a location at or after the torn frame.  *)
(***************************************************************************)
LocalAt(k) ==
  /\ index[k].file \in segments
  /\ \/ Resolves(disk, k, index[k])
     \/ \E o \in Torn(disk[index[k].file]) : o <= index[k].off

LocalSize ==
  activeID \in segments =>
    size = disk[activeID].len \/ \E o \in Torn(disk[activeID]) : o <= size

LocalScope ==
  up /\ faults \subseteq {"append", "merge"} /\ hint = "none" /\ pc \in {"idle", "copy"}

LocalInv == LocalScope => LocalSize /\ \A k \in LiveEntries(index) : LocalAt(k)

\* A torn frame stays torn.
LEMMA TornKept == ASSUME NEW f, NEW g, Keeps(f, g) PROVE Torn(f) \subseteq Torn(g)
BY DEF Keeps, Torn

\* The invariant, when files grow and neither the index nor the active file changes.
LEMMA LocalKept ==
  ASSUME TypeInv, DiskKeeps(disk, disk'), segments \subseteq segments', UNCHANGED index,
         NEW k \in LiveEntries(index), LocalAt(k)
  PROVE  LocalAt(k)'
<1>1. index[k].file \in segments /\ index[k].file \in DOMAIN disk
  BY DEF LocalAt, TypeInv, Shape
<1>2. Torn(disk[index[k].file]) \subseteq Torn(disk'[index[k].file])
  BY <1>1, TornKept DEF DiskKeeps
<1>3. Resolves(disk, k, index[k]) => Resolves(disk', k, index[k])
  BY DEF Resolves, CanReadAt, ReadAt, DiskKeeps, Keeps
<1> QED
  BY <1>1, <1>2, <1>3 DEF LocalAt

\* A write keeps it, wherever Segment.size is.
LEMMA WriteLocal ==
  ASSUME TypeInv, TypeInv', LocalInv, LocalScope, CanAppend, NEW e \in Entry, ~e.torn,
         NEW sync \in BOOLEAN, Written(e, sync) \/ WrittenAndRotated(e, sync)
  PROVE  LocalInv'
<1> DEFINE f == disk[activeID]
<1>1. activeID \in segments /\ LocalSize /\ \A k \in LiveEntries(index) : LocalAt(k)
  BY DEF CanAppend, LocalInv
<1>2. /\ activeID \in DOMAIN disk /\ f.len \in DOMAIN WrittenFile(e, sync).at
      /\ WrittenFile(e, sync).at[f.len] = e /\ WrittenFile(e, sync).len = f.len + frameSize(e)
      /\ Keeps(f, WrittenFile(e, sync))
  BY <1>1, WrittenFileOK
<1>3. /\ DiskKeeps(disk, disk') /\ disk'[activeID] = WrittenFile(e, sync)
      /\ index' = IndexPut(index, e.key, activeID, size, e.tomb)
      /\ segments \subseteq segments' /\ activeID \in DOMAIN disk'
  <2>1. CASE Written(e, sync)
    <3>1. /\ disk' = [disk EXCEPT ![activeID] = WrittenFile(e, sync)]
          /\ index' = IndexPut(index, e.key, activeID, size, e.tomb) /\ segments' = segments
      BY <2>1 DEF Written, WrittenFile
    <3> QED
      BY <1>1, <3>1, WrittenFileOK
  <2>2. CASE WrittenAndRotated(e, sync)
    <3>1. /\ DiskKeeps(disk, disk') /\ disk'[activeID] = WrittenFile(e, sync)
          /\ segments \subseteq segments' /\ DOMAIN disk' = DOMAIN disk \cup {activeID'}
      BY <1>1, <2>2, WrittenAndRotatedType
    <3> QED
      BY <1>2, <2>2, <3>1 DEF WrittenAndRotated
  <2> QED
    BY <2>1, <2>2
<1>4. e.key \in Key /\ e.tomb \in BOOLEAN /\ size \in Nat /\ activeID \in Nat /\ IsIndex(index)
  BY DEF Entry, TypeInv, TypeOK
<1>5. /\ index'[e.key] = [file |-> activeID, off |-> size, tomb |-> e.tomb]
      /\ \A j \in Key : j # e.key => index'[j] = index[j]
  BY <1>3, <1>4, IndexPutType
<1>6. Torn(f) \subseteq Torn(disk'[activeID])
  BY <1>2, <1>3, TornKept
<1>7. ASSUME NEW k \in LiveEntries(index') PROVE LocalAt(k)'
  <2>1. CASE k = e.key
    <3>1. /\ index'[k].file = activeID /\ index'[k].off = size /\ ~e.tomb
      BY <1>5, <1>7, <2>1 DEF LiveEntries
    <3>2. CASE size = f.len
      <4>1. Resolves(disk', k, index'[k])
        BY <1>2, <1>3, <2>1, <3>1, <3>2 DEF Resolves, CanReadAt, ReadAt
      <4> QED
        BY <1>1, <1>3, <3>1, <4>1 DEF LocalAt
    <3>3. CASE \E o \in Torn(f) : o <= size
      BY <1>1, <1>3, <1>6, <3>1, <3>3 DEF LocalAt
    <3> QED
      BY <1>1, <3>2, <3>3 DEF LocalSize
  <2>2. CASE k # e.key
    <3>1. k \in LiveEntries(index) /\ index'[k] = index[k]
      BY <1>5, <1>7, <2>2 DEF LiveEntries
    <3>2. LocalAt(k) /\ index[k].file \in DOMAIN disk
      BY <1>1, <3>1 DEF LocalAt, TypeInv, Shape
    <3>3. Torn(disk[index[k].file]) \subseteq Torn(disk'[index[k].file])
      BY <1>3, <3>2, TornKept DEF DiskKeeps
    <3>4. Resolves(disk, k, index[k]) => Resolves(disk', k, index[k])
      BY <1>3 DEF Resolves, CanReadAt, ReadAt, DiskKeeps, Keeps
    <3> QED
      BY <1>3, <3>1, <3>2, <3>3, <3>4 DEF LocalAt
  <2> QED
    BY <2>1, <2>2
<1>8. LocalSize'
  <2>1. CASE Written(e, sync)
    <3>1. size' = size + frameSize(e) /\ activeID' = activeID
      BY <2>1 DEF Written
    <3>2. frameSize(e) \in Nat /\ f.len \in Nat /\ \A o \in Torn(f) : o \in Nat
      BY <1>2, EntryTypes, DiskOKTypes DEF Torn, TypeInv, Shape, DiskOK, IsFile
    <3>3. CASE size = f.len
      BY <1>2, <1>3, <3>1, <3>3 DEF LocalSize
    <3>4. ASSUME NEW o \in Torn(f), o <= size PROVE LocalSize'
      BY <1>4, <1>6, <3>1, <3>2, <3>4 DEF LocalSize
    <3> QED
      BY <1>1, <3>3, <3>4 DEF LocalSize
  <2>2. CASE WrittenAndRotated(e, sync)
    BY <1>1, <2>2, WrittenAndRotatedType DEF LocalSize
  <2> QED
    BY <2>1, <2>2
<1> QED
  BY <1>7, <1>8 DEF LocalInv

\* A short append leaves a torn frame at the old end of the file.
LEMMA AppendFailsLocal ==
  ASSUME TypeInv, LocalInv, LocalScope, NEW e \in WriteEntries, NEW n \in 1 .. frameSize(e) - 1,
         AppendFails(e, n)
  PROVE  LocalInv'
<1> DEFINE f == disk[activeID]
           g == AppendPrefix(f, e, n)
<1>1. /\ activeID \in segments /\ activeID \in DOMAIN disk /\ IsFile(f)
      /\ disk' = [disk EXCEPT ![activeID] = g]
      /\ UNCHANGED <<index, segments, activeID, size>>
  BY DEF AppendFails, CanAppend, memVars, TypeInv, Shape, DiskOK
<1>2. e \in Entry /\ n \in Nat \ {0} /\ n # frameSize(e)
  BY WriteEntryTypes, EntryTypes
<1>3. DiskKeeps(disk, disk') /\ disk'[activeID] = g
  BY <1>1, <1>2, PrefixOK
<1>4. f.len \in Torn(g)
  BY <1>2 DEF AppendPrefix, Place, Torn, TornEntry
<1>5. Torn(f) \subseteq Torn(g)
  BY <1>1, <1>2, AppendPrefixKeeps, TornKept
<1>6. f.len \in Nat /\ size \in Nat
  BY <1>1 DEF IsFile, TypeInv, TypeOK
<1>7. LocalSize'
  <2>1. LocalSize
    BY DEF LocalInv
  <2> QED
    BY <1>1, <1>3, <1>4, <1>5, <1>6, <2>1 DEF LocalSize
<1>8. \A k \in LiveEntries(index) : LocalAt(k)'
  BY <1>1, <1>3, LocalKept DEF LocalInv
<1> QED
  BY <1>1, <1>7, <1>8 DEF LocalInv

\* Merge, until it creates the hint file, and a Merge that gives up keep it.
LEMMA MergeLocal ==
  ASSUME TypeInv, LocalInv, LocalScope, DiskKeeps(disk, disk'),
         activeID \in segments => disk'[activeID].len = disk[activeID].len,
         UNCHANGED <<index, segments, activeID, size>>
  PROVE  LocalInv'
<1>1. LocalSize /\ \A k \in LiveEntries(index) : LocalAt(k)
  BY DEF LocalInv
<1>2. \A k \in LiveEntries(index') : LocalAt(k)'
  BY <1>1, LocalKept
<1>3. LocalSize'
  <2>1. activeID \in segments => activeID \in DOMAIN disk
    BY DEF TypeInv, Shape
  <2>2. activeID \in segments => Torn(disk[activeID]) \subseteq Torn(disk'[activeID])
    BY <2>1, TornKept DEF DiskKeeps
  <2> QED
    BY <1>1, <2>2 DEF LocalSize
<1> QED
  BY <1>2, <1>3 DEF LocalInv

\* An index without live keys, or none at all, is fine.
LEMMA EmptyLocal ==
  ASSUME LiveEntries(index') = {}, activeID' \in segments' => size' = disk'[activeID'].len
  PROVE  LocalInv'
BY DEF LocalInv, LocalSize

\* The hint file while Merge is past its copies.
HintPCInv == (pc = "hint" => hint = "torn") /\ (pc = "remove" => hint = "whole")

\* Every step keeps that.
LEMMA NextHintPCInv == HintPCInv /\ [Next]_vars => HintPCInv'
<1> SUFFICES ASSUME HintPCInv, [Next]_vars PROVE HintPCInv'
  OBVIOUS
<1>1. CASE UNCHANGED vars
  BY <1>1 DEF vars, diskVars, mergeVars, HintPCInv
<1>2. CASE Open \/ Close \/ Crash
  BY <1>2 DEF Open, OpenEmpty, OpenHint, OpenScan, Opened, mergeVars, Close, Crash, Kill,
     KillInWrite, KillInCopy, PowerLoss, Down, HintPCInv
<1>3. CASE (\E k \in Key : Delete(k) \/ \E v \in Value : Put(k, v)) \/ MergeStart \/ ResetStart
  BY <1>3 DEF Delete, Put, mergeVars, MergeStart, ResetStart, HintPCInv
<1>4. CASE MergeStep
  BY <1>4 DEF MergeStep, MergeCopy, MergeReadFails, MergeAborts, MergeSync, MergeHint,
     MergePromote, ResetHint, ResetFresh, RemoveSegment, mergeVars, HintPCInv
<1>5. CASE IOError
  BY <1>5 DEF IOError, AppendFails, SyncFails, RotateFails, MergeCopyFails, MergeHintFails,
     ResetFails, RemoveFails, MergeAborts, mergeVars, HintPCInv
<1> QED
  BY <1>1, <1>2, <1>3, <1>4, <1>5 DEF Next

\* Open without a hint file keeps LocalInv: a scan finds only whole records.
LEMMA OpenLocal == ASSUME TypeInv, ~up, Open, hint' = "none" PROVE LocalInv'
<1>1. CASE OpenEmpty
  <2>1. index' = NewIndex /\ size' = disk'[activeID'].len
    BY <1>1 DEF OpenEmpty, Opened
  <2> QED
    BY <2>1, NewIndexType, EmptyLocal
<1>2. CASE OpenHint
  BY <1>2 DEF OpenHint, HintLoads, Opened
<1>3. CASE OpenScan
  <2>1. /\ index' = scanIndex(disk) /\ disk' = disk /\ segments' = DOMAIN disk
        /\ size' = disk'[activeID'].len
    BY <1>3 DEF OpenScan, Opened
  <2>2. AllResolve(disk, scanIndex(disk))
    BY StoreAssumption, ScanResolves DEF TypeInv, Shape, DiskOK, FileID, AllResolve
  <2>3. \A k \in LiveEntries(index') : LocalAt(k)'
    BY <2>1, <2>2 DEF LocalAt, AllResolve, Resolves
  <2> QED
    BY <2>1, <2>3 DEF LocalInv, LocalSize
<1> QED
  BY <1>1, <1>2, <1>3 DEF Open

\* Every step keeps LocalInv.
LEMMA NextLocalInv ==
  TypeInv /\ LocInv /\ FreshInv /\ HintPCInv /\ LocalInv /\ [Next]_vars => LocalInv'
<1> SUFFICES ASSUME TypeInv, LocInv, FreshInv, HintPCInv, LocalInv, [Next]_vars, LocalScope'
             PROVE  LocalInv'
  BY DEF LocalInv
<1>0. TypeInv' /\ SyncOnWrite \in BOOLEAN
  BY NextTypeInv, StoreAssumption
<1>1. DiskOK(disk) /\ DiskKeeps(disk, disk) /\ faults \subseteq faults'
  BY DiskKeepsReflexive, FaultsOnlyGrow DEF TypeInv, Shape
<1>2. CASE UNCHANGED vars
  <2>1. UNCHANGED <<disk, up, index, segments, activeID, size, faults, hint, pc>>
    BY <1>2 DEF vars, diskVars, memVars, mergeVars
  <2>2. LocalScope
    BY <2>1 DEF LocalScope
  <2> QED
    BY <1>1, <2>1, <2>2, MergeLocal
<1>3. CASE Open
  BY <1>3, OpenLocal DEF LocalScope, Open, OpenEmpty, OpenHint, OpenScan
<1>4. ASSUME NEW k \in Key, Delete(k) PROVE LocalInv'
  <2>1. LocalScope /\ CanAppend /\ Written(DelEntry(k), SyncOnWrite)
    BY <1>4 DEF Delete, LocalScope, CanAppend, Ready
  <2>2. DelEntry(k) \in Entry /\ ~DelEntry(k).torn
    BY EntryTypes DEF DelEntry
  <2> QED
    BY <1>0, <2>1, <2>2, WriteLocal
<1>5. ASSUME NEW k \in Key, NEW v \in Value, Put(k, v) PROVE LocalInv'
  <2>1. /\ LocalScope /\ CanAppend
        /\ \/ Written(PutEntry(k, v), SyncOnWrite)
           \/ WrittenAndRotated(PutEntry(k, v), SyncOnWrite)
    BY <1>5 DEF Put, LocalScope, CanAppend, Ready
  <2>2. PutEntry(k, v) \in Entry /\ ~PutEntry(k, v).torn
    BY EntryTypes DEF PutEntry
  <2> QED
    BY <1>0, <2>1, <2>2, WriteLocal
<1>6. ASSUME NEW e \in WriteEntries, SyncFails(e) \/ RotateFails(e) PROVE LocalInv'
  <2>1. LocalScope /\ CanAppend /\ (Written(e, SyncOnWrite) \/ Written(e, FALSE))
    BY <1>6 DEF SyncFails, RotateFails, LocalScope, CanAppend, Ready
  <2>2. e \in Entry /\ ~e.torn
    BY WriteEntryTypes, WriteEntriesWhole
  <2> QED
    BY <1>0, <2>1, <2>2, WriteLocal
<1>7. ASSUME NEW e \in WriteEntries, NEW n \in 1 .. frameSize(e) - 1, AppendFails(e, n)
      PROVE  LocalInv'
  <2>1. LocalScope
    BY <1>1, <1>7 DEF AppendFails, LocalScope, CanAppend, Ready
  <2> QED
    BY <1>7, <2>1, AppendFailsLocal
<1>8. CASE MergeStart
  <2>1. LocalScope /\ activeID \in DOMAIN disk /\ UNCHANGED <<index, segments, activeID, size>>
    BY <1>8 DEF MergeStart, LocalScope, CanAppend, Ready, memVars, TypeInv, Shape
  <2> QED
    BY <1>8, <2>1, MergeStartDisk, MergeLocal
<1>9. ASSUME NEW k \in Key, MergeCopy(k) PROVE LocalInv'
  <2>1. LocalScope /\ UNCHANGED <<index, segments, activeID, size>> /\ pc = "copy"
    BY <1>9 DEF MergeCopy, LocalScope, memVars
  <2>2. activeID \in segments => activeID # newID /\ activeID \in DOMAIN disk
    BY <2>1 DEF TypeInv, TypeOK, Shape
  <2>3. DiskKeeps(disk, disk') /\ (activeID \in segments => disk'[activeID].len = disk[activeID].len)
    BY <1>9, <2>2, MergeCopyDisk
  <2> QED
    BY <2>1, <2>3, MergeLocal
<1>10. CASE (\E k \in Key : MergeReadFails(k)) \/ MergeCopyFails
  <2>1. LocalScope /\ UNCHANGED <<index, segments, activeID, size>> /\ pc = "copy"
    BY <1>1, <1>10 DEF MergeReadFails, MergeCopyFails, MergeAborts, LocalScope, diskVars
  <2>2. activeID \in segments => activeID # newID /\ activeID \in DOMAIN disk
    BY <2>1 DEF TypeInv, TypeOK, Shape
  <2>3. disk' = disk \/ \E g : disk' = [disk EXCEPT ![newID] = g]
    BY <1>10 DEF MergeReadFails, MergeCopyFails, diskVars
  <2>4. DiskKeeps(disk, disk')
    BY <1>1, <1>10, MergeCopyFailsDisk DEF MergeReadFails, diskVars
  <2>5. activeID \in segments => disk'[activeID].len = disk[activeID].len
    BY <2>2, <2>3
  <2> QED
    BY <2>1, <2>4, <2>5, MergeLocal
<1>11. CASE MergeSync \/ MergeHint \/ MergePromote \/ MergeHintFails
  BY <1>11 DEF MergeSync, MergeHint, MergePromote, MergeHintFails, MergeAborts, LocalScope,
     HintPCInv, diskVars
<1>12. CASE ResetStart \/ ResetHint \/ \E id \in segments : RemoveSegment(id)
  BY <1>12 DEF ResetStart, ResetHint, RemoveSegment, mergeVars, LocalScope
<1>13. CASE ResetFresh
  <2>1. index' = NewIndex /\ activeID' = 1 /\ size' = disk'[1].len
    BY <1>13 DEF ResetFresh
  <2> QED
    BY <2>1, NewIndexType, EmptyLocal
<1>14. CASE ResetFails \/ \E id \in segments : RemoveFails(id)
  <2>1. pc \in {"remove", "reset", "fresh"} /\ (pc # "fresh" => pc \in faults')
    BY <1>14 DEF ResetFails, RemoveFails, MergeAborts, Fault
  <2>2. pc = "fresh"
    BY <2>1 DEF LocalScope
  <2>3. segments' = {} /\ LiveEntries(index') = {}
    BY <1>14, <2>2 DEF ResetFails, RemoveFails, MergeAborts, FreshInv, LocInv, EmptyInv
  <2> QED
    BY <2>3, EmptyLocal
<1>15. CASE Close \/ Crash
  BY <1>15 DEF Close, Crash, Kill, KillInWrite, KillInCopy, PowerLoss, Down, LocalScope
<1> QED
  BY <1>2, <1>3, <1>4, <1>5, <1>6, <1>7, <1>8, <1>9, <1>10, <1>11, <1>12, <1>13, <1>14, <1>15
  DEF Next, MergeStep, IOError

\* Initially the store is down.
LEMMA InitLocalInv == Init => HintPCInv /\ LocalInv
BY DEF Init, HintPCInv, LocalInv, LocalScope

(***************************************************************************)
(* A short write damages nothing that comes before it, however many follow *)
(* and whatever is written after them: a live key whose location lies      *)
(* before the first torn frame of its file resolves.                       *)
(***************************************************************************)
THEOREM DamageStaysLocal == Spec => []DamageIsLocal
<1>1. LocalInv => DamageIsLocal
  BY DEF LocalInv, LocalScope, LocalAt, DamageIsLocal
<1> QED
  BY InitTypeInv, NextTypeInv, InitResInv, NextResInv, ResLoc, InitDirInv, NextDirInv, InitLocalInv,
     NextHintPCInv, NextLocalInv, <1>1, PTL
  DEF Spec

(***************************************************************************)
(* The hint file.  What it says of a key is among what the client may      *)
(* find, or a frame that outlives any power loss was written since, in or  *)
(* after the segment it names.                                             *)
(***************************************************************************)
HintVal(k) == Get(hintIndex, DOMAIN disk, disk, k)

Stays(f, o) == o \in DOMAIN f.at /\ (SyncOnWrite => o < f.synced)

Unnamed(id, o) ==
  /\ \E k \in LiveEntries(hintIndex) : id >= hintIndex[k].file
  /\ \A k \in LiveEntries(hintIndex) : ~(hintIndex[k].file = id /\ hintIndex[k].off = o)

WrittenSince == \E id \in DOMAIN disk : \E o : Stays(disk[id], o) /\ Unnamed(id, o)

NewsScope == hint = "whole" /\ faults = {} /\ pc # "reset"

NewsInv == NewsScope => WrittenSince \/ \A k \in Key : HintVal(k) \in acked[k]

\* Merge never writes a hint file without a live key.
LiveHintInv ==
  /\ hint = "whole" => LiveEntries(hintIndex) # {}
  /\ pc = "copy" => todo \cup LiveEntries(newIndex) # {}
  /\ pc \in {"hint", "remove"} => LiveEntries(newIndex) # {}

\* Every step keeps that.
LEMMA NextLiveHintInv == TypeInv /\ LiveHintInv /\ [Next]_vars => LiveHintInv'
<1> SUFFICES ASSUME TypeInv, LiveHintInv, [Next]_vars PROVE LiveHintInv'
  OBVIOUS
<1>1. CASE UNCHANGED vars
  BY <1>1 DEF vars, diskVars, mergeVars, LiveHintInv
<1>2. CASE Open \/ Close \/ Crash
  BY <1>2 DEF Open, OpenEmpty, OpenHint, OpenScan, Opened, mergeVars, Close, diskVars, Crash, Kill,
     KillInWrite, KillInCopy, PowerLoss, Down, LiveHintInv
<1>3. CASE (\E k \in Key : Delete(k) \/ \E v \in Value : Put(k, v)) \/ MergeStart \/ ResetStart
  BY <1>3 DEF Delete, Put, mergeVars, MergeStart, ResetStart, LiveHintInv
<1>4. ASSUME NEW k \in Key, MergeCopy(k) PROVE LiveHintInv'
  <2>1. /\ newIndex' = IndexPut(newIndex, k, newID, disk[newID].len, FALSE) /\ pc' = "copy"
        /\ UNCHANGED <<hint, hintIndex>>
    BY <1>4 DEF MergeCopy
  <2>2. k \in LiveEntries(newIndex')
    BY <2>1 DEF IndexPut, LiveEntries, IsIndex, TypeInv, TypeOK
  <2> QED
    BY <2>1, <2>2 DEF LiveHintInv
<1>5. CASE \/ \E k \in Key : MergeReadFails(k)
           \/ MergeSync \/ MergeHint \/ MergePromote \/ ResetHint \/ ResetFresh
           \/ \E id \in segments : RemoveSegment(id)
  BY <1>5 DEF MergeReadFails, MergeAborts, MergeSync, MergeHint, MergePromote, ResetHint,
     ResetFresh, RemoveSegment, mergeVars, diskVars, LiveHintInv
<1>6. CASE IOError
  BY <1>6 DEF IOError, AppendFails, SyncFails, RotateFails, MergeCopyFails, MergeHintFails,
     ResetFails, RemoveFails, MergeAborts, mergeVars, diskVars, LiveHintInv
<1> QED
  BY <1>1, <1>2, <1>3, <1>4, <1>5, <1>6 DEF Next, MergeStep

\* Without faults the locations of the hint file resolve.
LEMMA NewsResolve ==
  ASSUME TypeInv, LocInv, NewsScope
  PROVE  /\ AllResolve(disk, hintIndex) /\ AllIn(hintIndex, DOMAIN disk)
         /\ IsIndex(hintIndex) /\ ~Damaged
<1>1. ~Damaged /\ IsIndex(hintIndex)
  BY DEF NewsScope, Damaged, TypeInv, TypeOK
<1>2. AllResolve(disk, hintIndex)
  BY <1>1 DEF NewsScope, LocInv, HintInv
<1> QED
  BY <1>1, <1>2 DEF AllResolve, AllIn, Resolves

\* The invariant, when files only grow and no promise is withdrawn.
LEMMA NewsKept ==
  ASSUME TypeInv, LocInv, NewsInv, NewsScope, DiskOK(disk'), DiskKeeps(disk, disk'),
         UNCHANGED hintIndex, \A k \in Key : acked[k] \subseteq acked'[k]
  PROVE  NewsInv'
<1>1. /\ AllResolve(disk, hintIndex) /\ AllIn(hintIndex, DOMAIN disk)
      /\ DOMAIN disk \subseteq DOMAIN disk' /\ DiskOK(disk)
  BY NewsResolve DEF DiskKeeps, TypeInv, Shape
<1>2. ASSUME NEW k \in Key PROVE HintVal(k)' = HintVal(k)
  BY <1>1, GetKept DEF HintVal
<1>3. ASSUME WrittenSince PROVE WrittenSince'
  <2>1. PICK id \in DOMAIN disk : \E o : Stays(disk[id], o) /\ Unnamed(id, o)
    BY <1>3 DEF WrittenSince
  <2>2. PICK o : Stays(disk[id], o) /\ Unnamed(id, o)
    BY <2>1
  <2>3. o \in Nat /\ disk[id].synced \in Nat /\ disk'[id].synced \in Nat /\ Keeps(disk[id], disk'[id])
    BY <1>1, <2>2 DEF Stays, DiskOK, IsFile, DiskKeeps
  <2>4. Stays(disk'[id], o)
    BY <2>2, <2>3 DEF Stays, Keeps
  <2>5. Unnamed(id, o)'
    BY <2>2 DEF Unnamed
  <2> QED
    BY <1>1, <2>4, <2>5 DEF WrittenSince
<1> QED
  BY <1>2, <1>3 DEF NewsInv

\* An acknowledged write leaves such a frame.
LEMMA WriteNews ==
  ASSUME TypeInv, TypeInv', LocInv, DirInv, LiveHintInv, NewsScope, CanAppend, NEW e \in Entry,
         Written(e, SyncOnWrite) \/ WrittenAndRotated(e, SyncOnWrite), UNCHANGED hintIndex
  PROVE  WrittenSince'
<1> DEFINE f == disk[activeID]
           g == WrittenFile(e, SyncOnWrite)
<1>1. /\ activeID \in segments /\ SyncOnWrite \in BOOLEAN /\ up /\ pc = "idle" /\ faults = {}
      /\ LiveEntries(hintIndex) # {}
  BY StoreAssumption DEF CanAppend, Ready, NewsScope, LiveHintInv
<1>2. /\ activeID \in DOMAIN disk /\ f.len \in DOMAIN g.at /\ g.len = f.len + frameSize(e)
      /\ disk[activeID].len \in Nat /\ frameSize(e) \in Nat \ {0}
  BY <1>1, WrittenFileOK, EntryTypes, DiskOKTypes DEF TypeInv, Shape
<1>3. SyncOnWrite => g.synced = g.len
  BY DEF WrittenFile, Sync
<1>4. disk'[activeID] = g /\ activeID \in DOMAIN disk'
  <2>1. CASE Written(e, SyncOnWrite)
    <3>1. disk' = [disk EXCEPT ![activeID] = g]
      BY <2>1 DEF Written, WrittenFile
    <3> QED
      BY <1>2, <3>1
  <2>2. CASE WrittenAndRotated(e, SyncOnWrite)
    <3>1. disk'[activeID] = g /\ DOMAIN disk' = DOMAIN disk \cup {activeID'}
      BY <1>1, <2>2, WrittenAndRotatedType
    <3> QED
      BY <1>2, <3>1
  <2> QED
    BY <2>1, <2>2
<1>5. Stays(disk'[activeID], f.len)
  BY <1>2, <1>3, <1>4 DEF Stays
<1>6. /\ AllIn(hintIndex, DOMAIN disk) /\ AllResolve(disk, hintIndex) /\ IsIndex(hintIndex)
  BY NewsResolve
<1>7. DOMAIN disk = segments /\ \A id \in segments : id <= activeID
  BY <1>1 DEF DirInv
<1>8. ASSUME NEW k \in LiveEntries(hintIndex)
      PROVE  /\ activeID >= hintIndex[k].file
             /\ ~(hintIndex[k].file = activeID /\ hintIndex[k].off = f.len)
  <2>1. hintIndex[k].file \in segments /\ Resolves(disk, k, hintIndex[k])
    BY <1>6, <1>7 DEF AllIn, AllResolve
  <2>2. hintIndex[k].file = activeID => hintIndex[k].off \in Nat /\ hintIndex[k].off < f.len
    BY <1>2, <2>1 DEF Resolves, CanReadAt, TypeInv, Shape, DiskOK, IsFile
  <2>3. hintIndex[k].file \in Nat /\ activeID \in Nat
    BY <2>1 DEF TypeInv, TypeOK, FileID
  <2> QED
    BY <1>2, <1>7, <2>1, <2>2, <2>3
<1>9. PICK id, o : id = activeID /\ o = f.len
  OBVIOUS
<1>10. Unnamed(id, o)'
  BY <1>1, <1>8, <1>9 DEF Unnamed
<1>11. id \in DOMAIN disk' /\ Stays(disk'[id], o)
  BY <1>4, <1>5, <1>9
<1> QED
  BY <1>10, <1>11 DEF WrittenSince

Removing == pc = "remove" /\ faults = {}
HintIsAcked == \A k \in Key : HintVal(k) \in acked[k]

\* While the old segments are removed, the hint file is what is read.
LEMMA RemovingNews == TypeInv /\ LocInv /\ ReadInv /\ Removing => HintIsAcked
<1> SUFFICES ASSUME TypeInv, LocInv, ReadInv, Removing PROVE HintIsAcked
  OBVIOUS
<1>0. pc = "remove" /\ faults = {}
  BY DEF Removing
<1>1. up /\ ~Damaged /\ hintIndex = newIndex /\ newID \in DOMAIN disk
  BY <1>0 DEF TypeInv, Shape, TypeOK, Damaged, LocInv, RemoveInv
<1>2. AllIn(newIndex, {newID}) /\ AllResolve(disk, newIndex)
  BY <1>0, <1>1 DEF LocInv, NewInv
<1>3. \A k \in Key : Get(newIndex, {newID}, disk, k) \in acked[k]
  BY <1>0, <1>1, ContentsIs DEF ReadInv, ReadsAcked, ContentsByPC
<1>4. AllIn(newIndex, DOMAIN disk)
  BY <1>1, <1>2 DEF AllIn
<1>5. \A k \in Key : HintVal(k) = Get(newIndex, {newID}, disk, k)
  BY <1>1, <1>2, <1>4, GetResolved DEF HintVal
<1> QED
  BY <1>3, <1>5 DEF HintIsAcked

\* Open through the hint file promises what it says.
LEMMA OpenNews ==
  ASSUME TypeInv, LocInv, LiveHintInv, NewsScope, ~up, Open PROVE HintIsAcked'
<1>1. AllIn(hintIndex, DOMAIN disk) /\ LiveEntries(hintIndex) # {} /\ hint = "whole"
  BY NewsResolve DEF LiveHintInv, NewsScope
<1>2. DOMAIN disk # {}
  BY <1>1 DEF AllIn
<1>3. Opened(disk, hintIndex)
  BY <1>1, <1>2 DEF Open, OpenEmpty, OpenHint, OpenScan
<1>4. disk' = disk /\ hintIndex' = hintIndex
  BY <1>3 DEF Opened
<1>5. acked' = [k \in Key |-> LET found == Get(hintIndex, DOMAIN disk, disk, k)
                              IN IF found \in acked[k] THEN acked[k] ELSE {found}]
  BY <1>3 DEF Opened
<1>6. \A k \in Key : HintVal(k)' \in acked'[k]
  BY <1>4, <1>5 DEF HintVal
<1> QED
  BY <1>6 DEF HintIsAcked

\* A frame whose first byte was synced is still there after a power loss.
LEMMA PowerLossKeepsStarts ==
  ASSUME NEW f, IsFile(f), NEW g \in AfterPowerLoss(f), NEW o \in DOMAIN f.at, o < f.synced
  PROVE  o \in DOMAIN g.at /\ o < g.synced
<1>1. PICK n \in f.synced .. f.len : g = Survives(f, n)
  BY DEF AfterPowerLoss
<1>2. n \in Nat /\ f.synced <= n /\ f.synced \in Nat /\ o \in Nat
  BY DEF IsFile
<1> QED
  BY <1>1, <1>2 DEF Survives

\* A power loss keeps the frame, and what the hint file says.
LEMMA PowerLossNews ==
  ASSUME TypeInv, ResInv, NewsInv, NewsScope, PowerLoss PROVE NewsInv'
<1>1. /\ AllDurable(disk, hintIndex) /\ AllResolve(disk, hintIndex)
      /\ AllIn(hintIndex, DOMAIN disk) /\ IsIndex(hintIndex)
  BY NewsResolve DEF ResInv, DurInv, NewsScope
<1>2. /\ AllDurable(disk', hintIndex) /\ DiskOK(disk') /\ DOMAIN disk' = DOMAIN disk
      /\ \A id \in DOMAIN disk : IsFile(disk[id]) /\ disk'[id] \in AfterPowerLoss(disk[id])
  BY <1>1, DurableSurvives, PowerLossDisk DEF TypeInv, Shape, DiskOK
<1>3. AllResolve(disk', hintIndex) /\ AllIn(hintIndex, DOMAIN disk')
  BY <1>2, DurableResolves
<1>4. hintIndex' = hintIndex
  BY DEF PowerLoss
<1>5. CASE ~SyncOnWrite
  <2>1. acked' = [k \in Key |-> Value \cup {NoValue}]
    BY <1>5 DEF PowerLoss
  <2>2. \A k \in Key : HintVal(k)' \in Value \cup {NoValue}
    BY <1>2, <1>3, <1>4, GetNoError DEF HintVal
  <2> QED
    BY <2>1, <2>2 DEF NewsInv
<1>6. CASE SyncOnWrite
  <2>1. acked' = acked
    BY <1>6 DEF PowerLoss
  <2>2. ASSUME NEW k \in Key PROVE HintVal(k)' = HintVal(k)
    <3>1. ASSUME ~hintIndex[k].tomb
          PROVE  disk'[hintIndex[k].file].at[hintIndex[k].off]
                   = disk[hintIndex[k].file].at[hintIndex[k].off]
      <4> DEFINE id == hintIndex[k].file
                 o == hintIndex[k].off
      <4>1. /\ id \in DOMAIN disk /\ o \in DOMAIN disk[id].at
            /\ o + frameSize(disk[id].at[o]) <= disk[id].synced
        BY <1>1, <3>1 DEF AllDurable, DurablyResolves, Resolves, CanReadAt, ReadAt, LiveEntries
      <4> QED
        BY <1>2, <4>1, PowerLossKeepsSynced
    <3> QED
      BY <1>1, <1>3, <1>4, <3>1, GetResolved DEF HintVal
  <2>3. ASSUME WrittenSince PROVE WrittenSince'
    <3>1. PICK id \in DOMAIN disk : \E o : Stays(disk[id], o) /\ Unnamed(id, o)
      BY <2>3 DEF WrittenSince
    <3>2. PICK o : Stays(disk[id], o) /\ Unnamed(id, o)
      BY <3>1
    <3>3. Stays(disk'[id], o)
      BY <1>2, <1>6, <3>2, PowerLossKeepsStarts DEF Stays
    <3>4. Unnamed(id, o)'
      BY <1>4, <3>2 DEF Unnamed
    <3> QED
      BY <1>2, <3>3, <3>4 DEF WrittenSince
  <2> QED
    BY <2>1, <2>2, <2>3 DEF NewsInv
<1> QED
  BY <1>5, <1>6

\* What a step with a hint file and no faults may be: one that only adds to
\* the files and to what is promised, an acknowledged write, one after which
\* the hint file says what is promised, or a power loss.
NewsKeeps ==
  /\ NewsScope /\ DiskKeeps(disk, disk') /\ UNCHANGED hintIndex
  /\ \A k \in Key : acked[k] \subseteq acked'[k]

NewsWrite ==
  /\ NewsScope /\ CanAppend /\ UNCHANGED hintIndex
  /\ \E e \in Entry : Written(e, SyncOnWrite) \/ WrittenAndRotated(e, SyncOnWrite)

\* There is no other.
LEMMA NewsStep ==
  ASSUME TypeInv, TypeInv', LocInv, LocInv', ReadInv, ReadInv', LiveHintInv, [Next]_vars, NewsScope'
  PROVE  NewsKeeps \/ NewsWrite \/ HintIsAcked' \/ (PowerLoss /\ NewsScope)
<1>1. /\ faults = {} /\ faults' = {} /\ hint' = "whole" /\ pc' # "reset"
      /\ DiskOK(disk') /\ DiskOK(disk) /\ DiskKeeps(disk, disk)
  BY FaultsOnlyGrow, DiskKeepsReflexive DEF NewsScope, TypeInv, Shape
<1>2. CASE UNCHANGED vars
  <2>1. UNCHANGED <<disk, hintIndex, acked, hint, pc>>
    BY <1>2 DEF vars, diskVars, mergeVars
  <2>2. NewsScope
    BY <1>1, <2>1 DEF NewsScope
  <2> QED
    BY <1>1, <2>1, <2>2 DEF NewsKeeps
<1>3. CASE Open
  <2>1. ~up /\ UNCHANGED <<hint, pc>>
    BY <1>3 DEF Open, OpenEmpty, OpenHint, OpenScan, Opened, mergeVars
  <2> QED
    BY <1>1, <1>3, <2>1, OpenNews DEF NewsScope
<1>4. ASSUME NEW k \in Key, Delete(k) PROVE NewsWrite
  <2>1. NewsScope /\ CanAppend /\ Written(DelEntry(k), SyncOnWrite) /\ UNCHANGED hintIndex
    BY <1>1, <1>4 DEF Delete, NewsScope, CanAppend, Ready
  <2>2. DelEntry(k) \in Entry
    BY EntryTypes
  <2> QED
    BY <2>1, <2>2 DEF NewsWrite
<1>5. ASSUME NEW k \in Key, NEW v \in Value, Put(k, v) PROVE NewsWrite
  <2>1. /\ NewsScope /\ CanAppend /\ UNCHANGED hintIndex
        /\ \/ Written(PutEntry(k, v), SyncOnWrite)
           \/ WrittenAndRotated(PutEntry(k, v), SyncOnWrite)
    BY <1>1, <1>5 DEF Put, NewsScope, CanAppend, Ready
  <2>2. PutEntry(k, v) \in Entry
    BY EntryTypes
  <2> QED
    BY <2>1, <2>2 DEF NewsWrite
<1>6. ASSUME NEW e \in WriteEntries, SyncFails(e) \/ RotateFails(e) PROVE NewsKeeps
  <2>1. /\ NewsScope /\ CanAppend /\ UNCHANGED hintIndex
        /\ acked' = [acked EXCEPT ![e.key] = @ \cup {e.val}]
        /\ Written(e, SyncOnWrite) \/ Written(e, FALSE)
    BY <1>1, <1>6 DEF SyncFails, RotateFails, NewsScope, CanAppend, Ready, MayAck
  <2>2. e \in Entry /\ SyncOnWrite \in BOOLEAN
    BY WriteEntryTypes, StoreAssumption
  <2>3. DiskKeeps(disk, disk')
    BY <2>1, <2>2, WrittenType DEF CanAppend
  <2>4. \A k \in Key : acked[k] \subseteq acked'[k]
    BY <2>1 DEF TypeInv, TypeOK
  <2> QED
    BY <1>1, <2>1, <2>3, <2>4 DEF NewsKeeps
<1>7. ASSUME NEW e \in WriteEntries, NEW n \in 1 .. frameSize(e) - 1, AppendFails(e, n)
      PROVE  FALSE
  BY <1>1, <1>7 DEF AppendFails
<1>8. CASE MergeStart
  <2>1. NewsScope /\ UNCHANGED <<hintIndex, acked>> /\ DiskKeeps(disk, disk')
    BY <1>1, <1>8, MergeStartDisk DEF MergeStart, NewsScope, CanAppend, Ready
  <2> QED
    BY <1>1, <2>1 DEF NewsKeeps
<1>9. ASSUME NEW k \in Key, MergeCopy(k) PROVE NewsKeeps
  <2>1. NewsScope /\ UNCHANGED <<hintIndex, acked>> /\ DiskKeeps(disk, disk')
    BY <1>1, <1>9, MergeCopyDisk DEF MergeCopy, NewsScope
  <2> QED
    BY <1>1, <2>1 DEF NewsKeeps
<1>10. CASE (\E k \in Key : MergeReadFails(k)) \/ MergeCopyFails \/ MergeHintFails \/ MergeSync
            \/ ResetHint \/ ResetStart \/ \E id \in segments : RemoveFails(id)
  BY <1>1, <1>10 DEF MergeReadFails, MergeCopyFails, MergeHintFails, MergeSync, ResetHint,
     ResetStart, RemoveFails, MergeAborts
<1>11. CASE MergeHint \/ \E id \in segments : RemoveSegment(id)
  <2>1. Removing'
    BY <1>1, <1>11 DEF MergeHint, RemoveSegment, mergeVars, Removing
  <2>2. HintIsAcked'
    BY <2>1, RemovingNews, PTL
  <2> QED
    BY <2>2
<1>12. CASE MergePromote
  <2>1. pc = "remove" /\ UNCHANGED <<disk, hintIndex, acked>>
    BY <1>12 DEF MergePromote, diskVars
  <2>2. HintIsAcked
    BY <1>1, <2>1, RemovingNews DEF Removing
  <2> QED
    BY <2>1, <2>2 DEF HintIsAcked, HintVal
<1>13. CASE ResetFresh
  <2>1. NewsScope /\ UNCHANGED <<hintIndex, acked>> /\ disk' = WithSegment(disk, 1)
    BY <1>1, <1>13 DEF ResetFresh, NewsScope
  <2>2. 1 \in FileID /\ 1 <= MaxFileID + 1
    BY StoreAssumption DEF FileID
  <2>3. DiskKeeps(disk, disk')
    BY <1>1, <2>1, <2>2, WithSegmentKeeps
  <2> QED
    BY <1>1, <2>1, <2>3 DEF NewsKeeps
<1>14. CASE ResetFails
  <2>1. pc = "fresh" /\ UNCHANGED <<disk, hint, hintIndex, acked>>
    BY <1>1, <1>14 DEF ResetFails, MergeAborts, Fault, diskVars
  <2>2. NewsScope
    BY <1>1, <2>1 DEF NewsScope
  <2> QED
    BY <1>1, <2>1, <2>2 DEF NewsKeeps
<1>15. CASE Close \/ Kill
  <2>1. NewsScope /\ UNCHANGED <<disk, hintIndex, acked>>
    BY <1>1, <1>15 DEF Close, Kill, CrashFault, Ready, diskVars, NewsScope
  <2> QED
    BY <1>1, <2>1 DEF NewsKeeps
<1>16. ASSUME NEW e \in WriteEntries, NEW n \in 1 .. frameSize(e), KillInWrite(e, n) PROVE NewsKeeps
  <2>1. /\ NewsScope /\ UNCHANGED hintIndex /\ activeID \in DOMAIN disk
        /\ disk' = [disk EXCEPT ![activeID] = AppendPrefix(@, e, n)]
        /\ acked' = [acked EXCEPT ![e.key] = @ \cup {e.val}]
    BY <1>1, <1>16 DEF KillInWrite, NewsScope, CanAppend, Ready, MayAck, TypeInv, Shape
  <2>2. e \in Entry /\ n \in Nat \ {0}
    BY WriteEntryTypes, EntryTypes
  <2>3. DiskKeeps(disk, disk')
    BY <1>1, <2>1, <2>2, PrefixOK
  <2>4. \A k \in Key : acked[k] \subseteq acked'[k]
    BY <2>1 DEF TypeInv, TypeOK
  <2> QED
    BY <1>1, <2>1, <2>3, <2>4 DEF NewsKeeps
<1>17. ASSUME NEW k \in todo, KillInCopy(k) PROVE NewsKeeps
  <2>1. NewsScope /\ UNCHANGED <<hintIndex, acked>>
    BY <1>1, <1>17 DEF KillInCopy, NewsScope
  <2>2. Copied(k) \in Entry /\ newID \in DOMAIN disk
    BY <1>17, CopiedType DEF KillInCopy, TypeInv, Shape
  <2>3. PICK n \in 1 .. frameSize(Copied(k)) - 1 :
          disk' = [disk EXCEPT ![newID] = AppendPrefix(@, Copied(k), n)]
    BY <1>17 DEF KillInCopy
  <2>4. n \in Nat \ {0}
    BY <2>2, EntryTypes
  <2>5. DiskKeeps(disk, disk')
    BY <2>2, <2>3, <2>4, PrefixOK
  <2> QED
    BY <1>1, <2>1, <2>5 DEF NewsKeeps
<1>18. CASE PowerLoss
  <2>1. NewsScope
    BY <1>1, <1>18 DEF PowerLoss, CrashFault, NewsScope
  <2> QED
    BY <1>18, <2>1
<1> QED
  BY <1>2, <1>3, <1>4, <1>5, <1>6, <1>7, <1>8, <1>9, <1>10, <1>11, <1>12, <1>13, <1>14, <1>15,
     <1>16, <1>17, <1>18
  DEF Next, MergeStep, IOError, Crash

\* Every step keeps NewsInv.
LEMMA NextNewsInv ==
  /\ TypeInv /\ TypeInv' /\ ResInv /\ ResInv' /\ ReadInv /\ ReadInv' /\ DirInv
  /\ LiveHintInv /\ NewsInv /\ [Next]_vars
  => NewsInv'
<1> SUFFICES ASSUME TypeInv, TypeInv', ResInv, ResInv', ReadInv, ReadInv', DirInv, LiveHintInv,
                    NewsInv, [Next]_vars, NewsScope'
             PROVE  NewsInv'
  BY DEF NewsInv
<1>1. LocInv /\ LocInv' /\ DiskOK(disk')
  BY DEF ResInv, TypeInv, Shape
<1>2. CASE NewsKeeps
  BY <1>1, <1>2, NewsKept DEF NewsKeeps
<1>3. CASE NewsWrite
  BY <1>1, <1>3, WriteNews DEF NewsWrite, NewsInv
<1>4. CASE HintIsAcked'
  BY <1>4 DEF HintIsAcked, NewsInv
<1>5. CASE PowerLoss /\ NewsScope
  BY <1>5, PowerLossNews
<1> QED
  BY <1>1, <1>2, <1>3, <1>4, <1>5, NewsStep

\* Initially there is no hint file.
LEMMA InitNewsInv == Init => LiveHintInv /\ NewsInv
BY DEF Init, LiveHintInv, NewsInv, NewsScope

(***************************************************************************)
(* Until the first write after a Merge, Open through the hint file finds   *)
(* every acknowledged write, wherever in Merge's removals the process or   *)
(* the machine stopped: a write that was acknowledged since leaves a frame *)
(* that no power loss takes away.                                          *)
(***************************************************************************)
THEOREM FreshHintAlwaysRecovers == Spec => []FreshHintRecovers
<1>1. NewsInv => FreshHintRecovers
  <2> SUFFICES ASSUME NewsInv, NewsScope, HintIsNews
               PROVE  \A k \in Key : HintVal(k) \in acked[k]
    BY DEF FreshHintRecovers, NewsScope, HintVal
  <2>1. ~WrittenSince
    BY DEF HintIsNews, WrittenSince, Stays, Unnamed
  <2> QED
    BY <2>1 DEF NewsInv
<1> QED
  BY InitTypeInv, NextTypeInv, InitResInv, NextResInv, ResLoc, InitReadInv, NextReadInv, InitDirInv,
     NextDirInv, InitNewsInv, NextLiveHintInv, NextNewsInv, <1>1, PTL
  DEF Spec

(***************************************************************************)
(* A scan finds the acknowledged writes at every point of Merge and after  *)
(* every crash, as long as no hint file takes the scan's place.            *)
(***************************************************************************)

(***************************************************************************)
(* What a directory may show of a key after a power loss.  A record is     *)
(* loose when one can take it away.  The record a scan will find last is   *)
(* any that only loose ones follow, and none when all of them are loose:   *)
(* all of these must be acknowledged (AckedIn).                            *)
(***************************************************************************)
IsRecord(d, k, id, o) ==
  /\ id \in DOMAIN d /\ o \in DOMAIN d[id].at
  /\ d[id].at[o].key = k /\ ~d[id].at[o].torn

Loose(f, o) == SyncOnWrite /\ o + frameSize(f.at[o]) > f.synced

Found(e) == IF e.tomb THEN NoValue ELSE e.val

MayBeLast(d, k, id, o) ==
  \A j, q : IsRecord(d, k, j, q) => Loose(d[j], q) \/ id > j \/ (id = j /\ o >= q)

MayBeNone(d, k) == \A j, q : IsRecord(d, k, j, q) => Loose(d[j], q)

AckedIn(d, a) ==
  \A k \in Key :
    /\ \A id, o : IsRecord(d, k, id, o) /\ MayBeLast(d, k, id, o) => Found(d[id].at[o]) \in a[k]
    /\ MayBeNone(d, k) => NoValue \in a[k]

\* The records of d are those of e, and no others became loose.
SameRecords(d, e) ==
  /\ \A k, id, o : IsRecord(e, k, id, o) <=> IsRecord(d, k, id, o)
  /\ \A k, id, o : IsRecord(e, k, id, o) =>
       e[id].at[o] = d[id].at[o] /\ (Loose(e[id], o) => Loose(d[id], o))

\* The records of e are those of d and one more, x at offset z of file i.
OneMore(d, e, i, z, x) ==
  /\ IsRecord(e, x.key, i, z) /\ e[i].at[z] = x
  /\ \A k, id, o : IsRecord(d, k, id, o) =>
       /\ IsRecord(e, k, id, o) /\ e[id].at[o] = d[id].at[o]
       /\ Loose(e[id], o) => Loose(d[id], o)
       /\ id < i \/ (id = i /\ o < z)
  /\ \A k, id, o : IsRecord(e, k, id, o) =>
       IsRecord(d, k, id, o) \/ (k = x.key /\ id = i /\ o = z)

\* As long as the records stay, what may be found stays acknowledged.
LEMMA SameRecordsAcked ==
  ASSUME NEW d, NEW e, SameRecords(d, e), NEW a, NEW b,
         \A k \in Key : a[k] \subseteq b[k], AckedIn(d, a)
  PROVE  AckedIn(e, b)
<1> SUFFICES ASSUME NEW k \in Key
             PROVE  /\ \A id, o : IsRecord(e, k, id, o) /\ MayBeLast(e, k, id, o)
                                    => Found(e[id].at[o]) \in b[k]
                    /\ MayBeNone(e, k) => NoValue \in b[k]
  BY DEF AckedIn
<1>1. ASSUME NEW id, NEW o, IsRecord(e, k, id, o), MayBeLast(e, k, id, o)
      PROVE  Found(e[id].at[o]) \in b[k]
  <2>1. IsRecord(d, k, id, o) /\ e[id].at[o] = d[id].at[o]
    BY <1>1 DEF SameRecords
  <2>2. MayBeLast(d, k, id, o)
    BY <1>1 DEF MayBeLast, SameRecords
  <2>3. Found(d[id].at[o]) \in a[k]
    BY <2>1, <2>2 DEF AckedIn
  <2> QED
    BY <2>1, <2>3
<1>2. ASSUME MayBeNone(e, k) PROVE NoValue \in b[k]
  <2>1. MayBeNone(d, k)
    BY <1>2 DEF MayBeNone, SameRecords
  <2> QED
    BY <2>1 DEF AckedIn
<1> QED
  BY <1>1, <1>2

\* One more record at the end whose value may be acknowledged as well.
LEMMA OneMoreAcked ==
  ASSUME NEW d, NEW e, NEW i, NEW z, NEW x, OneMore(d, e, i, z, x), NEW a, NEW b,
         \A k \in Key : a[k] \subseteq b[k], x.key \in Key, Found(x) \in b[x.key], AckedIn(d, a)
  PROVE  AckedIn(e, b)
<1> SUFFICES ASSUME NEW k \in Key
             PROVE  /\ \A id, o : IsRecord(e, k, id, o) /\ MayBeLast(e, k, id, o)
                                    => Found(e[id].at[o]) \in b[k]
                    /\ MayBeNone(e, k) => NoValue \in b[k]
  BY DEF AckedIn
<1>1. ASSUME NEW id, NEW o, IsRecord(e, k, id, o), MayBeLast(e, k, id, o)
      PROVE  Found(e[id].at[o]) \in b[k]
  <2>1. CASE IsRecord(d, k, id, o)
    <3>1. e[id].at[o] = d[id].at[o]
      BY <2>1 DEF OneMore
    <3>2. MayBeLast(d, k, id, o)
      BY <1>1 DEF MayBeLast, OneMore
    <3>3. Found(d[id].at[o]) \in a[k]
      BY <2>1, <3>2 DEF AckedIn
    <3> QED
      BY <3>1, <3>3
  <2>2. CASE k = x.key /\ id = i /\ o = z
    BY <2>2 DEF OneMore
  <2> QED
    BY <1>1, <2>1, <2>2 DEF OneMore
<1>2. ASSUME MayBeNone(e, k) PROVE NoValue \in b[k]
  <2>1. MayBeNone(d, k)
    BY <1>2 DEF MayBeNone, OneMore
  <2> QED
    BY <2>1 DEF AckedIn
<1> QED
  BY <1>1, <1>2

\* One more record at the end that stays: nothing else of its key can be found.
LEMMA LastRecordAcked ==
  ASSUME NEW d, NEW e, NEW i \in Nat, NEW z \in Nat, NEW x, OneMore(d, e, i, z, x),
         \A k, id, o : IsRecord(d, k, id, o) => id \in Nat /\ o \in Nat,
         ~Loose(e[i], z), NEW a, NEW b, \A k \in Key : k # x.key => b[k] = a[k],
         Found(x) \in b[x.key], AckedIn(d, a)
  PROVE  AckedIn(e, b)
<1> SUFFICES ASSUME NEW k \in Key
             PROVE  /\ \A id, o : IsRecord(e, k, id, o) /\ MayBeLast(e, k, id, o)
                                    => Found(e[id].at[o]) \in b[k]
                    /\ MayBeNone(e, k) => NoValue \in b[k]
  BY DEF AckedIn
<1>1. ASSUME k # x.key, NEW id, NEW o, IsRecord(e, k, id, o), MayBeLast(e, k, id, o)
      PROVE  Found(e[id].at[o]) \in b[k]
  <2>1. IsRecord(d, k, id, o)
    BY <1>1 DEF OneMore
  <2>2. e[id].at[o] = d[id].at[o]
    BY <2>1 DEF OneMore
  <2>3. MayBeLast(d, k, id, o)
    BY <1>1 DEF MayBeLast, OneMore
  <2> QED
    BY <1>1, <2>1, <2>2, <2>3 DEF AckedIn
<1>2. ASSUME k # x.key, MayBeNone(e, k) PROVE NoValue \in b[k]
  <2>1. MayBeNone(d, k)
    BY <1>2 DEF MayBeNone, OneMore
  <2> QED
    BY <1>2, <2>1 DEF AckedIn
<1>3. ASSUME k = x.key, NEW id, NEW o, IsRecord(e, k, id, o), MayBeLast(e, k, id, o)
      PROVE  Found(e[id].at[o]) \in b[k]
  <2>1. id > i \/ (id = i /\ o >= z)
    BY <1>3 DEF MayBeLast, OneMore
  <2>2. ~IsRecord(d, k, id, o)
    <3> SUFFICES ASSUME IsRecord(d, k, id, o) PROVE FALSE
      OBVIOUS
    <3>1. id \in Nat /\ o \in Nat /\ (id < i \/ (id = i /\ o < z))
      BY DEF OneMore
    <3> QED
      BY <2>1, <3>1
  <2>3. id = i /\ o = z
    BY <1>3, <2>2 DEF OneMore
  <2> QED
    BY <1>3, <2>3 DEF OneMore
<1>4. ASSUME k = x.key, MayBeNone(e, k) PROVE FALSE
  BY <1>4 DEF MayBeNone, OneMore
<1> QED
  BY <1>1, <1>2, <1>3, <1>4

\* A record has numbers for its file and offset, and is an entry.
LEMMA RecordTypes ==
  ASSUME NEW d, DiskOK(d), NEW k, NEW id, NEW o, IsRecord(d, k, id, o)
  PROVE  /\ id \in Nat /\ o \in Nat /\ id \in DOMAIN d /\ o \in DOMAIN d[id].at
         /\ d[id].at[o] \in Entry /\ frameSize(d[id].at[o]) \in Nat
         /\ d[id].synced \in Nat /\ d[id].len \in Nat /\ o + frameSize(d[id].at[o]) <= d[id].len
<1>1. id \in DOMAIN d /\ o \in DOMAIN d[id].at /\ ~d[id].at[o].torn
  BY DEF IsRecord
<1>2. id \in Nat /\ IsFile(d[id])
  BY <1>1 DEF DiskOK, FileID
<1>3. /\ o \in Nat /\ d[id].at[o] \in Entry /\ d[id].synced \in Nat /\ d[id].len \in Nat
      /\ o + frameSize(d[id].at[o]) <= d[id].len
  BY <1>1, <1>2 DEF IsFile
<1> QED
  BY <1>1, <1>2, <1>3, EntryTypes

\* A record that was synced more is not more loose.
LEMMA TighterKept ==
  ASSUME NEW d, DiskOK(d), NEW e, DiskOK(e), NEW k, NEW id, NEW o,
         IsRecord(d, k, id, o), IsRecord(e, k, id, o), e[id].at[o] = d[id].at[o],
         d[id].synced <= e[id].synced, Loose(e[id], o)
  PROVE  Loose(d[id], o)
<1>1. /\ o \in Nat /\ frameSize(d[id].at[o]) \in Nat /\ d[id].synced \in Nat
      /\ e[id].synced \in Nat
  BY RecordTypes
<1>2. SyncOnWrite /\ o + frameSize(d[id].at[o]) > e[id].synced
  BY DEF Loose
<1>3. o + frameSize(d[id].at[o]) > d[id].synced
  BY <1>1, <1>2
<1> QED
  BY <1>2, <1>3 DEF Loose

\* A power loss that meets some of the files takes away loose records only.
LEMMA CutAcked ==
  ASSUME NEW d, DiskOK(d), NEW e, DiskOK(e), DOMAIN e = DOMAIN d, SyncOnWrite,
         \A id \in DOMAIN d : e[id] = d[id] \/ e[id] \in AfterPowerLoss(d[id]),
         NEW a, AckedIn(d, a)
  PROVE  AckedIn(e, a)
<1>1. ASSUME NEW k, NEW id, NEW o, IsRecord(e, k, id, o)
      PROVE  IsRecord(d, k, id, o) /\ e[id].at[o] = d[id].at[o]
  <2>1. id \in DOMAIN d /\ o \in DOMAIN e[id].at /\ ~e[id].at[o].torn /\ e[id].at[o].key = k
    BY <1>1 DEF IsRecord
  <2>2. CASE e[id] = d[id]
    BY <1>1, <2>1, <2>2 DEF IsRecord
  <2>3. CASE e[id] \in AfterPowerLoss(d[id])
    <3>1. PICK n \in d[id].synced .. d[id].len : e[id] = Survives(d[id], n)
      BY <2>3 DEF AfterPowerLoss
    <3>2. /\ o \in DOMAIN d[id].at
          /\ e[id].at[o] = IF o + frameSize(d[id].at[o]) <= n THEN d[id].at[o]
                           ELSE TornEntry(d[id].at[o])
      BY <2>1, <3>1 DEF Survives
    <3>3. e[id].at[o] = d[id].at[o]
      BY <2>1, <3>2 DEF TornEntry
    <3> QED
      BY <2>1, <3>2, <3>3 DEF IsRecord
  <2> QED
    BY <2>1, <2>2, <2>3
<1>2. ASSUME NEW k, NEW id, NEW o, IsRecord(d, k, id, o), ~Loose(d[id], o)
      PROVE  IsRecord(e, k, id, o) /\ ~Loose(e[id], o)
  <2>1. /\ id \in DOMAIN d /\ o \in DOMAIN d[id].at /\ o \in Nat
        /\ d[id].synced \in Nat /\ frameSize(d[id].at[o]) \in Nat /\ IsFile(d[id])
    BY <1>2, RecordTypes DEF DiskOK
  <2>2. o + frameSize(d[id].at[o]) <= d[id].synced
    BY <1>2, <2>1 DEF Loose
  <2>3. CASE e[id] = d[id]
    BY <1>2, <2>3 DEF IsRecord
  <2>4. CASE e[id] \in AfterPowerLoss(d[id])
    <3>1. o \in DOMAIN e[id].at /\ e[id].at[o] = d[id].at[o] /\ d[id].synced <= e[id].synced
      BY <2>1, <2>2, <2>4, PowerLossKeepsSynced
    <3>2. IsRecord(e, k, id, o)
      BY <1>2, <2>1, <3>1 DEF IsRecord
    <3> QED
      BY <1>2, <3>1, <3>2, TighterKept
  <2> QED
    BY <2>1, <2>3, <2>4
<1> SUFFICES ASSUME NEW k \in Key
             PROVE  /\ \A id, o : IsRecord(e, k, id, o) /\ MayBeLast(e, k, id, o)
                                    => Found(e[id].at[o]) \in a[k]
                    /\ MayBeNone(e, k) => NoValue \in a[k]
  BY DEF AckedIn
<1>3. ASSUME NEW id, NEW o, IsRecord(e, k, id, o), MayBeLast(e, k, id, o)
      PROVE  Found(e[id].at[o]) \in a[k]
  <2>1. MayBeLast(d, k, id, o)
    BY <1>2, <1>3 DEF MayBeLast
  <2> QED
    BY <1>1, <1>3, <2>1 DEF AckedIn
<1>4. ASSUME MayBeNone(e, k) PROVE NoValue \in a[k]
  <2>1. MayBeNone(d, k)
    BY <1>2, <1>4 DEF MayBeNone
  <2> QED
    BY <2>1 DEF AckedIn
<1> QED
  BY <1>3, <1>4

\* Without SyncOnWrite nothing but a value or nothing at all is promised.
LEMMA AnyAcked ==
  ASSUME NEW d, DiskOK(d)
  PROVE  AckedIn(d, [k \in Key |-> Value \cup {NoValue}])
<1>1. ASSUME NEW k, NEW id, NEW o, IsRecord(d, k, id, o)
      PROVE  Found(d[id].at[o]) \in Value \cup {NoValue}
  <2>1. d[id].at[o] \in Entry
    BY <1>1, RecordTypes
  <2> QED
    BY <2>1 DEF Found, Entry
<1> QED
  BY <1>1 DEF AckedIn

\* A directory without frames shows nothing.
LEMMA EmptyAcked ==
  ASSUME NEW d, \A id \in DOMAIN d : DOMAIN d[id].at = {}, NEW a,
         \A k \in Key : NoValue \in a[k]
  PROVE  AckedIn(d, a)
BY DEF AckedIn, IsRecord

(***************************************************************************)
(* What the changes of a directory do to the records.  Two files have the  *)
(* same whole frames, or one of them has one more.                         *)
(***************************************************************************)
SameWhole(f, g) ==
  /\ f.synced <= g.synced
  /\ \A o : (o \in DOMAIN g.at /\ ~g.at[o].torn) <=> (o \in DOMAIN f.at /\ ~f.at[o].torn)
  /\ \A o \in DOMAIN f.at : ~f.at[o].torn => g.at[o] = f.at[o]

\* Syncing, and an append that was cut short, leave the whole frames.
LEMMA SyncSameWhole == ASSUME NEW f, IsFile(f) PROVE SameWhole(f, Sync(f))
BY SyncKeeps DEF SameWhole, IsFile

\* A file has the whole frames it has.
LEMMA SameWholeReflexive == ASSUME NEW f, IsFile(f) PROVE SameWhole(f, f)
BY DEF SameWhole, IsFile

\* The torn frame of a short append is no record.
LEMMA PrefixSameWhole ==
  ASSUME NEW f, IsFile(f), NEW x \in Entry, NEW n \in Nat \ {0}, n # frameSize(x)
  PROVE  SameWhole(f, AppendPrefix(f, x, n))
<1> DEFINE g == AppendPrefix(f, x, n)
<1>1. g.synced = f.synced /\ g.at = Place(f.at, f.len, TornEntry(x))
  BY DEF AppendPrefix
<1>2. f.len \notin DOMAIN f.at /\ f.synced \in Nat
  BY DEF IsFile
<1>3. TornEntry(x).torn
  BY DEF TornEntry
<1>4. /\ DOMAIN g.at = DOMAIN f.at \cup {f.len} /\ g.at[f.len] = TornEntry(x)
      /\ \A o \in DOMAIN f.at : g.at[o] = f.at[o]
  BY <1>1, <1>2 DEF Place
<1>5. g.synced = f.synced
  BY <1>1
<1> HIDE DEF g
<1>6. f.synced <= g.synced
  BY <1>2, <1>5
<1>7. ASSUME NEW o
      PROVE  (o \in DOMAIN g.at /\ ~g.at[o].torn) <=> (o \in DOMAIN f.at /\ ~f.at[o].torn)
  BY <1>2, <1>3, <1>4
<1>8. SameWhole(f, g)
  BY <1>4, <1>6, <1>7 DEF SameWhole
<1> QED
  BY <1>8 DEF g

\* Files with the same whole frames, and new ones without any.
LEMMA SameWholeRecords ==
  ASSUME NEW d, DiskOK(d), NEW e, DiskOK(e), DOMAIN d \subseteq DOMAIN e,
         \A id \in DOMAIN d : SameWhole(d[id], e[id]),
         \A id \in DOMAIN e \ DOMAIN d : DOMAIN e[id].at = {}
  PROVE  SameRecords(d, e)
<1>1. ASSUME NEW k, NEW id, NEW o, IsRecord(d, k, id, o)
      PROVE  IsRecord(e, k, id, o) /\ e[id].at[o] = d[id].at[o] /\ d[id].synced <= e[id].synced
  BY <1>1 DEF IsRecord, SameWhole
<1>2. ASSUME NEW k, NEW id, NEW o, IsRecord(e, k, id, o) PROVE IsRecord(d, k, id, o)
  <2>1. id \in DOMAIN d
    BY <1>2 DEF IsRecord
  <2> QED
    BY <1>2, <2>1 DEF IsRecord, SameWhole
<1> QED
  BY <1>1, <1>2, TighterKept DEF SameRecords

\* A whole frame appended to the newest file, synced or not, is one record more.
LEMMA AppendOneMore ==
  ASSUME NEW d, DiskOK(d), NEW e, DiskOK(e), NEW i \in DOMAIN d, DOMAIN d \subseteq DOMAIN e,
         \A id \in DOMAIN d : id <= i, NEW x \in Entry, ~x.torn,
         e[i].at = Place(d[i].at, d[i].len, x), d[i].synced <= e[i].synced,
         \A id \in DOMAIN d : id # i => e[id] = d[id],
         \A id \in DOMAIN e \ DOMAIN d : DOMAIN e[id].at = {}
  PROVE  OneMore(d, e, i, d[i].len, x)
<1>1. IsFile(d[i]) /\ i \in Nat
  BY DEF DiskOK, FileID
<1>2. /\ d[i].len \in Nat /\ d[i].len \notin DOMAIN d[i].at
      /\ \A o \in DOMAIN d[i].at : o \in Nat /\ o < d[i].len
  BY <1>1 DEF IsFile
<1>3. /\ DOMAIN e[i].at = DOMAIN d[i].at \cup {d[i].len} /\ e[i].at[d[i].len] = x
      /\ \A o \in DOMAIN d[i].at : e[i].at[o] = d[i].at[o]
  BY <1>2 DEF Place
<1>4. IsRecord(e, x.key, i, d[i].len)
  BY <1>3 DEF IsRecord
<1>5. ASSUME NEW k, NEW id, NEW o, IsRecord(d, k, id, o)
      PROVE  /\ IsRecord(e, k, id, o) /\ e[id].at[o] = d[id].at[o]
             /\ Loose(e[id], o) => Loose(d[id], o)
             /\ id < i \/ (id = i /\ o < d[i].len)
  <2>1. id \in DOMAIN d /\ id \in Nat /\ o \in DOMAIN d[id].at /\ d[id].synced \in Nat
    BY <1>5, RecordTypes
  <2>2. e[id].at[o] = d[id].at[o] /\ o \in DOMAIN e[id].at /\ d[id].synced <= e[id].synced
    BY <1>3, <2>1
  <2>3. IsRecord(e, k, id, o)
    BY <1>5, <2>1, <2>2 DEF IsRecord
  <2>4. id < i \/ (id = i /\ o < d[i].len)
    BY <1>1, <1>2, <2>1
  <2> QED
    BY <1>5, <2>2, <2>3, <2>4, TighterKept
<1>6. ASSUME NEW k, NEW id, NEW o, IsRecord(e, k, id, o)
      PROVE  IsRecord(d, k, id, o) \/ (k = x.key /\ id = i /\ o = d[i].len)
  <2>1. id \in DOMAIN d
    BY <1>6 DEF IsRecord
  <2>2. CASE id # i
    BY <1>6, <2>1, <2>2 DEF IsRecord
  <2>3. CASE id = i
    BY <1>3, <1>6, <2>3 DEF IsRecord
  <2> QED
    BY <2>2, <2>3
<1> QED
  BY <1>3, <1>4, <1>5, <1>6 DEF OneMore

(***************************************************************************)
(* Spoiled files.  A scan of a file ends in an error when a torn frame is  *)
(* followed by more than the header of another record.  What lies before   *)
(* SafeEnd no power loss takes away.                                       *)
(***************************************************************************)
SafeEnd(f) == IF SyncOnWrite THEN f.synced ELSE f.len

Spoils(f, end) == \E o \in Torn(f) : o + HeaderSize < end

SpoiledIn(d) == \E id \in DOMAIN d : Spoils(d[id], SafeEnd(d[id]))

\* A file that grew: the frames that were there, and not shorter.
GrewTo(f, g) == Keeps(f, g) /\ f.len <= g.len

DirGrewTo(d, e) == DOMAIN d \subseteq DOMAIN e /\ \A id \in DOMAIN d : GrewTo(d[id], e[id])

\* Every operation on an open file lets it grow.
LEMMA FilesGrow ==
  ASSUME NEW f, IsFile(f), NEW x \in Entry, NEW n \in Nat \ {0}
  PROVE  /\ GrewTo(f, f) /\ GrewTo(f, Sync(f)) /\ GrewTo(f, Append(f, x))
         /\ GrewTo(f, Sync(Append(f, x))) /\ GrewTo(f, AppendPrefix(f, x, n))
<1>1. f.len \in Nat /\ frameSize(x) \in Nat
  BY EntryTypes DEF IsFile
<1>2. GrewTo(f, f)
  BY <1>1, KeepsReflexive DEF GrewTo
<1>3. GrewTo(f, Sync(f))
  BY <1>1, SyncKeeps DEF GrewTo
<1>4. IsFile(Append(f, x)) /\ GrewTo(f, Append(f, x))
  BY <1>1, AppendKeeps DEF GrewTo
<1>5. GrewTo(f, Sync(Append(f, x)))
  <2>1. /\ IsFile(Sync(Append(f, x))) /\ Keeps(Append(f, x), Sync(Append(f, x)))
        /\ Sync(Append(f, x)).len = Append(f, x).len
    BY <1>4, SyncKeeps
  <2> QED
    BY <1>4, <2>1, KeepsTransitive DEF GrewTo
<1>6. GrewTo(f, AppendPrefix(f, x, n))
  <2>1. Keeps(f, AppendPrefix(f, x, n))
    BY AppendPrefixKeeps
  <2>2. f.len <= AppendPrefix(f, x, n).len
    BY <1>1, <1>4 DEF AppendPrefix, GrewTo
  <2> QED
    BY <2>1, <2>2 DEF GrewTo
<1> QED
  BY <1>2, <1>3, <1>4, <1>5, <1>6

\* A spoiled file stays spoiled while files grow ...
LEMMA SpoiledKept ==
  ASSUME NEW d, DiskOK(d), NEW e, DiskOK(e), DirGrewTo(d, e), SpoiledIn(d)
  PROVE  SpoiledIn(e)
<1>1. PICK id \in DOMAIN d : \E o \in Torn(d[id]) : o + HeaderSize < SafeEnd(d[id])
  BY DEF SpoiledIn, Spoils
<1>2. PICK o \in Torn(d[id]) : o + HeaderSize < SafeEnd(d[id])
  BY <1>1
<1>3. id \in DOMAIN e /\ IsFile(d[id]) /\ IsFile(e[id]) /\ GrewTo(d[id], e[id])
  BY DEF DirGrewTo, DiskOK
<1>4. o \in Torn(e[id])
  BY <1>3, TornKept DEF GrewTo
<1>5. /\ o \in Nat /\ d[id].len \in Nat /\ e[id].len \in Nat /\ d[id].synced \in Nat
      /\ e[id].synced \in Nat /\ HeaderSize \in Nat
  BY <1>3, LogAssumption DEF Torn, IsFile
<1>6. d[id].len <= e[id].len /\ d[id].synced <= e[id].synced
  BY <1>3 DEF GrewTo, Keeps
<1>7. o + HeaderSize < SafeEnd(e[id])
  BY <1>2, <1>5, <1>6 DEF SafeEnd
<1> QED
  BY <1>3, <1>4, <1>7 DEF SpoiledIn, Spoils

\* ... and, with SyncOnWrite, after a power loss.
LEMMA SpoiledSurvives ==
  ASSUME NEW d, DiskOK(d), NEW e, DOMAIN e = DOMAIN d, SyncOnWrite,
         \A id \in DOMAIN d : e[id] \in AfterPowerLoss(d[id]), SpoiledIn(d)
  PROVE  SpoiledIn(e)
<1>1. PICK id \in DOMAIN d : \E o \in Torn(d[id]) : o + HeaderSize < d[id].synced
  BY DEF SpoiledIn, Spoils, SafeEnd
<1>2. PICK o \in Torn(d[id]) : o + HeaderSize < d[id].synced
  BY <1>1
<1>3. IsFile(d[id])
  BY DEF DiskOK
<1>4. PICK n \in d[id].synced .. d[id].len : e[id] = Survives(d[id], n)
  BY DEF AfterPowerLoss
<1>5. /\ o \in DOMAIN d[id].at /\ d[id].at[o].torn /\ o \in Nat /\ n \in Nat
      /\ d[id].synced \in Nat /\ d[id].synced <= n /\ HeaderSize \in Nat
  BY <1>3, LogAssumption DEF Torn, IsFile
<1>6. o < n /\ o + HeaderSize < n
  BY <1>2, <1>5
<1>7. /\ o \in DOMAIN e[id].at /\ e[id].synced = n
      /\ e[id].at[o] = d[id].at[o] \/ e[id].at[o] = TornEntry(d[id].at[o])
  BY <1>4, <1>5, <1>6 DEF Survives
<1>8. o \in Torn(e[id])
  BY <1>5, <1>7 DEF Torn, TornEntry
<1> QED
  BY <1>6, <1>7, <1>8 DEF SpoiledIn, Spoils, SafeEnd

\* A scan of a spoiled file ends in an error.
LEMMA SpoiledFails ==
  ASSUME NEW f, IsFile(f), Spoils(f, f.len)
  PROVE  TRUE \notin ScanVerdicts(f)
<1>1. PICK o \in Torn(f) : o + HeaderSize < f.len
  BY DEF Spoils
<1>2. Torn(f) \in SUBSET Nat /\ f.len \in Nat /\ HeaderSize \in Nat
  BY LogAssumption DEF Torn, IsFile
<1>3. \E m \in Torn(f) : \A x \in Torn(f) : m <= x
  BY <1>2, LeastExists
<1>4. FirstTorn(f) \in Torn(f) /\ \A x \in Torn(f) : FirstTorn(f) <= x
  BY <1>3 DEF FirstTorn
<1>5. f.len - FirstTorn(f) # HeaderSize
  BY <1>1, <1>2, <1>4
<1>6. Torn(f) # {}
  BY <1>1
<1> QED
  BY <1>5, <1>6 DEF ScanVerdicts

\* In particular what stays spoiled makes the scan of the directory fail.
LEMMA SpoiledRefused ==
  ASSUME NEW d, DiskOK(d), \A id \in DOMAIN d : TRUE \in ScanVerdicts(d[id])
  PROVE  ~SpoiledIn(d)
<1> SUFFICES ASSUME SpoiledIn(d) PROVE FALSE
  OBVIOUS
<1>1. PICK id \in DOMAIN d : \E o \in Torn(d[id]) : o + HeaderSize < SafeEnd(d[id])
  BY DEF SpoiledIn, Spoils
<1>2. IsFile(d[id])
  BY DEF DiskOK
<1>3. PICK o \in Torn(d[id]) : o + HeaderSize < SafeEnd(d[id])
  BY <1>1
<1>4. o \in Nat /\ d[id].synced <= d[id].len /\ d[id].synced \in Nat /\ d[id].len \in Nat
  BY <1>2 DEF Torn, IsFile
<1>5. o + HeaderSize < d[id].len
  BY <1>3, <1>4, LogAssumption DEF SafeEnd
<1> QED
  BY <1>2, <1>5, SpoiledFails DEF Spoils

\* What a scan finds is acknowledged, when all that may be found is.
LEMMA ScanFinds ==
  ASSUME NEW d, DiskOK(d), NEW a, AckedIn(d, a), NEW k \in Key
  PROVE  Get(scanIndex(d), DOMAIN d, d, k) \in a[k]
<1> DEFINE m == scanIndex(d)
           p == LastRecord(d, k)
<1>1. \A id, o : IsRecord(d, k, id, o) <=> <<id, o>> \in Records(d, k)
  BY DEF IsRecord, Records
<1>2. CASE Records(d, k) = {}
  <2>1. MayBeNone(d, k)
    BY <1>1, <1>2 DEF MayBeNone
  <2>2. m[k] = NoLocation
    BY <1>2 DEF scanIndex
  <2>3. Get(m, DOMAIN d, d, k) = NoValue
    BY <2>2 DEF Get, NoLocation
  <2> QED
    BY <2>1, <2>3 DEF AckedIn
<1>3. CASE Records(d, k) # {}
  <2>1. p \in Records(d, k) /\ \A q \in Records(d, k) : LaterOrSame(p, q)
    BY <1>3, StoreAssumption, LastRecordExists DEF DiskOK, FileID
  <2>2. p = <<p[1], p[2]>> /\ IsRecord(d, k, p[1], p[2])
    BY <2>1 DEF Records, IsRecord
  <2>3. m[k] = [file |-> p[1], off |-> p[2], tomb |-> d[p[1]].at[p[2]].tomb]
    BY <1>3 DEF scanIndex
  <2> HIDE DEF m, p
  <2>4. MayBeLast(d, k, p[1], p[2])
    <3> SUFFICES ASSUME NEW j, NEW q, IsRecord(d, k, j, q)
                 PROVE  p[1] > j \/ (p[1] = j /\ p[2] >= q)
      BY DEF MayBeLast
    <3>1. LaterOrSame(p, <<j, q>>)
      BY <1>1, <2>1
    <3> QED
      BY <3>1 DEF LaterOrSame
  <2>5. Found(d[p[1]].at[p[2]]) \in a[k]
    BY <2>2, <2>4 DEF AckedIn
  <2>6. Get(m, DOMAIN d, d, k) = Found(d[p[1]].at[p[2]])
    BY <2>2, <2>3 DEF Get, Found, CanReadAt, ReadAt, IsRecord
  <2> QED
    BY <2>5, <2>6 DEF m
<1> QED
  BY <1>2, <1>3

(***************************************************************************)
(* The invariant.  A directory that is not spoiled shows what is           *)
(* acknowledged; and as long as the end of the active file is not torn,    *)
(* the index does, from which Merge copies.                                *)
(***************************************************************************)
ScanScope ==
  /\ hint = "none" \/ (hint = "torn" /\ LiveEntries(hintIndex) = {})
  /\ faults \subseteq {"append"}

GoodIndex ==
  /\ AllIn(index, segments) /\ AllResolve(disk, index)
  /\ \A k \in Key : Get(index, segments, disk, k) \in acked[k]

SoonSpoiled == Spoils(disk[activeID], disk[activeID].len)

DirAcked == pc # "reset" => SpoiledIn(disk) \/ AckedIn(disk, acked)
IdleGood == CanAppend => GoodIndex \/ SpoiledIn(disk) \/ SoonSpoiled
CopyGood == (up /\ pc = "copy") => GoodIndex \/ SpoiledIn(disk)

ScanInv == ScanScope => DirAcked /\ IdleGood /\ CopyGood

\* Segment.size is the end of the active file, or a torn frame precedes it.
EndInv ==
  (up /\ activeID \in segments) =>
    size = disk[activeID].len \/ Torn(disk[activeID]) # {}

\* A key that is not live, or will not be, may be found absent.
AbsentIn(S) == \A k \in Key \ S : NoValue \in acked[k]

AbsentInv ==
  faults \subseteq {"append"} =>
    /\ (up /\ pc \in {"idle", "copy"}) => AbsentIn(LiveEntries(index))
    /\ pc = "copy" => AbsentIn(LiveEntries(newIndex) \cup todo)
    /\ pc \in {"hint", "remove"} => AbsentIn(LiveEntries(newIndex))
    /\ pc \in {"reset", "fresh"} => AbsentIn({})

(***************************************************************************)
(* EndInv.                                                                 *)
(***************************************************************************)
LEMMA EndKept ==
  ASSUME TypeInv, EndInv, UNCHANGED <<activeID, size>>,
         (up' /\ activeID \in segments') =>
           /\ up /\ activeID \in segments /\ disk'[activeID].len = disk[activeID].len
           /\ Keeps(disk[activeID], disk'[activeID])
  PROVE  EndInv'
BY TornKept DEF EndInv

\* A write moves both ends, or a torn frame stays where it is.
LEMMA WriteEnd ==
  ASSUME TypeInv, TypeInv', EndInv, CanAppend, NEW e \in Entry, NEW sync \in BOOLEAN,
         Written(e, sync) \/ WrittenAndRotated(e, sync)
  PROVE  EndInv'
<1> DEFINE f == disk[activeID]
           g == WrittenFile(e, sync)
<1>1. up /\ activeID \in segments
  BY DEF CanAppend, Ready
<1>2. CASE Written(e, sync)
  <2>1. /\ disk' = [disk EXCEPT ![activeID] = g] /\ size' = size + frameSize(e)
        /\ UNCHANGED <<segments, activeID>>
    BY <1>2 DEF Written, WrittenFile
  <2>2. activeID \in DOMAIN disk /\ Keeps(f, g) /\ g.len = f.len + frameSize(e)
    BY <1>1, WrittenFileOK
  <2>3. disk'[activeID'] = g /\ Torn(f) \subseteq Torn(g)
    BY <2>1, <2>2, TornKept
  <2> QED
    BY <1>1, <2>1, <2>2, <2>3 DEF EndInv
<1>3. CASE WrittenAndRotated(e, sync)
  BY <1>1, <1>3, WrittenAndRotatedType DEF EndInv
<1> QED
  BY <1>2, <1>3

\* Every step keeps it.
LEMMA NextEndInv == TypeInv /\ FreshInv /\ EndInv /\ [Next]_vars => EndInv'
<1> SUFFICES ASSUME TypeInv, FreshInv, EndInv, [Next]_vars PROVE EndInv'
  OBVIOUS
<1>0. TypeInv' /\ SyncOnWrite \in BOOLEAN
  BY NextTypeInv, StoreAssumption
<1>1. /\ DiskOK(disk) /\ DiskKeeps(disk, disk)
      /\ activeID \in segments => activeID \in DOMAIN disk
  BY DiskKeepsReflexive DEF TypeInv, Shape
<1>2. CASE UNCHANGED vars
  BY <1>2 DEF vars, diskVars, memVars, EndInv
<1>3. CASE Open
  BY <1>3 DEF Open, OpenEmpty, OpenHint, OpenScan, Opened, EndInv
<1>4. CASE Close \/ Crash
  BY <1>4 DEF Close, Crash, Kill, KillInWrite, KillInCopy, PowerLoss, Down, EndInv
<1>5. ASSUME NEW k \in Key, Delete(k) PROVE EndInv'
  BY <1>0, <1>5, EntryTypes, WriteEnd DEF Delete
<1>6. ASSUME NEW k \in Key, NEW v \in Value, Put(k, v) PROVE EndInv'
  BY <1>0, <1>6, EntryTypes, WriteEnd DEF Put
<1>7. ASSUME NEW e \in WriteEntries, SyncFails(e) \/ RotateFails(e) PROVE EndInv'
  BY <1>0, <1>7, WriteEntryTypes, WriteEnd DEF SyncFails, RotateFails
<1>8. ASSUME NEW e \in WriteEntries, NEW n \in 1 .. frameSize(e) - 1, AppendFails(e, n)
      PROVE  EndInv'
  <2>1. /\ activeID \in DOMAIN disk /\ disk'[activeID] = AppendPrefix(disk[activeID], e, n)
        /\ activeID' = activeID
    BY <1>1, <1>8 DEF AppendFails, CanAppend, memVars
  <2>2. n # frameSize(e)
    BY WriteEntryTypes, EntryTypes
  <2>3. disk[activeID].len \in Torn(disk'[activeID])
    BY <2>1, <2>2 DEF AppendPrefix, Place, Torn, TornEntry
  <2> QED
    BY <2>1, <2>3 DEF EndInv
<1>9. CASE MergeStart
  <2>1. UNCHANGED <<up, segments, activeID, size>>
    BY <1>9 DEF MergeStart, memVars
  <2> QED
    BY <1>1, <1>9, <2>1, MergeStartDisk, EndKept DEF DiskKeeps
<1>10. CASE ResetStart
  <2>1. UNCHANGED <<up, segments, activeID, size>> /\ disk' = SyncedActive /\ activeID \in segments
    BY <1>10 DEF ResetStart, memVars, CanAppend
  <2> QED
    BY <1>1, <2>1, SyncedActiveOK, EndKept DEF DiskKeeps
<1>11. ASSUME NEW k \in Key, MergeCopy(k) PROVE EndInv'
  <2>1. UNCHANGED <<up, segments, activeID, size>> /\ pc = "copy"
    BY <1>11 DEF MergeCopy, memVars
  <2>2. activeID \in segments => activeID # newID
    BY <2>1 DEF TypeInv, TypeOK, Shape
  <2> QED
    BY <1>1, <1>11, <2>1, <2>2, MergeCopyDisk, EndKept DEF DiskKeeps
<1>12. CASE (\E k \in Key : MergeReadFails(k)) \/ MergeCopyFails
  <2>1. UNCHANGED <<up, segments, activeID, size>> /\ pc = "copy"
    BY <1>12 DEF MergeReadFails, MergeCopyFails, MergeAborts
  <2>2. activeID \in segments => activeID # newID
    BY <2>1 DEF TypeInv, TypeOK, Shape
  <2>3. disk' = disk \/ \E g : disk' = [disk EXCEPT ![newID] = g]
    BY <1>12 DEF MergeReadFails, MergeCopyFails, diskVars
  <2>4. activeID \in segments => disk'[activeID] = disk[activeID]
    BY <1>1, <2>2, <2>3
  <2> QED
    BY <1>1, <2>1, <2>4, EndKept DEF DiskKeeps
<1>13. CASE MergeSync
  <2>1. UNCHANGED <<up, segments, activeID, size>>
    BY <1>13 DEF MergeSync, memVars
  <2> QED
    BY <1>1, <1>13, <2>1, MergeSyncDisk, EndKept DEF DiskKeeps
<1>14. CASE MergeHint \/ MergeHintFails \/ ResetHint \/ ResetFails
            \/ \E id \in segments : RemoveFails(id)
  <2>1. UNCHANGED <<disk, up, activeID, size>> /\ segments' \subseteq segments
    BY <1>14 DEF MergeHint, MergeHintFails, ResetHint, ResetFails, RemoveFails, MergeAborts,
       memVars, diskVars
  <2> QED
    BY <2>1 DEF EndInv
<1>15. CASE MergePromote \/ ResetFresh
  BY <1>15 DEF MergePromote, ResetFresh, diskVars, EndInv
<1>16. ASSUME NEW id \in segments, RemoveSegment(id) PROVE EndInv'
  <2>1. /\ UNCHANGED <<up, activeID, size>> /\ segments' = segments \ {id}
        /\ disk' = WithoutSegment(disk, id)
    BY <1>16 DEF RemoveSegment
  <2>2. activeID \in segments' => disk'[activeID] = disk[activeID]
    BY <1>1, <2>1 DEF WithoutSegment
  <2> QED
    BY <2>1, <2>2 DEF EndInv
<1> QED
  BY <1>2, <1>3, <1>4, <1>5, <1>6, <1>7, <1>8, <1>9, <1>10, <1>11, <1>12, <1>13, <1>14, <1>15, <1>16
  DEF Next, MergeStep, IOError

(***************************************************************************)
(* AbsentInv.                                                              *)
(***************************************************************************)
LEMMA WriteAbsent ==
  ASSUME TypeInv, AbsentInv, CanAppend, NEW e \in WriteEntries, NEW sync \in BOOLEAN,
         Written(e, sync) \/ WrittenAndRotated(e, sync), Ack(e) \/ MayAck(e),
         UNCHANGED <<mergeVars, faults>>
  PROVE  AbsentInv'
<1> SUFFICES ASSUME faults \subseteq {"append"} PROVE AbsentInv'
  BY DEF AbsentInv
<1>1. up /\ pc = "idle" /\ pc' = "idle" /\ AbsentIn(LiveEntries(index))
  BY DEF CanAppend, Ready, mergeVars, AbsentInv
<1>2. /\ e.key \in Key /\ e.tomb \in BOOLEAN /\ IsIndex(index) /\ activeID \in Nat /\ size \in Nat
      /\ acked \in [Key -> SUBSET Result] /\ (e.tomb => e.val = NoValue)
  BY WriteEntryTypes DEF Entry, TypeInv, TypeOK, WriteEntries, PutEntry, DelEntry
<1>3. index' = IndexPut(index, e.key, activeID, size, e.tomb)
  BY DEF Written, WrittenAndRotated
<1>4. /\ index'[e.key] = [file |-> activeID, off |-> size, tomb |-> e.tomb]
      /\ \A j \in Key : j # e.key => index'[j] = index[j]
  BY <1>2, <1>3, IndexPutType
<1>5. ASSUME NEW k \in Key, k \notin LiveEntries(index') PROVE NoValue \in acked'[k]
  <2>1. CASE k = e.key
    <3>1. e.val = NoValue
      BY <1>2, <1>4, <1>5, <2>1 DEF LiveEntries
    <3> QED
      BY <1>2, <2>1, <3>1 DEF Ack, MayAck
  <2>2. CASE k # e.key
    <3>1. k \notin LiveEntries(index)
      BY <1>4, <1>5, <2>2 DEF LiveEntries
    <3>2. acked'[k] = acked[k]
      BY <1>2, <2>2 DEF Ack, MayAck
    <3> QED
      BY <1>1, <3>1, <3>2 DEF AbsentIn
  <2> QED
    BY <2>1, <2>2
<1> QED
  BY <1>1, <1>5 DEF AbsentInv, AbsentIn

\* Open promises what it shows.
LEMMA OpenAbsent == ASSUME TypeInv, ~up, Open PROVE AbsentInv'
<1>1. PICK d, m : Opened(d, m)
  BY DEF Open, OpenEmpty, OpenHint, OpenScan
<1>2. index' = m /\ pc' = "idle"
  BY <1>1 DEF Opened, mergeVars, TypeInv, Shape
<1>3. acked' = [k \in Key |-> LET found == Get(m, DOMAIN d, d, k)
                              IN IF found \in acked[k] THEN acked[k] ELSE {found}]
  BY <1>1 DEF Opened
<1>4. ASSUME NEW k \in Key, k \notin LiveEntries(m) PROVE NoValue \in acked'[k]
  <2>1. Get(m, DOMAIN d, d, k) = NoValue
    BY <1>4 DEF Get, LiveEntries
  <2> QED
    BY <1>3, <2>1
<1> QED
  BY <1>2, <1>4 DEF AbsentInv, AbsentIn

\* Every step keeps it.
LEMMA NextAbsentInv == TypeInv /\ LocInv /\ AbsentInv /\ [Next]_vars => AbsentInv'
<1> SUFFICES ASSUME TypeInv, LocInv, AbsentInv, [Next]_vars, faults' \subseteq {"append"}
             PROVE  AbsentInv'
  BY DEF AbsentInv
<1>1. faults \subseteq {"append"} /\ SyncOnWrite \in BOOLEAN
  BY FaultsOnlyGrow, StoreAssumption
<1>2. CASE UNCHANGED vars
  BY <1>2 DEF vars, memVars, mergeVars, AbsentInv, AbsentIn
<1>3. CASE Open
  BY <1>3, OpenAbsent DEF Open, OpenEmpty, OpenHint, OpenScan
<1>4. CASE Close \/ Crash
  BY <1>4 DEF Close, Crash, Kill, KillInWrite, KillInCopy, PowerLoss, Down, AbsentInv
<1>5. ASSUME NEW k \in Key, Delete(k) PROVE AbsentInv'
  <2>1. DelEntry(k) \in WriteEntries
    BY DEF WriteEntries
  <2> QED
    BY <1>1, <1>5, <2>1, WriteAbsent DEF Delete
<1>6. ASSUME NEW k \in Key, NEW v \in Value, Put(k, v) PROVE AbsentInv'
  <2>1. PutEntry(k, v) \in WriteEntries
    BY DEF WriteEntries
  <2> QED
    BY <1>1, <1>6, <2>1, WriteAbsent DEF Put
<1>7. ASSUME NEW e \in WriteEntries, SyncFails(e) \/ RotateFails(e) PROVE AbsentInv'
  BY <1>1, <1>7, WriteAbsent DEF SyncFails, RotateFails
<1>8. ASSUME NEW e \in WriteEntries, NEW n \in 1 .. frameSize(e) - 1, AppendFails(e, n)
      PROVE  AbsentInv'
  BY <1>1, <1>8 DEF AppendFails, memVars, mergeVars, AbsentInv, AbsentIn
<1>9. CASE MergeStart
  BY <1>1, <1>9 DEF MergeStart, memVars, CanAppend, Ready, AbsentInv, AbsentIn
<1>10. CASE ResetStart
  BY <1>1, <1>10 DEF ResetStart, memVars, CanAppend, Ready, AbsentInv, AbsentIn
<1>11. ASSUME NEW k \in Key, MergeCopy(k) PROVE AbsentInv'
  <2>1. /\ pc = "copy" /\ pc' = "copy" /\ todo' = todo \ {k} /\ UNCHANGED <<up, index, acked>>
        /\ newIndex' = IndexPut(newIndex, k, newID, disk[newID].len, FALSE)
    BY <1>11 DEF MergeCopy, memVars
  <2>2. LiveEntries(newIndex) \cup {k} \subseteq LiveEntries(newIndex')
    BY <2>1 DEF IndexPut, IsIndex, LiveEntries, TypeInv, TypeOK
  <2> QED
    BY <1>1, <2>1, <2>2 DEF AbsentInv, AbsentIn
<1>12. CASE MergeSync \/ MergeHint
  BY <1>1, <1>12 DEF MergeSync, MergeHint, memVars, AbsentInv, AbsentIn
<1>13. CASE \E id \in segments : RemoveSegment(id)
  BY <1>1, <1>13 DEF RemoveSegment, mergeVars, AbsentInv, AbsentIn
<1>14. CASE MergePromote
  BY <1>1, <1>14 DEF MergePromote, AbsentInv, AbsentIn
<1>15. CASE ResetHint \/ ResetFresh
  BY <1>1, <1>15 DEF ResetHint, ResetFresh, memVars, AbsentInv, AbsentIn
<1>16. CASE (\E k \in Key : MergeReadFails(k)) \/ MergeCopyFails \/ MergeHintFails
            \/ \E id \in segments : RemoveFails(id)
  BY <1>16 DEF MergeReadFails, MergeCopyFails, MergeHintFails, RemoveFails, MergeAborts
<1>17. CASE ResetFails
  <2>1. pc = "fresh" /\ pc' = "idle" /\ acked' = acked
    BY <1>17 DEF ResetFails, MergeAborts, Fault
  <2> QED
    BY <1>1, <2>1 DEF AbsentInv, AbsentIn
<1> QED
  BY <1>2, <1>3, <1>4, <1>5, <1>6, <1>7, <1>8, <1>9, <1>10, <1>11, <1>12, <1>13, <1>14, <1>15,
     <1>16, <1>17
  DEF Next, MergeStep, IOError

(***************************************************************************)
(* A write.                                                                *)
(***************************************************************************)
LEMMA WriteDisk ==
  ASSUME TypeInv, TypeInv', DirInv, faults \subseteq {"append"}, CanAppend, NEW e \in Entry,
         ~e.torn, NEW sync \in BOOLEAN, Written(e, sync) \/ WrittenAndRotated(e, sync)
  PROVE  /\ activeID \in DOMAIN disk /\ activeID \in DOMAIN disk'
         /\ disk'[activeID] = WrittenFile(e, sync)
         /\ OneMore(disk, disk', activeID, disk[activeID].len, e)
         /\ DirGrewTo(disk, disk') /\ DiskKeeps(disk, disk')
<1> DEFINE f == disk[activeID]
           g == WrittenFile(e, sync)
           d == [disk EXCEPT ![activeID] = g]
           id == maxFileID + 1
<1>1. /\ activeID \in segments /\ DOMAIN disk = segments /\ \A i \in segments : i <= activeID
      /\ DiskOK(disk) /\ DiskOK(disk') /\ IsFile(f)
  BY DEF CanAppend, Ready, DirInv, TypeInv, Shape, DiskOK
<1>2. /\ DiskOK(d) /\ DOMAIN d = DOMAIN disk /\ d[activeID] = g /\ Keeps(f, g)
      /\ DiskKeeps(disk, d) /\ \A i \in DOMAIN disk : i # activeID => d[i] = disk[i]
  BY <1>1, WrittenFileOK
<1>3. g.at = Place(f.at, f.len, e)
  BY DEF WrittenFile, Append, Sync
<1>4. GrewTo(f, g)
  <2>1. 1 \in Nat \ {0}
    OBVIOUS
  <2> QED
    BY <1>1, <2>1, FilesGrow DEF WrittenFile
<1>5. /\ DOMAIN disk \subseteq DOMAIN disk'
      /\ \A i \in DOMAIN disk : disk'[i] = d[i]
      /\ \A i \in DOMAIN disk' \ DOMAIN disk : DOMAIN disk'[i].at = {}
  <2>1. CASE Written(e, sync)
    <3>1. disk' = d
      BY <2>1 DEF Written, WrittenFile
    <3> QED
      BY <1>2, <3>1
  <2>2. CASE WrittenAndRotated(e, sync)
    <3>1. disk' = WithSegment(d, id)
      BY <2>2 DEF WrittenAndRotated, WrittenFile
    <3> HIDE DEF d
    <3> QED
      BY <1>2, <3>1 DEF WithSegment, EmptyFile
  <2> QED
    BY <2>1, <2>2
<1> HIDE DEF d, g
<1>6. /\ disk'[activeID] = g /\ activeID \in DOMAIN disk'
      /\ \A i \in DOMAIN disk : i # activeID => disk'[i] = disk[i]
  BY <1>1, <1>2, <1>5
<1>7. OneMore(disk, disk', activeID, f.len, e)
  BY <1>1, <1>2, <1>3, <1>5, <1>6, AppendOneMore DEF Keeps
<1>8. ASSUME NEW i \in DOMAIN disk PROVE GrewTo(disk[i], disk'[i])
  <2>1. CASE i = activeID
    BY <1>4, <1>6, <2>1
  <2>2. CASE i # activeID
    <3>1. IsFile(disk[i]) /\ disk'[i] = disk[i] /\ disk[i].len \in Nat
      BY <1>1, <1>6, <2>2 DEF DiskOK, IsFile
    <3> QED
      BY <3>1, KeepsReflexive DEF GrewTo
  <2> QED
    BY <2>1, <2>2
<1>9. DirGrewTo(disk, disk') /\ DiskKeeps(disk, disk')
  BY <1>5, <1>8 DEF DirGrewTo, DiskKeeps, GrewTo
<1> QED
  BY <1>1, <1>6, <1>7, <1>9 DEF g

\* The acknowledged value of a write is the one that will be found.
LEMMA WriteAcked ==
  ASSUME TypeInv, TypeInv', DirInv, faults \subseteq {"append"}, CanAppend, NEW e \in WriteEntries,
         NEW sync \in BOOLEAN, Written(e, sync) \/ WrittenAndRotated(e, sync),
         (Ack(e) /\ sync = SyncOnWrite) \/ MayAck(e), AckedIn(disk, acked)
  PROVE  AckedIn(disk', acked')
<1> DEFINE f == disk[activeID]
<1>1. /\ e \in Entry /\ ~e.torn /\ e.key \in Key /\ Found(e) = e.val
      /\ acked \in [Key -> SUBSET Result]
  BY WriteEntryTypes, WriteEntriesWhole
  DEF Entry, Found, WriteEntries, PutEntry, DelEntry, TypeInv, TypeOK
<1>2. /\ activeID \in DOMAIN disk /\ disk'[activeID] = WrittenFile(e, sync)
      /\ OneMore(disk, disk', activeID, f.len, e) /\ DiskOK(disk) /\ IsFile(f)
  BY <1>1, WriteDisk DEF TypeInv, Shape, DiskOK
<1>3. CASE MayAck(e)
  <2>1. (\A k \in Key : acked[k] \subseteq acked'[k]) /\ Found(e) \in acked'[e.key]
    BY <1>1, <1>3 DEF MayAck
  <2> QED
    BY <1>1, <1>2, <2>1, OneMoreAcked
<1>4. CASE Ack(e) /\ sync = SyncOnWrite
  <2>1. (\A k \in Key : k # e.key => acked'[k] = acked[k]) /\ Found(e) \in acked'[e.key]
    BY <1>1, <1>4 DEF Ack
  <2>2. activeID \in Nat /\ f.len \in Nat /\ frameSize(e) \in Nat
    BY <1>1, <1>2, EntryTypes DEF IsFile, DiskOK, FileID
  <2>3. ~Loose(disk'[activeID], f.len)
    <3>1. CASE ~SyncOnWrite
      BY <3>1 DEF Loose
    <3>2. CASE SyncOnWrite
      <4>1. /\ disk'[activeID].synced = f.len + frameSize(e) /\ disk'[activeID].at[f.len] = e
        BY <1>1, <1>2, <1>4, <3>2 DEF WrittenFile, Sync, Append, Place
      <4> QED
        BY <2>2, <4>1 DEF Loose
    <3> QED
      BY <3>1, <3>2
  <2>4. \A k, id, o : IsRecord(disk, k, id, o) => id \in Nat /\ o \in Nat
    BY <1>2, RecordTypes
  <2> QED
    BY <1>1, <1>2, <2>1, <2>2, <2>3, <2>4, LastRecordAcked
<1> QED
  BY <1>3, <1>4

\* Behind a torn frame a write spoils the file; else the index stays good.
LEMMA WriteGood ==
  ASSUME TypeInv, TypeInv', DirInv, EndInv, IdleGood, faults \subseteq {"append"}, CanAppend,
         NEW e \in WriteEntries, NEW sync \in BOOLEAN,
         \/ Written(e, sync)
         \/ WrittenAndRotated(e, sync) /\ sync = SyncOnWrite,
         Ack(e) \/ MayAck(e)
  PROVE  GoodIndex' \/ SpoiledIn(disk') \/ SoonSpoiled'
<1> DEFINE f == disk[activeID]
<1>1. /\ e \in Entry /\ ~e.torn /\ e.key \in Key /\ e.tomb \in BOOLEAN /\ (e.tomb => e.val = NoValue)
      /\ acked \in [Key -> SUBSET Result] /\ IsIndex(index) /\ size \in Nat /\ activeID \in Nat
      /\ up /\ activeID \in segments
  BY WriteEntryTypes, WriteEntriesWhole
  DEF Entry, WriteEntries, PutEntry, DelEntry, TypeInv, TypeOK, CanAppend, Ready
<1>2. /\ activeID \in DOMAIN disk /\ disk'[activeID] = WrittenFile(e, sync)
      /\ DirGrewTo(disk, disk') /\ DiskKeeps(disk, disk') /\ DiskOK(disk) /\ DiskOK(disk')
      /\ IsFile(f) /\ activeID \in DOMAIN disk'
  BY <1>1, WriteDisk DEF TypeInv, Shape, DiskOK
<1>3. /\ disk'[activeID].len = f.len + frameSize(e) /\ f.len \in DOMAIN disk'[activeID].at
      /\ disk'[activeID].at[f.len] = e /\ Keeps(f, disk'[activeID])
  <2>1. LET g == WrittenFile(e, sync)
        IN  /\ Keeps(f, g) /\ g.len = f.len + frameSize(e)
            /\ f.len \in DOMAIN g.at /\ g.at[f.len] = e
    BY <1>1, WrittenFileOK
  <2> QED
    BY <1>2, <2>1
<1>4. CASE Torn(f) # {}
  <2>1. PICK o \in Torn(f) : TRUE
    BY <1>4
  <2>2. /\ o \in Nat /\ o < f.len /\ f.len \in Nat /\ HeaderSize \in Nat
        /\ frameSize(e) > HeaderSize /\ frameSize(e) \in Nat
    <3>1. o \in Nat /\ o < f.len /\ f.len \in Nat
      BY <1>2 DEF Torn, IsFile
    <3>2. payloadLen(e) \in Nat \ {0} /\ HeaderSize \in Nat
      BY <1>1, LogAssumption DEF Entry, payloadLen
    <3> QED
      BY <3>1, <3>2 DEF frameSize
  <2>3. o \in Torn(disk'[activeID]) /\ o + HeaderSize < disk'[activeID].len
    BY <1>3, <2>2, TornKept
  <2>4. CASE Written(e, sync)
    <3>1. activeID' = activeID
      BY <2>4 DEF Written
    <3> QED
      BY <2>3, <3>1 DEF SoonSpoiled, Spoils
  <2>5. CASE WrittenAndRotated(e, sync) /\ sync = SyncOnWrite
    <3>1. SafeEnd(disk'[activeID]) = disk'[activeID].len
      BY <1>2, <2>5 DEF SafeEnd, WrittenFile, Sync
    <3> QED
      BY <1>2, <2>3, <3>1 DEF SpoiledIn, Spoils
  <2> QED
    BY <2>4, <2>5
<1>5. CASE Torn(f) = {} /\ SpoiledIn(disk)
  BY <1>2, <1>5, SpoiledKept
<1>6. CASE Torn(f) = {} /\ GoodIndex
  <2>1. size = f.len
    BY <1>1, <1>6 DEF EndInv
  <2>2. index' = IndexPut(index, e.key, activeID, f.len, e.tomb) /\ segments \subseteq segments'
    BY <2>1 DEF Written, WrittenAndRotated
  <2>3. /\ index'[e.key] = [file |-> activeID, off |-> f.len, tomb |-> e.tomb]
        /\ \A j \in Key : j # e.key => index'[j] = index[j]
    BY <1>1, <2>1, <2>2, IndexPutType
  <2>4. e.val \in acked'[e.key] /\ \A j \in Key : j # e.key => acked'[j] = acked[j]
    BY <1>1 DEF Ack, MayAck
  <2>5. ASSUME NEW k \in Key
        PROVE  /\ k \in LiveEntries(index') => index'[k].file \in segments' /\ Resolves(disk', k, index'[k])
               /\ Get(index', segments', disk', k) \in acked'[k]
    <3>1. CASE k = e.key
      <4>1. CASE e.tomb
        BY <1>1, <2>3, <2>4, <3>1, <4>1 DEF LiveEntries, Get
      <4>2. CASE ~e.tomb
        <5>1. /\ index'[k].file = activeID /\ index'[k].off = f.len /\ ~index'[k].tomb
              /\ activeID \in segments'
          BY <1>1, <2>2, <2>3, <3>1, <4>2
        <5>2. Resolves(disk', k, index'[k])
          BY <1>1, <1>2, <1>3, <3>1, <4>2, <5>1 DEF Resolves, CanReadAt, ReadAt
        <5>3. Get(index', segments', disk', k) = e.val
          BY <1>1, <1>2, <1>3, <4>2, <5>1 DEF CanReadAt, ReadAt, Get
        <5> QED
          BY <2>4, <3>1, <5>1, <5>2, <5>3
      <4> QED
        BY <4>1, <4>2
    <3>2. CASE k # e.key
      <4>1. CASE index[k].tomb
        BY <1>6, <2>3, <2>4, <3>2, <4>1 DEF LiveEntries, Get, GoodIndex
      <4>2. CASE ~index[k].tomb
        <5>1. index[k].file \in segments /\ Resolves(disk, k, index[k])
          BY <1>6, <4>2 DEF GoodIndex, AllIn, AllResolve, LiveEntries
        <5>2. /\ Resolves(disk', k, index[k])
              /\ ReadAt(disk'[index[k].file], index[k].off) = ReadAt(disk[index[k].file], index[k].off)
          BY <1>2, <5>1 DEF Resolves, CanReadAt, ReadAt, DiskKeeps, Keeps
        <5>3. Get(index', segments', disk', k) = Get(index, segments, disk, k)
          BY <2>2, <2>3, <3>2, <4>2, <5>1, <5>2 DEF Get, Resolves
        <5> QED
          BY <1>6, <2>2, <2>3, <2>4, <3>2, <5>1, <5>2, <5>3 DEF GoodIndex
      <4> QED
        BY <4>1, <4>2
    <3> QED
      BY <3>1, <3>2
  <2> QED
    BY <2>5 DEF GoodIndex, AllIn, AllResolve, LiveEntries
<1>7. GoodIndex \/ SpoiledIn(disk) \/ Torn(f) # {}
  BY DEF IdleGood, SoonSpoiled, Spoils
<1> QED
  BY <1>4, <1>5, <1>6, <1>7

(***************************************************************************)
(* Steps that change one file and none of its whole frames.                *)
(***************************************************************************)
LEMMA EditSame ==
  ASSUME TypeInv, DiskOK(disk'), NEW id \in DOMAIN disk, NEW g, SameWhole(disk[id], g),
         GrewTo(disk[id], g), disk' = [disk EXCEPT ![id] = g]
  PROVE  SameRecords(disk, disk') /\ DirGrewTo(disk, disk')
<1>1. DiskOK(disk) /\ \A i \in DOMAIN disk : IsFile(disk[i]) /\ disk[i].len \in Nat
  BY DEF TypeInv, Shape, DiskOK, IsFile
<1>2. /\ DOMAIN disk' = DOMAIN disk /\ disk'[id] = g
      /\ \A i \in DOMAIN disk : i # id => disk'[i] = disk[i]
  OBVIOUS
<1>3. \A i \in DOMAIN disk : SameWhole(disk[i], disk'[i]) /\ GrewTo(disk[i], disk'[i])
  BY <1>1, <1>2, SameWholeReflexive, KeepsReflexive DEF GrewTo
<1>4. SameRecords(disk, disk')
  BY <1>1, <1>2, <1>3, SameWholeRecords
<1> QED
  BY <1>2, <1>3, <1>4 DEF DirGrewTo

\* They show what was shown before.
LEMMA DirAckedKept ==
  ASSUME TypeInv, DiskOK(disk'), DirAcked, pc # "reset", SameRecords(disk, disk'),
         DirGrewTo(disk, disk'), \A k \in Key : acked[k] \subseteq acked'[k]
  PROVE  DirAcked'
<1>1. DiskOK(disk)
  BY DEF TypeInv, Shape
<1>2. CASE SpoiledIn(disk)
  <2>1. SpoiledIn(disk')
    BY <1>1, <1>2, SpoiledKept
  <2> QED
    BY <2>1 DEF DirAcked
<1>3. CASE AckedIn(disk, acked)
  <2>1. AckedIn(disk', acked')
    BY <1>3, SameRecordsAcked
  <2> QED
    BY <2>1 DEF DirAcked
<1> QED
  BY <1>2, <1>3 DEF DirAcked

\* A good index stays good while files grow.
LEMMA GoodKept ==
  ASSUME TypeInv, GoodIndex, DirGrewTo(disk, disk'), UNCHANGED <<index, segments, acked>>
  PROVE  GoodIndex'
<1>1. DiskKeeps(disk, disk')
  BY DEF DirGrewTo, GrewTo, DiskKeeps
<1>2. AllResolve(disk', index')
  BY <1>1, ResolvesKept DEF GoodIndex
<1>3. \A k \in Key : Get(index', segments', disk', k) = Get(index, segments, disk, k)
  BY <1>1, GetKept DEF GoodIndex
<1> QED
  BY <1>2, <1>3 DEF GoodIndex

\* Put, Delete and the failures after their append.
LEMMA WriteScan ==
  ASSUME TypeInv, TypeInv', DirInv, EndInv, ScanInv, ScanScope, NEW e \in WriteEntries,
         NEW sync \in BOOLEAN, CanAppend,
         \/ Written(e, sync)
         \/ WrittenAndRotated(e, sync) /\ sync = SyncOnWrite,
         (Ack(e) /\ sync = SyncOnWrite) \/ MayAck(e), UNCHANGED mergeVars
  PROVE  ScanInv'
<1>1. /\ DirAcked /\ IdleGood /\ faults \subseteq {"append"} /\ pc = "idle" /\ pc' = "idle"
      /\ DiskOK(disk) /\ DiskOK(disk')
  BY DEF ScanInv, ScanScope, CanAppend, Ready, mergeVars, TypeInv, Shape
<1>2. GoodIndex' \/ SpoiledIn(disk') \/ SoonSpoiled'
  BY <1>1, WriteGood
<1>3. SpoiledIn(disk') \/ AckedIn(disk', acked')
  <2>1. CASE SpoiledIn(disk)
    <3>1. DirGrewTo(disk, disk')
      BY <1>1, WriteEntryTypes, WriteEntriesWhole, WriteDisk
    <3> QED
      BY <1>1, <2>1, <3>1, SpoiledKept
  <2>2. CASE AckedIn(disk, acked)
    BY <1>1, <2>2, WriteAcked
  <2> QED
    BY <1>1, <2>1, <2>2 DEF DirAcked
<1> QED
  BY <1>1, <1>2, <1>3 DEF ScanInv, DirAcked, IdleGood, CopyGood

\* A write that was cut short and reported.
LEMMA AppendFailsScan ==
  ASSUME TypeInv, TypeInv', ScanInv, ScanScope, NEW e \in WriteEntries,
         NEW n \in 1 .. frameSize(e) - 1, AppendFails(e, n)
  PROVE  ScanInv'
<1> DEFINE f == disk[activeID]
           g == AppendPrefix(f, e, n)
<1>1. /\ e \in Entry /\ n \in Nat \ {0} /\ n # frameSize(e)
  BY WriteEntryTypes, EntryTypes
<1>2. /\ CanAppend /\ pc = "idle" /\ pc' = "idle" /\ activeID \in DOMAIN disk /\ IsFile(f)
      /\ DiskOK(disk) /\ DiskOK(disk') /\ disk' = [disk EXCEPT ![activeID] = g]
      /\ UNCHANGED <<index, segments, activeID, acked>>
  BY DEF AppendFails, CanAppend, Ready, memVars, mergeVars, TypeInv, Shape, DiskOK
<1>3. SameWhole(f, g) /\ GrewTo(f, g)
  BY <1>1, <1>2, PrefixSameWhole, FilesGrow
<1>4. SameRecords(disk, disk') /\ DirGrewTo(disk, disk') /\ disk'[activeID] = g
  BY <1>2, <1>3, EditSame
<1>5. DirAcked /\ IdleGood
  BY DEF ScanInv
<1>6. DirAcked'
  BY <1>2, <1>4, <1>5, DirAckedKept
<1>7. GoodIndex => GoodIndex'
  BY <1>2, <1>4, GoodKept
<1>8. SpoiledIn(disk) => SpoiledIn(disk')
  BY <1>2, <1>4, SpoiledKept
<1>9. SoonSpoiled => SoonSpoiled'
  <2> SUFFICES ASSUME NEW o \in Torn(f), o + HeaderSize < f.len PROVE SoonSpoiled'
    BY DEF SoonSpoiled, Spoils
  <2>1. o \in Nat /\ f.len \in Nat /\ g.len \in Nat /\ f.len <= g.len /\ HeaderSize \in Nat
    <3>1. IsFile(g)
      BY <1>1, <1>2, AppendPrefixKeeps
    <3> QED
      BY <1>2, <1>3, <3>1, LogAssumption DEF Torn, IsFile, GrewTo
  <2>2. o \in Torn(g)
    BY <1>3, TornKept DEF GrewTo
  <2> HIDE DEF f, g
  <2>3. o + HeaderSize < g.len
    BY <2>1
  <2> QED
    BY <1>2, <1>4, <2>2, <2>3 DEF SoonSpoiled, Spoils
<1> QED
  BY <1>2, <1>5, <1>6, <1>7, <1>8, <1>9 DEF ScanInv, IdleGood, CopyGood

(***************************************************************************)
(* Merge.                                                                  *)
(***************************************************************************)
LEMMA MergeStartScan ==
  ASSUME TypeInv, TypeInv', DirInv, ScanInv, ScanScope, MergeStart PROVE ScanInv'
<1>1. /\ CanAppend /\ activeID \in segments /\ up /\ pc = "idle" /\ pc' = "copy"
      /\ UNCHANGED <<index, segments, activeID, acked>> /\ faults \subseteq {"append"}
  BY DEF MergeStart, CanAppend, Ready, memVars, ScanScope
<1>2. /\ DiskOK(disk) /\ DiskOK(disk') /\ DOMAIN disk = segments /\ activeID \in DOMAIN disk
      /\ IsFile(disk[activeID]) /\ \A id \in DOMAIN disk : IsFile(disk[id])
  BY <1>1 DEF TypeInv, Shape, DirInv, DiskOK
<1>3. /\ DOMAIN disk' = DOMAIN disk \cup {newID'} /\ newID' \in Nat
      /\ newID' \notin DOMAIN disk => disk'[newID'] = EmptyFile
      /\ \A id \in segments : id < newID'
      /\ \A id \in DOMAIN disk : disk'[id] = SyncedActive[id]
  BY MergeStartDisk
<1>4. newID' \notin DOMAIN disk
  BY <1>2, <1>3 DEF TypeInv, TypeOK, FileID
<1>5. \A id \in DOMAIN disk' \ DOMAIN disk : DOMAIN disk'[id].at = {}
  BY <1>3, <1>4 DEF EmptyFile
<1>6. /\ disk'[activeID] = Sync(disk[activeID])
      /\ \A id \in DOMAIN disk : id # activeID => disk'[id] = disk[id]
  BY <1>2, <1>3 DEF SyncedActive
<1>7. ASSUME NEW id \in DOMAIN disk
      PROVE  SameWhole(disk[id], disk'[id]) /\ GrewTo(disk[id], disk'[id])
  <2>1. CASE id = activeID
    <3>1. disk[id].len \in Nat
      BY <1>2, <2>1 DEF IsFile
    <3> QED
      BY <1>2, <1>6, <2>1, <3>1, SyncSameWhole, SyncKeeps DEF GrewTo
  <2>2. CASE id # activeID
    <3>1. IsFile(disk[id]) /\ disk[id].len \in Nat
      BY <1>2 DEF IsFile
    <3> QED
      BY <1>6, <2>2, <3>1, SameWholeReflexive, KeepsReflexive DEF GrewTo
  <2> QED
    BY <2>1, <2>2
<1>8. SameRecords(disk, disk') /\ DirGrewTo(disk, disk')
  BY <1>2, <1>3, <1>5, <1>7, SameWholeRecords DEF DirGrewTo
<1>9. DirAcked /\ IdleGood
  BY DEF ScanInv
<1>10. DirAcked'
  BY <1>1, <1>2, <1>8, <1>9, DirAckedKept
<1>11. GoodIndex => GoodIndex'
  BY <1>1, <1>8, GoodKept
<1>12. SpoiledIn(disk) => SpoiledIn(disk')
  BY <1>2, <1>8, SpoiledKept
<1>13. SoonSpoiled => SpoiledIn(disk')
  <2>1. /\ Torn(disk'[activeID]) = Torn(disk[activeID])
        /\ SafeEnd(disk'[activeID]) = disk[activeID].len
    BY <1>6 DEF Sync, Torn, SafeEnd
  <2> QED
    BY <1>2, <1>3, <2>1 DEF SoonSpoiled, SpoiledIn, Spoils
<1> QED
  BY <1>1, <1>9, <1>10, <1>11, <1>12, <1>13 DEF ScanInv, IdleGood, CopyGood, CanAppend, Ready

\* A turn of the copy loop appends a frame to the newest file ...
LEMMA MergeCopyGrows ==
  ASSUME TypeInv, TypeInv', DirInv, faults \subseteq {"append"}, NEW k \in Key, MergeCopy(k)
  PROVE  /\ OneMore(disk, disk', newID, disk[newID].len, Copied(k)) /\ DirGrewTo(disk, disk')
         /\ Found(Copied(k)) = Copied(k).val
<1> DEFINE f == disk[newID]
           x == Copied(k)
<1>1. pc = "copy" /\ disk' = [disk EXCEPT ![newID] = Append(f, x)]
  BY DEF MergeCopy
<1>2. /\ x \in Entry /\ newID \in DOMAIN disk /\ IsFile(f) /\ DOMAIN disk' = DOMAIN disk
      /\ disk'[newID] = Append(f, x)
      /\ \A id \in DOMAIN disk : id # newID => disk'[id] = disk[id]
  BY MergeCopyDisk
<1>3. /\ DiskOK(disk) /\ DiskOK(disk') /\ \A id \in DOMAIN disk : id <= newID
      /\ \A id \in DOMAIN disk : IsFile(disk[id]) /\ disk[id].len \in Nat
  <2>1. DOMAIN disk = segments \cup {newID} /\ \A id \in segments : id < newID
    BY <1>1 DEF DirInv, TypeInv, Shape
  <2>2. newID \in Nat /\ segments \subseteq Nat
    BY DEF TypeInv, TypeOK, FileID
  <2> QED
    BY <2>1, <2>2 DEF TypeInv, Shape, DiskOK, IsFile
<1>4. ~x.torn /\ ~x.tomb /\ Found(x) = x.val
  BY DEF Copied, PutEntry, Found
<1>5. GrewTo(f, Append(f, x))
  <2>1. 1 \in Nat \ {0}
    OBVIOUS
  <2> QED
    BY <1>2, <2>1, FilesGrow
<1>6. DirGrewTo(disk, disk')
  BY <1>2, <1>3, <1>5, KeepsReflexive DEF DirGrewTo, GrewTo
<1>7. Append(f, x).at = Place(f.at, f.len, x) /\ Append(f, x).synced = f.synced /\ f.synced \in Nat
  BY <1>2 DEF Append, IsFile
<1> HIDE DEF x, f
<1>8. OneMore(disk, disk', newID, disk[newID].len, x)
  <2>1. disk'[newID].at = Place(disk[newID].at, disk[newID].len, x)
    BY <1>2, <1>7 DEF f
  <2>2. disk[newID].synced <= disk'[newID].synced
    BY <1>2, <1>7 DEF f
  <2> QED
    BY <1>2, <1>3, <1>4, <2>1, <2>2, AppendOneMore
<1> QED
  BY <1>4, <1>6, <1>8 DEF x

\* ... with what is read of a live key, which is acknowledged.
LEMMA CopiedAcked ==
  ASSUME LocInv, GoodIndex, NEW k \in Key, MergeCopy(k)
  PROVE  Copied(k).key = k /\ Copied(k).val \in acked[k]
<1>1. k \in LiveEntries(index)
  BY DEF MergeCopy, LocInv, LiveTodo
<1>2. index[k].file \in segments /\ Resolves(disk, k, index[k])
  BY <1>1 DEF GoodIndex, AllIn, AllResolve
<1>3. Copied(k).key = k /\ Copied(k).val = Get(index, segments, disk, k)
  BY <1>1, <1>2 DEF Copied, PutEntry, Get, Resolves, LiveEntries
<1> QED
  BY <1>3 DEF GoodIndex

\* So it keeps the invariant.
LEMMA MergeCopyScan ==
  ASSUME TypeInv, TypeInv', LocInv, DirInv, ScanInv, ScanScope, NEW k \in Key, MergeCopy(k)
  PROVE  ScanInv'
<1> DEFINE x == Copied(k)
<1>1. /\ pc = "copy" /\ pc' = "copy" /\ UNCHANGED <<index, segments, acked>>
      /\ faults \subseteq {"append"} /\ up /\ DiskOK(disk) /\ DiskOK(disk')
  BY DEF MergeCopy, memVars, ScanScope, TypeInv, Shape
<1>2. /\ OneMore(disk, disk', newID, disk[newID].len, x) /\ DirGrewTo(disk, disk')
      /\ Found(x) = x.val
  BY <1>1, MergeCopyGrows
<1>3. DirAcked /\ CopyGood
  BY DEF ScanInv
<1>4. CASE SpoiledIn(disk)
  <2>1. SpoiledIn(disk')
    BY <1>1, <1>2, <1>4, SpoiledKept
  <2> QED
    BY <1>1, <2>1 DEF ScanInv, DirAcked, IdleGood, CopyGood, CanAppend, Ready
<1>5. CASE ~SpoiledIn(disk)
  <2>1. GoodIndex /\ AckedIn(disk, acked)
    BY <1>1, <1>3, <1>5 DEF DirAcked, CopyGood
  <2>2. x.key \in Key /\ x.val \in acked'[x.key]
    BY <1>1, <2>1, CopiedAcked
  <2>3. \A j \in Key : acked[j] \subseteq acked'[j]
    BY <1>1
  <2> HIDE DEF x
  <2>4. AckedIn(disk', acked')
    BY <1>2, <2>1, <2>2, <2>3, OneMoreAcked
  <2>5. GoodIndex'
    BY <1>1, <1>2, <2>1, GoodKept
  <2> QED
    BY <1>1, <2>4, <2>5 DEF ScanInv, DirAcked, IdleGood, CopyGood, CanAppend, Ready
<1> QED
  BY <1>4, <1>5

\* Syncing the new segment, up to the creation of the hint file.
LEMMA MergeSyncScan ==
  ASSUME TypeInv, TypeInv', LiveHintInv, ScanInv, MergeSync, ScanScope' PROVE ScanInv'
<1>1. /\ pc = "copy" /\ pc' = "hint" /\ UNCHANGED <<hintIndex, acked, faults>>
      /\ DiskOK(disk') /\ newID \in DOMAIN disk /\ IsFile(disk[newID])
      /\ disk' = [disk EXCEPT ![newID] = Sync(disk[newID])]
  BY DEF MergeSync, TypeInv, Shape, DiskOK
<1>2. ScanScope
  BY <1>1 DEF MergeSync, ScanScope, LiveHintInv, TypeInv, TypeOK
<1>3. SameWhole(disk[newID], Sync(disk[newID])) /\ GrewTo(disk[newID], Sync(disk[newID]))
  <2>1. disk[newID].len \in Nat
    BY <1>1 DEF IsFile
  <2> QED
    BY <1>1, <2>1, SyncSameWhole, SyncKeeps DEF GrewTo
<1>4. SameRecords(disk, disk') /\ DirGrewTo(disk, disk')
  BY <1>1, <1>3, EditSame
<1>5. \A k \in Key : acked[k] \subseteq acked'[k]
  BY <1>1
<1>6. DirAcked'
  BY <1>1, <1>2, <1>4, <1>5, DirAckedKept DEF ScanInv
<1> QED
  BY <1>1, <1>6 DEF ScanInv, IdleGood, CopyGood, CanAppend, Ready

(***************************************************************************)
(* resetToEmpty, Open and crashes.                                         *)
(***************************************************************************)
LEMMA ResetScan ==
  ASSUME TypeInv, TypeInv', DirInv, FreshInv, AbsentInv, ScanScope', faults \subseteq {"append"},
         ResetHint \/ ResetFresh
  PROVE  ScanInv'
<1>1. DOMAIN disk = {} /\ AbsentIn({}) /\ acked' = acked
  BY DEF ResetHint, ResetFresh, DirInv, FreshInv, AbsentInv
<1>2. \A k \in Key : NoValue \in acked'[k]
  BY <1>1 DEF AbsentIn
<1>3. \A id \in DOMAIN disk' : DOMAIN disk'[id].at = {}
  BY <1>1 DEF ResetHint, ResetFresh, WithSegment, EmptyFile
<1>4. AckedIn(disk', acked')
  BY <1>2, <1>3, EmptyAcked
<1>5. CASE ResetHint
  <2>1. pc' = "fresh"
    BY <1>5 DEF ResetHint
  <2> QED
    BY <1>4, <2>1 DEF ScanInv, DirAcked, IdleGood, CopyGood, CanAppend, Ready
<1>6. CASE ResetFresh
  <2>1. pc' = "idle" /\ index' = NewIndex
    BY <1>6 DEF ResetFresh
  <2>2. \A k \in Key : Get(index', segments', disk', k) = NoValue
    BY <2>1, NewIndexType, GetAbsent
  <2>3. GoodIndex'
    BY <1>2, <2>1, <2>2, NewIndexResolves DEF GoodIndex
  <2> QED
    BY <1>4, <2>1, <2>3 DEF ScanInv, DirAcked, IdleGood, CopyGood
<1> QED
  BY <1>5, <1>6

\* Open finds an empty directory, or scans one that is not spoiled.
LEMMA OpenScanned ==
  ASSUME TypeInv, TypeInv', ScanInv, ScanScope, ~up, Open PROVE ScanInv'
<1>1. pc = "idle" /\ DirAcked /\ DiskOK(disk) /\ acked \in [Key -> SUBSET Result]
  BY DEF TypeInv, TypeOK, Shape, ScanInv
<1>2. pc' = "idle" /\ \A k \in Key : Contents'[k] \in acked'[k]
  BY OpenAcks
<1>3. \A k \in Key : Get(index', segments', disk', k) \in acked'[k]
  BY <1>2, ContentsIs DEF ContentsByPC
<1>4. CASE OpenEmpty
  <2>1. DOMAIN disk = {} /\ Opened(WithSegment(disk, 1), NewIndex)
    BY <1>4 DEF OpenEmpty
  <2>2. index' = NewIndex /\ disk' = WithSegment(disk, 1)
    BY <2>1 DEF Opened
  <2>3. \A k \in Key : NoValue \in acked'[k]
    BY <1>3, <2>2, NewIndexType, GetAbsent
  <2>4. \A id \in DOMAIN disk' : DOMAIN disk'[id].at = {}
    BY <2>1, <2>2 DEF WithSegment, EmptyFile
  <2>5. AckedIn(disk', acked')
    BY <2>3, <2>4, EmptyAcked
  <2>6. GoodIndex'
    BY <1>3, <2>2, NewIndexResolves DEF GoodIndex
  <2> QED
    BY <1>2, <2>5, <2>6 DEF ScanInv, DirAcked, IdleGood, CopyGood
<1>5. CASE OpenHint
  BY <1>5 DEF OpenHint, HintLoads, ScanScope
<1>6. CASE OpenScan
  <2>1. Opened(disk, scanIndex(disk)) /\ \A id \in DOMAIN disk : TRUE \in ScanVerdicts(disk[id])
    BY <1>6 DEF OpenScan
  <2>2. AckedIn(disk, acked)
    BY <1>1, <2>1, SpoiledRefused DEF DirAcked
  <2>3. /\ disk' = disk /\ index' = scanIndex(disk) /\ segments' = DOMAIN disk
        /\ acked' = [k \in Key |->
                       IF Get(scanIndex(disk), DOMAIN disk, disk, k) \in acked[k] THEN acked[k]
                       ELSE {Get(scanIndex(disk), DOMAIN disk, disk, k)}]
    BY <2>1 DEF Opened
  <2>4. \A k \in Key : Get(scanIndex(disk), DOMAIN disk, disk, k) \in acked[k]
    BY <1>1, <2>2, ScanFinds
  <2>5. acked' = acked
    BY <1>1, <2>3, <2>4
  <2>6. AllResolve(disk, scanIndex(disk))
    BY <1>1, StoreAssumption, ScanResolves DEF DiskOK, FileID, AllResolve
  <2>7. GoodIndex'
    BY <1>3, <2>3, <2>6 DEF GoodIndex, AllIn, AllResolve, Resolves
  <2> QED
    BY <1>2, <2>2, <2>3, <2>5, <2>7 DEF ScanInv, DirAcked, IdleGood, CopyGood
<1> QED
  BY <1>4, <1>5, <1>6 DEF Open

\* A store that is down has only the directory to answer for.
LEMMA DownScan == ASSUME Down, DirAcked' PROVE ScanInv'
BY DEF Down, ScanInv, IdleGood, CopyGood, CanAppend, Ready

\* The process dies with a frame, or a part of one, written.
LEMMA KillInWriteScan ==
  ASSUME TypeInv, TypeInv', DirInv, ScanInv, ScanScope, NEW e \in WriteEntries,
         NEW n \in 1 .. frameSize(e), KillInWrite(e, n)
  PROVE  ScanInv'
<1> DEFINE f == disk[activeID]
           g == AppendPrefix(f, e, n)
<1>1. /\ e \in Entry /\ ~e.torn /\ e.key \in Key /\ Found(e) = e.val /\ n \in Nat \ {0}
  BY WriteEntryTypes, WriteEntriesWhole, EntryTypes
  DEF Entry, Found, WriteEntries, PutEntry, DelEntry
<1>2. /\ pc = "idle" /\ activeID \in DOMAIN disk /\ IsFile(f) /\ DiskOK(disk) /\ DiskOK(disk')
      /\ disk' = [disk EXCEPT ![activeID] = g] /\ Down
      /\ \A id \in DOMAIN disk : id <= activeID
  BY DEF KillInWrite, CanAppend, Ready, TypeInv, Shape, DiskOK, ScanScope, DirInv
<1>3. (\A k \in Key : acked[k] \subseteq acked'[k]) /\ Found(e) \in acked'[e.key]
  BY <1>1 DEF KillInWrite, MayAck, TypeInv, TypeOK
<1>4. DirAcked
  BY DEF ScanInv
<1>5. GrewTo(f, g)
  BY <1>1, <1>2, FilesGrow
<1>6. CASE n # frameSize(e)
  <2>1. SameRecords(disk, disk') /\ DirGrewTo(disk, disk')
    BY <1>1, <1>2, <1>5, <1>6, PrefixSameWhole, EditSame
  <2>2. DirAcked'
    BY <1>2, <1>3, <1>4, <2>1, DirAckedKept
  <2> QED
    BY <1>2, <2>2, DownScan
<1>7. CASE n = frameSize(e)
  <2>1. g = Append(f, e)
    BY <1>7 DEF AppendPrefix
  <2>2. g.at = Place(f.at, f.len, e) /\ g.synced = f.synced /\ f.synced \in Nat
    BY <1>2, <2>1 DEF Append, IsFile
  <2> HIDE DEF g
  <2>3. /\ DOMAIN disk' = DOMAIN disk /\ disk'[activeID] = g
        /\ \A id \in DOMAIN disk : id # activeID => disk'[id] = disk[id]
    BY <1>2
  <2>4. OneMore(disk, disk', activeID, f.len, e)
    <3>1. disk'[activeID].at = Place(disk[activeID].at, disk[activeID].len, e)
      BY <2>2, <2>3
    <3>2. disk[activeID].synced <= disk'[activeID].synced
      BY <2>2, <2>3
    <3> QED
      BY <1>1, <1>2, <2>3, <3>1, <3>2, AppendOneMore
  <2>5. ASSUME NEW id \in DOMAIN disk PROVE GrewTo(disk[id], disk'[id])
    <3>1. IsFile(disk[id]) /\ disk[id].len \in Nat
      BY <1>2 DEF DiskOK, IsFile
    <3> QED
      BY <1>5, <2>3, <3>1, KeepsReflexive DEF GrewTo
  <2>6. DirGrewTo(disk, disk')
    BY <2>3, <2>5 DEF DirGrewTo
  <2>7. SpoiledIn(disk') \/ AckedIn(disk', acked')
    BY <1>1, <1>2, <1>3, <1>4, <2>4, <2>6, SpoiledKept, OneMoreAcked DEF DirAcked
  <2> QED
    BY <1>2, <2>7, DownScan DEF DirAcked
<1> QED
  BY <1>6, <1>7

\* Or with a part of a copy.
LEMMA KillInCopyScan ==
  ASSUME TypeInv, TypeInv', ScanInv, ScanScope, NEW k \in todo, KillInCopy(k) PROVE ScanInv'
<1> DEFINE x == Copied(k)
<1>1. /\ pc = "copy" /\ x \in Entry /\ newID \in DOMAIN disk /\ IsFile(disk[newID])
      /\ DiskOK(disk') /\ acked' = acked /\ Down
  BY CopiedType DEF KillInCopy, TypeInv, Shape, DiskOK
<1>2. PICK n \in 1 .. frameSize(x) - 1 :
        disk' = [disk EXCEPT ![newID] = AppendPrefix(@, x, n)]
  BY DEF KillInCopy
<1>3. n \in Nat \ {0} /\ n # frameSize(x)
  BY <1>1, EntryTypes
<1> HIDE DEF x
<1>4. SameRecords(disk, disk') /\ DirGrewTo(disk, disk')
  BY <1>1, <1>2, <1>3, PrefixSameWhole, FilesGrow, EditSame
<1>5. DirAcked'
  BY <1>1, <1>4, DirAckedKept DEF ScanInv
<1> QED
  BY <1>1, <1>5, DownScan

\* The machine stops.
LEMMA PowerLossScan ==
  ASSUME TypeInv, TypeInv', ScanInv, ScanScope, pc # "reset", PowerLoss PROVE ScanInv'
<1>1. /\ DiskOK(disk) /\ DiskOK(disk') /\ DOMAIN disk' = DOMAIN disk /\ DirAcked
      /\ \A id \in DOMAIN disk : disk'[id] \in AfterPowerLoss(disk[id])
  BY PowerLossDisk DEF TypeInv, Shape, ScanInv
<1>2. SpoiledIn(disk') \/ AckedIn(disk', acked')
  <2>1. CASE ~SyncOnWrite
    BY <1>1, <2>1, AnyAcked DEF PowerLoss
  <2>2. CASE SyncOnWrite
    <3>1. acked' = acked
      BY <2>2 DEF PowerLoss
    <3> QED
      BY <1>1, <2>2, <3>1, SpoiledSurvives, CutAcked DEF DirAcked
  <2> QED
    BY <2>1, <2>2
<1>3. DirAcked'
  BY <1>2 DEF DirAcked
<1> QED
  BY <1>3, DownScan DEF PowerLoss

(***************************************************************************)
(* Every step keeps the invariant.                                         *)
(***************************************************************************)
LEMMA NextScanInv ==
  /\ TypeInv /\ TypeInv' /\ LocInv /\ DirInv /\ FreshInv /\ HintPCInv /\ LiveHintInv /\ EndInv
  /\ AbsentInv /\ ScanInv /\ [Next]_vars
  => ScanInv'
<1> SUFFICES ASSUME TypeInv, TypeInv', LocInv, DirInv, FreshInv, HintPCInv, LiveHintInv, EndInv,
                    AbsentInv, ScanInv, [Next]_vars, ScanScope'
             PROVE  ScanInv'
  BY DEF ScanInv
<1>1. faults \subseteq {"append"} /\ faults' \subseteq {"append"} /\ SyncOnWrite \in BOOLEAN
  BY FaultsOnlyGrow, StoreAssumption DEF ScanScope
<1>2. ASSUME UNCHANGED <<hint, hintIndex>> PROVE ScanScope
  BY <1>1, <1>2 DEF ScanScope
<1>3. CASE UNCHANGED vars
  BY <1>2, <1>3 DEF vars, diskVars, memVars, mergeVars, ScanInv, DirAcked, IdleGood, CopyGood,
     CanAppend, Ready, GoodIndex, SoonSpoiled
<1>4. CASE Open
  <2>1. ~up /\ UNCHANGED <<hint, hintIndex>>
    BY <1>4 DEF Open, OpenEmpty, OpenHint, OpenScan, Opened
  <2> QED
    BY <1>2, <1>4, <2>1, OpenScanned
<1>5. ASSUME NEW k \in Key, Delete(k) PROVE ScanInv'
  <2>1. DelEntry(k) \in WriteEntries
    BY DEF WriteEntries
  <2> QED
    BY <1>1, <1>2, <1>5, <2>1, WriteScan DEF Delete
<1>6. ASSUME NEW k \in Key, NEW v \in Value, Put(k, v) PROVE ScanInv'
  <2>1. PutEntry(k, v) \in WriteEntries
    BY DEF WriteEntries
  <2> QED
    BY <1>1, <1>2, <1>6, <2>1, WriteScan DEF Put
<1>7. ASSUME NEW e \in WriteEntries, SyncFails(e) \/ RotateFails(e) PROVE ScanInv'
  BY <1>1, <1>2, <1>7, WriteScan DEF SyncFails, RotateFails
<1>8. ASSUME NEW e \in WriteEntries, NEW n \in 1 .. frameSize(e) - 1, AppendFails(e, n)
      PROVE  ScanInv'
  BY <1>2, <1>8, AppendFailsScan DEF AppendFails
<1>9. CASE MergeStart
  BY <1>2, <1>9, MergeStartScan DEF MergeStart
<1>10. ASSUME NEW k \in Key, MergeCopy(k) PROVE ScanInv'
  BY <1>2, <1>10, MergeCopyScan DEF MergeCopy
<1>11. CASE MergeSync
  BY <1>11, MergeSyncScan
<1>12. CASE (\E k \in Key : MergeReadFails(k)) \/ MergeCopyFails \/ MergeHintFails \/ MergeHint
            \/ MergePromote \/ \E id \in segments : RemoveFails(id)
  BY <1>1, <1>12 DEF MergeReadFails, MergeCopyFails, MergeHintFails, MergeHint, MergePromote,
     RemoveFails, MergeAborts, HintPCInv, ScanScope, diskVars
<1>13. CASE ResetStart
  <2>1. pc' = "reset"
    BY <1>13 DEF ResetStart
  <2> QED
    BY <2>1 DEF ScanInv, DirAcked, IdleGood, CopyGood, CanAppend, Ready
<1>14. ASSUME NEW id \in segments, RemoveSegment(id) PROVE ScanInv'
  <2>1. pc \in {"remove", "reset"} /\ pc' = pc /\ hint' = hint
    BY <1>14 DEF RemoveSegment, mergeVars
  <2>2. pc' = "reset"
    BY <2>1 DEF HintPCInv, ScanScope
  <2> QED
    BY <2>2 DEF ScanInv, DirAcked, IdleGood, CopyGood, CanAppend, Ready
<1>15. CASE ResetHint \/ ResetFresh
  BY <1>1, <1>15, ResetScan
<1>16. CASE ResetFails
  <2>1. /\ pc = "fresh" /\ pc' = "idle" /\ UNCHANGED <<disk, hint, hintIndex, segments, acked>>
    BY <1>1, <1>16 DEF ResetFails, MergeAborts, Fault, diskVars
  <2>2. segments' = {} /\ DirAcked
    BY <1>2, <2>1 DEF FreshInv, ScanInv
  <2> QED
    BY <2>1, <2>2 DEF ScanInv, DirAcked, IdleGood, CopyGood, CanAppend
<1>17. CASE Close \/ Kill
  <2>1. /\ pc # "reset" /\ UNCHANGED <<disk, hint, hintIndex, acked>> /\ Down
    BY <1>1, <1>17 DEF Close, Kill, CrashFault, Ready, diskVars
  <2>2. DirAcked'
    BY <1>2, <2>1 DEF ScanInv, DirAcked
  <2> QED
    BY <2>1, <2>2, DownScan
<1>18. ASSUME NEW e \in WriteEntries, NEW n \in 1 .. frameSize(e), KillInWrite(e, n) PROVE ScanInv'
  BY <1>2, <1>18, KillInWriteScan DEF KillInWrite
<1>19. ASSUME NEW k \in todo, KillInCopy(k) PROVE ScanInv'
  BY <1>2, <1>19, KillInCopyScan DEF KillInCopy
<1>20. CASE PowerLoss
  <2>1. pc # "reset" /\ UNCHANGED <<hint, hintIndex>>
    BY <1>1, <1>20 DEF PowerLoss, CrashFault
  <2> QED
    BY <1>2, <1>20, <2>1, PowerLossScan
<1> QED
  BY <1>3, <1>4, <1>5, <1>6, <1>7, <1>8, <1>9, <1>10, <1>11, <1>12, <1>13, <1>14, <1>15, <1>16,
     <1>17, <1>18, <1>19, <1>20
  DEF Next, MergeStep, IOError, Crash

\* Initially the directory is empty and nothing is promised.
LEMMA InitScanInv == Init => EndInv /\ AbsentInv /\ ScanInv
<1> SUFFICES ASSUME Init PROVE EndInv /\ AbsentInv /\ ScanInv
  OBVIOUS
<1>1. DOMAIN disk = {} /\ \A k \in Key : NoValue \in acked[k]
  BY DEF Init
<1>2. AckedIn(disk, acked)
  BY <1>1, EmptyAcked
<1>3. ~up /\ pc = "idle"
  BY DEF Init
<1> QED
  BY <1>2, <1>3 DEF EndInv, AbsentInv, ScanInv, DirAcked, IdleGood, CopyGood, CanAppend, Ready

(***************************************************************************)
(* With no hint file a scan that ends without an error finds for every key *)
(* the last acknowledged write, or one that was under way: after every     *)
(* crash, at every point of Merge, and also behind short writes, because a *)
(* record that follows one makes the scan fail.                            *)
(***************************************************************************)
THEOREM ScanAlwaysRecovers == Spec => []ScanRecovers
<1>1. TypeInv /\ ScanInv => ScanRecovers
  <2> SUFFICES ASSUME TypeInv, ScanInv, ScanScope, pc # "reset",
                      \A id \in DOMAIN disk : TRUE \in ScanVerdicts(disk[id])
               PROVE  \A k \in Key : Get(scanIndex(disk), DOMAIN disk, disk, k) \in acked[k]
    BY DEF ScanRecovers, ScanScope
  <2>1. DiskOK(disk) /\ DirAcked
    BY DEF TypeInv, Shape, ScanInv
  <2>2. AckedIn(disk, acked)
    BY <2>1, SpoiledRefused DEF DirAcked
  <2> QED
    BY <2>1, <2>2, ScanFinds
<1> QED
  BY InitTypeInv, NextTypeInv, InitResInv, NextResInv, ResLoc, InitDirInv, NextDirInv, InitLocalInv,
     NextHintPCInv, InitNewsInv, NextLiveHintInv, InitScanInv, NextEndInv, NextAbsentInv,
     NextScanInv, <1>1, PTL
  DEF Spec

(***************************************************************************)
(* Open finds the acknowledged writes, after any crashes and short writes, *)
(* whether it scans or loads a hint file that no write has followed: the   *)
(* loss that reload_exact and failed_merge show has no other cause.        *)
(***************************************************************************)
THEOREM OpenAlwaysFindsAcked == Spec => OpenFindsAcked
<1> DEFINE FreshScope == \/ hint = "none" /\ faults \subseteq {"append"}
                         \/ hint = "whole" /\ faults = {} /\ HintIsNews
           Finds == (~up /\ up' /\ FreshScope) => \A k \in Key : Contents'[k] \in acked[k]
<1>1. TypeInv /\ LocInv /\ ScanRecovers /\ FreshHintRecovers /\ [Next]_vars => Finds
  <2> SUFFICES ASSUME TypeInv, LocInv, ScanRecovers, FreshHintRecovers, [Next]_vars, ~up, up', FreshScope
               PROVE  \A k \in Key : Contents'[k] \in acked[k]
    OBVIOUS
  <2>1. Open /\ pc = "idle"
    BY OnlyOpenOpens DEF TypeInv, Shape
  <2>2. ASSUME NEW d, NEW i, Opened(d, i)
        PROVE  Contents' = [k \in Key |-> Get(i, DOMAIN d, d, k)]
    <3>1. disk' = d /\ index' = i /\ segments' = DOMAIN d /\ pc' = "idle"
      BY <2>1, <2>2 DEF Opened, mergeVars
    <3> QED
      BY <3>1, ContentsIs DEF ContentsByPC
  <2>3. CASE OpenEmpty
    <3>1. Contents' = [k \in Key |-> NoValue]
      BY <2>2, <2>3, NewIndexType, GetAbsent DEF OpenEmpty
    <3>2. ASSUME NEW k \in Key PROVE NoValue \in acked[k]
      <4>1. DOMAIN disk = {} /\ DiskOK(disk)
        BY <2>3 DEF OpenEmpty, TypeInv, Shape
      <4>2. CASE hint = "none"
        <5>1. Get(scanIndex(disk), DOMAIN disk, disk, k) \in acked[k]
          BY <2>1, <4>1, <4>2 DEF ScanRecovers
        <5>2. scanIndex(disk)[k] = NoLocation
          BY <4>1 DEF scanIndex, Records
        <5> QED
          BY <5>1, <5>2 DEF Get, NoLocation
      <4>3. CASE hint = "whole"
        <5>1. Get(hintIndex, DOMAIN disk, disk, k) \in acked[k]
          BY <2>1, <4>3 DEF FreshHintRecovers
        <5>2. Get(hintIndex, DOMAIN disk, disk, k) = NoValue
          BY <2>1, <4>1, <4>3, GetAbsent
          DEF LocInv, HintInv, AllResolve, Resolves, Damaged
        <5> QED
          BY <5>1, <5>2
      <4> QED
        BY <4>2, <4>3
    <3> QED
      BY <3>1, <3>2
  <2>4. CASE OpenHint
    <3>1. Opened(disk, hintIndex) /\ hint = "whole"
      BY <2>4 DEF OpenHint, HintLoads
    <3>2. \A k \in Key : Get(hintIndex, DOMAIN disk, disk, k) \in acked[k]
      BY <2>1, <3>1 DEF FreshHintRecovers
    <3> QED
      BY <2>2, <3>1, <3>2
  <2>5. CASE OpenScan
    <3>1. /\ Opened(disk, scanIndex(disk)) /\ hint = "none"
          /\ \A id \in DOMAIN disk : TRUE \in ScanVerdicts(disk[id])
      BY <2>5 DEF OpenScan
    <3>2. \A k \in Key : Get(scanIndex(disk), DOMAIN disk, disk, k) \in acked[k]
      BY <2>1, <3>1 DEF ScanRecovers
    <3> QED
      BY <2>2, <3>1, <3>2
  <2> QED
    BY <2>1, <2>3, <2>4, <2>5 DEF Open
<1> QED
  BY InitTypeInv, NextTypeInv, InitResInv, NextResInv, ResLoc, ScanAlwaysRecovers,
     FreshHintAlwaysRecovers, <1>1, PTL
  DEF Spec, OpenFindsAcked
=============================================================================
