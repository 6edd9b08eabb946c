----------------------------- MODULE CopyProofs -----------------------------
(***************************************************************************)
(* What a second directory shows: a snapshot (SnapshotIsAMoment and        *)
(* SnapshotHintResolves), proved for Snapshots, and the files of an        *)
(* archive (ArchiveRecovers, RestoredHintResolves), proved for Archives.   *)
(***************************************************************************)
EXTENDS RecoveryProofs, Snapshots, Archives

(***************************************************************************)
(* What a step of the store does to the files that were there.  A write    *)
(* adds one whole frame to the active file; Open and a power loss stand    *)
(* for themselves, and so does the copy of a live record; every other step *)
(* leaves the whole frames of the files it leaves.                         *)
(***************************************************************************)
WriteFiles(e) ==
  /\ CanAppend /\ DOMAIN disk \subseteq DOMAIN disk'
  /\ disk'[activeID].at = Place(disk[activeID].at, disk[activeID].len, e)
  /\ disk[activeID].synced <= disk'[activeID].synced
  /\ \A id \in DOMAIN disk : id # activeID => disk'[id] = disk[id]
  /\ e.val \in acked'[e.key]
  /\ \/ \A k \in Key : acked[k] \subseteq acked'[k]
     \/ /\ \A k \in Key : k # e.key => acked'[k] = acked[k]
        /\ ~Loose(disk'[activeID], disk[activeID].len)
  /\ pc' = "idle"
  /\ up' => activeID' = activeID \/ activeID' \notin segments

QuietFiles ==
  /\ \A k \in Key : acked[k] \subseteq acked'[k]
  /\ \A id \in DOMAIN disk : id \in DOMAIN disk' => SameWhole(disk[id], disk'[id])

\* A file that is synced or cut short, in a directory.
LEMMA EditQuiet ==
  ASSUME TypeInv, NEW id \in DOMAIN disk, NEW g, SameWhole(disk[id], g),
         disk' = [disk EXCEPT ![id] = g], \A k \in Key : acked[k] \subseteq acked'[k]
  PROVE  QuietFiles
BY SameWholeReflexive DEF QuietFiles, TypeInv, Shape, DiskOK

\* A directory in which files only come and go.
LEMMA SameQuiet ==
  ASSUME TypeInv, \A id \in DOMAIN disk : id \in DOMAIN disk' => disk'[id] = disk[id],
         \A k \in Key : acked[k] \subseteq acked'[k]
  PROVE  QuietFiles
BY SameWholeReflexive DEF QuietFiles, TypeInv, Shape, DiskOK

\* The active file is synced, perhaps with a new file beside it.
LEMMA SyncQuiet ==
  ASSUME TypeInv, activeID \in segments, \A id \in DOMAIN disk : disk'[id] = SyncedActive[id],
         acked' = acked
  PROVE  QuietFiles
<1>1. activeID \in DOMAIN disk /\ \A id \in DOMAIN disk : IsFile(disk[id])
  BY DEF TypeInv, Shape, DiskOK
<1>2. ASSUME NEW id \in DOMAIN disk PROVE SameWhole(disk[id], disk'[id])
  <2>1. CASE id = activeID
    BY <1>1, <2>1, SyncSameWhole DEF SyncedActive
  <2>2. CASE id # activeID
    BY <1>1, <2>2, SameWholeReflexive DEF SyncedActive
  <2> QED
    BY <2>1, <2>2
<1> QED
  BY <1>2 DEF QuietFiles

\* Put, Delete and the failures after their append.
LEMMA WriteWrites ==
  ASSUME TypeInv, CanAppend, NEW e \in WriteEntries, NEW sync \in BOOLEAN,
         Written(e, sync) \/ WrittenAndRotated(e, sync),
         (Ack(e) /\ sync = SyncOnWrite) \/ MayAck(e), UNCHANGED mergeVars
  PROVE  WriteFiles(e)
<1> DEFINE f == disk[activeID]
           g == WrittenFile(e, sync)
           d == [disk EXCEPT ![activeID] = g]
<1>1. /\ e \in Entry /\ ~e.torn /\ e.key \in Key /\ acked \in [Key -> SUBSET Result]
      /\ activeID \in segments /\ activeID \in DOMAIN disk /\ DiskOK(disk) /\ IsFile(f)
      /\ pc' = "idle" /\ f.synced \in Nat /\ f.len \in Nat
  BY WriteEntryTypes, WriteEntriesWhole
  DEF Entry, CanAppend, Ready, TypeInv, TypeOK, Shape, DiskOK, mergeVars, IsFile
<1>2. g.at = Place(f.at, f.len, e) /\ (sync => g.synced = f.len + frameSize(e))
  BY DEF WrittenFile, Append, Sync
<1>3. f.synced <= g.synced
  <2>1. Keeps(f, g)
    BY <1>1, WrittenFileOK
  <2> QED
    BY <2>1 DEF Keeps
<1>4. /\ DOMAIN disk \subseteq DOMAIN disk' /\ disk'[activeID] = g
      /\ \A i \in DOMAIN disk : i # activeID => disk'[i] = disk[i]
      /\ activeID' = activeID \/ activeID' \notin segments
  <2>1. CASE Written(e, sync)
    <3>1. disk' = d /\ activeID' = activeID
      BY <2>1 DEF Written, WrittenFile
    <3> QED
      BY <1>1, <3>1
  <2>2. CASE WrittenAndRotated(e, sync)
    <3>1. disk' = WithSegment(d, maxFileID + 1) /\ activeID' = maxFileID + 1
      BY <2>2 DEF WrittenAndRotated, WrittenFile
    <3>2. /\ DOMAIN d = DOMAIN disk /\ d[activeID] = g
          /\ \A i \in DOMAIN disk : i # activeID => d[i] = disk[i]
      BY <1>1
    <3>3. maxFileID + 1 \notin segments
      <4>1. /\ maxFileID \in segments /\ \A i \in segments : i <= maxFileID
            /\ segments \subseteq Nat
        BY <1>1, MaxFileIDIs DEF TypeInv, TypeOK, FileID
      <4> QED
        BY <4>1
    <3> HIDE DEF d, g
    <3> QED
      BY <1>1, <3>1, <3>2, <3>3 DEF WithSegment
  <2> QED
    BY <2>1, <2>2
<1>5. e.val \in acked'[e.key]
  BY <1>1 DEF Ack, MayAck
<1>6. CASE MayAck(e)
  <2>1. \A k \in Key : acked[k] \subseteq acked'[k]
    BY <1>1, <1>6 DEF MayAck
  <2> HIDE DEF g
  <2> QED
    BY <1>1, <1>2, <1>3, <1>4, <1>5, <2>1 DEF WriteFiles
<1>7. CASE Ack(e) /\ sync = SyncOnWrite
  <2>1. \A k \in Key : k # e.key => acked'[k] = acked[k]
    BY <1>1, <1>7 DEF Ack
  <2> HIDE DEF g
  <2>2. g.at[f.len] = e
    BY <1>2 DEF Place
  <2>3. ~Loose(g, f.len)
    <3>1. frameSize(e) \in Nat
      BY <1>1, EntryTypes
    <3> QED
      BY <1>1, <1>2, <1>7, <2>2, <3>1 DEF Loose
  <2> QED
    BY <1>1, <1>2, <1>3, <1>4, <1>5, <2>1, <2>3 DEF WriteFiles
<1> QED
  BY <1>6, <1>7

\* The process dies in a write: with the whole frame there, or with a part of it.
LEMMA KillWrites ==
  ASSUME TypeInv, NEW e \in WriteEntries, NEW n \in 1 .. frameSize(e), KillInWrite(e, n)
  PROVE  QuietFiles \/ WriteFiles(e)
<1> DEFINE f == disk[activeID]
           g == AppendPrefix(f, e, n)
<1>1. /\ e \in Entry /\ e.key \in Key /\ n \in Nat \ {0} /\ CanAppend
      /\ acked \in [Key -> SUBSET Result] /\ activeID \in DOMAIN disk /\ IsFile(f)
      /\ disk' = [disk EXCEPT ![activeID] = g] /\ Down /\ f.synced \in Nat
  BY WriteEntryTypes, EntryTypes
  DEF Entry, KillInWrite, CanAppend, TypeInv, TypeOK, Shape, DiskOK, IsFile
<1>2. (\A k \in Key : acked[k] \subseteq acked'[k]) /\ e.val \in acked'[e.key]
  BY <1>1 DEF KillInWrite, MayAck
<1>3. CASE n # frameSize(e)
  <2>1. SameWhole(f, g)
    BY <1>1, <1>3, PrefixSameWhole
  <2> QED
    BY <1>1, <1>2, <2>1, EditQuiet
<1>4. CASE n = frameSize(e)
  <2>1. g.at = Place(f.at, f.len, e) /\ g.synced = f.synced
    BY <1>4 DEF AppendPrefix, Append
  <2> HIDE DEF g
  <2>2. /\ DOMAIN disk' = DOMAIN disk /\ disk'[activeID] = g
        /\ \A id \in DOMAIN disk : id # activeID => disk'[id] = disk[id]
    BY <1>1
  <2>3. pc' = "idle" /\ ~up'
    BY <1>1 DEF Down
  <2> QED
    BY <1>1, <1>2, <2>1, <2>2, <2>3 DEF WriteFiles
<1> QED
  BY <1>3, <1>4

\* A copy is cut short, by an error or a crash.
LEMMA CopyQuiet ==
  ASSUME TypeInv, pc = "copy", acked' = acked, NEW k \in todo, SourceReadable(k),
         NEW n \in 1 .. frameSize(Copied(k)) - 1,
         disk' = [disk EXCEPT ![newID] = AppendPrefix(@, Copied(k), n)]
  PROVE  QuietFiles
<1>1. newID \in DOMAIN disk /\ IsFile(disk[newID]) /\ Copied(k) \in Entry
  BY CopiedType DEF TypeInv, Shape, DiskOK
<1>2. n \in Nat \ {0} /\ n # frameSize(Copied(k))
  BY <1>1, EntryTypes
<1>3. SameWhole(disk[newID], AppendPrefix(disk[newID], Copied(k), n))
  BY <1>1, <1>2, PrefixSameWhole
<1> QED
  BY <1>1, <1>3, EditQuiet

\* Every step is one of the five.
LEMMA StepFiles ==
  ASSUME TypeInv, TypeInv', [Next]_vars
  PROVE  \/ QuietFiles
         \/ \E e \in WriteEntries : WriteFiles(e)
         \/ \E k \in Key : MergeCopy(k)
         \/ Open \/ PowerLoss
<1>1. SyncOnWrite \in BOOLEAN
  BY StoreAssumption
<1>2. CASE UNCHANGED vars
  BY <1>2, SameQuiet DEF vars, diskVars
<1>3. ASSUME NEW k \in Key, Delete(k) PROVE \E e \in WriteEntries : WriteFiles(e)
  <2>1. DelEntry(k) \in WriteEntries
    BY DEF WriteEntries
  <2> QED
    BY <1>1, <1>3, <2>1, WriteWrites DEF Delete
<1>4. ASSUME NEW k \in Key, NEW v \in Value, Put(k, v) PROVE \E e \in WriteEntries : WriteFiles(e)
  <2>1. PutEntry(k, v) \in WriteEntries
    BY DEF WriteEntries
  <2> QED
    BY <1>1, <1>4, <2>1, WriteWrites DEF Put
<1>5. ASSUME NEW e \in WriteEntries, SyncFails(e) \/ RotateFails(e) PROVE WriteFiles(e)
  BY <1>1, <1>5, WriteWrites DEF SyncFails, RotateFails
<1>6. ASSUME NEW e \in WriteEntries, NEW n \in 1 .. frameSize(e) - 1, AppendFails(e, n)
      PROVE  QuietFiles
  <2>1. e \in Entry /\ n \in Nat \ {0} /\ n # frameSize(e)
    BY WriteEntryTypes, EntryTypes
  <2>2. /\ activeID \in DOMAIN disk /\ IsFile(disk[activeID]) /\ acked' = acked
        /\ disk' = [disk EXCEPT ![activeID] = AppendPrefix(disk[activeID], e, n)]
    BY <1>6 DEF AppendFails, CanAppend, TypeInv, Shape, DiskOK
  <2> QED
    BY <2>1, <2>2, PrefixSameWhole, EditQuiet
<1>7. CASE MergeStart
  <2>1. activeID \in segments /\ acked' = acked
    BY <1>7 DEF MergeStart, CanAppend
  <2> QED
    BY <1>7, <2>1, MergeStartDisk, SyncQuiet
<1>8. CASE ResetStart
  BY <1>8, SyncQuiet DEF ResetStart, CanAppend
<1>9. CASE MergeCopyFails \/ \E k \in todo : KillInCopy(k)
  <2>1. pc = "copy" /\ acked' = acked /\ todo \subseteq Key
    BY <1>9 DEF MergeCopyFails, KillInCopy, MergeAborts, TypeInv, TypeOK
  <2>2. \/ disk' = disk
        \/ \E k \in todo :
             /\ SourceReadable(k)
             /\ \E n \in 1 .. frameSize(Copied(k)) - 1 :
                  disk' = [disk EXCEPT ![newID] = AppendPrefix(@, Copied(k), n)]
    BY <1>9 DEF MergeCopyFails, KillInCopy
  <2>3. CASE disk' = disk
    BY <2>1, <2>3, SameQuiet
  <2>4. ASSUME NEW k \in todo, SourceReadable(k), NEW n \in 1 .. frameSize(Copied(k)) - 1,
               disk' = [disk EXCEPT ![newID] = AppendPrefix(@, Copied(k), n)]
        PROVE  QuietFiles
    BY <2>1, <2>4, CopyQuiet
  <2> QED
    BY <2>2, <2>3, <2>4
<1>10. CASE MergeSync
  <2>1. /\ newID \in DOMAIN disk /\ IsFile(disk[newID]) /\ acked' = acked
        /\ disk' = [disk EXCEPT ![newID] = Sync(disk[newID])]
    BY <1>10 DEF MergeSync, TypeInv, Shape, DiskOK
  <2> QED
    BY <2>1, SyncSameWhole, EditQuiet
<1>11. CASE \/ MergeHint \/ MergeHintFails \/ MergePromote \/ ResetHint \/ ResetFails
            \/ \E id \in segments : RemoveFails(id)
            \/ \E k \in Key : MergeReadFails(k)
            \/ Close \/ Kill
  <2>1. UNCHANGED <<disk, acked>>
    BY <1>11 DEF MergeReadFails, MergeHint, MergeHintFails, MergePromote, ResetHint, ResetFails, RemoveFails,
       MergeAborts, Close, Kill, diskVars
  <2> QED
    BY <2>1, SameQuiet
<1>12. CASE ResetFresh \/ \E id \in segments : RemoveSegment(id)
  <2>1. acked' = acked /\ \A id \in DOMAIN disk : id \in DOMAIN disk' => disk'[id] = disk[id]
    BY <1>12 DEF ResetFresh, RemoveSegment, WithSegment, WithoutSegment
  <2> QED
    BY <2>1, SameQuiet
<1>13. ASSUME NEW e \in WriteEntries, NEW n \in 1 .. frameSize(e), KillInWrite(e, n)
       PROVE  QuietFiles \/ WriteFiles(e)
  BY <1>13, KillWrites
<1> QED
  BY <1>2, <1>3, <1>4, <1>5, <1>6, <1>7, <1>8, <1>9, <1>10, <1>11, <1>12, <1>13
  DEF Next, MergeStep, IOError, Crash

\* A file that a step creates is empty.
LEMMA NewFilesEmpty ==
  ASSUME TypeInv, [Next]_vars
  PROVE  \A id \in DOMAIN disk' \ DOMAIN disk : DOMAIN disk'[id].at = {}
<1>1. DOMAIN EmptyFile.at = {}
  BY DEF EmptyFile
<1>2. ASSUME NEW d, NEW id, disk' = WithSegment(d, id), DOMAIN d = DOMAIN disk
      PROVE  \A i \in DOMAIN disk' \ DOMAIN disk : DOMAIN disk'[i].at = {}
  BY <1>1, <1>2 DEF WithSegment
<1>3. CASE UNCHANGED vars
  BY <1>3 DEF vars, diskVars
<1>4. CASE Open
  <2>1. disk' = disk \/ disk' = WithSegment(disk, 1)
    BY <1>4 DEF Open, OpenEmpty, OpenHint, OpenScan, Opened
  <2> QED
    BY <1>2, <2>1
<1>5. ASSUME NEW e, NEW sync, Written(e, sync) \/ WrittenAndRotated(e, sync)
      PROVE  \A i \in DOMAIN disk' \ DOMAIN disk : DOMAIN disk'[i].at = {}
  <2>1. CASE Written(e, sync)
    BY <2>1 DEF Written
  <2>2. CASE WrittenAndRotated(e, sync)
    <3> DEFINE d == [disk EXCEPT ![activeID] = WrittenFile(e, sync)]
    <3>1. disk' = WithSegment(d, maxFileID + 1)
      BY <2>2 DEF WrittenAndRotated, WrittenFile
    <3>2. DOMAIN d = DOMAIN disk
      OBVIOUS
    <3> HIDE DEF d
    <3> QED
      BY <1>2, <3>1, <3>2
  <2> QED
    BY <1>5, <2>1, <2>2
<1>6. CASE \E k \in Key : Delete(k) \/ \E v \in Value : Put(k, v)
  BY <1>5, <1>6 DEF Delete, Put
<1>7. CASE MergeStart \/ ResetStart
  <2>1. DOMAIN SyncedActive = DOMAIN disk
    BY DEF SyncedActive
  <2> QED
    BY <1>2, <1>7, <2>1 DEF MergeStart, ResetStart
<1>8. CASE MergeStep
  BY <1>2, <1>8 DEF MergeStep, MergeCopy, MergeReadFails, MergeSync, MergeHint, MergePromote,
     ResetHint, ResetFresh, RemoveSegment, WithoutSegment, diskVars
<1>9. CASE IOError
  BY <1>5, <1>9 DEF IOError, AppendFails, SyncFails, RotateFails, MergeCopyFails, MergeHintFails,
     ResetFails, RemoveFails, diskVars
<1>10. CASE Close \/ Crash
  BY <1>10, PowerLossDisk DEF Close, Crash, Kill, KillInWrite, KillInCopy, diskVars
<1> QED
  BY <1>3, <1>4, <1>6, <1>7, <1>8, <1>9, <1>10 DEF Next

(***************************************************************************)
(* Two directories that such a step relates: the store's, or another one   *)
(* that shares files with it.                                              *)
(***************************************************************************)
LEMMA WriteAckedIn ==
  ASSUME TypeInv, NEW x \in WriteEntries, WriteFiles(x), NEW d, DiskOK(d), NEW e, DiskOK(e),
         activeID \in DOMAIN d, \A id \in DOMAIN d : id <= activeID, DOMAIN d \subseteq DOMAIN e,
         d[activeID].len = disk[activeID].len, d[activeID].at = disk[activeID].at,
         e[activeID].at = disk'[activeID].at, d[activeID].synced <= e[activeID].synced,
         Loose(e[activeID], disk[activeID].len) => Loose(disk'[activeID], disk[activeID].len),
         \A id \in DOMAIN d : id # activeID => e[id] = d[id],
         \A id \in DOMAIN e \ DOMAIN d : DOMAIN e[id].at = {}, AckedIn(d, acked)
  PROVE  AckedIn(e, acked')
<1>1. x \in Entry /\ ~x.torn /\ x.key \in Key /\ Found(x) = x.val
  BY WriteEntryTypes, WriteEntriesWhole DEF Entry, Found, WriteEntries, PutEntry, DelEntry
<1>2. e[activeID].at = Place(d[activeID].at, d[activeID].len, x) /\ x.val \in acked'[x.key]
  BY DEF WriteFiles
<1>3. OneMore(d, e, activeID, d[activeID].len, x)
  BY <1>1, <1>2, AppendOneMore
<1>4. CASE \A k \in Key : acked[k] \subseteq acked'[k]
  BY <1>1, <1>2, <1>3, <1>4, OneMoreAcked
<1>5. CASE /\ \A k \in Key : k # x.key => acked'[k] = acked[k]
           /\ ~Loose(disk'[activeID], disk[activeID].len)
  <2>1. activeID \in Nat /\ d[activeID].len \in Nat
    BY DEF DiskOK, FileID, IsFile
  <2>2. \A k, id, o : IsRecord(d, k, id, o) => id \in Nat /\ o \in Nat
    BY RecordTypes
  <2>3. ~Loose(e[activeID], d[activeID].len)
    BY <1>5
  <2> QED
    BY <1>1, <1>2, <1>3, <1>5, <2>1, <2>2, <2>3, LastRecordAcked
<1> QED
  BY <1>4, <1>5 DEF WriteFiles

(***************************************************************************)
(* As long as no fault came and there is no hint file, a scan of the       *)
(* store's directory finds what the client may find.                       *)
(***************************************************************************)
FoundScope == hint = "none" /\ faults = {} /\ pc # "reset"

FoundInv == FoundScope => AckedIn(disk, acked)

\* A step into that scope is a step in it, or the end of resetToEmpty.
LEMMA FoundBefore == ASSUME [Next]_vars, FoundScope' PROVE FoundScope \/ ResetHint
<1>1. faults = {} /\ faults' = {} /\ hint' = "none" /\ pc' # "reset"
  BY FaultsOnlyGrow DEF FoundScope
<1>2. CASE UNCHANGED vars
  BY <1>1, <1>2 DEF vars, diskVars, mergeVars, FoundScope
<1>3. CASE Open \/ Close \/ Crash
  BY <1>1, <1>3 DEF Open, OpenEmpty, OpenHint, OpenScan, Opened, Close, Crash, Kill, KillInWrite,
     KillInCopy, PowerLoss, CanAppend, Ready, CrashFault, mergeVars, diskVars, FoundScope
<1>4. CASE (\E k \in Key : Delete(k) \/ \E v \in Value : Put(k, v)) \/ MergeStart \/ ResetStart
  BY <1>1, <1>4 DEF Delete, Put, MergeStart, ResetStart, CanAppend, Ready, FoundScope
<1>5. CASE MergeStep
  BY <1>1, <1>5 DEF MergeStep, MergeCopy, MergeReadFails, MergeSync, MergeHint, MergePromote,
     ResetFresh, RemoveSegment, MergeAborts, mergeVars, diskVars, FoundScope
<1>6. CASE IOError
  BY <1>1, <1>6 DEF IOError, AppendFails, SyncFails, RotateFails, MergeCopyFails, MergeHintFails,
     ResetFails, RemoveFails, MergeAborts, CanAppend, Ready, Fault, diskVars, FoundScope
<1> QED
  BY <1>2, <1>3, <1>4, <1>5, <1>6 DEF Next

\* A scan finds what the client may find, which stays that.
LEMMA ScanAcks ==
  ASSUME TypeInv, OpenScan, AckedIn(disk, acked) PROVE disk' = disk /\ acked' = acked
<1>1. DiskOK(disk) /\ acked = [k \in Key |-> acked[k]]
  BY DEF TypeInv, TypeOK, Shape
<1>2. /\ disk' = disk
      /\ acked' = [k \in Key |->
                    LET found == Get(scanIndex(disk), DOMAIN disk, disk, k)
                    IN IF found \in acked[k] THEN acked[k] ELSE {found}]
  BY DEF OpenScan, Opened
<1>3. \A k \in Key : Get(scanIndex(disk), DOMAIN disk, disk, k) \in acked[k]
  BY <1>1, ScanFinds
<1>4. acked' = [k \in Key |-> acked[k]]
  BY <1>2, <1>3
<1> QED
  BY <1>1, <1>2, <1>4

\* Open scans, or starts with an empty segment.
LEMMA OpenFound ==
  ASSUME TypeInv, TypeInv', FoundScope, Open,
         AckedIn(disk, acked)
  PROVE  AckedIn(disk', acked')
<1>1. ~HintLoads(hint, hintIndex)
  BY DEF FoundScope, HintLoads
<1>2. CASE OpenEmpty
  <2>1. DOMAIN disk = {} /\ disk' = WithSegment(disk, 1) /\ index' = NewIndex
    BY <1>2 DEF OpenEmpty, Opened
  <2>2. \A id \in DOMAIN disk' : DOMAIN disk'[id].at = {}
    BY <2>1 DEF WithSegment, EmptyFile
  <2>3. \A k \in Key : NoValue \in acked'[k]
    <3>1. acked' = [k \in Key |->
                      LET found == Get(NewIndex, DOMAIN disk', disk', k)
                      IN IF found \in acked[k] THEN acked[k] ELSE {found}]
      BY <1>2 DEF OpenEmpty, Opened
    <3>2. \A k \in Key : Get(NewIndex, DOMAIN disk', disk', k) = NoValue
      BY NewIndexType DEF Get, LiveEntries
    <3> QED
      BY <3>1, <3>2
  <2> QED
    BY <2>2, <2>3, EmptyAcked
<1>3. CASE OpenScan
  BY <1>3, ScanAcks
<1> QED
  BY <1>1, <1>2, <1>3 DEF Open, OpenHint

\* A power loss takes what is not synced, and with it what was promised of it.
LEMMA LossAcked ==
  ASSUME PowerLoss, NEW d, DiskOK(d), NEW e, DiskOK(e), DOMAIN e = DOMAIN d,
         \A id \in DOMAIN d : e[id] = d[id] \/ e[id] \in AfterPowerLoss(d[id]), AckedIn(d, acked)
  PROVE  AckedIn(e, acked')
<1>1. acked' = IF SyncOnWrite THEN acked ELSE [k \in Key |-> Value \cup {NoValue}]
  BY DEF PowerLoss
<1>2. CASE SyncOnWrite
  BY <1>1, <1>2, CutAcked
<1>3. CASE ~SyncOnWrite
  BY <1>1, <1>3, AnyAcked
<1> QED
  BY <1>2, <1>3

\* Every step keeps FoundInv.
LEMMA NextFoundInv ==
  /\ TypeInv /\ TypeInv' /\ LocInv /\ ReadInv /\ DirInv /\ HintPCInv /\ AbsentInv
  /\ FoundInv /\ [Next]_vars
  => FoundInv'
<1> SUFFICES ASSUME TypeInv, TypeInv', LocInv, ReadInv, DirInv, HintPCInv, AbsentInv, FoundInv,
                    [Next]_vars, FoundScope'
             PROVE  AckedIn(disk', acked')
  BY DEF FoundInv
<1>1. faults = {} /\ faults' = {} /\ ~Damaged /\ DiskOK(disk) /\ DiskOK(disk')
  BY FaultsOnlyGrow DEF FoundScope, Damaged, TypeInv, Shape
<1>2. CASE ResetHint
  <2>1. pc = "reset" /\ segments = {} /\ UNCHANGED <<disk, acked>>
    BY <1>2 DEF ResetHint
  <2>2. DOMAIN disk' = {} /\ \A k \in Key : NoValue \in acked'[k]
    BY <1>1, <2>1 DEF DirInv, AbsentInv, AbsentIn
  <2> QED
    BY <2>2, EmptyAcked
<1>3. CASE FoundScope
  <2>1. AckedIn(disk, acked)
    BY <1>3 DEF FoundInv
  <2>2. CASE Open
    BY <1>3, <2>1, <2>2, OpenFound
  <2>3. CASE PowerLoss
    BY <1>1, <2>1, <2>3, PowerLossDisk, LossAcked
  <2>4. ASSUME NEW k \in Key, MergeCopy(k) PROVE AckedIn(disk', acked')
    <3>1. pc = "copy" /\ up /\ acked' = acked
      BY <2>4 DEF MergeCopy, TypeInv, Shape
    <3>2. GoodIndex
      BY <1>1, <3>1, ContentsIs
      DEF GoodIndex, LocInv, IndexInv, ReadInv, ReadsAcked, ContentsByPC
    <3>3. OneMore(disk, disk', newID, disk[newID].len, Copied(k)) /\ Found(Copied(k)) = Copied(k).val
      BY <1>1, <2>4, MergeCopyGrows
    <3>4. Copied(k).key = k /\ Copied(k).val \in acked[k]
      BY <2>4, <3>2, CopiedAcked
    <3> QED
      BY <2>1, <3>1, <3>3, <3>4, OneMoreAcked
  <2>5. ASSUME NEW x \in WriteEntries, WriteFiles(x) PROVE AckedIn(disk', acked')
    <3>1. /\ DOMAIN disk = segments /\ activeID \in segments
          /\ \A id \in segments : id <= activeID
      BY <1>1, <2>5 DEF WriteFiles, CanAppend, Ready, DirInv
    <3>2. /\ DOMAIN disk \subseteq DOMAIN disk' /\ disk[activeID].synced <= disk'[activeID].synced
          /\ \A id \in DOMAIN disk : id # activeID => disk'[id] = disk[id]
      BY <2>5 DEF WriteFiles
    <3> QED
      BY <1>1, <2>1, <2>5, <3>1, <3>2, NewFilesEmpty, WriteAckedIn
  <2>6. CASE QuietFiles
    <3>1. DOMAIN disk \subseteq DOMAIN disk'
      <4>1. ASSUME NEW id \in segments, RemoveSegment(id) PROVE FALSE
        BY <1>3, <4>1 DEF RemoveSegment, HintPCInv, FoundScope
      <4> QED
        BY <4>1, StepKeeps, PowerLossDisk DEF DiskKeeps
    <3>2. SameRecords(disk, disk')
      BY <1>1, <2>6, <3>1, NewFilesEmpty, SameWholeRecords DEF QuietFiles
    <3> QED
      BY <2>1, <2>6, <3>2, SameRecordsAcked DEF QuietFiles
  <2> QED
    BY <2>2, <2>3, <2>4, <2>5, <2>6, StepFiles
<1> QED
  BY <1>2, <1>3, FoundBefore

(***************************************************************************)
(* The store's invariants together.  Snapshot and Backup sync the active   *)
(* file and leave the rest of the store alone.                             *)
(***************************************************************************)
CorePack ==
  TypeInv /\ LocInv /\ ReadInv /\ DirInv /\ FreshInv /\ HintPCInv /\ AbsentInv

StorePack == CorePack /\ FoundInv

SyncStep ==
  /\ CanAppend /\ disk' = SyncedActive
  /\ UNCHANGED <<hint, hintIndex, up, memVars, mergeVars, acked, faults, writes, crashes>>
  /\ ioErrors' \in Nat

\* It holds initially.
LEMMA InitCorePack == Init => CorePack
<1>1. Init => HintPCInv
  BY DEF Init, HintPCInv
<1> QED
  BY <1>1, InitTypeInv, InitLocInv, InitReadInv, InitDirInv, InitScanInv DEF CorePack

LEMMA InitStorePack == Init => StorePack
<1> SUFFICES ASSUME Init PROVE AckedIn(disk, acked)
  BY InitCorePack DEF StorePack, FoundInv
<1>1. DOMAIN disk = {} /\ \A k \in Key : NoValue \in acked[k]
  BY DEF Init
<1> QED
  BY <1>1, EmptyAcked

\* Every step of the store keeps it.
LEMMA NextCorePack ==
  ASSUME CorePack, PowerLoss => DurInv, [Next]_vars PROVE CorePack'
<1>1. TypeInv' /\ LocInv' /\ DirInv' /\ FreshInv' /\ HintPCInv' /\ AbsentInv'
  BY NextTypeInv, NextLocInv, NextDirInv, NextHintPCInv, NextAbsentInv DEF CorePack
<1>2. ReadInv'
  BY <1>1, NextReadInv DEF CorePack
<1> QED
  BY <1>1, <1>2 DEF CorePack

LEMMA NextStorePack ==
  ASSUME StorePack, PowerLoss => DurInv, [Next]_vars PROVE StorePack'
<1>1. CorePack'
  BY NextCorePack DEF StorePack
<1>2. FoundInv'
  BY <1>1, NextFoundInv DEF StorePack, CorePack
<1> QED
  BY <1>1, <1>2 DEF StorePack

\* Syncing the active file keeps it, and what the hint file names durable.
LEMMA SyncCorePack ==
  ASSUME CorePack, SyncStep
  PROVE  /\ CorePack' /\ (DurInv => DurInv')
         /\ SameRecords(disk, disk') /\ DiskKeeps(disk, disk') /\ DOMAIN disk' = DOMAIN disk
         /\ DiskOK(disk) /\ DiskOK(disk')
<1>1. /\ TypeInv /\ up /\ pc = "idle" /\ activeID \in segments
      /\ DiskOK(disk) /\ DOMAIN disk = DOMAIN SyncedActive
      /\ segments \subseteq DOMAIN disk /\ IsIndex(hintIndex)
  BY SyncedActiveOK DEF CorePack, SyncStep, CanAppend, Ready, TypeInv, TypeOK, Shape
<1>2. /\ disk' = SyncedActive
      /\ UNCHANGED <<hint, hintIndex, up, index, segments, activeID, size, pc, newID, newIndex,
                     todo, acked, faults, writes, crashes>>
      /\ ioErrors' \in Nat
  BY DEF SyncStep, memVars, mergeVars
<1>3. /\ DiskOK(disk') /\ DiskKeeps(disk, disk') /\ DOMAIN disk' = DOMAIN disk
      /\ \A id \in DOMAIN disk : disk'[id].len = disk[id].len
  BY <1>1, <1>2, SyncedActiveOK
<1>4. TypeInv'
  BY <1>1, <1>2, <1>3, DiskOKTypes DEF TypeInv, TypeOK, Shape
<1>5. LocInv'
  <2>1. HintInv'
    BY <1>1, <1>2, <1>3, HintKept DEF CorePack, LocInv
  <2>2. SizeInv'
    BY <1>1, <1>2, <1>3 DEF CorePack, LocInv, SizeInv
  <2>3. IndexInv'
    BY <1>1, <1>2, <1>3, ResolvesKept DEF CorePack, LocInv, IndexInv, Damaged
  <2> QED
    BY <1>1, <1>2, <2>1, <2>2, <2>3 DEF LocInv, EmptyInv, NewInv, LiveTodo, RemoveInv
<1>6. ReadInv'
  <2>1. ASSUME ~Damaged, NEW k \in Key PROVE Contents'[k] \in acked'[k]
    <3>1. AllIn(index, segments) /\ AllResolve(disk, index) /\ Contents[k] \in acked[k]
      BY <1>1, <2>1 DEF CorePack, LocInv, IndexInv, ReadInv, ReadsAcked
    <3>2. Get(index, segments, disk', k) = Get(index, segments, disk, k)
      BY <1>3, <3>1, GetKept
    <3> QED
      BY <1>1, <1>2, <3>1, <3>2, ContentsIs DEF ContentsByPC
  <2> QED
    BY <1>1, <1>2, <2>1 DEF ReadInv, CopyInv, ReadsAcked, Damaged
<1>7. DirInv' /\ FreshInv' /\ HintPCInv' /\ AbsentInv'
  BY <1>1, <1>2, <1>3
  DEF CorePack, DirInv, FreshInv, HintPCInv, AbsentInv, AbsentIn
<1>8. SameRecords(disk, disk')
  <2>1. QuietFiles
    BY <1>1, <1>2, SyncQuiet
  <2> QED
    BY <1>1, <1>3, <2>1, SameWholeRecords DEF QuietFiles
<1>9. DurInv => DurInv'
  BY <1>1, <1>2, <1>3, DurableKept DEF DurInv, Damaged
<1> QED
  BY <1>1, <1>3, <1>4, <1>5, <1>6, <1>7, <1>8, <1>9 DEF CorePack

LEMMA SyncStorePack ==
  ASSUME StorePack, SyncStep PROVE StorePack' /\ (DurInv => DurInv')
<1>1. CorePack' /\ (DurInv => DurInv') /\ SameRecords(disk, disk')
  BY SyncCorePack DEF StorePack
<1>2. UNCHANGED <<hint, faults, pc, acked>>
  BY DEF SyncStep, mergeVars
<1>3. ASSUME FoundScope' PROVE AckedIn(disk', acked')
  <2>1. AckedIn(disk, acked)
    BY <1>2, <1>3 DEF StorePack, FoundInv, FoundScope
  <2> QED
    BY <1>1, <1>2, <2>1, SameRecordsAcked
<1> QED
  BY <1>1, <1>3 DEF StorePack, FoundInv

(***************************************************************************)
(* Snapshots.  A snapshot that is still of interest was taken before any   *)
(* fault, into an empty directory; its hint file, if any, is a copy.  Its  *)
(* links are files of the store, and open ones as long as nothing that was *)
(* to be removed stayed.                                                   *)
(***************************************************************************)
NoSnapshot ==
  taken = "no" =>
    /\ links = {} /\ DOMAIN copies = {}
    /\ hintLink = FALSE /\ hintCopy = "none" /\ IsIndex(hintCopyIndex)

LinkInv ==
  taken = "fresh" =>
    /\ links \subseteq DOMAIN disk /\ links \cap DOMAIN copies = {}
    /\ \A id \in DOMAIN copies : id \in FileID /\ id <= MaxFileID + 1 /\ IsFile(copies[id])
    /\ hintLink = FALSE /\ IsIndex(hintCopyIndex)
    /\ (up /\ ~Damaged) => links \subseteq segments

\* A directory with every file synced; and the snapshot with its copies taken
\* to be synced, from which no step of interest takes anything.
SyncedAll(d) == [id \in DOMAIN d |-> Sync(d[id])]

SpareDisk ==
  [id \in links \cup DOMAIN copies |-> IF id \in links THEN disk[id] ELSE Sync(copies[id])]

SnapBase == taken \notin {"again", "cut"} => StorePack /\ DurInv

Move == [Next]_vars /\ (StoreStep \/ UNCHANGED <<vars, snapVars>>)

\* How a snapshot is, or becomes, one of interest.
LEMMA SnapSteps ==
  ASSUME [SnapNext]_<<vars, snapVars>>
  PROVE  /\ taken' \notin {"again", "cut"} =>
              /\ taken \notin {"again", "cut"}
              /\ \/ Move
                 \/ \E linked \in Linkable : \E link \in BOOLEAN : Snapshot(linked, link)
         /\ taken' = "no" => taken = "no" /\ Move
         /\ taken' = "fresh" =>
              \/ taken = "fresh" /\ Move
              \/ /\ taken = "no" /\ faults = {} /\ ~hintLink'
                 /\ \E linked \in Linkable : \E link \in BOOLEAN : Snapshot(linked, link)
<1>1. CASE UNCHANGED <<vars, snapVars>>
  BY <1>1 DEF Move, snapVars
<1>2. CASE StoreStep
  BY <1>2 DEF Move, StoreStep
<1>3. ASSUME NEW linked \in Linkable, NEW link \in BOOLEAN, Snapshot(linked, link)
      PROVE  /\ taken' # "no" /\ (taken' \notin {"again", "cut"} => taken \notin {"again", "cut"})
             /\ taken' = "fresh" => taken = "no" /\ faults = {} /\ ~hintLink'
  BY <1>3 DEF Snapshot
<1>4. ASSUME NEW linked \in Linkable, SnapshotFails(linked) \/ KillInSnapshot(linked)
      PROVE  taken' = "again"
  BY <1>4 DEF SnapshotFails, KillInSnapshot, Partly
<1>5. CASE CopiesLost
  BY <1>5 DEF CopiesLost
<1> QED
  BY <1>1, <1>2, <1>3, <1>4, <1>5 DEF SnapNext

\* The first Snapshot copies no file onto itself: it is a step that syncs the
\* active file.
LEMMA SnapshotSyncs ==
  ASSUME TypeInv, NoSnapshot, NEW linked, NEW link, Snapshot(linked, link),
         taken' \notin {"again", "cut"}
  PROVE  SyncStep /\ taken = "no" /\ faults = {}
<1>1. taken = "no" /\ faults = {} /\ links = {}
  BY DEF Snapshot, NoSnapshot
<1>2. DOMAIN SyncedActive = DOMAIN disk /\ SyncedActive = [id \in DOMAIN disk |-> SyncedActive[id]]
  BY DEF SyncedActive
<1>3. disk' = [id \in DOMAIN disk |-> SyncedActive[id]]
  BY <1>1 DEF Snapshot, TakeSegments
<1> QED
  BY <1>1, <1>2, <1>3 DEF Snapshot, SyncStep, bounds, TypeInv, TypeOK

\* The store's invariants hold beside the snapshot.
LEMMA NextSnapBase ==
  ASSUME SnapBase, NoSnapshot, [SnapNext]_<<vars, snapVars>> PROVE SnapBase'
<1> SUFFICES ASSUME taken' \notin {"again", "cut"} PROVE StorePack' /\ DurInv'
  BY DEF SnapBase
<1>1. taken \notin {"again", "cut"} /\ StorePack /\ DurInv /\ TypeInv /\ LocInv
  BY SnapSteps DEF SnapBase, StorePack, CorePack
<1>2. CASE Move
  <2>1. [Next]_vars
    BY <1>2 DEF Move
  <2>2. StorePack'
    BY <1>1, <2>1, NextStorePack
  <2>3. TypeInv'
    BY <2>2 DEF StorePack, CorePack
  <2> QED
    BY <1>1, <2>1, <2>2, <2>3, NextDurInv
<1>3. ASSUME NEW linked \in Linkable, NEW link \in BOOLEAN, Snapshot(linked, link)
      PROVE  StorePack' /\ DurInv'
  BY <1>1, <1>3, SnapshotSyncs, SyncStorePack
<1> QED
  BY <1>2, <1>3, SnapSteps

\* A snapshot into an empty directory is a copy of the store's directory.
LEMMA SyncUnsynced ==
  ASSUME NEW f, IsFile(f)
  PROVE  IsFile(Unsynced(f)) /\ Sync(Unsynced(f)) = Sync(f) /\ Unsynced(f).at = f.at
<1>1. Unsynced(f) = [len |-> f.len, synced |-> 0, at |-> f.at]
  BY DEF Unsynced, IsFile
<1> QED
  BY <1>1 DEF IsFile, Sync

LEMMA SnapshotIsDisk ==
  ASSUME StorePack, NoSnapshot, taken = "no", faults = {}, NEW linked \in Linkable, NEW link,
         Snapshot(linked, link), taken' \notin {"again", "cut"}
  PROVE  /\ links' \cup DOMAIN copies' = DOMAIN disk' /\ links' \subseteq segments'
         /\ links' \subseteq DOMAIN disk' /\ links' \cap DOMAIN copies' = {}
         /\ \A id \in DOMAIN copies' : IsFile(copies'[id])
         /\ DOMAIN SpareDisk' = DOMAIN disk' /\ since' = {acked'}
         /\ \A id \in DOMAIN disk' : SpareDisk'[id] = disk'[id] \/ SpareDisk'[id] = Sync(disk'[id])
         /\ hintCopy' = "none" \/ (hintCopy' = hint' /\ hintCopyIndex' = hintIndex')
         /\ hintCopy' = "none" /\ hintLink' = FALSE => hint' = "none"
<1>1. /\ links = {} /\ DOMAIN copies = {} /\ hintCopy = "none" /\ hintLink = FALSE
      /\ TypeInv /\ CanAppend /\ activeID \in segments
  BY DEF NoSnapshot, StorePack, CorePack, Snapshot, CanAppend
<1>2. DOMAIN disk = segments
  BY <1>1 DEF StorePack, CorePack, DirInv, CanAppend, Ready
<1>3. DiskOK(SyncedActive) /\ DOMAIN SyncedActive = DOMAIN disk
  BY <1>1, SyncedActiveOK
<1>4. /\ disk' = SyncedActive /\ TakeSegments(Segments(segments), linked) /\ since' = {acked}
      /\ acked' = acked /\ TakeHint(link) /\ UNCHANGED <<hint, hintIndex, segments>>
  BY <1>1, SnapshotSyncs DEF Snapshot, SyncStep, memVars
<1>5. linked \subseteq segments
  BY DEF Linkable
<1>6. links' = linked /\ DOMAIN copies' = segments \ linked
  BY <1>1, <1>4, <1>5 DEF TakeSegments, Segments
<1>7. \A id \in segments \ linked : copies'[id] = Unsynced(SyncedActive[id])
  BY <1>1, <1>4, <1>6 DEF TakeSegments, Segments
<1>8. links' \cup DOMAIN copies' = segments
  BY <1>5, <1>6
<1>9. SpareDisk' = [id \in links' \cup DOMAIN copies' |->
                      IF id \in links' THEN disk'[id] ELSE Sync(copies'[id])]
  BY DEF SpareDisk
<1>10. ASSUME NEW id \in segments \ linked
       PROVE  IsFile(copies'[id]) /\ Sync(copies'[id]) = Sync(disk'[id])
  <2>1. IsFile(SyncedActive[id])
    BY <1>2, <1>3 DEF DiskOK
  <2> QED
    BY <1>4, <1>7, <2>1, SyncUnsynced
<1>11. \A id \in DOMAIN disk' : SpareDisk'[id] = disk'[id] \/ SpareDisk'[id] = Sync(disk'[id])
  BY <1>2, <1>3, <1>4, <1>6, <1>8, <1>9, <1>10
<1>12. /\ hintCopy' = "none" \/ (hintCopy' = hint' /\ hintCopyIndex' = hintIndex')
       /\ hintCopy' = "none" /\ hintLink' = FALSE => hint' = "none"
  BY <1>1, <1>4 DEF TakeHint
<1> QED
  BY <1>2, <1>3, <1>4, <1>5, <1>6, <1>8, <1>9, <1>10, <1>11, <1>12

\* The snapshot's files after a step of the store: those that are still
\* linked are the store's, and the others stay.
LEMMA SnapFiles ==
  ASSUME TypeInv, LinkInv, taken = "fresh", Move
  PROVE  /\ links' = links \cap DOMAIN disk' /\ taken' = "fresh"
         /\ DOMAIN SpareDisk' = DOMAIN SpareDisk /\ links' \cap DOMAIN copies' = {}
         /\ \A id \in DOMAIN SpareDisk :
              SpareDisk'[id] = IF id \in links' THEN disk'[id] ELSE Sync(SpareDisk[id])
         /\ \A id \in links : SpareDisk[id] = disk[id]
         /\ \A id \in DOMAIN SpareDisk \ links : Sync(SpareDisk[id]) = SpareDisk[id]
         /\ \A id \in DOMAIN copies' : id \in DOMAIN SnapDisk /\ copies'[id] = SnapDisk[id]
         /\ UNCHANGED <<hintLink, hintCopy, hintCopyIndex>>
         /\ since \subseteq since' /\ (acked \in since => acked' \in since')
<1>1. links \subseteq DOMAIN disk /\ links \cap DOMAIN copies = {} /\ hintLink = FALSE
  BY DEF LinkInv
<1>2. SpareDisk = [id \in links \cup DOMAIN copies |->
                     IF id \in links THEN disk[id] ELSE Sync(copies[id])]
  BY DEF SpareDisk
<1>3. SpareDisk' = [id \in links' \cup DOMAIN copies' |->
                     IF id \in links' THEN disk'[id] ELSE Sync(copies'[id])]
  BY DEF SpareDisk
<1>6. SnapDisk = [id \in links \cup DOMAIN copies |-> IF id \in links THEN disk[id] ELSE copies[id]]
  BY DEF SnapDisk
<1>7. \A f : Sync(Sync(f)) = Sync(f)
  BY DEF Sync
<1>4. CASE UNCHANGED <<vars, snapVars>>
  <2>1. UNCHANGED <<disk, acked, links, copies, hintLink, hintCopy, hintCopyIndex, taken, since>>
    BY <1>4 DEF vars, diskVars, snapVars
  <2> QED
    BY <1>1, <1>2, <1>3, <1>6, <1>7, <2>1
<1>5. CASE StoreStep
  <2>1. /\ links' = links \ Unlinked
        /\ copies' = [id \in DOMAIN copies \cup Unlinked |->
                        IF id \in Unlinked THEN disk[id] ELSE copies[id]]
        /\ UNCHANGED <<hintLink, hintCopy, hintCopyIndex, taken>> /\ since' = since \cup {acked'}
    BY <1>1, <1>5 DEF StoreStep
  <2>2. Unlinked = links \ DOMAIN disk'
    BY DEF Unlinked
  <2>3. /\ links' = links \cap DOMAIN disk' /\ DOMAIN copies' = DOMAIN copies \cup Unlinked
        /\ links' \cup DOMAIN copies' = links \cup DOMAIN copies
    BY <2>1, <2>2
  <2>4. \A id \in DOMAIN copies' : copies'[id] = IF id \in links THEN disk[id] ELSE copies[id]
    BY <1>1, <2>1, <2>2
  <2> QED
    BY <1>1, <1>2, <1>3, <1>6, <1>7, <2>1, <2>2, <2>3, <2>4
<1> QED
  BY <1>4, <1>5 DEF Move

\* The snapshot is a directory.
LEMMA SnapDiskOK ==
  ASSUME TypeInv, LinkInv, taken = "fresh"
  PROVE  DiskOK(SnapDisk) /\ DiskOK(SpareDisk) /\ SyncedAll(SpareDisk) = SyncedAll(SnapDisk)
<1>1. /\ links \subseteq DOMAIN disk /\ DiskOK(disk)
      /\ \A id \in DOMAIN copies : id \in FileID /\ id <= MaxFileID + 1 /\ IsFile(copies[id])
  BY DEF LinkInv, TypeInv, Shape
<1>2. DiskOK(SnapDisk)
  BY <1>1 DEF SnapDisk, DiskOK
<1>3. \A id \in DOMAIN copies : IsFile(Sync(copies[id]))
  BY <1>1, SyncKeeps
<1>4. DiskOK(SpareDisk)
  BY <1>1, <1>3 DEF SpareDisk, DiskOK
<1>5. \A f : Sync(Sync(f)) = Sync(f)
  BY DEF Sync
<1>6. /\ DOMAIN SpareDisk = DOMAIN SnapDisk
      /\ \A id \in DOMAIN SnapDisk : Sync(SpareDisk[id]) = Sync(SnapDisk[id])
  BY <1>5 DEF SpareDisk, SnapDisk
<1>7. SyncedAll(SpareDisk) = SyncedAll(SnapDisk)
  BY <1>6 DEF SyncedAll
<1> QED
  BY <1>2, <1>4, <1>7

LEMMA NextSpareOK == ASSUME TypeInv', LinkInv', taken' = "fresh" PROVE DiskOK(SpareDisk')
<1>1. (TypeInv /\ LinkInv /\ taken = "fresh" => DiskOK(SpareDisk))'
  BY SnapDiskOK, PTL
<1> QED
  BY <1>1

\* Only Open, a rotation or the end of Merge changes the active segment, and
\* none of them to one that was open.
LEMMA ActiveMoves ==
  ASSUME TypeInv, FreshInv, [Next]_vars, up, up'
  PROVE  activeID' = activeID \/ activeID' \notin segments
<1>1. CASE UNCHANGED vars
  BY <1>1 DEF vars, memVars
<1>2. CASE Open \/ Close \/ Crash
  BY <1>2 DEF Open, OpenEmpty, OpenHint, OpenScan, Close, Crash, Kill, KillInWrite, KillInCopy,
     PowerLoss, Down
<1>3. ASSUME NEW e, NEW sync, activeID \in segments, Written(e, sync) \/ WrittenAndRotated(e, sync)
      PROVE  activeID' = activeID \/ activeID' \notin segments
  <2>1. /\ maxFileID \in segments /\ \A i \in segments : i <= maxFileID
        /\ segments \subseteq Nat
    BY <1>3, MaxFileIDIs DEF TypeInv, TypeOK, FileID
  <2>2. maxFileID + 1 \notin segments
    BY <2>1
  <2> QED
    BY <1>3, <2>2 DEF Written, WrittenAndRotated
<1>4. CASE (\E k \in Key : Delete(k) \/ \E v \in Value : Put(k, v)) \/ MergeStart \/ ResetStart
  BY <1>3, <1>4 DEF Delete, Put, MergeStart, ResetStart, CanAppend, memVars
<1>5. CASE MergeStep
  BY <1>5 DEF MergeStep, MergeCopy, MergeReadFails, MergeSync, MergeHint, MergePromote,
     ResetHint, ResetFresh, RemoveSegment, MergeAborts, memVars, FreshInv
<1>6. CASE IOError
  BY <1>3, <1>6 DEF IOError, AppendFails, SyncFails, RotateFails, MergeCopyFails, MergeHintFails,
     ResetFails, RemoveFails, MergeAborts, CanAppend, memVars
<1> QED
  BY <1>1, <1>2, <1>4, <1>5, <1>6 DEF Next

\* A segment that is open stays so while the store is up, or its file is
\* removed, or it could not be.
LEMMA SegmentsStay ==
  ASSUME TypeInv, [Next]_vars, up, up', FreshInv, NEW id \in segments
  PROVE  id \in segments' \/ id \notin DOMAIN disk' \/ Damaged'
<1>1. CASE UNCHANGED vars
  BY <1>1 DEF vars, memVars
<1>2. CASE Open \/ Close \/ Crash
  BY <1>2 DEF Open, OpenEmpty, OpenHint, OpenScan, Close, Crash, Kill, KillInWrite, KillInCopy,
     PowerLoss, Down
<1>3. CASE (\E k \in Key : Delete(k) \/ \E v \in Value : Put(k, v)) \/ MergeStart \/ ResetStart
  BY <1>3 DEF Delete, Put, MergeStart, ResetStart, Written, WrittenAndRotated, memVars
<1>4. CASE MergeStep
  BY <1>4 DEF MergeStep, MergeCopy, MergeReadFails, MergeSync, MergeHint, MergePromote,
     ResetHint, ResetFresh, RemoveSegment, WithoutSegment, memVars, FreshInv
<1>5. ASSUME NEW i \in segments, RemoveFails(i) PROVE Damaged'
  BY <1>5 DEF RemoveFails, MergeAborts, Damaged
<1>6. CASE IOError
  BY <1>5, <1>6 DEF IOError, AppendFails, SyncFails, RotateFails, MergeCopyFails, MergeHintFails,
     ResetFails, Written, memVars
<1> QED
  BY <1>1, <1>2, <1>3, <1>4, <1>6 DEF Next

\* Every step keeps LinkInv.
LEMMA NextLinkInv ==
  ASSUME SnapBase, NoSnapshot, LinkInv, SnapBase', [SnapNext]_<<vars, snapVars>>
  PROVE  LinkInv' /\ NoSnapshot'
<1>1. NoSnapshot'
  <2> SUFFICES ASSUME taken' = "no"
               PROVE  /\ links' = {} /\ DOMAIN copies' = {}
                      /\ hintLink' = FALSE /\ hintCopy' = "none" /\ IsIndex(hintCopyIndex')
    BY DEF NoSnapshot
  <2>1. /\ links = {} /\ DOMAIN copies = {} /\ hintLink = FALSE /\ hintCopy = "none" /\ Move
        /\ IsIndex(hintCopyIndex)
    BY SnapSteps DEF NoSnapshot
  <2>2. CASE UNCHANGED <<vars, snapVars>>
    BY <2>1, <2>2 DEF snapVars
  <2>3. CASE StoreStep
    <3>1. Unlinked = {}
      BY <2>1 DEF Unlinked
    <3> QED
      BY <2>1, <2>3, <3>1 DEF StoreStep
  <2> QED
    BY <2>1, <2>2, <2>3 DEF Move
<1>2. ASSUME taken' = "fresh" PROVE LinkInv'
  <2>1. StorePack /\ TypeInv /\ TypeInv' /\ FreshInv /\ DiskOK(disk') /\ IsIndex(hintIndex')
    BY <1>2, SnapSteps DEF SnapBase, StorePack, CorePack, TypeInv, TypeOK, Shape
  <2>2. CASE taken = "fresh" /\ Move
    <3>1. /\ links' = links \cap DOMAIN disk' /\ links' \cap DOMAIN copies' = {}
          /\ \A id \in DOMAIN copies' : id \in DOMAIN SnapDisk /\ copies'[id] = SnapDisk[id]
          /\ UNCHANGED <<hintLink, hintCopy, hintCopyIndex>>
      BY <2>1, <2>2, SnapFiles
    <3>2. DiskOK(SnapDisk)
      BY <2>1, <2>2, SnapDiskOK
    <3>3. ASSUME up', ~Damaged' PROVE links' \subseteq segments'
      <4>1. [Next]_vars /\ ~Damaged
        BY <2>2, <3>3, FaultsOnlyGrow, FaultsGrow DEF Move
      <4>2. CASE up
        <5>1. links \subseteq segments
          BY <2>2, <4>1, <4>2 DEF LinkInv
        <5> QED
          BY <2>1, <3>1, <3>3, <4>1, <4>2, <5>1, SegmentsStay
      <4>3. CASE ~up
        <5>1. Open
          BY <2>1, <3>3, <4>1, <4>3, OnlyOpenOpens
        <5>2. segments' = DOMAIN disk'
          BY <5>1 DEF Open, OpenEmpty, OpenHint, OpenScan, Opened
        <5> QED
          BY <3>1, <5>2
      <4> QED
        BY <4>2, <4>3
    <3>4. links' \subseteq DOMAIN disk' /\ hintLink' = FALSE /\ IsIndex(hintCopyIndex')
      BY <2>2, <3>1 DEF LinkInv
    <3>5. \A id \in DOMAIN copies' : id \in FileID /\ id <= MaxFileID + 1 /\ IsFile(copies'[id])
      BY <3>1, <3>2 DEF DiskOK
    <3> QED
      BY <3>1, <3>3, <3>4, <3>5 DEF LinkInv
  <2>3. ASSUME taken = "no", faults = {}, ~hintLink', NEW linked \in Linkable, NEW link \in BOOLEAN,
               Snapshot(linked, link)
        PROVE  LinkInv'
    <3>1. /\ links' \cup DOMAIN copies' = DOMAIN disk' /\ links' \subseteq segments'
          /\ links' \subseteq DOMAIN disk' /\ links' \cap DOMAIN copies' = {}
          /\ \A id \in DOMAIN copies' : IsFile(copies'[id])
      BY <1>2, <2>1, <2>3, SnapshotIsDisk
    <3>2. IsIndex(hintCopyIndex') /\ hintLink' = FALSE
      <4>1. IsIndex(hintIndex) /\ IsIndex(hintCopyIndex) /\ hintLink = FALSE
        BY <2>1, <2>3 DEF NoSnapshot, TypeInv, TypeOK
      <4>2. TakeHint(link)
        BY <2>3 DEF Snapshot
      <4> QED
        BY <2>3, <4>1, <4>2 DEF TakeHint
    <3> QED
      BY <2>1, <3>1, <3>2 DEF LinkInv, DiskOK
  <2> QED
    BY <1>2, <2>2, <2>3, SnapSteps
<1> QED
  BY <1>1, <1>2 DEF LinkInv

(***************************************************************************)
(* The copied hint file.  What it names was durable when it was copied,    *)
(* and so it stays: the files of a snapshot are only appended to, and a    *)
(* power loss takes from them what was not synced.                         *)
(***************************************************************************)
SnapHintInv ==
  (taken = "fresh" /\ hintCopy = "whole") => AllDurable(SpareDisk, hintCopyIndex)

\* A directory some of whose files grew and some lost what was not synced.
LEMMA DurableEither ==
  ASSUME NEW d, DiskOK(d), NEW e, DiskOK(e), DOMAIN e = DOMAIN d,
         \A id \in DOMAIN d : Keeps(d[id], e[id]) \/ e[id] \in AfterPowerLoss(d[id]),
         NEW m, IsIndex(m), AllDurable(d, m)
  PROVE  AllDurable(e, m)
<1> SUFFICES ASSUME NEW k \in LiveEntries(m) PROVE DurablyResolves(e, k, m[k])
  BY DEF AllDurable
<1> DEFINE id == m[k].file
           f == d[id]
           g == e[id]
           o == m[k].off
<1>1. /\ Resolves(d, k, m[k]) /\ o + frameSize(f.at[o]) <= f.synced
      /\ id \in DOMAIN d /\ o \in DOMAIN f.at
  BY DEF AllDurable, DurablyResolves, ReadAt, Resolves, CanReadAt
<1>2. IsFile(f) /\ IsFile(g) /\ (Keeps(f, g) \/ g \in AfterPowerLoss(f))
  BY <1>1 DEF DiskOK
<1> HIDE DEF f, g, o, id
<1>3. o \in DOMAIN g.at /\ g.at[o] = f.at[o] /\ f.synced <= g.synced
  BY <1>1, <1>2, PowerLossKeepsSynced DEF Keeps
<1>4. f.synced \in Nat /\ g.synced \in Nat /\ o \in Nat /\ f.at[o] \in Entry
  BY <1>1, <1>2 DEF IsFile
<1>5. frameSize(f.at[o]) \in Nat
  BY <1>4, EntryTypes
<1>6. o + frameSize(g.at[o]) <= g.synced
  BY <1>1, <1>3, <1>4, <1>5
<1>7. Resolves(e, k, m[k])
  BY <1>1, <1>3 DEF Resolves, CanReadAt, ReadAt, f, g, o, id
<1> QED
  BY <1>6, <1>7 DEF DurablyResolves, ReadAt, g, o, id

\* A file that stays grows, or is cut by a power loss.
LEMMA StepFile ==
  ASSUME TypeInv, [Next]_vars, NEW id \in DOMAIN disk, id \in DOMAIN disk'
  PROVE  Keeps(disk[id], disk'[id]) \/ (PowerLoss /\ disk'[id] \in AfterPowerLoss(disk[id]))
<1>1. CASE DiskKeeps(disk, disk')
  BY <1>1 DEF DiskKeeps
<1>2. CASE PowerLoss
  BY <1>2, PowerLossDisk
<1>3. ASSUME NEW i \in segments, RemoveSegment(i) PROVE Keeps(disk[id], disk'[id])
  <2>1. disk' = WithoutSegment(disk, i)
    BY <1>3 DEF RemoveSegment
  <2>2. disk'[id] = disk[id] /\ IsFile(disk[id])
    BY <2>1 DEF WithoutSegment, TypeInv, Shape, DiskOK
  <2> QED
    BY <2>2, KeepsReflexive
<1> QED
  BY <1>1, <1>2, <1>3, StepKeeps

\* Every step keeps SnapHintInv.
LEMMA NextSnapHintInv ==
  ASSUME SnapBase, NoSnapshot, LinkInv, SnapHintInv, SnapBase', LinkInv',
         [SnapNext]_<<vars, snapVars>>
  PROVE  SnapHintInv'
<1> SUFFICES ASSUME taken' = "fresh", hintCopy' = "whole"
             PROVE  AllDurable(SpareDisk', hintCopyIndex')
  BY DEF SnapHintInv
<1>1. StorePack /\ DurInv' /\ TypeInv /\ TypeInv'
  BY SnapSteps DEF SnapBase, StorePack, CorePack
<1>2. CASE taken = "fresh" /\ Move
  <2>1. /\ DOMAIN SpareDisk' = DOMAIN SpareDisk /\ links' = links \cap DOMAIN disk'
        /\ \A id \in DOMAIN SpareDisk :
             SpareDisk'[id] = IF id \in links' THEN disk'[id] ELSE Sync(SpareDisk[id])
        /\ \A id \in links : SpareDisk[id] = disk[id]
        /\ UNCHANGED <<hintCopy, hintCopyIndex>>
    BY <1>1, <1>2, SnapFiles
  <2>2. DiskOK(SpareDisk) /\ DiskOK(SpareDisk)'
    <3>1. DiskOK(SpareDisk)
      BY <1>1, <1>2, SnapDiskOK
    <3>2. (TypeInv /\ LinkInv /\ taken = "fresh" => DiskOK(SpareDisk))'
      BY SnapDiskOK, PTL
    <3> QED
      BY <1>1, <3>1, <3>2
  <2>3. AllDurable(SpareDisk, hintCopyIndex) /\ IsIndex(hintCopyIndex) /\ links \subseteq DOMAIN disk
    BY <1>2, <2>1 DEF SnapHintInv, LinkInv
  <2>4. \A id \in DOMAIN SpareDisk :
          Keeps(SpareDisk[id], SpareDisk'[id]) \/ SpareDisk'[id] \in AfterPowerLoss(SpareDisk[id])
    <3> SUFFICES ASSUME NEW id \in DOMAIN SpareDisk
                 PROVE  Keeps(SpareDisk[id], SpareDisk'[id])
                          \/ SpareDisk'[id] \in AfterPowerLoss(SpareDisk[id])
      OBVIOUS
    <3>1. CASE id \in links'
      <4>1. id \in DOMAIN disk /\ id \in DOMAIN disk'
        BY <2>1, <2>3, <3>1
      <4>2. SpareDisk[id] = disk[id] /\ SpareDisk'[id] = disk'[id]
        BY <2>1, <3>1
      <4> QED
        BY <1>1, <1>2, <4>1, <4>2, StepFile DEF Move
    <3>2. CASE id \notin links'
      <4>1. SpareDisk'[id] = Sync(SpareDisk[id]) /\ IsFile(SpareDisk[id])
        BY <2>1, <2>2, <3>2 DEF DiskOK
      <4> QED
        BY <4>1, SyncKeeps
    <3> QED
      BY <3>1, <3>2
  <2> QED
    BY <2>1, <2>2, <2>3, <2>4, DurableEither
<1>3. ASSUME taken = "no", faults = {}, ~hintLink', NEW linked \in Linkable, NEW link \in BOOLEAN,
             Snapshot(linked, link)
      PROVE  AllDurable(SpareDisk', hintCopyIndex')
  <2>1. /\ hint' = "whole" /\ hintCopyIndex' = hintIndex'
    BY <1>1, <1>3, SnapshotIsDisk
  <2>2. faults' = {} /\ pc' = "idle"
    BY <1>3 DEF Snapshot, CanAppend, Ready, mergeVars
  <2>3. /\ DOMAIN SpareDisk' = DOMAIN disk' /\ DiskOK(disk') /\ DiskOK(SpareDisk')
        /\ \A id \in DOMAIN disk' : SpareDisk'[id] = disk'[id] \/ SpareDisk'[id] = Sync(disk'[id])
    BY <1>1, <1>3, SnapshotIsDisk, NextSpareOK DEF TypeInv, Shape
  <2>4. \A id \in DOMAIN disk' : Keeps(disk'[id], SpareDisk'[id])
    BY <2>3, SyncKeeps, KeepsReflexive DEF DiskOK
  <2>5. AllDurable(disk', hintIndex') /\ IsIndex(hintIndex')
    BY <1>1, <2>1, <2>2 DEF DurInv, Damaged, TypeInv, TypeOK
  <2> QED
    BY <2>1, <2>3, <2>4, <2>5, DurableEither
<1> QED
  BY <1>2, <1>3, SnapSteps

\* Initially there is no snapshot.
LEMMA InitSnap == SnapInit => SnapBase /\ NoSnapshot /\ LinkInv /\ SnapHintInv
<1> SUFFICES ASSUME SnapInit PROVE SnapBase /\ NoSnapshot /\ LinkInv /\ SnapHintInv
  OBVIOUS
<1>1. Init /\ taken = "no" /\ hintCopyIndex = NewIndex
  BY DEF SnapInit
<1>2. StorePack /\ DurInv
  BY <1>1, InitStorePack, InitResInv DEF ResInv
<1>3. NoSnapshot
  BY <1>1, NewIndexType DEF SnapInit, NoSnapshot
<1> QED
  BY <1>1, <1>2, <1>3 DEF SnapBase, LinkInv, SnapHintInv

(***************************************************************************)
(* A hint file that was copied into a snapshot names only records that the *)
(* snapshot has, whatever the store does later: writes, merges, removals,  *)
(* failures, crashes and power losses.                                     *)
(***************************************************************************)
THEOREM SnapshotHintAlwaysResolves == SnapSpec => []SnapshotHintResolves
<1>1. LinkInv /\ SnapHintInv => SnapshotHintResolves
  <2> SUFFICES ASSUME LinkInv, SnapHintInv, taken = "fresh", SnapHint = "whole"
               PROVE  \A k \in LiveEntries(SnapHintIndex) : Resolves(SnapDisk, k, SnapHintIndex[k])
    BY DEF SnapshotHintResolves
  <2>1. hintCopy = "whole" /\ SnapHintIndex = hintCopyIndex
    BY DEF LinkInv, SnapHint, SnapHintIndex
  <2>2. AllResolve(SpareDisk, hintCopyIndex)
    BY <2>1, DurableResolves DEF SnapHintInv
  <2>3. /\ DOMAIN SpareDisk = DOMAIN SnapDisk
        /\ \A id \in DOMAIN SnapDisk : SpareDisk[id].at = SnapDisk[id].at
    BY DEF SpareDisk, SnapDisk, Sync
  <2> QED
    BY <2>1, <2>2, <2>3 DEF AllResolve, Resolves, CanReadAt, ReadAt
<1>2. SnapBase /\ NoSnapshot /\ LinkInv /\ SnapHintInv /\ [SnapNext]_<<vars, snapVars>>
        => (SnapBase /\ NoSnapshot /\ LinkInv /\ SnapHintInv)'
  BY NextSnapBase, NextLinkInv, NextSnapHintInv
<1> QED
  BY InitSnap, <1>1, <1>2, PTL DEF SnapSpec

(***************************************************************************)
(* The moment a snapshot shows.  Its files hold what was promised at some  *)
(* time since it was taken.  As long as the segment that takes the writes  *)
(* is one of its links, that time is now (LiveMoment); and so that this    *)
(* still holds when the store is opened again, as long as the store's      *)
(* newest file is a link (TopMoment): then no Merge was under way and no   *)
(* hint file was written, so Open scans.                                   *)
(***************************************************************************)
MomentScope == taken = "fresh" /\ hintCopy = "none" /\ ~Damaged

Newest(t) == \A i \in DOMAIN disk : i <= t

TopLinked == pc # "reset" /\ \E t \in links : Newest(t)

LiveMoment ==
  (up /\ activeID \in links) =>
    AckedIn(SpareDisk, acked) /\ \A id \in DOMAIN SpareDisk : id <= activeID

TopMoment ==
  TopLinked =>
    /\ hint = "none" /\ faults = {} /\ AckedIn(SpareDisk, acked)
    /\ \A t \in links : Newest(t) => \A id \in DOMAIN SpareDisk : id <= t

MomentInv ==
  MomentScope =>
    /\ acked \in since /\ \E then \in since : AckedIn(SpareDisk, then)
    /\ LiveMoment /\ TopMoment

\* What a step of the store does to the records of the snapshot.
SnapGrows == SameRecords(SpareDisk, SpareDisk') /\ \A k \in Key : acked[k] \subseteq acked'[k]

SnapSame ==
  /\ SameRecords(SpareDisk, SpareDisk')
  /\ Open \/ (activeID \notin links /\ \E x \in WriteEntries : WriteFiles(x))

SnapWrites == activeID \in links /\ \E x \in WriteEntries : WriteFiles(x)

SnapCut ==
  /\ PowerLoss
  /\ \A id \in DOMAIN SpareDisk :
       SpareDisk'[id] = SpareDisk[id] \/ SpareDisk'[id] \in AfterPowerLoss(SpareDisk[id])

\* There is nothing else.
LEMMA SnapKinds ==
  ASSUME TypeInv, TypeInv', LinkInv, LinkInv', taken = "fresh", Move, ~Damaged
  PROVE  SnapGrows \/ SnapSame \/ SnapWrites \/ SnapCut
<1>11. \A id \in DOMAIN SpareDisk \ links : Sync(SpareDisk[id]) = SpareDisk[id]
  BY SnapFiles
<1>1. /\ DOMAIN SpareDisk' = DOMAIN SpareDisk /\ links' = links \cap DOMAIN disk'
      /\ taken' = "fresh" /\ [Next]_vars
      /\ \A id \in DOMAIN SpareDisk :
           SpareDisk'[id] = IF id \in links' THEN disk'[id] ELSE Sync(SpareDisk[id])
      /\ \A id \in links : SpareDisk[id] = disk[id]
  BY SnapFiles DEF Move
<1>2. DiskOK(SpareDisk) /\ DiskOK(SpareDisk)'
  <2>1. (TypeInv /\ LinkInv /\ taken = "fresh" => DiskOK(SpareDisk))'
    BY SnapDiskOK, PTL
  <2> QED
    BY <1>1, <2>1, SnapDiskOK
<1>3. links \subseteq DOMAIN disk /\ (up => links \subseteq segments)
  BY DEF LinkInv
<1>4. ASSUME \A id \in links' : SameWhole(disk[id], disk'[id])
      PROVE  SameRecords(SpareDisk, SpareDisk')
  <2>1. \A id \in DOMAIN SpareDisk : SameWhole(SpareDisk[id], SpareDisk'[id])
    BY <1>1, <1>2, <1>4, SyncSameWhole DEF DiskOK
  <2> QED
    BY <1>1, <1>2, <2>1, SameWholeRecords
<1>5. ASSUME \A id \in links' : disk'[id] = disk[id]
      PROVE  SameRecords(SpareDisk, SpareDisk')
  <2>1. \A id \in links' : SameWhole(disk[id], disk'[id])
    BY <1>1, <1>3, <1>5, SameWholeReflexive DEF TypeInv, Shape, DiskOK
  <2> QED
    BY <1>4, <2>1
<1>6. CASE QuietFiles
  <2>1. \A id \in links' : SameWhole(disk[id], disk'[id])
    BY <1>1, <1>3, <1>6 DEF QuietFiles
  <2> QED
    BY <1>4, <1>6, <2>1 DEF QuietFiles, SnapGrows
<1>7. ASSUME NEW x \in WriteEntries, WriteFiles(x) PROVE SnapSame \/ SnapWrites
  <2>1. \A id \in DOMAIN disk : id # activeID => disk'[id] = disk[id]
    BY <1>7 DEF WriteFiles
  <2>2. ASSUME activeID \notin links PROVE \A id \in links' : disk'[id] = disk[id]
    BY <1>1, <1>3, <2>1, <2>2
  <2> QED
    BY <1>5, <1>7, <2>2 DEF SnapSame, SnapWrites
<1>8. ASSUME NEW k \in Key, MergeCopy(k) PROVE SnapGrows
  <2>1. /\ up /\ acked' = acked /\ \A id \in segments : id < newID
        /\ disk' = [disk EXCEPT ![newID] = Append(disk[newID], Copied(k))]
        /\ segments \subseteq Nat /\ newID \in Nat
    BY <1>8 DEF MergeCopy, TypeInv, TypeOK, Shape, FileID
  <2>2. newID \notin links
    BY <1>3, <2>1
  <2>3. \A id \in links' : disk'[id] = disk[id]
    BY <1>1, <1>3, <2>1, <2>2
  <2> QED
    BY <1>5, <2>1, <2>3 DEF SnapGrows
<1>9. CASE Open
  <2>1. disk' = disk \/ disk' = WithSegment(disk, 1)
    BY <1>9 DEF Open, OpenEmpty, OpenHint, OpenScan, Opened
  <2>2. \A id \in DOMAIN disk : disk'[id] = disk[id]
    BY <2>1 DEF WithSegment
  <2> QED
    BY <1>1, <1>3, <1>5, <1>9, <2>2 DEF SnapSame
<1>10. CASE PowerLoss
  <2>1. DOMAIN disk' = DOMAIN disk /\ \A id \in DOMAIN disk : disk'[id] \in AfterPowerLoss(disk[id])
    BY <1>10, PowerLossDisk
  <2>2. links' = links
    BY <1>1, <1>3, <2>1
  <2> QED
    BY <1>1, <1>3, <1>10, <1>11, <2>1, <2>2 DEF SnapCut
<1> QED
  BY <1>1, <1>6, <1>7, <1>8, <1>9, <1>10, StepFiles

\* A write into a link shows in the snapshot, and is its last record.
LEMMA SnapWriteAcked ==
  ASSUME TypeInv, TypeInv', LinkInv, LinkInv', taken = "fresh", Move, SnapWrites,
         AckedIn(SpareDisk, acked), \A id \in DOMAIN SpareDisk : id <= activeID
  PROVE  AckedIn(SpareDisk', acked')
<1>1. /\ DOMAIN SpareDisk' = DOMAIN SpareDisk /\ links' = links \cap DOMAIN disk'
      /\ taken' = "fresh"
      /\ \A id \in DOMAIN SpareDisk :
           SpareDisk'[id] = IF id \in links' THEN disk'[id] ELSE Sync(SpareDisk[id])
      /\ \A id \in links : SpareDisk[id] = disk[id]
      /\ \A id \in DOMAIN SpareDisk \ links : Sync(SpareDisk[id]) = SpareDisk[id]
  BY SnapFiles
<1>2. DiskOK(SpareDisk) /\ DiskOK(SpareDisk)'
  <2>1. (TypeInv /\ LinkInv /\ taken = "fresh" => DiskOK(SpareDisk))'
    BY SnapDiskOK, PTL
  <2> QED
    BY <1>1, <2>1, SnapDiskOK
<1>3. PICK x \in WriteEntries : WriteFiles(x)
  BY DEF SnapWrites
<1>4. links \subseteq DOMAIN disk /\ activeID \in links /\ activeID \in DOMAIN SpareDisk
  BY DEF LinkInv, SnapWrites, SpareDisk
<1>5. /\ DOMAIN disk \subseteq DOMAIN disk'
      /\ disk[activeID].synced <= disk'[activeID].synced
      /\ \A id \in DOMAIN disk : id # activeID => disk'[id] = disk[id]
  BY <1>3 DEF WriteFiles
<1>6. /\ SpareDisk[activeID] = disk[activeID] /\ SpareDisk'[activeID] = disk'[activeID]
      /\ \A id \in DOMAIN SpareDisk : id # activeID => SpareDisk'[id] = SpareDisk[id]
  BY <1>1, <1>4, <1>5
<1> QED
  BY <1>1, <1>2, <1>3, <1>4, <1>5, <1>6, WriteAckedIn

\* A Merge under way has a newer file than any link.
LEMMA MergeNotTop ==
  ASSUME TypeInv, LinkInv, taken = "fresh", ~Damaged, TopLinked
  PROVE  pc \notin {"copy", "hint", "remove", "reset"}
<1> SUFFICES ASSUME pc \in {"copy", "hint", "remove"} PROVE FALSE
  BY DEF TopLinked
<1>1. /\ up /\ links \subseteq segments /\ newID \in DOMAIN disk
      /\ \A id \in segments : id < newID
      /\ segments \subseteq Nat /\ newID \in Nat
  BY DEF TypeInv, TypeOK, Shape, FileID, LinkInv
<1>2. PICK t \in links : newID <= t
  BY <1>1 DEF TopLinked, Newest
<1> QED
  BY <1>1, <1>2

\* Outside Merge no hint file is written and no fault comes but damage.
LEMMA QuietHint ==
  ASSUME [Next]_vars, ~Damaged', pc \notin {"copy", "hint", "remove", "reset"},
         hint = "none", faults = {}
  PROVE  hint' = "none" /\ faults' = {}
<1>1. CASE UNCHANGED vars
  BY <1>1 DEF vars, diskVars
<1>2. CASE Open \/ Close \/ Crash
  BY <1>2 DEF Open, OpenEmpty, OpenHint, OpenScan, Opened, Close, Crash, Kill, KillInWrite,
     KillInCopy, PowerLoss, CrashFault, diskVars
<1>3. CASE (\E k \in Key : Delete(k) \/ \E v \in Value : Put(k, v)) \/ MergeStart \/ ResetStart
  BY <1>3 DEF Delete, Put, MergeStart, ResetStart
<1>4. CASE MergeStep
  BY <1>4 DEF MergeStep, MergeCopy, MergeReadFails, MergeSync, MergeHint, MergePromote,
     ResetHint, ResetFresh, RemoveSegment
<1>5. CASE IOError
  BY <1>5 DEF IOError, AppendFails, SyncFails, RotateFails, MergeCopyFails, MergeHintFails,
     ResetFails, RemoveFails, MergeAborts, Fault, Damaged, diskVars
<1> QED
  BY <1>1, <1>2, <1>3, <1>4, <1>5 DEF Next

\* resetToEmpty ends with every segment removed, or damaged.
LEMMA ResetLeaves ==
  ASSUME [Next]_vars, pc = "reset", pc' # "reset", ~Damaged'
  PROVE  segments = {}
<1>1. ASSUME "reset" \in faults' PROVE FALSE
  BY <1>1 DEF Damaged
<1>2. CASE UNCHANGED vars
  BY <1>2 DEF vars, mergeVars
<1>3. CASE Open \/ Close \/ Crash
  BY <1>1, <1>3 DEF Open, OpenEmpty, OpenHint, OpenScan, Opened, Close, Crash, Kill, KillInWrite,
     KillInCopy, PowerLoss, CanAppend, Ready, CrashFault, mergeVars
<1>4. CASE (\E k \in Key : Delete(k) \/ \E v \in Value : Put(k, v)) \/ MergeStart \/ ResetStart
  BY <1>4 DEF Delete, Put, MergeStart, ResetStart, CanAppend, Ready
<1>5. CASE MergeStep
  BY <1>5 DEF MergeStep, MergeCopy, MergeReadFails, MergeSync, MergeHint, MergePromote,
     ResetHint, ResetFresh, RemoveSegment, mergeVars
<1>6. CASE IOError
  BY <1>1, <1>6 DEF IOError, AppendFails, SyncFails, RotateFails, MergeCopyFails, MergeHintFails,
     ResetFails, RemoveFails, MergeAborts, CanAppend, Ready, Fault
<1> QED
  BY <1>2, <1>3, <1>4, <1>5, <1>6 DEF Next

\* A link that is the newest file of the store always was: files are only
\* removed where a newer one is, or where all of them are.
LEMMA TopBefore ==
  ASSUME TypeInv, TypeInv', LinkInv, LinkInv', taken = "fresh", Move, ~Damaged, ~Damaged',
         TopLinked'
  PROVE  /\ TopLinked /\ DOMAIN disk \subseteq DOMAIN disk'
         /\ pc \notin {"copy", "hint", "remove", "reset"}
<1>1. links' = links \cap DOMAIN disk' /\ taken' = "fresh" /\ [Next]_vars
  BY SnapFiles DEF Move
<1>2. up => links \subseteq segments
  BY DEF LinkInv
<1>3. PICK t \in links' : \A i \in DOMAIN disk' : i <= t
  BY DEF TopLinked, Newest
<1>4. pc # "reset"
  <2> SUFFICES ASSUME pc = "reset" PROVE FALSE
    OBVIOUS
  <2>1. up /\ segments = {}
    BY <1>1, ResetLeaves DEF TopLinked, TypeInv, Shape
  <2> QED
    BY <1>1, <1>2, <1>3, <2>1
<1>5. ASSUME NEW id \in segments, RemoveSegment(id) PROVE FALSE
  <2>1. /\ pc = "remove" /\ up /\ disk' = WithoutSegment(disk, id)
        /\ newID \in DOMAIN disk /\ \A i \in segments : i < newID
        /\ segments \subseteq Nat /\ newID \in Nat
    BY <1>4, <1>5 DEF RemoveSegment, TypeInv, TypeOK, Shape, FileID
  <2>2. newID \in DOMAIN disk' /\ t \in segments
    BY <1>1, <1>2, <1>3, <2>1 DEF WithoutSegment
  <2> QED
    BY <1>3, <2>1, <2>2
<1>6. DOMAIN disk \subseteq DOMAIN disk'
  BY <1>1, <1>5, StepKeeps, PowerLossDisk DEF DiskKeeps
<1>7. TopLinked
  BY <1>1, <1>3, <1>4, <1>6 DEF TopLinked, Newest
<1> QED
  BY <1>6, <1>7, MergeNotTop

\* Two newest files are one.
LEMMA OneNewest ==
  ASSUME TypeInv, NEW t \in DOMAIN disk, Newest(t), NEW u \in DOMAIN disk, Newest(u) PROVE t = u
<1>1. t \in Nat /\ u \in Nat /\ t <= u /\ u <= t
  BY DEF Newest, TypeInv, TypeOK, FileID
<1> QED
  BY <1>1

\* A step keeps TopMoment.
LEMMA NextTopMoment ==
  ASSUME StorePack, TypeInv', LinkInv, LinkInv', taken = "fresh", Move, ~Damaged, ~Damaged',
         TopMoment
  PROVE  TopMoment'
<1> SUFFICES ASSUME TopLinked'
             PROVE  /\ hint' = "none" /\ faults' = {} /\ AckedIn(SpareDisk', acked')
                    /\ \A t \in links' : Newest(t)' => \A id \in DOMAIN SpareDisk' : id <= t
  BY DEF TopMoment
<1>1. TypeInv /\ [Next]_vars
  BY DEF StorePack, CorePack, Move
<1>2. /\ TopLinked /\ DOMAIN disk \subseteq DOMAIN disk'
      /\ pc \notin {"copy", "hint", "remove", "reset"}
  BY <1>1, TopBefore
<1>3. /\ hint = "none" /\ faults = {} /\ AckedIn(SpareDisk, acked)
      /\ \A t \in links : Newest(t) => \A id \in DOMAIN SpareDisk : id <= t
  BY <1>2 DEF TopMoment
<1>4. /\ DOMAIN SpareDisk' = DOMAIN SpareDisk /\ links' = links \cap DOMAIN disk'
      /\ links \subseteq DOMAIN disk
  BY <1>1, SnapFiles DEF LinkInv
<1>5. hint' = "none" /\ faults' = {}
  BY <1>1, <1>2, <1>3, QuietHint
<1>6. ASSUME NEW t \in links', Newest(t)' PROVE \A id \in DOMAIN SpareDisk' : id <= t
  <2>1. t \in links /\ Newest(t)
    BY <1>2, <1>4, <1>6 DEF Newest
  <2> QED
    BY <1>3, <1>4, <2>1
<1>7. FoundScope /\ AckedIn(disk, acked)
  BY <1>2, <1>3 DEF FoundScope, StorePack, CorePack, FoundInv
<1>8. CASE SnapGrows
  BY <1>3, <1>5, <1>6, <1>8, SameRecordsAcked DEF SnapGrows
<1>9. ASSUME \E x \in WriteEntries : WriteFiles(x)
      PROVE  activeID \in links /\ \A id \in DOMAIN SpareDisk : id <= activeID
  <2>1. activeID \in DOMAIN disk /\ Newest(activeID)
    BY <1>3, <1>9 DEF WriteFiles, CanAppend, Ready, StorePack, CorePack, DirInv, Newest
  <2>2. PICK t \in links : Newest(t)
    BY <1>2 DEF TopLinked
  <2>3. t = activeID
    BY <1>1, <1>4, <2>1, <2>2, OneNewest
  <2> QED
    BY <1>3, <2>2, <2>3
<1>10. CASE SnapSame
  <2>1. OpenScan
    <3>1. DOMAIN disk # {} /\ ~HintLoads(hint, hintIndex)
      BY <1>2, <1>3, <1>4 DEF TopLinked, HintLoads
    <3> QED
      BY <1>9, <1>10, <3>1 DEF SnapSame, Open, OpenEmpty, OpenHint
  <2>2. acked' = acked
    BY <1>1, <1>7, <2>1, ScanAcks
  <2> QED
    BY <1>3, <1>5, <1>6, <1>10, <2>2, SameRecordsAcked DEF SnapSame
<1>11. CASE SnapWrites
  BY <1>1, <1>3, <1>5, <1>6, <1>9, <1>11, SnapWriteAcked DEF SnapWrites
<1>12. CASE SnapCut
  <2>1. DiskOK(SpareDisk) /\ DiskOK(SpareDisk)'
    <3>1. (TypeInv /\ LinkInv /\ taken = "fresh" => DiskOK(SpareDisk))'
      BY SnapDiskOK, PTL
    <3> QED
      BY <1>1, <3>1, SnapDiskOK, SnapFiles
  <2> QED
    BY <1>3, <1>4, <1>5, <1>6, <1>12, <2>1, LossAcked DEF SnapCut
<1> QED
  BY <1>1, <1>8, <1>10, <1>11, <1>12, SnapKinds

\* A step keeps LiveMoment; Open finds the link to be the newest file.
LEMMA NextLiveMoment ==
  ASSUME StorePack, TypeInv', LinkInv, LinkInv', taken = "fresh", Move, ~Damaged,
         LiveMoment, TopMoment'
  PROVE  LiveMoment'
<1> SUFFICES ASSUME up', activeID' \in links'
             PROVE  AckedIn(SpareDisk', acked') /\ \A id \in DOMAIN SpareDisk' : id <= activeID'
  BY DEF LiveMoment
<1>1. TypeInv /\ FreshInv /\ [Next]_vars
  BY DEF StorePack, CorePack, Move
<1>2. DOMAIN SpareDisk' = DOMAIN SpareDisk /\ links' = links \cap DOMAIN disk'
  BY <1>1, SnapFiles
<1>3. CASE ~up
  <2>1. Open
    BY <1>1, <1>3, OnlyOpenOpens
  <2>2. /\ activeID' = lastID(DOMAIN disk') /\ pc' = pc /\ pc = "idle"
        /\ DOMAIN disk' # {} /\ DiskOK(disk')
    BY <1>1, <1>2, <1>3, <2>1
    DEF Open, OpenEmpty, OpenHint, OpenScan, Opened, mergeVars, TypeInv, Shape
  <2>3. Newest(activeID)'
    BY <2>2, LastIDIn DEF Newest
  <2>4. TopLinked'
    BY <2>2, <2>3 DEF TopLinked
  <2> QED
    BY <2>3, <2>4 DEF TopMoment
<1>4. CASE up
  <2>1. links \subseteq segments
    BY <1>4 DEF LinkInv
  <2>2. activeID' = activeID /\ activeID \in links
    BY <1>1, <1>2, <1>4, <2>1, ActiveMoves
  <2>3. AckedIn(SpareDisk, acked) /\ \A id \in DOMAIN SpareDisk : id <= activeID
    BY <1>4, <2>2 DEF LiveMoment
  <2>4. CASE SnapGrows
    BY <1>2, <2>2, <2>3, <2>4, SameRecordsAcked DEF SnapGrows
  <2>5. CASE SnapSame
    BY <1>4, <2>2, <2>5 DEF SnapSame, Open, OpenEmpty, OpenHint, OpenScan
  <2>6. CASE SnapWrites
    BY <1>1, <1>2, <2>2, <2>3, <2>6, SnapWriteAcked
  <2>7. CASE SnapCut
    BY <2>7 DEF SnapCut, PowerLoss, Down
  <2> QED
    BY <1>1, <2>4, <2>5, <2>6, <2>7, SnapKinds
<1> QED
  BY <1>3, <1>4

\* Every step keeps MomentInv.
LEMMA NextMomentInv ==
  ASSUME SnapBase, NoSnapshot, LinkInv, MomentInv, SnapBase', LinkInv',
         [SnapNext]_<<vars, snapVars>>
  PROVE  MomentInv'
<1> SUFFICES ASSUME MomentScope' PROVE MomentInv'
  BY DEF MomentInv
<1>1. /\ StorePack /\ StorePack' /\ TypeInv /\ TypeInv' /\ taken' = "fresh"
      /\ hintCopy' = "none" /\ ~Damaged'
  BY SnapSteps DEF SnapBase, StorePack, CorePack, MomentScope
<1>2. CASE taken = "fresh" /\ Move
  <2>1. /\ UNCHANGED hintCopy /\ since \subseteq since' /\ (acked \in since => acked' \in since')
        /\ DOMAIN SpareDisk' = DOMAIN SpareDisk
    BY <1>1, <1>2, SnapFiles
  <2>2. MomentScope
    BY <1>1, <1>2, <2>1, FaultsOnlyGrow, FaultsGrow DEF MomentScope, Move
  <2>3. ~Damaged /\ LiveMoment /\ TopMoment /\ acked \in since
    BY <2>2 DEF MomentInv, MomentScope
  <2>4. TopMoment'
    BY <1>1, <1>2, <2>3, NextTopMoment
  <2>5. LiveMoment'
    BY <1>1, <1>2, <2>3, <2>4, NextLiveMoment
  <2>6. \E then \in since' : AckedIn(SpareDisk', then)
    <3>1. PICK then \in since : AckedIn(SpareDisk, then)
      BY <2>2 DEF MomentInv
    <3>2. CASE SnapGrows \/ SnapSame
      <4>1. AckedIn(SpareDisk', then)
        BY <3>1, <3>2, SameRecordsAcked DEF SnapGrows, SnapSame
      <4> QED
        BY <2>1, <3>1, <4>1
    <3>3. CASE SnapWrites
      <4>1. up /\ activeID \in links
        BY <3>3 DEF SnapWrites, WriteFiles, CanAppend, Ready
      <4>2. AckedIn(SpareDisk, acked) /\ \A id \in DOMAIN SpareDisk : id <= activeID
        BY <2>3, <4>1 DEF LiveMoment
      <4>3. AckedIn(SpareDisk', acked')
        BY <1>1, <1>2, <3>3, <4>2, SnapWriteAcked
      <4> QED
        BY <2>1, <2>3, <4>3
    <3>4. CASE SnapCut
      <4>1. DiskOK(SpareDisk) /\ DiskOK(SpareDisk)'
        <5>1. (TypeInv /\ LinkInv /\ taken = "fresh" => DiskOK(SpareDisk))'
          BY SnapDiskOK, PTL
        <5> QED
          BY <1>1, <1>2, <5>1, SnapDiskOK
      <4>2. CASE SyncOnWrite
        <5>1. AckedIn(SpareDisk', then)
          BY <2>1, <3>1, <3>4, <4>1, <4>2, CutAcked DEF SnapCut
        <5> QED
          BY <2>1, <3>1, <5>1
      <4>3. CASE ~SyncOnWrite
        <5>1. acked' = [k \in Key |-> Value \cup {NoValue}]
          BY <3>4, <4>3 DEF SnapCut, PowerLoss
        <5>2. AckedIn(SpareDisk', acked')
          BY <4>1, <5>1, AnyAcked
        <5> QED
          BY <2>1, <2>3, <5>2
      <4> QED
        BY <4>2, <4>3
    <3> QED
      BY <1>1, <1>2, <2>3, <3>2, <3>3, <3>4, SnapKinds
  <2> QED
    BY <2>1, <2>3, <2>4, <2>5, <2>6 DEF MomentInv
<1>3. ASSUME taken = "no", faults = {}, ~hintLink', NEW linked \in Linkable, NEW link \in BOOLEAN,
             Snapshot(linked, link)
      PROVE  MomentInv'
  <2>1. /\ DOMAIN SpareDisk' = DOMAIN disk' /\ since' = {acked'} /\ hintLink' = FALSE
        /\ \A id \in DOMAIN disk' : SpareDisk'[id] = disk'[id] \/ SpareDisk'[id] = Sync(disk'[id])
        /\ DiskOK(disk') /\ DiskOK(SpareDisk')
    BY <1>1, <1>3, SnapshotIsDisk, NextSpareOK DEF LinkInv, TypeInv, Shape
  <2>2. hint' = "none"
    BY <1>1, <1>3, <2>1, SnapshotIsDisk
  <2>3. faults' = {} /\ pc' = "idle" /\ up' /\ activeID' \in segments'
    BY <1>3 DEF Snapshot, CanAppend, Ready, memVars, mergeVars
  <2>4. AckedIn(SpareDisk', acked')
    <3>1. AckedIn(disk', acked')
      BY <1>1, <2>2, <2>3 DEF StorePack, CorePack, FoundInv, FoundScope
    <3>2. \A id \in DOMAIN disk' : SameWhole(disk'[id], SpareDisk'[id])
      BY <2>1, SyncSameWhole, SameWholeReflexive DEF DiskOK
    <3>3. SameRecords(disk', SpareDisk')
      BY <2>1, <3>2, SameWholeRecords
    <3> QED
      BY <3>1, <3>3, SameRecordsAcked
  <2>5. \A id \in DOMAIN disk' : id <= activeID'
    BY <1>1, <2>3 DEF StorePack, CorePack, DirInv
  <2>6. \A t \in links' : Newest(t)' => \A id \in DOMAIN SpareDisk' : id <= t
    BY <2>1 DEF Newest
  <2> QED
    BY <2>1, <2>2, <2>3, <2>4, <2>5, <2>6 DEF MomentInv, LiveMoment, TopMoment
<1> QED
  BY <1>1, <1>2, <1>3, SnapSteps

(***************************************************************************)
(* Archives.  Restore syncs nothing, so nothing that rests on synced bytes *)
(* holds of a restored directory; ArchiveRecovers is about histories       *)
(* without a crash, in which unsynced bytes stay.  What a scan finds there *)
(* is what it finds in the same directory with every file synced.          *)
(***************************************************************************)
ScanAcked(d, a) == AckedIn(SyncedAll(d), a)

\* The records of the synced directory are those of the directory, none loose.
LEMMA SyncedRecords ==
  ASSUME NEW d, DiskOK(d)
  PROVE  /\ DOMAIN SyncedAll(d) = DOMAIN d
         /\ \A id \in DOMAIN d : SyncedAll(d)[id].at = d[id].at
         /\ \A k, id, o : IsRecord(SyncedAll(d), k, id, o) <=> IsRecord(d, k, id, o)
         /\ \A k, id, o : IsRecord(d, k, id, o) => ~Loose(SyncedAll(d)[id], o)
         /\ DiskOK(SyncedAll(d))
<1> DEFINE e == SyncedAll(d)
<1>1. DOMAIN e = DOMAIN d
  BY DEF SyncedAll
<1>2. \A id \in DOMAIN d : e[id] = Sync(d[id]) /\ e[id].at = d[id].at /\ e[id].synced = d[id].len
  BY DEF SyncedAll, Sync
<1>3. e = [id \in DOMAIN e |-> e[id]]
  BY DEF SyncedAll
<1>4. \A id \in DOMAIN d : IsFile(e[id])
  BY <1>2, SyncKeeps DEF DiskOK
<1> HIDE DEF e
<1>5. \A k, id, o : IsRecord(e, k, id, o) <=> IsRecord(d, k, id, o)
  BY <1>1, <1>2 DEF IsRecord
<1>6. ASSUME NEW k, NEW id, NEW o, IsRecord(d, k, id, o) PROVE ~Loose(e[id], o)
  <2>1. /\ id \in DOMAIN d /\ frameSize(d[id].at[o]) \in Nat /\ d[id].len \in Nat /\ o \in Nat
        /\ o + frameSize(d[id].at[o]) <= d[id].len
    BY <1>6, RecordTypes
  <2> QED
    BY <1>2, <2>1 DEF Loose
<1>7. DiskOK(e)
  BY <1>1, <1>3, <1>4 DEF DiskOK
<1> QED
  BY <1>1, <1>2, <1>5, <1>6, <1>7 DEF e

\* What relates two directories relates them when they are synced.
LEMMA SyncedSame ==
  ASSUME NEW d, DiskOK(d), NEW e, DiskOK(e), SameRecords(d, e), NEW a, NEW b,
         \A k \in Key : a[k] \subseteq b[k], ScanAcked(d, a)
  PROVE  ScanAcked(e, b)
<1>1. SameRecords(SyncedAll(d), SyncedAll(e))
  <2>1. ASSUME NEW k, NEW id, NEW o
        PROVE  /\ IsRecord(SyncedAll(e), k, id, o) <=> IsRecord(SyncedAll(d), k, id, o)
               /\ IsRecord(SyncedAll(e), k, id, o) =>
                    /\ SyncedAll(e)[id].at[o] = SyncedAll(d)[id].at[o]
                    /\ ~Loose(SyncedAll(e)[id], o)
    <3>1. IsRecord(d, k, id, o) <=> IsRecord(e, k, id, o)
      BY DEF SameRecords
    <3>2. IsRecord(e, k, id, o) =>
            e[id].at[o] = d[id].at[o] /\ id \in DOMAIN d /\ id \in DOMAIN e
      BY <3>1 DEF SameRecords, IsRecord
    <3> QED
      BY <3>1, <3>2, SyncedRecords
  <2> QED
    BY <2>1 DEF SameRecords
<1> QED
  BY <1>1, SameRecordsAcked DEF ScanAcked

LEMMA SyncedOneMore ==
  ASSUME NEW d, DiskOK(d), NEW e, DiskOK(e), NEW i, NEW z, NEW x, OneMore(d, e, i, z, x)
  PROVE  OneMore(SyncedAll(d), SyncedAll(e), i, z, x) /\ ~Loose(SyncedAll(e)[i], z)
<1>1. IsRecord(e, x.key, i, z) /\ e[i].at[z] = x /\ i \in DOMAIN e
  BY DEF OneMore, IsRecord
<1>2. ASSUME NEW k, NEW id, NEW o, IsRecord(SyncedAll(d), k, id, o)
      PROVE  /\ IsRecord(SyncedAll(e), k, id, o)
             /\ SyncedAll(e)[id].at[o] = SyncedAll(d)[id].at[o]
             /\ ~Loose(SyncedAll(e)[id], o)
             /\ id < i \/ (id = i /\ o < z)
  <2>1. IsRecord(d, k, id, o)
    BY <1>2, SyncedRecords
  <2>2. /\ IsRecord(e, k, id, o) /\ e[id].at[o] = d[id].at[o]
        /\ id < i \/ (id = i /\ o < z)
    BY <2>1 DEF OneMore
  <2>3. id \in DOMAIN d /\ id \in DOMAIN e
    BY <2>1, <2>2 DEF IsRecord
  <2> QED
    BY <2>2, <2>3, SyncedRecords
<1>3. ASSUME NEW k, NEW id, NEW o, IsRecord(SyncedAll(e), k, id, o)
      PROVE  IsRecord(SyncedAll(d), k, id, o) \/ (k = x.key /\ id = i /\ o = z)
  <2>1. IsRecord(e, k, id, o)
    BY <1>3, SyncedRecords
  <2>2. IsRecord(d, k, id, o) \/ (k = x.key /\ id = i /\ o = z)
    BY <2>1 DEF OneMore
  <2> QED
    BY <2>2, SyncedRecords
<1>4. /\ IsRecord(SyncedAll(e), x.key, i, z) /\ SyncedAll(e)[i].at[z] = x
      /\ ~Loose(SyncedAll(e)[i], z)
  BY <1>1, SyncedRecords
<1> QED
  BY <1>2, <1>3, <1>4 DEF OneMore

\* A scan does not ask what is synced.
LEMMA SyncedScan ==
  ASSUME NEW d, DiskOK(d), NEW a, ScanAcked(d, a), NEW k \in Key
  PROVE  Get(scanIndex(d), DOMAIN d, d, k) \in a[k]
<1> DEFINE e == SyncedAll(d)
<1>1. /\ DOMAIN e = DOMAIN d /\ DiskOK(e) /\ AckedIn(e, a)
      /\ \A id \in DOMAIN d : e[id].at = d[id].at
  BY SyncedRecords DEF ScanAcked
<1> HIDE DEF e
<1>2. \A j : Records(e, j) = Records(d, j)
  <2>1. UNION {{id} \X DOMAIN e[id].at : id \in DOMAIN e}
          = UNION {{id} \X DOMAIN d[id].at : id \in DOMAIN d}
    BY <1>1
  <2>2. \A p \in UNION {{id} \X DOMAIN d[id].at : id \in DOMAIN d} : p[1] \in DOMAIN d
    OBVIOUS
  <2> QED
    BY <1>1, <2>1, <2>2 DEF Records
<1>3. scanIndex(e)[k] = scanIndex(d)[k]
  <2>1. CASE Records(d, k) = {}
    BY <1>2, <2>1 DEF scanIndex
  <2>2. CASE Records(d, k) # {}
    <3>1. LastRecord(e, k) = LastRecord(d, k)
      BY <1>2 DEF LastRecord
    <3>2. LastRecord(d, k) \in Records(d, k)
      <4>1. MaxFileID + 1 \in Nat /\ \A id \in DOMAIN d : id \in Nat /\ id <= MaxFileID + 1 /\ IsFile(d[id])
        BY StoreAssumption DEF DiskOK, FileID
      <4> QED
        BY <2>2, <4>1, LastRecordExists
    <3>3. LastRecord(d, k)[1] \in DOMAIN d
      BY <3>2 DEF Records
    <3> QED
      BY <1>1, <1>2, <2>2, <3>1, <3>3 DEF scanIndex
  <2> QED
    BY <2>1, <2>2
<1>4. Get(scanIndex(e), DOMAIN e, e, k) \in a[k]
  BY <1>1, ScanFinds
<1> QED
  BY <1>1, <1>3, <1>4 DEF Get, CanReadAt, ReadAt

(***************************************************************************)
(* A snapshot without a hint file that Open takes, and of which no power   *)
(* loss took a copy, shows the store as it was at one moment, its own or a *)
(* later one: writes that go on in a linked segment show in it in their    *)
(* order and from the first one on, and rotation, Merge, restarts, crashes *)
(* and the removal of the store's own names do not.                        *)
(***************************************************************************)
THEOREM SnapshotAlwaysAMoment == SnapSpec => []SnapshotIsAMoment
<1>1. SnapBase /\ LinkInv /\ MomentInv => SnapshotIsAMoment
  <2> SUFFICES ASSUME SnapBase, LinkInv, MomentInv, taken = "fresh", SnapHint = "none", ~Damaged
               PROVE  \E then \in since : \A k \in Key : SnapContents[k] \in then[k]
    BY DEF SnapshotIsAMoment, ShowsAMoment
  <2>1. /\ hintCopy = "none" /\ SnapIndex = scanIndex(SnapDisk)
        /\ DiskOK(SnapDisk) /\ DiskOK(SpareDisk) /\ SyncedAll(SpareDisk) = SyncedAll(SnapDisk)
    BY SnapDiskOK DEF LinkInv, SnapHint, SnapIndex, SnapBase, StorePack, CorePack
  <2>2. PICK then \in since : AckedIn(SpareDisk, then)
    BY <2>1 DEF MomentInv, MomentScope
  <2>3. ScanAcked(SnapDisk, then)
    <3>1. DiskOK(SyncedAll(SpareDisk)) /\ DOMAIN SyncedAll(SpareDisk) = DOMAIN SpareDisk
      BY <2>1, SyncedRecords
    <3>2. \A id \in DOMAIN SpareDisk : SameWhole(SpareDisk[id], SyncedAll(SpareDisk)[id])
      BY <2>1, SyncSameWhole DEF SyncedAll, DiskOK
    <3>3. SameRecords(SpareDisk, SyncedAll(SpareDisk))
      BY <2>1, <3>1, <3>2, SameWholeRecords
    <3>4. AckedIn(SyncedAll(SpareDisk), then)
      BY <2>2, <3>3, SameRecordsAcked
    <3> QED
      BY <2>1, <3>4 DEF ScanAcked
  <2>4. \A k \in Key : SnapContents[k] \in then[k]
    BY <2>1, <2>3, SyncedScan DEF SnapContents
  <2> QED
    BY <2>4
<1>2. SnapInit => MomentInv
  BY DEF SnapInit, MomentInv, MomentScope
<1>3. SnapBase /\ NoSnapshot /\ LinkInv /\ MomentInv /\ [SnapNext]_<<vars, snapVars>>
        => (SnapBase /\ NoSnapshot /\ LinkInv /\ MomentInv)'
  BY NextSnapBase, NextLinkInv, NextMomentInv
<1> QED
  BY InitSnap, <1>1, <1>2, <1>3, PTL DEF SnapSpec

(***************************************************************************)
(* What holds of the store between restores: a scan without a hint file    *)
(* finds what the client may find, and so does a hint file no write has    *)
(* outdated.                                                               *)
(***************************************************************************)
ScanFound == FoundScope => ScanAcked(disk, acked)

NewsFound == NewsScope /\ HintIsNews => HintIsAcked

LEMMA OpenScanFound ==
  ASSUME TypeInv, TypeInv', FoundScope, Open, ScanAcked(disk, acked)
  PROVE  ScanAcked(disk', acked')
<1>1. ~HintLoads(hint, hintIndex) /\ DiskOK(disk) /\ DiskOK(disk') /\ acked = [k \in Key |-> acked[k]]
  BY DEF FoundScope, HintLoads, TypeInv, TypeOK, Shape
<1>2. CASE OpenEmpty
  <2>1. DOMAIN disk = {} /\ disk' = WithSegment(disk, 1)
    BY <1>2 DEF OpenEmpty, Opened
  <2>2. \A id \in DOMAIN disk' : DOMAIN disk'[id].at = {}
    BY <2>1 DEF WithSegment, EmptyFile
  <2>3. \A k \in Key : NoValue \in acked'[k]
    <3>1. acked' = [k \in Key |->
                      LET found == Get(NewIndex, DOMAIN disk', disk', k)
                      IN IF found \in acked[k] THEN acked[k] ELSE {found}]
      BY <1>2 DEF OpenEmpty, Opened
    <3>2. \A k \in Key : Get(NewIndex, DOMAIN disk', disk', k) = NoValue
      BY NewIndexType DEF Get, LiveEntries
    <3> QED
      BY <3>1, <3>2
  <2>4. \A id \in DOMAIN SyncedAll(disk') : DOMAIN SyncedAll(disk')[id].at = {}
    BY <1>1, <2>2, SyncedRecords
  <2> QED
    BY <2>3, <2>4, EmptyAcked DEF ScanAcked
<1>3. CASE OpenScan
  <2>1. /\ disk' = disk
        /\ acked' = [k \in Key |->
                      LET found == Get(scanIndex(disk), DOMAIN disk, disk, k)
                      IN IF found \in acked[k] THEN acked[k] ELSE {found}]
    BY <1>3 DEF OpenScan, Opened
  <2>2. \A k \in Key : Get(scanIndex(disk), DOMAIN disk, disk, k) \in acked[k]
    BY <1>1, SyncedScan
  <2>3. acked' = [k \in Key |-> acked[k]]
    BY <2>1, <2>2
  <2> QED
    BY <1>1, <2>1, <2>3
<1> QED
  BY <1>1, <1>2, <1>3 DEF Open, OpenHint

\* Every step but a power loss keeps the first ...
LEMMA NextScanFound ==
  ASSUME CorePack, TypeInv', ScanFound, [Next]_vars, ~PowerLoss PROVE ScanFound'
<1> SUFFICES ASSUME FoundScope' PROVE ScanAcked(disk', acked')
  BY DEF ScanFound
<1>1. /\ faults = {} /\ faults' = {} /\ ~Damaged /\ DiskOK(disk) /\ DiskOK(disk')
      /\ TypeInv /\ LocInv /\ ReadInv /\ DirInv /\ HintPCInv /\ AbsentInv
  BY FaultsOnlyGrow DEF CorePack, FoundScope, Damaged, TypeInv, Shape
<1>2. CASE ResetHint
  <2>1. pc = "reset" /\ segments = {} /\ UNCHANGED <<disk, acked>>
    BY <1>2 DEF ResetHint
  <2>2. DOMAIN disk' = {} /\ \A k \in Key : NoValue \in acked'[k]
    BY <1>1, <2>1 DEF DirInv, AbsentInv, AbsentIn
  <2>3. DOMAIN SyncedAll(disk') = {}
    BY <1>1, <2>2, SyncedRecords
  <2> QED
    BY <2>2, <2>3, EmptyAcked DEF ScanAcked
<1>3. CASE FoundScope
  <2>1. ScanAcked(disk, acked)
    BY <1>3 DEF ScanFound
  <2>2. CASE Open
    BY <1>1, <1>3, <2>1, <2>2, OpenScanFound
  <2>3. ASSUME NEW k \in Key, MergeCopy(k) PROVE ScanAcked(disk', acked')
    <3>1. pc = "copy" /\ up /\ acked' = acked
      BY <1>1, <2>3 DEF MergeCopy, TypeInv, Shape
    <3>2. GoodIndex
      BY <1>1, <3>1, ContentsIs
      DEF GoodIndex, LocInv, IndexInv, ReadInv, ReadsAcked, ContentsByPC
    <3>3. OneMore(disk, disk', newID, disk[newID].len, Copied(k)) /\ Found(Copied(k)) = Copied(k).val
      BY <1>1, <2>3, MergeCopyGrows
    <3>4. Copied(k).key = k /\ Copied(k).val \in acked[k]
      BY <1>1, <2>3, <3>2, CopiedAcked
    <3>5. OneMore(SyncedAll(disk), SyncedAll(disk'), newID, disk[newID].len, Copied(k))
      BY <1>1, <3>3, SyncedOneMore
    <3> QED
      BY <2>1, <3>1, <3>3, <3>4, <3>5, OneMoreAcked DEF ScanAcked
  <2>4. ASSUME NEW x \in WriteEntries, WriteFiles(x) PROVE ScanAcked(disk', acked')
    <3>1. /\ DOMAIN disk = segments /\ activeID \in segments
          /\ \A id \in segments : id <= activeID
      BY <1>1, <2>4 DEF WriteFiles, CanAppend, Ready, DirInv
    <3>2. /\ DOMAIN disk \subseteq DOMAIN disk' /\ disk[activeID].synced <= disk'[activeID].synced
          /\ \A id \in DOMAIN disk : id # activeID => disk'[id] = disk[id]
          /\ disk'[activeID].at = Place(disk[activeID].at, disk[activeID].len, x)
          /\ x.val \in acked'[x.key]
          /\ \/ \A k \in Key : acked[k] \subseteq acked'[k]
             \/ \A k \in Key : k # x.key => acked'[k] = acked[k]
      BY <2>4 DEF WriteFiles
    <3>3. x \in Entry /\ ~x.torn /\ x.key \in Key /\ Found(x) = x.val
      BY WriteEntryTypes, WriteEntriesWhole DEF Entry, Found, WriteEntries, PutEntry, DelEntry
    <3>4. OneMore(disk, disk', activeID, disk[activeID].len, x)
      BY <1>1, <3>1, <3>2, <3>3, NewFilesEmpty, AppendOneMore
    <3>5. /\ OneMore(SyncedAll(disk), SyncedAll(disk'), activeID, disk[activeID].len, x)
          /\ ~Loose(SyncedAll(disk')[activeID], disk[activeID].len)
      BY <1>1, <3>4, SyncedOneMore
    <3>6. CASE \A k \in Key : acked[k] \subseteq acked'[k]
      BY <2>1, <3>2, <3>3, <3>5, <3>6, OneMoreAcked DEF ScanAcked
    <3>7. CASE \A k \in Key : k # x.key => acked'[k] = acked[k]
      <4>1. activeID \in Nat /\ disk[activeID].len \in Nat
        BY <1>1, <3>1 DEF DiskOK, FileID, IsFile
      <4>2. \A k, id, o : IsRecord(SyncedAll(disk), k, id, o) => id \in Nat /\ o \in Nat
        BY <1>1, SyncedRecords, RecordTypes
      <4> QED
        BY <2>1, <3>2, <3>3, <3>5, <3>7, <4>1, <4>2, LastRecordAcked DEF ScanAcked
    <3> QED
      BY <3>2, <3>6, <3>7
  <2>5. CASE QuietFiles
    <3>1. DOMAIN disk \subseteq DOMAIN disk'
      <4>1. ASSUME NEW id \in segments, RemoveSegment(id) PROVE FALSE
        BY <1>1, <1>3, <4>1 DEF RemoveSegment, HintPCInv, FoundScope
      <4> QED
        BY <1>1, <4>1, StepKeeps DEF DiskKeeps
    <3>2. SameRecords(disk, disk')
      BY <1>1, <2>5, <3>1, NewFilesEmpty, SameWholeRecords DEF QuietFiles
    <3> QED
      BY <1>1, <2>1, <2>5, <3>2, SyncedSame DEF QuietFiles
  <2> QED
    BY <1>1, <2>2, <2>3, <2>4, <2>5, StepFiles
<1> QED
  BY <1>2, <1>3, FoundBefore

\* ... and so does the second, while the hint file is the same ...
LEMMA NewsFoundKept ==
  ASSUME CorePack, NewsFound, NewsKeeps, HintIsNews' PROVE HintIsAcked'
<1>1. /\ NewsScope /\ DiskKeeps(disk, disk') /\ hintIndex' = hintIndex
      /\ \A k \in Key : acked[k] \subseteq acked'[k]
  BY DEF NewsKeeps
<1>2. HintIsNews
  <2>1. \A id \in DOMAIN disk : id \in DOMAIN disk' /\ DOMAIN disk[id].at \subseteq DOMAIN disk'[id].at
    BY <1>1 DEF DiskKeeps, Keeps
  <2> QED
    BY <1>1, <2>1 DEF HintIsNews
<1>3. HintIsAcked
  BY <1>1, <1>2 DEF NewsFound
<1>4. AllResolve(disk, hintIndex)
  BY <1>1, NewsResolve DEF CorePack
<1>5. ASSUME NEW k \in Key PROVE HintVal(k)' \in acked'[k]
  <2>1. HintVal(k) \in acked[k]
    BY <1>3 DEF HintIsAcked
  <2>2. CASE hintIndex[k].tomb
    BY <1>1, <2>1, <2>2 DEF HintVal, Get
  <2>3. CASE ~hintIndex[k].tomb
    <3> DEFINE loc == hintIndex[k]
    <3>1. loc.file \in DOMAIN disk /\ CanReadAt(disk[loc.file], loc.off)
      BY <1>4, <2>3 DEF AllResolve, LiveEntries, Resolves
    <3>2. loc.file \in DOMAIN disk' /\ Keeps(disk[loc.file], disk'[loc.file])
      BY <1>1, <3>1 DEF DiskKeeps
    <3> QED
      BY <1>1, <2>1, <2>3, <3>1, <3>2 DEF HintVal, Get, CanReadAt, ReadAt, Keeps
  <2> QED
    BY <2>2, <2>3
<1> QED
  BY <1>5 DEF HintIsAcked

\* ... or another.
LEMMA NextNewsFound ==
  ASSUME CorePack, CorePack', LiveHintInv, NewsFound, [Next]_vars, ~PowerLoss PROVE NewsFound'
<1> SUFFICES ASSUME NewsScope', HintIsNews' PROVE HintIsAcked'
  BY DEF NewsFound
<1>1. /\ TypeInv /\ TypeInv' /\ LocInv /\ LocInv' /\ ReadInv /\ ReadInv' /\ DirInv
      /\ DiskOK(disk) /\ DiskOK(disk')
  BY DEF CorePack, TypeInv, Shape
<1>2. CASE NewsKeeps
  BY <1>2, NewsFoundKept
<1>3. CASE NewsWrite
  <2>1. WrittenSince'
    BY <1>1, <1>3, WriteNews DEF NewsWrite
  <2> QED
    BY <2>1 DEF HintIsNews, WrittenSince, Stays, Unnamed
<1> QED
  BY <1>1, <1>2, <1>3, NewsStep

(***************************************************************************)
(* The store's invariants while no Restore has mixed files and no fault    *)
(* and no crash has come.                                                  *)
(***************************************************************************)
WholePack == CorePack /\ LiveHintInv /\ ScanFound /\ NewsFound

LEMMA InitWholePack == Init => WholePack
<1> SUFFICES ASSUME Init PROVE ScanAcked(disk, acked)
  BY InitCorePack, InitNewsInv DEF WholePack, ScanFound, NewsFound, NewsScope, Init
<1>1. DOMAIN disk = {} /\ \A k \in Key : NoValue \in acked[k]
  BY DEF Init
<1>2. DOMAIN SyncedAll(disk) = {}
  BY <1>1 DEF SyncedAll
<1> QED
  BY <1>1, <1>2, EmptyAcked DEF ScanAcked

LEMMA NextWholePack ==
  ASSUME WholePack, [Next]_vars, ~PowerLoss PROVE WholePack'
<1>1. CorePack' /\ TypeInv /\ TypeInv'
  BY NextCorePack DEF WholePack, CorePack
<1>2. LiveHintInv' /\ ScanFound' /\ NewsFound'
  BY <1>1, NextLiveHintInv, NextScanFound, NextNewsFound DEF WholePack
<1> QED
  BY <1>1, <1>2 DEF WholePack

LEMMA SyncWholePack ==
  ASSUME WholePack, SyncStep PROVE WholePack'
<1>1. /\ CorePack /\ CorePack' /\ SameRecords(disk, disk') /\ DiskKeeps(disk, disk')
      /\ DiskOK(disk) /\ DiskOK(disk')
  BY SyncCorePack DEF WholePack
<1>2. UNCHANGED <<hint, hintIndex, pc, newIndex, todo, acked, faults>>
  BY DEF SyncStep, mergeVars
<1>3. LiveHintInv'
  BY <1>2 DEF WholePack, LiveHintInv
<1>4. ScanFound'
  BY <1>1, <1>2, SyncedSame DEF WholePack, ScanFound, FoundScope
<1>5. ASSUME NewsScope', HintIsNews' PROVE HintIsAcked'
  <2>1. NewsKeeps
    BY <1>1, <1>2, <1>5 DEF NewsKeeps, NewsScope
  <2> QED
    BY <1>5, <2>1, NewsFoundKept DEF WholePack
<1> QED
  BY <1>1, <1>3, <1>4, <1>5 DEF WholePack, NewsFound

(***************************************************************************)
(* Whatever a Restore left, a store that is not open has nothing in        *)
(* memory.                                                                 *)
(***************************************************************************)
NothingOpen ==
  /\ index = NewIndex /\ segments = {} /\ activeID = 0 /\ size = 0
  /\ pc = "idle" /\ newID = 0 /\ newIndex = NewIndex /\ todo = {}

ArchiveBase ==
  /\ up \in BOOLEAN /\ writes \in Nat /\ crashes \in Nat /\ ioErrors \in Nat
  /\ ~up => NothingOpen
  /\ up => restored = "no"
  /\ archive.finished => archive.written

\* The steps of the store, as far as that is concerned.
LEMMA StepBase ==
  ASSUME ArchiveBase, [Next]_vars
  PROVE  /\ up' \in BOOLEAN /\ writes' \in Nat /\ crashes' \in Nat /\ ioErrors' \in Nat
         /\ ~up' => NothingOpen'
         /\ crashes' = 0 => crashes = 0 /\ ~PowerLoss
         /\ (crashes' = 0 /\ ~up /\ ~up') => UNCHANGED vars
<1>1. CASE UNCHANGED vars
  BY <1>1
  DEF vars, diskVars, memVars, mergeVars, bounds, ArchiveBase, NothingOpen, PowerLoss, CountCrash
<1>2. CASE Open
  BY <1>2 DEF Open, OpenEmpty, OpenHint, OpenScan, Opened, bounds, ArchiveBase, PowerLoss, Down
<1>3. CASE Close
  <2>1. up /\ Down /\ UNCHANGED <<writes, crashes, ioErrors>>
    BY <1>3 DEF Close, Ready, bounds
  <2>2. NothingOpen' /\ up' = FALSE
    BY <2>1 DEF Down, NothingOpen
  <2>3. up' \in BOOLEAN /\ writes' \in Nat /\ crashes' \in Nat /\ ioErrors' \in Nat
    BY <2>1, <2>2 DEF ArchiveBase
  <2>4. (crashes' = 0 => crashes = 0) /\ ~PowerLoss
    BY <2>1 DEF ArchiveBase, PowerLoss, CountCrash
  <2> QED
    BY <2>1, <2>2, <2>3, <2>4
<1>4. CASE \E k \in Key : Delete(k) \/ \E v \in Value : Put(k, v)
  BY <1>4 DEF Delete, Put, CanAppend, Ready, CountWrite, ArchiveBase, PowerLoss, Down
<1>5. CASE MergeStart \/ ResetStart
  BY <1>5 DEF MergeStart, ResetStart, CanAppend, Ready, bounds, ArchiveBase, PowerLoss, Down
<1>6. CASE MergeStep
  <2>1. pc # "idle" /\ up' = up /\ UNCHANGED <<writes, crashes>>
    BY <1>6 DEF MergeStep, MergeCopy, MergeReadFails, MergeSync, MergeHint, MergePromote,
       ResetHint, ResetFresh, RemoveSegment, MergeAborts, bounds
  <2>2. UNCHANGED ioErrors
    BY <1>6 DEF MergeStep, MergeCopy, MergeReadFails, MergeSync, MergeHint, MergePromote,
       ResetHint, ResetFresh, RemoveSegment, bounds
  <2> QED
    BY <2>1, <2>2 DEF ArchiveBase, NothingOpen, PowerLoss, CountCrash
<1>7. CASE IOError
  <2>1. up' = up /\ crashes' = crashes /\ (up \/ pc # "idle")
    BY <1>7 DEF IOError, AppendFails, SyncFails, RotateFails, MergeCopyFails, MergeHintFails,
       ResetFails, RemoveFails, MergeAborts, CanAppend, Ready
  <2>2. (writes' = writes \/ writes' = writes + 1) /\ ioErrors' = ioErrors + 1
    BY <1>7 DEF IOError, AppendFails, SyncFails, RotateFails, MergeCopyFails, MergeHintFails,
       ResetFails, RemoveFails, MergeAborts, CountWrite, CountIOError
  <2> QED
    BY <2>1, <2>2 DEF ArchiveBase, NothingOpen, PowerLoss, CountCrash
<1>8. CASE Crash
  <2>1. crashes' = crashes + 1 /\ Down /\ (writes' = writes \/ writes' = writes + 1) /\ UNCHANGED ioErrors
    BY <1>8 DEF Crash, Kill, KillInWrite, KillInCopy, PowerLoss, CountCrash, CountWrite
  <2>2. NothingOpen' /\ up' = FALSE
    BY <2>1 DEF Down, NothingOpen
  <2>3. writes \in Nat /\ crashes \in Nat /\ ioErrors \in Nat
    BY DEF ArchiveBase
  <2>4. writes' \in Nat /\ crashes' \in Nat /\ crashes' # 0 /\ ioErrors' \in Nat
    BY <2>1, <2>3
  <2> QED
    BY <2>2, <2>4
<1> QED
  BY <1>1, <1>2, <1>3, <1>4, <1>5, <1>6, <1>7, <1>8 DEF Next

(***************************************************************************)
(* The inductive invariant of Archives: the store while it is whole, an    *)
(* archive made of a whole store, and a directory just restored from it.   *)
(***************************************************************************)
Whole == ~mixed /\ faults = {} /\ crashes = 0

WholeInv == Whole => WholePack

SavedScope == archive.finished /\ ~saved.mixed /\ saved.faults = {} /\ crashes = 0

ArchiveIsNews ==
  \A id \in DOMAIN archive.segs : \A o \in DOMAIN archive.segs[id].at :
    (\E k \in LiveEntries(archive.index) : id >= archive.index[k].file) =>
      \E k \in LiveEntries(archive.index) : archive.index[k].file = id /\ archive.index[k].off = o

ArchiveGets(k) == Get(archive.index, DOMAIN archive.segs, archive.segs, k)

ArchiveInv ==
  SavedScope =>
    /\ DiskOK(archive.segs) /\ archive.hint \in {"none", "torn", "whole"}
    /\ IsIndex(archive.index) /\ saved.acked \in [Key -> SUBSET Result]
    /\ archive.hint = "none" => ScanAcked(archive.segs, saved.acked)
    /\ archive.hint = "whole" =>
         /\ LiveEntries(archive.index) # {} /\ AllResolve(archive.segs, archive.index)
         /\ ArchiveIsNews => \A k \in Key : ArchiveGets(k) \in saved.acked[k]
    /\ saved.news => archive.hint = "whole" /\ ArchiveIsNews

RestoredInv ==
  (restored = "into empty" /\ ~up /\ crashes = 0) =>
    /\ archive.finished /\ DOMAIN disk = DOMAIN archive.segs
    /\ \A id \in DOMAIN disk : disk[id] = archive.segs[id]
    /\ archive.hint = "whole" => hint = "whole" /\ hintIndex = archive.index

\* A Backup, finished or not, is a step that syncs the active file ...
LEMMA BackupSyncs ==
  ASSUME ArchiveBase, Backup \/ \E ids \in SUBSET segments : BackupCutShort(ids)
  PROVE  /\ SyncStep /\ up /\ UNCHANGED <<up, writes, crashes, mixed, restored, faults>>
         /\ archive'.written = TRUE /\ ioErrors' \in Nat
         /\ ~Backup => archive'.finished = FALSE
<1>1. ASSUME NEW segs, NEW h, NEW finished, BackedUp(segs, h, finished), ioErrors' \in Nat
      PROVE  /\ SyncStep /\ up /\ UNCHANGED <<up, writes, crashes, mixed, restored, faults>>
             /\ archive'.written = TRUE /\ archive'.finished = finished
  BY <1>1 DEF BackedUp, SyncStep, CanAppend, Ready
<1>2. CASE Backup
  BY <1>1, <1>2 DEF Backup, ArchiveBase
<1>3. ASSUME NEW ids \in SUBSET segments, BackupCutShort(ids)
      PROVE  ioErrors' \in Nat /\ \E segs, h : BackedUp(segs, h, FALSE)
  <2>1. ioErrors' \in Nat
    BY <1>3 DEF BackupCutShort, CountIOError, ArchiveBase
  <2>2. CASE BackedUp(Files(SyncedActive, ids), "none", FALSE)
    BY <2>1, <2>2
  <2>3. ASSUME NEW id \in ids, NEW n \in 0 .. disk[id].len - 1,
               BackedUp([Files(SyncedActive, ids) EXCEPT ![id] = Unsynced(Survives(@, n))],
                        "none", FALSE)
        PROVE  ioErrors' \in Nat /\ \E segs, h : BackedUp(segs, h, FALSE)
    BY <2>1, <2>3
  <2>4. ASSUME NEW h \in {"torn", hint}, BackedUp(Files(SyncedActive, ids), h, FALSE)
        PROVE  ioErrors' \in Nat /\ \E segs, g : BackedUp(segs, g, FALSE)
    BY <2>1, <2>4
  <2> QED
    BY <1>3, <2>2, <2>3, <2>4 DEF BackupCutShort
<1>4. CASE \E ids \in SUBSET segments : BackupCutShort(ids)
  BY <1>1, <1>3, <1>4
<1> QED
  BY <1>2, <1>4

\* ... and what a finished one writes has the same records.
LEMMA BackupFiles ==
  ASSUME WholePack, faults = {}, SyncStep, Backup
  PROVE  /\ DOMAIN archive'.segs = DOMAIN disk' /\ DiskOK(archive'.segs)
         /\ \A id \in DOMAIN disk' : archive'.segs[id].at = disk'[id].at
         /\ SyncedAll(archive'.segs) = SyncedAll(disk')
<1> DEFINE s == archive'.segs
<1>1. /\ TypeInv /\ DirInv /\ CanAppend /\ DiskOK(disk') /\ DOMAIN disk' = DOMAIN disk
      /\ disk' = SyncedActive
  BY SyncCorePack DEF WholePack, CorePack, SyncStep
<1>2. DOMAIN disk = segments
  BY <1>1 DEF DirInv, CanAppend, Ready
<1>3. s = [id \in segments |-> [disk'[id] EXCEPT !.synced = 0]]
  BY <1>1 DEF Backup, BackedUp, Archived, Files, Unsynced
<1>4. s = [id \in DOMAIN s |-> s[id]]
  BY <1>3
<1>5. DOMAIN s = DOMAIN disk' /\ \A id \in DOMAIN disk' : s[id] = [disk'[id] EXCEPT !.synced = 0]
  BY <1>1, <1>2, <1>3
<1> HIDE DEF s
<1>6. ASSUME NEW id \in DOMAIN disk'
      PROVE  IsFile(s[id]) /\ s[id].at = disk'[id].at /\ Sync(s[id]) = Sync(disk'[id])
  <2>1. IsFile(disk'[id])
    BY <1>1 DEF DiskOK
  <2>2. s[id] = [len |-> disk'[id].len, synced |-> 0, at |-> disk'[id].at]
    BY <1>5, <2>1 DEF IsFile
  <2> QED
    BY <2>1, <2>2 DEF IsFile, Sync
<1>7. DiskOK(s)
  BY <1>1, <1>4, <1>5, <1>6 DEF DiskOK
<1>8. SyncedAll(s) = SyncedAll(disk')
  BY <1>5, <1>6 DEF SyncedAll
<1> QED
  BY <1>5, <1>6, <1>7, <1>8 DEF s

\* The steps of Archives.
LEMMA NextArchiveBase ==
  ASSUME ArchiveBase, [ArchiveNext]_<<vars, archiveVars>> PROVE ArchiveBase'
<1>1. CASE UNCHANGED <<vars, archiveVars>>
  BY <1>1
  DEF vars, archiveVars, diskVars, memVars, mergeVars, bounds, ArchiveBase, NothingOpen
<1>2. CASE StoreRuns
  BY <1>2, StepBase DEF StoreRuns, ArchiveBase
<1>3. CASE Backup \/ \E ids \in SUBSET segments : BackupCutShort(ids)
  BY <1>3, BackupSyncs DEF ArchiveBase
<1>4. CASE RestoreIntoEmpty \/ RestoreOverOld \/ RestoreCutShort
  <2>1. ~up /\ UNCHANGED <<up, memVars, mergeVars, bounds, archive>>
    BY <1>4 DEF RestoreIntoEmpty, RestoreOverOld, RestoreCutShort
  <2> QED
    BY <2>1 DEF ArchiveBase, NothingOpen, memVars, mergeVars, bounds
<1>5. ASSUME NEW ids \in SUBSET DOMAIN archive.segs, RestoreFails(ids) PROVE ArchiveBase'
  <2>1. /\ ~up /\ UNCHANGED <<up, memVars, mergeVars, writes, crashes, archive>>
        /\ ioErrors' = ioErrors + 1
    BY <1>5 DEF RestoreFails, CountIOError
  <2> QED
    BY <2>1 DEF ArchiveBase, NothingOpen, memVars, mergeVars
<1> QED
  BY <1>1, <1>2, <1>3, <1>4, <1>5 DEF ArchiveNext

\* An archive of a whole store, restored into an empty directory, is one.
LEMMA RestoreIsWhole ==
  ASSUME ArchiveBase, ArchiveInv, RestoreIntoEmpty, Whole' PROVE WholePack'
<1>1. /\ ~up /\ UNCHANGED <<up, memVars, mergeVars, bounds, archive>>
      /\ acked' = saved.acked /\ faults' = {} /\ SavedScope
  BY DEF RestoreIntoEmpty, ArchiveBase, Whole, SavedScope, bounds
<1>2. /\ DiskOK(archive.segs) /\ archive.hint \in {"none", "torn", "whole"}
      /\ IsIndex(archive.index) /\ saved.acked \in [Key -> SUBSET Result]
      /\ archive.hint = "none" => ScanAcked(archive.segs, saved.acked)
      /\ archive.hint = "whole" =>
           /\ LiveEntries(archive.index) # {} /\ AllResolve(archive.segs, archive.index)
           /\ ArchiveIsNews => \A k \in Key : ArchiveGets(k) \in saved.acked[k]
  BY <1>1 DEF ArchiveInv
<1>3. disk' = archive.segs
  <2>1. archive.segs = [id \in DOMAIN archive.segs |-> archive.segs[id]]
    BY <1>2 DEF DiskOK
  <2>2. disk' = Extracted(NewDirectory, DOMAIN archive.segs) /\ DOMAIN NewDirectory = {}
    BY DEF RestoreIntoEmpty, RestoreFrom, NewDirectory
  <2>3. disk' = [id \in DOMAIN archive.segs |-> archive.segs[id]]
    BY <2>2 DEF Extracted
  <2> QED
    BY <2>1, <2>3
<1>4. /\ hint' = archive.hint /\ IsIndex(hintIndex')
      /\ hint' # "none" => hintIndex' = archive.index
  BY <1>2, NewIndexType DEF RestoreIntoEmpty, RestoreFrom
<1>5. NothingOpen' /\ NothingOpen /\ up' = FALSE
  BY <1>1 DEF ArchiveBase, NothingOpen, memVars, mergeVars
<1>6. TypeInv'
  <2>1. writes' \in Nat /\ crashes' \in Nat /\ ioErrors' \in Nat
    BY <1>1 DEF ArchiveBase, bounds
  <2>2. DiskOK(disk') /\ Shape'
    BY <1>2, <1>3, <1>5 DEF Shape, NothingOpen
  <2> QED
    BY <1>1, <1>2, <1>4, <1>5, <2>1, <2>2, NewIndexType, DiskOKTypes
    DEF TypeInv, TypeOK, NothingOpen
<1>7. LocInv'
  BY <1>2, <1>3, <1>4, <1>5
  DEF LocInv, SizeInv, IndexInv, EmptyInv, NewInv, LiveTodo, RemoveInv, HintInv, NothingOpen
<1>8. ReadInv' /\ DirInv' /\ FreshInv' /\ HintPCInv' /\ AbsentInv'
  BY <1>5
  DEF ReadInv, CopyInv, ReadsAcked, DirInv, FreshInv, HintPCInv, AbsentInv, NothingOpen
<1>9. LiveHintInv' /\ ScanFound'
  BY <1>1, <1>2, <1>3, <1>4, <1>5 DEF LiveHintInv, ScanFound, FoundScope, NothingOpen
<1>10. ASSUME NewsScope', HintIsNews' PROVE HintIsAcked'
  <2>1. archive.hint = "whole" /\ hintIndex' = archive.index
    BY <1>4, <1>10 DEF NewsScope
  <2>2. ArchiveIsNews
    BY <1>3, <1>10, <2>1 DEF HintIsNews, ArchiveIsNews
  <2>3. \A k \in Key : ArchiveGets(k) \in acked'[k]
    BY <1>1, <1>2, <2>1, <2>2
  <2> QED
    BY <1>3, <2>1, <2>3 DEF HintIsAcked, HintVal, ArchiveGets
<1> QED
  BY <1>6, <1>7, <1>8, <1>9, <1>10 DEF WholePack, CorePack, NewsFound

LEMMA NextWholeInv ==
  ASSUME ArchiveBase, ArchiveInv, WholeInv, [ArchiveNext]_<<vars, archiveVars>> PROVE WholeInv'
<1> SUFFICES ASSUME Whole' PROVE WholePack'
  BY DEF WholeInv
<1>1. CASE StoreRuns \/ UNCHANGED <<vars, archiveVars>>
  <2>1. [Next]_vars /\ mixed' = mixed
    BY <1>1 DEF StoreRuns, archiveVars
  <2>2. Whole /\ ~PowerLoss
    BY <2>1, StepBase, FaultsOnlyGrow DEF Whole
  <2> QED
    BY <2>1, <2>2, NextWholePack DEF WholeInv
<1>2. CASE Backup \/ \E ids \in SUBSET segments : BackupCutShort(ids)
  <2>1. UNCHANGED <<mixed, faults, crashes>>
    BY <1>2, BackupSyncs
  <2>2. Whole
    BY <2>1 DEF Whole
  <2> QED
    BY <1>2, <2>2, BackupSyncs, SyncWholePack DEF WholeInv
<1>3. CASE RestoreIntoEmpty
  BY <1>3, RestoreIsWhole
<1>4. CASE RestoreOverOld \/ RestoreCutShort
  BY <1>4 DEF RestoreOverOld, RestoreCutShort, Whole
<1>5. ASSUME NEW ids \in SUBSET DOMAIN archive.segs, RestoreFails(ids) PROVE FALSE
  BY <1>5 DEF RestoreFails, Whole
<1> QED
  BY <1>1, <1>2, <1>3, <1>4, <1>5 DEF ArchiveNext

\* What Backup writes.
LEMMA BackupIsGood ==
  ASSUME ArchiveBase, WholeInv, Backup, SavedScope'
  PROVE  ArchiveInv'
<1>1. /\ Whole /\ WholePack /\ SyncStep /\ faults = {} /\ CanAppend
  BY BackupSyncs DEF Backup, BackedUp, Whole, WholeInv, SavedScope
<1>2. /\ UNCHANGED <<hint, hintIndex, acked, faults, pc>> /\ pc = "idle"
      /\ archive'.hint = hint' /\ archive'.index = hintIndex' /\ saved'.acked = acked'
      /\ saved'.news = (hint = "whole" /\ HintIsNews)
  BY <1>1 DEF Backup, BackedUp, SyncStep, mergeVars, CanAppend, Ready
<1>3. WholePack' /\ CorePack' /\ CorePack
  BY <1>1, SyncWholePack DEF WholePack
<1>4. /\ DOMAIN archive'.segs = DOMAIN disk' /\ DiskOK(archive'.segs)
      /\ \A id \in DOMAIN disk' : archive'.segs[id].at = disk'[id].at
      /\ SyncedAll(archive'.segs) = SyncedAll(disk')
  BY <1>1, BackupFiles
<1>5. archive'.hint = "none" => ScanAcked(archive'.segs, saved'.acked)
  BY <1>1, <1>2, <1>3, <1>4 DEF WholePack, ScanFound, FoundScope, ScanAcked
<1>6. ArchiveIsNews' <=> HintIsNews'
  BY <1>2, <1>4 DEF ArchiveIsNews, HintIsNews
<1>7. \A k \in Key : ArchiveGets(k)' = HintVal(k)'
  BY <1>2, <1>4 DEF ArchiveGets, HintVal, Get, CanReadAt, ReadAt
<1>8. ASSUME archive'.hint = "whole"
      PROVE  /\ LiveEntries(archive'.index) # {} /\ AllResolve(archive'.segs, archive'.index)
             /\ ArchiveIsNews' => \A k \in Key : ArchiveGets(k)' \in saved'.acked[k]
  <2>1. NewsScope' /\ LiveHintInv' /\ NewsFound' /\ TypeInv' /\ LocInv'
    BY <1>1, <1>2, <1>3, <1>8 DEF NewsScope, WholePack, CorePack
  <2>2. LiveEntries(hintIndex') # {} /\ AllResolve(disk', hintIndex')
    BY <1>1, <1>2, <1>8, <2>1 DEF LiveHintInv, LocInv, HintInv, Damaged
  <2>3. AllResolve(archive'.segs, archive'.index)
    BY <1>2, <1>4, <2>2 DEF AllResolve, Resolves, CanReadAt, ReadAt
  <2> QED
    BY <1>2, <1>6, <1>7, <2>1, <2>2, <2>3 DEF NewsFound, HintIsAcked
<1>9. ASSUME saved'.news PROVE archive'.hint = "whole" /\ ArchiveIsNews'
  <2>1. hint = "whole" /\ HintIsNews
    BY <1>2, <1>9
  <2>2. HintIsNews'
    <3>1. DOMAIN disk' = DOMAIN disk /\ \A id \in DOMAIN disk : disk'[id].at = disk[id].at
      BY <1>1 DEF SyncStep, SyncedActive, Sync
    <3> QED
      BY <1>2, <2>1, <3>1 DEF HintIsNews
  <2> QED
    BY <1>2, <1>6, <2>1, <2>2
<1>10. /\ archive'.hint \in {"none", "torn", "whole"} /\ IsIndex(archive'.index)
       /\ saved'.acked \in [Key -> SUBSET Result]
  BY <1>2, <1>3 DEF CorePack, TypeInv, TypeOK
<1> QED
  BY <1>4, <1>5, <1>8, <1>9, <1>10 DEF ArchiveInv

LEMMA NextArchiveInv ==
  ASSUME ArchiveBase, WholeInv, ArchiveInv, [ArchiveNext]_<<vars, archiveVars>> PROVE ArchiveInv'
<1>1. ASSUME UNCHANGED <<archive, saved>>, crashes' = 0 => crashes = 0 PROVE ArchiveInv'
  BY <1>1 DEF ArchiveInv, SavedScope, ArchiveIsNews, ArchiveGets
<1>2. CASE StoreRuns \/ UNCHANGED <<vars, archiveVars>>
  <2>1. [Next]_vars /\ UNCHANGED <<archive, saved>>
    BY <1>2 DEF StoreRuns, archiveVars
  <2> QED
    BY <1>1, <2>1, StepBase
<1>3. CASE Backup \/ \E ids \in SUBSET segments : BackupCutShort(ids)
  BY <1>3, BackupSyncs, BackupIsGood DEF ArchiveInv, SavedScope
<1>4. CASE RestoreIntoEmpty \/ RestoreOverOld \/ RestoreCutShort
  BY <1>1, <1>4 DEF RestoreIntoEmpty, RestoreOverOld, RestoreCutShort, bounds
<1>5. ASSUME NEW ids \in SUBSET DOMAIN archive.segs, RestoreFails(ids) PROVE ArchiveInv'
  BY <1>1, <1>5 DEF RestoreFails
<1> QED
  BY <1>2, <1>3, <1>4, <1>5 DEF ArchiveNext

LEMMA NextRestoredInv ==
  ASSUME ArchiveBase, RestoredInv, [ArchiveNext]_<<vars, archiveVars>> PROVE RestoredInv'
<1> SUFFICES ASSUME restored' = "into empty", ~up', crashes' = 0
             PROVE  /\ archive'.finished /\ DOMAIN disk' = DOMAIN archive'.segs
                    /\ \A id \in DOMAIN disk' : disk'[id] = archive'.segs[id]
                    /\ archive'.hint = "whole" => hint' = "whole" /\ hintIndex' = archive'.index
  BY DEF RestoredInv
<1>1. CASE StoreRuns \/ UNCHANGED <<vars, archiveVars>>
  <2>1. [Next]_vars /\ restored' = restored /\ archive' = archive
    BY <1>1 DEF StoreRuns, archiveVars
  <2>2. ~up /\ crashes = 0
    BY <2>1, StepBase DEF ArchiveBase
  <2>3. UNCHANGED vars
    BY <2>1, <2>2, StepBase
  <2> QED
    BY <2>1, <2>2, <2>3 DEF RestoredInv, vars, diskVars
<1>2. CASE Backup \/ \E ids \in SUBSET segments : BackupCutShort(ids)
  <2>1. up /\ up' = up
    BY <1>2, BackupSyncs
  <2> QED
    BY <2>1
<1>3. CASE RestoreIntoEmpty
  <2>1. archive' = archive /\ archive.finished
    BY <1>3 DEF RestoreIntoEmpty
  <2>2. /\ disk' = Extracted(NewDirectory, DOMAIN archive.segs) /\ DOMAIN NewDirectory = {}
        /\ archive.hint = "whole" => hint' = "whole" /\ hintIndex' = archive.index
    BY <1>3 DEF RestoreIntoEmpty, RestoreFrom, NewDirectory
  <2>3. disk' = [id \in DOMAIN archive.segs |-> archive.segs[id]]
    BY <2>2 DEF Extracted
  <2> QED
    BY <2>1, <2>2, <2>3
<1>4. CASE RestoreOverOld \/ RestoreCutShort
  BY <1>4 DEF RestoreOverOld, RestoreCutShort
<1>5. ASSUME NEW ids \in SUBSET DOMAIN archive.segs, RestoreFails(ids) PROVE FALSE
  BY <1>5 DEF RestoreFails
<1> QED
  BY <1>1, <1>2, <1>3, <1>4, <1>5 DEF ArchiveNext

LEMMA InitArchive == ArchiveInit => ArchiveBase /\ WholeInv /\ ArchiveInv /\ RestoredInv
<1> SUFFICES ASSUME ArchiveInit PROVE ArchiveBase /\ WholeInv /\ ArchiveInv /\ RestoredInv
  OBVIOUS
<1>1. Init /\ ~archive.written /\ ~archive.finished /\ restored = "no"
  BY DEF ArchiveInit, NoArchive
<1>2. ArchiveBase
  BY <1>1 DEF Init, ArchiveBase, NothingOpen
<1> QED
  BY <1>1, <1>2, InitWholePack DEF WholeInv, ArchiveInv, SavedScope, RestoredInv

(***************************************************************************)
(* ArchiveRecovers holds of every instance: what an Open of a finished     *)
(* archive's files finds is every write acknowledged before the Backup, by a scan or *)
(* by a hint file no write had outdated, after any merges, rotations,      *)
(* restarts and restores (Backup, Restore, OpenWithOptions).               *)
(***************************************************************************)
THEOREM ArchiveAlwaysRecovers == ArchiveSpec => []ArchiveRecovers
<1>1. ArchiveInv => ArchiveRecovers
  <2> SUFFICES ASSUME ArchiveInv, SavedScope, archive.hint = "none" \/ saved.news, NEW k \in Key
               PROVE  FoundBy(archive.segs, archive.hint, archive.index)[k] \in saved.acked[k]
    BY DEF ArchiveRecovers, SavedScope
  <2>1. CASE archive.hint = "none"
    <3>1. DiskOK(archive.segs) /\ ScanAcked(archive.segs, saved.acked)
      BY <2>1 DEF ArchiveInv
    <3>2. Get(scanIndex(archive.segs), DOMAIN archive.segs, archive.segs, k) \in saved.acked[k]
      BY <3>1, SyncedScan
    <3> QED
      BY <2>1, <3>2 DEF FoundBy
  <2>2. CASE archive.hint # "none"
    <3>1. archive.hint = "whole" /\ ArchiveGets(k) \in saved.acked[k]
      BY <2>2 DEF ArchiveInv
    <3> QED
      BY <3>1 DEF FoundBy, ArchiveGets
  <2> QED
    BY <2>1, <2>2
<1> QED
  BY InitArchive, NextArchiveBase, NextWholeInv, NextArchiveInv, <1>1, PTL DEF ArchiveSpec

(***************************************************************************)
(* RestoredHintResolves holds of every instance: restored into an empty    *)
(* directory, the archive's hint file names only records that are there    *)
(* (Backup, Restore).                                                      *)
(***************************************************************************)
THEOREM RestoredHintAlwaysResolves == ArchiveSpec => []RestoredHintResolves
<1>1. ArchiveInv /\ RestoredInv => RestoredHintResolves
  <2> SUFFICES ASSUME ArchiveInv, RestoredInv, restored = "into empty", ~up, crashes = 0,
                      archive.hint = "whole", ~saved.mixed, saved.faults = {}
               PROVE  /\ hint = "whole"
                      /\ \A k \in LiveEntries(hintIndex) : Resolves(disk, k, hintIndex[k])
    BY DEF RestoredHintResolves
  <2>1. /\ archive.finished /\ DOMAIN disk = DOMAIN archive.segs /\ hint = "whole"
        /\ hintIndex = archive.index /\ \A id \in DOMAIN disk : disk[id] = archive.segs[id]
    BY DEF RestoredInv
  <2>2. AllResolve(archive.segs, archive.index)
    BY <2>1 DEF ArchiveInv, SavedScope
  <2> QED
    BY <2>1, <2>2 DEF AllResolve, Resolves
<1> QED
  BY InitArchive, NextArchiveBase, NextWholeInv, NextArchiveInv, NextRestoredInv, <1>1, PTL
  DEF ArchiveSpec

=============================================================================
