-------------------------- MODULE ResolutionProofs --------------------------
(***************************************************************************)
(* The index and the hint file never name a place where no record of that  *)
(* key is (IndexResolves, HintResolves), and so the open store shows the   *)
(* acknowledged writes (ReadsAcked) and is a map that only Put and Delete  *)
(* change (RefinesKVMap), proved for Store.                                *)
(***************************************************************************)
EXTENDS StoreProofs

AllIn(m, s) == \A k \in LiveEntries(m) : m[k].file \in s
AllResolve(d, m) == \A k \in LiveEntries(m) : Resolves(d, k, m[k])
AllDurable(d, m) == \A k \in LiveEntries(m) : DurablyResolves(d, k, m[k])

(***************************************************************************)
(* The inductive invariant.  IndexResolves alone says nothing of the       *)
(* offset the active handle will hand out next (SizeInv), of the index     *)
(* Merge is building and will install or write out (NewInv), nor why the   *)
(* removals of Merge do not touch what the hint file names (RemoveInv).    *)
(***************************************************************************)
SizeInv ==
  (up /\ "append" \notin faults /\ activeID \in segments) => size = disk[activeID].len

IndexInv ==
  (up /\ ~Damaged /\ pc \in {"idle", "copy", "hint"}) =>
    AllIn(index, segments) /\ AllResolve(disk, index)

EmptyInv == pc \in {"reset", "fresh"} => LiveEntries(index) = {}

NewInv ==
  ~Damaged =>
    /\ pc \in {"copy", "hint", "remove"} =>
         AllIn(newIndex, {newID}) /\ AllResolve(disk, newIndex)
    /\ pc \in {"hint", "remove"} => AllDurable(disk, newIndex)

LiveTodo == pc = "copy" => todo \subseteq LiveEntries(index)

RemoveInv == pc = "remove" => hintIndex = newIndex

HintInv ==
  (hint = "whole" /\ ~Damaged /\ pc # "reset") => AllResolve(disk, hintIndex)

LocInv ==
  SizeInv /\ IndexInv /\ EmptyInv /\ NewInv /\ LiveTodo /\ RemoveInv /\ HintInv

\* A power loss leaves that only if what the hint file names is durable.
DurInv ==
  (hint = "whole" /\ ~Damaged /\ pc # "reset") => AllDurable(disk, hintIndex)

ResInv == LocInv /\ DurInv

(***************************************************************************)
(* What a change of the directory leaves resolved.                         *)
(***************************************************************************)
LEMMA ResolvesKept ==
  ASSUME NEW d, NEW e, DiskKeeps(d, e), NEW m, AllResolve(d, m)
  PROVE  AllResolve(e, m)
BY DEF AllResolve, Resolves, CanReadAt, ReadAt, DiskKeeps, Keeps

\* A durable location stays durable when the file grows or is synced.
LEMMA DurableKept ==
  ASSUME NEW d, NEW e, DiskOK(d), DiskOK(e), DiskKeeps(d, e), NEW m, IsIndex(m),
         AllDurable(d, m)
  PROVE  AllDurable(e, m)
<1> SUFFICES ASSUME NEW k \in LiveEntries(m) PROVE DurablyResolves(e, k, m[k])
  BY DEF AllDurable
<1> DEFINE f == d[m[k].file]
           g == e[m[k].file]
           o == m[k].off
<1>1. Resolves(d, k, m[k]) /\ o + frameSize(f.at[o]) <= f.synced
  BY DEF AllDurable, DurablyResolves, ReadAt
<1>2. Resolves(e, k, m[k]) /\ g.at[o] = f.at[o] /\ f.synced <= g.synced
  BY <1>1 DEF Resolves, CanReadAt, ReadAt, DiskKeeps, Keeps
<1>3. f.synced \in Nat /\ g.synced \in Nat /\ o \in Nat /\ f.at[o] \in Entry
  BY <1>1, <1>2 DEF Resolves, CanReadAt, DiskOK, IsFile
<1>4. frameSize(f.at[o]) \in Nat
  BY <1>3, EntryTypes
<1>5. o + frameSize(g.at[o]) <= g.synced
  BY <1>1, <1>2, <1>3, <1>4
<1> QED
  BY <1>2, <1>5 DEF DurablyResolves, ReadAt

\* A durable location survives a power loss.
LEMMA DurableSurvives ==
  ASSUME TypeInv, PowerLoss, NEW m, IsIndex(m), AllDurable(disk, m)
  PROVE  AllDurable(disk', m)
<1> SUFFICES ASSUME NEW k \in LiveEntries(m) PROVE DurablyResolves(disk', k, m[k])
  BY DEF AllDurable
<1> DEFINE id == m[k].file
           f == disk[id]
           g == disk'[id]
           o == m[k].off
<1>1. /\ Resolves(disk, k, m[k]) /\ o + frameSize(f.at[o]) <= f.synced
      /\ id \in DOMAIN disk /\ o \in DOMAIN f.at
  BY DEF AllDurable, DurablyResolves, ReadAt, Resolves, CanReadAt
<1>2. DiskOK(disk') /\ DOMAIN disk' = DOMAIN disk /\ g \in AfterPowerLoss(f)
  BY <1>1, PowerLossDisk
<1>3. IsFile(f) /\ IsFile(g)
  BY <1>1, <1>2 DEF TypeInv, Shape, DiskOK
<1> HIDE DEF f, g, o, id
<1>4. o \in DOMAIN g.at /\ g.at[o] = f.at[o] /\ f.synced <= g.synced
  BY <1>1, <1>2, <1>3, PowerLossKeepsSynced
<1>5. f.synced \in Nat /\ g.synced \in Nat /\ o \in Nat /\ f.at[o] \in Entry
  BY <1>1, <1>3 DEF IsFile
<1>6. frameSize(f.at[o]) \in Nat
  BY <1>5, EntryTypes
<1>7. o + frameSize(g.at[o]) <= g.synced
  BY <1>1, <1>4, <1>5, <1>6
<1>8. Resolves(disk', k, m[k])
  BY <1>1, <1>2, <1>4 DEF Resolves, CanReadAt, ReadAt, f, g, o, id
<1> QED
  BY <1>7, <1>8 DEF DurablyResolves, ReadAt, g, o, id

\* It survives the removal of any other segment.
LEMMA DurableWithout ==
  ASSUME NEW d, NEW id, NEW m, \A k \in LiveEntries(m) : m[k].file # id
  PROVE  /\ AllResolve(d, m) => AllResolve(WithoutSegment(d, id), m)
         /\ AllDurable(d, m) => AllDurable(WithoutSegment(d, id), m)
BY DEF AllResolve, AllDurable, DurablyResolves, Resolves, WithoutSegment

\* A durable location resolves.
LEMMA DurableResolves ==
  ASSUME NEW d, NEW m, AllDurable(d, m) PROVE AllResolve(d, m) /\ AllIn(m, DOMAIN d)
BY DEF AllDurable, AllResolve, AllIn, DurablyResolves, Resolves

\* A new index has no location to resolve.
LEMMA NewIndexResolves ==
  \A d, s : AllIn(NewIndex, s) /\ AllResolve(d, NewIndex) /\ AllDurable(d, NewIndex)
BY NewIndexType DEF AllIn, AllResolve, AllDurable

\* A store that is not damaged after a step was not before it.
LEMMA FaultsGrow ==
  ASSUME faults \subseteq faults', ~Damaged'
  PROVE  ~Damaged /\ "append" \notin faults
BY DEF Damaged

(***************************************************************************)
(* One lemma per action.  Types are known before and after (TypeInv).      *)
(***************************************************************************)
LEMMA InitLocInv == Init => LocInv
<1> SUFFICES ASSUME Init PROVE LocInv
  OBVIOUS
<1> QED
  BY NewIndexResolves
  DEF Init, LocInv, SizeInv, IndexInv, EmptyInv, NewInv, LiveTodo, RemoveInv, HintInv

\* HintInv, when the hint file stays and the directory only grows.
LEMMA HintKept ==
  ASSUME TypeInv, HintInv, DiskOK(disk'), DiskKeeps(disk, disk'),
         UNCHANGED <<hint, hintIndex>>, faults \subseteq faults', pc # "reset"
  PROVE  HintInv'
<1> SUFFICES ASSUME hint = "whole", ~Damaged' PROVE AllResolve(disk', hintIndex)
  BY DEF HintInv
<1>1. AllResolve(disk, hintIndex)
  BY FaultsGrow DEF HintInv
<1> QED
  BY <1>1, ResolvesKept

\* Open, from an index whose live locations resolve.
LEMMA OpenedRes ==
  ASSUME TypeInv, TypeInv', LocInv, ~up, NEW d, DiskOK(d), DiskKeeps(disk, d), DOMAIN d # {},
         NEW m, Opened(d, m), ~Damaged => AllIn(m, DOMAIN d) /\ AllResolve(d, m)
  PROVE  LocInv'
<1>1. /\ up' = TRUE /\ disk' = d /\ index' = m /\ segments' = DOMAIN d
      /\ activeID' = lastID(DOMAIN d) /\ size' = d[lastID(DOMAIN d)].len
      /\ UNCHANGED <<hint, hintIndex, pc, newID, newIndex, todo, faults>>
  BY DEF Opened, mergeVars
<1>2. pc = "idle"
  BY DEF TypeInv, Shape
<1>3. HintInv'
  BY <1>1, <1>2, HintKept DEF LocInv
<1>4. SizeInv'
  BY <1>1 DEF SizeInv
<1>5. IndexInv'
  BY <1>1 DEF IndexInv, Damaged
<1> QED
  BY <1>1, <1>2, <1>3, <1>4, <1>5 DEF LocInv, EmptyInv, NewInv, LiveTodo, RemoveInv

\* Open keeps the invariant, on each of its three ways.
LEMMA OpenRes == ASSUME TypeInv, TypeInv', LocInv, Open PROVE LocInv'
<1>1. DiskOK(disk) /\ DiskKeeps(disk, disk)
  BY DiskKeepsReflexive DEF TypeInv, Shape
<1>2. CASE OpenEmpty
  <2>1. 1 \in FileID /\ 1 <= MaxFileID + 1
    BY StoreAssumption DEF FileID
  <2>2. /\ DiskOK(WithSegment(disk, 1)) /\ DiskKeeps(disk, WithSegment(disk, 1))
        /\ DOMAIN WithSegment(disk, 1) # {}
    BY <1>1, <2>1, WithSegmentKeeps
  <2> QED
    BY <1>2, <2>2, NewIndexResolves, OpenedRes DEF OpenEmpty
<1>3. CASE OpenHint
  <2>1. ~Damaged => AllResolve(disk, hintIndex)
    BY <1>3 DEF OpenHint, HintLoads, LocInv, HintInv, TypeInv, Shape
  <2>2. ~Damaged => AllIn(hintIndex, DOMAIN disk) /\ AllResolve(disk, hintIndex)
    BY <2>1 DEF AllIn, AllResolve, Resolves
  <2> QED
    BY <1>1, <1>3, <2>2, OpenedRes DEF OpenHint
<1>4. CASE OpenScan
  <2>1. AllResolve(disk, scanIndex(disk))
    BY <1>1, StoreAssumption, ScanResolves DEF DiskOK, FileID, AllResolve
  <2>2. AllIn(scanIndex(disk), DOMAIN disk)
    BY <2>1 DEF AllResolve, AllIn, Resolves
  <2> QED
    BY <1>1, <1>4, <2>1, <2>2, OpenedRes DEF OpenScan
<1> QED
  BY <1>2, <1>3, <1>4 DEF Open

\* The index after a write whose record starts where the index says.
LEMMA WrittenIndex ==
  ASSUME TypeInv, TypeInv', LocInv, CanAppend, ~Damaged, NEW e \in Entry, ~e.torn,
         DiskKeeps(disk, disk'), segments \subseteq segments',
         activeID \in DOMAIN disk', disk[activeID].len \in DOMAIN disk'[activeID].at,
         disk'[activeID].at[disk[activeID].len] = e,
         index' = IndexPut(index, e.key, activeID, size, e.tomb)
  PROVE  AllIn(index', segments') /\ AllResolve(disk', index')
<1>1. up /\ pc = "idle" /\ activeID \in segments
  BY DEF CanAppend, Ready
<1>2. size = disk[activeID].len
  BY <1>1 DEF LocInv, SizeInv, Damaged
<1>3. AllIn(index, segments) /\ AllResolve(disk, index)
  BY <1>1 DEF LocInv, IndexInv
<1>4. AllResolve(disk', index)
  BY <1>3, ResolvesKept
<1>5. e.key \in Key /\ e.tomb \in BOOLEAN /\ size \in Nat /\ activeID \in Nat /\ IsIndex(index)
  BY DEF Entry, TypeInv, TypeOK
<1>6. /\ index'[e.key] = [file |-> activeID, off |-> size, tomb |-> e.tomb]
      /\ \A j \in Key : j # e.key => index'[j] = index[j]
  BY <1>5, IndexPutType
<1>7. ASSUME NEW k \in LiveEntries(index')
      PROVE  index'[k].file \in segments' /\ Resolves(disk', k, index'[k])
  <2>1. CASE k = e.key
    <3>1. ~index'[k].tomb
      BY <1>7 DEF LiveEntries
    <3>2. /\ index'[k].file = activeID /\ index'[k].off = disk[activeID].len
          /\ ~e.tomb
      BY <1>2, <1>6, <2>1, <3>1
    <3>3. disk'[activeID].at[disk[activeID].len].key = k
      BY <2>1
    <3> QED
      BY <1>1, <3>2, <3>3 DEF Resolves, CanReadAt, ReadAt
  <2>2. CASE k # e.key
    <3>1. k \in LiveEntries(index) /\ index'[k] = index[k]
      BY <1>6, <1>7, <2>2 DEF LiveEntries
    <3> QED
      BY <1>3, <1>4, <3>1 DEF AllIn, AllResolve
  <2> QED
    BY <2>1, <2>2
<1> QED
  BY <1>7 DEF AllIn, AllResolve

\* A write without rotation keeps the invariant.
LEMMA WriteRes ==
  ASSUME TypeInv, TypeInv', LocInv, CanAppend, NEW e \in Entry, ~e.torn,
         NEW sync \in BOOLEAN, Written(e, sync),
         UNCHANGED <<hint, hintIndex, up, mergeVars, faults>>
  PROVE  LocInv'
<1>1. up /\ pc = "idle" /\ activeID \in segments
  BY DEF CanAppend, Ready
<1>2. /\ disk' = [disk EXCEPT ![activeID] = WrittenFile(e, sync)]
      /\ index' = IndexPut(index, e.key, activeID, size, e.tomb)
      /\ size' = size + frameSize(e) /\ UNCHANGED <<segments, activeID>>
  BY DEF Written, WrittenFile
<1>3. /\ DiskOK(disk') /\ DiskKeeps(disk, disk') /\ DOMAIN disk' = DOMAIN disk
      /\ activeID \in DOMAIN disk
      /\ disk[activeID].len \in DOMAIN disk'[activeID].at
      /\ disk'[activeID].at[disk[activeID].len] = e
      /\ disk'[activeID].len = disk[activeID].len + frameSize(e)
  BY <1>1, <1>2, WrittenFileOK
<1>4. IndexInv'
  <2> SUFFICES ASSUME ~Damaged' PROVE AllIn(index', segments') /\ AllResolve(disk', index')
    BY DEF IndexInv
  <2>1. ~Damaged
    BY DEF Damaged
  <2> QED
    BY <1>2, <1>3, <2>1, WrittenIndex
<1>5. SizeInv'
  BY <1>1, <1>2, <1>3 DEF LocInv, SizeInv
<1>6. HintInv'
  BY <1>1, <1>3, HintKept DEF LocInv
<1> QED
  BY <1>1, <1>4, <1>5, <1>6 DEF LocInv, EmptyInv, NewInv, LiveTodo, RemoveInv, mergeVars

\* Put, with or without rotation, keeps it.
LEMMA PutRes ==
  ASSUME TypeInv, TypeInv', LocInv, NEW k \in Key, NEW v \in Value, Put(k, v) PROVE LocInv'
<1> DEFINE e == PutEntry(k, v)
<1>1. e \in Entry /\ ~e.torn /\ SyncOnWrite \in BOOLEAN
  BY EntryTypes, StoreAssumption DEF PutEntry
<1>2. /\ CanAppend /\ up /\ pc = "idle" /\ activeID \in segments
      /\ UNCHANGED <<hint, hintIndex, up, mergeVars, faults>>
      /\ Written(e, SyncOnWrite) \/ WrittenAndRotated(e, SyncOnWrite)
  BY DEF Put, CanAppend, Ready
<1> HIDE DEF e
<1>3. CASE Written(e, SyncOnWrite)
  BY <1>1, <1>2, <1>3, WriteRes
<1>4. CASE WrittenAndRotated(e, SyncOnWrite)
  <2>1. /\ DiskOK(disk') /\ DiskKeeps(disk, disk') /\ DOMAIN disk' = DOMAIN disk \cup {activeID'}
        /\ segments' = segments \cup {activeID'} /\ size' = disk'[activeID'].len
        /\ disk'[activeID] = WrittenFile(e, SyncOnWrite)
    BY <1>1, <1>2, <1>4, WrittenAndRotatedType
  <2>2. /\ activeID \in DOMAIN disk
        /\ disk[activeID].len \in DOMAIN WrittenFile(e, SyncOnWrite).at
        /\ WrittenFile(e, SyncOnWrite).at[disk[activeID].len] = e
    BY <1>1, <1>2, WrittenFileOK
  <2>3. index' = IndexPut(index, e.key, activeID, size, e.tomb)
    BY <1>4 DEF WrittenAndRotated
  <2>4. IndexInv'
    <3> SUFFICES ASSUME ~Damaged' PROVE AllIn(index', segments') /\ AllResolve(disk', index')
      BY DEF IndexInv
    <3>1. ~Damaged
      BY <1>2 DEF Damaged
    <3> QED
      BY <1>1, <1>2, <2>1, <2>2, <2>3, <3>1, WrittenIndex
  <2>5. SizeInv'
    BY <2>1 DEF SizeInv
  <2>6. HintInv'
    BY <1>2, <2>1, HintKept DEF LocInv
  <2> QED
    BY <1>2, <2>4, <2>5, <2>6 DEF LocInv, EmptyInv, NewInv, LiveTodo, RemoveInv, mergeVars
<1> QED
  BY <1>2, <1>3, <1>4

\* Put and Delete write whole records.
LEMMA WriteEntriesWhole == \A e \in WriteEntries : ~e.torn
BY DEF WriteEntries, PutEntry, DelEntry

\* Delete, and a write whose Sync or rotate fails, keep it.
LEMMA OtherWritesRes ==
  ASSUME TypeInv, TypeInv', LocInv,
         \/ \E k \in Key : Delete(k)
         \/ \E e \in WriteEntries : SyncFails(e) \/ RotateFails(e)
  PROVE  LocInv'
<1>1. SyncOnWrite \in BOOLEAN
  BY StoreAssumption
<1>2. ASSUME NEW k \in Key, Delete(k) PROVE LocInv'
  <2>1. DelEntry(k) \in Entry /\ ~DelEntry(k).torn
    BY EntryTypes DEF DelEntry
  <2> QED
    BY <1>1, <1>2, <2>1, WriteRes DEF Delete
<1>3. ASSUME NEW e \in WriteEntries, SyncFails(e) \/ RotateFails(e) PROVE LocInv'
  <2>1. e \in Entry /\ ~e.torn
    BY WriteEntryTypes, WriteEntriesWhole
  <2> QED
    BY <1>1, <1>3, <2>1, WriteRes DEF SyncFails, RotateFails
<1> QED
  BY <1>2, <1>3

\* A failed Append damages the store, and the invariant allows it.
LEMMA AppendFailsRes ==
  ASSUME TypeInv, TypeInv', LocInv, NEW e \in WriteEntries,
         NEW n \in 1 .. frameSize(e) - 1, AppendFails(e, n)
  PROVE  LocInv'
<1>1. pc' = "idle" /\ "append" \in faults'
  BY DEF AppendFails, CanAppend, Ready, mergeVars
<1>2. Damaged'
  BY <1>1 DEF Damaged
<1> QED
  BY <1>1, <1>2 DEF LocInv, SizeInv, IndexInv, EmptyInv, NewInv, LiveTodo, RemoveInv, HintInv

\* The start of Merge keeps it.
LEMMA MergeStartRes == ASSUME TypeInv, TypeInv', LocInv, MergeStart PROVE LocInv'
<1>1. /\ DiskOK(disk') /\ DiskKeeps(disk, disk')
      /\ \A id \in DOMAIN disk : disk'[id].len = disk[id].len
  BY MergeStartDisk
<1>2. /\ up /\ pc = "idle" /\ pc' = "copy" /\ newIndex' = NewIndex
      /\ UNCHANGED <<hint, hintIndex, up, index, segments, activeID, size, faults>>
  BY DEF MergeStart, CanAppend, Ready, memVars
<1>3. SizeInv'
  BY <1>1, <1>2 DEF LocInv, SizeInv, TypeInv, Shape
<1>4. IndexInv'
  BY <1>1, <1>2, ResolvesKept DEF LocInv, IndexInv, Damaged
<1>5. NewInv'
  BY <1>2, NewIndexResolves DEF NewInv
<1>6. HintInv'
  BY <1>1, <1>2, HintKept DEF LocInv
<1>7. LiveTodo'
  BY <1>2 DEF LiveTodo, MergeStart
<1> QED
  BY <1>2, <1>3, <1>4, <1>5, <1>6, <1>7 DEF LocInv, EmptyInv, RemoveInv

\* A turn of the copy loop keeps it: the new location resolves.
LEMMA MergeCopyRes ==
  ASSUME TypeInv, TypeInv', LocInv, NEW k \in Key, MergeCopy(k) PROVE LocInv'
<1> DEFINE f == disk[newID]
           e == Copied(k)
<1>1. /\ e \in Entry /\ newID \in DOMAIN disk /\ IsFile(f)
      /\ DiskOK(disk') /\ DiskKeeps(disk, disk') /\ DOMAIN disk' = DOMAIN disk
      /\ \A id \in DOMAIN disk : id # newID => disk'[id] = disk[id]
      /\ f.len \in DOMAIN disk'[newID].at /\ disk'[newID].at[f.len] = e
  BY MergeCopyDisk
<1>2. /\ pc = "copy" /\ pc' = "copy" /\ up /\ k \in todo
      /\ newIndex' = IndexPut(newIndex, k, newID, f.len, FALSE)
      /\ UNCHANGED <<hint, hintIndex, up, index, segments, activeID, size, newID, faults>>
  BY DEF MergeCopy, memVars, TypeInv, Shape
<1>3. SizeInv'
  <2>1. activeID \in segments => activeID # newID /\ activeID \in DOMAIN disk
    BY <1>2 DEF TypeInv, TypeOK, Shape
  <2> QED
    BY <1>1, <1>2, <2>1 DEF LocInv, SizeInv
<1>4. IndexInv'
  BY <1>1, <1>2, ResolvesKept DEF LocInv, IndexInv, Damaged
<1>5. ASSUME ~Damaged'
      PROVE  AllIn(newIndex', {newID'}) /\ AllResolve(disk', newIndex')
  <2>1. ~Damaged
    BY <1>2, <1>5 DEF Damaged
  <2>2. AllIn(newIndex, {newID}) /\ AllResolve(disk, newIndex) /\ AllResolve(disk, index)
    BY <1>2, <2>1 DEF LocInv, NewInv, IndexInv
  <2>3. AllResolve(disk', newIndex)
    BY <1>1, <2>2, ResolvesKept
  <2>4. f.len \in Nat /\ newID \in Nat /\ IsIndex(newIndex)
    BY <1>1 DEF IsFile, TypeInv, TypeOK
  <2>5. /\ newIndex'[k] = [file |-> newID, off |-> f.len, tomb |-> FALSE]
        /\ \A j \in Key : j # k => newIndex'[j] = newIndex[j]
    BY <1>2, <2>4 DEF IndexPut, IsIndex
  <2>6. e.key = k /\ ~e.tomb /\ ~e.torn
    <3>1. k \in LiveEntries(index)
      BY <1>2 DEF LiveTodo, LocInv
    <3> QED
      BY <2>2, <3>1 DEF AllResolve, Resolves, ReadAt, Copied, PutEntry
  <2>7. ASSUME NEW j \in LiveEntries(newIndex')
        PROVE  newIndex'[j].file = newID /\ Resolves(disk', j, newIndex'[j])
    <3>1. CASE j = k
      BY <1>1, <2>5, <2>6, <3>1 DEF Resolves, CanReadAt, ReadAt
    <3>2. CASE j # k
      <4>1. j \in LiveEntries(newIndex) /\ newIndex'[j] = newIndex[j]
        BY <2>5, <2>7, <3>2 DEF LiveEntries
      <4> QED
        BY <2>2, <2>3, <4>1 DEF AllIn, AllResolve
    <3> QED
      BY <3>1, <3>2
  <2> QED
    BY <1>2, <2>7 DEF AllIn, AllResolve
<1>6. NewInv'
  BY <1>2, <1>5 DEF NewInv
<1>7. HintInv'
  BY <1>1, <1>2, HintKept DEF LocInv
<1>8. LiveTodo'
  BY <1>2 DEF LocInv, LiveTodo, MergeCopy
<1> QED
  BY <1>2, <1>3, <1>4, <1>6, <1>7, <1>8 DEF LocInv, EmptyInv, RemoveInv

\* newSeg.Sync makes every new location durable.
LEMMA MergeSyncRes == ASSUME TypeInv, TypeInv', LocInv, MergeSync PROVE LocInv'
<1> DEFINE f == disk[newID]
<1>1. /\ newID \in DOMAIN disk /\ IsFile(f)
      /\ DiskOK(disk') /\ DiskKeeps(disk, disk') /\ DOMAIN disk' = DOMAIN disk
      /\ disk'[newID] = Sync(f)
      /\ \A id \in DOMAIN disk : disk'[id].len = disk[id].len
  BY MergeSyncDisk
<1>2. /\ pc = "copy" /\ pc' = "hint" /\ hint' = "torn"
      /\ UNCHANGED <<hintIndex, up, index, segments, activeID, size, newID, newIndex, faults>>
  BY DEF MergeSync, memVars
<1>3. SizeInv'
  BY <1>1, <1>2 DEF LocInv, SizeInv, TypeInv, Shape
<1>4. IndexInv'
  BY <1>1, <1>2, ResolvesKept DEF LocInv, IndexInv, Damaged
<1>5. ASSUME ~Damaged'
      PROVE  AllIn(newIndex, {newID}) /\ AllResolve(disk', newIndex) /\ AllDurable(disk', newIndex)
  <2>1. AllIn(newIndex, {newID}) /\ AllResolve(disk, newIndex)
    BY <1>2, <1>5 DEF LocInv, NewInv, Damaged
  <2>2. AllResolve(disk', newIndex)
    BY <1>1, <2>1, ResolvesKept
  <2>3. ASSUME NEW k \in LiveEntries(newIndex)
        PROVE  DurablyResolves(disk', k, newIndex[k])
    <3>1. newIndex[k].file = newID /\ Resolves(disk, k, newIndex[k])
      BY <2>1 DEF AllIn, AllResolve
    <3>2. newIndex[k].off \in DOMAIN f.at /\ ~f.at[newIndex[k].off].torn
      BY <3>1 DEF Resolves, CanReadAt
    <3>3. newIndex[k].off + frameSize(f.at[newIndex[k].off]) <= f.len
      BY <1>1, <3>2 DEF IsFile
    <3>4. Sync(f).synced = f.len /\ Sync(f).at = f.at
      BY DEF Sync
    <3> QED
      BY <1>1, <2>2, <3>1, <3>3, <3>4 DEF DurablyResolves, ReadAt, AllResolve
  <2> QED
    BY <2>1, <2>2, <2>3 DEF AllDurable
<1>6. NewInv'
  BY <1>2, <1>5 DEF NewInv
<1> QED
  BY <1>2, <1>3, <1>4, <1>6 DEF LocInv, EmptyInv, LiveTodo, RemoveInv, HintInv

\* The hint file names the durable locations of the new index.
LEMMA MergeHintRes == ASSUME TypeInv, TypeInv', LocInv, MergeHint PROVE LocInv'
<1>1. /\ pc = "hint" /\ pc' = "remove" /\ hintIndex' = newIndex
      /\ UNCHANGED <<disk, up, index, segments, activeID, size, newID, newIndex, faults>>
  BY DEF MergeHint, memVars
<1>2. SizeInv'
  BY <1>1 DEF LocInv, SizeInv
<1>3. NewInv' /\ HintInv'
  BY <1>1 DEF LocInv, NewInv, HintInv, Damaged
<1> QED
  BY <1>1, <1>2, <1>3 DEF LocInv, IndexInv, EmptyInv, LiveTodo, RemoveInv

\* Removing an old segment leaves the new one alone.
LEMMA RemoveSegmentRes ==
  ASSUME TypeInv, TypeInv', LocInv, NEW id \in segments, RemoveSegment(id) PROVE LocInv'
<1>1. /\ pc \in {"remove", "reset"} /\ segments' = segments \ {id}
      /\ disk' = WithoutSegment(disk, id)
      /\ UNCHANGED <<hint, hintIndex, up, index, activeID, size, pc, newID, newIndex, faults>>
  BY DEF RemoveSegment, mergeVars
<1>2. SizeInv'
  BY <1>1 DEF LocInv, SizeInv, WithoutSegment, TypeInv, Shape
<1>3. ASSUME pc = "remove", ~Damaged'
      PROVE  AllIn(newIndex, {newID}) /\ AllResolve(disk', newIndex) /\ AllDurable(disk', newIndex)
  <2>1. AllIn(newIndex, {newID}) /\ AllResolve(disk, newIndex) /\ AllDurable(disk, newIndex)
    BY <1>1, <1>3 DEF LocInv, NewInv, Damaged
  <2>2. newID # id
    BY <1>3 DEF TypeInv, TypeOK, Shape, FileID
  <2>3. \A k \in LiveEntries(newIndex) : newIndex[k].file # id
    BY <2>1, <2>2 DEF AllIn
  <2> QED
    BY <1>1, <2>1, <2>3, DurableWithout
<1>4. NewInv'
  BY <1>1, <1>3 DEF NewInv
<1>5. HintInv'
  BY <1>1, <1>3 DEF LocInv, RemoveInv, HintInv
<1> QED
  BY <1>1, <1>2, <1>4, <1>5 DEF LocInv, IndexInv, EmptyInv, LiveTodo, RemoveInv

\* The new index takes over, and resolves.
LEMMA MergePromoteRes == ASSUME TypeInv, TypeInv', LocInv, MergePromote PROVE LocInv'
<1>1. /\ pc = "remove" /\ pc' = "idle" /\ segments' = {newID} /\ activeID' = newID
      /\ size' = disk[newID].len /\ index' = newIndex
      /\ UNCHANGED <<disk, hint, hintIndex, up, faults>>
  BY DEF MergePromote, diskVars
<1>2. IndexInv'
  BY <1>1 DEF LocInv, NewInv, IndexInv, Damaged
<1>3. HintInv'
  BY <1>1 DEF LocInv, HintInv, Damaged
<1>4. SizeInv'
  BY <1>1 DEF SizeInv
<1> QED
  BY <1>1, <1>2, <1>3, <1>4 DEF LocInv, EmptyInv, NewInv, LiveTodo, RemoveInv

\* resetToEmpty has no live key to lose.
LEMMA ResetRes ==
  ASSUME TypeInv, TypeInv', LocInv, ResetStart \/ ResetHint \/ ResetFresh PROVE LocInv'
<1>1. CASE ResetStart
  <2>1. /\ pc' = "reset" /\ LiveEntries(index) = {} /\ activeID \in segments
        /\ disk' = SyncedActive /\ UNCHANGED <<up, index, segments, activeID, size, faults>>
    BY <1>1 DEF ResetStart, CanAppend, memVars
  <2>2. SizeInv'
    BY <2>1, SyncedActiveOK DEF LocInv, SizeInv, TypeInv, Shape
  <2> QED
    BY <2>1, <2>2 DEF LocInv, IndexInv, EmptyInv, NewInv, LiveTodo, RemoveInv, HintInv
<1>2. CASE ResetHint
  <2>1. /\ pc = "reset" /\ pc' = "fresh" /\ hint' = "none"
        /\ UNCHANGED <<disk, up, index, segments, activeID, size, faults>>
    BY <1>2 DEF ResetHint, memVars
  <2>2. SizeInv'
    BY <2>1 DEF LocInv, SizeInv
  <2> QED
    BY <2>1, <2>2 DEF LocInv, IndexInv, EmptyInv, NewInv, LiveTodo, RemoveInv, HintInv
<1>3. CASE ResetFresh
  <2>1. /\ pc = "fresh" /\ pc' = "idle" /\ activeID' = 1 /\ size' = disk'[1].len
        /\ index' = NewIndex /\ UNCHANGED <<hint, hintIndex, faults>>
    BY <1>3 DEF ResetFresh
  <2>2. SizeInv'
    BY <2>1 DEF SizeInv
  <2>3. HintInv'
    BY <1>3, <2>1, ResetFreshDisk, HintKept DEF LocInv
  <2>4. IndexInv'
    BY <2>1, NewIndexResolves DEF IndexInv
  <2> QED
    BY <2>1, <2>2, <2>3, <2>4 DEF LocInv, EmptyInv, NewInv, LiveTodo, RemoveInv
<1> QED
  BY <1>1, <1>2, <1>3

\* Merge gave up before its removals: the old index is in force, as it was.
LEMMA AbortRes ==
  ASSUME TypeInv, TypeInv', LocInv, MergeAborts({"merge"}), pc \in {"copy", "hint"},
         DiskKeeps(disk, disk'), segments' = segments,
         activeID \in segments => disk'[activeID].len = disk[activeID].len,
         HintInv'
  PROVE  LocInv'
<1>1. /\ pc' = "idle" /\ faults' = faults \cup {"merge"}
      /\ UNCHANGED <<up, index, activeID, size>>
  BY DEF MergeAborts
<1>2. SizeInv'
  BY <1>1 DEF LocInv, SizeInv
<1>3. IndexInv'
  <2> SUFFICES ASSUME up, ~Damaged' PROVE AllIn(index, segments) /\ AllResolve(disk', index)
    BY <1>1 DEF IndexInv
  <2>1. ~Damaged
    BY <1>1 DEF Damaged
  <2>2. AllIn(index, segments) /\ AllResolve(disk, index)
    BY <2>1 DEF LocInv, IndexInv
  <2> QED
    BY <2>2, ResolvesKept
<1> QED
  BY <1>1, <1>2, <1>3 DEF LocInv, EmptyInv, NewInv, LiveTodo, RemoveInv

\* The error paths of Merge before its removals keep the invariant.
LEMMA MergeFailsRes ==
  ASSUME TypeInv, TypeInv', LocInv,
         (\E k \in Key : MergeReadFails(k)) \/ MergeCopyFails \/ MergeHintFails
  PROVE  LocInv'
<1>1. DiskOK(disk) /\ DiskKeeps(disk, disk)
  BY DiskKeepsReflexive DEF TypeInv, Shape
<1>2. ASSUME NEW k \in Key, MergeReadFails(k) PROVE LocInv'
  <2>1. /\ MergeAborts({"merge"}) /\ pc = "copy" /\ faults \subseteq faults'
        /\ UNCHANGED <<disk, hint, hintIndex, segments>>
    BY <1>2 DEF MergeReadFails, MergeAborts, diskVars
  <2>2. HintInv'
    BY <1>1, <2>1, HintKept DEF LocInv
  <2> QED
    BY <1>1, <2>1, <2>2, AbortRes
<1>3. CASE MergeCopyFails
  <2>1. /\ MergeAborts({"merge"}) /\ pc = "copy" /\ faults \subseteq faults'
        /\ UNCHANGED <<hint, hintIndex, segments>>
    BY <1>3 DEF MergeCopyFails, MergeAborts
  <2>2. DiskOK(disk') /\ DiskKeeps(disk, disk')
    BY <1>3, MergeCopyFailsDisk
  <2>3. HintInv'
    BY <2>1, <2>2, HintKept DEF LocInv
  <2>4. activeID \in segments => disk'[activeID].len = disk[activeID].len
    <3>1. activeID \in segments => activeID # newID /\ activeID \in DOMAIN disk
      BY <2>1 DEF TypeInv, TypeOK, Shape
    <3>2. disk' = disk \/ \E g : disk' = [disk EXCEPT ![newID] = g]
      BY <1>3 DEF MergeCopyFails
    <3> QED
      BY <3>1, <3>2
  <2> QED
    BY <2>1, <2>2, <2>3, <2>4, AbortRes
<1>4. CASE MergeHintFails
  <2>1. /\ MergeAborts({"merge"}) /\ pc = "hint" /\ faults \subseteq faults'
        /\ UNCHANGED <<disk, segments>>
    BY <1>4 DEF MergeHintFails, MergeAborts
  <2>2. CASE UNCHANGED <<hint, hintIndex>>
    <3>1. HintInv'
      BY <1>1, <2>1, <2>2, HintKept DEF LocInv
    <3> QED
      BY <1>1, <2>1, <3>1, AbortRes
  <2>3. CASE hint' = "whole" /\ hintIndex' = newIndex
    <3>1. ~Damaged' => AllResolve(disk, newIndex)
      BY <2>1, FaultsGrow DEF LocInv, NewInv
    <3>2. HintInv'
      BY <2>1, <2>3, <3>1 DEF HintInv
    <3> QED
      BY <1>1, <2>1, <3>2, AbortRes
  <2> QED
    BY <1>4, <2>2, <2>3 DEF MergeHintFails
<1> QED
  BY <1>2, <1>3, <1>4

\* An error in the removals damages the store.
LEMMA RemovalFailsRes ==
  ASSUME TypeInv, TypeInv', LocInv, ResetFails \/ \E id \in segments : RemoveFails(id)
  PROVE  LocInv'
<1>1. DiskOK(disk) /\ DiskKeeps(disk, disk)
  BY DiskKeepsReflexive DEF TypeInv, Shape
<1>2. /\ pc' = "idle" /\ segments' \subseteq segments /\ faults \subseteq faults'
      /\ UNCHANGED <<disk, hint, hintIndex, up, index, activeID, size>>
  BY DEF ResetFails, RemoveFails, MergeAborts, diskVars
<1>3. SizeInv'
  BY <1>2 DEF LocInv, SizeInv
<1>4. CASE pc = "fresh"
  <2>1. HintInv'
    BY <1>1, <1>2, <1>4, HintKept DEF LocInv
  <2>2. LiveEntries(index') = {}
    BY <1>2, <1>4 DEF LocInv, EmptyInv
  <2>3. IndexInv'
    BY <2>2 DEF IndexInv, AllIn, AllResolve
  <2> QED
    BY <1>2, <1>3, <2>1, <2>3 DEF LocInv, EmptyInv, NewInv, LiveTodo, RemoveInv
<1>5. CASE pc # "fresh"
  <2>1. pc \in {"remove", "reset"} /\ pc \in faults'
    BY <1>5 DEF ResetFails, RemoveFails, MergeAborts, Fault
  <2>2. Damaged'
    BY <2>1 DEF Damaged
  <2> QED
    BY <1>2, <1>3, <2>2 DEF LocInv, IndexInv, EmptyInv, NewInv, LiveTodo, RemoveInv, HintInv
<1> QED
  BY <1>4, <1>5

\* A store that is down satisfies the parts about its memory.
LEMMA DownRes ==
  ASSUME TypeInv, TypeInv', Down, HintInv' PROVE LocInv'
BY DEF Down, LocInv, SizeInv, IndexInv, EmptyInv, NewInv, LiveTodo, RemoveInv

\* Close and every crash keep the invariant.
LEMMA CrashRes ==
  ASSUME TypeInv, TypeInv', LocInv, PowerLoss => DurInv, Close \/ Crash PROVE LocInv'
<1>1. DiskOK(disk) /\ DiskKeeps(disk, disk) /\ segments \subseteq DOMAIN disk
  BY DiskKeepsReflexive DEF TypeInv, Shape
<1>2. CASE Close
  <2>1. Down /\ pc = "idle" /\ UNCHANGED <<disk, hint, hintIndex, faults>>
    BY <1>2 DEF Close, Ready, diskVars
  <2>2. HintInv'
    BY <1>1, <2>1, HintKept DEF LocInv
  <2> QED
    BY <2>1, <2>2, DownRes
<1>3. CASE Kill
  <2>1. /\ Down /\ UNCHANGED <<disk, hint, hintIndex>> /\ faults \subseteq faults'
        /\ pc = "reset" => "reset" \in faults'
    BY <1>3 DEF Kill, CrashFault, diskVars
  <2>2. CASE pc = "reset"
    BY <2>1, <2>2, DownRes DEF HintInv, Damaged
  <2>3. CASE pc # "reset"
    BY <1>1, <2>1, <2>3, HintKept, DownRes DEF LocInv
  <2> QED
    BY <2>2, <2>3
<1>4. ASSUME NEW e \in WriteEntries, NEW n \in 1 .. frameSize(e), KillInWrite(e, n)
      PROVE  LocInv'
  <2>1. e \in Entry /\ n \in Nat \ {0} /\ activeID \in DOMAIN disk
    BY <1>1, <1>4, WriteEntryTypes, EntryTypes DEF KillInWrite, CanAppend
  <2>2. DiskOK(disk') /\ DiskKeeps(disk, disk')
    BY <1>4, <2>1, PrefixOK DEF KillInWrite
  <2>3. Down /\ pc = "idle" /\ UNCHANGED <<hint, hintIndex, faults>>
    BY <1>4 DEF KillInWrite, CanAppend, Ready
  <2> QED
    BY <2>2, <2>3, HintKept, DownRes DEF LocInv
<1>5. ASSUME NEW k \in todo, KillInCopy(k) PROVE LocInv'
  <2>1. newID \in DOMAIN disk /\ Copied(k) \in Entry
    BY <1>5, CopiedType DEF KillInCopy, TypeInv, Shape
  <2>2. PICK n \in 1 .. frameSize(Copied(k)) - 1 :
          disk' = [disk EXCEPT ![newID] = AppendPrefix(@, Copied(k), n)]
    BY <1>5 DEF KillInCopy
  <2>3. n \in Nat \ {0}
    BY <2>1, EntryTypes
  <2>4. DiskOK(disk') /\ DiskKeeps(disk, disk')
    BY <2>1, <2>2, <2>3, PrefixOK
  <2>5. Down /\ pc = "copy" /\ UNCHANGED <<hint, hintIndex, faults>>
    BY <1>5 DEF KillInCopy
  <2> QED
    BY <2>4, <2>5, HintKept, DownRes DEF LocInv
<1>6. CASE PowerLoss
  <2>1. /\ Down /\ UNCHANGED <<hint, hintIndex>> /\ faults \subseteq faults'
        /\ pc = "reset" => "reset" \in faults'
    BY <1>6 DEF PowerLoss, CrashFault
  <2>2. IsIndex(hintIndex)
    BY DEF TypeInv, TypeOK
  <2>3. CASE pc = "reset"
    BY <2>1, <2>3, DownRes DEF HintInv, Damaged
  <2>4. CASE pc # "reset"
    <3>1. ASSUME hint = "whole", ~Damaged' PROVE AllResolve(disk', hintIndex)
      <4>1. AllDurable(disk, hintIndex)
        BY <1>6, <2>1, <2>4, <3>1, FaultsGrow DEF DurInv
      <4> QED
        BY <1>6, <2>2, <4>1, DurableSurvives, DurableResolves
    <3>2. HintInv'
      BY <2>1, <3>1 DEF HintInv
    <3> QED
      BY <2>1, <3>2, DownRes
  <2> QED
    BY <2>3, <2>4
<1> QED
  BY <1>2, <1>3, <1>4, <1>5, <1>6 DEF Crash

\* Every step keeps the invariant.
LEMMA NextLocInv == TypeInv /\ LocInv /\ (PowerLoss => DurInv) /\ [Next]_vars => LocInv'
<1> SUFFICES ASSUME TypeInv, LocInv, PowerLoss => DurInv, [Next]_vars PROVE LocInv'
  OBVIOUS
<1>0. TypeInv'
  BY NextTypeInv
<1>1. CASE UNCHANGED vars
  BY <1>1 DEF vars, diskVars, memVars, mergeVars, LocInv, SizeInv, IndexInv, EmptyInv,
     NewInv, LiveTodo, RemoveInv, HintInv, Damaged
<1>2. CASE Open
  BY <1>0, <1>2, OpenRes
<1>3. CASE \E k \in Key : Delete(k) \/ \E v \in Value : Put(k, v)
  BY <1>0, <1>3, PutRes, OtherWritesRes
<1>4. CASE MergeStart \/ ResetStart
  BY <1>0, <1>4, MergeStartRes, ResetRes
<1>5. CASE MergeStep
  BY <1>0, <1>5, MergeCopyRes, MergeFailsRes, MergeSyncRes, MergeHintRes, MergePromoteRes,
     ResetRes, RemoveSegmentRes DEF MergeStep
<1>6. CASE IOError
  BY <1>0, <1>6, AppendFailsRes, OtherWritesRes, MergeFailsRes, RemovalFailsRes DEF IOError
<1>7. CASE Close \/ Crash
  BY <1>0, <1>7, CrashRes
<1> QED
  BY <1>1, <1>2, <1>3, <1>4, <1>5, <1>6, <1>7 DEF Next

(***************************************************************************)
(* DurInv.  Files lose nothing but by a power loss or when they are        *)
(* removed.                                                                *)
(***************************************************************************)
LEMMA StepKeeps ==
  ASSUME TypeInv, [Next]_vars
  PROVE  DiskKeeps(disk, disk') \/ PowerLoss \/ \E id \in segments : RemoveSegment(id)
<1>1. /\ DiskOK(disk) /\ DiskKeeps(disk, disk) /\ segments \subseteq DOMAIN disk
      /\ SyncOnWrite \in BOOLEAN
  BY DiskKeepsReflexive, StoreAssumption DEF TypeInv, Shape
<1>2. 1 \in FileID /\ 1 <= MaxFileID + 1
  BY StoreAssumption DEF FileID
<1>3. ASSUME UNCHANGED disk PROVE DiskKeeps(disk, disk')
  BY <1>1, <1>3
<1>4. ASSUME disk' = WithSegment(disk, 1) PROVE DiskKeeps(disk, disk')
  BY <1>1, <1>2, <1>4, WithSegmentKeeps
<1>5. CASE UNCHANGED vars
  BY <1>3, <1>5 DEF vars, diskVars
<1>6. CASE Open
  BY <1>3, <1>4, <1>6 DEF Open, OpenEmpty, OpenHint, OpenScan, Opened
<1>7. ASSUME NEW e \in Entry, NEW sync \in BOOLEAN, CanAppend,
             Written(e, sync) \/ WrittenAndRotated(e, sync)
      PROVE  DiskKeeps(disk, disk')
  BY <1>7, WrittenType, WrittenAndRotatedType DEF CanAppend
<1>8. CASE \E k \in Key : Delete(k) \/ \E v \in Value : Put(k, v)
  BY <1>1, <1>7, <1>8, EntryTypes DEF Delete, Put
<1>9. ASSUME NEW e \in WriteEntries, SyncFails(e) \/ RotateFails(e) PROVE DiskKeeps(disk, disk')
  BY <1>1, <1>7, <1>9, WriteEntryTypes DEF SyncFails, RotateFails
<1>10. ASSUME NEW e \in WriteEntries, NEW n \in 1 .. frameSize(e),
              AppendFails(e, n) \/ KillInWrite(e, n)
       PROVE  DiskKeeps(disk, disk')
  <2>1. e \in Entry /\ n \in Nat \ {0} /\ activeID \in DOMAIN disk
    BY <1>1, <1>10, WriteEntryTypes, EntryTypes DEF AppendFails, KillInWrite, CanAppend
  <2> QED
    BY <1>10, <2>1, PrefixOK DEF AppendFails, KillInWrite
<1>11. ASSUME NEW e \in WriteEntries, NEW n \in 1 .. frameSize(e) - 1
       PROVE  n \in 1 .. frameSize(e)
  BY WriteEntryTypes, EntryTypes
<1>12. CASE MergeStart
  BY <1>12, MergeStartDisk
<1>13. CASE ResetStart
  BY <1>13, SyncedActiveOK DEF ResetStart, CanAppend
<1>14. ASSUME NEW k \in Key, MergeCopy(k) PROVE DiskKeeps(disk, disk')
  BY <1>14, MergeCopyDisk
<1>15. CASE MergeCopyFails
  BY <1>15, MergeCopyFailsDisk
<1>16. CASE MergeSync
  BY <1>16, MergeSyncDisk
<1>17. CASE \/ \E k \in Key : MergeReadFails(k)
            \/ MergeHint \/ MergeHintFails \/ MergePromote \/ ResetHint \/ ResetFails
            \/ \E id \in segments : RemoveFails(id)
            \/ Close \/ Kill
  BY <1>3, <1>17 DEF MergeReadFails, MergeHint, MergeHintFails, MergePromote, ResetHint, ResetFails,
     RemoveFails, Close, Kill, diskVars
<1>18. CASE ResetFresh
  BY <1>4, <1>18 DEF ResetFresh
<1>19. ASSUME NEW k \in todo, KillInCopy(k) PROVE DiskKeeps(disk, disk')
  <2>1. newID \in DOMAIN disk /\ Copied(k) \in Entry
    BY <1>19, CopiedType DEF KillInCopy, TypeInv, Shape
  <2>2. PICK n \in 1 .. frameSize(Copied(k)) - 1 :
          disk' = [disk EXCEPT ![newID] = AppendPrefix(@, Copied(k), n)]
    BY <1>19 DEF KillInCopy
  <2>3. n \in Nat \ {0}
    BY <2>1, EntryTypes
  <2> QED
    BY <2>1, <2>2, <2>3, PrefixOK
<1> QED
  BY <1>5, <1>6, <1>8, <1>9, <1>10, <1>11, <1>12, <1>13, <1>14, <1>15, <1>16, <1>17, <1>18, <1>19
  DEF Next, MergeStep, IOError, Crash

\* The hint file stays, or Merge writes one from its new index.
LEMMA StepHint ==
  ASSUME [Next]_vars, hint' = "whole"
  PROVE  UNCHANGED <<hint, hintIndex>> \/ (pc = "hint" /\ hintIndex' = newIndex /\ disk' = disk)
<1>1. CASE UNCHANGED vars
  BY <1>1 DEF vars, diskVars
<1>2. CASE Open \/ Close \/ Crash
  BY <1>2 DEF Open, OpenEmpty, OpenHint, OpenScan, Opened, Close, Crash, Kill, KillInWrite,
     KillInCopy, PowerLoss, diskVars
<1>3. CASE (\E k \in Key : Delete(k) \/ \E v \in Value : Put(k, v)) \/ MergeStart \/ ResetStart
  BY <1>3 DEF Delete, Put, MergeStart, ResetStart
<1>4. CASE MergeStep
  BY <1>4 DEF MergeStep, MergeCopy, MergeReadFails, MergeSync, MergeHint, MergePromote,
     ResetHint, ResetFresh, RemoveSegment, diskVars
<1>5. CASE IOError
  BY <1>5 DEF IOError, AppendFails, SyncFails, RotateFails, MergeCopyFails, MergeHintFails,
     ResetFails, RemoveFails, diskVars
<1> QED
  BY <1>1, <1>2, <1>3, <1>4, <1>5 DEF Next

\* Merge leaves resetToEmpty's removals without the hint file, or damaged.
LEMMA ResetEnds ==
  ASSUME [Next]_vars, pc = "reset", pc' # "reset" PROVE Damaged' \/ hint' = "none"
<1>1. ASSUME "reset" \in faults' PROVE Damaged'
  BY <1>1 DEF Damaged
<1>2. CASE UNCHANGED vars
  BY <1>2 DEF vars, mergeVars
<1>3. CASE Open \/ Close \/ Crash
  BY <1>1, <1>3 DEF Open, OpenEmpty, OpenHint, OpenScan, Opened, Close, Crash, Kill, KillInWrite,
     KillInCopy, PowerLoss, CanAppend, Ready, CrashFault, mergeVars
<1>4. CASE (\E k \in Key : Delete(k) \/ \E v \in Value : Put(k, v)) \/ MergeStart \/ ResetStart
  BY <1>4 DEF Delete, Put, MergeStart, ResetStart, CanAppend, Ready
<1>5. CASE MergeStep
  BY <1>5 DEF MergeStep, MergeCopy, MergeReadFails, MergeSync, MergeHint, MergePromote,
     ResetHint, ResetFresh, RemoveSegment, mergeVars
<1>6. CASE IOError
  BY <1>1, <1>6 DEF IOError, AppendFails, SyncFails, RotateFails, MergeCopyFails, MergeHintFails,
     ResetFails, RemoveFails, MergeAborts, CanAppend, Ready, Fault
<1> QED
  BY <1>2, <1>3, <1>4, <1>5, <1>6 DEF Next

\* No step forgets a fault.
LEMMA FaultsOnlyGrow == ASSUME [Next]_vars PROVE faults \subseteq faults'
<1>1. CASE UNCHANGED vars
  BY <1>1 DEF vars
<1>2. CASE Open \/ Close \/ Crash
  BY <1>2 DEF Open, OpenEmpty, OpenHint, OpenScan, Opened, Close, Crash, Kill, KillInWrite,
     KillInCopy, PowerLoss, CrashFault
<1>3. CASE (\E k \in Key : Delete(k) \/ \E v \in Value : Put(k, v)) \/ MergeStart \/ ResetStart
  BY <1>3 DEF Delete, Put, MergeStart, ResetStart
<1>4. CASE MergeStep
  BY <1>4 DEF MergeStep, MergeCopy, MergeReadFails, MergeSync, MergeHint, MergePromote,
     ResetHint, ResetFresh, RemoveSegment, MergeAborts
<1>5. CASE IOError
  BY <1>5 DEF IOError, AppendFails, SyncFails, RotateFails, MergeCopyFails, MergeHintFails,
     ResetFails, RemoveFails, MergeAborts
<1> QED
  BY <1>1, <1>2, <1>3, <1>4, <1>5 DEF Next

\* Every step keeps it.
LEMMA NextDurInv == TypeInv /\ TypeInv' /\ LocInv /\ DurInv /\ [Next]_vars => DurInv'
<1> SUFFICES ASSUME TypeInv, TypeInv', LocInv, DurInv, [Next]_vars, hint' = "whole", ~Damaged',
                    pc' # "reset"
             PROVE  AllDurable(disk', hintIndex')
  BY DEF DurInv
<1>1. /\ ~Damaged /\ pc # "reset" /\ DiskOK(disk) /\ DiskOK(disk') /\ IsIndex(hintIndex)
  BY FaultsOnlyGrow, FaultsGrow, ResetEnds DEF TypeInv, TypeOK, Shape
<1>2. CASE pc = "hint" /\ hintIndex' = newIndex /\ disk' = disk
  BY <1>1, <1>2 DEF LocInv, NewInv
<1>3. CASE UNCHANGED <<hint, hintIndex>>
  <2>1. AllDurable(disk, hintIndex)
    BY <1>1, <1>3 DEF DurInv
  <2>2. CASE DiskKeeps(disk, disk')
    BY <1>1, <1>3, <2>1, <2>2, DurableKept
  <2>3. CASE PowerLoss
    BY <1>1, <1>3, <2>1, <2>3, DurableSurvives
  <2>4. ASSUME NEW id \in segments, RemoveSegment(id) PROVE AllDurable(disk', hintIndex')
    <3>1. pc = "remove" /\ disk' = WithoutSegment(disk, id)
      BY <1>1, <2>4 DEF RemoveSegment
    <3>2. hintIndex = newIndex /\ AllIn(newIndex, {newID}) /\ id < newID
      BY <1>1, <3>1 DEF LocInv, RemoveInv, NewInv, TypeInv, Shape
    <3>3. \A k \in LiveEntries(hintIndex) : hintIndex[k].file # id
      <4>1. id \in Nat /\ newID \in Nat
        BY DEF TypeInv, TypeOK, FileID
      <4> QED
        BY <3>2, <4>1 DEF AllIn
    <3> QED
      BY <1>3, <2>1, <3>1, <3>3, DurableWithout
  <2> QED
    BY <2>2, <2>3, <2>4, StepKeeps
<1> QED
  BY <1>2, <1>3, StepHint

\* The part that does not depend on what is durable.
LEMMA ResLoc == ResInv => LocInv
BY DEF ResInv

\* Both hold initially.
LEMMA InitResInv == Init => ResInv
BY InitLocInv DEF Init, ResInv, DurInv

\* Every step keeps both.
LEMMA NextResInv == TypeInv /\ ResInv /\ [Next]_vars => ResInv'
BY NextTypeInv, NextLocInv, NextDurInv DEF ResInv

(***************************************************************************)
(* While no append and no removal has failed and no crash has interrupted  *)
(* resetToEmpty, the location of every live key is the first byte of a     *)
(* whole record of that key in an open segment: Get cannot fail on it.     *)
(***************************************************************************)
THEOREM IndexAlwaysResolves == Spec => []IndexResolves
<1>1. ResInv => IndexResolves
  BY DEF ResInv, LocInv, IndexInv, IndexResolves, AllIn, AllResolve
<1> QED
  BY InitTypeInv, NextTypeInv, InitResInv, NextResInv, <1>1, PTL DEF Spec

(***************************************************************************)
(* Under the same condition a hint file that Open would load names only    *)
(* whole records on stable storage, whatever crash or power loss came      *)
(* between any two steps of Merge.                                         *)
(***************************************************************************)
THEOREM HintAlwaysResolves == Spec => []HintResolves
<1>1. ResInv => HintResolves
  BY DEF ResInv, DurInv, HintResolves, AllDurable
<1> QED
  BY InitTypeInv, NextTypeInv, InitResInv, NextResInv, <1>1, PTL DEF Spec

(***************************************************************************)
(* The strengthening: while Merge copies, every key it is done with reads  *)
(* the same through the index it builds as through the one in force.       *)
(* Without it the switch to the new index could show anything.             *)
(***************************************************************************)
SameThroughNew(k) == Get(newIndex, {newID}, disk, k) = Get(index, segments, disk, k)

CopyInv ==
  (up /\ ~Damaged) =>
    /\ pc = "copy" => \A k \in Key \ todo : SameThroughNew(k)
    /\ pc = "hint" => \A k \in Key : SameThroughNew(k)

ReadInv == CopyInv /\ ReadsAcked

Shows == up /\ ~Damaged

(***************************************************************************)
(* Get through an index whose live locations resolve.                      *)
(***************************************************************************)
LEMMA GetResolved ==
  ASSUME NEW d, NEW m, NEW s, AllIn(m, s), AllResolve(d, m), NEW k \in Key
  PROVE  Get(m, s, d, k) = IF m[k].tomb THEN NoValue ELSE d[m[k].file].at[m[k].off].val
BY DEF Get, AllIn, AllResolve, LiveEntries, Resolves, CanReadAt, ReadAt

\* It does not change when files grow or more segments are open.
LEMMA GetKept ==
  ASSUME NEW d, NEW e, DiskKeeps(d, e), NEW m, NEW s, NEW t, s \subseteq t,
         AllIn(m, s), AllResolve(d, m), NEW k \in Key
  PROVE  Get(m, t, e, k) = Get(m, s, d, k)
<1>1. AllIn(m, t) /\ AllResolve(e, m)
  BY ResolvesKept DEF AllIn
<1>2. ~m[k].tomb => e[m[k].file].at[m[k].off] = d[m[k].file].at[m[k].off]
  BY DEF AllResolve, LiveEntries, Resolves, CanReadAt, DiskKeeps, Keeps
<1> QED
  BY <1>1, <1>2, GetResolved

\* It returns a value or "not found", never an error.
LEMMA GetNoError ==
  ASSUME NEW d, DiskOK(d), NEW m, NEW s, AllIn(m, s), AllResolve(d, m), NEW k \in Key
  PROVE  Get(m, s, d, k) \in Value \cup {NoValue}
<1>1. CASE m[k].tomb
  BY <1>1, GetResolved
<1>2. CASE ~m[k].tomb
  <2>1. d[m[k].file].at[m[k].off] \in Entry
    BY <1>2 DEF AllResolve, LiveEntries, Resolves, CanReadAt, DiskOK, IsFile
  <2> QED
    BY <1>2, <2>1, GetResolved DEF Entry
<1> QED
  BY <1>1, <1>2

\* Through an index without live keys every key reads as absent.
LEMMA GetAbsent ==
  ASSUME NEW m, LiveEntries(m) = {}, NEW s, NEW d, NEW k \in Key
  PROVE  Get(m, s, d, k) = NoValue
BY DEF LiveEntries, Get

\* Contents, by where Merge is.
ContentsByPC ==
  /\ pc \in {"idle", "copy"} => Contents = [k \in Key |-> Get(index, segments, disk, k)]
  /\ pc \in {"hint", "remove"} => Contents = [k \in Key |-> Get(newIndex, {newID}, disk, k)]
  /\ pc \in {"reset", "fresh"} => Contents = [k \in Key |-> NoValue]

\* The CASE of Contents, split, in a state and in its successor.
LEMMA ContentsNow == ContentsByPC
<1>1. ASSUME pc \in {"idle", "copy"}
      PROVE  Contents = [k \in Key |-> Get(index, segments, disk, k)]
  BY <1>1 DEF Contents
<1>2. ASSUME pc \in {"hint", "remove"}
      PROVE  Contents = [k \in Key |-> Get(newIndex, {newID}, disk, k)]
  BY <1>2 DEF Contents
<1>3. ASSUME pc \in {"reset", "fresh"} PROVE Contents = [k \in Key |-> NoValue]
  BY <1>3 DEF Contents
<1> QED
  BY <1>1, <1>2, <1>3 DEF ContentsByPC

\* The same in the next state.
LEMMA ContentsIs == ContentsByPC /\ ContentsByPC'
BY ContentsNow, PTL

\* A store that shows its contents shows values.
LEMMA ContentsType ==
  ASSUME TypeInv, LocInv, Shows PROVE Contents \in [Key -> Value \cup {NoValue}]
<1>1. DiskOK(disk) /\ pc \in {"idle", "copy", "hint", "remove", "reset", "fresh"}
  BY DEF TypeInv, TypeOK, Shape
<1>2. CASE pc \in {"idle", "copy"}
  <2>1. AllIn(index, segments) /\ AllResolve(disk, index)
    BY <1>2 DEF Shows, LocInv, IndexInv
  <2> QED
    BY <1>1, <1>2, <2>1, GetNoError, ContentsIs DEF ContentsByPC
<1>3. CASE pc \in {"hint", "remove"}
  <2>1. AllIn(newIndex, {newID}) /\ AllResolve(disk, newIndex)
    BY <1>3 DEF Shows, LocInv, NewInv
  <2> QED
    BY <1>1, <1>3, <2>1, GetNoError, ContentsIs DEF ContentsByPC
<1>4. CASE pc \in {"reset", "fresh"}
  BY <1>4, ContentsIs DEF ContentsByPC
<1> QED
  BY <1>1, <1>2, <1>3, <1>4

(***************************************************************************)
(* What each step does to the contents, while the store shows them.  Put   *)
(* and Delete, and a write whose Sync or rotate fails, change them at the  *)
(* key they name.                                                          *)
(***************************************************************************)
LEMMA WriteShows ==
  ASSUME TypeInv, LocInv, LocInv', CanAppend, Shows, Shows', NEW e \in WriteEntries,
         NEW sync \in BOOLEAN, Written(e, sync) \/ WrittenAndRotated(e, sync),
         UNCHANGED mergeVars
  PROVE  Contents' = [Contents EXCEPT ![e.key] = e.val]
<1>1. up /\ pc = "idle" /\ pc' = "idle" /\ activeID \in segments /\ size = disk[activeID].len
  BY DEF CanAppend, Ready, mergeVars, LocInv, SizeInv, Shows, Damaged
<1>2. e \in Entry /\ ~e.torn /\ (e.tomb => e.val = NoValue)
  BY WriteEntryTypes, WriteEntriesWhole DEF WriteEntries, PutEntry, DelEntry
<1>3. /\ DiskKeeps(disk, disk') /\ disk'[activeID] = WrittenFile(e, sync)
      /\ index' = IndexPut(index, e.key, activeID, size, e.tomb)
  <2>1. CASE Written(e, sync)
    <3>1. /\ disk' = [disk EXCEPT ![activeID] = WrittenFile(e, sync)]
          /\ index' = IndexPut(index, e.key, activeID, size, e.tomb)
      BY <2>1 DEF Written, WrittenFile
    <3> QED
      BY <1>1, <1>2, <3>1, WrittenFileOK
  <2>2. CASE WrittenAndRotated(e, sync)
    BY <1>1, <1>2, <2>2, WrittenAndRotatedType DEF WrittenAndRotated
  <2> QED
    BY <2>1, <2>2
<1>4. disk'[activeID].at[disk[activeID].len] = e
  <2>1. WrittenFile(e, sync).at[disk[activeID].len] = e
    BY <1>1, <1>2, WrittenFileOK
  <2> QED
    BY <1>3, <2>1
<1>5. /\ AllIn(index, segments) /\ AllResolve(disk, index)
      /\ AllIn(index', segments') /\ AllResolve(disk', index')
  BY <1>1 DEF Shows, LocInv, IndexInv
<1>6. e.key \in Key /\ e.tomb \in BOOLEAN /\ size \in Nat /\ activeID \in Nat /\ IsIndex(index)
  BY <1>2 DEF Entry, TypeInv, TypeOK
<1>7. /\ index'[e.key] = [file |-> activeID, off |-> size, tomb |-> e.tomb]
      /\ \A j \in Key : j # e.key => index'[j] = index[j]
  BY <1>3, <1>6, IndexPutType
<1>8. Get(index', segments', disk', e.key) = e.val
  BY <1>1, <1>2, <1>4, <1>5, <1>6, <1>7, GetResolved
<1>9. ASSUME NEW k \in Key, k # e.key
      PROVE  Get(index', segments', disk', k) = Get(index, segments, disk, k)
  <2>1. index'[k] = index[k]
    BY <1>7, <1>9
  <2>2. ~index[k].tomb => disk'[index[k].file].at[index[k].off] = disk[index[k].file].at[index[k].off]
    BY <1>3, <1>5 DEF AllResolve, LiveEntries, Resolves, CanReadAt, DiskKeeps, Keeps
  <2> QED
    BY <1>5, <2>1, <2>2, GetResolved
<1>10. /\ Contents = [k \in Key |-> Get(index, segments, disk, k)]
       /\ Contents' = [k \in Key |-> Get(index', segments', disk', k)]
  BY <1>1, ContentsIs DEF ContentsByPC
<1> QED
  BY <1>6, <1>8, <1>9, <1>10

\* Merge's first step shows nothing, and no key is copied yet.
LEMMA MergeStartShows ==
  ASSUME TypeInv, LocInv, Shows, MergeStart PROVE Contents' = Contents /\ CopyInv'
<1>1. /\ pc = "idle" /\ pc' = "copy" /\ newIndex' = NewIndex /\ todo' = LiveEntries(index)
      /\ UNCHANGED <<index, segments>>
  BY DEF MergeStart, CanAppend, Ready, memVars
<1>2. DiskKeeps(disk, disk')
  BY MergeStartDisk
<1>3. AllIn(index, segments) /\ AllResolve(disk, index)
  BY <1>1 DEF Shows, LocInv, IndexInv
<1>4. \A k \in Key : Get(index', segments', disk', k) = Get(index, segments, disk, k)
  BY <1>1, <1>2, <1>3, GetKept
<1>5. ASSUME NEW k \in Key \ todo' PROVE SameThroughNew(k)'
  <2>1. index[k].tomb
    BY <1>1, <1>5 DEF LiveEntries
  <2>2. Get(index', segments', disk', k) = NoValue
    BY <1>1, <2>1 DEF Get
  <2>3. Get(newIndex', {newID'}, disk', k) = NoValue
    BY <1>1, NewIndexType, GetAbsent
  <2> QED
    BY <2>2, <2>3 DEF SameThroughNew
<1>6. /\ Contents = [k \in Key |-> Get(index, segments, disk, k)]
      /\ Contents' = [k \in Key |-> Get(index', segments', disk', k)]
  BY <1>1, ContentsIs DEF ContentsByPC
<1> QED
  BY <1>1, <1>4, <1>5, <1>6 DEF CopyInv

\* A turn of the copy loop: the copied key reads the same in the new segment.
LEMMA MergeCopyShows ==
  ASSUME TypeInv, LocInv, LocInv', CopyInv, Shows, NEW k \in Key, MergeCopy(k)
  PROVE  Contents' = Contents /\ CopyInv'
<1> DEFINE f == disk[newID]
<1>1. /\ pc = "copy" /\ pc' = "copy" /\ k \in todo /\ todo' = todo \ {k}
      /\ newIndex' = IndexPut(newIndex, k, newID, f.len, FALSE)
      /\ UNCHANGED <<up, index, segments, newID, faults>>
  BY DEF MergeCopy, memVars
<1>2. /\ DiskKeeps(disk, disk') /\ IsFile(f) /\ disk'[newID].at[f.len] = Copied(k)
  BY MergeCopyDisk
<1>3. /\ AllIn(index, segments) /\ AllResolve(disk, index)
      /\ AllIn(newIndex, {newID}) /\ AllResolve(disk, newIndex)
      /\ AllIn(newIndex', {newID'}) /\ AllResolve(disk', newIndex')
  BY <1>1 DEF Shows, LocInv, IndexInv, NewInv, Damaged
<1>4. ASSUME NEW j \in Key
      PROVE  Get(index', segments', disk', j) = Get(index, segments, disk, j)
  BY <1>1, <1>2, <1>3, GetKept
<1>5. f.len \in Nat /\ newID \in Nat /\ IsIndex(newIndex)
  BY <1>2 DEF IsFile, TypeInv, TypeOK
<1>6. /\ newIndex'[k] = [file |-> newID, off |-> f.len, tomb |-> FALSE]
      /\ \A j \in Key : j # k => newIndex'[j] = newIndex[j]
  BY <1>1, <1>5 DEF IndexPut, IsIndex
<1>7. SameThroughNew(k)'
  <2>1. ~index[k].tomb
    BY <1>1 DEF LocInv, LiveTodo, LiveEntries
  <2>2. Get(index, segments, disk, k) = Copied(k).val
    BY <1>3, <2>1, GetResolved DEF Copied, PutEntry, ReadAt
  <2>3. Get(newIndex', {newID'}, disk', k) = disk'[newID].at[f.len].val
    BY <1>3, <1>6, GetResolved
  <2> QED
    BY <1>2, <1>4, <2>2, <2>3 DEF SameThroughNew
<1>8. ASSUME NEW j \in Key \ todo', j # k PROVE SameThroughNew(j)'
  <2>1. Get(newIndex, {newID}, disk, j) = Get(index, segments, disk, j)
    BY <1>1, <1>8 DEF CopyInv, Shows, SameThroughNew
  <2>2. Get(newIndex, {newID}, disk', j) = Get(newIndex, {newID}, disk, j)
    BY <1>2, <1>3, GetKept
  <2>3. Get(newIndex', {newID'}, disk', j) = Get(newIndex, {newID}, disk', j)
    BY <1>1, <1>6, <1>8 DEF Get
  <2> QED
    BY <1>4, <2>1, <2>2, <2>3 DEF SameThroughNew
<1>9. /\ Contents = [j \in Key |-> Get(index, segments, disk, j)]
      /\ Contents' = [j \in Key |-> Get(index', segments', disk', j)]
  BY <1>1, ContentsIs DEF ContentsByPC
<1> QED
  BY <1>1, <1>4, <1>7, <1>8, <1>9 DEF CopyInv

\* Once every key is copied, the contents may be read through the new index.
LEMMA MergeSyncShows ==
  ASSUME TypeInv, LocInv, CopyInv, Shows, MergeSync PROVE Contents' = Contents /\ CopyInv'
<1>1. /\ pc = "copy" /\ pc' = "hint" /\ todo = {}
      /\ UNCHANGED <<index, segments, newID, newIndex>>
  BY DEF MergeSync, memVars
<1>2. DiskKeeps(disk, disk')
  BY MergeSyncDisk
<1>3. /\ AllIn(index, segments) /\ AllResolve(disk, index)
      /\ AllIn(newIndex, {newID}) /\ AllResolve(disk, newIndex)
  BY <1>1 DEF Shows, LocInv, IndexInv, NewInv
<1>4. ASSUME NEW k \in Key
      PROVE  /\ SameThroughNew(k)'
             /\ Get(newIndex', {newID'}, disk', k) = Get(index, segments, disk, k)
  <2>1. Get(newIndex, {newID}, disk, k) = Get(index, segments, disk, k)
    BY <1>1 DEF CopyInv, Shows, SameThroughNew
  <2>2. Get(newIndex', {newID'}, disk', k) = Get(newIndex, {newID}, disk, k)
    BY <1>1, <1>2, <1>3, GetKept
  <2>3. Get(index', segments', disk', k) = Get(index, segments, disk, k)
    BY <1>1, <1>2, <1>3, GetKept
  <2> QED
    BY <2>1, <2>2, <2>3 DEF SameThroughNew
<1>5. /\ Contents = [k \in Key |-> Get(index, segments, disk, k)]
      /\ Contents' = [k \in Key |-> Get(newIndex', {newID'}, disk', k)]
  BY <1>1, ContentsIs DEF ContentsByPC
<1> QED
  BY <1>1, <1>4, <1>5 DEF CopyInv

\* The rest of Merge and of resetToEmpty shows nothing either.
LEMMA MergeRestShows ==
  ASSUME TypeInv, LocInv, Shows,
         \/ MergeHint \/ MergePromote \/ ResetStart \/ ResetHint \/ ResetFresh
         \/ \E id \in segments : RemoveSegment(id)
  PROVE  Contents' = Contents /\ pc' \notin {"copy", "hint"}
<1>1. CASE MergeHint
  <2>1. pc = "hint" /\ pc' = "remove" /\ UNCHANGED <<disk, newID, newIndex>>
    BY <1>1 DEF MergeHint
  <2> QED
    BY <2>1, ContentsIs DEF ContentsByPC
<1>2. CASE MergePromote
  <2>1. /\ pc = "remove" /\ pc' = "idle" /\ segments' = {newID} /\ index' = newIndex
        /\ UNCHANGED disk
    BY <1>2 DEF MergePromote, diskVars
  <2> QED
    BY <2>1, ContentsIs DEF ContentsByPC
<1>3. CASE ResetStart
  <2>1. pc = "idle" /\ pc' = "reset" /\ LiveEntries(index) = {}
    BY <1>3 DEF ResetStart, CanAppend, Ready
  <2>2. \A k \in Key : Get(index, segments, disk, k) = NoValue
    BY <2>1, GetAbsent
  <2> QED
    BY <2>1, <2>2, ContentsIs DEF ContentsByPC
<1>4. CASE ResetHint
  <2>1. pc = "reset" /\ pc' = "fresh"
    BY <1>4 DEF ResetHint
  <2> QED
    BY <2>1, ContentsIs DEF ContentsByPC
<1>5. CASE ResetFresh
  <2>1. pc = "fresh" /\ pc' = "idle" /\ index' = NewIndex
    BY <1>5 DEF ResetFresh
  <2>2. \A k \in Key : Get(index', segments', disk', k) = NoValue
    BY <2>1, NewIndexType, GetAbsent
  <2> QED
    BY <2>1, <2>2, ContentsIs DEF ContentsByPC
<1>6. ASSUME NEW id \in segments, RemoveSegment(id)
      PROVE  Contents' = Contents /\ pc' \notin {"copy", "hint"}
  <2>1. /\ pc \in {"remove", "reset"} /\ pc' = pc /\ disk' = WithoutSegment(disk, id)
        /\ UNCHANGED <<newID, newIndex>>
    BY <1>6 DEF RemoveSegment, mergeVars
  <2>2. CASE pc = "reset"
    BY <2>1, <2>2, ContentsIs DEF ContentsByPC
  <2>3. CASE pc = "remove"
    <3>1. newID # id /\ newID \in DOMAIN disk
      BY <2>3 DEF TypeInv, TypeOK, Shape, FileID
    <3>2. disk'[newID] = disk[newID]
      BY <2>1, <3>1 DEF WithoutSegment
    <3>3. \A k \in Key : Get(newIndex', {newID'}, disk', k) = Get(newIndex, {newID}, disk, k)
      BY <2>1, <3>2 DEF Get
    <3> QED
      BY <2>1, <2>3, <3>3, ContentsIs DEF ContentsByPC
  <2> QED
    BY <2>1, <2>2, <2>3
<1> QED
  BY <1>1, <1>2, <1>3, <1>4, <1>5, <1>6

\* Nor does a Merge that gives up, as long as it leaves no damage.
LEMMA MergeFailsShows ==
  ASSUME TypeInv, LocInv, CopyInv, Shows, Shows',
         \/ \E k \in Key : MergeReadFails(k)
         \/ MergeCopyFails \/ MergeHintFails \/ ResetFails
         \/ \E id \in segments : RemoveFails(id)
  PROVE  Contents' = Contents /\ pc' = "idle" /\ acked' = acked
<1>1. DiskOK(disk) /\ DiskKeeps(disk, disk)
  BY DiskKeepsReflexive DEF TypeInv, Shape
<1>2. pc' = "idle" /\ UNCHANGED <<index, acked>>
  BY DEF MergeReadFails, MergeCopyFails, MergeHintFails, ResetFails, RemoveFails, MergeAborts
<1>3. CASE (\E k \in Key : MergeReadFails(k)) \/ MergeCopyFails
  <2>1. pc = "copy" /\ segments' = segments /\ DiskKeeps(disk, disk')
    BY <1>1, <1>3, MergeCopyFailsDisk DEF MergeReadFails, MergeCopyFails, diskVars
  <2>2. AllIn(index, segments) /\ AllResolve(disk, index)
    BY <2>1 DEF Shows, LocInv, IndexInv
  <2>3. \A k \in Key : Get(index', segments', disk', k) = Get(index, segments, disk, k)
    BY <1>2, <2>1, <2>2, GetKept
  <2> QED
    BY <1>2, <2>1, <2>3, ContentsIs DEF ContentsByPC
<1>4. CASE MergeHintFails
  <2>1. pc = "hint" /\ UNCHANGED <<disk, segments>>
    BY <1>4 DEF MergeHintFails
  <2>2. \A k \in Key : Get(newIndex, {newID}, disk, k) = Get(index', segments', disk', k)
    BY <1>2, <2>1 DEF Shows, CopyInv, SameThroughNew
  <2> QED
    BY <1>2, <2>1, <2>2, ContentsIs DEF ContentsByPC
<1>5. CASE ResetFails \/ \E id \in segments : RemoveFails(id)
  <2>1. pc \in {"remove", "reset", "fresh"}
    BY <1>5 DEF ResetFails, RemoveFails
  <2>2. pc # "fresh" => pc \in faults'
    BY <1>5, <2>1 DEF ResetFails, RemoveFails, MergeAborts, Fault
  <2>3. pc = "fresh"
    BY <2>1, <2>2 DEF Shows, Damaged
  <2>4. \A k \in Key : Get(index', segments', disk', k) = NoValue
    BY <1>2, <2>3, GetAbsent DEF LocInv, EmptyInv
  <2> QED
    BY <1>2, <2>3, <2>4, ContentsIs DEF ContentsByPC
<1> QED
  BY <1>3, <1>4, <1>5

(***************************************************************************)
(* Together: a step of a store that shows its contents before and after    *)
(* leaves them alone, or is a write, which changes one key and adds what   *)
(* it wrote to what the client may find.                                   *)
(***************************************************************************)
WriteStep(e) ==
  /\ Contents' = [Contents EXCEPT ![e.key] = e.val]
  /\ acked' = [acked EXCEPT ![e.key] = {e.val}] \/ acked' = [acked EXCEPT ![e.key] = @ \cup {e.val}]
  /\ pc' = "idle" /\ writes' = writes + 1

QuietStep ==
  Contents' = Contents /\ acked' = acked /\ writes' = writes /\ CopyInv'

\* Every step is one or the other.
LEMMA StepShows ==
  ASSUME TypeInv, TypeInv', LocInv, LocInv', CopyInv, Shows, Shows', [Next]_vars
  PROVE  QuietStep \/ \E e \in WriteEntries : WriteStep(e)
<1>1. SyncOnWrite \in BOOLEAN
  BY StoreAssumption
<1>2. CASE UNCHANGED vars
  <2>1. UNCHANGED <<disk, up, index, segments, pc, newID, newIndex, todo, acked, faults, writes>>
    BY <1>2 DEF vars, diskVars, memVars, mergeVars, bounds
  <2>2. CopyInv'
    BY <2>1 DEF CopyInv, SameThroughNew, Damaged
  <2>3. Contents' = Contents
    BY <2>1, ContentsIs DEF ContentsByPC, TypeInv, TypeOK
  <2> QED
    BY <2>1, <2>2, <2>3 DEF QuietStep
<1>3. ASSUME NEW k \in Key, Delete(k) PROVE \E e \in WriteEntries : WriteStep(e)
  <2>1. DelEntry(k) \in WriteEntries
    BY DEF WriteEntries
  <2>2. /\ CanAppend /\ Written(DelEntry(k), SyncOnWrite) /\ UNCHANGED mergeVars
        /\ Ack(DelEntry(k)) /\ writes' = writes + 1
    BY <1>3 DEF Delete, CountWrite
  <2>3. pc' = "idle"
    BY <2>2 DEF CanAppend, Ready, mergeVars
  <2>4. WriteStep(DelEntry(k))
    BY <1>1, <2>1, <2>2, <2>3, WriteShows DEF WriteStep, Ack
  <2> QED
    BY <2>1, <2>4
<1>4. ASSUME NEW k \in Key, NEW v \in Value, Put(k, v) PROVE \E e \in WriteEntries : WriteStep(e)
  <2> DEFINE e == PutEntry(k, v)
  <2>1. e \in WriteEntries
    BY DEF WriteEntries
  <2>2. /\ CanAppend /\ UNCHANGED mergeVars /\ Ack(e) /\ writes' = writes + 1
        /\ Written(e, SyncOnWrite) \/ WrittenAndRotated(e, SyncOnWrite)
    BY <1>4 DEF Put, CountWrite
  <2> HIDE DEF e
  <2>3. pc' = "idle"
    BY <2>2 DEF CanAppend, Ready, mergeVars
  <2>4. WriteStep(e)
    BY <1>1, <2>1, <2>2, <2>3, WriteShows DEF WriteStep, Ack
  <2> QED
    BY <2>1, <2>4
<1>5. ASSUME NEW e \in WriteEntries, SyncFails(e) \/ RotateFails(e) PROVE WriteStep(e)
  <2>1. /\ CanAppend /\ UNCHANGED mergeVars /\ MayAck(e) /\ writes' = writes + 1
        /\ Written(e, SyncOnWrite) \/ Written(e, FALSE)
    BY <1>5 DEF SyncFails, RotateFails, CountWrite
  <2>2. pc' = "idle"
    BY <2>1 DEF CanAppend, Ready, mergeVars
  <2>3. Contents' = [Contents EXCEPT ![e.key] = e.val]
    BY <1>1, <2>1, WriteShows
  <2> QED
    BY <2>1, <2>2, <2>3 DEF WriteStep, MayAck
<1>6. CASE MergeStart
  BY <1>6, MergeStartShows DEF QuietStep, MergeStart, bounds
<1>7. ASSUME NEW k \in Key, MergeCopy(k) PROVE QuietStep
  BY <1>7, MergeCopyShows DEF QuietStep, MergeCopy, bounds
<1>8. CASE MergeSync
  BY <1>8, MergeSyncShows DEF QuietStep, MergeSync, bounds
<1>9. CASE \/ MergeHint \/ MergePromote \/ ResetStart \/ ResetHint \/ ResetFresh
           \/ \E id \in segments : RemoveSegment(id)
  <2>1. acked' = acked /\ writes' = writes
    BY <1>9 DEF MergeHint, MergePromote, ResetStart, ResetHint, ResetFresh, RemoveSegment, bounds
  <2> QED
    BY <1>9, <2>1, MergeRestShows DEF QuietStep, CopyInv
<1>10. CASE \/ \E k \in Key : MergeReadFails(k)
            \/ MergeCopyFails \/ MergeHintFails \/ ResetFails
            \/ \E id \in segments : RemoveFails(id)
  <2>1. writes' = writes
    BY <1>10 DEF MergeReadFails, MergeCopyFails, MergeHintFails, ResetFails, RemoveFails, MergeAborts
  <2> QED
    BY <1>10, <2>1, MergeFailsShows DEF QuietStep, CopyInv
<1>11. ASSUME NEW e \in WriteEntries, NEW n \in 1 .. frameSize(e) - 1, AppendFails(e, n)
       PROVE  FALSE
  BY <1>11 DEF AppendFails, Shows, Damaged
<1>12. CASE Open \/ Close \/ Crash
  BY <1>12 DEF Open, OpenEmpty, OpenHint, OpenScan, Close, Crash, Kill, KillInWrite, KillInCopy,
     PowerLoss, Down, Shows
<1> QED
  BY <1>2, <1>3, <1>4, <1>5, <1>6, <1>7, <1>8, <1>9, <1>10, <1>11, <1>12
  DEF Next, MergeStep, IOError

\* Only Open brings a store up, and only a store that is up leaves a call.
LEMMA OnlyOpenOpens == ASSUME TypeInv, ~up, up', [Next]_vars PROVE Open
<1>1. pc = "idle"
  BY DEF TypeInv, Shape
<1>2. CASE UNCHANGED vars
  BY <1>2 DEF vars
<1>3. CASE Close \/ Crash
  BY <1>3 DEF Close, Ready, Crash, Kill, KillInWrite, KillInCopy, PowerLoss, Down
<1>4. CASE (\E k \in Key : Delete(k) \/ \E v \in Value : Put(k, v)) \/ MergeStart \/ ResetStart
  BY <1>4 DEF Delete, Put, MergeStart, ResetStart, CanAppend, Ready
<1>5. CASE MergeStep
  BY <1>1, <1>5 DEF MergeStep, MergeCopy, MergeReadFails, MergeSync, MergeHint, MergePromote,
     ResetHint, ResetFresh, RemoveSegment
<1>6. CASE IOError
  BY <1>1, <1>6 DEF IOError, AppendFails, SyncFails, RotateFails, MergeCopyFails,
     MergeHintFails, ResetFails, RemoveFails, CanAppend, Ready
<1> QED
  BY <1>2, <1>3, <1>4, <1>5, <1>6 DEF Next

\* A store starts to show its contents when it is opened, and not otherwise.
LEMMA OpeningStep ==
  ASSUME TypeInv, ~Shows, Shows', [Next]_vars
  PROVE  ~up /\ Open
<1>1. ~Damaged
  BY FaultsOnlyGrow DEF Shows, Damaged
<1>2. ~up /\ up'
  BY <1>1 DEF Shows
<1> QED
  BY <1>2, OnlyOpenOpens

\* What Open finds is from then on what the client may find.
LEMMA OpenAcks ==
  ASSUME TypeInv, ~up, Open PROVE pc' = "idle" /\ \A k \in Key : Contents'[k] \in acked'[k]
<1>1. PICK d, m : Opened(d, m)
  BY DEF Open, OpenEmpty, OpenHint, OpenScan
<1>2. /\ disk' = d /\ index' = m /\ segments' = DOMAIN d
      /\ acked' = [k \in Key |-> LET found == Get(m, DOMAIN d, d, k)
                                 IN IF found \in acked[k] THEN acked[k] ELSE {found}]
      /\ pc' = pc
  BY <1>1 DEF Opened, mergeVars
<1>3. pc = "idle"
  BY DEF TypeInv, Shape
<1>4. Contents' = [k \in Key |-> Get(m, DOMAIN d, d, k)]
  BY <1>2, <1>3, ContentsIs DEF ContentsByPC
<1> QED
  BY <1>2, <1>3, <1>4

\* The initial state satisfies the invariant: the store is down.
LEMMA InitReadInv == Init => ReadInv
BY DEF Init, ReadInv, CopyInv, ReadsAcked

\* Every step keeps it.
LEMMA NextReadInv == TypeInv /\ LocInv /\ LocInv' /\ ReadInv /\ [Next]_vars => ReadInv'
<1> SUFFICES ASSUME TypeInv, LocInv, LocInv', ReadInv, [Next]_vars, Shows' PROVE ReadInv'
  BY DEF ReadInv, CopyInv, ReadsAcked, Shows
<1>1. TypeInv'
  BY NextTypeInv
<1>2. CASE ~Shows
  BY <1>2, OpeningStep, OpenAcks DEF ReadInv, CopyInv, ReadsAcked
<1>3. CASE Shows
  <2>1. CopyInv /\ \A k \in Key : Contents[k] \in acked[k]
    BY <1>3 DEF ReadInv, ReadsAcked, Shows
  <2>2. CASE QuietStep
    BY <2>1, <2>2 DEF QuietStep, ReadInv, ReadsAcked
  <2>3. ASSUME NEW e \in WriteEntries, WriteStep(e) PROVE ReadInv'
    <3>1. Contents = [k \in Key |-> Contents[k]] /\ acked = [k \in Key |-> acked[k]]
      BY <1>3, ContentsType DEF TypeInv, TypeOK
    <3>2. \A k \in Key : Contents'[k] \in acked'[k]
      BY <2>1, <2>3, <3>1 DEF WriteStep
    <3> QED
      BY <2>3, <3>2 DEF ReadInv, CopyInv, ReadsAcked, WriteStep
  <2> QED
    BY <1>1, <1>3, <2>1, <2>2, <2>3, StepShows
<1> QED
  BY <1>2, <1>3

(***************************************************************************)
(* From one Open to the next, while no append or removal has failed, a key *)
(* reads as the last acknowledged Put or Delete left it, or as a write     *)
(* whose error came after the append: through rotation, every step of      *)
(* Merge and a Merge that gave up.  What Open itself finds is the subject  *)
(* of OpenAlwaysFindsAcked.                                                *)
(***************************************************************************)
THEOREM ReadsAlwaysAcked == Spec => []ReadsAcked
<1>1. ReadInv => ReadsAcked
  BY DEF ReadInv
<1> QED
  BY InitTypeInv, NextTypeInv, InitResInv, NextResInv, ResLoc, InitReadInv, NextReadInv, <1>1, PTL
  DEF Spec

(***************************************************************************)
(* The refinement.  The map of KVMap is Contents while the store shows     *)
(* them, and empty otherwise; a step that damages the store closes it.     *)
(***************************************************************************)
KVmap == IF Visible THEN Contents ELSE [k \in Key |-> NoValue]
KVacked == IF Visible THEN acked ELSE [k \in Key |-> {}]
KVcalls == IF Visible THEN writes ELSE 0

\* Each step of the store is a step of the map or leaves it alone.
LEMMA StepRefines ==
  ASSUME TypeInv, LocInv, LocInv', ReadInv, ReadInv', [Next]_vars
  PROVE  [KV!Next]_<<Visible, KVmap, KVacked, KVcalls>>
<1>1. TypeInv'
  BY NextTypeInv
<1>2. CASE Shows /\ Shows'
  <2>1. /\ Visible = TRUE /\ Visible' = TRUE /\ KVmap = Contents /\ KVmap' = Contents'
        /\ KVacked = acked /\ KVacked' = acked' /\ KVcalls = writes /\ KVcalls' = writes'
    BY <1>2 DEF Shows, Visible, KVmap, KVacked, KVcalls
  <2>2. CASE QuietStep
    BY <2>1, <2>2 DEF QuietStep
  <2>3. ASSUME NEW e \in WriteEntries, WriteStep(e) PROVE KV!Next
    <3>1. KVmap' = [KVmap EXCEPT ![e.key] = e.val] /\ KVcalls' = KVcalls + 1
      BY <2>1, <2>3 DEF WriteStep
    <3>2. ASSUME NEW k \in Key, NEW v \in Value \cup {NoValue}, e.key = k, e.val = v
          PROVE  KV!Call(k, v)
      BY <2>1, <3>1, <3>2 DEF KV!Call, KVmap, KVcalls
    <3>3. CASE acked' = [acked EXCEPT ![e.key] = @ \cup {e.val}]
      <4>1. e.key \in Key /\ e.val \in Value \cup {NoValue}
        BY WriteEntryTypes DEF Entry
      <4>2. KV!Fails(e.key, e.val)
        BY <2>1, <3>2, <3>3, <4>1 DEF KV!Fails, KVacked
      <4> QED
        BY <4>1, <4>2 DEF KV!Next
    <3>4. CASE acked' = [acked EXCEPT ![e.key] = {e.val}]
      <4>1. ASSUME NEW k \in Key, NEW v \in Value, e = PutEntry(k, v) PROVE KV!Put(k, v)
        <5>1. e.key = k /\ e.val = v
          BY <4>1 DEF PutEntry
        <5> QED
          BY <2>1, <3>2, <3>4, <5>1 DEF KV!Put, KVacked
      <4>2. ASSUME NEW k \in Key, e = DelEntry(k) PROVE KV!Delete(k)
        <5>1. e.key = k /\ e.val = NoValue
          BY <4>2 DEF DelEntry
        <5> QED
          BY <2>1, <3>2, <3>4, <5>1 DEF KV!Delete, KVacked
      <4> QED
        BY <4>1, <4>2 DEF KV!Next, WriteEntries
    <3> QED
      BY <2>3, <3>3, <3>4 DEF WriteStep
  <2> QED
    BY <1>1, <1>2, <2>2, <2>3, StepShows DEF ReadInv
<1>3. CASE Shows /\ ~Shows'
  BY <1>3 DEF Shows, Visible, KVmap, KVacked, KVcalls, KV!Next, KV!Close, KV!Nothing
<1>4. CASE ~Shows /\ Shows'
  <2>1. Contents' \in [Key -> Value \cup {NoValue}]
    <3>1. (TypeInv /\ LocInv /\ Shows => Contents \in [Key -> Value \cup {NoValue}])'
      BY ContentsType, PTL
    <3> QED
      BY <1>1, <1>4, <3>1
  <2>2. \A k \in Key : Contents'[k] \in acked'[k]
    BY <1>4 DEF Shows, ReadInv, ReadsAcked
  <2>3. writes' \in Nat
    BY <1>1 DEF TypeInv, TypeOK
  <2> QED
    BY <1>4, <2>1, <2>2, <2>3
    DEF Shows, Visible, KVmap, KVacked, KVcalls, KV!Next, KV!Open, KV!Maps
<1>5. CASE ~Shows /\ ~Shows'
  BY <1>5 DEF Shows, Visible, KVmap, KVacked, KVcalls
<1> QED
  BY <1>2, <1>3, <1>4, <1>5

(***************************************************************************)
(* To its client the open store is a map that only calls of Put and Delete *)
(* change, each at its key and to its value: Store implements KVMap, and   *)
(* every step of rotation, of Merge and of their failures is a stutter.    *)
(***************************************************************************)
THEOREM StoreIsAMap == Spec => RefinesKVMap
<1>1. Init => KV!Init
  BY DEF Init, KV!Init, KV!Nothing, Visible
<1>2. TypeInv /\ LocInv /\ LocInv' /\ ReadInv /\ ReadInv' /\ [Next]_vars
        => [KV!Next]_<<Visible, KVmap, KVacked, KVcalls>>
  BY StepRefines
<1> QED
  BY InitTypeInv, NextTypeInv, InitResInv, NextResInv, ResLoc, InitReadInv, NextReadInv,
     <1>1, <1>2, PTL
  DEF Spec, RefinesKVMap, KV!Spec, KVmap, KVacked, KVcalls
=============================================================================
