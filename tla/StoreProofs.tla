---------------------------- MODULE StoreProofs ----------------------------
(***************************************************************************)
(* Proofs about Store, for every set of keys and values, every frame size  *)
(* and option, and every value of the bounds.  First facts about the       *)
(* operators of SegmentLog and KeyIndex: what appending, syncing and       *)
(* losing power do to a file, and what a scan finds; then type             *)
(* correctness.                                                            *)
(***************************************************************************)
EXTENDS StoreProps, TLAPS, WellFoundedInduction

(***************************************************************************)
(* A set of naturals has a least element, and below a bound a greatest     *)
(* one, so that the CHOOSE of lastID and of LastRecord has something to    *)
(* choose.  This is also how an induction is written here: the library's   *)
(* induction theorems take a predicate, which the provers cannot supply.   *)
(***************************************************************************)
LEMMA LeastExists ==
  ASSUME NEW S \in SUBSET Nat, S # {}
  PROVE  \E m \in S : \A x \in S : m <= x
<1> DEFINE R == {p \in Nat \X Nat : p[1] < p[2]}
<1>1. IsWellFoundedOn(R, Nat)
  BY NatLessThanWellFounded DEF OpToRel
<1>2. PICK m \in S : \A x \in S : <<x, m>> \notin R
  <2> HIDE DEF R
  <2> QED BY <1>1, WFMin
<1>3. ASSUME NEW x \in S PROVE m <= x
  <2>1. <<x, m>> \notin R /\ <<x, m>> \in Nat \X Nat
    BY <1>2
  <2> QED BY <2>1
<1> QED
  BY <1>3

LEMMA GreatestExists ==
  ASSUME NEW S \in SUBSET Nat, S # {}, NEW b \in Nat, \A x \in S : x <= b
  PROVE  \E m \in S : \A x \in S : x <= m
<1> DEFINE T == {b - x : x \in S}
<1>1. T \in SUBSET Nat
  OBVIOUS
<1>2. \E t \in T : \A y \in T : t <= y
  <2>1. T # {}
    OBVIOUS
  <2> HIDE DEF T
  <2> QED BY <1>1, <2>1, LeastExists
<1>3. PICK m \in S : \A y \in T : b - m <= y
  BY <1>2
<1>4. ASSUME NEW x \in S PROVE x <= m
  <2>1. b - m <= b - x
    BY <1>3
  <2> QED BY <2>1
<1> QED
  BY <1>4

(***************************************************************************)
(* Records and their sizes (Encode, frameSize).                            *)
(***************************************************************************)
LEMMA EntryTypes ==
  /\ \A k \in Key, v \in Value : PutEntry(k, v) \in Entry
  /\ \A k \in Key : DelEntry(k) \in Entry
  /\ \A k \in Key, v \in Value \cup {NoValue} : PutEntry(k, v) \in Entry
  /\ \A e \in Entry : frameSize(e) \in Nat \ {0}
<1>1. \A e \in Entry : frameSize(e) \in Nat \ {0}
  <2> SUFFICES ASSUME NEW e \in Entry PROVE frameSize(e) \in Nat \ {0}
    OBVIOUS
  <2>1. KeyLen[e.key] \in Nat \ {0} /\ ValueLen[e.val] \in Nat
    BY LogAssumption DEF Entry
  <2> QED
    BY <2>1, LogAssumption DEF frameSize, payloadLen
<1> QED
  BY <1>1 DEF PutEntry, DelEntry, Entry

\* A file just created by NewSegment is a file.
LEMMA EmptyFileIsFile == IsFile(EmptyFile)
BY DEF IsFile, EmptyFile

(***************************************************************************)
(* Appending a frame, whole or torn, and syncing keep a file a file, and   *)
(* leave every frame that was there where it was (Segment.Append, Sync).   *)
(***************************************************************************)
Keeps(f, g) ==
  /\ DOMAIN f.at \subseteq DOMAIN g.at
  /\ \A o \in DOMAIN f.at : g.at[o] = f.at[o]
  /\ f.synced <= g.synced

\* Placing a frame at the end of a file leaves the frames before it alone.
LEMMA PlaceKeeps ==
  ASSUME NEW f, IsFile(f), NEW e \in Entry, NEW n \in Nat \ {0}, NEW s \in Nat,
         f.synced <= s, s <= f.len + n, e.torn \/ frameSize(e) <= n
  PROVE  LET g == [len |-> f.len + n, synced |-> s, at |-> Place(f.at, f.len, e)]
         IN  /\ IsFile(g) /\ Keeps(f, g)
             /\ f.len \in DOMAIN g.at /\ g.at[f.len] = e
<1> DEFINE g == [len |-> f.len + n, synced |-> s, at |-> Place(f.at, f.len, e)]
<1>1. /\ f.len \in Nat /\ f.synced \in Nat /\ f.synced <= f.len
      /\ \A o \in DOMAIN f.at : f.at[o] \in Entry /\ o \in Nat /\ o < f.len
  BY DEF IsFile
<1>2. \A o \in DOMAIN f.at : frameSize(f.at[o]) \in Nat
  BY <1>1, EntryTypes
<1>3. frameSize(e) \in Nat
  BY EntryTypes
<1>4. /\ DOMAIN g.at = DOMAIN f.at \cup {f.len} /\ g.at[f.len] = e
      /\ \A o \in DOMAIN f.at : g.at[o] = f.at[o]
      /\ g.len = f.len + n /\ g.synced = s
      /\ g.at \in [DOMAIN g.at -> Entry]
  BY <1>1 DEF Place
<1>5. g \in [len : Nat, synced : Nat, at : [DOMAIN g.at -> Entry]]
  BY <1>1, <1>4
<1> HIDE DEF g
<1>6. ASSUME NEW o \in DOMAIN g.at
      PROVE  /\ o \in Nat /\ o < g.len
             /\ ~g.at[o].torn => o + frameSize(g.at[o]) <= g.len
  <2>1. CASE o = f.len
    BY <1>1, <1>3, <1>4, <2>1
  <2>2. CASE o \in DOMAIN f.at
    <3>1. ~f.at[o].torn => o + frameSize(f.at[o]) <= f.len
      BY <2>2 DEF IsFile
    <3> QED
      BY <1>1, <1>2, <1>4, <2>2, <3>1
  <2> QED
    BY <1>4, <2>1, <2>2
<1>7. IsFile(g)
  BY <1>4, <1>5, <1>6 DEF IsFile
<1>8. Keeps(f, g)
  BY <1>4 DEF Keeps
<1> QED
  BY <1>4, <1>7, <1>8 DEF g

\* Segment.Append: the record can be read back where the file ended.
LEMMA AppendKeeps ==
  ASSUME NEW f, IsFile(f), NEW e \in Entry
  PROVE  /\ IsFile(Append(f, e)) /\ Keeps(f, Append(f, e))
         /\ f.len \in DOMAIN Append(f, e).at /\ Append(f, e).at[f.len] = e
         /\ Append(f, e).len = f.len + frameSize(e)
         /\ Append(f, e).synced = f.synced
<1>1. frameSize(e) \in Nat \ {0}
  BY EntryTypes
<1>2. Append(f, e) = [len |-> f.len + frameSize(e), synced |-> f.synced,
                      at |-> Place(f.at, f.len, e)]
  BY DEF Append, IsFile
<1>3. f.synced \in Nat /\ f.len \in Nat /\ f.synced <= f.len
  BY DEF IsFile
<1> QED
  BY <1>1, <1>2, <1>3, PlaceKeeps

\* An append cut short keeps every frame that was there.
LEMMA AppendPrefixKeeps ==
  ASSUME NEW f, IsFile(f), NEW e \in Entry, NEW n \in Nat \ {0}
  PROVE  IsFile(AppendPrefix(f, e, n)) /\ Keeps(f, AppendPrefix(f, e, n))
<1>1. CASE n = frameSize(e)
  BY <1>1, AppendKeeps DEF AppendPrefix
<1>2. CASE n # frameSize(e)
  <2> DEFINE t == TornEntry(e)
  <2>1. t \in Entry /\ t.torn
    BY DEF Entry, TornEntry
  <2>2. AppendPrefix(f, e, n) = [len |-> f.len + n, synced |-> f.synced,
                                 at |-> Place(f.at, f.len, t)]
    BY <1>2 DEF AppendPrefix, IsFile
  <2>3. f.synced \in Nat /\ f.len \in Nat /\ f.synced <= f.len
    BY DEF IsFile
  <2> QED
    BY <2>1, <2>2, <2>3, PlaceKeeps
<1> QED
  BY <1>1, <1>2

\* Segment.Sync changes no frame and makes the whole file durable.
LEMMA SyncKeeps ==
  ASSUME NEW f, IsFile(f)
  PROVE  /\ IsFile(Sync(f)) /\ Keeps(f, Sync(f))
         /\ Sync(f).len = f.len /\ Sync(f).at = f.at /\ Sync(f).synced = f.len
BY DEF IsFile, Sync, Keeps

\* A file keeps its own frames.
LEMMA KeepsReflexive == ASSUME NEW f, IsFile(f) PROVE Keeps(f, f)
BY DEF Keeps, IsFile

\* What one step keeps and the next keeps, both keep.
LEMMA KeepsTransitive ==
  ASSUME NEW f, NEW g, NEW h, IsFile(f), IsFile(g), IsFile(h), Keeps(f, g), Keeps(g, h)
  PROVE  Keeps(f, h)
BY DEF Keeps, IsFile

(***************************************************************************)
(* A power loss leaves a file, and every frame that was synced.            *)
(***************************************************************************)
LEMMA PowerLossKeepsSynced ==
  ASSUME NEW f, IsFile(f), NEW g \in AfterPowerLoss(f)
  PROVE  /\ IsFile(g) /\ f.synced <= g.synced
         /\ \A o \in DOMAIN f.at :
              o + frameSize(f.at[o]) <= f.synced => o \in DOMAIN g.at /\ g.at[o] = f.at[o]
<1>1. PICK n \in f.synced .. f.len : g = Survives(f, n)
  BY DEF AfterPowerLoss
<1>2. n \in Nat /\ f.synced <= n /\ f.synced \in Nat
  BY DEF IsFile
<1>3. \A o \in DOMAIN f.at : f.at[o] \in Entry /\ o \in Nat /\ frameSize(f.at[o]) \in Nat \ {0}
  BY EntryTypes DEF IsFile
<1>4. \A o \in DOMAIN f.at : TornEntry(f.at[o]) \in Entry /\ TornEntry(f.at[o]).torn
  BY <1>3 DEF Entry, TornEntry
<1>5. IsFile(g)
  BY <1>1, <1>2, <1>3, <1>4 DEF Survives, IsFile
<1>6. ASSUME NEW o \in DOMAIN f.at, o + frameSize(f.at[o]) <= f.synced
      PROVE  o \in DOMAIN g.at /\ g.at[o] = f.at[o]
  BY <1>1, <1>2, <1>3, <1>6 DEF Survives
<1>7. f.synced <= g.synced
  BY <1>1, <1>2 DEF Survives
<1> QED
  BY <1>5, <1>6, <1>7

(***************************************************************************)
(* A scan of the directory gives an index in which every live key resolves *)
(* (Store.scanIndex).                                                      *)
(***************************************************************************)
LEMMA LastRecordExists ==
  ASSUME NEW d, NEW b \in Nat,
         \A id \in DOMAIN d : id \in Nat /\ id <= b /\ IsFile(d[id]),
         NEW k \in Key, Records(d, k) # {}
  PROVE  /\ LastRecord(d, k) \in Records(d, k)
         /\ \A q \in Records(d, k) : LaterOrSame(LastRecord(d, k), q)
<1> DEFINE Rs == Records(d, k)
           In(id) == {o \in DOMAIN d[id].at : <<id, o>> \in Rs}
           Ids == {id \in DOMAIN d : In(id) # {}}
<1>1. \A p \in Rs : /\ p = <<p[1], p[2]>> /\ p[1] \in DOMAIN d
                    /\ p[2] \in DOMAIN d[p[1]].at
  BY DEF Records
<1>2. \A p \in Rs : p[1] \in Ids /\ p[2] \in In(p[1])
  BY <1>1
<1>3. Ids \in SUBSET Nat /\ Ids # {} /\ \A x \in Ids : x <= b
  BY <1>2
<1>4. PICK m \in Ids : \A x \in Ids : x <= m
  BY <1>3, GreatestExists
<1>5. In(m) \in SUBSET Nat /\ In(m) # {} /\ d[m].len \in Nat /\ \A x \in In(m) : x <= d[m].len
  <2>1. m \in DOMAIN d /\ In(m) # {} /\ IsFile(d[m])
    OBVIOUS
  <2>2. d[m].len \in Nat /\ \A o \in DOMAIN d[m].at : o \in Nat /\ o < d[m].len
    BY <2>1 DEF IsFile
  <2>3. In(m) \subseteq DOMAIN d[m].at
    OBVIOUS
  <2> HIDE DEF In
  <2>4. In(m) \in SUBSET Nat
    BY <2>2, <2>3
  <2>5. \A x \in In(m) : x <= d[m].len
    BY <2>2, <2>3
  <2> QED
    BY <2>1, <2>2, <2>4, <2>5
<1>6. PICK l \in In(m) : \A x \in In(m) : x <= l
  BY <1>5, GreatestExists
<1>7. ASSUME NEW q \in Rs PROVE LaterOrSame(<<m, l>>, q)
  <2>1. q[1] \in Nat /\ m \in Nat /\ q[1] <= m
    BY <1>2, <1>3, <1>4
  <2>2. q[1] = m => q[2] <= l /\ q[2] \in Nat /\ l \in Nat
    BY <1>2, <1>5, <1>6
  <2> QED
    BY <2>1, <2>2 DEF LaterOrSame
<1>8. <<m, l>> \in Rs
  OBVIOUS
<1> QED
  BY <1>7, <1>8 DEF LastRecord

\* scanIndex gives every live key a location that resolves.
LEMMA ScanResolves ==
  ASSUME NEW d, NEW b \in Nat,
         \A id \in DOMAIN d : id \in Nat /\ id <= b /\ IsFile(d[id])
  PROVE  /\ IsIndex(scanIndex(d))
         /\ \A k \in LiveEntries(scanIndex(d)) : Resolves(d, k, scanIndex(d)[k])
<1> DEFINE m == scanIndex(d)
<1>1. ASSUME NEW k \in Key
      PROVE  m[k] \in Location /\ (~m[k].tomb => Resolves(d, k, m[k]))
  <2>1. CASE Records(d, k) = {}
    BY <2>1 DEF scanIndex, NoLocation, Location
  <2>2. CASE Records(d, k) # {}
    <3> DEFINE p == LastRecord(d, k)
    <3>1. p \in Records(d, k)
      BY <2>2, LastRecordExists
    <3>2. /\ p[1] \in DOMAIN d /\ p[2] \in DOMAIN d[p[1]].at
          /\ d[p[1]].at[p[2]].key = k /\ ~d[p[1]].at[p[2]].torn
      BY <3>1 DEF Records
    <3>3. p[1] \in Nat /\ p[2] \in Nat /\ d[p[1]].at[p[2]] \in Entry
      BY <3>2 DEF IsFile
    <3>4. m[k] = [file |-> p[1], off |-> p[2], tomb |-> d[p[1]].at[p[2]].tomb]
      BY <2>2 DEF scanIndex
    <3> HIDE DEF m, p
    <3>5. m[k] \in Location
      BY <3>3, <3>4 DEF Location, Entry
    <3>6. ~m[k].tomb => Resolves(d, k, m[k])
      BY <3>2, <3>4 DEF Resolves, CanReadAt, ReadAt
    <3> QED
      BY <3>5, <3>6
  <2> QED
    BY <2>1, <2>2
<1>2. IsIndex(m)
  BY <1>1 DEF IsIndex, scanIndex
<1> QED
  BY <1>1, <1>2 DEF LiveEntries

(***************************************************************************)
(* Directories.                                                            *)
(***************************************************************************)
DiskOK(d) ==
  /\ d = [id \in DOMAIN d |-> d[id]]
  /\ \A id \in DOMAIN d : id \in FileID /\ id <= MaxFileID + 1 /\ IsFile(d[id])

DiskKeeps(d, e) ==
  \A id \in DOMAIN d : id \in DOMAIN e /\ Keeps(d[id], e[id])

\* Replacing one file of a directory by one that keeps its frames.
LEMMA EditKeeps ==
  ASSUME NEW d, DiskOK(d), NEW id \in DOMAIN d, NEW g, IsFile(g), Keeps(d[id], g)
  PROVE  LET e == [d EXCEPT ![id] = g]
         IN  DiskOK(e) /\ DiskKeeps(d, e) /\ DOMAIN e = DOMAIN d /\ e[id] = g
BY KeepsReflexive DEF DiskOK, DiskKeeps

\* Creating a segment keeps all the others.
LEMMA WithSegmentKeeps ==
  ASSUME NEW d, DiskOK(d), NEW id \in FileID, id <= MaxFileID + 1
  PROVE  LET e == WithSegment(d, id)
         IN  /\ DiskOK(e) /\ DiskKeeps(d, e) /\ DOMAIN e = DOMAIN d \cup {id}
             /\ \A i \in DOMAIN d : e[i] = d[i]
             /\ id \notin DOMAIN d => e[id] = EmptyFile
BY KeepsReflexive, EmptyFileIsFile DEF DiskOK, DiskKeeps, WithSegment

\* Removing a segment leaves a directory.
LEMMA WithoutSegmentOK ==
  ASSUME NEW d, DiskOK(d), NEW id
  PROVE  DiskOK(WithoutSegment(d, id)) /\ DOMAIN WithoutSegment(d, id) = DOMAIN d \ {id}
BY DEF DiskOK, WithoutSegment

\* Directories that keep each other, in a row.
LEMMA DiskKeepsTransitive ==
  ASSUME NEW d, NEW e, NEW f, DiskOK(d), DiskOK(e), DiskOK(f),
         DiskKeeps(d, e), DiskKeeps(e, f)
  PROVE  DiskKeeps(d, f)
BY KeepsTransitive DEF DiskOK, DiskKeeps

\* A directory keeps its own frames.
LEMMA DiskKeepsReflexive == ASSUME NEW d, DiskOK(d) PROVE DiskKeeps(d, d)
BY KeepsReflexive DEF DiskOK, DiskKeeps

\* lastID is a greatest element of a non-empty set of file IDs.
LEMMA LastIDIn ==
  ASSUME NEW d, DiskOK(d), NEW ids \in SUBSET DOMAIN d, ids # {}
  PROVE  lastID(ids) \in ids /\ \A id \in ids : id <= lastID(ids)
<1>1. ids \in SUBSET Nat /\ MaxFileID + 1 \in Nat /\ \A x \in ids : x <= MaxFileID + 1
  BY StoreAssumption DEF DiskOK, FileID
<1>2. \E m \in ids : \A x \in ids : x <= m
  BY <1>1, GreatestExists
<1> QED
  BY <1>2 DEF lastID

(***************************************************************************)
(* What Get returns is a Result, and the operations on an index give an    *)
(* index.                                                                  *)
(***************************************************************************)
LEMMA GetType ==
  ASSUME NEW m, IsIndex(m), NEW d, DiskOK(d), NEW s \in SUBSET DOMAIN d, NEW k \in Key
  PROVE  Get(m, s, d, k) \in Result
<1>1. CASE m[k].file \in s /\ CanReadAt(d[m[k].file], m[k].off)
  <2>1. d[m[k].file].at[m[k].off] \in Entry
    BY <1>1 DEF DiskOK, IsFile, CanReadAt
  <2> QED
    BY <2>1 DEF Get, ReadAt, Result, Entry
<1> QED
  BY <1>1 DEF Get, Result

\* A new index is an index without live keys.
LEMMA NewIndexType == IsIndex(NewIndex) /\ LiveEntries(NewIndex) = {}
BY DEF IsIndex, NewIndex, NoLocation, Location, LiveEntries

\* Index.Put gives an index.
LEMMA IndexPutType ==
  ASSUME NEW m, IsIndex(m), NEW k \in Key, NEW id \in Nat, NEW off \in Nat, NEW t \in BOOLEAN
  PROVE  /\ IsIndex(IndexPut(m, k, id, off, t))
         /\ IndexPut(m, k, id, off, t)[k] = [file |-> id, off |-> off, tomb |-> t]
         /\ \A j \in Key : j # k => IndexPut(m, k, id, off, t)[j] = m[j]
BY DEF IsIndex, IndexPut, Location

(***************************************************************************)
(* Type correctness.  TypeOK is not inductive: that Merge's new segment is *)
(* there to be appended to, and that the open segments have files, is what *)
(* Shape adds.                                                             *)
(***************************************************************************)
Shape ==
  /\ DiskOK(disk)
  /\ segments \subseteq DOMAIN disk
  /\ pc \in {"copy", "hint", "remove"} =>
       newID \in DOMAIN disk /\ \A id \in segments : id < newID
  /\ ~up => pc = "idle"

TypeInv == TypeOK /\ Shape

\* What DiskOK says about types.
LEMMA DiskOKTypes ==
  ASSUME NEW d, DiskOK(d)
  PROVE  /\ DOMAIN d \subseteq FileID /\ d = [id \in DOMAIN d |-> d[id]]
         /\ \A id \in DOMAIN d : IsFile(d[id]) /\ d[id].len \in Nat
BY DEF DiskOK, IsFile

\* Every record Put or Delete writes is an entry.
LEMMA WriteEntryTypes == \A e \in WriteEntries : e \in Entry
BY EntryTypes DEF WriteEntries

\* The initial state satisfies the invariant.
LEMMA InitTypeInv == Init => TypeInv
<1> SUFFICES ASSUME Init PROVE TypeInv
  OBVIOUS
<1>1. DiskOK(disk) /\ DOMAIN disk = {}
  BY DEF Init, DiskOK
<1> QED
  BY <1>1, NewIndexType DEF Init, TypeInv, TypeOK, Shape, Result

\* Open, from whatever index it loads or rebuilds.
LEMMA OpenedType ==
  ASSUME TypeInv, ~up, NEW d, DiskOK(d), DOMAIN d # {}, NEW m, IsIndex(m), Opened(d, m)
  PROVE  TypeInv'
<1> DEFINE ids == DOMAIN d
<1>1. lastID(ids) \in ids
  BY LastIDIn
<1>2. lastID(ids) \in FileID /\ d[lastID(ids)].len \in Nat /\ ids \subseteq FileID
  BY <1>1, DiskOKTypes
<1>3. ASSUME NEW k \in Key
      PROVE  LET found == Get(m, ids, d, k)
             IN  (IF found \in acked[k] THEN acked[k] ELSE {found}) \in SUBSET Result
  BY GetType DEF TypeInv, TypeOK
<1>4. acked' \in [Key -> SUBSET Result]
  BY <1>3 DEF Opened
<1> QED
  BY <1>2, <1>4, DiskOKTypes
  DEF Opened, TypeInv, TypeOK, Shape, mergeVars, bounds, FileID

\* Open keeps it, on each of its three ways.
LEMMA OpenType == ASSUME TypeInv, Open PROVE TypeInv'
<1>1. CASE OpenEmpty
  <2>1. DiskOK(WithSegment(disk, 1)) /\ DOMAIN WithSegment(disk, 1) # {}
    <3>1. 1 \in FileID /\ 1 <= MaxFileID + 1 /\ DiskOK(disk)
      BY StoreAssumption DEF TypeInv, Shape, FileID
    <3> QED
      BY <3>1, WithSegmentKeeps
  <2> QED
    BY <1>1, <2>1, NewIndexType, OpenedType DEF OpenEmpty
<1>2. CASE OpenHint
  BY <1>2, OpenedType DEF OpenHint, HintLoads, TypeInv, TypeOK, Shape
<1>3. CASE OpenScan
  <2>1. IsIndex(scanIndex(disk))
    BY StoreAssumption, ScanResolves DEF TypeInv, Shape, DiskOK, FileID
  <2> QED
    BY <1>3, <2>1, OpenedType DEF OpenScan, TypeInv, Shape
<1> QED
  BY <1>1, <1>2, <1>3 DEF Open

\* The file a write of e leaves, and the directory with it.
WrittenFile(e, sync) ==
  LET f == Append(disk[activeID], e) IN IF sync THEN Sync(f) ELSE f

\* The active file after a write, synced or not.
LEMMA WrittenFileOK ==
  ASSUME TypeInv, activeID \in segments, NEW e \in Entry, NEW sync \in BOOLEAN
  PROVE  LET f == disk[activeID]
             g == WrittenFile(e, sync)
             d == [disk EXCEPT ![activeID] = g]
         IN  /\ activeID \in DOMAIN disk
             /\ IsFile(g) /\ Keeps(f, g) /\ g.len = f.len + frameSize(e)
             /\ f.len \in DOMAIN g.at /\ g.at[f.len] = e
             /\ DiskOK(d) /\ DiskKeeps(disk, d) /\ DOMAIN d = DOMAIN disk /\ d[activeID] = g
<1> DEFINE f == disk[activeID]
           a == Append(f, e)
           g == WrittenFile(e, sync)
<1>1. activeID \in DOMAIN disk /\ DiskOK(disk) /\ IsFile(f)
  BY DEF TypeInv, Shape, DiskOK
<1>2. /\ IsFile(a) /\ Keeps(f, a) /\ a.len = f.len + frameSize(e)
      /\ f.len \in DOMAIN a.at /\ a.at[f.len] = e
  BY <1>1, AppendKeeps
<1>3. /\ IsFile(Sync(a)) /\ Keeps(a, Sync(a)) /\ Sync(a).len = a.len /\ Sync(a).at = a.at
  BY <1>2, SyncKeeps
<1>4. Keeps(f, Sync(a))
  BY <1>1, <1>2, <1>3, KeepsTransitive
<1>5. g = a \/ g = Sync(a)
  BY DEF WrittenFile
<1>6. /\ IsFile(g) /\ Keeps(f, g) /\ g.len = f.len + frameSize(e)
      /\ f.len \in DOMAIN g.at /\ g.at[f.len] = e
  <2> HIDE DEF a, g, f
  <2> QED BY <1>2, <1>3, <1>4, <1>5
<1> QED
  BY <1>1, <1>6, EditKeeps

\* Append and Index.Put, without rotation.
LEMMA WrittenType ==
  ASSUME TypeInv, activeID \in segments, NEW e \in Entry, NEW sync \in BOOLEAN,
         Written(e, sync)
  PROVE  /\ DiskOK(disk') /\ DiskKeeps(disk, disk') /\ DOMAIN disk' = DOMAIN disk
         /\ IsIndex(index') /\ size' \in Nat
         /\ UNCHANGED <<segments, activeID>>
<1>1. /\ disk' = [disk EXCEPT ![activeID] = WrittenFile(e, sync)]
      /\ index' = IndexPut(index, e.key, activeID, size, e.tomb)
      /\ size' = size + frameSize(e)
      /\ UNCHANGED <<segments, activeID>>
  BY DEF Written, WrittenFile
<1>2. e.key \in Key /\ e.tomb \in BOOLEAN /\ size \in Nat /\ activeID \in Nat /\ IsIndex(index)
  BY DEF Entry, TypeInv, TypeOK
<1>3. frameSize(e) \in Nat
  BY EntryTypes
<1>4. IsIndex(index') /\ size' \in Nat
  <2>1. IsIndex(index')
    BY <1>1, <1>2, IndexPutType
  <2>2. size' \in Nat
    BY <1>1, <1>2, <1>3
  <2> QED
    BY <2>1, <2>2
<1>5. DiskOK(disk') /\ DiskKeeps(disk, disk') /\ DOMAIN disk' = DOMAIN disk
  BY <1>1, WrittenFileOK
<1> QED
  BY <1>1, <1>4, <1>5

\* Append, Index.Put and rotate.
LEMMA WrittenAndRotatedType ==
  ASSUME TypeInv, activeID \in segments, NEW e \in Entry, NEW sync \in BOOLEAN,
         WrittenAndRotated(e, sync)
  PROVE  /\ DiskOK(disk') /\ DiskKeeps(disk, disk')
         /\ DOMAIN disk' = DOMAIN disk \cup {activeID'}
         /\ segments' = segments \cup {activeID'}
         /\ activeID' \in FileID /\ \A id \in segments : id < activeID'
         /\ IsIndex(index') /\ size' \in Nat /\ size' = disk'[activeID'].len
         /\ disk'[activeID] = WrittenFile(e, sync)
<1> DEFINE id == maxFileID + 1
           d == [disk EXCEPT ![activeID] = WrittenFile(e, sync)]
<1>1. /\ id <= MaxFileID /\ disk' = WithSegment(d, id) /\ activeID' = id
      /\ segments' = segments \cup {id} /\ size' = disk'[id].len
      /\ index' = IndexPut(index, e.key, activeID, size, e.tomb)
  BY DEF WrittenAndRotated, WrittenFile
<1>2. /\ DiskOK(d) /\ DiskKeeps(disk, d) /\ DOMAIN d = DOMAIN disk
      /\ activeID \in DOMAIN disk /\ d[activeID] = WrittenFile(e, sync)
  BY WrittenFileOK
<1>3. maxFileID \in segments /\ \A i \in segments : i <= maxFileID
  BY LastIDIn DEF maxFileID, TypeInv, Shape
<1>4. id \in FileID /\ id <= MaxFileID + 1 /\ \A i \in segments : i < id
  BY <1>1, <1>3, StoreAssumption DEF TypeInv, TypeOK, FileID
<1> HIDE DEF d
<1>5. /\ DiskOK(disk') /\ DiskKeeps(d, disk') /\ DOMAIN disk' = DOMAIN disk \cup {id}
      /\ disk'[activeID] = WrittenFile(e, sync)
  BY <1>1, <1>2, <1>4, WithSegmentKeeps
<1>6. DiskKeeps(disk, disk')
  BY <1>2, <1>5, DiskKeepsTransitive DEF TypeInv, Shape
<1>7. IsIndex(index')
  <2>1. e.key \in Key /\ e.tomb \in BOOLEAN /\ size \in Nat /\ activeID \in Nat /\ IsIndex(index)
    BY DEF Entry, TypeInv, TypeOK
  <2> QED BY <1>1, <2>1, IndexPutType
<1>8. size' \in Nat
  BY <1>1, <1>5, DiskOKTypes
<1> QED
  BY <1>1, <1>4, <1>5, <1>6, <1>7, <1>8

\* The history of acknowledged values stays in its type.
LEMMA AckType ==
  ASSUME TypeInv, NEW e \in Entry, Ack(e) \/ MayAck(e)
  PROVE  acked' \in [Key -> SUBSET Result]
BY DEF Ack, MayAck, TypeInv, TypeOK, Entry, Result

\* Put keeps the invariant.
LEMMA PutType == ASSUME TypeInv, NEW k \in Key, NEW v \in Value, Put(k, v) PROVE TypeInv'
<1> DEFINE e == PutEntry(k, v)
<1>1. e \in Entry /\ SyncOnWrite \in BOOLEAN
  BY EntryTypes, StoreAssumption
<1>2. /\ up /\ pc = "idle" /\ activeID \in segments /\ Ack(e) /\ writes' = writes + 1
      /\ UNCHANGED <<hint, hintIndex, up, mergeVars, faults, crashes, ioErrors>>
      /\ Written(e, SyncOnWrite) \/ WrittenAndRotated(e, SyncOnWrite)
  BY DEF Put, CanAppend, Ready, CountWrite
<1> HIDE DEF e
<1>3. acked' \in [Key -> SUBSET Result]
  BY <1>1, <1>2, AckType
<1>4. CASE Written(e, SyncOnWrite)
  BY <1>1, <1>2, <1>3, <1>4, WrittenType, DiskOKTypes DEF TypeInv, TypeOK, Shape, mergeVars
<1>5. CASE WrittenAndRotated(e, SyncOnWrite)
  <2>1. /\ DiskOK(disk') /\ DOMAIN disk' = DOMAIN disk \cup {activeID'}
        /\ segments' = segments \cup {activeID'} /\ activeID' \in FileID
        /\ IsIndex(index') /\ size' \in Nat
    BY <1>1, <1>2, <1>5, WrittenAndRotatedType
  <2> QED
    BY <1>2, <1>3, <2>1, DiskOKTypes DEF TypeInv, TypeOK, Shape, mergeVars, FileID
<1> QED
  BY <1>2, <1>4, <1>5

\* A write that only appends and indexes: Delete, SyncFails and RotateFails.
LEMMA WriteType ==
  ASSUME TypeInv, CanAppend, NEW e \in Entry, NEW sync \in BOOLEAN, Written(e, sync),
         Ack(e) \/ MayAck(e), writes' \in Nat, ioErrors' \in Nat,
         UNCHANGED <<hint, hintIndex, up, mergeVars, faults, crashes>>
  PROVE  TypeInv'
<1>1. up /\ pc = "idle" /\ activeID \in segments
  BY DEF CanAppend, Ready
<1>2. acked' \in [Key -> SUBSET Result]
  BY AckType
<1>3. /\ DiskOK(disk') /\ DOMAIN disk' = DOMAIN disk
      /\ IsIndex(index') /\ size' \in Nat /\ UNCHANGED <<segments, activeID>>
  BY <1>1, WrittenType
<1> QED
  BY <1>1, <1>2, <1>3, DiskOKTypes DEF TypeInv, TypeOK, Shape, mergeVars

\* The counters of the bounds stay naturals.
LEMMA CountTypes ==
  ASSUME TypeInv
  PROVE  /\ CountWrite => writes' \in Nat
         /\ CountCrash => crashes' \in Nat
         /\ CountIOError => ioErrors' \in Nat
BY DEF CountWrite, CountCrash, CountIOError, TypeInv, TypeOK

\* Delete keeps the invariant.
LEMMA DeleteType == ASSUME TypeInv, NEW k \in Key, Delete(k) PROVE TypeInv'
<1>1. DelEntry(k) \in Entry /\ SyncOnWrite \in BOOLEAN
  BY EntryTypes, StoreAssumption
<1>2. writes' \in Nat /\ ioErrors' \in Nat
  BY DEF Delete, CountWrite, TypeInv, TypeOK
<1> QED
  BY <1>1, <1>2, WriteType DEF Delete

\* So does a write whose Sync or rotate fails.
LEMMA SyncOrRotateFailsType ==
  ASSUME TypeInv, NEW e \in WriteEntries, SyncFails(e) \/ RotateFails(e) PROVE TypeInv'
<1>1. e \in Entry /\ SyncOnWrite \in BOOLEAN
  BY WriteEntryTypes, StoreAssumption
<1>2. writes' \in Nat /\ ioErrors' \in Nat
  BY CountTypes DEF SyncFails, RotateFails
<1> QED
  BY <1>1, <1>2, WriteType DEF SyncFails, RotateFails

\* Store's handling of a frame that was cut short, in the active segment.
LEMMA PrefixOK ==
  ASSUME TypeInv, NEW id \in DOMAIN disk, NEW e \in Entry, NEW n \in Nat \ {0}
  PROVE  LET d == [disk EXCEPT ![id] = AppendPrefix(@, e, n)]
         IN  DiskOK(d) /\ DiskKeeps(disk, d) /\ DOMAIN d = DOMAIN disk
<1>1. DiskOK(disk) /\ IsFile(disk[id])
  BY DEF TypeInv, Shape, DiskOK
<1> QED
  BY <1>1, AppendPrefixKeeps, EditKeeps

\* And a write whose Append fails.
LEMMA AppendFailsType ==
  ASSUME TypeInv, NEW e \in WriteEntries, NEW n \in 1 .. frameSize(e) - 1, AppendFails(e, n)
  PROVE  TypeInv'
<1>1. e \in Entry /\ n \in Nat \ {0}
  BY WriteEntryTypes, EntryTypes
<1>2. activeID \in DOMAIN disk
  BY DEF AppendFails, CanAppend, TypeInv, Shape
<1>3. DiskOK(disk') /\ DOMAIN disk' = DOMAIN disk
  BY <1>1, <1>2, PrefixOK DEF AppendFails
<1>4. writes' \in Nat /\ ioErrors' \in Nat
  BY CountTypes DEF AppendFails
<1> QED
  BY <1>3, <1>4, DiskOKTypes
  DEF AppendFails, TypeInv, TypeOK, Shape, memVars, mergeVars, Fault

(***************************************************************************)
(* Merge.                                                                  *)
(***************************************************************************)
LEMMA SyncedActiveOK ==
  ASSUME TypeInv, activeID \in segments
  PROVE  /\ DiskOK(SyncedActive) /\ DiskKeeps(disk, SyncedActive)
         /\ DOMAIN SyncedActive = DOMAIN disk
         /\ \A id \in DOMAIN disk : SyncedActive[id].len = disk[id].len
<1>1. activeID \in DOMAIN disk /\ DiskOK(disk) /\ IsFile(disk[activeID])
  BY DEF TypeInv, Shape, DiskOK
<1>2. IsFile(Sync(disk[activeID])) /\ Keeps(disk[activeID], Sync(disk[activeID]))
      /\ Sync(disk[activeID]).len = disk[activeID].len
  BY <1>1, SyncKeeps
<1>3. SyncedActive = [disk EXCEPT ![activeID] = Sync(disk[activeID])]
  BY DEF SyncedActive
<1>4. /\ DiskOK(SyncedActive) /\ DiskKeeps(disk, SyncedActive)
      /\ DOMAIN SyncedActive = DOMAIN disk
  BY <1>1, <1>2, <1>3, EditKeeps
<1>5. \A id \in DOMAIN disk : SyncedActive[id].len = disk[id].len
  BY <1>2, <1>3
<1> QED
  BY <1>4, <1>5

\* maxFileID is the greatest open segment.
LEMMA MaxFileIDIs ==
  ASSUME TypeInv, segments # {}
  PROVE  maxFileID \in segments /\ \A id \in segments : id <= maxFileID
BY LastIDIn DEF maxFileID, TypeInv, Shape

\* The directory after Merge has synced and created its segment.
LEMMA MergeStartDisk ==
  ASSUME TypeInv, MergeStart
  PROVE  /\ DiskOK(disk') /\ DiskKeeps(disk, disk')
         /\ newID' \in DOMAIN disk' /\ newID' \in Nat
         /\ DOMAIN disk' = DOMAIN disk \cup {newID'}
         /\ newID' \notin DOMAIN disk => disk'[newID'] = EmptyFile
         /\ \A id \in segments : id < newID'
         /\ \A id \in DOMAIN disk : disk'[id] = SyncedActive[id] /\ disk'[id].len = disk[id].len
<1> DEFINE d == SyncedActive
           id == maxFileID + 1
<1>1. activeID \in segments /\ id <= MaxFileID /\ disk' = WithSegment(d, id) /\ newID' = id
  BY DEF MergeStart, CanAppend
<1>2. /\ DiskOK(d) /\ DiskKeeps(disk, d) /\ DOMAIN d = DOMAIN disk
      /\ \A i \in DOMAIN disk : d[i].len = disk[i].len
  BY <1>1, SyncedActiveOK
<1>3. maxFileID \in segments /\ \A i \in segments : i <= maxFileID
  BY <1>1, MaxFileIDIs
<1>4. id \in FileID /\ id <= MaxFileID + 1 /\ \A i \in segments : i < id
  BY <1>1, <1>3, StoreAssumption DEF TypeInv, TypeOK, FileID
<1> HIDE DEF d
<1>5. /\ DiskOK(disk') /\ DiskKeeps(d, disk') /\ DOMAIN disk' = DOMAIN d \cup {id}
      /\ \A i \in DOMAIN d : disk'[i] = d[i]
      /\ id \notin DOMAIN d => disk'[id] = EmptyFile
  BY <1>1, <1>2, <1>4, WithSegmentKeeps
<1>6. DiskKeeps(disk, disk')
  BY <1>2, <1>5, DiskKeepsTransitive DEF TypeInv, Shape
<1>7. id \in Nat
  BY <1>4 DEF FileID
<1> QED
  BY <1>1, <1>2, <1>4, <1>5, <1>6, <1>7 DEF d

\* The start of Merge keeps the invariant.
LEMMA MergeStartType == ASSUME TypeInv, MergeStart PROVE TypeInv'
<1>1. /\ DiskOK(disk') /\ newID' \in DOMAIN disk' /\ newID' \in Nat
      /\ DOMAIN disk' = DOMAIN disk \cup {newID'} /\ \A id \in segments : id < newID'
  BY MergeStartDisk
<1>2. IsIndex(newIndex') /\ todo' \subseteq Key /\ pc' = "copy" /\ up
  BY NewIndexType DEF MergeStart, LiveEntries, CanAppend, Ready
<1> QED
  BY <1>1, <1>2, DiskOKTypes
  DEF MergeStart, TypeInv, TypeOK, Shape, memVars, bounds

\* The record the copy loop appends for a key, and the directory after it.
LEMMA CopiedType ==
  ASSUME TypeInv, NEW k \in todo, SourceReadable(k)
  PROVE  Copied(k) \in Entry
<1>1. disk[index[k].file].at[index[k].off] \in Entry
  BY DEF SourceReadable, CanReadAt, TypeInv, Shape, DiskOK, IsFile
<1>2. /\ disk[index[k].file].at[index[k].off].key \in Key
      /\ disk[index[k].file].at[index[k].off].val \in Value \cup {NoValue}
  BY <1>1 DEF Entry
<1> QED
  BY <1>2, EntryTypes DEF Copied, ReadAt

\* The directory after one turn of the copy loop.
LEMMA MergeCopyDisk ==
  ASSUME TypeInv, NEW k \in Key, MergeCopy(k)
  PROVE  LET f == disk[newID]
         IN  /\ Copied(k) \in Entry /\ newID \in DOMAIN disk /\ IsFile(f)
             /\ DiskOK(disk') /\ DiskKeeps(disk, disk') /\ DOMAIN disk' = DOMAIN disk
             /\ disk'[newID] = Append(f, Copied(k))
             /\ \A id \in DOMAIN disk : id # newID => disk'[id] = disk[id]
             /\ f.len \in DOMAIN disk'[newID].at /\ disk'[newID].at[f.len] = Copied(k)
<1> DEFINE f == disk[newID]
<1>1. k \in todo /\ SourceReadable(k) /\ disk' = [disk EXCEPT ![newID] = Append(f, Copied(k))]
  BY DEF MergeCopy
<1>2. newID \in DOMAIN disk /\ DiskOK(disk) /\ IsFile(f)
  BY DEF MergeCopy, TypeInv, Shape, DiskOK
<1>3. Copied(k) \in Entry
  BY <1>1, CopiedType
<1>4. /\ IsFile(Append(f, Copied(k))) /\ Keeps(f, Append(f, Copied(k)))
      /\ f.len \in DOMAIN Append(f, Copied(k)).at /\ Append(f, Copied(k)).at[f.len] = Copied(k)
  BY <1>2, <1>3, AppendKeeps
<1>5. /\ DiskOK(disk') /\ DiskKeeps(disk, disk') /\ DOMAIN disk' = DOMAIN disk
      /\ disk'[newID] = Append(f, Copied(k))
  BY <1>1, <1>2, <1>4, EditKeeps
<1>6. \A id \in DOMAIN disk : id # newID => disk'[id] = disk[id]
  BY <1>1
<1> QED
  BY <1>2, <1>3, <1>4, <1>5, <1>6

\* A turn of the copy loop keeps the invariant.
LEMMA MergeCopyType == ASSUME TypeInv, NEW k \in Key, MergeCopy(k) PROVE TypeInv'
<1>1. DiskOK(disk') /\ DOMAIN disk' = DOMAIN disk /\ IsFile(disk[newID])
  BY MergeCopyDisk
<1>2. IsIndex(newIndex')
  <2>1. disk[newID].len \in Nat /\ newID \in Nat /\ IsIndex(newIndex)
    BY <1>1 DEF IsFile, TypeInv, TypeOK
  <2> QED
    BY <2>1, IndexPutType DEF MergeCopy
<1> QED
  BY <1>1, <1>2, DiskOKTypes DEF MergeCopy, TypeInv, TypeOK, Shape, memVars, bounds

\* The directory after newSeg.Sync.
LEMMA MergeSyncDisk ==
  ASSUME TypeInv, MergeSync
  PROVE  /\ newID \in DOMAIN disk /\ IsFile(disk[newID])
         /\ DiskOK(disk') /\ DiskKeeps(disk, disk') /\ DOMAIN disk' = DOMAIN disk
         /\ disk'[newID] = Sync(disk[newID])
         /\ \A id \in DOMAIN disk : disk'[id].len = disk[id].len
<1>1. newID \in DOMAIN disk /\ DiskOK(disk) /\ IsFile(disk[newID])
  BY DEF MergeSync, TypeInv, Shape, DiskOK
<1>2. /\ IsFile(Sync(disk[newID])) /\ Keeps(disk[newID], Sync(disk[newID]))
      /\ Sync(disk[newID]).len = disk[newID].len
  BY <1>1, SyncKeeps
<1>3. disk' = [disk EXCEPT ![newID] = Sync(disk[newID])]
  BY DEF MergeSync
<1>4. /\ DiskOK(disk') /\ DiskKeeps(disk, disk') /\ DOMAIN disk' = DOMAIN disk
      /\ disk'[newID] = Sync(disk[newID])
  BY <1>1, <1>2, <1>3, EditKeeps
<1>5. \A id \in DOMAIN disk : disk'[id].len = disk[id].len
  BY <1>2, <1>3
<1> QED
  BY <1>1, <1>4, <1>5

\* Syncing and creating the hint file keep the invariant.
LEMMA MergeSyncType == ASSUME TypeInv, MergeSync PROVE TypeInv'
<1>1. DiskOK(disk') /\ DOMAIN disk' = DOMAIN disk
  BY MergeSyncDisk
<1> QED
  BY <1>1, DiskOKTypes DEF MergeSync, TypeInv, TypeOK, Shape, memVars, bounds

\* Writing the hint file keeps it.
LEMMA MergeHintType == ASSUME TypeInv, MergeHint PROVE TypeInv'
BY DEF MergeHint, TypeInv, TypeOK, Shape, memVars, bounds

\* Removing an old segment keeps it.
LEMMA RemoveSegmentType == ASSUME TypeInv, NEW id \in segments, RemoveSegment(id) PROVE TypeInv'
<1>1. DiskOK(disk') /\ DOMAIN disk' = DOMAIN disk \ {id}
  BY WithoutSegmentOK DEF RemoveSegment, TypeInv, Shape
<1>2. pc = "remove" => newID \in DOMAIN disk'
  BY <1>1 DEF TypeInv, TypeOK, Shape
<1> QED
  BY <1>1, <1>2, DiskOKTypes
  DEF RemoveSegment, TypeInv, TypeOK, Shape, mergeVars, bounds

\* Promoting the new segment keeps it.
LEMMA MergePromoteType == ASSUME TypeInv, MergePromote PROVE TypeInv'
<1>1. newID \in DOMAIN disk /\ newID \in FileID /\ disk[newID].len \in Nat
  BY DiskOKTypes DEF MergePromote, TypeInv, Shape
<1> QED
  BY <1>1, NewIndexType
  DEF MergePromote, TypeInv, TypeOK, Shape, diskVars, bounds

\* The start of resetToEmpty keeps it.
LEMMA ResetStartType == ASSUME TypeInv, ResetStart PROVE TypeInv'
<1>1. DiskOK(disk') /\ DOMAIN disk' = DOMAIN disk
  BY SyncedActiveOK DEF ResetStart, CanAppend
<1> QED
  BY <1>1, DiskOKTypes
  DEF ResetStart, CanAppend, Ready, TypeInv, TypeOK, Shape, memVars, bounds

\* Removing the hint file keeps it.
LEMMA ResetHintType == ASSUME TypeInv, ResetHint PROVE TypeInv'
BY NewIndexType DEF ResetHint, TypeInv, TypeOK, Shape, memVars, bounds

\* The directory after resetToEmpty has created segment 1.
LEMMA ResetFreshDisk ==
  ASSUME TypeInv, ResetFresh
  PROVE  /\ DiskOK(disk') /\ DiskKeeps(disk, disk') /\ DOMAIN disk' = DOMAIN disk \cup {1}
<1>1. 1 \in FileID /\ 1 <= MaxFileID + 1 /\ DiskOK(disk) /\ disk' = WithSegment(disk, 1)
  BY StoreAssumption DEF TypeInv, Shape, FileID, ResetFresh
<1> QED
  BY <1>1, WithSegmentKeeps

\* Starting over with segment 1 keeps the invariant.
LEMMA ResetFreshType == ASSUME TypeInv, ResetFresh PROVE TypeInv'
<1>1. DiskOK(disk') /\ DOMAIN disk' = DOMAIN disk \cup {1}
  BY ResetFreshDisk
<1>2. disk'[1].len \in Nat /\ 1 \in FileID
  BY <1>1, DiskOKTypes
<1> QED
  BY <1>1, <1>2, DiskOKTypes, NewIndexType
  DEF ResetFresh, TypeInv, TypeOK, Shape, bounds, FileID

(***************************************************************************)
(* I/O errors and crashes.                                                 *)
(***************************************************************************)
LEMMA AbortType ==
  ASSUME TypeInv, NEW fault \in SUBSET Fault, MergeAborts(fault), DiskOK(disk'),
         segments' \subseteq segments, segments' \subseteq DOMAIN disk',
         hint' \in {"none", "torn", "whole"}, IsIndex(hintIndex'), ioErrors' \in Nat
  PROVE  TypeInv'
BY NewIndexType, DiskOKTypes DEF MergeAborts, TypeInv, TypeOK, Shape

\* The directory after a copy that was cut short.
LEMMA MergeCopyFailsDisk ==
  ASSUME TypeInv, MergeCopyFails
  PROVE  DiskOK(disk') /\ DiskKeeps(disk, disk') /\ DOMAIN disk' = DOMAIN disk
<1>1. DiskOK(disk) /\ newID \in DOMAIN disk
  BY DEF TypeInv, Shape, MergeCopyFails
<1>2. CASE disk' = disk
  BY <1>1, <1>2, DiskKeepsReflexive
<1>3. ASSUME NEW k \in todo, SourceReadable(k), NEW n \in 1 .. frameSize(Copied(k)) - 1,
             disk' = [disk EXCEPT ![newID] = AppendPrefix(@, Copied(k), n)]
      PROVE  DiskOK(disk') /\ DiskKeeps(disk, disk') /\ DOMAIN disk' = DOMAIN disk
  <2>1. Copied(k) \in Entry
    BY <1>3, CopiedType
  <2>2. n \in Nat \ {0}
    BY <2>1, EntryTypes
  <2> QED
    BY <1>1, <1>3, <2>1, <2>2, PrefixOK
<1> QED
  BY <1>2, <1>3 DEF MergeCopyFails

\* Every error path of Merge keeps the invariant.
LEMMA MergeFailsType ==
  ASSUME TypeInv,
         \/ \E k \in Key : MergeReadFails(k)
         \/ MergeCopyFails \/ MergeHintFails \/ ResetFails
         \/ \E id \in segments : RemoveFails(id)
  PROVE  TypeInv'
<1>1. DiskOK(disk) /\ segments \subseteq DOMAIN disk
  BY DEF TypeInv, Shape
<1>2. hint \in {"none", "torn", "whole"} /\ IsIndex(hintIndex) /\ IsIndex(newIndex) /\ ioErrors \in Nat
  BY DEF TypeInv, TypeOK
<1>3. ASSUME NEW k \in Key, MergeReadFails(k) PROVE TypeInv'
  BY <1>1, <1>2, <1>3, AbortType DEF MergeReadFails, Fault, diskVars
<1>4. CASE MergeCopyFails
  <2>1. ioErrors' \in Nat
    BY <1>4, CountTypes DEF MergeCopyFails
  <2> QED
    BY <1>1, <1>2, <1>4, <2>1, MergeCopyFailsDisk, AbortType DEF MergeCopyFails, Fault
<1>5. CASE MergeHintFails
  <2>1. ioErrors' \in Nat
    BY <1>5, CountTypes DEF MergeHintFails
  <2> QED
    BY <1>1, <1>2, <1>5, <2>1, AbortType DEF MergeHintFails, Fault
<1>6. CASE ResetFails
  <2>1. ioErrors' \in Nat
    BY <1>6, CountTypes DEF ResetFails
  <2> QED
    BY <1>1, <1>2, <1>6, <2>1, AbortType DEF ResetFails, Fault, diskVars
<1>7. ASSUME NEW id \in segments, RemoveFails(id) PROVE TypeInv'
  <2>1. ioErrors' \in Nat
    BY <1>7, CountTypes DEF RemoveFails
  <2> QED
    BY <1>1, <1>2, <1>7, <2>1, AbortType DEF RemoveFails, Fault, diskVars
<1> QED
  BY <1>3, <1>4, <1>5, <1>6, <1>7

\* Going down, by Close or a crash, keeps the invariant.
LEMMA DownType ==
  ASSUME TypeInv, Down, DiskOK(disk'), hint' = hint, hintIndex' = hintIndex,
         acked' \in [Key -> SUBSET Result], faults' \subseteq Fault,
         writes' \in Nat, crashes' \in Nat, ioErrors' = ioErrors
  PROVE  TypeInv'
BY NewIndexType, DiskOKTypes DEF Down, TypeInv, TypeOK, Shape

\* What a power loss leaves is a directory.
LEMMA PowerLossDisk ==
  ASSUME TypeInv, PowerLoss
  PROVE  /\ DiskOK(disk') /\ DOMAIN disk' = DOMAIN disk
         /\ \A id \in DOMAIN disk : disk'[id] \in AfterPowerLoss(disk[id])
<1>1. /\ disk' = [id \in DOMAIN disk' |-> disk'[id]] /\ DOMAIN disk' = DOMAIN disk
      /\ \A id \in DOMAIN disk : disk'[id] \in AfterPowerLoss(disk[id])
  BY DEF PowerLoss
<1>2. \A id \in DOMAIN disk : IsFile(disk[id]) /\ id \in FileID /\ id <= MaxFileID + 1
  BY DEF TypeInv, Shape, DiskOK
<1>3. \A id \in DOMAIN disk : IsFile(disk'[id])
  BY <1>1, <1>2, PowerLossKeepsSynced
<1> QED
  BY <1>1, <1>2, <1>3 DEF DiskOK

\* Close and every crash keep the invariant.
LEMMA CrashType == ASSUME TypeInv, Close \/ Crash PROVE TypeInv'
<1>1. /\ DiskOK(disk) /\ segments \subseteq DOMAIN disk /\ faults \subseteq Fault
      /\ acked \in [Key -> SUBSET Result] /\ writes \in Nat /\ crashes \in Nat
  BY DEF TypeInv, TypeOK, Shape
<1>2. CASE Close
  BY <1>1, <1>2, DownType DEF Close, diskVars, bounds
<1>3. CASE Kill
  <2>1. crashes' \in Nat /\ faults' \subseteq Fault
    BY <1>1, <1>3, CountTypes DEF Kill, CrashFault, Fault
  <2> QED
    BY <1>1, <1>3, <2>1, DownType DEF Kill, diskVars
<1>4. ASSUME NEW e \in WriteEntries, NEW n \in 1 .. frameSize(e), KillInWrite(e, n)
      PROVE  TypeInv'
  <2>1. e \in Entry /\ n \in Nat \ {0} /\ activeID \in DOMAIN disk
    BY <1>1, <1>4, WriteEntryTypes, EntryTypes DEF KillInWrite, CanAppend
  <2>2. DiskOK(disk')
    BY <1>4, <2>1, PrefixOK DEF KillInWrite
  <2>3. crashes' \in Nat /\ writes' \in Nat
    BY <1>4, CountTypes DEF KillInWrite
  <2>4. acked' \in [Key -> SUBSET Result]
    BY <1>4, <2>1, AckType DEF KillInWrite
  <2> QED
    BY <1>1, <1>4, <2>2, <2>3, <2>4, DownType DEF KillInWrite
<1>5. ASSUME NEW k \in todo, KillInCopy(k) PROVE TypeInv'
  <2>1. newID \in DOMAIN disk /\ Copied(k) \in Entry
    BY <1>5, CopiedType DEF KillInCopy, TypeInv, Shape
  <2>2. PICK n \in 1 .. frameSize(Copied(k)) - 1 :
          disk' = [disk EXCEPT ![newID] = AppendPrefix(@, Copied(k), n)]
    BY <1>5 DEF KillInCopy
  <2>3. n \in Nat \ {0}
    BY <2>1, EntryTypes
  <2>4. DiskOK(disk')
    BY <2>1, <2>2, <2>3, PrefixOK
  <2>5. crashes' \in Nat
    BY <1>5, CountTypes DEF KillInCopy
  <2> QED
    BY <1>1, <1>5, <2>4, <2>5, DownType DEF KillInCopy
<1>6. CASE PowerLoss
  <2>1. DiskOK(disk')
    BY <1>6, PowerLossDisk
  <2>2. crashes' \in Nat /\ faults' \subseteq Fault
    BY <1>1, <1>6, CountTypes DEF PowerLoss, CrashFault, Fault
  <2>3. acked' \in [Key -> SUBSET Result]
    BY <1>1, <1>6 DEF PowerLoss, Result
  <2> QED
    BY <1>1, <1>6, <2>1, <2>2, <2>3, DownType DEF PowerLoss
<1> QED
  BY <1>2, <1>3, <1>4, <1>5, <1>6 DEF Crash

\* Every step keeps the invariant.
LEMMA NextTypeInv == TypeInv /\ [Next]_vars => TypeInv'
<1> SUFFICES ASSUME TypeInv, [Next]_vars PROVE TypeInv'
  OBVIOUS
<1>1. CASE UNCHANGED vars
  BY <1>1 DEF vars, diskVars, memVars, mergeVars, bounds, TypeInv, TypeOK, Shape
<1>2. CASE Open
  BY <1>2, OpenType
<1>3. CASE \E k \in Key : Delete(k) \/ \E v \in Value : Put(k, v)
  BY <1>3, PutType, DeleteType
<1>4. CASE MergeStart \/ ResetStart
  BY <1>4, MergeStartType, ResetStartType
<1>5. CASE MergeStep
  BY <1>5, MergeCopyType, MergeFailsType, MergeSyncType, MergeHintType, MergePromoteType,
     ResetHintType, ResetFreshType, RemoveSegmentType DEF MergeStep
<1>6. CASE IOError
  BY <1>6, AppendFailsType, SyncOrRotateFailsType, MergeFailsType DEF IOError
<1>7. CASE Close \/ Crash
  BY <1>7, CrashType
<1> QED
  BY <1>1, <1>2, <1>3, <1>4, <1>5, <1>6, <1>7 DEF Next

(***************************************************************************)
(* In every behaviour of the store, with any number of crashes and I/O     *)
(* errors, every variable keeps its type: files are tiled by frames within *)
(* their length, the synced part is a part of the file, and Merge always   *)
(* finds the segments it works on.                                         *)
(***************************************************************************)
THEOREM TypeCorrect == Spec => []TypeOK
<1>1. TypeInv => TypeOK
  BY DEF TypeInv
<1> QED
  BY InitTypeInv, NextTypeInv, <1>1, PTL DEF Spec
=============================================================================
