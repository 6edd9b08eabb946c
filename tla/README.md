# A TLA+ verification of bitcask

This directory specifies the storage engine of this repository and its packages
in TLA+, model-checks them with TLC on small instances and proves central
invariants with TLAPS for every instance. `PROJECT.json` maps each definition to
the lines it models and lists runs, mutants, hazards, findings and theorems.

    tlc -config MCStoreFaults.cfg MCStore     # one run
    tlapm ResolutionProofs.tla                # one module's proofs

## The system

| part | state | operations | interacts with |
|---|---|---|---|
| `log` | segment file, handle's `size` | `Append`, `Sync`, `ReadAt`, `Reader.Next` | file system |
| `index` | map key → location, RWMutex | `Put`, `MarkDelete`, `Delete`, `Get`, `Range`, `LiveEntries`, `WriteHint`, `LoadHint` | hint file |
| `store` | directory, index, open segments, active segment | `Open`, `Get`, `Put`, `Delete`, `rotate`, `Merge`, `resetToEmpty`, `Close` | `log`, `index` |
| `store` iterators | captured keys and locations, position, error | `Iter`, `Prefix`, `Range`, `Next`, `Value`, `Rewind`, `Seek` | `index`, `Get` |
| `store` snapshots | a second directory, linked or copied | `Snapshot`, `Inspect` | the store's files |
| `store` archives | a tar.gz | `Backup`, `Restore` | the store's files |
| `flock` | file `LOCK`, its pid | `Acquire`, `AcquireWithRetry`, `Release`, `IsHeld` | other processes |
| `cache` | list and map, capacity | `Get`, `Put`, `Delete`, `Clear`, `Resize` | – |
| `bloom` | bits, `m`, `k`, RWMutex | `Add`, `MayContain`, `Reset`, `Union`, `WriteTo`, `ReadFrom` | another filter |
| `stats` | atomic counters, event history, segment list | `Take`, `Reset`; `Add`, `Clear`; `SetSegments` | – |
| `ttl` | map key → expiry | `Set`, `Remove`, `IsExpired`, `Sweep`, `NextExpiry`, `Encode`, `Decode` | the clock |
| `batch` | operations, flags, size | `Put`, `Delete`, `Ops`, `Discard`, `Reset`, `Deduplicate`, `Validate` | holders of `Ops` |
| `keydir` | a file of records | `SaveToFile`, `LoadFromFile` | file system |
| `codec` | – | varints, zig-zag, length prefixes | a byte stream |
| `config` | `bitcask.json`, layers of overrides | `Load`, `Save`, `Validate`, `Merge` | file system |
| command line | – | `reorder`, flag parsing, one store call per command | `store` |

Only `log`, `index` and `store` are wired together (`main.go` calls `store`);
the other packages stand alone. `store.Open` does not take the `flock` lock.

What is hard here: `Merge` changes the directory in many steps and may stop
between any two (error, killed process, power loss); the hint file short-cuts
recovery and can be stale; file IDs carry the order of writes; a failed append
separates the handle's idea of the file from the file; hard links share files
between a store and its snapshot; a lock file is removed by name; an iterator
outlives the records it captured. In the packages: locks taken twice in one call
(`Range`), values loaded one by one (`Take`), two locks at once (`Union`), a clock read
outside the lock, a slice handed out and later overwritten, files truncated in
place, words that wrap. What makes each part correct is stated below with its
run; the complete list is under `hazards` in `PROJECT.json`.

## Modules

| module | models |
|---|---|
| `SegmentLog` | `internal/log`: files as length, synced length and frames by offset |
| `KeyIndex` | `internal/index` as the store calls it, and `scanIndex` as a definition |
| `Store` | `internal/store` (`store.go`, `merge.go`), with crashes and I/O errors |
| `KVMap` | what an open store promises: a map that changes in the step of a call of `Put` or `Delete`, at its key and to its value, and in no other step |
| `StoreProps` | the properties of `Store`, and the refinement of `KVMap` |
| `Iterators` | `iter.go` composed with `Store` |
| `Snapshots` | `snapshot.go` composed with `Store` |
| `Archives` | `backup.go` composed with `Store` |
| `FileLock` | `internal/flock`, one step per system call |
| `SharedIndex` | `internal/index` called by several goroutines |
| `LRUCache`, `Bloom`, `Stats`, `TTL`, `Batch`, `KeyDir`, `Codec`, `Config` | the package of that name |
| `CommandLine` | `main.go`: from the words to one call |
| `StoreProofs`, `ResolutionProofs`, `RecoveryProofs` | proofs about `Store`, each extending the one before |
| `IteratorProofs` | proofs about `Iterators`, on those of `ResolutionProofs` |
| `CopyProofs` | proofs about `Snapshots` and `Archives`, on those of `RecoveryProofs` |
| `FileLockProofs` | proofs about `FileLock` |
| `PackageProofs` | proofs about `Bloom`, `TTL`, `Stats`, `Config` and `SharedIndex` |
| `DataProofs` | proofs about `Batch`, `KeyDir`, `LRUCache`, `Codec` and `CommandLine`, which need inductions over data |
| `MCStore`, `MCIterators`, `MCSnapshots`, `MCArchives`, `MCFileLock`, `MCPackages` | instances for TLC |

**Store.** `disk`, `hint` and `hintIndex` are the directory; `index`,
`segments`, `activeID` and `size` are the fields of `Store` (and of its active
`Segment`); `pc`, `newID`, `newIndex` and `todo` are where `Merge` is and its
local variables. The mutex makes `Put`, `Delete`, `Open` and `Close` one step
each. `Merge` is one action per change to the directory (`MergeStart`,
`MergeCopy`, `MergeSync`, `MergeHint`, `RemoveSegment`, `MergePromote`, and
`ResetStart`, `ResetHint`, `ResetFresh` for `resetToEmpty`). Each early return
that leaves something behind is an action: `AppendFails`, `SyncFails`,
`RotateFails`, `MergeReadFails`, `MergeCopyFails`, `MergeHintFails`,
`RemoveFails`, `ResetFails`. Crashes are `Kill`, `KillInWrite`, `KillInCopy`
(the page cache survives) and `PowerLoss` (each file keeps a prefix that
contains what was synced). `acked` records, per key, what a client may find:
the last acknowledged value, and values of calls that returned an error or were
cut off after their record could have reached the file.

**Iterators** adds one iterator a client holds. Its keys are byte sequences with
Go's order; `Seek` is the binary search of `sort.Search`. `Value` reads through
the store's index and never at the captured location. A closed store leaves the
iterator with `ErrClosed`, also after it is opened again under another handle.
(`Range` is called `RangeIter` here, because a library module has that name.)

**Snapshots** adds a snapshot directory whose files are links to the store's
files or copies. A link follows the store's file until the store unlinks it;
copies are not synced, and `CopiesLost` is a power loss that takes bytes of them.
`Partly` is a Snapshot that stops after some files or inside one, by an error
(`SnapshotFails`) or because the process dies (`KillInSnapshot`); where a file is
copied onto itself through a link of an earlier snapshot, it is the store's file
that is cut. A power loss that takes bytes of a live hint file copied onto itself
is not modelled by itself: it leaves what `KillInSnapshot` leaves. `SnapOpens`
says whether an Open of the directory succeeds, by the same verdict as the store's.

**Archives** adds the last archive and `Restore` into an empty directory, over
the old one, or failing half way. `Backup` drops the errors of the calls that
finish the archive, so one it returned nil for may be cut short anywhere
(`BackupCutShort`); a Restore of it stops at the cut (`RestoreCutShort`).
`Iterators`, `Snapshots` and `Archives` compose by taking a step of `Store` or one
of their own.

**FileLock** gives files an identity (inode), because `flock(2)` locks the file
and not its name, and `Release` removes the name.

**The packages.** A call that holds its lock from first to last access is one
step; one that locks twice, or reads a clock or a file in between, is one step
per piece, with everything else between them:

- `SharedIndex`: `Range` locks once per key, and `LiveEntries` and `WriteHint`
  are built on it;
- `LRUCache` keeps the list and the map apart, so that their agreement is a
  property;
- `Bloom`: positions are computed with the wrapping of `h1 + i*h2`; `Union` takes
  its two locks in two steps; `ReadFrom` refuses more than `MaxBits`;
- `Stats`: `Take` loads and `Reset` stores counter by counter; `moments` collects
  what the counters were together meanwhile; the history is a sequence shifted in
  place;
- `TTL`: `IsExpired` and `Sweep` are two steps around the clock; `Encode` keeps a
  time as `UnixNano` does, in a signed word of twice `HalfWord` values that wraps,
  into the past or into the future;
- `Batch` has the array behind the slice: `append` writes in place while there is
  room, and a slice from `Ops` shares the array or keeps one that was left;
- `KeyDir`: the file grows block by block, and a load runs beside a save;
- `Codec`: a varint byte carries a digit to the base `Group` (128 in the code) and
  there are at most `MaxVarintLen` of them (10). A word is twice what one digit
  less can count, which keeps `64 = 9 * 7 + 1`: the last byte has room for one bit.
  The length before a payload wraps at `LenWord` (2^32), and `DefaultMaxLen` takes
  the place of a limit that is not positive;
- `Config`: layers merged one by one, and a history variable with the layers
  merged among themselves first;
- `CommandLine`: a line is typed word by word, and in every state what `run`
  makes of it is compared with the words no flag takes and the last db flag;
  `flag.Parse` is external and modelled word by word.

`MCPackages` composes them: the variable `package` says which one a behaviour is
about, and a step is a step of that one. They share no state, so every behaviour
of every package is one of the composition, without the product of their states.

### What is assumed

- creating, truncating and removing files, and the hint file's content once
  `writeHintFile` has synced it, become durable in program order; only segment
  bytes (and, in `KeyDir`, blocks) that were not synced can be lost in a power
  loss, and a file loses a suffix;
- `crc32` detects every torn or misplaced record; `Encode` and `Decode` are
  inverse, for keys and values shorter than the 2^32 bytes a frame's header counts;
- one process has the store open (`Store`);
- an unreadable hint file is one state, `"torn"`, whatever bytes it holds;
- the clock of `TTL` does not run backwards;
- the keys of `Iterators` are byte strings, finitely many (`BytesAssumption`).

## Runs

Passing runs (`expect: pass`):

| run | instance | shows |
|---|---|---|
| `store_clean` | 3 keys of 2 and 3 bytes, 4 bounds, 2 values, 3 writes, no faults; one iterator | `TypeOK`, `RefinesKVMap`, `MergeCompacts`, `CleanOpenSucceeds`; `ValueIsCurrent`, `RangeYieldsLive`, `SeekIsExact` |
| `store_faults` | 2 keys, 3 writes, 2 crashes, 1 I/O error, `SyncOnWrite` | `HintResolves`, `ScanRecovers`, `FreshHintRecovers`, `ActiveIsNewest`, `OpenFindsAcked`, `IndexResolves`, `ReadsAcked`, `DamageIsLocal` |
| `snapshot` | 2 keys, 2 writes, 1 crash, 1 I/O error, 2 snapshots | `SnapshotIsAMoment`, `SnapshotHintResolves` |
| `archive` | 2 keys, 3 writes, 1 I/O error | `ArchiveRecovers`, `RestoredHintResolves` |
| `lock` | 2 processes, 3 inodes, fairness | `ExclusiveUnlessRaced`, `OwnerOnRecord`, `RetryReturns` |
| `packages` | see below, fairness | the properties of the packages |

`RefinesKVMap` is refinement of a labelled map: `KVMap` sees the number of calls
and what each promised, so a Merge or a rotation that changed one key would be no
step of it, and neither would a Put that changes nothing. `ReadsAcked` speaks of
the time from an `Open` to the next `Close` or crash, because a client goes on from
what it is shown; that `Open` shows the acknowledged writes is `OpenFindsAcked`.
`CleanOpenSucceeds` holds within the limits of `Reader.Next` and `LoadHint`
(`WithinLimits`), which neither Put nor Merge enforces; the run also goes beyond
each of them, and comes back by deleting and merging. `DamageIsLocal` is about the
short write: `Segment.size` no longer agrees with the file, and still everything
written before it stays readable where the index has it. `ScanRecovers` covers a
crash while the first hint file is written: the segments still hold everything.

What `packages` checks:

| package | properties |
|---|---|
| `index` | `LiveEntriesAreLive`: only keys that were live, or gone, at some moment of the walk; `HintHoldsTracked`: a key tracked throughout is in the hint file |
| `cache` | `CacheIsCoherent` (list and map agree, values are those last put), `HoldsMostRecent` |
| `bloom` | `NoFalseNegatives`, `NoStrayBits`, `UnionReturns` |
| `stats` | `HistoryKeepsLatest` |
| `ttl` | `ExpiredAnswerIsTimely`, `SweepTakesTheExpired` |
| `batch` | `HeldOpsStable`, `SameEffect` (of the staged operations, and their size) |
| `keydir` | `DirectorySurvives` (a saved list is durable; a load fails or answers every key as the saved list does) |
| `codec` | `CodecRoundTrip` (exact, or failing for a cause, and never above the word, while every length fits its prefix) |
| `config` | `LayersMergeSoundly` (valid, and the same in any grouping) |
| command line | `FlagsMayComeAnywhere` |

Bounds. Frames are 3 bytes (tombstone) or 4 (value), and `MaxFileSize = 4`, so
the second record of a segment rotates it; in `snapshot` they are 2 and 3 bytes
with `MaxFileSize = 3`. Two writes of one key with a Merge between them, or one of
each of two keys in different segments, are the smallest histories in which stale
records, tombstones and several source segments meet; three writes repeat them
before and after a Merge. Two crashes allow one in recovery after another, and the
I/O error may come before, between or after them. `MaxFileID` and `MaxOrphanSize`
only cap growth by repeated merges and over what a failed one left. The keys of
`store_clean` share a first or a last byte; the bounds have a key, a prefix of keys,
the empty string and a string longer than a key it begins with; the third key is
beyond the limit on keys, its record beyond that on records, and the three beyond
that on entries. `snapshot` has one Snapshot, and one more or one that stops
(`AtMostTwo`). The lock needs an inode per process and one for the name;
two processes show every race of one pair, and the safety properties are proved
for any number. `MaxAttempts` stands for the deadline of `AcquireWithRetry`. The
largest runs are `archive` and `snapshot` with 1.8 and 1.5 million states;
`store_faults` has 0.95 million, `store_clean` 0.3, `packages` 0.2.

In `packages`: the cache has one key more than its largest capacity; the index
walk has two keys and four calls beside it, enough to delete and revive each;
three filters of two sizes allow a chain of unions, a refused one and a reload
of another size and one that is refused as too large, over hashes that wrap and
one that is zero; two counters show `Take`s of no single moment and `Reset`s
half done; five events pass a history of two more than twice; two keys and three
ticks let an entry expire and be renewed around a step, and words of 3 bits
(`HalfWord = 4`) wrap one of the times set into the past and one into the
future; two operations between resets fill and outgrow the first array; with
`Group = 4` and `MaxVarintLen = 3` words of 5 bits have three-byte varints,
whose last byte has one bit, and with `LenWord = 4` one of the payloads is of a
length that wraps; four words of a command line hold a flag with its value
apart, a command and an argument.

Symmetry is used for keys, or for values, in the store's runs, which have no
liveness property, and nowhere else. Deadlock is checked for the lock; elsewhere
an unreadable hint file or segment, or a record beyond a limit, stops the store for
good, as it stops the program, or a package's bound is reached.

Fairness. In `FileLock` each process's steps inside a call are weakly
fair; whether a client calls `Release` is not. The second half of a `Union` is
strongly fair: Go's RWMutex lets a waiting reader go before the next writer, so
other unions that take and give back that lock cannot keep it out.

Violation runs state what a comment of the repository says and show the code
doing something else. Each has a finding with the quoted line:

| run | what happens |
|---|---|
| `reload_exact` | writes after a Merge are forgotten at the next Open, which loads the old hint file |
| `failed_merge` | a Merge that gave up leaves stale records that win the next scan |
| `lock_race` | two owners, because `Release` removes another process's lock file |
| `prefix` | `Prefix` yields the keys that end in the given bytes |
| `snapshot_open` | a record cut short at the end of a linked segment makes the Open of the snapshot fail |
| `stats_take` | `Take` returns values the counters never had together |

`SnapshotIsConsistent`, which `snapshot_open` refutes, has two more ways to fail,
with longer traces: a Merge rewrites the hint file that the snapshot links
(`snapshot.go:44`), which then names a segment the snapshot lacks; and a power loss
takes bytes of a copied segment but not of a later one (`snapshot.go:110`), so that
the snapshot opens as the store never was.

The models show more of the same kind, which have no run of their own. In the
store:

- a process killed inside `Put` leaves a torn record, and the next `Open` without
  a hint file fails on it (`KillInWrite`; `reader.go:56`), except when exactly a
  header was written, which reads as a clean end;
- a Merge without live keys restarts at file ID 1 (`ResetFresh`), where
  `merge.go:16-17` says the ID is greater than every previous one;
- after a short write all later offsets are wrong (`AppendFails`), where
  `segment.go:102` says `Size` is the end of the file; a later Merge copies what
  it finds there into the new segment;
- `Close` syncs nothing, where `store.go:258` says it flushes;
- a crash while `resetToEmpty` removes segments in map order can revive a
  deleted key (`RemoveSegment`, `Kill`; `entry.go:35-36`);
- `Delete` never rotates (`store.go:38-40`);
- a record above `maxRecordPayload` is accepted and read, and then makes the
  scan of the next `Open` fail (`ScanVerdicts`; `reader.go:10`); a key above 16 MiB,
  or more than 2^28 keys, survive Put and Merge, and then every `Open` refuses the
  hint file (`HintLoads`; `index.go:176` and `230`);
- writes after a snapshot show in it, through a linked segment (`snapshot.go:12`);
- dying in a second snapshot into the same directory destroys synced records of
  the live store (`KillInSnapshot`);
- a `Backup` that returned nil may leave an archive that is cut short
  (`BackupCutShort`; `backup.go:29` and `31`);
- `Restore` over an old directory leaves its newer segments and its hint file in
  charge (`RestoreOverOld`; `backup.go:49-50`);
- after a Merge that failed once its hint file was written, an archive lacks the
  segment that hint file names (`backup.go:14-16`).

In the packages:

- `index.Range` hands out a zero `Location` for a key deleted during the walk,
  and `LiveEntries` reports it as live, where `index.go:118` says it is of keys whose
  latest record is not a tombstone;
- `OverallDeadRatio` may divide two different lists;
- `Resize(0)` of the cache keeps every entry (`cache.go:160-161`);
- `f.Union(f)`, and unions in a circle, wait for ever (`bloom.go:237`);
- `Discard` leaves `sizeBytes`; `Reset` goes on in the array a client may hold
  from `Ops`;
- an expiry after 2262 comes back from `Decode` as long past, and one before 1678 may
  come back as not yet due (`Stored`);
- a payload of 4 GiB or more is read back as another one, with no error
  (`LengthPrefixed`; `codec.go:92` and `121`);
- a save beside a load of `keydir` can give a mixture of both lists;
- two valid layers of a configuration can be invalid together, when one of them
  has a negative interval;
- a word after `--` becomes the subcommand, and a mistyped subcommand creates a
  database, because the store is opened first.

The passing properties are stated around these: `Damaged` (a failed append, or
a failure in the removals), `faults`, `WithinLimits`, `HintIsNews`, the kind of
snapshot (`taken`), `finished` of an archive, `LengthsFit` of a stream, and the
history variables of the packages (`dropped`, `reused`, `raced`, `negative`,
`changed`) name the histories they exclude, and every other failure, crash and
interleaving is included.

## Proofs

All proofs hold for every set of keys, values, processes, inodes, filters, items,
counters and lists, every frame size and hash, both settings of `SyncOnWrite`,
every `MaxFileSize` and every value of the bounds. They rest on the `ASSUME`s of
the modules: sizes are positive naturals, hashes naturals, the special values are
distinct from the ordinary ones (the time `Never` is no integer), keys are
finitely many, no filter is joined with itself, a varint's base is at least 2. No
theorem has a hypothesis of its own.

The theorems about the store build on one another; each has its inductive
invariant, and one lemma per action:

- `TypeCorrect` (`StoreProofs`): `Spec => []TypeOK`. `TypeOK` is not inductive:
  a write needs the active segment to be a file of the directory, Merge its new
  one. `Shape` adds that: open segments are files, the active one is among the
  files, Merge's segment exists and is above every open one.
- `IndexAlwaysResolves` and `HintAlwaysResolves` (`ResolutionProofs`). The
  invariant `ResInv` has two halves: `LocInv`, where records are, and `DurInv`,
  which of them are durable and only a power loss asks about; a snapshot, whose
  copies are not synced, needs the first half alone. It relates the handle's size
  to the file (`SizeInv`: without
  damage the next offset is the end of the file), the index to the files
  (`IndexInv`), Merge's new index to its new segment, durable once `newSeg.Sync`
  has run (`NewInv`, `RemoveInv`), the keys still to copy to live keys
  (`LiveTodo`), and the hint file to synced records (`HintInv`); `EmptyInv` says
  `resetToEmpty` has no live key to lose. The lemmas at the head of `StoreProofs`
  supply what an append, a sync, a power loss and a scan do to files.
- `ReadsAlwaysAcked` (`ResolutionProofs`): `Spec => []ReadsAcked`, from an `Open` to
  the next `Close` or crash. `ReadInv` says what
  the index reads is acknowledged, `CopyInv` that what Merge has copied reads the
  same in the new segment as in the old ones and that nothing but the keys still
  to do is missing. `StoreIsAMap` is the refinement `Spec => KV!Spec`, step by
  step: a call of Put or Delete is the step of `KVMap` with its key and value, and
  every other action leaves the map, the number of calls and what they promised
  alone.
- `ActiveAlwaysNewest` (`RecoveryProofs`), from `DirInv`: outside Merge the open
  segments are the files of the directory, and while Merge runs the others are
  older than its new one.
- `MergeAlwaysCompacts`, an action property, from `CompactInv`: every frame in
  Merge's segment is named by its new index.
- `CleanStoreReopens`, from `CleanInv`: without crashes and errors every file is
  whole frames to its end and no hint file is cut short; a hint file names records
  that are on disk, so in a directory within the limits it is within them. The
  property itself is scoped by `WithinLimits`: beyond them it is false of the code.
- `DamageStaysLocal`, from `LocalInv`: the record of a live key was written at
  the end of a file that grows only by appends, or else behind a torn record.
- `FreshHintAlwaysRecovers`, from `NewsInv` and `LiveHintInv`: while no frame is
  newer than the hint file, each entry's record holds an acknowledged value and a
  key without an entry is acknowledged absent.
- `ScanAlwaysRecovers` (`RecoveryProofs`). What a scan finds now says too little: a
  power loss may take the last record away, and then the one before it is found.
  `AckedIn` therefore asks for every record that only loose (unsynced) ones
  follow, and for absence when all are loose. An acknowledged write is not loose
  and comes last in the order of files and offsets, so nothing before it can be
  found again; a write that failed after its append, or was cut off, only adds
  what may be found; Merge's copy adds a record with the value the index reads.
  After a short write the index may point into the middle of a frame; but a
  record written behind a torn one spoils the file, that is, makes every later
  scan of it fail (`SpoiledIn`, `SoonSpoiled` while that record is still loose).
  So `ScanInv` says the directory is spoiled or shows what is acknowledged, and
  the same of the index Merge copies from. It needs `EndInv` (the handle's size
  is the end of the file, or a torn frame precedes it) and `AbsentInv` (a key
  that is not live is acknowledged absent, so that `resetToEmpty` may drop all).
- `OpenAlwaysFindsAcked` (`RecoveryProofs`), the action property that ties the two
  sides of a restart: what `Open` shows, by a scan or by an up-to-date hint file, is
  what was acknowledged before it, from `ScanInv` and `NewsInv` of the closed store.
- `ValueAlwaysCurrent` and `RangeAlwaysYieldsLive` (`IteratorProofs`), over
  the composition of iterators and store. `SoundInv` adds that a live key's
  record holds a value, and `IterInv` that what was captured is what was
  acknowledged at that moment.
- `SeekAlwaysExact` (`IteratorProofs`): `Seek` stops at the first captured key that
  is not below the one asked for, for any keys. Go's order of byte strings is shown
  to be total and transitive and the captured entries to ascend in it. The binary
  search is a recursive function: it exists because "the place of the range nearest
  to the first such key" solves its equation, and any two solutions agree, by the
  shortest range on which they would not.

The copies of a store (`CopyProofs`):

- `SnapshotHintAlwaysResolves`. `LinkInv` says how the files of a snapshot lie to
  the store's: a link is to one of its files until the store unlinks it, and then it
  counts as a copy. `SnapHintInv`: what a copied hint file names was durable then and
  stays so, because linked files are only appended to and a power loss takes only
  what was not synced. Copies are not synced; the property is of a snapshot they
  were spared in (`taken = "fresh"`), and the proof looks at the snapshot with its
  copies synced (`SpareDisk`).
- `SnapshotAlwaysAMoment`, from `MomentInv`. `FoundInv` (without faults and without a
  hint file a scan finds what is acknowledged) gives the moment of the snapshot
  itself. While its newest file is a link that the store writes, the snapshot moves
  along with the store (`LiveMoment`), also through a restart (`TopMoment`); once the
  store has moved on, nothing in it changes. The proof found the property too
  strong: a Merge that gave up leaves a segment the store does not know of, which
  `rotate` may open later, behind a snapshot taken in between. The property now
  speaks of a snapshot into an empty directory before any fault (`taken = "fresh"`).
- `ArchiveAlwaysRecovers` and `RestoredHintAlwaysResolves`. `Restore` syncs nothing,
  so nothing that rests on synced bytes holds of a restored directory; the
  properties are about histories without a crash, and what a scan finds is stated
  of the directory with every file synced (`SyncedAll`). `WholeInv` is what holds of
  the store while no `Restore` has mixed files and nothing failed, `ArchiveInv` that
  a finished archive then shows what was acknowledged when it was made, `RestoredInv` that a
  directory just restored is the archive.

The other components:

- `RaceIsTheOnlyWay` and `OwnerStaysOnRecord` (`FileLockProofs`). The invariant
  `LockInv`: one lock holder per inode, and without a race every open file is
  the one named `LOCK`; the types are a part of it.
- `bloom` (`PackageProofs`, as all below): `NeverFalselyAbsent` and
  `NeverAStrayBit` follow from `ExactBits`, a filter holds exactly the bits of its
  items, which is inductive only together with the same of what `WriteTo` saved.
- `ttl`: `AnswersAreTimely` and `SweepIsExact` (an action property).
- `stats`: `HistoryAlwaysKeepsLatest` (the shifted sequence is the end of
  everything added).
- `config`: `LayersAlwaysMergeSoundly`, with the layers merged among themselves as
  a history.
- `index`: `LiveEntriesAlwaysLive` and `HintAlwaysHoldsTracked`, from
  `SharedIndexInv`: a key tracked since Range began is still to be visited or is
  collected, and each collected entry tells a state the key was in.

In `DataProofs` what has to be shown is what a loop or a recursion leaves:

- `batch`: `HeldOpsAlwaysStable`: while the array is shared, the slice a client
  holds is not longer than the batch, so that an append in place writes behind it.
  `EffectAlwaysSame`: what counts of a list of operations is the last one on each
  key, and neither an operation more nor `Deduplicate` before it changes that; the
  size is the sum of a loop over the list.
- `keydir`: `SavedAlwaysDurable` and `LoadAlwaysReturnsASave`, from `KeyDirInv`: the
  file and the synced file each hold the first blocks of one list, and a load no
  save overlapped has read of one list. `DirectoryAlwaysSurvives` adds that the loop
  of `NewSnapshot` leaves, for each key, the place of its last record.
- `cache`: `CacheAlwaysCoherent` and `CacheHoldsMostRecent`, from `Fits`: the keys of
  the list are the first of the keys used lately, all different, and the map has
  exactly those; an element moved to the front or dropped at the end keeps that.
- `codec`: `CodecAlwaysRoundTrips`, for any base and length. `IsVarint` says of the
  bytes of a word that only the last is below the base (`Ending`), that a word below
  twice a weight needs no more than one digit above it, which is then 0 or 1
  (`Short`), and that its digits add up to it (`Holds`); one digit more keeps each.
  `Laid` says the stream holds the encodings of the items not yet read, one after
  another, up to where it was cut. It is lost on a stream with a length that its
  prefix does not hold; `LooseInv` is what remains there.

- command line: `FlagsAlwaysComeAnywhere`. Word by word of the typed line: what
  `flag.Parse` has come to after the flag words among the first `k` is what the line
  asks for (`Reading`: the directory the last db flag names so far, and a value still
  expected after a bare `-db`), or it has stopped for good at a word it refuses
  (`Stopped`). The words left behind are those the property calls `Typed`.

How an induction is written. The library's induction theorems take a predicate,
which the provers cannot supply. But a set of naturals that is not empty has a least
element (`LeastExists`, from the well-foundedness of `<`): each induction is by the
least counterexample, a set rather than a predicate. That a recursive function has
the value its equation gives is proved in the same way: `LoopExists` gives
the function of any loop, by the least number of turns it would not have one for,
and any two functions with one equation agree.

Only model-checked, and why:

- liveness (`RetryReturns`, `UnionReturns`): outside the prover.

## Plan

Every part of the system that changes shared or stored state has a module, and
every safety and action property of the passing runs is a theorem. What a proof
cannot reach here are the two liveness properties.

### Not modelled

- getters that only read (`Len`, `Keys`, `Count`, `Peek`, `Inspect`, ...): they
  change no state and return what the models keep as state;
- the segment list of `stats` (one assignment, and sums over it) and
  `ttl.NextExpiry`;
- printing and exit codes of the command line, the example program;
- JSON text, tar and gzip formats, crc32, and the fixed-width integers and
  floats of `codec`: single calls of the standard library;
- the floating-point sizing of `bloom` and its estimates, and the counters of
  `bloom` and `cache` that only their statistics read;
- two processes in one store directory: nothing in the code coordinates them,
  so there is no promise to state.
