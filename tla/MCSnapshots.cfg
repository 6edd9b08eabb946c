SPECIFICATION SnapSpec
CONSTANTS
  k1 = k1  k2 = k2  v1 = v1  v2 = v2
  Key = {k1, k2}
  Value = {v1}
  NoValue = NoValue
  ReadError = ReadError
  HeaderSize = 1
  KeyLen <- MCKeyLen
  ValueLen <- MCValueLen
  MaxHintKeyLen = 1
  MaxHintEntries = 2
  MaxRecordPayload = 2
  SyncOnWrite = TRUE
  MaxFileSize = 3
  MaxFileID = 3
  MaxOrphanSize = 0
  MaxWrites = 2
  MaxCrashes = 1
  MaxIOErrors = 1
INVARIANTS SnapshotIsAMoment SnapshotHintResolves
SYMMETRY KeySymmetry
CHECK_DEADLOCK FALSE
