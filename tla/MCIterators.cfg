SPECIFICATION IterSpec
CONSTANTS
  v1 = v1  v2 = v2
  Key <- MCKey
  Bound <- MCBound
  Value = {v1, v2}
  NoValue = NoValue
  ReadError = ReadError
  HeaderSize = 1
  KeyLen <- MCKeyLen
  ValueLen <- MCValueLen
  MaxHintKeyLen = 2
  MaxHintEntries = 2
  MaxRecordPayload = 3
  SyncOnWrite = FALSE
  MaxFileSize = 4
  MaxFileID = 3
  MaxOrphanSize = 4
  MaxWrites = 3
  MaxCrashes = 0
  MaxIOErrors = 0
INVARIANTS TypeOK CleanOpenSucceeds ValueIsCurrent RangeYieldsLive SeekIsExact
SYMMETRY ValueSymmetry
PROPERTIES RefinesKVMap MergeCompacts
CHECK_DEADLOCK FALSE
