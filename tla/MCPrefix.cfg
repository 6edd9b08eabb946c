SPECIFICATION IterSpec
CONSTANTS
  v1 = v1  v2 = v2
  Key <- MCKey
  Bound <- MCBound
  Value = {v1}
  NoValue = NoValue
  ReadError = ReadError
  HeaderSize = 1
  KeyLen <- MCKeyLen
  ValueLen <- MCValueLen
  MaxHintKeyLen = 3
  MaxHintEntries = 3
  MaxRecordPayload = 4
  SyncOnWrite = FALSE
  MaxFileSize = 4
  MaxFileID = 3
  MaxOrphanSize = 4
  MaxWrites = 3
  MaxCrashes = 0
  MaxIOErrors = 0
INVARIANTS PrefixYieldsPrefix
CHECK_DEADLOCK FALSE
