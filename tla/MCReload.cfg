SPECIFICATION Spec
CONSTANTS
  k1 = k1  k2 = k2  v1 = v1  v2 = v2
  Key = {k1, k2}
  Value = {v1}
  NoValue = NoValue
  ReadError = ReadError
  HeaderSize = 2
  KeyLen <- MCKeyLen
  ValueLen <- MCValueLen
  MaxHintKeyLen = 1
  MaxHintEntries = 2
  MaxRecordPayload = 2
  SyncOnWrite = FALSE
  MaxFileSize = 4
  MaxFileID = 4
  MaxOrphanSize = 4
  MaxWrites = 2
  MaxCrashes = 0
  MaxIOErrors = 0
PROPERTIES ReloadIsExact
CHECK_DEADLOCK FALSE
