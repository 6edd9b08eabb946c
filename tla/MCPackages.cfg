SPECIFICATION PackagesSpec
CONSTANTS
  c1 = c1  c2 = c2  c3 = c3  u1 = u1  u2 = u2
  CacheKey = {c1, c2, c3}
  CacheValue = {u1, u2}
  NotPut = NotPut
  Capacities = {0, 1, 2}
  IndexKey = {1, 2}
  MaxIndexSteps = 4
  f1 = f1  f2 = f2  f3 = f3  x1 = x1  x2 = x2
  Filter = {f1, f2, f3}
  Item = {x1, x2}
  HashRange = 8
  Hash1 <- MCHash1
  Hash2 <- MCHash2
  Bits <- MCBits
  HashCount <- MCHashCount
  MaxBits = 5
  UnionPairs <- MCUnionPairs
  Counter = 2
  MaxCount = 2
  HistoryCap = 2
  MaxEvents = 5
  t1 = t1  t2 = t2
  TTLKey = {t1, t2}
  Never = Never
  SetTime <- MCSetTime
  HalfWord = 4
  MaxTime = 2
  BatchKey = {0, 1}
  PutSize = 1
  FirstRoom = 1
  MaxOps = 2
  d1 = d1  d2 = d2
  DirKey = {d1, d2}
  DirList <- MCDirList
  NoList = NoList
  Group = 4
  MaxVarintLen = 3
  Payload <- MCPayload
  LenWord = 4
  MaxLen = 0
  DefaultMaxLen = 2
  MaxSent = 2
  Interval <- MCInterval
  Number <- MCNumber
  Most = 1
  PlainWord = {"get", "merge", "d"}
  MaxWords = 4
INVARIANTS
  CacheIsCoherent HoldsMostRecent
  LiveEntriesAreLive HintHoldsTracked
  NoFalseNegatives NoStrayBits
  HistoryKeepsLatest
  ExpiredAnswerIsTimely
  HeldOpsStable SameEffect
  DirectorySurvives
  CodecRoundTrip
  LayersMergeSoundly
  FlagsMayComeAnywhere
PROPERTIES
  SweepTakesTheExpired UnionReturns
CHECK_DEADLOCK FALSE
