SPECIFICATION Spec
CONSTANTS
  a1 = a1
  a2 = a2
  Workers = {w1}
  Address = {a1, a2}
  NoTo = NoTo
  NoJob = NoJob
  NoHead = NoHead
  MaxHead = 3
  MaxTxs = 2
  Block <- MCBlock
  MaxQueueDepth = 0
  MaxBlocksBehind = 1
  MaxRetries = 2
  JobTtl = 1
  RpcLag = 0
  MaxClock = 3
  MaxFaults = 1
SYMMETRY WorkerSymmetry
INVARIANTS
  TypeOK
  CursorCoverage
  SkipsCounted
  BlocksBehindNonNegative
  AgeFromFanOut
  QueueBound
