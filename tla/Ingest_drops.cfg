SPECIFICATION FairSpec
CONSTANTS
  a1 = a1
  a2 = a2
  Workers = {w1, w2}
  Address = {a1, a2}
  NoTo = NoTo
  NoJob = NoJob
  NoHead = NoHead
  MaxHead = 2
  MaxTxs = 2
  Block <- MCBlockPair
  MaxQueueDepth = 0
  MaxBlocksBehind = 0
  MaxRetries = 2
  JobTtl = 0
  RpcLag = 0
  MaxClock = 1
  MaxFaults = 1
PROPERTY
  NeverDropsSeenBlocks
