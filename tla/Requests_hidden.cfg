SPECIFICATION RequestsSpec
CONSTANTS
  Focus = {"dashboard"}
  c1 = c1
  c2 = c2
  f1 = f1
  f2 = f2
  p1 = p1
  o1 = o1
  root = root
  u1 = u1
  u2 = u2
  a1 = a1
  a2 = a2
  a3 = a3
  a4 = a4
  Contract = {c1, c2}
  Function = {f1, f2}
  ProjectOf <- MCProjectOf
  Org = {o1}
  Nothing = Nothing
  Fresh <- MCFresh
  UsdPerEth <- MCUsd
  Known = {f1}
  Floors <- MCFloors
  Hideable <- MCHideable
  Filters <- MCFilters
  Month = 2
  Quarter = 3
  PageSize = 1
  MaxRows = 2
  MaxNow = 5
  User = {alice}
  SessionTtl = 2
  Tab = {t1, t2}
  FloorDate = {d0, d1}
  DefaultFloor = d0
  NoFloor = NoFloor
  CacheTtl = 3
  RateLimit = 1
  LlmTimeout = 2
  MaxClock = 6
  Poll = {h1}
  Analysis = {w1, w2}
  PollWeight = 1
  AnalyzeWeight = 5
  BucketBurst = 2
  RefillRate = 1
  MaxConcurrency = 2
  MaxAttempts = 3
  HeuristicOnly = FALSE
  MaxRefills = 10
  Runner = {r1, r2}
  Jobs <- MCJobs
  Encoding = "PrestateNet"
  Unbounded = TRUE
  Registry <- MCRegistry
  Root = root
  ChainOf <- MCChain
  Supported = {1, 100}
  Capacity = 1
  RejectionLimit = 2
  MuxPause = 1
  MaxRuns = 3
  MaxMuxTime = 1
  Account <- MCAccount
  Hints = {a1, a2}
  Caller = a4
  Trees <- MCTrees
  Preceding = 2
  TxGasCap = 10
  Osaka = TRUE
  BlockGasLimit = 20
  BaseTxCost = 2
  MaxDbFaults = 2
  Blocks <- MCBlocks
  NoTarget = NoTarget
  SchnorrFloor = 0
  MaxForkFaults = 2
  CliInputs <- CliInput
  WasmInputs <- WasmInput
INVARIANTS
  BlacklistEverywhere
CHECK_DEADLOCK FALSE
