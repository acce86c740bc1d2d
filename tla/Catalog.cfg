SPECIFICATION CatalogSpec
CONSTANTS
  a1 = a1
  a2 = a2
  s1 = s1
  s2 = s2
  f1 = f1
  f2 = f2
  Addr = {a1, a2}
  RealSlug = {s1, s2}
  NoRow = NoRow
  OverlayFile <- MCOverlay
  WorkerFile <- MCWorkerFile
  LlamaList <- MCLlama
  NameDict <- MCDict
  Etherscan <- MCEtherscan
  Blockscout <- MCBlockscout
  OverrideSlug = s1
  Overridden = {a2}
  BatchSize = 1
  MaxAnalyses = 2
  MaxLabelFaults = 1
  Selector = {f1, f2}
  FourByte <- MCFourByte
  SelBatch = 1
  MaxCalls = 2
  MaxSelFaults = 2
  MaxDay = 1
INVARIANTS
  OverrideSticks
PROPERTIES
  NamedContractsLabelled
  ListedContractsLabelled
  SelectorsSettled
  ExistingPricesKept
CHECK_DEADLOCK FALSE
