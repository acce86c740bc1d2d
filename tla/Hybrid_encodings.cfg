CONSTANTS
  a = a
  b = b
  Contract = {a, b}
  Root = a
  NoAddress = NoAddress
  NoIndex = NoIndex
  Slot = {0, 1}
  Ctr = 0
  Value = {0, 1}
  MaxDepth = 3
  Divergent = FALSE
  Nestable = {}
  Payloads <- Weights
  Menus <- EncodingMenus
  Encodings = {"Legacy", "Canonical", "PrestateNet"}
SPECIFICATION HybridSpec
INVARIANTS
  PricesConsistent
  EncodingsInSync
  EncodingsReachTracedWorld
  AbortsOnlyOnFailedCall
  RejectsOnlyCreates
