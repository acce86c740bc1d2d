CONSTANTS
  a = a
  b = b
  Contract = {a, b}
  Root = a
  NoAddress = NoAddress
  NoIndex = NoIndex
  Slot = {0, 1}
  Ctr = 0
  Value = {0, 1}
  MaxDepth = 3
  Divergent = FALSE
  Nestable = {a, b}
  Menus <- NestedMenus
SPECIFICATION Spec
INVARIANTS
  ImageIsNative
  SettlesInSync
  SettlesAsTraced
  SettlesUnlessCallFails
  CallGasExact
  TreeVerifies
  SeedsOriginal
  FailsOnlyOnCreate
