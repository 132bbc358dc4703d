SPECIFICATION FairSpec
CONSTANTS
  Mas = {m1, m2}
  Ptrs = {p1, p2, p3}
  SlotCount = 3
  Res = {r1, r2, r3}
  Data = {}
  Undefined = Undefined
  Sizes = {1}
  Align = 1
  Kinds = {"Buffer"}
  InitialLayouts = {}
  Panics = {}
  MaxHandles = 1
  MaxAllocatorHandles = 1
  MaxMaps = 0
PROPERTIES DefragTerminates
