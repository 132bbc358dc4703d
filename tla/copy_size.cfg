SPECIFICATION Spec
CONSTANTS
  Mas = {m1}
  Ptrs = {p1, p2}
  SlotCount = 2
  Res = {r1, r2}
  Data = {d1}
  Undefined = Undefined
  Sizes = {1}
  Align = 2
  Kinds = {"Buffer"}
  InitialLayouts = {}
  Panics = {}
  MaxHandles = 1
  MaxAllocatorHandles = 1
  MaxMaps = 1
SYMMETRY Interchangeable
INVARIANTS CopyWithinResource
