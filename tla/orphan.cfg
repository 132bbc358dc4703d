SPECIFICATION Spec
CONSTANTS
  Mas = {m1, m2}
  Ptrs = {p1, p2, p3}
  SlotCount = 3
  Res = {r1, r2, r3, r4}
  Data = {d1}
  Undefined = Undefined
  Sizes = {1}
  Align = 1
  Kinds = {"Buffer"}
  InitialLayouts = {}
  Panics = {"bind"}
  MaxHandles = 1
  MaxAllocatorHandles = 1
  MaxMaps = 1
SYMMETRY Interchangeable
INVARIANTS SourceHasOneEntry
