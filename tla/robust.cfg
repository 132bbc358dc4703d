SPECIFICATION Spec
CONSTANTS
  Mas = {m1, m2}
  Ptrs = {p1, p2, p3}
  SlotCount = 2
  Res = {r1, r2, r3}
  Data = {}
  Undefined = Undefined
  Sizes = {1}
  Align = 1
  Kinds = {"Buffer"}
  InitialLayouts = {}
  Panics = {"allocate_memory", "bind", "create", "submit", "wait", "closure", "drop_in_map"}
  MaxHandles = 1
  MaxAllocatorHandles = 1
  MaxMaps = 1
SYMMETRY Interchangeable
INVARIANTS TypeOK MemoryNeverShared OwnershipInvariant
