SPECIFICATION Spec
CONSTANTS
  Mas = {m1, m2}
  Ptrs = {p1, p2, p3}
  SlotCount = 3
  Res = {r1, r2, r3}
  Data = {d1}
  Undefined = Undefined
  Sizes = {1}
  Align = 1
  Kinds = {"Buffer", "Image"}
  InitialLayouts = {"UNDEFINED"}
  Panics = {}
  MaxHandles = 2
  MaxAllocatorHandles = 2
  MaxMaps = 2
SYMMETRY Interchangeable
INVARIANTS SourceHasOneEntry LastHandleFrees NoDestroyInFlight GpuQuietOutsidePass MappedPointerValid MapsBalanced LayoutTracked
PROPERTIES FreedOnlyUnmapped
