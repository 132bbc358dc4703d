SPECIFICATION Spec
CONSTANTS
  MemoryTypes <- AllMemoryTypes
  Usages = {"Readback"}
  SlotCount = 3
  Data = {d1, d2}
  Undefined = Undefined
  NoLine = NoLine
SYMMETRY Interchangeable
INVARIANTS ReadbackSeesContent
