SPECIFICATION Spec
CONSTANTS
  MemoryTypes <- AllMemoryTypes
  Usages = {"GpuOnly", "Upload", "Readback", "Cpu", "Raw"}
  SlotCount = 3
  Data = {d1, d2}
  Undefined = Undefined
  NoLine = NoLine
SYMMETRY Interchangeable
INVARIANTS TypeOK DeviceSeesContent CpuSeesContent MappableAsDocumented InvalidatedSees
