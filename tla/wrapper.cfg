SPECIFICATION WrapperSpec
CONSTANTS
  Pools = {p1, p2}
  Values = {v1, v2}
  Contexts = {c1}
  Allocations = {a1, a2}
  UserData = {d1, d2}
  MaxArcs = 2
  Null = Null
  None = None
  BlockSize = 4
  VirtualHandles = {h1, h2, h3}
  VirtualSizes = {1, 2, 5}
  VirtualAlignments = {0, 2}
  VirtualData = {d1, d2}
  NoSpace = NoSpace
INVARIANTS
  OwnershipTypeOK PoolsOwnedOnce AllocatorLiveWhileOwned NothingOutlivesOwner
  DefragmentationBracketed AllocatedAsAsked
  VirtualTypeOK BlockOwned ClientSpacesSound
PROPERTIES PoolsDieEmpty AllocatorReclaimed BlockDiesEmpty
