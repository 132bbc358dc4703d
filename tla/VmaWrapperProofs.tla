--------------------------- MODULE VmaWrapperProofs ---------------------------
(***************************************************************************)
(* Theorems about the whole wrapper: each part, seen on its own, behaves   *)
(* as its own module says, so what is proved of the parts holds together.  *)
(***************************************************************************)
EXTENDS VmaWrapper, VmaOwnershipProofs, VirtualBlockProofs

(* Every behaviour of the wrapper is one of VmaOwnership, fairness         *)
(* included, and one of VirtualBlock: a virtual block takes nothing from   *)
(* an Allocator and an Allocator nothing from a virtual block.             *)
THEOREM WrapperImplementsParts == WrapperSpec => OwnershipSpec /\ VirtualSpec
<1>1. WrapperInit => OwnershipInit /\ VirtualInit
  BY DEF WrapperInit
<1>2. [WrapperNext]_wrapperVars => [OwnershipNext]_ownershipVars
  BY DEF WrapperNext, wrapperVars
<1>3. [WrapperNext]_wrapperVars => [VirtualNext]_virtualVars
  BY DEF WrapperNext, wrapperVars
<1> QED BY <1>1, <1>2, <1>3, PTL DEF WrapperSpec, OwnershipSpec, VirtualSpec

(* Whatever the client does with allocators, pools, defragmentations and   *)
(* virtual blocks together, what VMA made is owned once, lives while       *)
(* something needs it, and is what the client was told it is.              *)
THEOREM WrapperSafe ==
  WrapperSpec => [](/\ PoolsOwnedOnce /\ AllocatorLiveWhileOwned /\ NothingOutlivesOwner
                    /\ DefragmentationBracketed /\ AllocatedAsAsked
                    /\ BlockOwned /\ ClientSpacesSound)
BY WrapperImplementsParts, PoolsOwned, LiveWhileOwned, NothingOutlives, Bracketed, AsAsked,
   BlockIsOwned, SpacesSound, PTL

(* No step of either part destroys what is not empty.                      *)
THEOREM WrapperDiesEmpty == WrapperSpec => PoolsDieEmpty /\ BlockDiesEmpty
BY WrapperImplementsParts, DieEmpty, DiesEmpty, PTL
=============================================================================
