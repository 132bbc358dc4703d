---------------------------- MODULE VirtualBlock ----------------------------
(***************************************************************************)
(* VirtualBlock (src/virtual_block.rs): VMA's allocation algorithm on a    *)
(* range of numbers, without memory.  VMA finds the places; the crate      *)
(* hands requests and answers through its conversions and owns the block.  *)
(*                                                                         *)
(* The client keeps the contracts of the unsafe functions: it passes the   *)
(* handles it holds and forgets those it freed, all of them on clear, and  *)
(* frees or clears before it drops the block, as the comment of clear      *)
(* asks.                                                                   *)
(***************************************************************************)
EXTENDS Integers

CONSTANTS
  BlockSize,         \* VirtualBlockCreateInfo::size
  VirtualHandles,    \* VmaVirtualAllocation handles, given out again once free
  VirtualSizes,      \* the sizes, alignments and user data the client asks for
  VirtualAlignments,
  VirtualData,
  NoSpace            \* a handle that is not in use

ASSUME VirtualAssumption ==
  /\ BlockSize \in Nat \ {0}
  /\ VirtualSizes \subseteq Nat \ {0}
  /\ VirtualAlignments \subseteq Nat

VARIABLES
  block,      \* how the VirtualBlock is held: "value", "raw" or "none"
  blockLive,  \* VMA's block exists
  spaces,     \* spaces[h]: VMA's record of h, or NoSpace
  known       \* known[h]: what the client asked and was told of h, or NoSpace

virtualVars == <<block, blockLive, spaces, known>>

VirtualAllocationInfos ==
  [offset : Nat, size : Nat \ {0}, alignment : Nat, userData : VirtualData]

VirtualTypeOK ==
  /\ block \in {"value", "raw", "none"}
  /\ blockLive \in BOOLEAN
  /\ spaces \in [VirtualHandles -> VirtualAllocationInfos \cup {NoSpace}]
  /\ known \in [VirtualHandles -> VirtualAllocationInfos \cup {NoSpace}]

VirtualInit ==
  /\ block = "none"
  /\ blockLive = FALSE
  /\ spaces = [h \in VirtualHandles |-> NoSpace]
  /\ known = [h \in VirtualHandles |-> NoSpace]
-----------------------------------------------------------------------------
NewBlock ==
  /\ block = "none"
  /\ block' = "value"
  /\ blockLive' = TRUE
  /\ UNCHANGED <<spaces, known>>

(* Mutant: the value is not forgotten, and its Drop runs.                  *)
BlockIntoRawDrops ==
  /\ block = "value"
  /\ block' = "raw"
  /\ blockLive' = FALSE
  /\ UNCHANGED <<spaces, known>>

BlockIntoRaw ==
  /\ block = "value"
  /\ block' = "raw"
  /\ UNCHANGED <<blockLive, spaces, known>>

BlockFromRaw ==
  /\ block = "raw"
  /\ block' = "value"
  /\ UNCHANGED <<blockLive, spaces, known>>

(* VirtualBlock::drop.                                                     *)
DropBlock ==
  /\ block = "value"
  /\ \A h \in VirtualHandles : known[h] = NoSpace
  /\ block' = "none"
  /\ blockLive' = FALSE
  /\ spaces' = [h \in VirtualHandles |-> NoSpace]
  /\ UNCHANGED known
-----------------------------------------------------------------------------
(* Mutant: size and alignment change places.                               *)
ToVmaVirtualSwapped(info) ==
  [size |-> info.alignment, alignment |-> info.size, pUserData |-> info.userData]

(* The conversion of a VirtualAllocationCreateInfo for VMA, ...            *)
ToVmaVirtual(info) ==
  [size |-> info.size, alignment |-> info.alignment, pUserData |-> info.userData]

Disjoint(a, b) == a.offset + a.size <= b.offset \/ b.offset + b.size <= a.offset
Inside(a)      == a.offset + a.size <= BlockSize
Aligned(a)     == a.alignment = 0 \/ a.offset % a.alignment = 0

(* ... and where VMA may place it, whatever its algorithm: in the block,   *)
(* aligned, off every other allocation.                                    *)
Placements(vmaInfo) ==
  LET At(o) == [offset |-> o, size |-> vmaInfo.size, alignment |-> vmaInfo.alignment,
                userData |-> vmaInfo.pUserData]
  IN  {a \in {At(o) : o \in 0 .. BlockSize} :
         /\ Inside(a) /\ Aligned(a)
         /\ \A h \in VirtualHandles : spaces[h] # NoSpace => Disjoint(a, spaces[h])}

(* VirtualBlock::allocate.  With no place left VMA returns                 *)
(* ERROR_OUT_OF_DEVICE_MEMORY and nothing changes.                         *)
AllocateVirtual(h, info) ==
  /\ block = "value"
  /\ spaces[h] = NoSpace
  /\ \E a \in Placements(ToVmaVirtual(info)) :
       /\ spaces' = [spaces EXCEPT ![h] = a]
       /\ known' = [known EXCEPT ![h] =
                      [offset |-> a.offset, size |-> info.size,
                       alignment |-> info.alignment, userData |-> info.userData]]
  /\ UNCHANGED <<block, blockLive>>

(* VirtualBlock::free.                                                     *)
FreeVirtual(h) ==
  /\ block = "value"
  /\ known[h] # NoSpace
  /\ spaces' = [spaces EXCEPT ![h] = NoSpace]
  /\ known' = [known EXCEPT ![h] = NoSpace]
  /\ UNCHANGED <<block, blockLive>>

(* Mutant: clear does nothing to the block.                                *)
ClearKeeps ==
  /\ block = "value"
  /\ known' = [h \in VirtualHandles |-> NoSpace]
  /\ UNCHANGED <<block, blockLive, spaces>>

(* VirtualBlock::clear.                                                    *)
ClearVirtualBlock ==
  /\ block = "value"
  /\ spaces' = [h \in VirtualHandles |-> NoSpace]
  /\ known' = [h \in VirtualHandles |-> NoSpace]
  /\ UNCHANGED <<block, blockLive>>

(* set_allocation_user_data of a virtual block.                            *)
SetVirtualUserData(h, d) ==
  /\ block = "value"
  /\ known[h] # NoSpace /\ spaces[h] # NoSpace
  /\ spaces' = [spaces EXCEPT ![h].userData = d]
  /\ known' = [known EXCEPT ![h].userData = d]
  /\ UNCHANGED <<block, blockLive>>

VirtualNext ==
  \/ NewBlock \/ BlockIntoRaw \/ BlockFromRaw \/ DropBlock
  \/ \E h \in VirtualHandles :
       \/ \E s \in VirtualSizes, a \in VirtualAlignments, d \in VirtualData :
            AllocateVirtual(h, [size |-> s, alignment |-> a, userData |-> d])
       \/ FreeVirtual(h)
       \/ \E d \in VirtualData : SetVirtualUserData(h, d)
  \/ ClearVirtualBlock

VirtualSpec == VirtualInit /\ [][VirtualNext]_virtualVars
-----------------------------------------------------------------------------
(* The block exists exactly as long as a value or a raw handle stands for  *)
(* it: into_raw forgets what from_raw brings back.                         *)
BlockOwned == blockLive <=> block # "none"

(* The places the client believes it holds are in the block, aligned as it *)
(* asked, apart from each other, and those get_allocation_info would tell. *)
ClientSpacesSound ==
  \A h \in VirtualHandles :
    known[h] # NoSpace =>
      /\ Inside(known[h]) /\ Aligned(known[h])
      /\ \A g \in VirtualHandles \ {h} : known[g] # NoSpace => Disjoint(known[h], known[g])
      /\ spaces[h] = known[h]

(* vmaDestroyVirtualBlock finds the block empty, so VMA's assertion (the   *)
(* comment at the test of src/virtual_block.rs) does not fire.             *)
BlockDiesEmpty ==
  [][blockLive /\ ~blockLive' => \A h \in VirtualHandles : spaces[h] = NoSpace]_virtualVars
=============================================================================
