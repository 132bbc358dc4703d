-------------------------------- MODULE Vma --------------------------------
(***************************************************************************)
(* The Vulkan Memory Allocator library as this crate uses it.  VMA itself  *)
(* is a git submodule whose sources are not part of the repository, so     *)
(* every definition here is external: it states what the crate's calls     *)
(* rely on (the vma... functions declared in src/ffi.rs and called from    *)
(* src/lib.rs and src/defragmentation.rs).                                 *)
(*                                                                         *)
(* Device memory is a row of equal slots.  An allocation is a pointer (a   *)
(* VmaAllocation) that owns one slot; freed pointers are handed out again, *)
(* as a heap does, so a stale pointer can equal a live one.                *)
(***************************************************************************)
EXTENDS Integers

CONSTANTS
  Ptrs,        \* the VmaAllocation pointers VMA can hand out
  SlotCount,   \* how many allocations fit in the device memory
  Data,        \* what the client can store in a resource
  Undefined    \* content nobody may rely on

ASSUME VmaAssumption ==
  /\ SlotCount \in Nat \ {0}
  /\ Undefined \notin Data

VARIABLES
  loc,         \* loc[p]: the slot of allocation p, NoSlot when p is not allocated
  mapCount,    \* mapCount[p]: vmaMapMemory calls not yet undone by vmaUnmapMemory
  mem,         \* mem[s]: the content of slot s
  moves,       \* the moves of the current defragmentation pass
  vma          \* the life of the VmaAllocator object

Slots    == 1 .. SlotCount
NoSlot   == 0
Contents == Data \cup {Undefined}

(* One VmaDefragmentationMove: the allocation at src is to move to the     *)
(* memory of the temporary allocation dst.                                 *)
Moves == [src : Ptrs, dst : Ptrs]

Allocated == {p \in Ptrs : loc[p] # NoSlot}
FreeSlots == {s \in Slots : \A p \in Ptrs : loc[p] # s}
Candidates == [src : Allocated, dst : Ptrs \ Allocated]
Sources      == {mv.src : mv \in moves}
Destinations == {mv.dst : mv \in moves}

VmaTypeOK ==
  /\ loc \in [Ptrs -> Slots \cup {NoSlot}]
  /\ mapCount \in [Ptrs -> Int]
  /\ mem \in [Slots -> Contents]
  /\ moves \subseteq Moves
  /\ vma \in {"ready", "defragmenting", "destroyed"}

VmaInit ==
  /\ loc = [p \in Ptrs |-> NoSlot]
  /\ mapCount = [p \in Ptrs |-> 0]
  /\ mem = [s \in Slots |-> Undefined]
  /\ moves = {}
  /\ vma = "ready"
-----------------------------------------------------------------------------
vmaAllocateMemory(p, s) ==
  /\ p \notin Allocated
  /\ s \in FreeSlots
  /\ loc' = [loc EXCEPT ![p] = s]
  /\ mapCount' = [mapCount EXCEPT ![p] = 0]

(* The memory of a freed allocation has no content any more.               *)
vmaFreeMemory(p) ==
  /\ loc' = [loc EXCEPT ![p] = NoSlot]
  /\ mem' = [mem EXCEPT ![loc[p]] = Undefined]

vmaMapMemory(p) == mapCount' = [mapCount EXCEPT ![p] = @ + 1]

vmaUnmapMemory(p) == mapCount' = [mapCount EXCEPT ![p] = @ - 1]

(* VMA proposes moves of any allocations it knows, each into a free slot   *)
(* nearer the start of memory, one temporary allocation per move.  The     *)
(* targets function gives the slot of each temporary allocation.           *)
PassPlan(plan, targets) ==
  /\ plan # {}
  /\ \A mv \in plan : targets[mv.dst] < loc[mv.src]
  /\ \A mv, nv \in plan :
       mv # nv => /\ mv.src # nv.src
                  /\ mv.dst # nv.dst
                  /\ targets[mv.dst] # targets[nv.dst]

vmaBeginDefragmentationPass(plan, targets) ==
  /\ plan \subseteq Candidates
  /\ targets \in [{mv.dst : mv \in plan} -> FreeSlots]
  /\ PassPlan(plan, targets)
  /\ moves' = plan
  /\ loc' = [p \in Ptrs |-> IF \E mv \in plan : mv.dst = p
                            THEN targets[p] ELSE loc[p]]
  /\ mapCount' = [p \in Ptrs |-> IF \E mv \in plan : mv.dst = p
                                 THEN 0 ELSE mapCount[p]]

(* Each moved allocation now points to its new place; the temporary        *)
(* allocation is freed together with the place it left.                    *)
vmaEndDefragmentationPass ==
  /\ moves' = {}
  /\ loc' = [p \in Ptrs |->
               IF p \in Sources
               THEN loc[(CHOOSE mv \in moves : mv.src = p).dst]
               ELSE IF p \in Destinations THEN NoSlot ELSE loc[p]]
  /\ mem' = [s \in Slots |->
               IF \E mv \in moves : loc[mv.src] = s THEN Undefined ELSE mem[s]]

(* Ends the whole defragmentation.  In the middle of a pass nothing is     *)
(* committed, and the temporary allocations of the pass stay allocated.    *)
vmaEndDefragmentation ==
  /\ moves' = {}
  /\ vma' = "ready"
=============================================================================
