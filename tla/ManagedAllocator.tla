-------------------------- MODULE ManagedAllocator --------------------------
(***************************************************************************)
(* The managed allocator of src/auto.rs: reference-counted handles to      *)
(* buffers and images that it may move in memory (defrag) behind the       *)
(* client's back.  AllocatorSingleThread is not Send, so one thread runs   *)
(* everything; what interleaves is the client code inside map's closure,   *)
(* the GPU, the glue that runs when the last Rc of something is dropped,   *)
(* and the panics of the many unwrap() calls, which unwind out of the      *)
(* middle of an operation and leave its state behind.                      *)
(***************************************************************************)
EXTENDS VulkanDevice, Sequences, FiniteSets

CONSTANTS
  Mas,            \* identities of Rc<RefCell<ManagedAllocation>>
  Sizes,          \* sizes the client asks for
  Align,          \* VMA rounds allocation sizes up to a multiple of it
  Kinds,          \* the kinds of resource the client creates
  InitialLayouts, \* layouts the client creates images in
  Panics,         \* the unwrap()s, and the client mistakes, that may panic
  MaxHandles,     \* bound: handles per managed allocation
  MaxAllocatorHandles, \* bound: AllocatorHandle clones
  MaxMaps         \* bound: nested map calls, and mappings left by panics

PanicSites == {"allocate_memory", "bind", "create", "submit", "wait",
               "closure", "drop_in_map"}

ASSUME ManagedAssumption ==
  /\ Sizes \subseteq Nat \ {0}
  /\ Align \in Nat \ {0}
  /\ Kinds \subseteq {"Buffer", "Image"}
  /\ InitialLayouts \subseteq {"UNDEFINED", "PREINITIALIZED"}
  /\ Panics \subseteq PanicSites
  /\ MaxHandles \in Nat \ {0}
  /\ MaxAllocatorHandles \in Nat \ {0}
  /\ MaxMaps \in Nat

VARIABLES
  ma,                  \* ma[m]: the ManagedAllocation behind identity m
  managed_allocations, \* the identities in AllocatorSingleThread's list
  handles,             \* handles[m]: ManagedAllocationHandles to m
  allocator_handles,   \* AllocatorHandles held by the client itself
  frames,              \* the map calls on the stack: shared borrows of the allocator
  pc,                  \* where the running defrag is, "idle" when none runs
  todo,                \* moves of the pass not recorded yet
  old                  \* destroy_buffers and destroy_images of the pass

managedVars == <<ma, managed_allocations, handles, allocator_handles, frames, pc, todo, old>>
vmaVars     == <<loc, mapCount, mem, moves, vma>>
deviceVars  == <<objects, bound, imageLayout, cmds, commandBuffer, fence>>
vars        == <<vmaVars, deviceVars, managedVars>>

(* What a resource was created from, down to what the properties tell      *)
(* apart: BufferCreateInfoOwned ...                                        *)
BufferCreateInfos == [kind : Kinds \cap {"Buffer"}, size : Sizes, initial : {"NONE"}]

(* ... and ImageCreateInfoOwned.                                           *)
ImageCreateInfos == [kind : Kinds \cap {"Image"}, size : Sizes, initial : InitialLayouts]

CreateInfos == BufferCreateInfos \cup ImageCreateInfos

(* A ManagedAllocation: its Resource (object, allocation, owned create     *)
(* info, tracked layout), mem_offset and freed.                            *)
ManagedAllocations ==
  [res : Res, alloc : Ptrs, info : CreateInfos, layout : Layouts,
   mem_offset : Slots, freed : BOOLEAN]

NoMa == [freed |-> TRUE]   \* an identity no Rc has used yet

Frames == [m : Mas, slot : Slots]

TypeOK ==
  /\ VmaTypeOK
  /\ DeviceTypeOK
  /\ ma \in [Mas -> ManagedAllocations \cup {NoMa}]
  /\ managed_allocations \subseteq Mas
  /\ handles \in [Mas -> Nat]
  /\ allocator_handles \in Nat
  /\ frames \in Seq(Frames)
  /\ pc \in {"idle", "begin_pass", "moves", "wait", "end_pass", "end"}
  /\ todo \subseteq Moves
  /\ old \subseteq Res

Init ==
  /\ VmaInit
  /\ DeviceInit
  /\ ma = [m \in Mas |-> NoMa]
  /\ managed_allocations = {}
  /\ handles = [m \in Mas |-> 0]
  /\ allocator_handles = 1
  /\ frames = <<>>
  /\ pc = "idle"
  /\ todo = {}
  /\ old = {}
-----------------------------------------------------------------------------
InList(m) == IF m \in managed_allocations THEN 1 ELSE 0

(* Rc::strong_count: the client's handles and the allocator's list.        *)
StrongCount(m) == handles[m] + InList(m)

(* The resources the client may use through a handle.                      *)
Live == {m \in Mas : ~ma[m].freed}

(* The allocations a map call on the stack is inside of.                   *)
Mapped == {frames[i].m : i \in DOMAIN frames}

(* The size VMA gives an allocation of the requested size.                 *)
AllocationSize(n) == ((n + Align - 1) \div Align) * Align

(* The client runs: no defrag is on the stack, the allocator still exists. *)
ClientRuns == pc = "idle" /\ vma = "ready"

(* Mutant: an allocator without the RefCell's dynamic borrow check.        *)
CanAlwaysBorrowMut == TRUE

(* RefCell::borrow_mut on the allocator succeeds only outside map.         *)
CanBorrowMut == frames = <<>>
-----------------------------------------------------------------------------
(* AllocatorHandle::allocate_buffer and allocate_image: create the object, *)
(* allocate memory for it, bind it, enter it in the list, and return the   *)
(* first handle.                                                           *)
Allocate(m, r, p, s, info) ==
  /\ ClientRuns /\ CanBorrowMut
  /\ allocator_handles > 0
  /\ StrongCount(m) = 0
  /\ CreateBound(r, s, info.initial)
  /\ vmaAllocateMemory(p, s)
  /\ ma' = [ma EXCEPT ![m] = [res |-> r, alloc |-> p, info |-> info,
              layout |-> info.initial, mem_offset |-> s, freed |-> FALSE]]
  /\ managed_allocations' = managed_allocations \cup {m}
  /\ handles' = [handles EXCEPT ![m] = 1]
  /\ UNCHANGED <<mem, moves, vma, cmds, commandBuffer, fence,
                 allocator_handles, frames, pc, todo, old>>

(* allocate_memory_for_...().unwrap() panics: the object stays behind.     *)
AllocatePanicsOnMemory(r, info) ==
  /\ "allocate_memory" \in Panics
  /\ ClientRuns /\ CanBorrowMut
  /\ allocator_handles > 0
  /\ CreateBound(r, NoSlot, info.initial)
  /\ UNCHANGED <<vmaVars, cmds, commandBuffer, fence, managedVars>>

(* bind_..._memory().unwrap() panics: object and allocation stay behind.   *)
AllocatePanicsOnBind(r, p, s, info) ==
  /\ "bind" \in Panics
  /\ ClientRuns /\ CanBorrowMut
  /\ allocator_handles > 0
  /\ CreateBound(r, NoSlot, info.initial)
  /\ vmaAllocateMemory(p, s)
  /\ UNCHANGED <<mem, moves, vma, cmds, commandBuffer, fence, managedVars>>

(* ManagedAllocationHandle is Clone.                                       *)
CloneHandle(m) ==
  /\ ClientRuns
  /\ handles[m] \in 1 .. MaxHandles - 1
  /\ handles' = [handles EXCEPT ![m] = @ + 1]
  /\ UNCHANGED <<vmaVars, deviceVars, ma, managed_allocations,
                 allocator_handles, frames, pc, todo, old>>

CloneAllocatorHandle ==
  /\ ClientRuns
  /\ allocator_handles \in 1 .. MaxAllocatorHandles - 1
  /\ allocator_handles' = allocator_handles + 1
  /\ UNCHANGED <<vmaVars, deviceVars, ma, managed_allocations, handles,
                 frames, pc, todo, old>>

(* Mutant: free destroys and frees but does not set freed.                 *)
FreeResourceNotMarked(m) ==
  IF ma[m].freed
  THEN UNCHANGED <<loc, mem, objects, bound, imageLayout, ma>>
  ELSE /\ Destroy({ma[m].res})
       /\ vmaFreeMemory(ma[m].alloc)
       /\ UNCHANGED ma

(* AllocatorSingleThread::free, which is idempotent: an already freed      *)
(* resource is left alone.                                                 *)
FreeResource(m) ==
  IF ma[m].freed
  THEN UNCHANGED <<loc, mem, objects, bound, imageLayout, ma>>
  ELSE /\ Destroy({ma[m].res})
       /\ vmaFreeMemory(ma[m].alloc)
       /\ ma' = [ma EXCEPT ![m].freed = TRUE]

(* The client's reference counts become h and a.  Every handle holds an    *)
(* AllocatorHandle too; with the last of them the AllocatorSingleThread is *)
(* dropped: its fence, then its VmaAllocator, then its list.               *)
DropReferences(h, a) ==
  /\ handles' = h
  /\ allocator_handles' = a
  /\ IF a = 0 /\ \A m \in Mas : h[m] = 0
     THEN /\ vma' = "destroyed"
          /\ fence' = "destroyed"
          /\ managed_allocations' = {}
     ELSE UNCHANGED <<vma, fence, managed_allocations>>

DropAllocatorHandle ==
  /\ ClientRuns
  /\ allocator_handles > 0
  /\ DropReferences(handles, allocator_handles - 1)
  /\ UNCHANGED <<loc, mapCount, mem, moves, objects, bound, imageLayout, cmds,
                 commandBuffer, ma, frames, pc, todo, old>>

(* A map call borrows the handle it is made through for its whole length.  *)
MayDrop(m) == handles[m] > IF m \in Mapped THEN 1 ELSE 0

(* Mutant: the allocator's own reference is not counted.                   *)
LastReference(m) == StrongCount(m) = 1

(* The strong count at which Drop frees: this handle and the list.         *)
LastUserHandle(m) == StrongCount(m) = 2

(* Drop for ManagedAllocationHandle, then the drop of its fields.          *)
DropHandle(m) ==
  /\ ClientRuns
  /\ MayDrop(m)
  /\ IF LastUserHandle(m)
     THEN CanBorrowMut /\ FreeResource(m)
     ELSE UNCHANGED <<loc, mem, objects, bound, imageLayout, ma>>
  /\ DropReferences([handles EXCEPT ![m] = @ - 1], allocator_handles)
  /\ UNCHANGED <<mapCount, moves, cmds, commandBuffer, frames, pc, todo, old>>

(* Mutant: an operation that does not look at freed.                       *)
Held(m) == handles[m] > 0

(* The client has a handle to m, and the operation made through it does    *)
(* not return HandleError::FreedResource.                                  *)
Usable(m) == handles[m] > 0 /\ ~ma[m].freed

(* ManagedAllocationHandle::free.                                          *)
Free(m) ==
  /\ ClientRuns /\ CanBorrowMut
  /\ Usable(m)
  /\ FreeResource(m)
  /\ UNCHANGED <<mapCount, moves, vma, cmds, commandBuffer, fence,
                 managed_allocations, handles, allocator_handles, frames, pc, todo, old>>
-----------------------------------------------------------------------------
(* ManagedAllocationHandle::map up to the call of the closure.  Map calls  *)
(* nest: the borrows of the allocator and of the ManagedAllocation are     *)
(* shared ones.                                                            *)
MapBegin(m) ==
  /\ ClientRuns
  /\ Usable(m)
  /\ Len(frames) < MaxMaps /\ mapCount[ma[m].alloc] < MaxMaps
  /\ vmaMapMemory(ma[m].alloc)
  /\ frames' = Append(frames, [m |-> m, slot |-> loc[ma[m].alloc]])
  /\ UNCHANGED <<loc, mem, moves, vma, deviceVars, ma, managed_allocations,
                 handles, allocator_handles, pc, todo, old>>

(* The closure of any map call on the stack writes through its pointer.    *)
MapWrite(i, d) ==
  /\ ClientRuns
  /\ i \in DOMAIN frames
  /\ mem' = [mem EXCEPT ![frames[i].slot] = d]
  /\ UNCHANGED <<loc, mapCount, moves, vma, deviceVars, managedVars>>

(* The map calls left when the k innermost ones are over.                  *)
PopFrames(k) == SubSeq(frames, 1, Len(frames) - k)

(* Mutant: map returns without unmap_memory.                               *)
MapEndStaysMapped ==
  /\ ClientRuns
  /\ frames # <<>>
  /\ frames' = PopFrames(1)
  /\ UNCHANGED <<vmaVars, deviceVars, ma, managed_allocations, handles,
                 allocator_handles, pc, todo, old>>

(* The closure returns: unmap_memory, and the borrows end.                 *)
MapEnd ==
  /\ ClientRuns
  /\ frames # <<>>
  /\ vmaUnmapMemory(ma[frames[Len(frames)].m].alloc)
  /\ frames' = PopFrames(1)
  /\ UNCHANGED <<loc, mem, moves, vma, deviceVars, ma, managed_allocations,
                 handles, allocator_handles, pc, todo, old>>

(* The closure panics and the panic is caught k map calls further out: the *)
(* unmap_memory after each of the k closures is skipped.                   *)
ClosurePanics(k) ==
  /\ "closure" \in Panics
  /\ ClientRuns
  /\ k \in 1 .. Len(frames)
  /\ frames' = PopFrames(k)
  /\ UNCHANGED <<vmaVars, deviceVars, ma, managed_allocations, handles,
                 allocator_handles, pc, todo, old>>

(* Inside a closure the last handle to some other allocation is dropped:   *)
(* the borrow_mut in Drop panics, the handle's fields are dropped all the  *)
(* same, and the panic unwinds k map calls (none, if it is caught at once).*)
DropHandlePanics(m, k) ==
  /\ "drop_in_map" \in Panics
  /\ ClientRuns
  /\ frames # <<>>
  /\ MayDrop(m)
  /\ LastUserHandle(m)
  /\ k \in 0 .. Len(frames)
  /\ handles' = [handles EXCEPT ![m] = @ - 1]
  /\ frames' = PopFrames(k)
  /\ UNCHANGED <<vmaVars, deviceVars, ma, managed_allocations,
                 allocator_handles, pc, todo, old>>

(* The client moves an image to the layout GENERAL the way the tests do:   *)
(* a barrier from the tracked layout, executed by the GPU, then set_layout.*)
(* A barrier from UNDEFINED discards the content.                          *)
transition_image(m) ==
  /\ ClientRuns
  /\ Usable(m)
  /\ ma[m].info.kind = "Image"
  /\ m \notin Mapped
  /\ ma[m].layout # "GENERAL"
  /\ imageLayout' = [imageLayout EXCEPT ![ma[m].res] = "GENERAL"]
  /\ mem' = IF ma[m].layout = "UNDEFINED"
            THEN [mem EXCEPT ![bound[ma[m].res]] = Undefined] ELSE mem
  /\ ma' = [ma EXCEPT ![m].layout = "GENERAL"]
  /\ UNCHANGED <<loc, mapCount, moves, vma, objects, bound, cmds, commandBuffer,
                 fence, managed_allocations, handles, allocator_handles, frames,
                 pc, todo, old>>
-----------------------------------------------------------------------------
(* Mutant: defrag does not clean its list first.                           *)
RetainedAll == managed_allocations

(* The entries retain keeps: those not freed.                              *)
Retained == {m \in managed_allocations : ~ma[m].freed}

(* AllocatorSingleThread::defrag, first part: entries of freed allocations *)
(* leave the list, and VMA starts.                                         *)
DefragBegin ==
  /\ ClientRuns /\ CanBorrowMut
  /\ allocator_handles > 0
  /\ managed_allocations' = Retained
  /\ vma' = "defragmenting"
  /\ pc' = "begin_pass"
  /\ UNCHANGED <<loc, mapCount, mem, moves, deviceVars, ma, handles,
                 allocator_handles, frames, todo, old>>

(* begin_pass finds moves and calls the mover, which begins the command    *)
(* buffer.                                                                 *)
BeginPass(plan, targets) ==
  /\ pc = "begin_pass"
  /\ vmaBeginDefragmentationPass(plan, targets)
  /\ BeginCommandBuffer
  /\ todo' = plan
  /\ old' = {}
  /\ pc' = "moves"
  /\ UNCHANGED <<mem, vma, objects, bound, imageLayout, fence, ma,
                 managed_allocations, handles, allocator_handles, frames>>

(* Mutant: begin_pass calls the mover even when VMA has no moves.          *)
PassWithoutMoves ==
  /\ pc = "begin_pass"
  /\ BeginCommandBuffer
  /\ pc' = "moves"
  /\ UNCHANGED <<vmaVars, objects, bound, imageLayout, fence, ma,
                 managed_allocations, handles, allocator_handles, frames, todo, old>>

(* begin_pass finds nothing to move: the loop of defrag ends.              *)
NoMoreMoves ==
  /\ pc = "begin_pass"
  /\ pc' = "end"
  /\ UNCHANGED <<vmaVars, deviceVars, ma, managed_allocations, handles,
                 allocator_handles, frames, todo, old>>

(* The entries of the list that hold the source allocation of a move.      *)
Entries(mv) == {m \in managed_allocations : ma[m].alloc = mv.src}

(* Mutant: the new place of a move is read from the source allocation.     *)
SourcePlace(mv) == loc[mv.src]

(* destination_info: where the new object of a move is bound.              *)
Destination(mv) == loc[mv.dst]

(* Mutant: only buffers are entered in a list of objects to destroy.       *)
LeftBehindIfBuffer(m) == IF ma[m].info.kind = "Buffer" THEN {ma[m].res} ELSE {}

(* What a move of m pushes on destroy_buffers or destroy_images.           *)
LeftBehind(m) == {ma[m].res}

(* Mutant: the copy runs from the new object to the old one.               *)
RecordedBackwards(m, r, dst) ==
  IF ma[m].layout = "UNDEFINED" THEN {}
  ELSE {[from |-> ma[m].res, to |-> r, src |-> dst, dst |-> bound[ma[m].res],
         size |-> AllocationSize(ma[m].info.size), layout |-> ma[m].layout]}

(* Mutant: the image half of the match records neither barriers nor copy.  *)
RecordedIfBuffer(m, r, dst) ==
  IF ma[m].info.kind = "Image" THEN {}
  ELSE {[from |-> ma[m].res, to |-> r, src |-> bound[ma[m].res], dst |-> dst,
         size |-> AllocationSize(ma[m].info.size), layout |-> ma[m].layout]}

(* The barriers and the copy recorded for m, moving to resource r at slot  *)
(* dst; an image in layout UNDEFINED has no content to copy.               *)
RecordedCopies(m, r, dst) ==
  IF ma[m].layout = "UNDEFINED" THEN {}
  ELSE {[from |-> ma[m].res, to |-> r, src |-> bound[ma[m].res], dst |-> dst,
         size |-> AllocationSize(ma[m].info.size), layout |-> ma[m].layout]}

(* One iteration of the loop over the moves, for the entry m it finds: a   *)
(* new object bound to the destination, the copy, and the new Resource.    *)
RecordMove(mv, m, r) ==
  LET dst == Destination(mv) IN
  /\ pc = "moves"
  /\ mv \in todo
  /\ m \in Entries(mv)
  /\ old' = old \cup LeftBehind(m)
  /\ CreateBound(r, dst, ma[m].info.initial)
  /\ cmds' = cmds \cup RecordedCopies(m, r, dst)
  /\ ma' = [ma EXCEPT ![m].res = r, ![m].mem_offset = dst]
  /\ todo' = todo \ {mv}
  /\ UNCHANGED <<vmaVars, commandBuffer, fence, managed_allocations, handles,
                 allocator_handles, frames, pc>>

Submit ==
  /\ pc = "moves"
  /\ todo = {}
  /\ QueueSubmit
  /\ pc' = "wait"
  /\ UNCHANGED <<vmaVars, objects, bound, imageLayout, cmds, fence, ma,
                 managed_allocations, handles, allocator_handles, frames, todo, old>>

(* Mutant: the result of wait_for_fences is ignored.                       *)
NoWait == TRUE

(* wait_for_fences returns success.                                        *)
FenceSignaled == fence = "signaled"

(* Mutant: the fence is not reset.                                         *)
KeepFences == fence' = fence

(* reset_fences.                                                           *)
ResetFences == fence' = "unsignaled"

(* wait_for_fences succeeds, the fence is reset, and the objects the moves *)
(* left behind are destroyed.                                              *)
WaitThenDestroyOld ==
  /\ pc = "wait"
  /\ FenceSignaled
  /\ ResetFences
  /\ Destroy(old)
  /\ old' = {}
  /\ pc' = "end_pass"
  /\ UNCHANGED <<vmaVars, cmds, commandBuffer, ma, managed_allocations, handles,
                 allocator_handles, frames, todo>>

(* The mover has returned: begin_pass ends the pass, and its result says   *)
(* whether defrag's loop goes round again.                                 *)
EndPass ==
  /\ pc = "end_pass"
  /\ vmaEndDefragmentationPass
  /\ pc' \in {"begin_pass", "end"}
  /\ UNCHANGED <<mapCount, vma, deviceVars, ma, managed_allocations, handles,
                 allocator_handles, frames, todo, old>>

(* DefragmentationContext::end, and defrag returns.                        *)
DefragEnd ==
  /\ pc = "end"
  /\ vmaEndDefragmentation
  /\ pc' = "idle"
  /\ UNCHANGED <<loc, mapCount, mem, deviceVars, ma, managed_allocations,
                 handles, allocator_handles, frames, todo, old>>
-----------------------------------------------------------------------------
(* A panic unwinds defrag: the DefragmentationContext is dropped, which    *)
(* ends the defragmentation without ending the pass, and the lists of      *)
(* objects to destroy are lost.                                            *)
Unwind ==
  /\ vmaEndDefragmentation
  /\ pc' = "idle"
  /\ todo' = {}
  /\ old' = {}
  /\ UNCHANGED <<loc, mapCount, mem, cmds, commandBuffer, fence, ma,
                 managed_allocations, handles, allocator_handles, frames>>

(* create_buffer / create_image fails for a move.                          *)
CreatePanics ==
  /\ "create" \in Panics
  /\ pc = "moves" /\ todo # {}
  /\ Unwind
  /\ UNCHANGED <<objects, bound, imageLayout>>

(* The bind of a move's new object fails: the object stays behind.         *)
BindPanics(mv, m, r) ==
  /\ "bind" \in Panics
  /\ pc = "moves"
  /\ mv \in todo
  /\ m \in Entries(mv)
  /\ CreateBound(r, NoSlot, ma[m].info.initial)
  /\ Unwind

(* No entry holds the source of a move: expect("vk_mem_auto U01").         *)
LookupPanics(mv) ==
  /\ pc = "moves"
  /\ mv \in todo
  /\ Entries(mv) = {}
  /\ Unwind
  /\ UNCHANGED <<objects, bound, imageLayout>>

(* end_command_buffer or queue_submit fails.                               *)
SubmitPanics ==
  /\ "submit" \in Panics
  /\ pc = "moves" /\ todo = {}
  /\ Unwind
  /\ UNCHANGED <<objects, bound, imageLayout>>

(* wait_for_fences times out after 60 seconds, or the device is lost.      *)
WaitPanics ==
  /\ "wait" \in Panics
  /\ pc = "wait"
  /\ Unwind
  /\ UNCHANGED <<objects, bound, imageLayout>>
-----------------------------------------------------------------------------
(* The allocator is gone and every reference with it: nothing is left.     *)
Terminated == vma = "destroyed" /\ UNCHANGED vars

Client ==
  \/ \E m \in Mas, r \in Res, p \in Ptrs, s \in Slots, info \in CreateInfos :
       Allocate(m, r, p, s, info)
  \/ \E r \in Res, info \in CreateInfos : AllocatePanicsOnMemory(r, info)
  \/ \E r \in Res, p \in Ptrs, s \in Slots, info \in CreateInfos :
       AllocatePanicsOnBind(r, p, s, info)
  \/ \E m \in Mas :
       \/ CloneHandle(m)
       \/ DropHandle(m)
       \/ Free(m)
       \/ MapBegin(m)
       \/ transition_image(m)
       \/ \E k \in 0 .. MaxMaps : DropHandlePanics(m, k)
  \/ \E i \in 1 .. MaxMaps, d \in Data : MapWrite(i, d)
  \/ MapEnd
  \/ \E k \in 1 .. MaxMaps : ClosurePanics(k)
  \/ CloneAllocatorHandle
  \/ DropAllocatorHandle
  \/ DefragBegin

(* What defrag does once it has begun, when no call of it panics.          *)
Defrag ==
  \/ \E plan \in SUBSET Candidates :
       \E targets \in [{mv.dst : mv \in plan} -> FreeSlots] : BeginPass(plan, targets)
  \/ NoMoreMoves
  \/ \E mv \in Moves, m \in Mas, r \in Res : RecordMove(mv, m, r)
  \/ \E mv \in Moves : LookupPanics(mv)
  \/ Submit
  \/ WaitThenDestroyOld
  \/ EndPass
  \/ DefragEnd

DefragPanics ==
  \/ CreatePanics
  \/ \E mv \in Moves, m \in Mas, r \in Res : BindPanics(mv, m, r)
  \/ SubmitPanics
  \/ WaitPanics

Gpu == (\E c \in cmds : GpuExecute(c)) /\ UNCHANGED managedVars

GpuDone == GpuSignal /\ UNCHANGED managedVars

Next == Client \/ Defrag \/ DefragPanics \/ Gpu \/ GpuDone \/ Terminated

Spec == Init /\ [][Next]_vars

(* One thread runs defrag to its end without waiting for anything but the  *)
(* fence, and a GPU finishes what was submitted to it.                     *)
Fairness == WF_vars(Defrag) /\ WF_vars(Gpu) /\ WF_vars(GpuDone)

FairSpec == Spec /\ Fairness
-----------------------------------------------------------------------------
(* No two live resources of the allocator share an allocation, a Vulkan    *)
(* object or device memory, and each owns an allocation VMA knows and an   *)
(* object the device knows: nothing was freed twice or handed out twice,   *)
(* whatever panicked on the way.                                           *)
MemoryNeverShared ==
  /\ \A m \in Live : ma[m].alloc \in Allocated /\ ma[m].res \in objects
  /\ \A m, n \in Live : m # n =>
       /\ ma[m].alloc # ma[n].alloc
       /\ ma[m].res # ma[n].res
       /\ loc[ma[m].alloc] # loc[ma[n].alloc]

(* What MemoryNeverShared rests on.  Allocations never overlap, the object *)
(* of a live resource is bound to memory, ...                              *)
AllocationsDisjoint ==
  \A p, q \in Allocated : p # q => loc[p] # loc[q]

LiveResourcesBound ==
  \A m \in Live : bound[ma[m].res] # NoSlot

(* ... a pass moves distinct allocations into temporary ones that no       *)
(* resource owns, and moves exist only while a pass runs, ...              *)
PassWellFormed ==
  /\ \A mv \in moves :
       /\ mv.src \in Allocated /\ mv.dst \in Allocated
       /\ \A m \in Live : ma[m].alloc # mv.dst
       /\ \A nv \in moves : mv.src # nv.dst
  /\ \A mv, nv \in moves : mv # nv => mv.src # nv.src /\ mv.dst # nv.dst
  /\ todo \subseteq moves
  /\ pc \notin {"moves", "wait", "end_pass"} => moves = {}
  /\ pc # "moves" => todo = {}

(* ... the objects about to be destroyed belong to no live resource, ...   *)
OldIsOld ==
  /\ old \subseteq objects
  /\ \A m \in Live : ma[m].res \notin old
  /\ pc \notin {"moves", "wait"} => old = {}

(* ... and while defrag runs its list holds live entries only.             *)
ListLiveInDefrag ==
  pc # "idle" => managed_allocations \subseteq Live

OwnershipInvariant ==
  /\ AllocationsDisjoint
  /\ MemoryNeverShared
  /\ LiveResourcesBound
  /\ PassWellFormed
  /\ OldIsOld
  /\ ListLiveInDefrag

(* defrag's search by allocation pointer (expect "vk_mem_auto U01") finds  *)
(* exactly one entry for each move, and a live one, although the pointers  *)
(* of freed entries are handed out again by VMA.                           *)
SourceHasOneEntry ==
  pc = "moves" => \A mv \in todo : \E m \in Live : Entries(mv) = {m}

(* Outside a pass the GPU, the map call and the recorded mem_offset agree  *)
(* on where a resource is: the object is bound to the very memory VMA says *)
(* its allocation has.                                                     *)
BoundWhereVmaSays ==
  pc \in {"idle", "begin_pass", "end"} =>
    \A m \in Live : /\ bound[ma[m].res] = loc[ma[m].alloc]
                    /\ ma[m].mem_offset = loc[ma[m].alloc]

(* A resource outlives its handles never: the comment in Drop promises     *)
(* that the last user available handle frees it.                           *)
LastHandleFrees == \A m \in Live : handles[m] > 0

(* Between operations the device holds the objects of the live resources   *)
(* and no other, and VMA their allocations and no other; in particular     *)
(* nothing is left when the allocator is dropped with its last handle.     *)
NothingLeaks ==
  pc = "idle" => /\ objects = {ma[m].res : m \in Live}
                 /\ Allocated = {ma[m].alloc : m \in Live}

(* Whoever gets control after a submission finds the GPU done with it:     *)
(* VMA when the pass ends, the next pass, the client.  The fence is ready  *)
(* for the next submission.                                                *)
GpuQuietOutsidePass ==
  pc \notin {"moves", "wait"} =>
    commandBuffer = "ready" /\ cmds = {} /\ fence # "signaled"

(* Objects the GPU is working on exist.                                    *)
NoDestroyInFlight ==
  commandBuffer = "pending" => \A c \in cmds : {c.from, c.to} \subseteq objects

(* The pointer a map closure was given stays the memory of its allocation  *)
(* for as long as the closure runs, also under nested map calls, clones    *)
(* and drops of other handles inside it.                                   *)
MappedPointerValid ==
  \A i \in DOMAIN frames :
    frames[i].m \in Live /\ frames[i].slot = loc[ma[frames[i].m].alloc]

(* An allocation is mapped exactly as often as map calls on it are on the  *)
(* stack: none stays mapped when the closures have returned.               *)
MapsBalanced ==
  \A m \in Live : mapCount[ma[m].alloc] =
                  Cardinality({i \in DOMAIN frames : frames[i].m = m})

(* No allocation is freed while it is mapped (src/lib.rs, map_memory:      *)
(* unmap_memory must be called before freeing the allocation).             *)
FreedOnlyUnmapped ==
  [][\A p \in Allocated : loc'[p] = NoSlot => mapCount[p] = 0]_vars

(* The layout the allocator tracks for an image is the one it is in, so    *)
(* the barriers of the next defrag start from the right layout.            *)
LayoutTracked ==
  pc = "idle" => \A m \in Live : imageLayout[ma[m].res] = ma[m].layout

(* A buffer copy stays within the buffers (src/definitions.rs, the size of *)
(* AllocationInfo: operations on the resource must be limited to the size  *)
(* of the resource).                                                       *)
CopyWithinResource ==
  \A c \in cmds, m \in Live :
    c.layout = "NONE" /\ c.to = ma[m].res => c.size <= ma[m].info.size

(* What the client finds in m: an image whose layout is UNDEFINED promises *)
(* nothing.                                                                *)
ContentOf(m) ==
  IF ma[m].freed \/ ma[m].layout = "UNDEFINED" THEN Undefined
  ELSE mem[loc[ma[m].alloc]]

Store == INSTANCE ResourceStore WITH
  Ids     <- Mas,
  live    <- [m \in Mas |-> ~ma[m].freed],
  users   <- handles,
  content <- [m \in Mas |-> ContentOf(m)]

(* The managed allocator implements the store: content survives every      *)
(* defrag, and resources come and go with their handles only.              *)
ImplementsStore == Store!Spec

(* A defrag that has begun returns.                                        *)
DefragTerminates == (pc # "idle") ~> (pc = "idle")
=============================================================================
