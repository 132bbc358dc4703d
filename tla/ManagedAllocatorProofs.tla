----------------------- MODULE ManagedAllocatorProofs -----------------------
(***************************************************************************)
(* Theorems about ManagedAllocator, for any number of allocations, slots   *)
(* and handles and for any set of panicking calls.                         *)
(***************************************************************************)
EXTENDS ManagedAllocator, TLAPS

(* The inductive invariant: TypeOK needs the ownership facts (an allocation*)
(* a live resource names has a slot), and they need the types.             *)
Inv == TypeOK /\ OwnershipInvariant

(* A live identity holds a full ManagedAllocation.                         *)
LEMMA LiveTyped ==
  ASSUME TypeOK, NEW m \in Live
  PROVE  /\ m \in Mas
         /\ ma[m] \in ManagedAllocations
         /\ ma[m].alloc \in Ptrs
         /\ ma[m].res \in Res
         /\ ma[m].info \in CreateInfos
         /\ ma[m].layout \in Layouts
BY DEF TypeOK, Live, NoMa, ManagedAllocations

(* VMA's rounding keeps sizes natural numbers.                             *)
LEMMA AllocationSizeNat ==
  ASSUME NEW n \in Sizes
  PROVE  AllocationSize(n) \in Nat
<1>1. n \in Nat /\ n >= 1 /\ Align \in Nat /\ Align >= 1
  BY ManagedAssumption
<1>2. (n + Align - 1) \div Align \in Nat
  BY <1>1
<1> QED BY <1>1, <1>2 DEF AllocationSize

LEMMA InitInv == Init => Inv
<1> SUFFICES ASSUME Init PROVE Inv
  OBVIOUS
<1> USE DEF Init, VmaInit, DeviceInit
<1>1. TypeOK
  BY VmaAssumption DEF TypeOK, VmaTypeOK, DeviceTypeOK, Contents, Moves, Copies, Layouts,
     Frames, Slots, NoSlot
<1>2. Live = {} /\ Allocated = {}
  BY DEF Live, NoMa, Allocated
<1>3. OwnershipInvariant
  BY <1>2 DEF OwnershipInvariant, AllocationsDisjoint, MemoryNeverShared,
     LiveResourcesBound, PassWellFormed, OldIsOld, ListLiveInDefrag
<1> QED BY <1>1, <1>3 DEF Inv
-----------------------------------------------------------------------------
(* The conjuncts of TypeOK, flat, as the lemmas below use them.            *)
LEMMA TypeConjuncts ==
  TypeOK <=>
    /\ loc \in [Ptrs -> Slots \cup {NoSlot}]
    /\ mapCount \in [Ptrs -> Int]
    /\ mem \in [Slots -> Contents]
    /\ moves \subseteq Moves
    /\ vma \in {"ready", "defragmenting", "destroyed"}
    /\ objects \subseteq Res
    /\ bound \in [Res -> Slots \cup {NoSlot}]
    /\ imageLayout \in [Res -> Layouts]
    /\ cmds \subseteq Copies
    /\ commandBuffer \in {"ready", "recording", "pending"}
    /\ fence \in {"unsignaled", "signaled", "destroyed"}
    /\ ma \in [Mas -> ManagedAllocations \cup {NoMa}]
    /\ managed_allocations \subseteq Mas
    /\ handles \in [Mas -> Nat]
    /\ allocator_handles \in Nat
    /\ frames \in Seq(Frames)
    /\ pc \in {"idle", "begin_pass", "moves", "wait", "end_pass", "end"}
    /\ todo \subseteq Moves
    /\ old \subseteq Res
BY DEF TypeOK, VmaTypeOK, DeviceTypeOK

(* A resource in use owns a slot.                                          *)
LEMMA LiveHasSlot ==
  ASSUME Inv, NEW m \in Live
  PROVE  loc[ma[m].alloc] \in Slots /\ bound[ma[m].res] \in Slots
<1>1. ma[m].alloc \in Ptrs /\ ma[m].res \in Res
  BY LiveTyped DEF Inv
<1>2. loc[ma[m].alloc] # NoSlot /\ bound[ma[m].res] # NoSlot
  BY DEF Inv, OwnershipInvariant, MemoryNeverShared, LiveResourcesBound, Allocated
<1> QED BY <1>1, <1>2, TypeConjuncts DEF Inv

LEMMA MapCountType ==
  ASSUME TypeOK, NEW p, vmaMapMemory(p) \/ vmaUnmapMemory(p)
  PROVE  mapCount' \in [Ptrs -> Int]
<1>1. mapCount \in [Ptrs -> Int]
  BY TypeConjuncts
<1>2. CASE p \in Ptrs
  <2>1. mapCount[p] + 1 \in Int /\ mapCount[p] - 1 \in Int
    BY <1>1, <1>2
  <2> QED BY <1>1, <2>1 DEF vmaMapMemory, vmaUnmapMemory
<1>3. CASE p \notin Ptrs
  BY <1>1, <1>3 DEF vmaMapMemory, vmaUnmapMemory
<1> QED BY <1>2, <1>3

LEMMA PopFramesType ==
  ASSUME TypeOK, NEW k \in 0 .. Len(frames)
  PROVE  PopFrames(k) \in Seq(Frames)
<1>1. frames \in Seq(Frames) /\ Len(frames) \in Nat
  BY TypeConjuncts
<1>2. Len(frames) - k \in 0 .. Len(frames)
  BY <1>1
<1> QED BY <1>1, <1>2 DEF PopFrames

LEMMA DestroyType ==
  ASSUME TypeOK, NEW R, Destroy(R)
  PROVE  /\ objects' \subseteq Res
         /\ bound' \in [Res -> Slots \cup {NoSlot}]
         /\ imageLayout' \in [Res -> Layouts]
BY TypeConjuncts DEF Destroy, Layouts

LEMMA CreateBoundType ==
  ASSUME TypeOK, NEW r \in Res, NEW s \in Slots \cup {NoSlot}, NEW l \in Layouts,
         CreateBound(r, s, l)
  PROVE  /\ objects' \subseteq Res
         /\ bound' \in [Res -> Slots \cup {NoSlot}]
         /\ imageLayout' \in [Res -> Layouts]
BY TypeConjuncts DEF CreateBound

LEMMA InitialLayoutType ==
  ASSUME NEW info \in CreateInfos
  PROVE  info.initial \in Layouts /\ info.size \in Sizes
BY ManagedAssumption DEF CreateInfos, BufferCreateInfos, ImageCreateInfos, Layouts

LEMMA FreeResourceType ==
  ASSUME TypeOK, NEW m \in Mas, FreeResource(m)
  PROVE  /\ objects' \subseteq Res
         /\ bound' \in [Res -> Slots \cup {NoSlot}]
         /\ imageLayout' \in [Res -> Layouts]
         /\ loc' \in [Ptrs -> Slots \cup {NoSlot}]
         /\ mem' \in [Slots -> Contents]
         /\ ma' \in [Mas -> ManagedAllocations \cup {NoMa}]
<1>1. CASE ma[m].freed
  BY <1>1, TypeConjuncts DEF FreeResource
<1>2. CASE ~ma[m].freed
  <2>1. ma[m] \in ManagedAllocations
    BY <1>2, LiveTyped DEF Live
  <2>2. [ma[m] EXCEPT !.freed = TRUE] \in ManagedAllocations
    BY <2>1 DEF ManagedAllocations
  <2>3. ma' \in [Mas -> ManagedAllocations \cup {NoMa}]
    BY <1>2, <2>2, TypeConjuncts DEF FreeResource
  <2>4. Destroy({ma[m].res}) /\ vmaFreeMemory(ma[m].alloc)
    BY <1>2 DEF FreeResource
  <2>5. loc' \in [Ptrs -> Slots \cup {NoSlot}] /\ mem' \in [Slots -> Contents]
    BY <2>4, TypeConjuncts DEF vmaFreeMemory, Contents
  <2> QED BY <2>3, <2>4, <2>5, DestroyType
<1> QED BY <1>1, <1>2

LEMMA DropReferencesType ==
  ASSUME TypeOK, NEW h \in [Mas -> Nat], NEW a \in Nat, DropReferences(h, a)
  PROVE  /\ handles' \in [Mas -> Nat]
         /\ allocator_handles' \in Nat
         /\ vma' \in {"ready", "defragmenting", "destroyed"}
         /\ fence' \in {"unsignaled", "signaled", "destroyed"}
         /\ managed_allocations' \subseteq Mas
BY TypeConjuncts DEF DropReferences
-----------------------------------------------------------------------------
(* Every step of the client keeps the types.                               *)
LEMMA ClientTypeStep == Inv /\ Client => TypeOK'
<1> SUFFICES ASSUME Inv, Client PROVE TypeOK'
  OBVIOUS
<1>0. TypeOK
  BY DEF Inv
<1> USE <1>0 DEF TypeOK, VmaTypeOK, DeviceTypeOK
<1>1. CASE \E m \in Mas, r \in Res, p \in Ptrs, s \in Slots, info \in CreateInfos :
             Allocate(m, r, p, s, info)
  <2>1. PICK m \in Mas, r \in Res, p \in Ptrs, s \in Slots, info \in CreateInfos :
               Allocate(m, r, p, s, info)
    BY <1>1
  <2>2. CreateBound(r, s, info.initial) /\ vmaAllocateMemory(p, s)
    BY <2>1 DEF Allocate
  <2>3. objects' \subseteq Res /\ bound' \in [Res -> Slots \cup {NoSlot}]
        /\ imageLayout' \in [Res -> Layouts]
    BY <2>2, InitialLayoutType, CreateBoundType
  <2>4. loc' \in [Ptrs -> Slots \cup {NoSlot}] /\ mapCount' \in [Ptrs -> Int]
    BY <2>2 DEF vmaAllocateMemory
  <2>5. [res |-> r, alloc |-> p, info |-> info, layout |-> info.initial,
         mem_offset |-> s, freed |-> FALSE] \in ManagedAllocations
    BY InitialLayoutType DEF ManagedAllocations
  <2>6. ma' \in [Mas -> ManagedAllocations \cup {NoMa}]
    BY <2>1, <2>5 DEF Allocate
  <2> QED BY <2>1, <2>3, <2>4, <2>6 DEF Allocate
<1>2. CASE \E r \in Res, info \in CreateInfos : AllocatePanicsOnMemory(r, info)
  <2>1. PICK r \in Res, info \in CreateInfos : AllocatePanicsOnMemory(r, info)
    BY <1>2
  <2>2. objects' \subseteq Res /\ bound' \in [Res -> Slots \cup {NoSlot}]
        /\ imageLayout' \in [Res -> Layouts]
    BY <2>1, InitialLayoutType, CreateBoundType DEF AllocatePanicsOnMemory
  <2> QED BY <2>1, <2>2 DEF AllocatePanicsOnMemory, vmaVars, managedVars
<1>3. CASE \E r \in Res, p \in Ptrs, s \in Slots, info \in CreateInfos :
             AllocatePanicsOnBind(r, p, s, info)
  <2>1. PICK r \in Res, p \in Ptrs, s \in Slots, info \in CreateInfos :
               AllocatePanicsOnBind(r, p, s, info)
    BY <1>3
  <2>2. objects' \subseteq Res /\ bound' \in [Res -> Slots \cup {NoSlot}]
        /\ imageLayout' \in [Res -> Layouts]
    BY <2>1, InitialLayoutType, CreateBoundType DEF AllocatePanicsOnBind
  <2>3. loc' \in [Ptrs -> Slots \cup {NoSlot}] /\ mapCount' \in [Ptrs -> Int]
    BY <2>1 DEF AllocatePanicsOnBind, vmaAllocateMemory
  <2> QED BY <2>1, <2>2, <2>3 DEF AllocatePanicsOnBind, managedVars
<1>4. ASSUME NEW m \in Mas, CloneHandle(m)
      PROVE  TypeOK'
  BY <1>4 DEF CloneHandle, vmaVars, deviceVars
<1>5. ASSUME NEW m \in Mas, DropHandle(m)
      PROVE  TypeOK'
  <2>1. handles[m] - 1 \in Nat
    BY <1>5 DEF DropHandle, MayDrop
  <2>2. [handles EXCEPT ![m] = @ - 1] \in [Mas -> Nat]
    BY <2>1
  <2>3. DropReferences([handles EXCEPT ![m] = @ - 1], allocator_handles)
    BY <1>5 DEF DropHandle
  <2>4. /\ handles' \in [Mas -> Nat]
        /\ allocator_handles' \in Nat
        /\ vma' \in {"ready", "defragmenting", "destroyed"}
        /\ fence' \in {"unsignaled", "signaled", "destroyed"}
        /\ managed_allocations' \subseteq Mas
    BY <2>2, <2>3, DropReferencesType
  <2>5. CASE FreeResource(m)
    BY <1>5, <2>4, <2>5, FreeResourceType DEF DropHandle
  <2>6. CASE UNCHANGED <<loc, mem, objects, bound, imageLayout, ma>>
    BY <1>5, <2>4, <2>6 DEF DropHandle
  <2> QED BY <1>5, <2>5, <2>6 DEF DropHandle
<1>6. ASSUME NEW m \in Mas, Free(m)
      PROVE  TypeOK'
  <2>1. FreeResource(m)
    BY <1>6 DEF Free
  <2> QED BY <1>6, <2>1, FreeResourceType DEF Free
<1>7. ASSUME NEW m \in Mas, MapBegin(m)
      PROVE  TypeOK'
  <2>1. m \in Live
    BY <1>7 DEF MapBegin, Usable, Live
  <2>2. loc[ma[m].alloc] \in Slots
    BY <2>1, LiveHasSlot
  <2>3. frames' \in Seq(Frames)
    BY <1>7, <2>2 DEF MapBegin, Frames
  <2>4. mapCount' \in [Ptrs -> Int]
    BY <1>7, MapCountType DEF MapBegin
  <2> QED BY <1>7, <2>3, <2>4 DEF MapBegin, deviceVars
<1>8. ASSUME NEW m \in Mas, transition_image(m)
      PROVE  TypeOK'
  <2>1. m \in Live
    BY <1>8 DEF transition_image, Usable, Live
  <2>2. ma[m] \in ManagedAllocations
    BY <2>1, LiveTyped
  <2>3. [ma[m] EXCEPT !.layout = "GENERAL"] \in ManagedAllocations
    BY <2>2 DEF ManagedAllocations, Layouts
  <2>4. ma' \in [Mas -> ManagedAllocations \cup {NoMa}]
    BY <1>8, <2>3 DEF transition_image
  <2>5. imageLayout' \in [Res -> Layouts] /\ mem' \in [Slots -> Contents]
    BY <1>8 DEF transition_image, Layouts, Contents
  <2> QED BY <1>8, <2>4, <2>5 DEF transition_image
<1>9. ASSUME NEW m \in Mas, NEW k \in 0 .. MaxMaps, DropHandlePanics(m, k)
      PROVE  TypeOK'
  <2>1. handles[m] - 1 \in Nat
    BY <1>9 DEF DropHandlePanics, MayDrop
  <2>2. frames' \in Seq(Frames)
    BY <1>9, PopFramesType DEF DropHandlePanics
  <2> QED BY <1>9, <2>1, <2>2 DEF DropHandlePanics, vmaVars, deviceVars
<1>10. ASSUME NEW i \in 1 .. MaxMaps, NEW d \in Data, MapWrite(i, d)
       PROVE  TypeOK'
  <2>1. mem' \in [Slots -> Contents]
    BY <1>10 DEF MapWrite, Contents
  <2> QED BY <1>10, <2>1 DEF MapWrite, deviceVars, managedVars
<1>11. CASE MapEnd
  <2>1. frames # <<>> => 1 \in 0 .. Len(frames)
    OBVIOUS
  <2>2. frames' \in Seq(Frames)
    BY <1>11, <2>1, PopFramesType DEF MapEnd
  <2>3. mapCount' \in [Ptrs -> Int]
    BY <1>11, MapCountType DEF MapEnd
  <2> QED BY <1>11, <2>2, <2>3 DEF MapEnd, deviceVars
<1>12. ASSUME NEW k \in 1 .. MaxMaps, ClosurePanics(k)
       PROVE  TypeOK'
  <2>1. k \in 0 .. Len(frames)
    BY <1>12 DEF ClosurePanics
  <2>2. frames' \in Seq(Frames)
    BY <1>12, <2>1, PopFramesType DEF ClosurePanics
  <2> QED BY <1>12, <2>2 DEF ClosurePanics, vmaVars, deviceVars
<1>13. CASE CloneAllocatorHandle
  BY <1>13 DEF CloneAllocatorHandle, vmaVars, deviceVars
<1>14. CASE DropAllocatorHandle
  <2>1. DropReferences(handles, allocator_handles - 1) /\ allocator_handles - 1 \in Nat
    BY <1>14 DEF DropAllocatorHandle
  <2> QED BY <1>14, <2>1, DropReferencesType DEF DropAllocatorHandle
<1>15. CASE DefragBegin
  BY <1>15 DEF DefragBegin, Retained, deviceVars
<1> QED
  BY <1>1, <1>2, <1>3, <1>4, <1>5, <1>6, <1>7, <1>8, <1>9, <1>10, <1>11, <1>12,
     <1>13, <1>14, <1>15 DEF Client
-----------------------------------------------------------------------------
(* A move that is to be recorded has a destination with memory.            *)
LEMMA DestinationIsSlot ==
  ASSUME Inv, NEW mv \in todo
  PROVE  Destination(mv) \in Slots
<1>1. mv \in moves /\ mv.dst \in Allocated
  BY DEF Inv, OwnershipInvariant, PassWellFormed
<1>2. mv.dst \in Ptrs /\ loc[mv.dst] # NoSlot
  BY <1>1 DEF Allocated
<1> QED BY <1>2, TypeConjuncts DEF Inv, Destination

(* The entries defrag finds are live.                                      *)
LEMMA EntryLive ==
  ASSUME Inv, pc # "idle", NEW mv, NEW m \in Entries(mv)
  PROVE  m \in Live
BY DEF Entries, Inv, OwnershipInvariant, ListLiveInDefrag

LEMMA UnwindType ==
  ASSUME TypeOK, Unwind, objects' \subseteq Res,
         bound' \in [Res -> Slots \cup {NoSlot}], imageLayout' \in [Res -> Layouts]
  PROVE  TypeOK'
BY DEF TypeOK, VmaTypeOK, DeviceTypeOK, Unwind, vmaEndDefragmentation

LEMMA UnwindOnlyType ==
  ASSUME TypeOK, Unwind, UNCHANGED <<objects, bound, imageLayout>>
  PROVE  TypeOK'
BY UnwindType, TypeConjuncts

(* Every step of defrag keeps the types.                                   *)
LEMMA DefragTypeStep == Inv /\ Defrag => TypeOK'
<1> SUFFICES ASSUME Inv, Defrag PROVE TypeOK'
  OBVIOUS
<1>0. TypeOK
  BY DEF Inv
<1> USE <1>0 DEF TypeOK, VmaTypeOK, DeviceTypeOK
<1>1. ASSUME NEW plan \in SUBSET Candidates,
             NEW targets \in [{mv.dst : mv \in plan} -> FreeSlots],
             BeginPass(plan, targets)
      PROVE  TypeOK'
  <2>1. plan \subseteq Moves
    BY DEF Candidates, Moves, Allocated
  <2>2. \A mv \in plan : targets[mv.dst] \in Slots
    BY DEF FreeSlots
  <2>3. loc' \in [Ptrs -> Slots \cup {NoSlot}]
    BY <1>1, <2>2 DEF BeginPass, vmaBeginDefragmentationPass
  <2>4. mapCount' \in [Ptrs -> Int]
    BY <1>1 DEF BeginPass, vmaBeginDefragmentationPass
  <2>5. cmds' \subseteq Copies /\ commandBuffer' = "recording"
    BY <1>1 DEF BeginPass, BeginCommandBuffer
  <2> QED BY <1>1, <2>1, <2>3, <2>4, <2>5 DEF BeginPass, vmaBeginDefragmentationPass
<1>2. CASE NoMoreMoves
  BY <1>2 DEF NoMoreMoves, vmaVars, deviceVars
<1>3. ASSUME NEW mv \in Moves, NEW m \in Mas, NEW r \in Res, RecordMove(mv, m, r)
      PROVE  TypeOK'
  <2> DEFINE dst == Destination(mv)
  <2>1. m \in Live /\ mv \in todo
    BY <1>3, EntryLive DEF RecordMove
  <2>2. dst \in Slots
    BY <2>1, DestinationIsSlot
  <2>3. /\ ma[m] \in ManagedAllocations
        /\ ma[m].res \in Res
        /\ ma[m].info \in CreateInfos
        /\ ma[m].layout \in Layouts
    BY <2>1, LiveTyped
  <2>4. bound[ma[m].res] \in Slots
    BY <2>1, LiveHasSlot
  <2>5. AllocationSize(ma[m].info.size) \in Nat
    BY <2>3, InitialLayoutType, AllocationSizeNat
  <2>6. RecordedCopies(m, r, dst) \subseteq Copies
    BY <2>2, <2>3, <2>4, <2>5 DEF RecordedCopies, Copies
  <2>7. cmds' \subseteq Copies
    BY <1>3, <2>6 DEF RecordMove
  <2>8. CreateBound(r, dst, ma[m].info.initial)
    BY <1>3 DEF RecordMove
  <2>9. objects' \subseteq Res /\ bound' \in [Res -> Slots \cup {NoSlot}]
        /\ imageLayout' \in [Res -> Layouts]
    BY <2>2, <2>3, <2>8, InitialLayoutType, CreateBoundType
  <2>10. [ma[m] EXCEPT !.res = r, !.mem_offset = dst] \in ManagedAllocations
    BY <2>2, <2>3 DEF ManagedAllocations
  <2>11. ma' = [ma EXCEPT ![m] = [ma[m] EXCEPT !.res = r, !.mem_offset = dst]]
    BY <1>3 DEF RecordMove
  <2>12. ma' \in [Mas -> ManagedAllocations \cup {NoMa}]
    BY <2>10, <2>11
  <2>13. old' \subseteq Res
    BY <1>3, <2>3 DEF RecordMove, LeftBehind
  <2> QED BY <1>3, <2>7, <2>9, <2>12, <2>13 DEF RecordMove, vmaVars
<1>4. ASSUME NEW mv \in Moves, LookupPanics(mv)
      PROVE  TypeOK'
  BY <1>4, UnwindOnlyType DEF LookupPanics
<1>5. CASE Submit
  BY <1>5 DEF Submit, QueueSubmit, vmaVars
<1>6. CASE WaitThenDestroyOld
  BY <1>6, DestroyType DEF WaitThenDestroyOld, ResetFences, vmaVars
<1>7. CASE EndPass
  <2>1. ASSUME NEW p \in Sources
        PROVE  (CHOOSE mv \in moves : mv.src = p).dst \in Ptrs
    <3>1. \E mv \in moves : mv.src = p
      BY DEF Sources
    <3>2. (CHOOSE mv \in moves : mv.src = p) \in moves
      BY <3>1
    <3> QED BY <3>2 DEF Moves
  <2>2. loc' \in [Ptrs -> Slots \cup {NoSlot}]
    BY <1>7, <2>1 DEF EndPass, vmaEndDefragmentationPass
  <2>3. mem' \in [Slots -> Contents]
    BY <1>7 DEF EndPass, vmaEndDefragmentationPass, Contents
  <2> QED BY <1>7, <2>2, <2>3 DEF EndPass, vmaEndDefragmentationPass, deviceVars
<1>8. CASE DefragEnd
  BY <1>8 DEF DefragEnd, vmaEndDefragmentation, deviceVars
<1> QED BY <1>1, <1>2, <1>3, <1>4, <1>5, <1>6, <1>7, <1>8 DEF Defrag

(* A panic out of defrag keeps the types.                                  *)
LEMMA DefragPanicsTypeStep == Inv /\ DefragPanics => TypeOK'
<1> SUFFICES ASSUME Inv, DefragPanics PROVE TypeOK'
  OBVIOUS
<1>0. TypeOK
  BY DEF Inv
<1>1. CASE CreatePanics
  BY <1>0, <1>1, UnwindOnlyType DEF CreatePanics
<1>2. ASSUME NEW mv \in Moves, NEW m \in Mas, NEW r \in Res, BindPanics(mv, m, r)
      PROVE  TypeOK'
  <2>1. m \in Live
    BY <1>2, EntryLive DEF BindPanics
  <2>2. ma[m].info.initial \in Layouts
    BY <1>0, <2>1, LiveTyped, InitialLayoutType
  <2>3. CreateBound(r, NoSlot, ma[m].info.initial) /\ Unwind
    BY <1>2 DEF BindPanics
  <2> QED BY <1>0, <2>2, <2>3, CreateBoundType, UnwindType
<1>3. CASE SubmitPanics
  BY <1>0, <1>3, UnwindOnlyType DEF SubmitPanics
<1>4. CASE WaitPanics
  BY <1>0, <1>4, UnwindOnlyType DEF WaitPanics
<1> QED BY <1>1, <1>2, <1>3, <1>4 DEF DefragPanics

(* The GPU, and the end of everything, keep the types.                     *)
LEMMA OtherTypeStep == Inv /\ (Gpu \/ GpuDone \/ UNCHANGED vars) => TypeOK'
<1> SUFFICES ASSUME Inv, Gpu \/ GpuDone \/ UNCHANGED vars PROVE TypeOK'
  OBVIOUS
<1> USE DEF Inv, TypeOK, VmaTypeOK, DeviceTypeOK
<1>1. CASE Gpu
  <2>1. PICK c \in cmds : GpuExecute(c) /\ UNCHANGED managedVars
    BY <1>1 DEF Gpu
  <2>2. c.src \in Slots /\ c.dst \in Slots /\ c.layout \in Layouts
    BY DEF Copies
  <2>3. Delivered(c) \in Contents
    BY <2>2 DEF Delivered, Contents
  <2>4. mem' \in [Slots -> Contents]
    BY <2>1, <2>3 DEF GpuExecute
  <2>5. imageLayout' \in [Res -> Layouts]
    BY <2>1, <2>2 DEF GpuExecute, Layouts
  <2>6. cmds' \subseteq Copies
    BY <2>1 DEF GpuExecute
  <2> QED BY <2>1, <2>4, <2>5, <2>6 DEF GpuExecute, managedVars
<1>2. CASE GpuDone
  BY <1>2 DEF GpuDone, GpuSignal, managedVars
<1>3. CASE UNCHANGED vars
  BY <1>3 DEF vars, vmaVars, deviceVars, managedVars
<1> QED BY <1>1, <1>2, <1>3

LEMMA TypeStep == Inv /\ [Next]_vars => TypeOK'
BY ClientTypeStep, DefragTypeStep, DefragPanicsTypeStep, OtherTypeStep DEF Next, Terminated
-----------------------------------------------------------------------------
(* Steps that touch neither allocations, objects nor the pass keep the     *)
(* ownership facts.                                                        *)
LEMMA QuietOwnership ==
  ASSUME Inv, UNCHANGED <<loc, moves, objects, bound, ma, pc, todo, old>>,
         managed_allocations' \subseteq managed_allocations
  PROVE  OwnershipInvariant'
<1>1. Live' = Live /\ Allocated' = Allocated
  BY DEF Live, Allocated
<1> QED
  BY <1>1 DEF Inv, OwnershipInvariant, AllocationsDisjoint, MemoryNeverShared,
     LiveResourcesBound, PassWellFormed, OldIsOld, ListLiveInDefrag

(* While the client runs no pass is open.                                  *)
LEMMA NoPassWhenIdle ==
  ASSUME Inv, pc = "idle"
  PROVE  moves = {} /\ todo = {} /\ old = {}
BY DEF Inv, OwnershipInvariant, PassWellFormed, OldIsOld

(* A new resource takes an object, a pointer and a slot nobody has.        *)
LEMMA AllocateOwnership ==
  ASSUME Inv, NEW m \in Mas, NEW r \in Res, NEW p \in Ptrs, NEW s \in Slots,
         NEW info \in CreateInfos, Allocate(m, r, p, s, info)
  PROVE  OwnershipInvariant'
<1>0. TypeOK /\ pc = "idle"
  BY DEF Inv, Allocate, ClientRuns
<1>1. moves = {} /\ todo = {} /\ old = {}
  BY <1>0, NoPassWhenIdle
<1>2. /\ r \notin objects /\ objects' = objects \cup {r}
      /\ bound' = [bound EXCEPT ![r] = s]
  BY DEF Allocate, CreateBound
<1>3. /\ p \notin Allocated /\ s \in FreeSlots
      /\ loc' = [loc EXCEPT ![p] = s]
  BY DEF Allocate, vmaAllocateMemory
<1>4. /\ ma' = [ma EXCEPT ![m] = [res |-> r, alloc |-> p, info |-> info,
                  layout |-> info.initial, mem_offset |-> s, freed |-> FALSE]]
      /\ UNCHANGED <<moves, pc, todo, old>>
  BY DEF Allocate
<1>5. s # NoSlot /\ loc \in [Ptrs -> Slots \cup {NoSlot}]
      /\ bound \in [Res -> Slots \cup {NoSlot}]
      /\ ma \in [Mas -> ManagedAllocations \cup {NoMa}]
  BY <1>0, TypeConjuncts DEF Slots, NoSlot
<1>6. Allocated' = Allocated \cup {p}
  BY <1>3, <1>5 DEF Allocated
<1>7. /\ Live' = Live \cup {m}
      /\ \A n \in Live' : n # m => n \in Live /\ ma'[n] = ma[n]
      /\ ma'[m].alloc = p /\ ma'[m].res = r
  BY <1>4, <1>5 DEF Live
<1>8. \A n \in Live : /\ ma[n].alloc \in Allocated /\ ma[n].alloc # p
                      /\ ma[n].res \in objects /\ ma[n].res # r
  BY <1>2, <1>3 DEF Inv, OwnershipInvariant, MemoryNeverShared
<1>9. AllocationsDisjoint'
  BY <1>3, <1>5, <1>6 DEF Inv, OwnershipInvariant, AllocationsDisjoint, FreeSlots, Allocated
<1>10. MemoryNeverShared'
  <2>1. \A n \in Live' : ma'[n].alloc \in Allocated' /\ ma'[n].res \in objects'
    BY <1>2, <1>6, <1>7, <1>8
  <2>2. \A n, k \in Live' : n # k => ma'[n].alloc # ma'[k].alloc /\ ma'[n].res # ma'[k].res
    BY <1>7, <1>8 DEF Inv, OwnershipInvariant, MemoryNeverShared
  <2> QED BY <1>9, <2>1, <2>2 DEF MemoryNeverShared, AllocationsDisjoint
<1>11. LiveResourcesBound'
  <2>1. \A n \in Live : ma[n].res \in Res
    BY <1>0, LiveTyped
  <2> QED BY <1>2, <1>5, <1>7, <1>8, <2>1 DEF Inv, OwnershipInvariant, LiveResourcesBound
<1>12. PassWellFormed' /\ OldIsOld' /\ ListLiveInDefrag'
  BY <1>0, <1>1, <1>4 DEF PassWellFormed, OldIsOld, ListLiveInDefrag
<1> QED BY <1>9, <1>10, <1>11, <1>12 DEF OwnershipInvariant

(* What a panic in allocate leaves behind belongs to nobody.               *)
LEMMA LeakOwnership ==
  ASSUME Inv, pc = "idle", NEW r \in Res, NEW l, CreateBound(r, NoSlot, l),
         \/ UNCHANGED loc
         \/ \E p \in Ptrs, s \in Slots : vmaAllocateMemory(p, s),
         UNCHANGED <<moves, ma, managed_allocations, pc, todo, old>>
  PROVE  OwnershipInvariant'
<1>0. TypeOK
  BY DEF Inv
<1>1. moves = {} /\ todo = {} /\ old = {}
  BY NoPassWhenIdle
<1>2. r \notin objects /\ objects' = objects \cup {r} /\ bound' = [bound EXCEPT ![r] = NoSlot]
  BY DEF CreateBound
<1>3. /\ Live' = Live
      /\ \A n \in Live : ma[n].res \in objects /\ ma[n].alloc \in Allocated
  BY DEF Live, Inv, OwnershipInvariant, MemoryNeverShared
<1>4. Allocated \subseteq Allocated' /\ AllocationsDisjoint'
  <2>1. CASE UNCHANGED loc
    BY <2>1 DEF Allocated, AllocationsDisjoint, Inv, OwnershipInvariant
  <2>2. CASE \E p \in Ptrs, s \in Slots : vmaAllocateMemory(p, s)
    BY <2>2, <1>0, TypeConjuncts DEF vmaAllocateMemory, Allocated, FreeSlots,
       AllocationsDisjoint, Inv, OwnershipInvariant, Slots, NoSlot
  <2> QED BY <2>1, <2>2
<1>5. MemoryNeverShared'
  <2>1. \A n \in Live' : ma'[n].alloc \in Allocated' /\ ma'[n].res \in objects'
    BY <1>2, <1>3, <1>4
  <2>2. \A n, k \in Live' : n # k => ma'[n].alloc # ma'[k].alloc /\ ma'[n].res # ma'[k].res
    BY <1>3 DEF Inv, OwnershipInvariant, MemoryNeverShared
  <2> QED BY <1>4, <2>1, <2>2 DEF MemoryNeverShared, AllocationsDisjoint
<1>6. LiveResourcesBound'
  BY <1>0, <1>2, <1>3, TypeConjuncts DEF Inv, OwnershipInvariant, LiveResourcesBound
<1>7. PassWellFormed' /\ OldIsOld' /\ ListLiveInDefrag'
  BY <1>1 DEF PassWellFormed, OldIsOld, ListLiveInDefrag
<1> QED BY <1>4, <1>5, <1>6, <1>7 DEF OwnershipInvariant

(* Freeing takes a resource's own object, allocation and slot, and no      *)
(* other's: this is where sharing would be fatal.                          *)
LEMMA FreeOwnership ==
  ASSUME Inv, pc = "idle", NEW m \in Mas, FreeResource(m),
         managed_allocations' \subseteq managed_allocations,
         UNCHANGED <<moves, pc, todo, old>>
  PROVE  OwnershipInvariant'
<1>1. CASE ma[m].freed
  BY <1>1, QuietOwnership DEF FreeResource
<1>2. CASE ~ma[m].freed
  <2>0. TypeOK /\ m \in Live
    BY <1>2 DEF Inv, Live
  <2>1. moves = {} /\ todo = {} /\ old = {}
    BY NoPassWhenIdle
  <2>2. /\ objects' = objects \ {ma[m].res}
        /\ bound' = [r \in Res |-> IF r \in {ma[m].res} THEN NoSlot ELSE bound[r]]
        /\ loc' = [loc EXCEPT ![ma[m].alloc] = NoSlot]
        /\ ma' = [ma EXCEPT ![m].freed = TRUE]
    BY <1>2 DEF FreeResource, Destroy, vmaFreeMemory
  <2>3. loc \in [Ptrs -> Slots \cup {NoSlot}]
        /\ ma \in [Mas -> ManagedAllocations \cup {NoMa}]
    BY <2>0, TypeConjuncts
  <2>4. Allocated' = Allocated \ {ma[m].alloc}
    BY <2>2, <2>3 DEF Allocated
  <2>5. ma[m] \in ManagedAllocations
    BY <2>0, LiveTyped
  <2>6. ma'[m].freed
    BY <2>2, <2>3, <2>5 DEF ManagedAllocations
  <2>7. /\ Live' = Live \ {m}
        /\ \A n \in Live' : ma'[n] = ma[n]
    BY <2>2, <2>3, <2>6 DEF Live
  <2>8. \A n \in Live' : ma[n].alloc # ma[m].alloc /\ ma[n].res # ma[m].res
    BY <2>0, <2>7 DEF Inv, OwnershipInvariant, MemoryNeverShared
  <2>9. AllocationsDisjoint'
    BY <2>2, <2>3, <2>4 DEF AllocationsDisjoint, Inv, OwnershipInvariant, Allocated
  <2>10. MemoryNeverShared'
    <3>1. \A n \in Live' : ma'[n].alloc \in Allocated' /\ ma'[n].res \in objects'
      BY <2>2, <2>4, <2>7, <2>8 DEF Inv, OwnershipInvariant, MemoryNeverShared
    <3>2. \A n, k \in Live' : n # k => ma'[n].alloc # ma'[k].alloc /\ ma'[n].res # ma'[k].res
      BY <2>7 DEF Inv, OwnershipInvariant, MemoryNeverShared
    <3> QED BY <2>9, <3>1, <3>2 DEF MemoryNeverShared, AllocationsDisjoint
  <2>11. LiveResourcesBound'
    <3>1. \A n \in Live' : n \in Live /\ ma[n].res \in Res
      BY <2>0, <2>7, LiveTyped
    <3> QED BY <2>2, <2>7, <2>8, <3>1 DEF LiveResourcesBound, Inv, OwnershipInvariant
  <2>12. PassWellFormed' /\ OldIsOld' /\ ListLiveInDefrag'
    BY <2>1 DEF PassWellFormed, OldIsOld, ListLiveInDefrag
  <2> QED BY <2>9, <2>10, <2>11, <2>12 DEF OwnershipInvariant
<1> QED BY <1>1, <1>2

(* Changing the tracked layout of an image moves no ownership.             *)
LEMMA TransitionOwnership ==
  ASSUME Inv, NEW m \in Mas, transition_image(m)
  PROVE  OwnershipInvariant'
<1>1. m \in Live /\ TypeOK
  BY DEF transition_image, Usable, Live, Inv
<1>2. ma[m] \in ManagedAllocations /\ ma \in [Mas -> ManagedAllocations \cup {NoMa}]
  BY <1>1, LiveTyped, TypeConjuncts
<1>3. ma' = [ma EXCEPT ![m] = [ma[m] EXCEPT !.layout = "GENERAL"]]
  BY DEF transition_image
<1>4. /\ \A n \in Mas : ma'[n].freed = ma[n].freed
      /\ \A n \in Live : ma'[n].alloc = ma[n].alloc /\ ma'[n].res = ma[n].res
  BY <1>2, <1>3 DEF ManagedAllocations, Live
<1>5. Live' = Live /\ Allocated' = Allocated
  BY <1>4 DEF Live, Allocated, transition_image
<1>6. UNCHANGED <<loc, moves, objects, bound, managed_allocations, pc, todo, old>>
  BY DEF transition_image
<1> QED
  BY <1>4, <1>5, <1>6 DEF Inv, OwnershipInvariant, AllocationsDisjoint, MemoryNeverShared,
     LiveResourcesBound, PassWellFormed, OldIsOld, ListLiveInDefrag

LEMMA ClientOwnershipStep == Inv /\ Client => OwnershipInvariant'
<1> SUFFICES ASSUME Inv, Client PROVE OwnershipInvariant'
  OBVIOUS
<1> USE DEF vmaVars, deviceVars, managedVars
<1>1. ASSUME NEW m \in Mas, NEW r \in Res, NEW p \in Ptrs, NEW s \in Slots,
             NEW info \in CreateInfos, Allocate(m, r, p, s, info)
      PROVE  OwnershipInvariant'
  BY <1>1, AllocateOwnership
<1>2. ASSUME NEW r \in Res, NEW info \in CreateInfos, AllocatePanicsOnMemory(r, info)
      PROVE  OwnershipInvariant'
  BY <1>2, LeakOwnership DEF AllocatePanicsOnMemory, ClientRuns
<1>3. ASSUME NEW r \in Res, NEW p \in Ptrs, NEW s \in Slots, NEW info \in CreateInfos,
             AllocatePanicsOnBind(r, p, s, info)
      PROVE  OwnershipInvariant'
  BY <1>3, LeakOwnership DEF AllocatePanicsOnBind, ClientRuns
<1>4. ASSUME NEW m \in Mas, DropHandle(m)
      PROVE  OwnershipInvariant'
  <2>1. pc = "idle" /\ UNCHANGED <<moves, pc, todo, old>>
    BY <1>4 DEF DropHandle, ClientRuns
  <2>2. managed_allocations' \subseteq managed_allocations
    BY <1>4 DEF DropHandle, DropReferences
  <2>3. CASE FreeResource(m)
    BY <2>1, <2>2, <2>3, FreeOwnership
  <2>4. CASE UNCHANGED <<loc, mem, objects, bound, imageLayout, ma>>
    BY <2>1, <2>2, <2>4, QuietOwnership
  <2> QED BY <1>4, <2>3, <2>4 DEF DropHandle
<1>5. ASSUME NEW m \in Mas, Free(m)
      PROVE  OwnershipInvariant'
  BY <1>5, FreeOwnership DEF Free, ClientRuns
<1>6. ASSUME NEW m \in Mas, transition_image(m)
      PROVE  OwnershipInvariant'
  BY <1>6, TransitionOwnership
<1>7. ASSUME NEW m \in Mas,
             \/ CloneHandle(m)
             \/ MapBegin(m)
             \/ \E k \in 0 .. MaxMaps : DropHandlePanics(m, k)
      PROVE  OwnershipInvariant'
  BY <1>7, QuietOwnership DEF CloneHandle, MapBegin, DropHandlePanics
<1>8. ASSUME \/ \E i \in 1 .. MaxMaps, d \in Data : MapWrite(i, d)
             \/ MapEnd
             \/ \E k \in 1 .. MaxMaps : ClosurePanics(k)
             \/ CloneAllocatorHandle
      PROVE  OwnershipInvariant'
  BY <1>8, QuietOwnership DEF MapWrite, MapEnd, ClosurePanics, CloneAllocatorHandle
<1>9. CASE DropAllocatorHandle
  BY <1>9, QuietOwnership DEF DropAllocatorHandle, DropReferences
<1>10. CASE DefragBegin
  <2>1. moves = {} /\ todo = {} /\ old = {}
    BY <1>10, NoPassWhenIdle DEF DefragBegin, ClientRuns
  <2>2. UNCHANGED <<loc, moves, objects, bound, ma, todo, old>> /\ pc' = "begin_pass"
    BY <1>10 DEF DefragBegin
  <2>3. Live' = Live /\ Allocated' = Allocated
    BY <2>2 DEF Live, Allocated
  <2>4. ListLiveInDefrag'
    BY <1>10, <2>3 DEF DefragBegin, Retained, ListLiveInDefrag, Live, Inv, TypeOK
  <2> QED
    BY <2>1, <2>2, <2>3, <2>4 DEF Inv, OwnershipInvariant, AllocationsDisjoint,
       MemoryNeverShared, LiveResourcesBound, PassWellFormed, OldIsOld
<1> QED
  BY <1>1, <1>2, <1>3, <1>4, <1>5, <1>6, <1>7, <1>8, <1>9, <1>10 DEF Client

(* VMA's moves go into pointers and slots nobody has.                      *)
LEMMA BeginPassOwnership ==
  ASSUME Inv, NEW plan \in SUBSET Candidates,
         NEW targets \in [{mv.dst : mv \in plan} -> FreeSlots],
         BeginPass(plan, targets)
  PROVE  OwnershipInvariant'
<1>0. /\ TypeOK /\ plan \subseteq Candidates
      /\ \A mv \in plan : targets[mv.dst] \in FreeSlots /\ targets[mv.dst] # NoSlot
      /\ \A mv, nv \in plan : mv # nv => /\ mv.src # nv.src
                                         /\ mv.dst # nv.dst
                                         /\ targets[mv.dst] # targets[nv.dst]
  BY DEF Inv, BeginPass, vmaBeginDefragmentationPass, PassPlan, FreeSlots, Slots, NoSlot
<1>1. /\ loc' = [p \in Ptrs |-> IF \E mv \in plan : mv.dst = p
                                THEN targets[p] ELSE loc[p]]
      /\ moves' = plan /\ todo' = plan /\ old' = {} /\ pc' = "moves"
      /\ pc = "begin_pass"
      /\ UNCHANGED <<objects, bound, ma, managed_allocations>>
  BY DEF BeginPass, vmaBeginDefragmentationPass
<1>2. /\ \A mv \in plan : mv.src \in Allocated /\ mv.dst \in Ptrs /\ mv.dst \notin Allocated
      /\ Live' = Live
  BY <1>1 DEF Candidates, Live
<1>3. Allocated' = Allocated \cup {mv.dst : mv \in plan}
  BY <1>0, <1>1, <1>2 DEF Allocated
<1>4. \A p \in Allocated : p \in Ptrs /\ loc'[p] = loc[p]
  BY <1>1, <1>2 DEF Allocated
<1>5. \A mv \in plan : loc'[mv.dst] = targets[mv.dst]
  BY <1>1, <1>2
<1>6. AllocationsDisjoint'
  <2> SUFFICES ASSUME NEW p \in Allocated', NEW q \in Allocated', p # q
               PROVE  loc'[p] # loc'[q]
    BY DEF AllocationsDisjoint
  <2>1. \A a \in Allocated, mv \in plan : loc'[a] # loc'[mv.dst]
    BY <1>0, <1>4, <1>5 DEF FreeSlots
  <2>2. CASE p \in Allocated /\ q \in Allocated
    BY <2>2, <1>4 DEF Inv, OwnershipInvariant, AllocationsDisjoint
  <2>3. CASE p \in Allocated /\ q \notin Allocated
    BY <2>1, <2>3, <1>3
  <2>4. CASE p \notin Allocated /\ q \in Allocated
    BY <2>1, <2>4, <1>3
  <2>5. CASE p \notin Allocated /\ q \notin Allocated
    BY <2>5, <1>0, <1>3, <1>5
  <2> QED BY <2>2, <2>3, <2>4, <2>5
<1>7. MemoryNeverShared'
  BY <1>1, <1>2, <1>3, <1>4 DEF Inv, OwnershipInvariant, MemoryNeverShared
<1>8. LiveResourcesBound'
  BY <1>1, <1>2 DEF Inv, OwnershipInvariant, LiveResourcesBound
<1>9. PassWellFormed'
  <2>1. \A m \in Live : ma[m].alloc \in Allocated
    BY DEF Inv, OwnershipInvariant, MemoryNeverShared
  <2> QED BY <1>0, <1>1, <1>2, <1>3, <2>1 DEF PassWellFormed
<1>10. OldIsOld' /\ ListLiveInDefrag'
  BY <1>1, <1>2 DEF Inv, OwnershipInvariant, OldIsOld, ListLiveInDefrag
<1> QED BY <1>6, <1>7, <1>8, <1>9, <1>10 DEF OwnershipInvariant

(* Recording a move replaces a resource's object by a new one, and the old *)
(* object joins those to destroy.                                          *)
LEMMA RecordMoveOwnership ==
  ASSUME Inv, NEW mv \in Moves, NEW m \in Mas, NEW r \in Res, RecordMove(mv, m, r)
  PROVE  OwnershipInvariant'
<1> DEFINE dst == Destination(mv)
<1>0. TypeOK /\ pc = "moves" /\ m \in Entries(mv) /\ mv \in todo
  BY DEF Inv, RecordMove
<1>1. m \in Live /\ dst \in Slots /\ dst # NoSlot
  BY <1>0, EntryLive, DestinationIsSlot DEF Slots, NoSlot
<1>2. /\ r \notin objects /\ objects' = objects \cup {r}
      /\ bound' = [bound EXCEPT ![r] = dst]
      /\ old' = old \cup {ma[m].res}
      /\ ma' = [ma EXCEPT ![m] = [ma[m] EXCEPT !.res = r, !.mem_offset = dst]]
      /\ todo' = todo \ {mv}
      /\ UNCHANGED <<loc, moves, managed_allocations, pc>>
  BY DEF RecordMove, CreateBound, vmaVars, LeftBehind
<1>3. /\ ma[m] \in ManagedAllocations
      /\ ma \in [Mas -> ManagedAllocations \cup {NoMa}]
      /\ bound \in [Res -> Slots \cup {NoSlot}]
  BY <1>0, <1>1, LiveTyped, TypeConjuncts
<1>4. /\ ma'[m].res = r /\ ma'[m].alloc = ma[m].alloc /\ ma'[m].freed = ma[m].freed
      /\ \A n \in Mas : n # m => ma'[n] = ma[n]
  BY <1>2, <1>3 DEF ManagedAllocations
<1>5. Live' = Live /\ Allocated' = Allocated
  BY <1>2, <1>4 DEF Live, Allocated
<1>6. \A n \in Live : ma[n].res \in objects /\ ma[n].res # r /\ n \in Mas
  BY <1>2 DEF Inv, OwnershipInvariant, MemoryNeverShared, Live
<1>7. AllocationsDisjoint'
  BY <1>2, <1>5 DEF Inv, OwnershipInvariant, AllocationsDisjoint
<1>8. MemoryNeverShared'
  BY <1>2, <1>4, <1>5, <1>6 DEF Inv, OwnershipInvariant, MemoryNeverShared
<1>9. LiveResourcesBound'
  BY <1>1, <1>2, <1>3, <1>4, <1>5, <1>6 DEF Inv, OwnershipInvariant, LiveResourcesBound
<1>10. PassWellFormed'
  <2>1. \A n \in Live : ma'[n].alloc = ma[n].alloc
    BY <1>4, <1>6
  <2> QED BY <1>0, <1>2, <1>5, <2>1 DEF Inv, OwnershipInvariant, PassWellFormed
<1>11. OldIsOld'
  <2>1. old \subseteq objects /\ r \notin old /\ ma[m].res # r
    BY <1>1, <1>2, <1>6 DEF Inv, OwnershipInvariant, OldIsOld
  <2>2. old' \subseteq objects'
    BY <1>1, <1>2, <1>6, <2>1
  <2>3. ASSUME NEW n \in Live PROVE ma'[n].res \notin old'
    <3>1. CASE n = m
      BY <1>2, <1>4, <2>1, <3>1
    <3>2. CASE n # m
      BY <1>1, <1>2, <1>4, <1>6, <3>2 DEF Inv, OwnershipInvariant, OldIsOld, MemoryNeverShared
    <3> QED BY <3>1, <3>2
  <2> QED BY <1>0, <1>2, <1>5, <2>2, <2>3 DEF OldIsOld
<1>12. ListLiveInDefrag'
  BY <1>2, <1>5 DEF Inv, OwnershipInvariant, ListLiveInDefrag
<1> QED BY <1>7, <1>8, <1>9, <1>10, <1>11, <1>12 DEF OwnershipInvariant

(* The objects destroyed after the wait are the old ones, nobody's.        *)
LEMMA DestroyOldOwnership ==
  ASSUME Inv, WaitThenDestroyOld
  PROVE  OwnershipInvariant'
<1>1. /\ objects' = objects \ old
      /\ bound' = [r \in Res |-> IF r \in old THEN NoSlot ELSE bound[r]]
      /\ old' = {} /\ pc = "wait" /\ pc' = "end_pass"
      /\ UNCHANGED <<loc, moves, ma, managed_allocations, todo>>
  BY DEF WaitThenDestroyOld, Destroy, vmaVars
<1>2. Live' = Live /\ Allocated' = Allocated
  BY <1>1 DEF Live, Allocated
<1>3. \A m \in Live : ma[m].res \notin old /\ ma[m].res \in Res
  BY LiveTyped DEF Inv, OwnershipInvariant, OldIsOld
<1>4. AllocationsDisjoint' /\ MemoryNeverShared'
  BY <1>1, <1>2, <1>3 DEF Inv, OwnershipInvariant, AllocationsDisjoint, MemoryNeverShared
<1>5. LiveResourcesBound'
  BY <1>1, <1>2, <1>3 DEF Inv, OwnershipInvariant, LiveResourcesBound
<1>6. PassWellFormed' /\ OldIsOld' /\ ListLiveInDefrag'
  BY <1>1, <1>2 DEF Inv, OwnershipInvariant, PassWellFormed, OldIsOld, ListLiveInDefrag
<1> QED BY <1>4, <1>5, <1>6 DEF OwnershipInvariant

(* Ending the pass gives each moved allocation the slot of its temporary   *)
(* allocation, which is gone: the slots stay disjoint.                     *)
LEMMA EndPassOwnership ==
  ASSUME Inv, EndPass
  PROVE  OwnershipInvariant'
<1>0. /\ TypeOK /\ pc = "end_pass"
      /\ loc \in [Ptrs -> Slots \cup {NoSlot}]
      /\ moves' = {} /\ pc' \in {"begin_pass", "end"}
      /\ UNCHANGED <<objects, bound, ma, managed_allocations, todo, old>>
  BY TypeConjuncts DEF Inv, EndPass, vmaEndDefragmentationPass, deviceVars
<1>1. /\ \A mv \in moves : mv.src \in Allocated /\ mv.dst \in Allocated
      /\ \A mv, nv \in moves : mv.src # nv.dst
      /\ \A mv, nv \in moves : mv # nv => mv.src # nv.src /\ mv.dst # nv.dst
      /\ todo \subseteq moves
  BY DEF Inv, OwnershipInvariant, PassWellFormed
<1>2. \A mv \in moves : mv.src \in Ptrs /\ mv.dst \in Ptrs
  BY <1>1 DEF Allocated
<1>3. loc' = [p \in Ptrs |->
                IF p \in Sources
                THEN loc[(CHOOSE mv \in moves : mv.src = p).dst]
                ELSE IF p \in Destinations THEN NoSlot ELSE loc[p]]
  BY DEF EndPass, vmaEndDefragmentationPass
<1>4. ASSUME NEW mv \in moves
      PROVE  loc'[mv.src] = loc[mv.dst] /\ loc'[mv.dst] = NoSlot
  <2>1. mv.src \in Sources /\ mv.dst \in Destinations /\ mv.dst \notin Sources
    BY <1>1 DEF Sources, Destinations
  <2>2. (CHOOSE nv \in moves : nv.src = mv.src) = mv
    BY <1>1
  <2> QED BY <1>2, <1>3, <2>1, <2>2
<1>5. ASSUME NEW p \in Ptrs, p \notin Sources, p \notin Destinations
      PROVE  loc'[p] = loc[p]
  BY <1>3, <1>5
<1>6. Allocated' \subseteq Allocated /\ \A p \in Allocated' : p \notin Destinations
  <2>1. ASSUME NEW p \in Ptrs, loc'[p] # NoSlot
        PROVE  loc[p] # NoSlot /\ p \notin Destinations
    <3>1. CASE p \in Sources
      BY <1>1, <3>1 DEF Sources, Destinations, Allocated
    <3>2. CASE p \notin Sources
      BY <1>3, <2>1, <3>2
    <3> QED BY <3>1, <3>2
  <2> QED BY <2>1 DEF Allocated
<1>7. AllocationsDisjoint'
  <2> SUFFICES ASSUME NEW p \in Allocated', NEW q \in Allocated', p # q
               PROVE  loc'[p] # loc'[q]
    BY DEF AllocationsDisjoint
  <2>0. p \in Allocated /\ q \in Allocated /\ p \in Ptrs /\ q \in Ptrs
        /\ p \notin Destinations /\ q \notin Destinations
    BY <1>6 DEF Allocated
  <2>1. \A a, b \in Allocated : a # b => loc[a] # loc[b]
    BY DEF Inv, OwnershipInvariant, AllocationsDisjoint
  <2>2. CASE p \in Sources /\ q \in Sources
    <3>1. PICK mv \in moves, nv \in moves : mv.src = p /\ nv.src = q
      BY <2>2 DEF Sources
    <3> QED BY <1>1, <1>4, <2>1, <3>1
  <2>3. CASE p \in Sources /\ q \notin Sources
    <3>1. PICK mv \in moves : mv.src = p
      BY <2>3 DEF Sources
    <3>2. loc'[q] = loc[q] /\ mv.dst # q
      BY <1>5, <2>0, <2>3, <3>1 DEF Destinations
    <3> QED BY <1>1, <1>4, <2>0, <2>1, <3>1, <3>2
  <2>4. CASE p \notin Sources /\ q \in Sources
    <3>1. PICK mv \in moves : mv.src = q
      BY <2>4 DEF Sources
    <3>2. loc'[p] = loc[p] /\ mv.dst # p
      BY <1>5, <2>0, <2>4, <3>1 DEF Destinations
    <3> QED BY <1>1, <1>4, <2>0, <2>1, <3>1, <3>2
  <2>5. CASE p \notin Sources /\ q \notin Sources
    BY <1>5, <2>0, <2>1, <2>5
  <2> QED BY <2>2, <2>3, <2>4, <2>5
<1>8. Live' = Live
  BY <1>0 DEF Live
<1>9. \A m \in Live : ma[m].alloc \in Allocated'
  <2> SUFFICES ASSUME NEW m \in Live PROVE loc'[ma[m].alloc] # NoSlot /\ ma[m].alloc \in Ptrs
    BY DEF Allocated
  <2>1. ma[m].alloc \in Allocated /\ ma[m].alloc \in Ptrs /\ loc[ma[m].alloc] # NoSlot
    BY DEF Inv, OwnershipInvariant, MemoryNeverShared, Allocated
  <2>2. ma[m].alloc \notin Destinations
    BY DEF Inv, OwnershipInvariant, PassWellFormed, Destinations
  <2>3. CASE ma[m].alloc \in Sources
    <3>1. PICK mv \in moves : mv.src = ma[m].alloc
      BY <2>3 DEF Sources
    <3> QED BY <1>1, <1>4, <2>1, <3>1 DEF Allocated
  <2>4. CASE ma[m].alloc \notin Sources
    BY <1>5, <2>1, <2>2, <2>4
  <2> QED BY <2>3, <2>4, <2>1
<1>10. MemoryNeverShared'
  <2>1. \A m \in Live' : ma'[m].alloc \in Allocated' /\ ma'[m].res \in objects'
    BY <1>0, <1>8, <1>9 DEF Inv, OwnershipInvariant, MemoryNeverShared
  <2>2. \A m, n \in Live' : m # n => ma'[m].alloc # ma'[n].alloc /\ ma'[m].res # ma'[n].res
    BY <1>0, <1>8 DEF Inv, OwnershipInvariant, MemoryNeverShared
  <2> QED BY <1>7, <2>1, <2>2 DEF MemoryNeverShared, AllocationsDisjoint
<1>11. LiveResourcesBound'
  BY <1>0, <1>8 DEF Inv, OwnershipInvariant, LiveResourcesBound
<1>12. todo = {} /\ old = {}
  BY <1>0 DEF Inv, OwnershipInvariant, PassWellFormed, OldIsOld
<1>13. PassWellFormed' /\ OldIsOld' /\ ListLiveInDefrag'
  BY <1>0, <1>8, <1>12 DEF Inv, OwnershipInvariant, PassWellFormed, OldIsOld, ListLiveInDefrag
<1> QED BY <1>7, <1>10, <1>11, <1>13 DEF OwnershipInvariant

(* A panic out of defrag ends the pass: what it leaves behind is nobody's. *)
LEMMA UnwindOwnership ==
  ASSUME Inv, Unwind,
         \/ UNCHANGED <<objects, bound>>
         \/ \E r \in Res, l \in Layouts : CreateBound(r, NoSlot, l)
  PROVE  OwnershipInvariant'
<1>1. /\ moves' = {} /\ todo' = {} /\ old' = {} /\ pc' = "idle"
      /\ UNCHANGED <<loc, ma, managed_allocations>>
  BY DEF Unwind, vmaEndDefragmentation
<1>2. Live' = Live /\ Allocated' = Allocated
  BY <1>1 DEF Live, Allocated
<1>3. \A m \in Live : ma[m].res \in objects /\ ma[m].res \in Res
  BY LiveTyped DEF Inv, OwnershipInvariant, MemoryNeverShared
<1>4. objects \subseteq objects' /\ \A r \in objects \cap Res : bound'[r] = bound[r]
  BY TypeConjuncts DEF CreateBound, Inv
<1>5. AllocationsDisjoint' /\ MemoryNeverShared' /\ LiveResourcesBound'
  BY <1>1, <1>2, <1>3, <1>4 DEF Inv, OwnershipInvariant, AllocationsDisjoint,
     MemoryNeverShared, LiveResourcesBound
<1>6. PassWellFormed' /\ OldIsOld' /\ ListLiveInDefrag'
  BY <1>1 DEF PassWellFormed, OldIsOld, ListLiveInDefrag
<1> QED BY <1>5, <1>6 DEF OwnershipInvariant

(* The remaining steps only advance pc, outside or at the edge of a pass.  *)
LEMMA AdvanceOwnership ==
  ASSUME Inv, NoMoreMoves \/ Submit \/ DefragEnd
  PROVE  OwnershipInvariant'
<1>1. UNCHANGED <<loc, objects, bound, ma, managed_allocations, todo, old>>
  BY DEF NoMoreMoves, Submit, DefragEnd, vmaVars, deviceVars
<1>2. Live' = Live /\ Allocated' = Allocated
  BY <1>1 DEF Live, Allocated
<1>3. \/ pc = "begin_pass" /\ pc' = "end" /\ UNCHANGED moves
      \/ pc = "moves" /\ pc' = "wait" /\ todo = {} /\ UNCHANGED moves
      \/ pc = "end" /\ pc' = "idle" /\ moves' = {}
  BY DEF NoMoreMoves, Submit, DefragEnd, vmaVars, vmaEndDefragmentation
<1>4. pc = "end" => todo = {}
  BY DEF Inv, OwnershipInvariant, PassWellFormed
<1> QED
  BY <1>1, <1>2, <1>3, <1>4 DEF Inv, OwnershipInvariant, AllocationsDisjoint,
     MemoryNeverShared, LiveResourcesBound, PassWellFormed, OldIsOld, ListLiveInDefrag

LEMMA OwnershipStep == Inv /\ [Next]_vars => OwnershipInvariant'
<1> SUFFICES ASSUME Inv, [Next]_vars PROVE OwnershipInvariant'
  OBVIOUS
<1>0. TypeOK
  BY DEF Inv
<1>1. CASE Client
  BY <1>1, ClientOwnershipStep
<1>2. CASE Defrag
  <2>1. ASSUME NEW plan \in SUBSET Candidates,
               NEW targets \in [{mv.dst : mv \in plan} -> FreeSlots],
               BeginPass(plan, targets)
        PROVE  OwnershipInvariant'
    BY <2>1, BeginPassOwnership
  <2>2. ASSUME NEW mv \in Moves, NEW m \in Mas, NEW r \in Res, RecordMove(mv, m, r)
        PROVE  OwnershipInvariant'
    BY <2>2, RecordMoveOwnership
  <2>3. ASSUME NEW mv \in Moves, LookupPanics(mv)
        PROVE  OwnershipInvariant'
    BY <2>3, UnwindOwnership DEF LookupPanics
  <2>4. CASE NoMoreMoves \/ Submit \/ DefragEnd
    BY <2>4, AdvanceOwnership
  <2>5. CASE WaitThenDestroyOld
    BY <2>5, DestroyOldOwnership
  <2>6. CASE EndPass
    BY <2>6, EndPassOwnership
  <2> QED BY <1>2, <2>1, <2>2, <2>3, <2>4, <2>5, <2>6 DEF Defrag
<1>3. CASE DefragPanics
  <2>1. CASE CreatePanics \/ SubmitPanics \/ WaitPanics
    BY <2>1, UnwindOwnership DEF CreatePanics, SubmitPanics, WaitPanics
  <2>2. ASSUME NEW mv \in Moves, NEW m \in Mas, NEW r \in Res, BindPanics(mv, m, r)
        PROVE  OwnershipInvariant'
    <3>1. ma[m].info.initial \in Layouts
      BY <1>0, <2>2, EntryLive, LiveTyped, InitialLayoutType DEF BindPanics
    <3> QED BY <2>2, <3>1, UnwindOwnership DEF BindPanics
  <2> QED BY <1>3, <2>1, <2>2 DEF DefragPanics
<1>4. CASE Gpu \/ GpuDone
  BY <1>4, QuietOwnership DEF Gpu, GpuDone, GpuExecute, GpuSignal, managedVars
<1>5. CASE Terminated \/ UNCHANGED vars
  BY <1>5, QuietOwnership DEF Terminated, vars, vmaVars, deviceVars, managedVars
<1> QED BY <1>1, <1>2, <1>3, <1>4, <1>5 DEF Next

LEMMA InvInductive == Spec => []Inv
<1>1. Inv /\ [Next]_vars => Inv'
  BY TypeStep, OwnershipStep DEF Inv
<1> QED BY InitInv, <1>1, PTL DEF Spec

(* Every reachable state is well typed, whichever calls panic.             *)
THEOREM TypeCorrect == Spec => []TypeOK
<1>1. Inv => TypeOK
  BY DEF Inv
<1> QED BY InvInductive, <1>1, PTL

(* No two live resources ever share an allocation, an object or memory,    *)
(* and no live resource has lost its own: not after any panic, any         *)
(* interleaving of map closures, or any plan VMA comes up with.            *)
THEOREM MemorySafety == Spec => []MemoryNeverShared
<1>1. Inv => MemoryNeverShared
  BY DEF Inv, OwnershipInvariant
<1> QED BY InvInductive, <1>1, PTL
=============================================================================
