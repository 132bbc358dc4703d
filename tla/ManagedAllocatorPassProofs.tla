---------------------- MODULE ManagedAllocatorPassProofs ----------------------
(***************************************************************************)
(* Theorems about ManagedAllocator's defragmentation passes: the order of  *)
(* recording, submitting, waiting and destroying, and what a pass that is  *)
(* not cut short by a panic leaves in place.                               *)
(***************************************************************************)
EXTENDS ManagedAllocatorHandleProofs

(* A client step records, submits and moves nothing.                       *)
LEMMA ClientDevice ==
  ASSUME Client
  PROVE  /\ pc = "idle" /\ vma = "ready" /\ pc' \in {"idle", "begin_pass"}
         /\ UNCHANGED <<cmds, commandBuffer, moves, todo, old>>
         /\ fence' \in {fence, "destroyed"}
<1> DEFINE Quiet == /\ UNCHANGED <<cmds, commandBuffer, moves, todo, old>>
                    /\ fence' \in {fence, "destroyed"}
<1> USE DEF vmaVars, deviceVars, managedVars
<1>1. ASSUME NEW m \in Mas, NEW r \in Res, NEW p \in Ptrs, NEW s \in Slots,
             NEW info \in CreateInfos, Allocate(m, r, p, s, info)
      PROVE  Quiet
  BY <1>1 DEF Allocate
<1>2. ASSUME NEW r \in Res, NEW info \in CreateInfos,
             \/ AllocatePanicsOnMemory(r, info)
             \/ \E p \in Ptrs, s \in Slots : AllocatePanicsOnBind(r, p, s, info)
      PROVE  Quiet
  BY <1>2 DEF AllocatePanicsOnMemory, AllocatePanicsOnBind
<1>3. ASSUME NEW m \in Mas, CloneHandle(m) \/ DropHandle(m) \/ Free(m)
      PROVE  Quiet
  BY <1>3 DEF CloneHandle, DropHandle, Free, DropReferences
<1>4. ASSUME NEW m \in Mas,
             \/ MapBegin(m) \/ transition_image(m)
             \/ \E k \in 0 .. MaxMaps : DropHandlePanics(m, k)
      PROVE  Quiet
  BY <1>4 DEF MapBegin, transition_image, DropHandlePanics
<1>5. ASSUME \/ \E i \in 1 .. MaxMaps, d \in Data : MapWrite(i, d)
             \/ MapEnd
             \/ \E k \in 1 .. MaxMaps : ClosurePanics(k)
             \/ CloneAllocatorHandle \/ DropAllocatorHandle \/ DefragBegin
      PROVE  Quiet
  BY <1>5 DEF MapWrite, MapEnd, ClosurePanics, CloneAllocatorHandle, DropAllocatorHandle,
     DropReferences, DefragBegin
<1>6. Quiet
  BY <1>1, <1>2, <1>3, <1>4, <1>5 DEF Client
<1> QED BY <1>6, ClientListShape
-----------------------------------------------------------------------------
(* The GPU has work only while the mover waits for it, the signaled fence  *)
(* means that it has finished, and the objects of a recorded copy exist.   *)
GpuInv ==
  /\ commandBuffer = "pending" => pc = "wait"
  /\ fence = "signaled" => pc = "wait" /\ commandBuffer = "ready" /\ cmds = {}
  /\ pc = "moves" => commandBuffer = "recording"
  /\ commandBuffer = "pending" \/ pc = "moves" =>
       \A c \in cmds : {c.from, c.to} \subseteq objects

LEMMA RecordMoveGpu ==
  ASSUME Inv, GpuInv, NEW mv \in Moves, NEW m \in Mas, NEW r \in Res, RecordMove(mv, m, r)
  PROVE  GpuInv'
<1>1. /\ pc = "moves" /\ objects' = objects \cup {r}
      /\ cmds' = cmds \cup RecordedCopies(m, r, Destination(mv))
      /\ UNCHANGED <<commandBuffer, fence, pc>>
  BY DEF RecordMove, CreateBound
<1>2. m \in Live
  BY EntryLive DEF RecordMove
<1>3. ma[m].res \in objects
  BY <1>2 DEF Inv, OwnershipInvariant, MemoryNeverShared
<1>4. \A c \in RecordedCopies(m, r, Destination(mv)) : c.from = ma[m].res /\ c.to = r
  BY DEF RecordedCopies
<1>5. \A c \in cmds' : {c.from, c.to} \subseteq objects'
  BY <1>1, <1>3, <1>4 DEF GpuInv
<1> QED BY <1>1, <1>5 DEF GpuInv

LEMMA DefragGpu ==
  ASSUME Inv, GpuInv, Defrag
  PROVE  GpuInv'
<1> USE DEF GpuInv
<1>1. ASSUME NEW plan \in SUBSET Candidates,
             NEW targets \in [{mv.dst : mv \in plan} -> FreeSlots],
             BeginPass(plan, targets)
      PROVE  GpuInv'
  BY <1>1 DEF BeginPass, BeginCommandBuffer
<1>2. ASSUME NEW mv \in Moves, NEW m \in Mas, NEW r \in Res, RecordMove(mv, m, r)
      PROVE  GpuInv'
  BY <1>2, RecordMoveGpu
<1>3. ASSUME NEW mv \in Moves, LookupPanics(mv)
      PROVE  GpuInv'
  BY <1>3 DEF LookupPanics, Unwind
<1>4. CASE Submit
  BY <1>4 DEF Submit, QueueSubmit
<1>5. CASE WaitThenDestroyOld
  BY <1>5 DEF WaitThenDestroyOld, FenceSignaled, ResetFences
<1>6. CASE NoMoreMoves \/ EndPass \/ DefragEnd
  BY <1>6 DEF NoMoreMoves, EndPass, DefragEnd, deviceVars
<1> QED BY <1>1, <1>2, <1>3, <1>4, <1>5, <1>6 DEF Defrag

LEMMA GpuInvStep ==
  ASSUME "wait" \notin Panics
  PROVE  Inv /\ GpuInv /\ [Next]_vars => GpuInv'
<1> SUFFICES ASSUME Inv, GpuInv, [Next]_vars PROVE GpuInv'
  OBVIOUS
<1>1. CASE Client
  BY <1>1, ClientDevice DEF GpuInv
<1>2. CASE Defrag
  BY <1>2, DefragGpu
<1>3. CASE DefragPanics
  BY <1>3 DEF DefragPanics, CreatePanics, BindPanics, SubmitPanics, WaitPanics, Unwind, GpuInv
<1>4. CASE Gpu
  BY <1>4 DEF Gpu, GpuExecute, managedVars, GpuInv
<1>5. CASE GpuDone
  BY <1>5 DEF GpuDone, GpuSignal, managedVars, GpuInv
<1>6. CASE Terminated \/ UNCHANGED vars
  BY <1>6 DEF Terminated, vars, deviceVars, managedVars, GpuInv
<1> QED BY <1>1, <1>2, <1>3, <1>4, <1>5, <1>6 DEF Next

LEMMA GpuInvariant ==
  ASSUME "wait" \notin Panics
  PROVE  Spec => []GpuInv
<1>1. Init => GpuInv
  BY DEF Init, DeviceInit, GpuInv
<1> QED BY <1>1, InvInductive, GpuInvStep, PTL DEF Spec

(* The objects the GPU works on exist, as long as no wait for the fence    *)
(* fails: every other call may panic, at any point of a pass.              *)
THEOREM NothingDestroyedInFlight ==
  ASSUME "wait" \notin Panics
  PROVE  Spec => []NoDestroyInFlight
<1>1. GpuInv => NoDestroyInFlight
  BY DEF GpuInv, NoDestroyInFlight
<1> QED BY <1>1, GpuInvariant, PTL
-----------------------------------------------------------------------------
(* From here on no panic cuts a pass short, and a bind does not fail; a    *)
(* map closure, the drop of a handle inside one, and VMA when it is out of *)
(* memory may still panic.                                                 *)
NoPassPanics == Panics \cap {"bind", "create", "submit", "wait"} = {}

LEMMA NoDefragPanics ==
  ASSUME NoPassPanics
  PROVE  ~DefragPanics
BY DEF NoPassPanics, DefragPanics, CreatePanics, BindPanics, SubmitPanics, WaitPanics

(* VMA knows the allocations of the live resources and, in a pass, its     *)
(* temporary ones, and no other.                                           *)
AllocationsAccounted == Allocated \subseteq {ma[m].alloc : m \in Live} \cup Destinations

LEMMA AccountedSource ==
  ASSUME Inv, ListInv, AllocationsAccounted, pc # "idle", NEW mv \in moves
  PROVE  \E m \in Live : ma[m].alloc = mv.src /\ Entries(mv) = {m}
<1>1. mv.src \in Allocated /\ mv.src \notin Destinations
  BY DEF Inv, OwnershipInvariant, PassWellFormed, Destinations
<1>2. PICK m \in Live : ma[m].alloc = mv.src
  BY <1>1 DEF AllocationsAccounted
<1>3. m \in managed_allocations
  BY DEF ListInv, ListComplete, VmaPhase
<1>4. \A n \in Entries(mv) : n = m
  BY <1>2, EntryLive DEF Inv, OwnershipInvariant, MemoryNeverShared, Entries
<1>5. m \in Entries(mv)
  BY <1>2, <1>3 DEF Entries
<1> QED BY <1>2, <1>4, <1>5

LEMMA LookupSucceeds ==
  ASSUME Inv, ListInv, AllocationsAccounted, NEW mv
  PROVE  ~LookupPanics(mv)
<1> SUFFICES ASSUME LookupPanics(mv) PROVE FALSE
  OBVIOUS
<1>1. pc = "moves" /\ mv \in todo /\ Entries(mv) = {}
  BY DEF LookupPanics
<1>2. mv \in moves
  BY <1>1 DEF Inv, OwnershipInvariant, PassWellFormed
<1> QED BY <1>1, <1>2, AccountedSource

(* What the end of a pass does to each allocation.                         *)
LEMMA EndPassLoc ==
  ASSUME Inv, EndPass
  PROVE  /\ \A mv \in moves : loc'[mv.src] = loc[mv.dst] /\ loc'[mv.dst] = NoSlot
         /\ \A p \in Ptrs : p \notin Sources /\ p \notin Destinations => loc'[p] = loc[p]
         /\ \A mv \in moves : mv.src \in Ptrs /\ mv.dst \in Ptrs
<1>1. /\ \A mv \in moves : mv.src \in Allocated /\ mv.dst \in Allocated
      /\ \A mv, nv \in moves : mv.src # nv.dst
      /\ \A mv, nv \in moves : mv # nv => mv.src # nv.src /\ mv.dst # nv.dst
  BY DEF Inv, OwnershipInvariant, PassWellFormed
<1>2. \A mv \in moves : mv.src \in Ptrs /\ mv.dst \in Ptrs
  BY <1>1 DEF Allocated
<1>3. loc' = [p \in Ptrs |->
                IF p \in Sources
                THEN loc[(CHOOSE mv \in moves : mv.src = p).dst]
                ELSE IF p \in Destinations THEN NoSlot ELSE loc[p]]
  BY DEF EndPass, vmaEndDefragmentationPass
<1>4. ASSUME NEW mv \in moves
      PROVE  loc'[mv.src] = loc[mv.dst] /\ loc'[mv.dst] = NoSlot
  <2>1. mv.src \in Sources /\ mv.dst \in Destinations /\ mv.dst \notin Sources
    BY <1>1 DEF Sources, Destinations
  <2>2. (CHOOSE nv \in moves : nv.src = mv.src) = mv
    BY <1>1
  <2> QED BY <1>2, <1>3, <2>1, <2>2
<1> QED BY <1>2, <1>3, <1>4

LEMMA EndPassAllocated ==
  ASSUME Inv, EndPass
  PROVE  Allocated' = Allocated \ Destinations
<1>1. \A mv \in moves : mv.src \in Allocated /\ mv.dst \in Allocated /\ mv.src \notin Destinations
  BY DEF Inv, OwnershipInvariant, PassWellFormed, Destinations
<1> SUFFICES ASSUME NEW p \in Ptrs
             PROVE  loc'[p] # NoSlot <=> loc[p] # NoSlot /\ p \notin Destinations
  BY DEF Allocated
<1>2. CASE p \in Sources
  <2>1. PICK mv \in moves : mv.src = p
    BY <1>2 DEF Sources
  <2> QED BY <1>1, <2>1, EndPassLoc DEF Allocated
<1>3. CASE p \in Destinations
  BY <1>3, EndPassLoc DEF Destinations
<1>4. CASE p \notin Sources /\ p \notin Destinations
  BY <1>4, EndPassLoc
<1> QED BY <1>2, <1>3, <1>4

(* Free gives one resource's object, allocation and slot back.             *)
LEMMA FreeParts ==
  ASSUME Inv, NEW m \in Mas, FreeResource(m), m \in Live
  PROVE  /\ Live' = Live \ {m}
         /\ \A n \in Live' : ma'[n] = ma[n] /\ ma[n].alloc # ma[m].alloc /\ ma[n].res # ma[m].res
         /\ Allocated' = Allocated \ {ma[m].alloc}
         /\ objects' = objects \ {ma[m].res}
         /\ loc' = [loc EXCEPT ![ma[m].alloc] = NoSlot]
         /\ mem' = [mem EXCEPT ![loc[ma[m].alloc]] = Undefined]
         /\ \A r \in Res \ {ma[m].res} : bound'[r] = bound[r] /\ imageLayout'[r] = imageLayout[r]
<1>1. Live' = Live \ {m} /\ \A n \in Live' : ma'[n] = ma[n]
  BY FreeLive
<1>2. Destroy({ma[m].res}) /\ vmaFreeMemory(ma[m].alloc)
  BY DEF FreeResource, Live
<1>3. loc \in [Ptrs -> Slots \cup {NoSlot}]
  BY TypeConjuncts DEF Inv
<1>4. Allocated' = Allocated \ {ma[m].alloc}
  BY <1>2, <1>3 DEF vmaFreeMemory, Allocated
<1> QED BY <1>1, <1>2, <1>4 DEF Destroy, vmaFreeMemory, Inv, OwnershipInvariant, MemoryNeverShared

(* What a client step can do to the resources.                             *)
LEMMA ClientShape ==
  ASSUME Client
  PROVE  \/ \E m \in Mas, r \in Res, p \in Ptrs, s \in Slots, info \in CreateInfos :
              Allocate(m, r, p, s, info)
         \/ \E r \in Res, info \in CreateInfos : AllocatePanicsOnMemory(r, info)
         \/ "bind" \in Panics
         \/ \E m \in Live : FreeResource(m)
         \/ \E m \in Mas : transition_image(m)
         \/ \E i \in 1 .. MaxMaps, d \in Data : MapWrite(i, d)
         \/ UNCHANGED <<loc, mem, objects, bound, imageLayout, ma>>
<1> DEFINE Untouched == UNCHANGED <<loc, mem, objects, bound, imageLayout, ma>>
<1> USE DEF vmaVars, deviceVars, managedVars
<1>1. ASSUME NEW m \in Mas, DropHandle(m) \/ Free(m)
      PROVE  (m \in Live /\ FreeResource(m)) \/ Untouched
  BY <1>1 DEF DropHandle, Free, FreeResource, Live
<1>2. ASSUME NEW m \in Mas,
             \/ CloneHandle(m) \/ MapBegin(m)
             \/ \E k \in 0 .. MaxMaps : DropHandlePanics(m, k)
      PROVE  Untouched
  BY <1>2 DEF CloneHandle, MapBegin, DropHandlePanics
<1>3. ASSUME \/ MapEnd
             \/ \E k \in 1 .. MaxMaps : ClosurePanics(k)
             \/ CloneAllocatorHandle \/ DropAllocatorHandle \/ DefragBegin
      PROVE  Untouched
  BY <1>3 DEF MapEnd, ClosurePanics, CloneAllocatorHandle, DropAllocatorHandle, DefragBegin
<1>4. ASSUME NEW r \in Res, NEW p \in Ptrs, NEW s \in Slots, NEW info \in CreateInfos,
             AllocatePanicsOnBind(r, p, s, info)
      PROVE  "bind" \in Panics
  BY <1>4 DEF AllocatePanicsOnBind
<1> QED BY <1>1, <1>2, <1>3, <1>4 DEF Client

(* A new resource's parts, and that the others keep theirs.                *)
LEMMA AllocateParts ==
  ASSUME Inv, ListInv, NEW m \in Mas, NEW r \in Res, NEW p \in Ptrs, NEW s \in Slots,
         NEW info \in CreateInfos, Allocate(m, r, p, s, info)
  PROVE  /\ Live' = Live \cup {m} /\ m \notin Live
         /\ \A n \in Mas \ {m} : ma'[n] = ma[n]
         /\ ma'[m].res = r /\ ma'[m].alloc = p /\ ma'[m].mem_offset = s
         /\ ma'[m].layout = info.initial /\ ma'[m].info = info
         /\ \A n \in Live : ma[n].res # r /\ ma[n].alloc # p
         /\ Allocated' = Allocated \cup {p}
         /\ objects' = objects \cup {r}
         /\ loc' = [loc EXCEPT ![p] = s]
         /\ s \in FreeSlots
         /\ bound' = [bound EXCEPT ![r] = s]
         /\ imageLayout' = [imageLayout EXCEPT ![r] = info.initial]
<1>1. /\ Live' = Live \cup {m}
      /\ \A n \in Mas \ {m} : ma'[n] = ma[n]
      /\ ma'[m] = [res |-> r, alloc |-> p, info |-> info, layout |-> info.initial,
                   mem_offset |-> s, freed |-> FALSE]
  BY AllocateLive
<1>2. CreateBound(r, s, info.initial) /\ vmaAllocateMemory(p, s)
  BY DEF Allocate
<1>3. \A n \in Live : ma[n].res # r /\ ma[n].alloc # p
  BY <1>2 DEF CreateBound, vmaAllocateMemory, Inv, OwnershipInvariant, MemoryNeverShared
<1>4. loc \in [Ptrs -> Slots \cup {NoSlot}] /\ s # NoSlot
  BY TypeConjuncts DEF Inv, Slots, NoSlot
<1>5. Allocated' = Allocated \cup {p}
  BY <1>2, <1>4 DEF vmaAllocateMemory, Allocated
<1>6. /\ ma'[m].res = r /\ ma'[m].alloc = p /\ ma'[m].mem_offset = s
      /\ ma'[m].layout = info.initial /\ ma'[m].info = info
  BY <1>1
<1>7. /\ objects' = objects \cup {r}
      /\ bound' = [bound EXCEPT ![r] = s]
      /\ imageLayout' = [imageLayout EXCEPT ![r] = info.initial]
      /\ loc' = [loc EXCEPT ![p] = s] /\ s \in FreeSlots
  BY <1>2 DEF CreateBound, vmaAllocateMemory
<1>8. m \notin Live
  <2>1. handles[m] \in Nat /\ StrongCount(m) = 0 /\ vma = "ready"
    BY TypeConjuncts DEF Inv, Allocate, ClientRuns
  <2>2. m \notin managed_allocations
    BY <2>1 DEF StrongCount, InList
  <2> QED BY <2>1, <2>2 DEF ListInv, ListComplete
<1> QED BY <1>1, <1>3, <1>5, <1>6, <1>7, <1>8

LEMMA ClientAccounted ==
  ASSUME NoPassPanics, Inv, ListInv, AllocationsAccounted, Client
  PROVE  AllocationsAccounted'
<1>1. UNCHANGED moves /\ Destinations' = Destinations
  BY ClientDevice DEF Destinations
<1> USE DEF AllocationsAccounted
<1>2. ASSUME NEW m \in Mas, NEW r \in Res, NEW p \in Ptrs, NEW s \in Slots,
             NEW info \in CreateInfos, Allocate(m, r, p, s, info)
      PROVE  AllocationsAccounted'
  <2>1. /\ Live' = Live \cup {m} /\ m \notin Live /\ Allocated' = Allocated \cup {p}
        /\ ma'[m].alloc = p
        /\ \A n \in Mas \ {m} : ma'[n] = ma[n]
    BY <1>2, AllocateParts
  <2> QED BY <1>1, <2>1 DEF Live
<1>3. ASSUME NEW m \in Live, FreeResource(m)
      PROVE  AllocationsAccounted'
  <2>1. /\ Live' = Live \ {m} /\ Allocated' = Allocated \ {ma[m].alloc}
        /\ \A n \in Live' : ma'[n] = ma[n]
    BY <1>3, FreeParts DEF Live
  <2> QED BY <1>1, <2>1
<1>4. CASE SameAllocations /\ UNCHANGED loc
  BY <1>1, <1>4 DEF SameAllocations, Allocated
<1>5. ASSUME NEW m \in Mas, transition_image(m)
      PROVE  AllocationsAccounted'
  BY <1>4, <1>5, TransitionSame DEF transition_image
<1>6. ASSUME \/ \E r \in Res, info \in CreateInfos : AllocatePanicsOnMemory(r, info)
             \/ \E i \in 1 .. MaxMaps, d \in Data : MapWrite(i, d)
             \/ UNCHANGED <<loc, mem, objects, bound, imageLayout, ma>>
      PROVE  AllocationsAccounted'
  BY <1>4, <1>6, SameMa DEF AllocatePanicsOnMemory, MapWrite, vmaVars, managedVars
<1> QED BY <1>2, <1>3, <1>5, <1>6, ClientShape DEF NoPassPanics

(* The steps of a defrag that neither panics nor touches the resources.    *)
QuietDefrag == NoMoreMoves \/ Submit \/ DefragEnd

LEMMA DefragShape ==
  ASSUME Inv, ListInv, AllocationsAccounted, Defrag
  PROVE  \/ \E plan \in SUBSET Candidates :
              \E targets \in [{mv.dst : mv \in plan} -> FreeSlots] : BeginPass(plan, targets)
         \/ \E mv \in Moves, m \in Mas, r \in Res : RecordMove(mv, m, r)
         \/ WaitThenDestroyOld
         \/ EndPass
         \/ QuietDefrag
BY LookupSucceeds DEF Defrag, QuietDefrag

(* Quiet steps happen before the recording of a pass or after the last of  *)
(* it, and end a pass only if it has ended already.                        *)
LEMMA QuietDefragStep ==
  ASSUME Inv, QuietDefrag
  PROVE  UNCHANGED <<loc, mapCount, mem, moves, objects, bound, imageLayout, cmds, ma,
                     managed_allocations, handles, frames, todo, old>>
<1>1. pc = "end" => moves = {}
  BY DEF Inv, OwnershipInvariant, PassWellFormed
<1> QED BY <1>1 DEF QuietDefrag, NoMoreMoves, Submit, DefragEnd, vmaEndDefragmentation,
   vmaVars, deviceVars

(* A pass starts from new temporary allocations and leaves live resources  *)
(* where they are.                                                         *)
LEMMA BeginPassParts ==
  ASSUME Inv, NEW plan \in SUBSET Candidates,
         NEW targets \in [{mv.dst : mv \in plan} -> FreeSlots],
         BeginPass(plan, targets)
  PROVE  /\ moves' = plan /\ todo' = plan /\ old' = {} /\ pc = "begin_pass" /\ pc' = "moves"
         /\ Allocated' = Allocated \cup Destinations'
         /\ \A p \in Allocated : loc'[p] = loc[p]
         /\ FreeSlots' \subseteq FreeSlots
         /\ UNCHANGED <<ma, objects, bound, imageLayout, mem>>
<1>1. /\ loc' = [p \in Ptrs |-> IF \E mv \in plan : mv.dst = p
                                THEN targets[p] ELSE loc[p]]
      /\ moves' = plan /\ todo' = plan /\ old' = {}
      /\ pc = "begin_pass" /\ pc' = "moves"
      /\ UNCHANGED <<ma, objects, bound, imageLayout, mem>>
  BY DEF BeginPass, vmaBeginDefragmentationPass
<1>2. \A mv \in plan : /\ mv.dst \in Ptrs /\ mv.dst \notin Allocated
                       /\ targets[mv.dst] \in FreeSlots /\ targets[mv.dst] # NoSlot
  BY DEF Candidates, FreeSlots, Slots, NoSlot
<1>3. \A p \in Allocated : loc'[p] = loc[p]
  BY <1>1, <1>2 DEF Allocated
<1>4. Allocated' = Allocated \cup Destinations'
  BY <1>1, <1>2 DEF Allocated, Destinations
<1>5. FreeSlots' \subseteq FreeSlots
  <2>1. \A p \in Ptrs : loc[p] # NoSlot => loc'[p] = loc[p]
    BY <1>3 DEF Allocated
  <2>2. \A s \in Slots : s # NoSlot
    BY DEF Slots, NoSlot
  <2> QED BY <2>1, <2>2 DEF FreeSlots
<1> QED BY <1>1, <1>3, <1>4, <1>5

LEMMA AccountedStep ==
  ASSUME NoPassPanics
  PROVE  Inv /\ ListInv /\ AllocationsAccounted /\ [Next]_vars => AllocationsAccounted'
<1> SUFFICES ASSUME Inv, ListInv, AllocationsAccounted, [Next]_vars PROVE AllocationsAccounted'
  OBVIOUS
<1> USE DEF AllocationsAccounted
<1>1. CASE Client
  BY <1>1, ClientAccounted
<1>2. CASE SameAllocations /\ UNCHANGED <<loc, moves>>
  BY <1>2 DEF SameAllocations, Allocated, Destinations
<1>3. CASE Defrag
  <2>1. SameAllocations
    BY <1>3, DefragLiveStep
  <2>2. ASSUME NEW plan \in SUBSET Candidates,
               NEW targets \in [{mv.dst : mv \in plan} -> FreeSlots],
               BeginPass(plan, targets)
        PROVE  AllocationsAccounted'
    <3>1. pc = "begin_pass"
      BY <2>2 DEF BeginPass
    <3>2. Destinations = {}
      BY <3>1 DEF Inv, OwnershipInvariant, PassWellFormed, Destinations
    <3> QED BY <2>1, <2>2, <3>2, BeginPassParts DEF SameAllocations
  <2>3. ASSUME NEW mv \in Moves, NEW m \in Mas, NEW r \in Res, RecordMove(mv, m, r)
        PROVE  AllocationsAccounted'
    BY <1>2, <2>1, <2>3 DEF RecordMove, vmaVars
  <2>4. CASE WaitThenDestroyOld
    BY <1>2, <2>1, <2>4 DEF WaitThenDestroyOld, vmaVars
  <2>5. CASE EndPass
    BY <2>1, <2>5, EndPassAllocated DEF SameAllocations
  <2>6. CASE QuietDefrag
    BY <1>2, <2>1, <2>6, QuietDefragStep
  <2> QED BY <1>3, <2>2, <2>3, <2>4, <2>5, <2>6, DefragShape
<1>4. CASE Gpu \/ GpuDone \/ Terminated \/ UNCHANGED vars
  BY <1>2, <1>4, SameMa DEF Gpu, GpuDone, GpuExecute, GpuSignal, Terminated, vars, vmaVars,
     managedVars
<1> QED BY <1>1, <1>3, <1>4, NoDefragPanics DEF Next

LEMMA AccountedInvariant ==
  ASSUME NoPassPanics
  PROVE  Spec => []AllocationsAccounted
<1>1. Init => AllocationsAccounted
  BY DEF Init, VmaInit, AllocationsAccounted, Allocated
<1> QED BY <1>1, InvInductive, ListInvariant, AccountedStep, PTL DEF Spec

(* defrag finds exactly one entry, a live one, for every allocation VMA    *)
(* moves: its expect never fires, though VMA hands freed pointers out      *)
(* again and the list keeps the entries of freed allocations for a while.  *)
THEOREM LookupsSucceed ==
  ASSUME NoPassPanics
  PROVE  Spec => []SourceHasOneEntry
<1>1. Inv /\ ListInv /\ AllocationsAccounted => SourceHasOneEntry
  <2> SUFFICES ASSUME Inv, ListInv, AllocationsAccounted, pc = "moves", NEW mv \in todo
               PROVE  \E m \in Live : Entries(mv) = {m}
    BY DEF SourceHasOneEntry
  <2>1. mv \in moves
    BY DEF Inv, OwnershipInvariant, PassWellFormed
  <2> QED BY <2>1, AccountedSource
<1> QED BY <1>1, InvInductive, ListInvariant, AccountedInvariant, PTL
-----------------------------------------------------------------------------
(* Outside a pass nothing is recorded, running or signaled; when the fence *)
(* of a pass may be waited for, everything recorded has run.               *)
QuietInv ==
  /\ GpuQuietOutsidePass
  /\ commandBuffer = "recording" => pc = "moves"
  /\ pc = "wait" /\ commandBuffer = "ready" => cmds = {}

LEMMA QuietStep ==
  ASSUME NoPassPanics
  PROVE  Inv /\ ListInv /\ AllocationsAccounted /\ GpuInv /\ QuietInv /\ [Next]_vars => QuietInv'
<1> SUFFICES ASSUME Inv, ListInv, AllocationsAccounted, GpuInv, QuietInv, [Next]_vars
             PROVE  QuietInv'
  OBVIOUS
<1> USE DEF QuietInv, GpuQuietOutsidePass
<1>1. CASE Client
  BY <1>1, ClientDevice
<1>2. ASSUME NEW plan \in SUBSET Candidates,
             NEW targets \in [{mv.dst : mv \in plan} -> FreeSlots],
             BeginPass(plan, targets)
      PROVE  QuietInv'
  BY <1>2 DEF BeginPass, BeginCommandBuffer
<1>3. ASSUME NEW mv \in Moves, NEW m \in Mas, NEW r \in Res, RecordMove(mv, m, r)
      PROVE  QuietInv'
  BY <1>3 DEF RecordMove
<1>4. CASE WaitThenDestroyOld
  BY <1>4 DEF WaitThenDestroyOld, FenceSignaled, ResetFences, GpuInv
<1>5. CASE EndPass
  BY <1>5 DEF EndPass, deviceVars
<1>6. CASE QuietDefrag
  BY <1>6 DEF QuietDefrag, NoMoreMoves, Submit, QueueSubmit, DefragEnd, deviceVars
<1>7. CASE Gpu
  BY <1>7 DEF Gpu, GpuExecute, managedVars, GpuInv
<1>8. CASE GpuDone
  BY <1>8 DEF GpuDone, GpuSignal, managedVars, GpuInv
<1>9. CASE Terminated \/ UNCHANGED vars
  BY <1>9 DEF Terminated, vars, deviceVars, managedVars
<1> QED BY <1>1, <1>2, <1>3, <1>4, <1>5, <1>6, <1>7, <1>8, <1>9, NoDefragPanics, DefragShape
    DEF Next

(* What a reachable state looks like when no panic cuts a pass short.      *)
PassBase == Inv /\ ListInv /\ AllocationsAccounted /\ GpuInv /\ QuietInv

LEMMA PassBaseInvariant ==
  ASSUME NoPassPanics
  PROVE  Spec => []PassBase
<1>1. Init => QuietInv
  BY DEF Init, DeviceInit, QuietInv, GpuQuietOutsidePass
<1>2. "wait" \notin Panics
  BY DEF NoPassPanics
<1>3. Spec => []GpuInv
  BY <1>2, GpuInvariant
<1> QED BY <1>1, <1>3, InvInductive, ListInvariant, AccountedInvariant, QuietStep, PTL
    DEF Spec, PassBase

(* VMA at the end of a pass, the next pass and the client all find the GPU *)
(* done with what was submitted, and the fence ready to be used again.     *)
THEOREM GpuDoneOutsidePass ==
  ASSUME NoPassPanics
  PROVE  Spec => []GpuQuietOutsidePass
<1>1. PassBase => GpuQuietOutsidePass
  BY DEF PassBase, QuietInv
<1> QED BY <1>1, PassBaseInvariant, PTL
-----------------------------------------------------------------------------
(* The moves of the pass that have been recorded.                          *)
Recorded == moves \ todo

(* m's object is bound to slot s, and m says so.                           *)
PlaceOf(m, s) == bound[ma[m].res] = s /\ ma[m].mem_offset = s

(* A resource whose move has been recorded is where its temporary          *)
(* allocation is; any other is where its own allocation is.                *)
Placed ==
  \A m \in Live :
    /\ \A mv \in Recorded : mv.src = ma[m].alloc => PlaceOf(m, loc[mv.dst])
    /\ (\A mv \in Recorded : mv.src # ma[m].alloc) => PlaceOf(m, loc[ma[m].alloc])

(* What recording the move mv of m changes.                                *)
LEMMA RecordMoveParts ==
  ASSUME Inv, NEW mv \in Moves, NEW m \in Mas, NEW r \in Res, RecordMove(mv, m, r)
  PROVE  /\ m \in Live /\ Live' = Live /\ ma[m].alloc = mv.src
         /\ mv \in moves /\ mv \notin Recorded
         /\ Recorded' = Recorded \cup {mv}
         /\ \A nv \in Recorded : nv.src # mv.src
         /\ \A n \in Live : ma[n].res # r /\ (n # m => ma'[n] = ma[n] /\ ma[n].alloc # mv.src)
         /\ ma'[m].res = r /\ ma'[m].mem_offset = loc[mv.dst]
         /\ ma'[m].alloc = ma[m].alloc /\ ma'[m].layout = ma[m].layout
         /\ ma'[m].info = ma[m].info
         /\ objects' = objects \cup {r} /\ r \notin objects
         /\ bound' = [bound EXCEPT ![r] = loc[mv.dst]]
         /\ imageLayout' = [imageLayout EXCEPT ![r] = ma[m].info.initial]
         /\ cmds' = cmds \cup RecordedCopies(m, r, loc[mv.dst])
         /\ old' = old \cup {ma[m].res}
         /\ UNCHANGED <<loc, mem, moves>>
<1>1. /\ m \in Live /\ ma[m].alloc = mv.src /\ mv \in todo
  BY EntryLive DEF RecordMove, Entries
<1>2. ma[m] \in ManagedAllocations /\ ma \in [Mas -> ManagedAllocations \cup {NoMa}]
  BY <1>1, LiveTyped, TypeConjuncts DEF Inv
<1>3. /\ ma' = [ma EXCEPT ![m] = [ma[m] EXCEPT !.res = r, !.mem_offset = loc[mv.dst]]]
      /\ CreateBound(r, loc[mv.dst], ma[m].info.initial)
      /\ cmds' = cmds \cup RecordedCopies(m, r, loc[mv.dst])
      /\ old' = old \cup {ma[m].res} /\ todo' = todo \ {mv}
      /\ UNCHANGED <<loc, mem, moves>>
  BY DEF RecordMove, Destination, LeftBehind, vmaVars
<1>4. /\ ma'[m].res = r /\ ma'[m].mem_offset = loc[mv.dst]
      /\ ma'[m].alloc = ma[m].alloc /\ ma'[m].layout = ma[m].layout
      /\ ma'[m].info = ma[m].info
      /\ \A n \in Mas \ {m} : ma'[n] = ma[n]
  BY <1>2, <1>3 DEF ManagedAllocations
<1>5. Live' = Live
  BY RecordMoveSame DEF SameAllocations
<1>6. /\ mv \in moves /\ mv \notin Recorded /\ Recorded' = Recorded \cup {mv}
      /\ \A nv \in Recorded : nv.src # mv.src
  BY <1>1, <1>3 DEF Recorded, Inv, OwnershipInvariant, PassWellFormed
<1>7. \A n \in Live : ma[n].res # r /\ (n # m => ma[n].alloc # mv.src)
  BY <1>1, <1>3 DEF CreateBound, Inv, OwnershipInvariant, MemoryNeverShared
<1>8. /\ objects' = objects \cup {r} /\ r \notin objects
      /\ bound' = [bound EXCEPT ![r] = loc[mv.dst]]
      /\ imageLayout' = [imageLayout EXCEPT ![r] = ma[m].info.initial]
  BY <1>3 DEF CreateBound
<1> QED BY <1>1, <1>3, <1>4, <1>5, <1>6, <1>7, <1>8 DEF Live

(* What a transition of m changes.                                         *)
LEMMA TransitionParts ==
  ASSUME Inv, NEW m \in Mas, transition_image(m)
  PROVE  /\ m \in Live /\ Live' = Live
         /\ \A n \in Live : /\ n # m => ma'[n] = ma[n] /\ ma[n].res # ma[m].res
                            /\ ma'[n].res = ma[n].res /\ ma'[n].alloc = ma[n].alloc
                            /\ ma'[n].info = ma[n].info
                            /\ ma'[n].mem_offset = ma[n].mem_offset
         /\ ma'[m].layout = "GENERAL"
         /\ imageLayout' = [imageLayout EXCEPT ![ma[m].res] = "GENERAL"]
         /\ UNCHANGED <<loc, objects, bound>>
<1>1. m \in Live
  BY DEF transition_image, Usable, Live
<1>2. ma[m] \in ManagedAllocations /\ ma \in [Mas -> ManagedAllocations \cup {NoMa}]
  BY <1>1, LiveTyped, TypeConjuncts DEF Inv
<1>3. /\ ma' = [ma EXCEPT ![m] = [ma[m] EXCEPT !.layout = "GENERAL"]]
      /\ imageLayout' = [imageLayout EXCEPT ![ma[m].res] = "GENERAL"]
      /\ UNCHANGED <<loc, objects, bound>>
  BY DEF transition_image
<1>4. /\ ma'[m].res = ma[m].res /\ ma'[m].alloc = ma[m].alloc /\ ma'[m].info = ma[m].info
      /\ ma'[m].mem_offset = ma[m].mem_offset /\ ma'[m].layout = "GENERAL"
      /\ \A n \in Mas \ {m} : ma'[n] = ma[n]
  BY <1>2, <1>3 DEF ManagedAllocations
<1>5. Live' = Live
  BY TransitionSame DEF SameAllocations
<1>6. \A n \in Live : n \in Mas /\ (n # m => ma[n].res # ma[m].res)
  BY <1>1 DEF Live, Inv, OwnershipInvariant, MemoryNeverShared
<1> QED BY <1>1, <1>3, <1>4, <1>5, <1>6

(* An object a failing allocation leaves behind is no live resource's.     *)
LEMMA LeakedParts ==
  ASSUME Inv, NEW r \in Res, NEW info \in CreateInfos, AllocatePanicsOnMemory(r, info)
  PROVE  /\ \A m \in Live : ma[m].res # r /\ bound'[ma[m].res] = bound[ma[m].res]
                            /\ imageLayout'[ma[m].res] = imageLayout[ma[m].res]
         /\ UNCHANGED <<loc, mem, ma>>
<1>1. \A m \in Live : ma[m].res \in objects /\ ma[m].res \in Res
  BY LiveTyped DEF Inv, OwnershipInvariant, MemoryNeverShared
<1>2. bound \in [Res -> Slots \cup {NoSlot}] /\ imageLayout \in [Res -> Layouts]
  BY TypeConjuncts DEF Inv
<1> QED BY <1>1, <1>2 DEF AllocatePanicsOnMemory, CreateBound, vmaVars, managedVars

LEMMA ClientPlaced ==
  ASSUME NoPassPanics, Inv, ListInv, Placed, Client
  PROVE  Placed'
<1>1. moves = {} /\ moves' = {} /\ Recorded = {} /\ Recorded' = {}
  BY NoPassWhenIdle, ClientDevice DEF Recorded
<1>2. \A m \in Live : PlaceOf(m, loc[ma[m].alloc])
  BY <1>1 DEF Placed
<1> SUFFICES \A m \in Live' : bound'[ma'[m].res] = loc'[ma'[m].alloc]
                              /\ ma'[m].mem_offset = loc'[ma'[m].alloc]
  BY <1>1 DEF Placed, PlaceOf
<1> DEFINE Goal == \A m \in Live' : bound'[ma'[m].res] = loc'[ma'[m].alloc]
                                    /\ ma'[m].mem_offset = loc'[ma'[m].alloc]
<1> USE DEF PlaceOf
<1>3. /\ bound \in [Res -> Slots \cup {NoSlot}] /\ loc \in [Ptrs -> Slots \cup {NoSlot}]
      /\ \A n \in Live : n \in Mas /\ ma[n].res \in Res /\ ma[n].alloc \in Ptrs
  BY TypeConjuncts, LiveTyped DEF Inv
<1>4. ASSUME NEW m \in Mas, NEW r \in Res, NEW p \in Ptrs, NEW s \in Slots,
             NEW info \in CreateInfos, Allocate(m, r, p, s, info)
      PROVE  Goal
  <2>1. /\ Live' = Live \cup {m} /\ m \notin Live
        /\ \A n \in Mas \ {m} : ma'[n] = ma[n]
        /\ ma'[m].res = r /\ ma'[m].alloc = p /\ ma'[m].mem_offset = s
        /\ \A n \in Live : ma[n].res # r /\ ma[n].alloc # p
        /\ loc' = [loc EXCEPT ![p] = s] /\ bound' = [bound EXCEPT ![r] = s]
    BY <1>4, AllocateParts
  <2>2. bound'[r] = s /\ loc'[p] = s
    BY <1>3, <2>1
  <2>3. \A n \in Live : /\ ma'[n] = ma[n] /\ loc'[ma[n].alloc] = loc[ma[n].alloc]
                        /\ bound'[ma[n].res] = bound[ma[n].res]
    BY <1>3, <2>1
  <2> QED BY <1>2, <2>1, <2>2, <2>3
<1>5. ASSUME NEW m \in Live, FreeResource(m)
      PROVE  Goal
  <2>1. /\ Live' = Live \ {m}
        /\ \A n \in Live' : ma'[n] = ma[n] /\ ma[n].alloc # ma[m].alloc /\ ma[n].res # ma[m].res
        /\ loc' = [loc EXCEPT ![ma[m].alloc] = NoSlot]
        /\ \A r \in Res \ {ma[m].res} : bound'[r] = bound[r]
    BY <1>3, <1>5, FreeParts
  <2> QED BY <1>2, <1>3, <2>1
<1>6. ASSUME NEW m \in Mas, transition_image(m)
      PROVE  Goal
  BY <1>2, <1>6, TransitionParts
<1>7. ASSUME NEW r \in Res, NEW info \in CreateInfos, AllocatePanicsOnMemory(r, info)
      PROVE  Goal
  BY <1>2, <1>7, LeakedParts DEF Live
<1>8. ASSUME \/ \E i \in 1 .. MaxMaps, d \in Data : MapWrite(i, d)
             \/ UNCHANGED <<loc, mem, objects, bound, imageLayout, ma>>
      PROVE  Goal
  BY <1>2, <1>8 DEF MapWrite, deviceVars, managedVars, Live
<1> QED BY <1>4, <1>5, <1>6, <1>7, <1>8, ClientShape DEF NoPassPanics

LEMMA RecordMovePlaced ==
  ASSUME Inv, Placed, NEW mv \in Moves, NEW m \in Mas, NEW r \in Res, RecordMove(mv, m, r)
  PROVE  Placed'
<1>1. /\ bound \in [Res -> Slots \cup {NoSlot}]
      /\ \A n \in Live : ma[n].res \in Res
  BY TypeConjuncts, LiveTyped DEF Inv
<1>2. /\ m \in Live /\ Live' = Live /\ ma[m].alloc = mv.src
      /\ Recorded' = Recorded \cup {mv}
      /\ \A nv \in Recorded : nv.src # mv.src
      /\ \A n \in Live : ma[n].res # r /\ (n # m => ma'[n] = ma[n] /\ ma[n].alloc # mv.src)
      /\ ma'[m].res = r /\ ma'[m].mem_offset = loc[mv.dst] /\ ma'[m].alloc = ma[m].alloc
      /\ bound' = [bound EXCEPT ![r] = loc[mv.dst]]
      /\ loc' = loc
  BY RecordMoveParts
<1>3. PlaceOf(m, loc[mv.dst])'
  BY <1>1, <1>2 DEF PlaceOf
<1>4. ASSUME NEW n \in Live, n # m, NEW s, PlaceOf(n, s)
      PROVE  bound'[ma'[n].res] = s /\ ma'[n].mem_offset = s
  BY <1>1, <1>2, <1>4 DEF PlaceOf
<1> SUFFICES ASSUME NEW n \in Live'
             PROVE  /\ \A nv \in Recorded' : nv.src = ma'[n].alloc => PlaceOf(n, loc[nv.dst])'
                    /\ (\A nv \in Recorded' : nv.src # ma'[n].alloc)
                         => PlaceOf(n, loc[ma[n].alloc])'
  BY DEF Placed
<1>5. CASE n = m
  <2>1. \A nv \in Recorded' : nv.src = ma'[n].alloc => nv = mv
    BY <1>2, <1>5
  <2>2. mv \in Recorded' /\ mv.src = ma'[n].alloc
    BY <1>2, <1>5
  <2> QED BY <1>2, <1>3, <1>5, <2>1, <2>2
<1>6. CASE n # m
  <2>1. n \in Live /\ ma'[n] = ma[n] /\ ma[n].alloc # mv.src
    BY <1>2, <1>6
  <2>2. \A nv \in Recorded : nv.src = ma[n].alloc => PlaceOf(n, loc[nv.dst])
    BY <2>1 DEF Placed
  <2>3. (\A nv \in Recorded : nv.src # ma[n].alloc) => PlaceOf(n, loc[ma[n].alloc])
    BY <2>1 DEF Placed
  <2> QED BY <1>2, <1>4, <1>6, <2>1, <2>2, <2>3 DEF PlaceOf
<1> QED BY <1>5, <1>6

LEMMA EndPassPlaced ==
  ASSUME Inv, Placed, EndPass
  PROVE  Placed'
<1>1. /\ Recorded = moves /\ Recorded' = {} /\ UNCHANGED <<ma, bound>>
  BY DEF EndPass, vmaEndDefragmentationPass, Recorded, deviceVars, Inv, OwnershipInvariant,
     PassWellFormed
<1>2. Live' = Live
  BY <1>1 DEF Live
<1> SUFFICES ASSUME NEW m \in Live
             PROVE  bound[ma[m].res] = loc'[ma[m].alloc] /\ ma[m].mem_offset = loc'[ma[m].alloc]
  BY <1>1, <1>2 DEF Placed, PlaceOf
<1>3. ma[m].alloc \in Ptrs /\ ma[m].alloc \notin Destinations
  BY LiveTyped DEF Inv, OwnershipInvariant, PassWellFormed, Destinations
<1>4. CASE \E mv \in moves : mv.src = ma[m].alloc
  <2>1. PICK mv \in moves : mv.src = ma[m].alloc
    BY <1>4
  <2>2. loc'[ma[m].alloc] = loc[mv.dst]
    BY <2>1, EndPassLoc
  <2>3. PlaceOf(m, loc[mv.dst])
    BY <1>1, <2>1 DEF Placed
  <2> QED BY <2>2, <2>3 DEF PlaceOf
<1>5. CASE \A mv \in moves : mv.src # ma[m].alloc
  <2>1. ma[m].alloc \notin Sources
    BY <1>5 DEF Sources
  <2>2. loc'[ma[m].alloc] = loc[ma[m].alloc]
    BY <1>3, <2>1, EndPassLoc
  <2>3. PlaceOf(m, loc[ma[m].alloc])
    BY <1>1, <1>5 DEF Placed
  <2> QED BY <2>2, <2>3 DEF PlaceOf
<1> QED BY <1>4, <1>5

LEMMA BeginPassPlaced ==
  ASSUME Inv, Placed, NEW plan \in SUBSET Candidates,
         NEW targets \in [{mv.dst : mv \in plan} -> FreeSlots],
         BeginPass(plan, targets)
  PROVE  Placed'
<1>1. /\ moves' = todo' /\ pc = "begin_pass" /\ UNCHANGED <<ma, bound>>
      /\ \A p \in Allocated : loc'[p] = loc[p]
  BY BeginPassParts
<1>2. Recorded = {} /\ Recorded' = {} /\ Live' = Live
  BY <1>1 DEF Recorded, Inv, OwnershipInvariant, PassWellFormed, Live
<1>3. \A m \in Live : PlaceOf(m, loc[ma[m].alloc]) /\ loc'[ma[m].alloc] = loc[ma[m].alloc]
  BY <1>1, <1>2 DEF Placed, Inv, OwnershipInvariant, MemoryNeverShared
<1> QED BY <1>1, <1>2, <1>3 DEF Placed, PlaceOf

LEMMA DestroyOldParts ==
  ASSUME Inv, WaitThenDestroyOld
  PROVE  /\ \A m \in Live : /\ ma[m].res \notin old
                            /\ bound'[ma[m].res] = bound[ma[m].res]
                            /\ imageLayout'[ma[m].res] = imageLayout[ma[m].res]
         /\ objects' = objects \ old /\ old' = {}
         /\ UNCHANGED <<loc, mem, moves, todo, cmds, ma>>
<1>1. \A m \in Live : ma[m].res \notin old /\ ma[m].res \in Res
  BY LiveTyped DEF Inv, OwnershipInvariant, OldIsOld
<1> QED BY <1>1 DEF WaitThenDestroyOld, Destroy, vmaVars

LEMMA PlacedStep ==
  ASSUME NoPassPanics
  PROVE  PassBase /\ Placed /\ [Next]_vars => Placed'
<1> SUFFICES ASSUME PassBase, Placed, [Next]_vars PROVE Placed'
  OBVIOUS
<1>0. Inv /\ ListInv /\ AllocationsAccounted
  BY DEF PassBase
<1>1. CASE Client
  BY <1>0, <1>1, ClientPlaced
<1>2. ASSUME NEW plan \in SUBSET Candidates,
             NEW targets \in [{mv.dst : mv \in plan} -> FreeSlots],
             BeginPass(plan, targets)
      PROVE  Placed'
  BY <1>0, <1>2, BeginPassPlaced
<1>3. ASSUME NEW mv \in Moves, NEW m \in Mas, NEW r \in Res, RecordMove(mv, m, r)
      PROVE  Placed'
  BY <1>0, <1>3, RecordMovePlaced
<1>4. CASE WaitThenDestroyOld
  BY <1>0, <1>4, DestroyOldParts DEF Placed, PlaceOf, Recorded, Live
<1>5. CASE EndPass
  BY <1>0, <1>5, EndPassPlaced
<1>6. CASE QuietDefrag
  BY <1>0, <1>6, QuietDefragStep DEF Placed, PlaceOf, Recorded, Live
<1>7. CASE Gpu \/ GpuDone \/ Terminated \/ UNCHANGED vars
  BY <1>7 DEF Gpu, GpuDone, GpuExecute, GpuSignal, Terminated, vars, vmaVars, deviceVars,
     managedVars, Placed, PlaceOf, Recorded, Live
<1> QED BY <1>0, <1>1, <1>2, <1>3, <1>4, <1>5, <1>6, <1>7, NoDefragPanics, DefragShape DEF Next

LEMMA PlacedInvariant ==
  ASSUME NoPassPanics
  PROVE  Spec => []Placed
<1>1. Init => Placed
  BY DEF Init, Placed, Live, NoMa
<1> QED BY <1>1, PassBaseInvariant, PlacedStep, PTL DEF Spec

(* Outside a pass the object is bound to the memory VMA says its           *)
(* allocation has, and mem_offset says the same: no defrag leaves the GPU, *)
(* map and the allocator with different ideas of where a resource is.      *)
THEOREM ObjectsWhereVmaSays ==
  ASSUME NoPassPanics
  PROVE  Spec => []BoundWhereVmaSays
<1>1. PassBase /\ Placed => BoundWhereVmaSays
  BY DEF PassBase, Inv, OwnershipInvariant, PassWellFormed, Placed, PlaceOf, Recorded,
     BoundWhereVmaSays
<1> QED BY <1>1, PassBaseInvariant, PlacedInvariant, PTL
-----------------------------------------------------------------------------
(* The device holds the objects of the live resources and, in a pass,      *)
(* those the moves left behind.                                            *)
ObjectsAccounted == objects \subseteq {ma[m].res : m \in Live} \cup old

LEMMA ClientObjects ==
  ASSUME NoPassPanics, "allocate_memory" \notin Panics, Inv, ListInv, ObjectsAccounted, Client
  PROVE  ObjectsAccounted'
<1>1. old' = old
  BY ClientDevice
<1> USE DEF ObjectsAccounted
<1>2. ASSUME NEW m \in Mas, NEW r \in Res, NEW p \in Ptrs, NEW s \in Slots,
             NEW info \in CreateInfos, Allocate(m, r, p, s, info)
      PROVE  ObjectsAccounted'
  <2>1. /\ Live' = Live \cup {m} /\ m \notin Live
        /\ \A n \in Mas \ {m} : ma'[n] = ma[n]
        /\ ma'[m].res = r /\ objects' = objects \cup {r}
    BY <1>2, AllocateParts
  <2>2. \A n \in Live : n \in Live' /\ ma'[n] = ma[n]
    BY <2>1 DEF Live
  <2> QED BY <1>1, <2>1, <2>2
<1>3. ASSUME NEW m \in Live, FreeResource(m)
      PROVE  ObjectsAccounted'
  <2>1. /\ Live' = Live \ {m} /\ objects' = objects \ {ma[m].res}
        /\ \A n \in Live' : ma'[n] = ma[n]
    BY <1>3, FreeParts DEF Live
  <2> QED BY <1>1, <2>1
<1>4. ASSUME NEW m \in Mas, transition_image(m)
      PROVE  ObjectsAccounted'
  <2>1. Live' = Live /\ objects' = objects /\ \A n \in Live : ma'[n].res = ma[n].res
    BY <1>4, TransitionParts
  <2> QED BY <1>1, <2>1
<1>5. ASSUME NEW r \in Res, NEW info \in CreateInfos, AllocatePanicsOnMemory(r, info)
      PROVE  FALSE
  BY <1>5 DEF AllocatePanicsOnMemory
<1>6. ASSUME \/ \E i \in 1 .. MaxMaps, d \in Data : MapWrite(i, d)
             \/ UNCHANGED <<loc, mem, objects, bound, imageLayout, ma>>
      PROVE  ObjectsAccounted'
  BY <1>1, <1>6 DEF MapWrite, deviceVars, managedVars, Live
<1> QED BY <1>2, <1>3, <1>4, <1>5, <1>6, ClientShape DEF NoPassPanics

LEMMA ObjectsStep ==
  ASSUME NoPassPanics, "allocate_memory" \notin Panics
  PROVE  PassBase /\ ObjectsAccounted /\ [Next]_vars => ObjectsAccounted'
<1> SUFFICES ASSUME PassBase, ObjectsAccounted, [Next]_vars PROVE ObjectsAccounted'
  OBVIOUS
<1>0. Inv /\ ListInv /\ AllocationsAccounted
  BY DEF PassBase
<1> USE DEF ObjectsAccounted
<1>1. CASE Client
  BY <1>0, <1>1, ClientObjects
<1>2. ASSUME NEW plan \in SUBSET Candidates,
             NEW targets \in [{mv.dst : mv \in plan} -> FreeSlots],
             BeginPass(plan, targets)
      PROVE  ObjectsAccounted'
  <2>1. old = {} /\ old' = {} /\ UNCHANGED <<ma, objects>>
    BY <1>0, <1>2, BeginPassParts DEF Inv, OwnershipInvariant, OldIsOld
  <2> QED BY <2>1 DEF Live
<1>3. ASSUME NEW mv \in Moves, NEW m \in Mas, NEW r \in Res, RecordMove(mv, m, r)
      PROVE  ObjectsAccounted'
  <2>1. /\ m \in Live /\ Live' = Live /\ ma'[m].res = r
        /\ \A n \in Live : n # m => ma'[n] = ma[n]
        /\ objects' = objects \cup {r} /\ old' = old \cup {ma[m].res}
    BY <1>0, <1>3, RecordMoveParts
  <2> QED BY <2>1
<1>4. CASE WaitThenDestroyOld
  BY <1>0, <1>4, DestroyOldParts DEF Live
<1>5. CASE EndPass
  BY <1>5 DEF EndPass, deviceVars, Live
<1>6. CASE QuietDefrag
  BY <1>0, <1>6, QuietDefragStep DEF Live
<1>7. CASE Gpu \/ GpuDone \/ Terminated \/ UNCHANGED vars
  BY <1>7 DEF Gpu, GpuDone, GpuExecute, GpuSignal, Terminated, vars, deviceVars, managedVars, Live
<1> QED BY <1>0, <1>1, <1>2, <1>3, <1>4, <1>5, <1>6, <1>7, NoDefragPanics, DefragShape DEF Next

(* Between operations nothing is left over: VMA and the device know the    *)
(* live resources' allocations and objects and no other, so that a dropped *)
(* allocator leaves neither behind.  Every panic that may happen here      *)
(* leaves the balance alone; each of those excluded leaks.                 *)
THEOREM NothingIsLeaked ==
  ASSUME NoPassPanics, "allocate_memory" \notin Panics
  PROVE  Spec => []NothingLeaks
<1>1. Init => ObjectsAccounted
  BY DEF Init, DeviceInit, ObjectsAccounted
<1>2. PassBase /\ ObjectsAccounted => NothingLeaks
  <2> SUFFICES ASSUME PassBase, ObjectsAccounted, pc = "idle"
               PROVE  /\ objects = {ma[m].res : m \in Live}
                      /\ Allocated = {ma[m].alloc : m \in Live}
    BY DEF NothingLeaks
  <2>1. old = {} /\ Destinations = {}
    BY NoPassWhenIdle DEF PassBase, Destinations
  <2>2. \A m \in Live : ma[m].alloc \in Allocated /\ ma[m].res \in objects
    BY DEF PassBase, Inv, OwnershipInvariant, MemoryNeverShared
  <2> QED BY <2>1, <2>2 DEF PassBase, AllocationsAccounted, ObjectsAccounted
<1> QED BY <1>1, <1>2, PassBaseInvariant, ObjectsStep, PTL DEF Spec
=============================================================================
