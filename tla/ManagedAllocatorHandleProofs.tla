--------------------- MODULE ManagedAllocatorHandleProofs ---------------------
(***************************************************************************)
(* Theorems about ManagedAllocator's handles and map calls: what a closure *)
(* may rely on, how mappings balance, and what the last handle does.       *)
(***************************************************************************)
EXTENDS ManagedAllocatorProofs, FiniteSetTheorems

(* Steps that leave a ManagedAllocation's liveness and allocation alone.   *)
SameAllocations ==
  /\ Live' = Live
  /\ \A m \in Live : ma'[m].alloc = ma[m].alloc

LEMMA SameMa ==
  ASSUME UNCHANGED ma
  PROVE  SameAllocations
BY DEF SameAllocations, Live

(* transition_image and RecordMove replace other parts of the record.      *)
LEMMA TransitionSame ==
  ASSUME Inv, NEW m \in Mas, transition_image(m)
  PROVE  SameAllocations
<1>1. m \in Live
  BY DEF transition_image, Usable, Live
<1>2. ma[m] \in ManagedAllocations /\ ma \in [Mas -> ManagedAllocations \cup {NoMa}]
  BY <1>1, LiveTyped, TypeConjuncts DEF Inv
<1>3. ma' = [ma EXCEPT ![m] = [ma[m] EXCEPT !.layout = "GENERAL"]]
  BY DEF transition_image
<1> QED BY <1>2, <1>3 DEF ManagedAllocations, Live, SameAllocations

LEMMA RecordMoveSame ==
  ASSUME Inv, NEW mv \in Moves, NEW m \in Mas, NEW r \in Res, RecordMove(mv, m, r)
  PROVE  SameAllocations
<1>1. m \in Live
  BY EntryLive DEF RecordMove
<1>2. ma[m] \in ManagedAllocations /\ ma \in [Mas -> ManagedAllocations \cup {NoMa}]
  BY <1>1, LiveTyped, TypeConjuncts DEF Inv
<1>3. ma' = [ma EXCEPT ![m] = [ma[m] EXCEPT !.res = r, !.mem_offset = Destination(mv)]]
  BY DEF RecordMove
<1> QED BY <1>2, <1>3 DEF ManagedAllocations, Live, SameAllocations

(* Freeing ends a resource and leaves the others alone.                    *)
LEMMA FreeLive ==
  ASSUME Inv, NEW m \in Mas, FreeResource(m)
  PROVE  /\ Live' = Live \ {m}
         /\ \A n \in Live' : ma'[n] = ma[n]
<1>1. CASE ma[m].freed
  BY <1>1 DEF FreeResource, Live
<1>2. CASE ~ma[m].freed
  <2>1. ma[m] \in ManagedAllocations /\ ma \in [Mas -> ManagedAllocations \cup {NoMa}]
    BY <1>2, LiveTyped, TypeConjuncts DEF Inv, Live
  <2>2. ma' = [ma EXCEPT ![m].freed = TRUE]
    BY <1>2 DEF FreeResource
  <2>3. ma'[m].freed /\ \A n \in Mas \ {m} : ma'[n] = ma[n]
    BY <2>1, <2>2 DEF ManagedAllocations
  <2> QED BY <2>3 DEF Live
<1> QED BY <1>1, <1>2

(* A new resource joins the live ones.                                     *)
LEMMA AllocateLive ==
  ASSUME Inv, NEW m \in Mas, NEW r \in Res, NEW p \in Ptrs, NEW s \in Slots,
         NEW info \in CreateInfos, Allocate(m, r, p, s, info)
  PROVE  /\ Live' = Live \cup {m}
         /\ \A n \in Mas \ {m} : ma'[n] = ma[n]
         /\ ma'[m] = [res |-> r, alloc |-> p, info |-> info, layout |-> info.initial,
                      mem_offset |-> s, freed |-> FALSE]
         /\ ma'[m].alloc = p /\ ma'[m].res = r
<1>1. ma \in [Mas -> ManagedAllocations \cup {NoMa}]
  BY TypeConjuncts DEF Inv
<1> QED BY <1>1 DEF Allocate, Live
-----------------------------------------------------------------------------
(* While the closures of map calls run, the allocator is borrowed, so no   *)
(* defrag runs; and each pointer is still good.                            *)
BorrowedOutsideDefrag == pc # "idle" => frames = <<>>

BorrowInv == MappedPointerValid /\ BorrowedOutsideDefrag

(* The frames left when k of them are popped are frames there were.        *)
LEMMA PopFramesElements ==
  ASSUME TypeOK, NEW k \in 0 .. Len(frames)
  PROVE  /\ PopFrames(k) \in Seq(Frames)
         /\ Len(PopFrames(k)) = Len(frames) - k
         /\ \A i \in DOMAIN PopFrames(k) : i \in DOMAIN frames /\ PopFrames(k)[i] = frames[i]
<1>1. frames \in Seq(Frames) /\ Len(frames) \in Nat
  BY TypeConjuncts
<1>2. Len(frames) - k \in 0 .. Len(frames)
  BY <1>1
<1> QED BY <1>1, <1>2 DEF PopFrames

LEMMA PoppedPointersValid ==
  ASSUME Inv, MappedPointerValid, NEW k \in 0 .. Len(frames), frames' = PopFrames(k),
         UNCHANGED <<loc, ma>>
  PROVE  MappedPointerValid'
BY PopFramesElements DEF MappedPointerValid, Live, Inv

LEMMA SamePointersValid ==
  ASSUME Inv, MappedPointerValid, SameAllocations, UNCHANGED <<loc, frames>>
  PROVE  MappedPointerValid'
BY DEF MappedPointerValid, SameAllocations

LEMMA NoPointers ==
  ASSUME frames' = <<>>
  PROVE  MappedPointerValid'
BY DEF MappedPointerValid

LEMMA ClientBorrowStep == Inv /\ BorrowInv /\ Client => BorrowInv'
<1> SUFFICES ASSUME Inv, BorrowInv, Client PROVE BorrowInv'
  OBVIOUS
<1> USE DEF ClientRuns, CanBorrowMut, BorrowInv, BorrowedOutsideDefrag
<1>0. TypeOK /\ frames \in Seq(Frames)
  BY TypeConjuncts DEF Inv
<1>1. ASSUME NEW m \in Mas, NEW r \in Res, NEW p \in Ptrs, NEW s \in Slots,
             NEW info \in CreateInfos, Allocate(m, r, p, s, info)
      PROVE  BorrowInv'
  BY <1>1, NoPointers DEF Allocate
<1>2. ASSUME NEW r \in Res, NEW info \in CreateInfos, AllocatePanicsOnMemory(r, info)
      PROVE  BorrowInv'
  BY <1>2, NoPointers DEF AllocatePanicsOnMemory, managedVars
<1>3. ASSUME NEW r \in Res, NEW p \in Ptrs, NEW s \in Slots, NEW info \in CreateInfos,
             AllocatePanicsOnBind(r, p, s, info)
      PROVE  BorrowInv'
  BY <1>3, NoPointers DEF AllocatePanicsOnBind, managedVars
<1>4. ASSUME NEW m \in Mas, DropHandle(m)
      PROVE  BorrowInv'
  <2>1. CASE LastUserHandle(m)
    BY <1>4, <2>1, NoPointers DEF DropHandle
  <2>2. CASE ~LastUserHandle(m)
    BY <1>4, <2>2, SameMa, SamePointersValid DEF DropHandle
  <2> QED BY <2>1, <2>2
<1>5. ASSUME NEW m \in Mas, Free(m)
      PROVE  BorrowInv'
  BY <1>5, NoPointers DEF Free
<1>6. ASSUME NEW m \in Mas, MapBegin(m)
      PROVE  BorrowInv'
  <2>1. m \in Live /\ UNCHANGED <<loc, ma, pc>> /\ pc = "idle"
    BY <1>6 DEF MapBegin, Usable, Live
  <2>2. frames' = Append(frames, [m |-> m, slot |-> loc[ma[m].alloc]])
    BY <1>6 DEF MapBegin
  <2>3. MappedPointerValid'
    BY <1>0, <2>1, <2>2 DEF MappedPointerValid, Live
  <2> QED BY <2>1, <2>3
<1>7. ASSUME NEW m \in Mas, transition_image(m)
      PROVE  BorrowInv'
  BY <1>7, TransitionSame, SamePointersValid DEF transition_image
<1>8. ASSUME NEW m \in Mas, NEW k \in 0 .. MaxMaps, DropHandlePanics(m, k)
      PROVE  BorrowInv'
  BY <1>8, PoppedPointersValid DEF DropHandlePanics, vmaVars
<1>9. CASE MapEnd
  <2>1. 1 \in 0 .. Len(frames)
    BY <1>0, <1>9 DEF MapEnd
  <2> QED BY <1>9, <2>1, PoppedPointersValid DEF MapEnd
<1>10. ASSUME NEW k \in 1 .. MaxMaps, ClosurePanics(k)
       PROVE  BorrowInv'
  <2>1. k \in 0 .. Len(frames)
    BY <1>10 DEF ClosurePanics
  <2> QED BY <1>10, <2>1, PoppedPointersValid DEF ClosurePanics, vmaVars
<1>11. ASSUME \/ \E m \in Mas : CloneHandle(m)
              \/ \E i \in 1 .. MaxMaps, d \in Data : MapWrite(i, d)
              \/ CloneAllocatorHandle \/ DropAllocatorHandle
       PROVE  BorrowInv'
  BY <1>11, SameMa, SamePointersValid DEF CloneHandle, MapWrite, CloneAllocatorHandle,
     DropAllocatorHandle, vmaVars, managedVars
<1>12. CASE DefragBegin
  BY <1>12, NoPointers DEF DefragBegin
<1> QED
  BY <1>1, <1>2, <1>3, <1>4, <1>5, <1>6, <1>7, <1>8, <1>9, <1>10, <1>11, <1>12 DEF Client

(* defrag runs with no map call on the stack and leaves none.              *)
LEMMA DefragFrames ==
  ASSUME Defrag \/ DefragPanics
  PROVE  pc # "idle" /\ UNCHANGED frames
<1> USE DEF Unwind
<1>1. CASE Defrag
  BY <1>1 DEF Defrag, BeginPass, NoMoreMoves, RecordMove, LookupPanics, Submit,
     WaitThenDestroyOld, EndPass, DefragEnd
<1>2. CASE DefragPanics
  BY <1>2 DEF DefragPanics, CreatePanics, BindPanics, SubmitPanics, WaitPanics
<1> QED BY <1>1, <1>2

LEMMA BorrowStep == Inv /\ BorrowInv /\ [Next]_vars => BorrowInv'
<1> SUFFICES ASSUME Inv, BorrowInv, [Next]_vars PROVE BorrowInv'
  OBVIOUS
<1>1. CASE Defrag \/ DefragPanics
  BY <1>1, DefragFrames, NoPointers DEF BorrowInv, BorrowedOutsideDefrag
<1>2. CASE Gpu \/ GpuDone \/ Terminated \/ UNCHANGED vars
  BY <1>2, SameMa, SamePointersValid DEF BorrowInv, BorrowedOutsideDefrag, Gpu, GpuDone,
     GpuExecute, GpuSignal, Terminated, vars, vmaVars, managedVars
<1> QED BY <1>1, <1>2, ClientBorrowStep DEF Next

LEMMA BorrowInvariant == Spec => []BorrowInv
<1>1. Init => BorrowInv
  BY DEF Init, BorrowInv, MappedPointerValid, BorrowedOutsideDefrag
<1> QED BY <1>1, InvInductive, BorrowStep, PTL DEF Spec

(* Whatever panics, whatever the closures do with other handles: the       *)
(* pointer map handed out is the memory of a live resource as long as its  *)
(* closure runs.                                                           *)
THEOREM PointersStayValid == Spec => []MappedPointerValid
<1>1. BorrowInv => MappedPointerValid
  BY DEF BorrowInv
<1> QED BY <1>1, BorrowInvariant, PTL
-----------------------------------------------------------------------------
(* The allocator's list, while the allocator exists, holds every live      *)
(* resource: defrag's retain drops freed entries only.  VMA defragments    *)
(* just while a defrag is on the stack.                                    *)
VmaPhase == (vma = "defragmenting") <=> (pc # "idle")

ListComplete == vma # "destroyed" => Live \subseteq managed_allocations

ListInv == VmaPhase /\ ListComplete

(* What happens to live resources in one step: they keep their             *)
(* allocations, some are freed, or one is allocated.                       *)
LEMMA ClientLiveStep ==
  ASSUME Inv, Client
  PROVE  \/ SameAllocations
         \/ \E m \in Mas : FreeResource(m) /\ CanBorrowMut
         \/ \E m \in Mas, r \in Res, p \in Ptrs, s \in Slots, info \in CreateInfos :
              Allocate(m, r, p, s, info)
<1> DEFINE Shape ==
      \/ SameAllocations
      \/ \E m \in Mas : FreeResource(m) /\ CanBorrowMut
      \/ \E m \in Mas, r \in Res, p \in Ptrs, s \in Slots, info \in CreateInfos :
           Allocate(m, r, p, s, info)
<1>1. ASSUME NEW m \in Mas, DropHandle(m)
      PROVE  Shape
  BY <1>1, SameMa DEF DropHandle
<1>2. ASSUME NEW m \in Mas, Free(m)
      PROVE  Shape
  BY <1>2 DEF Free
<1>3. ASSUME NEW m \in Mas, transition_image(m)
      PROVE  Shape
  BY <1>3, TransitionSame
<1>4. ASSUME NEW r \in Res, NEW info \in CreateInfos,
             \/ AllocatePanicsOnMemory(r, info)
             \/ \E p \in Ptrs, s \in Slots : AllocatePanicsOnBind(r, p, s, info)
      PROVE  Shape
  BY <1>4, SameMa DEF AllocatePanicsOnMemory, AllocatePanicsOnBind, managedVars
<1>5. ASSUME NEW m \in Mas,
             \/ CloneHandle(m) \/ MapBegin(m)
             \/ \E k \in 0 .. MaxMaps : DropHandlePanics(m, k)
      PROVE  Shape
  BY <1>5, SameMa DEF CloneHandle, MapBegin, DropHandlePanics
<1>6. ASSUME \/ \E i \in 1 .. MaxMaps, d \in Data : MapWrite(i, d)
             \/ MapEnd
             \/ \E k \in 1 .. MaxMaps : ClosurePanics(k)
             \/ CloneAllocatorHandle \/ DropAllocatorHandle \/ DefragBegin
      PROVE  Shape
  BY <1>6, SameMa DEF MapWrite, MapEnd, ClosurePanics, CloneAllocatorHandle,
     DropAllocatorHandle, DefragBegin, managedVars
<1> QED BY <1>1, <1>2, <1>3, <1>4, <1>5, <1>6 DEF Client

LEMMA DefragLiveStep ==
  ASSUME Inv, Defrag \/ DefragPanics
  PROVE  SameAllocations /\ UNCHANGED <<managed_allocations, handles>>
<1> USE DEF Unwind
<1>1. ASSUME NEW mv \in Moves, NEW m \in Mas, NEW r \in Res, RecordMove(mv, m, r)
      PROVE  SameAllocations /\ UNCHANGED <<managed_allocations, handles>>
  BY <1>1, RecordMoveSame DEF RecordMove
<1>2. CASE /\ Defrag
           /\ ~\E mv \in Moves, m \in Mas, r \in Res : RecordMove(mv, m, r)
  BY <1>2, SameMa DEF Defrag, BeginPass, NoMoreMoves, LookupPanics, Submit,
     WaitThenDestroyOld, EndPass, DefragEnd
<1>3. CASE DefragPanics
  BY <1>3, SameMa DEF DefragPanics, CreatePanics, BindPanics, SubmitPanics, WaitPanics
<1> QED BY <1>1, <1>2, <1>3

LEMMA FreeShrinksLive ==
  ASSUME Inv, NEW m \in Mas, FreeResource(m)
  PROVE  Live' \subseteq Live
BY FreeLive

(* What a client step does to the list and to VMA.                         *)
LEMMA ClientListShape ==
  ASSUME Client
  PROVE  /\ pc = "idle" /\ vma = "ready"
         /\ \/ pc' = "begin_pass" /\ vma' = "defragmenting" /\ managed_allocations' = Retained
               /\ UNCHANGED ma
            \/ pc' = "idle" /\ vma' = "destroyed"
            \/ /\ pc' = "idle" /\ vma' = "ready"
               /\ \/ UNCHANGED managed_allocations
                  \/ \E m \in Mas, r \in Res, p \in Ptrs, s \in Slots, info \in CreateInfos :
                       Allocate(m, r, p, s, info)
<1> DEFINE Shape ==
      /\ pc = "idle" /\ vma = "ready"
      /\ \/ pc' = "begin_pass" /\ vma' = "defragmenting" /\ managed_allocations' = Retained
            /\ UNCHANGED ma
         \/ pc' = "idle" /\ vma' = "destroyed"
         \/ /\ pc' = "idle" /\ vma' = "ready"
            /\ \/ UNCHANGED managed_allocations
               \/ \E m \in Mas, r \in Res, p \in Ptrs, s \in Slots, info \in CreateInfos :
                    Allocate(m, r, p, s, info)
<1> USE DEF ClientRuns
<1>1. ASSUME NEW m \in Mas, NEW r \in Res, NEW p \in Ptrs, NEW s \in Slots,
             NEW info \in CreateInfos, Allocate(m, r, p, s, info)
      PROVE  Shape
  <2>1. /\ pc = "idle" /\ vma = "ready"
        /\ pc' = "idle" /\ vma' = "ready"
    BY <1>1 DEF Allocate
  <2> QED BY <1>1, <2>1
<1>2. ASSUME NEW r \in Res, NEW info \in CreateInfos,
             \/ AllocatePanicsOnMemory(r, info)
             \/ \E p \in Ptrs, s \in Slots : AllocatePanicsOnBind(r, p, s, info)
      PROVE  Shape
  BY <1>2 DEF AllocatePanicsOnMemory, AllocatePanicsOnBind, managedVars, vmaVars
<1>3. ASSUME NEW m \in Mas, CloneHandle(m) \/ DropHandle(m) \/ Free(m)
      PROVE  Shape
  BY <1>3 DEF CloneHandle, DropHandle, Free, DropReferences, vmaVars
<1>4. ASSUME NEW m \in Mas,
             \/ MapBegin(m) \/ transition_image(m)
             \/ \E k \in 0 .. MaxMaps : DropHandlePanics(m, k)
      PROVE  Shape
  BY <1>4 DEF MapBegin, transition_image, DropHandlePanics, vmaVars
<1>5. ASSUME \/ \E i \in 1 .. MaxMaps, d \in Data : MapWrite(i, d)
             \/ MapEnd
             \/ \E k \in 1 .. MaxMaps : ClosurePanics(k)
             \/ CloneAllocatorHandle
      PROVE  Shape
  BY <1>5 DEF MapWrite, MapEnd, ClosurePanics, CloneAllocatorHandle, vmaVars, managedVars
<1>6. CASE DropAllocatorHandle \/ DefragBegin
  BY <1>6 DEF DropAllocatorHandle, DefragBegin, DropReferences
<1> QED BY <1>1, <1>2, <1>3, <1>4, <1>5, <1>6 DEF Client

LEMMA ListStep == Inv /\ ListInv /\ [Next]_vars => ListInv'
<1> SUFFICES ASSUME Inv, ListInv, [Next]_vars PROVE ListInv'
  OBVIOUS
<1> USE DEF ListInv, VmaPhase, ListComplete
<1>1. CASE Client
  <2>1. CASE \E m \in Mas, r \in Res, p \in Ptrs, s \in Slots, info \in CreateInfos :
               Allocate(m, r, p, s, info)
    <3>1. PICK m \in Mas, r \in Res, p \in Ptrs, s \in Slots, info \in CreateInfos :
            Allocate(m, r, p, s, info)
      BY <2>1
    <3>2. managed_allocations' = managed_allocations \cup {m} /\ UNCHANGED <<vma, pc>>
      BY <3>1 DEF Allocate
    <3> QED BY <3>1, <3>2, AllocateLive
  <2>2. CASE Live' \subseteq Live
    <3>1. ASSUME managed_allocations' = Retained, UNCHANGED ma
          PROVE  Live \subseteq managed_allocations => Live' \subseteq managed_allocations'
      BY <3>1 DEF Retained, Live
    <3>2. CASE \E m \in Mas, r \in Res, p \in Ptrs, s \in Slots, info \in CreateInfos :
                 Allocate(m, r, p, s, info)
      BY <2>1, <3>2
    <3>3. CASE ~\E m \in Mas, r \in Res, p \in Ptrs, s \in Slots, info \in CreateInfos :
                 Allocate(m, r, p, s, info)
      BY <1>1, <2>2, <3>1, <3>3, ClientListShape
    <3> QED BY <3>2, <3>3
  <2> QED BY <1>1, <2>1, <2>2, ClientLiveStep, FreeShrinksLive DEF SameAllocations
<1>2. CASE Defrag \/ DefragPanics
  <2>1. pc # "idle" /\ vma' \in {vma, "ready"} /\ (pc' = "idle" <=> vma' # vma)
    <3>1. pc # "idle" /\ vma # "ready"
      BY <1>2, DefragFrames
    <3>2. CASE Defrag
      BY <1>2, <3>1, <3>2 DEF Defrag, BeginPass, NoMoreMoves, RecordMove, LookupPanics,
         Submit, WaitThenDestroyOld, EndPass, DefragEnd, Unwind, vmaEndDefragmentation, vmaVars
    <3>3. CASE DefragPanics
      BY <1>2, <3>1, <3>3 DEF DefragPanics, CreatePanics, BindPanics, SubmitPanics,
         WaitPanics, Unwind, vmaEndDefragmentation
    <3> QED BY <1>2, <3>2, <3>3
  <2> QED BY <1>2, <2>1, DefragLiveStep DEF SameAllocations
<1>3. CASE Gpu \/ GpuDone \/ Terminated \/ UNCHANGED vars
  BY <1>3 DEF Gpu, GpuDone, GpuExecute, GpuSignal, Terminated, vars, vmaVars, managedVars, Live
<1> QED BY <1>1, <1>2, <1>3 DEF Next

LEMMA ListInvariant == Spec => []ListInv
<1>1. Init => ListInv
  BY DEF Init, VmaInit, ListInv, VmaPhase, ListComplete, Live, NoMa
<1> QED BY <1>1, InvInductive, ListStep, PTL DEF Spec

(* A handle given up without freeing is one of several, unless its         *)
(* resource is no longer live: while a map call holds the allocator the    *)
(* last handle panics instead (DropHandlePanics), the one exception.       *)
LEMMA LastHandleStep ==
  ASSUME "drop_in_map" \notin Panics
  PROVE  Inv /\ ListInv /\ LastHandleFrees /\ [Next]_vars => LastHandleFrees'
<1> SUFFICES ASSUME Inv, ListInv, LastHandleFrees, [Next]_vars PROVE LastHandleFrees'
  OBVIOUS
<1> USE DEF LastHandleFrees
<1>0. handles \in [Mas -> Nat] /\ Live \subseteq Mas
  BY TypeConjuncts DEF Inv, Live
<1>1. CASE Client
  <2>1. ASSUME NEW m \in Mas, DropHandle(m)
        PROVE  LastHandleFrees'
    <3>1. handles' = [handles EXCEPT ![m] = @ - 1] /\ vma = "ready"
      BY <2>1 DEF DropHandle, DropReferences, ClientRuns
    <3>2. CASE LastUserHandle(m)
      <4>1. FreeResource(m)
        BY <2>1, <3>2 DEF DropHandle
      <4> QED BY <1>0, <3>1, <4>1, FreeLive
    <3>3. CASE ~LastUserHandle(m)
      <4>1. Live' = Live
        BY <2>1, <3>3 DEF DropHandle, Live
      <4>2. m \in Live => handles[m] # 1
        BY <3>1, <3>3 DEF ListInv, ListComplete, LastUserHandle, StrongCount, InList
      <4> QED BY <1>0, <3>1, <4>1, <4>2
    <3> QED BY <3>2, <3>3
  <2>2. ASSUME NEW m \in Mas, NEW r \in Res, NEW p \in Ptrs, NEW s \in Slots,
               NEW info \in CreateInfos, Allocate(m, r, p, s, info)
        PROVE  LastHandleFrees'
    <3>1. handles' = [handles EXCEPT ![m] = 1]
      BY <2>2 DEF Allocate
    <3>2. Live' = Live \cup {m}
      BY <2>2, AllocateLive
    <3> QED BY <1>0, <3>1, <3>2
  <2>3. ASSUME NEW m \in Mas, CloneHandle(m)
        PROVE  LastHandleFrees'
    <3>1. handles' = [handles EXCEPT ![m] = @ + 1] /\ UNCHANGED ma
      BY <2>3 DEF CloneHandle
    <3> QED BY <1>0, <3>1 DEF Live
  <2>4. ASSUME NEW m \in Mas, Free(m)
        PROVE  LastHandleFrees'
    BY <2>4, FreeLive DEF Free
  <2>5. ASSUME NEW m \in Mas, transition_image(m)
        PROVE  LastHandleFrees'
    BY <2>5, TransitionSame DEF transition_image, SameAllocations
  <2>6. ASSUME NEW m \in Mas, MapBegin(m)
        PROVE  LastHandleFrees'
    BY <2>6 DEF MapBegin, Live
  <2>7. ASSUME NEW m \in Mas, NEW k \in 0 .. MaxMaps, DropHandlePanics(m, k)
        PROVE  LastHandleFrees'
    BY <2>7 DEF DropHandlePanics
  <2>8. ASSUME NEW r \in Res, NEW info \in CreateInfos,
               \/ AllocatePanicsOnMemory(r, info)
               \/ \E p \in Ptrs, s \in Slots : AllocatePanicsOnBind(r, p, s, info)
        PROVE  LastHandleFrees'
    BY <2>8 DEF AllocatePanicsOnMemory, AllocatePanicsOnBind, managedVars, Live
  <2>9. ASSUME \/ \E i \in 1 .. MaxMaps, d \in Data : MapWrite(i, d)
               \/ MapEnd
               \/ \E k \in 1 .. MaxMaps : ClosurePanics(k)
               \/ CloneAllocatorHandle \/ DropAllocatorHandle \/ DefragBegin
        PROVE  LastHandleFrees'
    BY <2>9 DEF MapWrite, MapEnd, ClosurePanics, CloneAllocatorHandle,
       DropAllocatorHandle, DropReferences, DefragBegin, managedVars, Live
  <2> QED BY <1>1, <2>1, <2>2, <2>3, <2>4, <2>5, <2>6, <2>7, <2>8, <2>9 DEF Client
<1>2. CASE Defrag \/ DefragPanics
  BY <1>2, DefragLiveStep DEF SameAllocations
<1>3. CASE Gpu \/ GpuDone \/ Terminated \/ UNCHANGED vars
  BY <1>3 DEF Gpu, GpuDone, Terminated, vars, managedVars, Live
<1> QED BY <1>1, <1>2, <1>3 DEF Next

(* No resource outlives its handles, as the comment in Drop promises,      *)
(* provided no client drops a last handle inside a map call: freeing then  *)
(* panics, and the resource stays.  Everything else may panic.             *)
THEOREM LastHandleAlwaysFrees ==
  ASSUME "drop_in_map" \notin Panics
  PROVE  Spec => []LastHandleFrees
<1>1. Init => LastHandleFrees
  BY DEF Init, LastHandleFrees, Live, NoMa
<1> QED BY <1>1, InvInductive, ListInvariant, LastHandleStep, PTL DEF Spec

(* The six ownership facts hold in every reachable state, whatever panics. *)
THEOREM OwnershipHolds == Spec => []OwnershipInvariant
<1>1. Inv => OwnershipInvariant
  BY DEF Inv
<1> QED BY <1>1, InvInductive, PTL
-----------------------------------------------------------------------------
(* The map calls on the stack that map m, and how the stack's ends change  *)
(* their number.                                                           *)
FramesOf(m) == {i \in DOMAIN frames : frames[i].m = m}

LEMMA FramesOfFinite ==
  ASSUME TypeOK, NEW m
  PROVE  IsFiniteSet(FramesOf(m)) /\ Cardinality(FramesOf(m)) \in Nat
<1>1. Len(frames) \in Nat /\ DOMAIN frames = 1 .. Len(frames)
  BY TypeConjuncts
<1>2. IsFiniteSet(1 .. Len(frames))
  BY <1>1, FS_Interval
<1>3. FramesOf(m) \in SUBSET (1 .. Len(frames))
  BY <1>1 DEF FramesOf
<1>4. IsFiniteSet(FramesOf(m))
  BY <1>2, <1>3, FS_Subset
<1> QED BY <1>4, FS_CardinalityType

LEMMA NoFrames ==
  ASSUME NEW m, frames = <<>>
  PROVE  Cardinality(FramesOf(m)) = 0
<1>1. FramesOf(m) = {}
  BY DEF FramesOf
<1> QED BY <1>1, FS_EmptySet

LEMMA PushFrame ==
  ASSUME TypeOK, NEW f \in Frames, NEW m, frames' = Append(frames, f)
  PROVE  Cardinality(FramesOf(m)') =
           IF f.m = m THEN Cardinality(FramesOf(m)) + 1 ELSE Cardinality(FramesOf(m))
<1>1. frames \in Seq(Frames) /\ Len(frames) \in Nat /\ DOMAIN frames = 1 .. Len(frames)
  BY TypeConjuncts
<1>2. /\ DOMAIN frames' = 1 .. Len(frames) + 1
      /\ frames'[Len(frames) + 1] = f
      /\ \A i \in 1 .. Len(frames) : frames'[i] = frames[i]
  BY <1>1
<1>3. FramesOf(m)' = IF f.m = m THEN FramesOf(m) \cup {Len(frames) + 1} ELSE FramesOf(m)
  BY <1>1, <1>2 DEF FramesOf
<1>4. Len(frames) + 1 \notin FramesOf(m)
  BY <1>1 DEF FramesOf
<1>5. Cardinality(FramesOf(m) \cup {Len(frames) + 1}) = Cardinality(FramesOf(m)) + 1
  BY <1>4, FramesOfFinite, FS_AddElement
<1> QED BY <1>3, <1>5

LEMMA PopFrame ==
  ASSUME TypeOK, NEW m, frames # <<>>, frames' = PopFrames(1)
  PROVE  /\ frames[Len(frames)] \in Frames
         /\ Len(frames) \in DOMAIN frames
         /\ Cardinality(FramesOf(m)') =
              IF frames[Len(frames)].m = m THEN Cardinality(FramesOf(m)) - 1
              ELSE Cardinality(FramesOf(m))
<1>1. frames \in Seq(Frames) /\ Len(frames) \in Nat \ {0} /\ DOMAIN frames = 1 .. Len(frames)
  BY TypeConjuncts
<1>2. /\ DOMAIN frames' = 1 .. Len(frames) - 1
      /\ \A i \in 1 .. Len(frames) - 1 : frames'[i] = frames[i]
  BY <1>1 DEF PopFrames
<1>3. FramesOf(m)' = FramesOf(m) \ {Len(frames)}
  BY <1>1, <1>2 DEF FramesOf
<1>4. Len(frames) \in FramesOf(m) <=> frames[Len(frames)].m = m
  BY <1>1 DEF FramesOf
<1>5. Cardinality(FramesOf(m) \ {Len(frames)}) =
        IF Len(frames) \in FramesOf(m) THEN Cardinality(FramesOf(m)) - 1
        ELSE Cardinality(FramesOf(m))
  BY FramesOfFinite, FS_RemoveElement
<1> QED BY <1>1, <1>3, <1>4, <1>5

(* Mappings balance as long as every closure returns; the temporary        *)
(* allocations of a pass are never mapped.                                 *)
DestinationsUnmapped == \A p \in Destinations : mapCount[p] = 0

MapsInv == MapsBalanced /\ DestinationsUnmapped

LEMMA SameBalance ==
  ASSUME MapsBalanced, Live' \subseteq Live,
         \A m \in Live' : ma'[m].alloc = ma[m].alloc /\ mapCount'[ma[m].alloc] = mapCount[ma[m].alloc],
         UNCHANGED frames
  PROVE  MapsBalanced'
BY DEF MapsBalanced

LEMMA SameMapsInv ==
  ASSUME MapsInv, SameAllocations, UNCHANGED <<mapCount, frames>>, moves' \in {{}, moves}
  PROVE  MapsInv'
<1>1. MapsBalanced'
  BY SameBalance DEF MapsInv, SameAllocations
<1>2. DestinationsUnmapped'
  BY DEF MapsInv, DestinationsUnmapped, Destinations
<1> QED BY <1>1, <1>2 DEF MapsInv

(* A step while no pass is open has no destinations to speak of.           *)
LEMMA NoDestinations ==
  ASSUME moves' = {}
  PROVE  DestinationsUnmapped'
BY DEF DestinationsUnmapped, Destinations

(* A pointer VMA hands out is no live resource's, and starts unmapped.     *)
LEMMA FreshPointerUnmapped ==
  ASSUME Inv, NEW p \in Ptrs, NEW s \in Slots, vmaAllocateMemory(p, s)
  PROVE  /\ mapCount'[p] = 0
         /\ \A m \in Live : ma[m].alloc # p /\ mapCount'[ma[m].alloc] = mapCount[ma[m].alloc]
<1>1. mapCount \in [Ptrs -> Int] /\ mapCount' = [mapCount EXCEPT ![p] = 0] /\ p \notin Allocated
  BY TypeConjuncts DEF Inv, vmaAllocateMemory
<1>2. \A m \in Live : ma[m].alloc \in Allocated /\ ma[m].alloc \in Ptrs
  BY DEF Inv, OwnershipInvariant, MemoryNeverShared, Allocated
<1> QED BY <1>1, <1>2

LEMMA MapBeginMaps ==
  ASSUME Inv, MapsInv, NEW m \in Mas, MapBegin(m)
  PROVE  MapsInv'
<1>1. /\ TypeOK /\ m \in Live /\ pc = "idle"
      /\ mapCount \in [Ptrs -> Int]
      /\ mapCount' = [mapCount EXCEPT ![ma[m].alloc] = @ + 1]
      /\ UNCHANGED <<ma, moves>>
  BY TypeConjuncts DEF Inv, MapBegin, ClientRuns, Usable, Live, vmaMapMemory
<1>2. moves' = {}
  BY <1>1, NoPassWhenIdle
<1>3. Live' = Live
  BY <1>1 DEF Live
<1>4. \A n \in Live : ma[n].alloc \in Ptrs /\ (n # m => ma[n].alloc # ma[m].alloc)
  BY <1>1, LiveTyped DEF Inv, OwnershipInvariant, MemoryNeverShared
<1>5. \A n \in Live : Cardinality(FramesOf(n)') =
         IF m = n THEN Cardinality(FramesOf(n)) + 1 ELSE Cardinality(FramesOf(n))
  <2>1. [m |-> m, slot |-> loc[ma[m].alloc]] \in Frames
    BY <1>1, LiveHasSlot DEF Frames
  <2>2. frames' = Append(frames, [m |-> m, slot |-> loc[ma[m].alloc]])
    BY DEF MapBegin
  <2> QED BY <1>1, <2>1, <2>2, PushFrame
<1>6. \A n \in Live : mapCount[ma[n].alloc] = Cardinality(FramesOf(n))
  BY DEF MapsInv, MapsBalanced, FramesOf
<1>7. \A n \in Live : mapCount'[ma[n].alloc] = Cardinality(FramesOf(n)')
  BY <1>1, <1>4, <1>5, <1>6
<1>8. MapsBalanced'
  BY <1>1, <1>3, <1>7 DEF MapsBalanced, FramesOf
<1> QED BY <1>2, <1>8, NoDestinations DEF MapsInv

LEMMA MapEndMaps ==
  ASSUME Inv, MappedPointerValid, MapsInv, MapEnd
  PROVE  MapsInv'
<1> DEFINE m == frames[Len(frames)].m
<1>1. /\ TypeOK /\ pc = "idle" /\ frames # <<>> /\ frames' = PopFrames(1)
      /\ mapCount \in [Ptrs -> Int]
      /\ mapCount' = [mapCount EXCEPT ![ma[m].alloc] = @ - 1]
      /\ UNCHANGED <<ma, moves>>
  BY TypeConjuncts DEF Inv, MapEnd, ClientRuns, vmaUnmapMemory
<1>2. moves' = {}
  BY <1>1, NoPassWhenIdle
<1>3. Live' = Live
  BY <1>1 DEF Live
<1>4. m \in Live
  BY <1>1, PopFrame DEF MappedPointerValid
<1>5. \A n \in Live : ma[n].alloc \in Ptrs /\ (n # m => ma[n].alloc # ma[m].alloc)
  BY <1>1, <1>4, LiveTyped DEF Inv, OwnershipInvariant, MemoryNeverShared
<1>6. \A n \in Live : Cardinality(FramesOf(n)') =
         IF m = n THEN Cardinality(FramesOf(n)) - 1 ELSE Cardinality(FramesOf(n))
  BY <1>1, PopFrame
<1>7. \A n \in Live : mapCount[ma[n].alloc] = Cardinality(FramesOf(n))
  BY DEF MapsInv, MapsBalanced, FramesOf
<1>8. \A n \in Live : mapCount'[ma[n].alloc] = Cardinality(FramesOf(n)')
  <2> HIDE DEF m
  <2> QED BY <1>1, <1>4, <1>5, <1>6, <1>7
<1>9. MapsBalanced'
  BY <1>1, <1>3, <1>8 DEF MapsBalanced, FramesOf
<1> QED BY <1>2, <1>9, NoDestinations DEF MapsInv

LEMMA AllocateMaps ==
  ASSUME Inv, MapsInv, NEW m \in Mas, NEW r \in Res, NEW p \in Ptrs, NEW s \in Slots,
         NEW info \in CreateInfos, Allocate(m, r, p, s, info)
  PROVE  MapsInv'
<1>1. /\ pc = "idle" /\ frames = <<>> /\ UNCHANGED <<frames, moves>>
      /\ vmaAllocateMemory(p, s)
  BY DEF Allocate, ClientRuns, CanBorrowMut
<1>2. moves' = {}
  BY <1>1, NoPassWhenIdle
<1>3. \A n : Cardinality(FramesOf(n)) = 0 /\ FramesOf(n)' = FramesOf(n)
  BY <1>1, NoFrames DEF FramesOf
<1>4. \A n \in Live : mapCount[ma[n].alloc] = 0
  BY <1>3 DEF MapsInv, MapsBalanced, FramesOf
<1>5. /\ Live' = Live \cup {m}
      /\ ma'[m].alloc = p
      /\ \A n \in Mas \ {m} : ma'[n] = ma[n]
  BY AllocateLive
<1>6. \A n \in Live' : mapCount'[ma'[n].alloc] = 0
  <2>1. \A n \in Live' : n = m \/ (n \in Live /\ n \in Mas \ {m})
    BY <1>5 DEF Live
  <2>2. mapCount'[p] = 0 /\ \A n \in Live : mapCount'[ma[n].alloc] = mapCount[ma[n].alloc]
    BY <1>1, FreshPointerUnmapped
  <2> QED BY <1>4, <1>5, <2>1, <2>2
<1>7. MapsBalanced'
  BY <1>3, <1>6 DEF MapsBalanced, FramesOf
<1> QED BY <1>2, <1>7, NoDestinations DEF MapsInv

LEMMA FreeMaps ==
  ASSUME Inv, MapsInv, pc = "idle", NEW m \in Mas, FreeResource(m), UNCHANGED <<mapCount, frames, moves>>
  PROVE  MapsInv'
<1>1. moves' = {}
  BY NoPassWhenIdle
<1>2. Live' \subseteq Live /\ \A n \in Live' : ma'[n] = ma[n]
  BY FreeLive
<1> QED BY <1>1, <1>2, SameBalance, NoDestinations DEF MapsInv

LEMMA BeginPassMaps ==
  ASSUME Inv, MapsInv, NEW plan \in SUBSET Candidates,
         NEW targets \in [{mv.dst : mv \in plan} -> FreeSlots],
         BeginPass(plan, targets)
  PROVE  MapsInv'
<1>1. /\ mapCount' = [p \in Ptrs |-> IF \E mv \in plan : mv.dst = p THEN 0 ELSE mapCount[p]]
      /\ moves' = plan
      /\ UNCHANGED <<ma, frames>>
  BY DEF BeginPass, vmaBeginDefragmentationPass
<1>2. \A mv \in plan : mv.dst \in Ptrs /\ mv.dst \notin Allocated
  BY DEF Candidates
<1>3. \A m \in Live : ma[m].alloc \in Allocated /\ ma[m].alloc \in Ptrs
  BY DEF Inv, OwnershipInvariant, MemoryNeverShared, Allocated
<1>4. Live' = Live
  BY <1>1 DEF Live
<1>5. MapsBalanced'
  BY <1>1, <1>2, <1>3, <1>4, SameBalance DEF MapsInv
<1>6. DestinationsUnmapped'
  BY <1>1, <1>2 DEF DestinationsUnmapped, Destinations
<1> QED BY <1>5, <1>6 DEF MapsInv

LEMMA MapsStep ==
  ASSUME "closure" \notin Panics, "drop_in_map" \notin Panics
  PROVE  Inv /\ MappedPointerValid /\ MapsInv /\ [Next]_vars => MapsInv'
<1> SUFFICES ASSUME Inv, MappedPointerValid, MapsInv, [Next]_vars PROVE MapsInv'
  OBVIOUS
<1>1. CASE Client
  <2>0. pc = "idle"
    BY <1>1, ClientListShape
  <2>1. ASSUME NEW m \in Mas, NEW r \in Res, NEW p \in Ptrs, NEW s \in Slots,
               NEW info \in CreateInfos, Allocate(m, r, p, s, info)
        PROVE  MapsInv'
    BY <2>1, AllocateMaps
  <2>2. ASSUME NEW r \in Res, NEW p \in Ptrs, NEW s \in Slots, NEW info \in CreateInfos,
               AllocatePanicsOnBind(r, p, s, info)
        PROVE  MapsInv'
    <3>1. vmaAllocateMemory(p, s) /\ UNCHANGED <<ma, moves, frames>>
      BY <2>2 DEF AllocatePanicsOnBind, managedVars
    <3>2. moves' = {} /\ Live' = Live
      BY <2>0, <3>1, NoPassWhenIdle DEF Live
    <3> QED BY <3>1, <3>2, FreshPointerUnmapped, SameBalance, NoDestinations DEF MapsInv
  <2>3. ASSUME NEW r \in Res, NEW info \in CreateInfos, AllocatePanicsOnMemory(r, info)
        PROVE  MapsInv'
    BY <2>3, SameMa, SameMapsInv DEF AllocatePanicsOnMemory, managedVars, vmaVars
  <2>4. ASSUME NEW m \in Mas, DropHandle(m)
        PROVE  MapsInv'
    <3>1. CASE LastUserHandle(m)
      BY <2>0, <2>4, <3>1, FreeMaps DEF DropHandle
    <3>2. CASE ~LastUserHandle(m)
      BY <2>4, <3>2, SameMa, SameMapsInv DEF DropHandle
    <3> QED BY <3>1, <3>2
  <2>5. ASSUME NEW m \in Mas, Free(m)
        PROVE  MapsInv'
    BY <2>0, <2>5, FreeMaps DEF Free
  <2>6. ASSUME NEW m \in Mas, MapBegin(m)
        PROVE  MapsInv'
    BY <2>6, MapBeginMaps
  <2>7. CASE MapEnd
    BY <2>7, MapEndMaps
  <2>8. ASSUME NEW m \in Mas, transition_image(m)
        PROVE  MapsInv'
    BY <2>8, TransitionSame, SameMapsInv DEF transition_image
  <2>9. ASSUME NEW m \in Mas,
               \/ CloneHandle(m)
               \/ \E k \in 0 .. MaxMaps : DropHandlePanics(m, k)
        PROVE  MapsInv'
    BY <2>9, SameMa, SameMapsInv DEF CloneHandle, DropHandlePanics, vmaVars
  <2>10. ASSUME \/ \E i \in 1 .. MaxMaps, d \in Data : MapWrite(i, d)
                \/ \E k \in 1 .. MaxMaps : ClosurePanics(k)
                \/ CloneAllocatorHandle \/ DropAllocatorHandle \/ DefragBegin
         PROVE  MapsInv'
    BY <2>10, SameMa, SameMapsInv DEF MapWrite, ClosurePanics, CloneAllocatorHandle,
       DropAllocatorHandle, DefragBegin, vmaVars, managedVars
  <2> QED BY <1>1, <2>1, <2>2, <2>3, <2>4, <2>5, <2>6, <2>7, <2>8, <2>9, <2>10 DEF Client
<1>2. ASSUME NEW plan \in SUBSET Candidates,
             NEW targets \in [{mv.dst : mv \in plan} -> FreeSlots],
             BeginPass(plan, targets)
      PROVE  MapsInv'
  BY <1>2, BeginPassMaps
<1>3. CASE /\ Defrag \/ DefragPanics
           /\ UNCHANGED mapCount /\ moves' \in {{}, moves}
  BY <1>3, DefragFrames, DefragLiveStep, SameMapsInv
<1>4. CASE DefragPanics
  <2>1. UNCHANGED mapCount /\ moves' \in {{}, moves}
    BY <1>4 DEF DefragPanics, CreatePanics, BindPanics, SubmitPanics, WaitPanics, Unwind,
       vmaEndDefragmentation
  <2> QED BY <1>3, <1>4, <2>1
<1>5. CASE Defrag
  <2>1. CASE /\ ~\E plan \in SUBSET Candidates :
                   \E targets \in [{mv.dst : mv \in plan} -> FreeSlots] :
                     BeginPass(plan, targets)
    <3>1. UNCHANGED mapCount /\ moves' \in {{}, moves}
      BY <1>5, <2>1 DEF Defrag, NoMoreMoves, RecordMove, LookupPanics, Submit,
         WaitThenDestroyOld, EndPass, DefragEnd, Unwind, vmaEndDefragmentation,
         vmaEndDefragmentationPass, vmaVars
    <3> QED BY <1>3, <1>5, <3>1
  <2> QED BY <1>2, <2>1
<1>6. CASE Gpu \/ GpuDone \/ Terminated \/ UNCHANGED vars
  BY <1>6, SameMa, SameMapsInv DEF Gpu, GpuDone, GpuExecute, GpuSignal, Terminated, vars,
     vmaVars, managedVars
<1> QED BY <1>1, <1>4, <1>5, <1>6 DEF Next

LEMMA MapsInvariant ==
  ASSUME "closure" \notin Panics, "drop_in_map" \notin Panics
  PROVE  Spec => []MapsInv
<1>1. Init => MapsInv
  <2> SUFFICES ASSUME Init PROVE MapsInv
    OBVIOUS
  <2>1. Live = {} /\ moves = {}
    BY DEF Init, VmaInit, Live, NoMa
  <2> QED BY <2>1 DEF MapsInv, MapsBalanced, DestinationsUnmapped, Destinations
<1>2. BorrowInv => MappedPointerValid
  BY DEF BorrowInv
<1> QED BY <1>1, <1>2, InvInductive, BorrowInvariant, MapsStep, PTL DEF Spec

(* While no closure panics, an allocation is mapped exactly as often as    *)
(* map calls on it are on the stack; defrag neither maps nor loses one.    *)
THEOREM MapsAlwaysBalance ==
  ASSUME "closure" \notin Panics, "drop_in_map" \notin Panics
  PROVE  Spec => []MapsBalanced
<1>1. MapsInv => MapsBalanced
  BY DEF MapsInv
<1> QED BY <1>1, MapsInvariant, PTL

(* The allocations a step frees: those of a resource freed while no map    *)
(* call is on the stack, or the temporary ones of the pass that ends.      *)
LEMMA FreedByWhom ==
  ASSUME Inv, [Next]_vars, NEW p \in Allocated, loc'[p] = NoSlot
  PROVE  \/ frames = <<>> /\ \E m \in Live : p = ma[m].alloc
         \/ p \in Destinations
<1> DEFINE Freed == \/ frames = <<>> /\ \E m \in Live : p = ma[m].alloc
                    \/ p \in Destinations
<1>0. loc[p] # NoSlot /\ p \in Ptrs /\ loc \in [Ptrs -> Slots \cup {NoSlot}]
  BY TypeConjuncts DEF Inv, Allocated
<1>1. ASSUME NEW q \in Ptrs, NEW s \in Slots, vmaAllocateMemory(q, s)
      PROVE  FALSE
  BY <1>0, <1>1 DEF vmaAllocateMemory, Slots, NoSlot
<1>2. ASSUME NEW m \in Mas, FreeResource(m), CanBorrowMut
      PROVE  Freed
  BY <1>0, <1>2 DEF FreeResource, vmaFreeMemory, CanBorrowMut, Live
<1>3. ASSUME NEW plan \in SUBSET Candidates,
             NEW targets \in [{mv.dst : mv \in plan} -> FreeSlots],
             BeginPass(plan, targets)
      PROVE  FALSE
  BY <1>0, <1>3 DEF BeginPass, vmaBeginDefragmentationPass, Candidates
<1>4. CASE EndPass
  <2>1. CASE p \in Sources
    <3>1. loc'[p] = loc[(CHOOSE mv \in moves : mv.src = p).dst]
      BY <1>0, <1>4, <2>1 DEF EndPass, vmaEndDefragmentationPass
    <3>2. \E mv \in moves : mv.src = p
      BY <2>1 DEF Sources
    <3>3. (CHOOSE mv \in moves : mv.src = p).dst \in Allocated
      BY <3>2 DEF Inv, OwnershipInvariant, PassWellFormed
    <3> QED BY <3>1, <3>3 DEF Allocated
  <2>2. CASE p \notin Sources
    BY <1>0, <1>4, <2>2 DEF EndPass, vmaEndDefragmentationPass
  <2> QED BY <2>1, <2>2
<1>5. CASE UNCHANGED loc
  BY <1>0, <1>5
<1>6. CASE Client
  <2>1. \/ UNCHANGED loc
        \/ \E q \in Ptrs, s \in Slots : vmaAllocateMemory(q, s)
        \/ \E m \in Mas : FreeResource(m) /\ CanBorrowMut
    <3> USE DEF vmaVars, managedVars
    <3>1. ASSUME NEW m \in Mas, NEW r \in Res, NEW q \in Ptrs, NEW s \in Slots,
                 NEW info \in CreateInfos,
                 Allocate(m, r, q, s, info) \/ AllocatePanicsOnBind(r, q, s, info)
          PROVE  vmaAllocateMemory(q, s)
      BY <3>1 DEF Allocate, AllocatePanicsOnBind
    <3>2. ASSUME NEW m \in Mas, DropHandle(m) \/ Free(m)
          PROVE  UNCHANGED loc \/ (FreeResource(m) /\ CanBorrowMut)
      BY <3>2 DEF DropHandle, Free
    <3>3. ASSUME \/ \E r \in Res, info \in CreateInfos : AllocatePanicsOnMemory(r, info)
                 \/ \E m \in Mas :
                      \/ CloneHandle(m) \/ MapBegin(m) \/ transition_image(m)
                      \/ \E k \in 0 .. MaxMaps : DropHandlePanics(m, k)
                 \/ \E i \in 1 .. MaxMaps, d \in Data : MapWrite(i, d)
                 \/ MapEnd
                 \/ \E k \in 1 .. MaxMaps : ClosurePanics(k)
                 \/ CloneAllocatorHandle \/ DropAllocatorHandle \/ DefragBegin
          PROVE  UNCHANGED loc
      BY <3>3 DEF AllocatePanicsOnMemory, CloneHandle, MapBegin, transition_image,
         DropHandlePanics, MapWrite, MapEnd, ClosurePanics, CloneAllocatorHandle,
         DropAllocatorHandle, DefragBegin
    <3>4. ASSUME \E m \in Mas, r \in Res, q \in Ptrs, s \in Slots, info \in CreateInfos :
                   Allocate(m, r, q, s, info)
          PROVE  \E q \in Ptrs, s \in Slots : vmaAllocateMemory(q, s)
      BY <3>1, <3>4
    <3>5. ASSUME \E r \in Res, q \in Ptrs, s \in Slots, info \in CreateInfos :
                   AllocatePanicsOnBind(r, q, s, info)
          PROVE  \E q \in Ptrs, s \in Slots : vmaAllocateMemory(q, s)
      BY <3>5 DEF AllocatePanicsOnBind
    <3> QED BY <1>6, <3>2, <3>3, <3>4, <3>5 DEF Client
  <2> QED BY <1>1, <1>2, <1>5, <2>1
<1>7. CASE Defrag \/ DefragPanics
  <2>1. \/ UNCHANGED loc
        \/ EndPass
        \/ \E plan \in SUBSET Candidates :
             \E targets \in [{mv.dst : mv \in plan} -> FreeSlots] : BeginPass(plan, targets)
    BY <1>7 DEF Defrag, DefragPanics, NoMoreMoves, RecordMove, LookupPanics, Submit,
       WaitThenDestroyOld, DefragEnd, CreatePanics, BindPanics, SubmitPanics, WaitPanics,
       Unwind, vmaVars
  <2> QED BY <1>3, <1>4, <1>5, <2>1
<1>8. CASE Gpu \/ GpuDone \/ Terminated \/ UNCHANGED vars
  BY <1>5, <1>8 DEF Gpu, GpuDone, GpuExecute, GpuSignal, Terminated, vars, vmaVars
<1> QED BY <1>6, <1>7, <1>8 DEF Next

(* No allocation is freed while mapped, which VMA forbids: not by free,    *)
(* not by the drop of a last handle, not by the end of a pass.             *)
THEOREM NeverFreedWhileMapped ==
  ASSUME "closure" \notin Panics, "drop_in_map" \notin Panics
  PROVE  Spec => FreedOnlyUnmapped
<1>1. ASSUME Inv, MapsInv, [Next]_vars
      PROVE  \A p \in Allocated : loc'[p] = NoSlot => mapCount[p] = 0
  <2> SUFFICES ASSUME NEW p \in Allocated, loc'[p] = NoSlot PROVE mapCount[p] = 0
    OBVIOUS
  <2>1. CASE frames = <<>> /\ \E m \in Live : p = ma[m].alloc
    <3>1. \A m \in Live : mapCount[ma[m].alloc] = 0
      BY <1>1, <2>1, NoFrames DEF MapsInv, MapsBalanced, FramesOf
    <3> QED BY <2>1, <3>1
  <2>2. CASE p \in Destinations
    BY <1>1, <2>2 DEF MapsInv, DestinationsUnmapped
  <2> QED BY <1>1, <2>1, <2>2, FreedByWhom
<1>2. Inv /\ MapsInv /\ [Next]_vars
        => [\A p \in Allocated : loc'[p] = NoSlot => mapCount[p] = 0]_vars
  BY <1>1
<1> QED BY <1>2, InvInductive, MapsInvariant, PTL DEF Spec, FreedOnlyUnmapped
=============================================================================
