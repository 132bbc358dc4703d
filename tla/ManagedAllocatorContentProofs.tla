-------------------- MODULE ManagedAllocatorContentProofs --------------------
(***************************************************************************)
(* Theorems about what ManagedAllocator's copies do to layouts and to the  *)
(* content of resources; last, that it implements ResourceStore.           *)
(***************************************************************************)
EXTENDS ManagedAllocatorPassProofs

(* The tracked layout is the one the resource was created with, or the one *)
(* the client's transition left it in.                                     *)
LayoutOrigin == \A m \in Live : ma[m].layout \in {ma[m].info.initial, "GENERAL"}

(* c is the copy recorded for m's move mv: it reads the memory of the      *)
(* source allocation and the object m left behind, in the layout that      *)
(* object is in, and writes the temporary allocation's memory and m's new  *)
(* object, as much of it as VMA says m's allocation is long.               *)
CopyOf(c, mv, m) ==
  /\ ma[m].alloc = mv.src
  /\ c.src = loc[mv.src] /\ c.dst = loc[mv.dst]
  /\ c.to = ma[m].res /\ c.from \in old
  /\ c.size = AllocationSize(ma[m].info.size)
  /\ c.layout = ma[m].layout /\ c.layout # "UNDEFINED"
  /\ c.layout # "NONE" => imageLayout[c.from] = c.layout
  /\ c.layout = "NONE" => imageLayout[c.to] = "NONE"

(* Every copy not yet executed belongs to a move of the pass, and no two   *)
(* read the same object.                                                   *)
CopiesOfMoves ==
  /\ \A c \in cmds : \E mv \in Recorded, m \in Live : CopyOf(c, mv, m)
  /\ \A c, d \in cmds : c # d => c.from # d.from

(* A resource no copy is still to be made to is in the layout tracked.     *)
LayoutsTracked ==
  \A m \in Live :
    (\A c \in cmds : c.to # ma[m].res) => imageLayout[ma[m].res] = ma[m].layout

CopiesInv == LayoutOrigin /\ CopiesOfMoves /\ LayoutsTracked

(* A resource whose move is still to be recorded is the target of no copy. *)
LEMMA NoCopyBeforeRecording ==
  ASSUME Inv, CopiesOfMoves, NEW m \in Live, \A mv \in Recorded : mv.src # ma[m].alloc,
         NEW c \in cmds
  PROVE  c.to # ma[m].res
<1>1. PICK mv \in Recorded, n \in Live : CopyOf(c, mv, n)
  BY DEF CopiesOfMoves
<1>2. n # m => ma[n].res # ma[m].res
  BY DEF Inv, OwnershipInvariant, MemoryNeverShared
<1> QED BY <1>1, <1>2 DEF CopyOf

LEMMA RecordMoveCopies ==
  ASSUME Inv, Placed, CopiesInv,
         NEW mv \in Moves, NEW m \in Mas, NEW r \in Res, RecordMove(mv, m, r)
  PROVE  CopiesInv'
<1> DEFINE new == RecordedCopies(m, r, loc[mv.dst])
<1>1. /\ m \in Live /\ Live' = Live /\ ma[m].alloc = mv.src
      /\ Recorded' = Recorded \cup {mv}
      /\ \A nv \in Recorded : nv.src # mv.src
      /\ \A n \in Live : ma[n].res # r /\ (n # m => ma'[n] = ma[n] /\ ma[n].alloc # mv.src)
      /\ ma'[m].res = r /\ ma'[m].alloc = ma[m].alloc /\ ma'[m].layout = ma[m].layout
      /\ ma'[m].info = ma[m].info
      /\ r \notin objects
      /\ imageLayout' = [imageLayout EXCEPT ![r] = ma[m].info.initial]
      /\ cmds' = cmds \cup new
      /\ old' = old \cup {ma[m].res}
      /\ loc' = loc
  BY RecordMoveParts
<1>2. imageLayout \in [Res -> Layouts] /\ old \subseteq Res /\ old \subseteq objects
      /\ \A n \in Live : ma[n].res \in Res /\ ma[n].res \notin old
  BY TypeConjuncts, LiveTyped DEF Inv, OwnershipInvariant, OldIsOld
<1>3. /\ imageLayout'[r] = ma[m].info.initial
      /\ \A x \in Res : x # r => imageLayout'[x] = imageLayout[x]
  BY <1>1, <1>2
<1>4. imageLayout[ma[m].res] = ma[m].layout /\ bound[ma[m].res] = loc[mv.src]
  BY <1>1, NoCopyBeforeRecording DEF CopiesInv, LayoutsTracked, Placed, PlaceOf
<1>5. ma[m].layout \in {ma[m].info.initial, "GENERAL"}
  BY <1>1 DEF CopiesInv, LayoutOrigin
<1>6. LayoutOrigin'
  BY <1>1 DEF CopiesInv, LayoutOrigin
<1>7. ASSUME NEW c \in cmds
      PROVE  (\E nv \in Recorded, n \in Live : CopyOf(c, nv, n)') /\ c.from \in old
             /\ c.to # r
  <2>1. PICK nv \in Recorded, n \in Live : CopyOf(c, nv, n)
    BY DEF CopiesInv, CopiesOfMoves
  <2>2. n # m /\ ma'[n] = ma[n]
    BY <1>1, <2>1 DEF CopyOf
  <2>3. imageLayout'[c.from] = imageLayout[c.from] /\ imageLayout'[c.to] = imageLayout[c.to]
    BY <1>1, <1>2, <1>3, <2>1 DEF CopyOf
  <2>4. CopyOf(c, nv, n)'
    BY <1>1, <2>1, <2>2, <2>3 DEF CopyOf
  <2> QED BY <1>1, <2>1, <2>4 DEF CopyOf
<1>8. ASSUME NEW c \in new
      PROVE  CopyOf(c, mv, m)' /\ c.from = ma[m].res
  <2>1. /\ c.from = ma[m].res /\ c.to = r /\ c.src = bound[ma[m].res] /\ c.dst = loc[mv.dst]
        /\ c.layout = ma[m].layout /\ c.layout # "UNDEFINED"
        /\ c.size = AllocationSize(ma[m].info.size)
    BY DEF RecordedCopies
  <2> QED BY <1>1, <1>2, <1>3, <1>4, <1>5, <2>1 DEF CopyOf
<1>9. CopiesOfMoves'
  <2>1. \A c \in cmds' : \E nv \in Recorded', n \in Live' : CopyOf(c, nv, n)'
    BY <1>1, <1>7, <1>8
  <2>2. \A c, d \in new : c = d
    BY DEF RecordedCopies
  <2>3. \A c, d \in cmds' : c # d => c.from # d.from
    BY <1>1, <1>2, <1>7, <1>8, <2>2 DEF CopiesInv, CopiesOfMoves
  <2> QED BY <2>1, <2>3 DEF CopiesOfMoves
<1>10. LayoutsTracked'
  <2> SUFFICES ASSUME NEW n \in Live, \A c \in cmds' : c.to # ma'[n].res
               PROVE  imageLayout'[ma'[n].res] = ma'[n].layout
    BY <1>1 DEF LayoutsTracked
  <2>1. CASE n = m
    <3>1. new = {}
      BY <1>1, <2>1 DEF RecordedCopies
    <3>2. ma[m].layout = "UNDEFINED"
      BY <3>1 DEF RecordedCopies
    <3> QED BY <1>1, <1>3, <1>5, <2>1, <3>2
  <2>2. CASE n # m
    BY <1>1, <1>2, <1>3, <2>2 DEF CopiesInv, LayoutsTracked
  <2> QED BY <2>1, <2>2
<1> QED BY <1>6, <1>9, <1>10 DEF CopiesInv

LEMMA GpuCopies ==
  ASSUME Inv, CopiesInv, Gpu
  PROVE  CopiesInv'
<1>1. PICK c0 \in cmds : GpuExecute(c0)
  BY DEF Gpu
<1>2. /\ cmds' = cmds \ {c0}
      /\ imageLayout' = IF c0.layout = "NONE" THEN imageLayout
                        ELSE [imageLayout EXCEPT ![c0.from] = "TRANSFER_SRC",
                                                 ![c0.to] = c0.layout]
      /\ UNCHANGED <<loc, ma, moves, todo, old>>
  BY <1>1 DEF Gpu, GpuExecute, managedVars
<1>3. Live' = Live /\ Recorded' = Recorded
  BY <1>2 DEF Live, Recorded
<1>4. PICK mv0 \in Recorded, m0 \in Live : CopyOf(c0, mv0, m0)
  BY DEF CopiesInv, CopiesOfMoves
<1>5. /\ imageLayout \in [Res -> Layouts] /\ old \subseteq Res
      /\ \A n \in Live : /\ ma[n].res \in Res /\ ma[n].res \notin old
                         /\ n # m0 => ma[n].res # ma[m0].res
  BY TypeConjuncts, LiveTyped DEF Inv, OwnershipInvariant, OldIsOld, MemoryNeverShared
<1>6. c0.to = ma[m0].res /\ c0.from \in old /\ c0.layout = ma[m0].layout
      /\ (c0.layout = "NONE" => imageLayout[c0.to] = "NONE")
  BY <1>4 DEF CopyOf
<1>7. /\ \A x \in Res : x # c0.from /\ x # c0.to => imageLayout'[x] = imageLayout[x]
      /\ c0.layout = "NONE" => imageLayout' = imageLayout
      /\ imageLayout'[c0.to] = c0.layout
  BY <1>2, <1>5, <1>6
<1>8. LayoutOrigin'
  BY <1>2, <1>3 DEF CopiesInv, LayoutOrigin
<1>9. ASSUME NEW c \in cmds'
      PROVE  \E mv \in Recorded, m \in Live : CopyOf(c, mv, m)'
  <2>1. c \in cmds /\ c # c0
    BY <1>2
  <2>2. PICK mv \in Recorded, m \in Live : CopyOf(c, mv, m)
    BY <2>1 DEF CopiesInv, CopiesOfMoves
  <2>3. c.from # c0.from
    BY <2>1 DEF CopiesInv, CopiesOfMoves
  <2>4. imageLayout'[c.from] = imageLayout[c.from]
    BY <1>5, <1>6, <1>7, <2>2, <2>3 DEF CopyOf
  <2>5. c.layout = "NONE" => imageLayout'[c.to] = "NONE"
    <3>1. CASE m = m0
      BY <1>6, <1>7, <2>2, <3>1 DEF CopyOf
    <3>2. CASE m # m0
      BY <1>5, <1>6, <1>7, <2>2, <3>2 DEF CopyOf
    <3> QED BY <3>1, <3>2
  <2> QED BY <1>2, <2>2, <2>4, <2>5 DEF CopyOf
<1>10. CopiesOfMoves'
  BY <1>2, <1>3, <1>9 DEF CopiesInv, CopiesOfMoves
<1>11. LayoutsTracked'
  <2> SUFFICES ASSUME NEW n \in Live, \A c \in cmds \ {c0} : c.to # ma[n].res
               PROVE  imageLayout'[ma[n].res] = ma[n].layout
    BY <1>2, <1>3 DEF LayoutsTracked
  <2>1. CASE n = m0
    BY <1>6, <1>7, <2>1
  <2>2. CASE n # m0
    <3>1. \A c \in cmds : c.to # ma[n].res
      BY <1>5, <1>6, <2>2
    <3>2. imageLayout[ma[n].res] = ma[n].layout
      BY <3>1 DEF CopiesInv, LayoutsTracked
    <3> QED BY <1>5, <1>6, <1>7, <2>2, <3>2
  <2> QED BY <2>1, <2>2
<1> QED BY <1>8, <1>10, <1>11 DEF CopiesInv

(* With no copy outstanding the invariant is about the layouts alone.      *)
LEMMA NoCopies ==
  ASSUME cmds' = {}, LayoutOrigin',
         \A m \in Live' : imageLayout'[ma'[m].res] = ma'[m].layout
  PROVE  CopiesInv'
BY DEF CopiesInv, CopiesOfMoves, LayoutsTracked

LEMMA SameLayouts ==
  ASSUME CopiesInv, cmds = {}, cmds' = {}, UNCHANGED ma,
         \A m \in Live : imageLayout'[ma[m].res] = imageLayout[ma[m].res]
  PROVE  CopiesInv'
<1>1. LayoutOrigin' /\ Live' = Live
  BY DEF CopiesInv, LayoutOrigin, Live
<1>2. \A m \in Live : imageLayout[ma[m].res] = ma[m].layout
  BY DEF CopiesInv, LayoutsTracked
<1> QED BY <1>1, <1>2, NoCopies

LEMMA ClientCopies ==
  ASSUME NoPassPanics, PassBase, CopiesInv, Client
  PROVE  CopiesInv'
<1>0. Inv /\ ListInv
  BY DEF PassBase
<1>1. cmds = {} /\ cmds' = {}
  BY ClientDevice DEF PassBase, QuietInv, GpuQuietOutsidePass
<1>2. /\ imageLayout \in [Res -> Layouts]
      /\ \A n \in Live : n \in Mas /\ ma[n].res \in Res
  BY <1>0, TypeConjuncts, LiveTyped DEF Inv
<1>3. \A m \in Live : /\ imageLayout[ma[m].res] = ma[m].layout
                      /\ ma[m].layout \in {ma[m].info.initial, "GENERAL"}
  BY <1>1 DEF CopiesInv, LayoutsTracked, LayoutOrigin
<1>4. ASSUME NEW m \in Mas, NEW r \in Res, NEW p \in Ptrs, NEW s \in Slots,
             NEW info \in CreateInfos, Allocate(m, r, p, s, info)
      PROVE  CopiesInv'
  <2>1. /\ Live' = Live \cup {m} /\ m \notin Live
        /\ \A n \in Mas \ {m} : ma'[n] = ma[n]
        /\ ma'[m].res = r /\ ma'[m].layout = info.initial /\ ma'[m].info = info
        /\ \A n \in Live : ma[n].res # r
        /\ imageLayout' = [imageLayout EXCEPT ![r] = info.initial]
    BY <1>0, <1>4, AllocateParts
  <2>2. \A n \in Live : ma'[n] = ma[n] /\ imageLayout'[ma[n].res] = imageLayout[ma[n].res]
    BY <1>2, <2>1
  <2>3. imageLayout'[r] = info.initial
    BY <1>2, <2>1
  <2>4. \A n \in Live' : /\ imageLayout'[ma'[n].res] = ma'[n].layout
                         /\ ma'[n].layout \in {ma'[n].info.initial, "GENERAL"}
    BY <1>3, <2>1, <2>2, <2>3
  <2> QED BY <1>1, <2>4, NoCopies DEF LayoutOrigin
<1>5. ASSUME NEW m \in Live, FreeResource(m)
      PROVE  CopiesInv'
  <2>1. /\ Live' = Live \ {m}
        /\ \A n \in Live' : ma'[n] = ma[n] /\ ma[n].res # ma[m].res
        /\ \A r \in Res \ {ma[m].res} : imageLayout'[r] = imageLayout[r]
    BY <1>0, <1>2, <1>5, FreeParts
  <2>2. \A n \in Live' : /\ imageLayout'[ma'[n].res] = ma'[n].layout
                         /\ ma'[n].layout \in {ma'[n].info.initial, "GENERAL"}
    BY <1>2, <1>3, <2>1
  <2> QED BY <1>1, <2>2, NoCopies DEF LayoutOrigin
<1>6. ASSUME NEW m \in Mas, transition_image(m)
      PROVE  CopiesInv'
  <2>1. /\ m \in Live /\ Live' = Live
        /\ \A n \in Live : /\ n # m => ma'[n] = ma[n] /\ ma[n].res # ma[m].res
                           /\ ma'[n].res = ma[n].res
        /\ ma'[m].layout = "GENERAL"
        /\ imageLayout' = [imageLayout EXCEPT ![ma[m].res] = "GENERAL"]
    BY <1>0, <1>6, TransitionParts
  <2>2. \A n \in Live' : /\ imageLayout'[ma'[n].res] = ma'[n].layout
                         /\ ma'[n].layout \in {ma'[n].info.initial, "GENERAL"}
    BY <1>2, <1>3, <2>1
  <2> QED BY <1>1, <2>2, NoCopies DEF LayoutOrigin
<1>7. ASSUME NEW r \in Res, NEW info \in CreateInfos, AllocatePanicsOnMemory(r, info)
      PROVE  CopiesInv'
  BY <1>0, <1>1, <1>7, LeakedParts, SameLayouts
<1>8. ASSUME \/ \E i \in 1 .. MaxMaps, d \in Data : MapWrite(i, d)
             \/ UNCHANGED <<loc, mem, objects, bound, imageLayout, ma>>
      PROVE  CopiesInv'
  BY <1>1, <1>8, SameLayouts DEF MapWrite, deviceVars, managedVars
<1> QED BY <1>4, <1>5, <1>6, <1>7, <1>8, ClientShape DEF NoPassPanics

LEMMA CopiesStep ==
  ASSUME NoPassPanics
  PROVE  PassBase /\ Placed /\ CopiesInv /\ [Next]_vars => CopiesInv'
<1> SUFFICES ASSUME PassBase, Placed, CopiesInv, [Next]_vars PROVE CopiesInv'
  OBVIOUS
<1>0. Inv /\ ListInv /\ AllocationsAccounted /\ GpuInv /\ QuietInv
  BY DEF PassBase
<1>1. CASE Client
  BY <1>1, ClientCopies
<1>2. ASSUME NEW plan \in SUBSET Candidates,
             NEW targets \in [{mv.dst : mv \in plan} -> FreeSlots],
             BeginPass(plan, targets)
      PROVE  CopiesInv'
  <2>1. UNCHANGED <<ma, imageLayout>> /\ cmds = {} /\ cmds' = {}
    BY <1>0, <1>2 DEF BeginPass, BeginCommandBuffer, QuietInv, GpuQuietOutsidePass
  <2> QED BY <2>1, SameLayouts
<1>3. ASSUME NEW mv \in Moves, NEW m \in Mas, NEW r \in Res, RecordMove(mv, m, r)
      PROVE  CopiesInv'
  BY <1>0, <1>3, RecordMoveCopies
<1>4. CASE WaitThenDestroyOld
  <2>1. cmds = {} /\ cmds' = {}
    BY <1>0, <1>4 DEF WaitThenDestroyOld, FenceSignaled, GpuInv
  <2> QED BY <1>0, <1>4, <2>1, DestroyOldParts, SameLayouts
<1>5. CASE EndPass
  <2>1. cmds = {} /\ UNCHANGED <<cmds, ma, imageLayout>>
    BY <1>0, <1>5 DEF EndPass, deviceVars, QuietInv, GpuQuietOutsidePass
  <2> QED BY <2>1, SameLayouts
<1>6. CASE UNCHANGED <<loc, ma, moves, todo, old, cmds, imageLayout>>
  <2>1. Live' = Live /\ Recorded' = Recorded
    BY <1>6 DEF Live, Recorded
  <2>2. \A c, mv, m : CopyOf(c, mv, m)' <=> CopyOf(c, mv, m)
    BY <1>6 DEF CopyOf
  <2> QED BY <1>6, <2>1, <2>2 DEF CopiesInv, LayoutOrigin, CopiesOfMoves, LayoutsTracked
<1>7. CASE QuietDefrag
  BY <1>0, <1>6, <1>7, QuietDefragStep
<1>8. CASE Gpu
  BY <1>0, <1>8, GpuCopies
<1>9. CASE GpuDone \/ Terminated \/ UNCHANGED vars
  BY <1>6, <1>9 DEF GpuDone, GpuSignal, Terminated, vars, vmaVars, deviceVars, managedVars
<1> QED BY <1>0, <1>1, <1>2, <1>3, <1>4, <1>5, <1>7, <1>8, <1>9, NoDefragPanics, DefragShape
    DEF Next

LEMMA CopiesInvariant ==
  ASSUME NoPassPanics
  PROVE  Spec => []CopiesInv
<1>1. Init => CopiesInv
  <2> SUFFICES ASSUME Init PROVE CopiesInv
    OBVIOUS
  <2>1. Live = {} /\ cmds = {}
    BY DEF Init, DeviceInit, Live, NoMa
  <2> QED BY <2>1 DEF CopiesInv, LayoutOrigin, CopiesOfMoves, LayoutsTracked
<1> QED BY <1>1, PassBaseInvariant, PlacedInvariant, CopiesStep, PTL DEF Spec

(* Between operations every image is in the layout the allocator tracks    *)
(* for it, whichever of defrag's barriers and the client's transitions it  *)
(* went through.                                                           *)
THEOREM LayoutsStayTracked ==
  ASSUME NoPassPanics
  PROVE  Spec => []LayoutTracked
<1>1. PassBase /\ CopiesInv => LayoutTracked
  BY DEF PassBase, QuietInv, GpuQuietOutsidePass, CopiesInv, LayoutsTracked, LayoutTracked
<1> QED BY <1>1, PassBaseInvariant, CopiesInvariant, PTL

(* Without rounding an allocation is as long as its resource.              *)
LEMMA ExactSizes ==
  ASSUME Align = 1, NEW n \in Sizes
  PROVE  AllocationSize(n) = n
<1>1. n \in Nat
  BY ManagedAssumption DEF ManagedAssumption
<1> QED BY <1>1 DEF AllocationSize

(* The copy of a move stays within the resource it moves as long as VMA    *)
(* rounds up no size the client asks for: that AllocationInfo's size is    *)
(* taken for the resource's is the only way to copy too much.              *)
THEOREM CopiesStayWithin ==
  ASSUME NoPassPanics, \A n \in Sizes : AllocationSize(n) = n
  PROVE  Spec => []CopyWithinResource
<1>1. Inv /\ CopiesInv => CopyWithinResource
  <2> SUFFICES ASSUME Inv, CopiesInv, NEW c \in cmds, NEW m \in Live, c.to = ma[m].res
               PROVE  c.size <= ma[m].info.size
    BY DEF CopyWithinResource
  <2>1. PICK mv \in Recorded, n \in Live : CopyOf(c, mv, n)
    BY DEF CopiesInv, CopiesOfMoves
  <2>2. n = m
    BY <2>1 DEF CopyOf, Inv, OwnershipInvariant, MemoryNeverShared
  <2>3. ma[m].info.size \in Sizes /\ ma[m].info.size \in Nat
    BY LiveTyped, InitialLayoutType, ManagedAssumption
       DEF Inv, ManagedAllocations, ManagedAssumption
  <2> QED BY <2>1, <2>2, <2>3 DEF CopyOf
<1> QED BY <1>1, InvInductive, CopiesInvariant, PTL

(* So it is where VMA does not round at all.                               *)
COROLLARY CopiesStayWithinUnrounded ==
  ASSUME NoPassPanics, Align = 1
  PROVE  Spec => []CopyWithinResource
BY CopiesStayWithin, ExactSizes
-----------------------------------------------------------------------------
(* Memory no allocation has holds nothing: a new resource starts without   *)
(* content, whoever had its memory before.                                 *)
FreeUndefined == \A s \in FreeSlots : mem[s] = Undefined

(* A recorded move's content has reached the temporary allocation, or its  *)
(* copy is still to be executed.                                           *)
Copied ==
  \A mv \in Recorded, m \in Live :
    mv.src = ma[m].alloc /\ ma[m].layout # "UNDEFINED" =>
      (\E c \in cmds : c.to = ma[m].res) \/ mem[loc[mv.dst]] = mem[loc[mv.src]]

ContentInv == FreeUndefined /\ Copied

(* The slots of allocations, of moves and of map calls, as needed below.   *)
LEMMA AllocatedSlots ==
  ASSUME Inv
  PROVE  /\ \A p \in Allocated : p \in Ptrs /\ loc[p] \in Slots /\ loc[p] \notin FreeSlots
         /\ \A p, q \in Allocated : p # q => loc[p] # loc[q]
         /\ \A m \in Live : ma[m].alloc \in Allocated
         /\ \A mv \in moves : mv.src \in Allocated /\ mv.dst \in Allocated
         /\ \A mv, nv \in moves : mv.src # nv.dst
         /\ \A mv, nv \in moves : mv # nv => mv.src # nv.src /\ mv.dst # nv.dst
         /\ \A mv \in moves, m \in Live : ma[m].alloc # mv.dst
         /\ mem \in [Slots -> Contents]
<1>1. loc \in [Ptrs -> Slots \cup {NoSlot}] /\ mem \in [Slots -> Contents]
  BY TypeConjuncts DEF Inv
<1>2. \A p \in Allocated : p \in Ptrs /\ loc[p] \in Slots /\ loc[p] \notin FreeSlots
  BY <1>1 DEF Allocated, FreeSlots
<1> QED BY <1>1, <1>2 DEF Inv, OwnershipInvariant, AllocationsDisjoint, MemoryNeverShared,
   PassWellFormed

(* Without PREINITIALIZED images every layout can be restored after a copy.*)
LEMMA LayoutRestorable ==
  ASSUME Inv, LayoutOrigin, "PREINITIALIZED" \notin InitialLayouts, NEW m \in Live
  PROVE  ma[m].layout # "PREINITIALIZED"
<1>1. ma[m].info \in CreateInfos /\ ma[m].layout \in {ma[m].info.initial, "GENERAL"}
  BY LiveTyped DEF Inv, LayoutOrigin
<1>2. ma[m].info.initial \in {"NONE"} \cup InitialLayouts
  BY <1>1 DEF CreateInfos, BufferCreateInfos, ImageCreateInfos
<1> QED BY <1>1, <1>2

(* Such a copy delivers what it read.                                      *)
LEMMA CopyDelivers ==
  ASSUME Inv, CopiesInv, "PREINITIALIZED" \notin InitialLayouts,
         NEW c \in cmds, NEW mv \in Recorded, NEW m \in Live, CopyOf(c, mv, m)
  PROVE  Delivered(c) = mem[loc[mv.src]]
<1>1. c.layout = ma[m].layout /\ c.layout # "UNDEFINED" /\ c.src = loc[mv.src]
      /\ (c.layout # "NONE" => imageLayout[c.from] = c.layout)
  BY DEF CopyOf
<1>2. c.layout # "PREINITIALIZED"
  BY <1>1, LayoutRestorable DEF CopiesInv
<1> QED BY <1>1, <1>2 DEF Delivered, RestorableLayout

LEMMA GpuContent ==
  ASSUME Inv, CopiesInv, "PREINITIALIZED" \notin InitialLayouts, ContentInv, Gpu
  PROVE  ContentInv'
<1>1. PICK c0 \in cmds : GpuExecute(c0)
  BY DEF Gpu
<1>2. /\ cmds' = cmds \ {c0}
      /\ mem' = [mem EXCEPT ![c0.dst] = Delivered(c0)]
      /\ UNCHANGED <<loc, ma, moves, todo>>
  BY <1>1 DEF Gpu, GpuExecute, managedVars
<1>3. Live' = Live /\ Recorded' = Recorded /\ FreeSlots' = FreeSlots
  BY <1>2 DEF Live, Recorded, FreeSlots
<1>4. PICK mv0 \in Recorded, m0 \in Live : CopyOf(c0, mv0, m0)
  BY DEF CopiesInv, CopiesOfMoves
<1>5. mv0 \in moves /\ mv0.src = ma[m0].alloc /\ c0.to = ma[m0].res /\ c0.dst = loc[mv0.dst]
  BY <1>4 DEF CopyOf, Recorded
<1>6. c0.dst \in Slots /\ c0.dst \notin FreeSlots /\ mem \in [Slots -> Contents]
  BY <1>5, AllocatedSlots
<1>7. /\ mem'[c0.dst] = mem[loc[mv0.src]]
      /\ \A s \in Slots : s # c0.dst => mem'[s] = mem[s]
  BY <1>2, <1>4, <1>6, CopyDelivers
<1>8. FreeUndefined'
  BY <1>3, <1>6, <1>7 DEF ContentInv, FreeUndefined, FreeSlots
<1>9. Copied'
  <2> SUFFICES ASSUME NEW mv \in Recorded, NEW m \in Live,
                      mv.src = ma[m].alloc, ma[m].layout # "UNDEFINED",
                      \A c \in cmds \ {c0} : c.to # ma[m].res
               PROVE  mem'[loc[mv.dst]] = mem'[loc[mv.src]]
    BY <1>2, <1>3 DEF Copied
  <2>1. mv \in moves
    BY DEF Recorded
  <2>2. /\ loc[mv.src] \in Slots /\ loc[mv.dst] \in Slots
        /\ loc[mv.src] # loc[mv0.dst]
        /\ mv # mv0 => loc[mv.dst] # loc[mv0.dst]
    BY <1>5, <2>1, AllocatedSlots
  <2>3. CASE mv = mv0
    BY <1>5, <1>7, <2>2, <2>3
  <2>4. CASE mv # mv0
    <3>1. m # m0
      BY <1>5, <2>1, <2>4, AllocatedSlots
    <3>2. \A c \in cmds : c.to # ma[m].res
      BY <1>5, <3>1 DEF Inv, OwnershipInvariant, MemoryNeverShared
    <3>3. mem[loc[mv.dst]] = mem[loc[mv.src]]
      BY <3>2 DEF ContentInv, Copied
    <3> QED BY <1>5, <1>7, <2>2, <2>4, <3>3
  <2> QED BY <2>3, <2>4
<1> QED BY <1>8, <1>9 DEF ContentInv

LEMMA RecordMoveContent ==
  ASSUME Inv, ContentInv, NEW mv \in Moves, NEW m \in Mas, NEW r \in Res, RecordMove(mv, m, r)
  PROVE  ContentInv'
<1>1. /\ m \in Live /\ Live' = Live
      /\ Recorded' = Recorded \cup {mv}
      /\ ma[m].alloc = mv.src
      /\ \A nv \in Recorded : nv.src # mv.src
      /\ \A n \in Live : n # m => ma'[n] = ma[n] /\ ma[n].alloc # mv.src
      /\ ma'[m].res = r /\ ma'[m].alloc = ma[m].alloc /\ ma'[m].layout = ma[m].layout
      /\ cmds' = cmds \cup RecordedCopies(m, r, loc[mv.dst])
      /\ UNCHANGED <<loc, mem>>
  BY RecordMoveParts
<1>2. FreeUndefined'
  BY <1>1 DEF ContentInv, FreeUndefined, FreeSlots
<1>3. Copied'
  <2> SUFFICES ASSUME NEW nv \in Recorded \cup {mv}, NEW n \in Live,
                      nv.src = ma'[n].alloc, ma'[n].layout # "UNDEFINED"
               PROVE  (\E c \in cmds' : c.to = ma'[n].res) \/ mem[loc[nv.dst]] = mem[loc[nv.src]]
    BY <1>1 DEF Copied
  <2>1. CASE n = m
    <3>1. \E c \in RecordedCopies(m, r, loc[mv.dst]) : c.to = r
      BY <1>1, <2>1 DEF RecordedCopies
    <3> QED BY <1>1, <2>1, <3>1
  <2>2. CASE n # m
    BY <1>1, <2>2 DEF ContentInv, Copied
  <2> QED BY <2>1, <2>2
<1> QED BY <1>2, <1>3 DEF ContentInv

(* The end of a pass turns the slots the moved allocations leave into free *)
(* memory without content, and touches no other.                           *)
LEMMA EndPassMem ==
  ASSUME Inv, EndPass
  PROVE  /\ \A mv \in moves : mem'[loc[mv.src]] = Undefined
         /\ \A s \in Slots : (\A mv \in moves : loc[mv.src] # s) => mem'[s] = mem[s]
<1>1. mem' = [s \in Slots |-> IF \E mv \in moves : loc[mv.src] = s THEN Undefined ELSE mem[s]]
  BY DEF EndPass, vmaEndDefragmentationPass
<1> QED BY <1>1, AllocatedSlots

LEMMA EndPassContent ==
  ASSUME Inv, ContentInv, EndPass
  PROVE  ContentInv'
<1>1. Recorded' = {}
  BY DEF EndPass, vmaEndDefragmentationPass, Recorded
<1>2. Copied'
  BY <1>1 DEF Copied
<1>3. FreeUndefined'
  <2> SUFFICES ASSUME NEW s \in FreeSlots' PROVE mem'[s] = Undefined
    BY DEF FreeUndefined
  <2>1. s \in Slots /\ \A p \in Ptrs : loc'[p] # s
    BY DEF FreeSlots
  <2>2. CASE \E mv \in moves : loc[mv.src] = s
    BY <2>2, EndPassMem
  <2>3. CASE \A mv \in moves : loc[mv.src] # s
    <3>1. \A p \in Ptrs : loc[p] # s
      <4> SUFFICES ASSUME NEW p \in Ptrs, loc[p] = s PROVE FALSE
        OBVIOUS
      <4>1. p \notin Sources
        BY <2>3 DEF Sources
      <4>2. CASE p \in Destinations
        <5>1. PICK mv \in moves : mv.dst = p
          BY <4>2 DEF Destinations
        <5>2. loc'[mv.src] = s /\ mv.src \in Ptrs
          BY <5>1, EndPassLoc
        <5> QED BY <2>1, <5>2
      <4>3. CASE p \notin Destinations
        BY <2>1, <4>1, <4>3, EndPassLoc
      <4> QED BY <4>2, <4>3
    <3>2. mem[s] = Undefined
      BY <2>1, <3>1 DEF ContentInv, FreeUndefined, FreeSlots
    <3> QED BY <2>1, <2>3, <3>2, EndPassMem
  <2> QED BY <2>2, <2>3
<1> QED BY <1>2, <1>3 DEF ContentInv

LEMMA ClientContent ==
  ASSUME NoPassPanics, PassBase, Placed, MappedPointerValid, ContentInv, Client
  PROVE  ContentInv'
<1>0. Inv /\ ListInv
  BY DEF PassBase
<1>1. Recorded' = {}
  BY <1>0, NoPassWhenIdle, ClientDevice DEF Recorded
<1>2. Copied'
  BY <1>1 DEF Copied
<1>3. /\ mem \in [Slots -> Contents] /\ loc \in [Ptrs -> Slots \cup {NoSlot}]
      /\ \A s \in FreeSlots : s \in Slots /\ mem[s] = Undefined
  BY <1>0, TypeConjuncts DEF Inv, ContentInv, FreeUndefined, FreeSlots
<1> SUFFICES \A s \in FreeSlots' : mem'[s] = Undefined
  BY <1>2 DEF ContentInv, FreeUndefined
<1> DEFINE Goal == \A s \in FreeSlots' : mem'[s] = Undefined
<1>4. ASSUME NEW m \in Mas, NEW r \in Res, NEW p \in Ptrs, NEW s \in Slots,
             NEW info \in CreateInfos, Allocate(m, r, p, s, info)
      PROVE  Goal
  <2>1. p \notin Allocated /\ loc' = [loc EXCEPT ![p] = s] /\ mem' = mem
    BY <1>4 DEF Allocate, vmaAllocateMemory
  <2>2. FreeSlots' \subseteq FreeSlots
    <3>1. \A q \in Ptrs : loc[q] # NoSlot => loc'[q] = loc[q]
      BY <1>3, <2>1 DEF Allocated
    <3> QED BY <3>1 DEF FreeSlots, Slots, NoSlot
  <2> QED BY <1>3, <2>1, <2>2
<1>5. ASSUME NEW m \in Live, FreeResource(m)
      PROVE  Goal
  <2>1. /\ loc' = [loc EXCEPT ![ma[m].alloc] = NoSlot]
        /\ mem' = [mem EXCEPT ![loc[ma[m].alloc]] = Undefined]
        /\ ma[m].alloc \in Allocated
    BY <1>0, <1>5, FreeParts, AllocatedSlots DEF Live
  <2>2. FreeSlots' \subseteq FreeSlots \cup {loc[ma[m].alloc]}
    BY <1>3, <2>1 DEF FreeSlots
  <2>3. loc[ma[m].alloc] \in Slots
    BY <1>0, <2>1, AllocatedSlots
  <2> QED BY <1>3, <2>1, <2>2, <2>3
<1>6. ASSUME NEW m \in Mas, transition_image(m)
      PROVE  Goal
  BY <1>3, <1>6 DEF transition_image, FreeSlots
<1>7. ASSUME NEW r \in Res, NEW info \in CreateInfos, AllocatePanicsOnMemory(r, info)
      PROVE  Goal
  BY <1>3, <1>7 DEF AllocatePanicsOnMemory, vmaVars, FreeSlots
<1>8. ASSUME NEW i \in 1 .. MaxMaps, NEW d \in Data, MapWrite(i, d)
      PROVE  Goal
  <2>1. frames[i].slot \notin FreeSlots
    <3>1. frames[i].m \in Live /\ frames[i].slot = loc[ma[frames[i].m].alloc]
      BY <1>8 DEF MapWrite, MappedPointerValid
    <3> QED BY <1>0, <3>1, AllocatedSlots
  <2>2. mem' = [mem EXCEPT ![frames[i].slot] = d] /\ UNCHANGED loc
    BY <1>8 DEF MapWrite
  <2> QED BY <1>3, <2>1, <2>2 DEF FreeSlots
<1>9. CASE UNCHANGED <<loc, mem, objects, bound, imageLayout, ma>>
  BY <1>3, <1>9 DEF FreeSlots
<1> QED BY <1>4, <1>5, <1>6, <1>7, <1>8, <1>9, ClientShape DEF NoPassPanics

LEMMA ContentStep ==
  ASSUME NoPassPanics, "PREINITIALIZED" \notin InitialLayouts
  PROVE  PassBase /\ Placed /\ MappedPointerValid /\ CopiesInv /\ ContentInv /\ [Next]_vars
           => ContentInv'
<1> SUFFICES ASSUME PassBase, Placed, MappedPointerValid, CopiesInv, ContentInv, [Next]_vars
             PROVE  ContentInv'
  OBVIOUS
<1>0. Inv /\ ListInv /\ AllocationsAccounted /\ GpuInv /\ QuietInv
  BY DEF PassBase
<1>1. CASE Client
  BY <1>1, ClientContent
<1>2. ASSUME NEW plan \in SUBSET Candidates,
             NEW targets \in [{mv.dst : mv \in plan} -> FreeSlots],
             BeginPass(plan, targets)
      PROVE  ContentInv'
  <2>1. Recorded' = {} /\ FreeSlots' \subseteq FreeSlots /\ UNCHANGED mem
    BY <1>0, <1>2, BeginPassParts DEF Recorded
  <2> QED BY <2>1 DEF ContentInv, FreeUndefined, Copied
<1>3. ASSUME NEW mv \in Moves, NEW m \in Mas, NEW r \in Res, RecordMove(mv, m, r)
      PROVE  ContentInv'
  BY <1>0, <1>3, RecordMoveContent
<1>4. CASE UNCHANGED <<loc, mem, ma, moves, todo, cmds>>
  <2>1. Live' = Live /\ Recorded' = Recorded /\ FreeSlots' = FreeSlots
    BY <1>4 DEF Live, Recorded, FreeSlots
  <2> QED BY <1>4, <2>1 DEF ContentInv, FreeUndefined, Copied
<1>5. CASE WaitThenDestroyOld
  BY <1>0, <1>4, <1>5, DestroyOldParts
<1>6. CASE EndPass
  BY <1>0, <1>6, EndPassContent
<1>7. CASE QuietDefrag
  BY <1>0, <1>4, <1>7, QuietDefragStep
<1>8. CASE Gpu
  BY <1>0, <1>8, GpuContent
<1>9. CASE GpuDone \/ Terminated \/ UNCHANGED vars
  BY <1>4, <1>9 DEF GpuDone, GpuSignal, Terminated, vars, vmaVars, deviceVars, managedVars
<1> QED BY <1>0, <1>1, <1>2, <1>3, <1>5, <1>6, <1>7, <1>8, <1>9, NoDefragPanics, DefragShape
    DEF Next

LEMMA ContentInvariant ==
  ASSUME NoPassPanics, "PREINITIALIZED" \notin InitialLayouts
  PROVE  Spec => []ContentInv
<1>1. Init => ContentInv
  <2> SUFFICES ASSUME Init PROVE ContentInv
    OBVIOUS
  <2>1. mem = [s \in Slots |-> Undefined] /\ Live = {}
    BY DEF Init, VmaInit, Live, NoMa
  <2> QED BY <2>1 DEF ContentInv, FreeUndefined, FreeSlots, Copied
<1>2. BorrowInv => MappedPointerValid
  BY DEF BorrowInv
<1> QED BY <1>1, <1>2, PassBaseInvariant, PlacedInvariant, CopiesInvariant, BorrowInvariant,
    ContentStep, PTL DEF Spec
-----------------------------------------------------------------------------
(* The simulation: every step of the allocator is one operation of the     *)
(* store, or changes nothing the store's client can see.                   *)
StoreBase ==
  PassBase /\ Placed /\ MappedPointerValid /\ CopiesInv /\ ContentInv /\ LastHandleFrees

(* A step that leaves what every client finds as it was stutters.          *)
LEMMA StoreStutters ==
  ASSUME \A m \in Mas : (ma'[m].freed <=> ma[m].freed) /\ ContentOf(m)' = ContentOf(m),
         UNCHANGED handles
  PROVE  UNCHANGED Store!storeVars
BY DEF Store!storeVars

(* A step that changes the content of m alone.                             *)
ContentBut(m, x) == /\ ContentOf(m)' = x
                    /\ \A n \in Mas \ {m} : ContentOf(n)' = ContentOf(n)

LiveBut(m, b) == /\ ma'[m].freed <=> ~b
                 /\ \A n \in Mas \ {m} : ma'[n].freed <=> ma[n].freed

(* Two live resources share no memory: what is written to one stays there. *)
LEMMA LiveSlotsDiffer ==
  ASSUME Inv
  PROVE  /\ \A m \in Live : m \in Mas /\ loc[ma[m].alloc] \in Slots /\ ma[m].alloc \in Ptrs
         /\ \A m, n \in Live : m # n => loc[ma[m].alloc] # loc[ma[n].alloc]
                                        /\ ma[m].alloc # ma[n].alloc
         /\ \A m \in Mas : m \notin Live <=> ma[m].freed
BY LiveHasSlot, LiveTyped DEF Inv, OwnershipInvariant, MemoryNeverShared, Live

(* A resource freed leaves the store, whichever call frees it.             *)
LEMMA FreeSimulates ==
  ASSUME Inv, NEW m \in Live, FreeResource(m)
  PROVE  m \in Mas /\ LiveBut(m, FALSE) /\ ContentBut(m, Undefined)
<1>1. /\ Live' = Live \ {m} /\ m \in Mas
      /\ \A n \in Live' : ma'[n] = ma[n] /\ ma[n].alloc # ma[m].alloc
      /\ loc' = [loc EXCEPT ![ma[m].alloc] = NoSlot]
      /\ mem' = [mem EXCEPT ![loc[ma[m].alloc]] = Undefined]
  BY FreeParts DEF Live
<1>2. loc \in [Ptrs -> Slots \cup {NoSlot}] /\ mem \in [Slots -> Contents]
  BY TypeConjuncts DEF Inv
<1>3. ma' = [ma EXCEPT ![m].freed = TRUE] /\ ma \in [Mas -> ManagedAllocations \cup {NoMa}]
  BY TypeConjuncts DEF FreeResource, Live, Inv
<1>4. \A n \in Mas \ {m} : ma'[n] = ma[n]
  BY <1>3
<1>5. ma'[m].freed /\ ~ma[m].freed
  <2>1. ma[m] \in ManagedAllocations
    BY LiveTyped DEF Inv
  <2>2. ma'[m] = [ma[m] EXCEPT !.freed = TRUE]
    BY <1>1, <1>3
  <2> QED BY <2>1, <2>2 DEF ManagedAllocations, Live
<1>6. LiveBut(m, FALSE)
  BY <1>4, <1>5 DEF LiveBut
<1>7. ContentOf(m)' = Undefined
  BY <1>5 DEF ContentOf
<1>8. ASSUME NEW n \in Mas \ {m}
      PROVE  ContentOf(n)' = ContentOf(n)
  <2>1. CASE n \in Live
    <3>1. /\ loc'[ma[n].alloc] = loc[ma[n].alloc]
          /\ loc[ma[n].alloc] \in Slots /\ loc[ma[n].alloc] # loc[ma[m].alloc]
      BY <1>1, <1>2, <2>1, LiveSlotsDiffer
    <3>2. mem'[loc[ma[n].alloc]] = mem[loc[ma[n].alloc]]
      BY <1>1, <1>2, <3>1
    <3> QED BY <1>4, <2>1, <3>1, <3>2 DEF ContentOf
  <2>2. CASE n \notin Live
    BY <1>4, <2>2 DEF ContentOf, Live
  <2> QED BY <2>1, <2>2
<1> QED BY <1>1, <1>6, <1>7, <1>8 DEF ContentBut

LEMMA FreeStep ==
  ASSUME Inv, NEW m \in Mas, Free(m)
  PROVE  Store!Next
<1>1. m \in Live /\ handles[m] > 0 /\ FreeResource(m) /\ UNCHANGED handles
  BY DEF Free, Usable, Live
<1>2. LiveBut(m, FALSE) /\ ContentBut(m, Undefined) /\ ~ma[m].freed
  BY <1>1, FreeSimulates DEF Live
<1>3. Store!Free(m)
  BY <1>1, <1>2 DEF Store!Free, LiveBut, ContentBut
<1> QED BY <1>3 DEF Store!Next

(* Dropping a handle is the store's Drop: it frees exactly when the handle *)
(* is the last one to a resource that is still live.                       *)
LEMMA DropStep ==
  ASSUME Inv, ListInv, NEW m \in Mas, DropHandle(m)
  PROVE  Store!Next
<1>1. /\ handles \in [Mas -> Nat] /\ handles[m] > 0
      /\ handles' = [handles EXCEPT ![m] = @ - 1]
      /\ vma = "ready"
  BY TypeConjuncts DEF Inv, DropHandle, DropReferences, MayDrop, ClientRuns
<1>2. m \in Live => (LastUserHandle(m) <=> handles[m] = 1)
  BY <1>1 DEF ListInv, ListComplete, LastUserHandle, StrongCount, InList
<1>3. CASE m \in Live /\ LastUserHandle(m)
  <2>1. FreeResource(m)
    BY <1>3 DEF DropHandle
  <2>2. LiveBut(m, FALSE) /\ ContentBut(m, Undefined) /\ handles[m] = 1
    BY <1>2, <1>3, <2>1, FreeSimulates
  <2>3. Store!Drop(m)
    BY <1>1, <2>2 DEF Store!Drop, LiveBut, ContentBut
  <2> QED BY <2>3 DEF Store!Next
<1>4. CASE ~(m \in Live /\ LastUserHandle(m))
  <2>1. UNCHANGED <<loc, mem, ma>>
    BY <1>4 DEF DropHandle, FreeResource, Live
  <2>2. \A n \in Mas : ma'[n].freed = ma[n].freed /\ ContentOf(n)' = ContentOf(n)
    BY <2>1 DEF ContentOf
  <2>3. m \notin Live => ma[m].freed /\ ContentOf(m) = Undefined
    BY DEF Live, ContentOf
  <2>4. CASE m \notin Live
    <3>1. LiveBut(m, FALSE) /\ ContentBut(m, Undefined)
      BY <2>2, <2>3, <2>4 DEF LiveBut, ContentBut
    <3>2. Store!Drop(m)
      BY <1>1, <2>2, <3>1 DEF Store!Drop, LiveBut, ContentBut
    <3> QED BY <3>2 DEF Store!Next
  <2>5. CASE m \in Live
    <3>1. handles[m] # 1
      BY <1>2, <1>4, <2>5
    <3>2. Store!Drop(m)
      BY <1>1, <2>2, <3>1 DEF Store!Drop
    <3> QED BY <3>2 DEF Store!Next
  <2> QED BY <2>4, <2>5
<1> QED BY <1>3, <1>4

(* A new resource starts without content in memory that held another's.    *)
LEMMA CreateStep ==
  ASSUME Inv, ListInv, FreeUndefined, NEW m \in Mas, NEW r \in Res, NEW p \in Ptrs,
         NEW s \in Slots, NEW info \in CreateInfos, Allocate(m, r, p, s, info)
  PROVE  Store!Next
<1>1. /\ Live' = Live \cup {m} /\ m \notin Live
      /\ \A n \in Mas \ {m} : ma'[n] = ma[n]
      /\ ma'[m].alloc = p
      /\ \A n \in Live : ma[n].alloc # p
      /\ loc' = [loc EXCEPT ![p] = s] /\ s \in FreeSlots
  BY AllocateParts
<1>2. /\ loc \in [Ptrs -> Slots \cup {NoSlot}] /\ handles \in [Mas -> Nat]
      /\ mem' = mem /\ handles' = [handles EXCEPT ![m] = 1]
      /\ StrongCount(m) = 0
  BY TypeConjuncts DEF Inv, Allocate
<1>3. handles[m] = 0
  BY <1>2 DEF StrongCount, InList
<1>4. ma[m].freed /\ ContentOf(m) = Undefined
  BY <1>1 DEF Live, ContentOf
<1>5. ~ma'[m].freed
  BY <1>1 DEF Live
<1>6. ContentOf(m)' = Undefined
  <2>1. mem'[loc'[p]] = Undefined
    BY <1>1, <1>2 DEF FreeUndefined
  <2> QED BY <1>1, <2>1 DEF ContentOf
<1>7. ASSUME NEW n \in Mas \ {m}
      PROVE  ContentOf(n)' = ContentOf(n)
  <2>1. CASE n \in Live
    <3>1. loc'[ma[n].alloc] = loc[ma[n].alloc]
      BY <1>1, <1>2, <2>1, LiveSlotsDiffer
    <3> QED BY <1>1, <1>2, <3>1 DEF ContentOf
  <2>2. CASE n \notin Live
    BY <1>1, <2>2 DEF ContentOf, Live
  <2> QED BY <2>1, <2>2
<1>8. LiveBut(m, TRUE) /\ \A n \in Mas : ContentOf(n)' = ContentOf(n)
  BY <1>1, <1>4, <1>5, <1>6, <1>7 DEF LiveBut
<1>9. Store!Create(m)
  BY <1>2, <1>3, <1>4, <1>8 DEF Store!Create, LiveBut
<1> QED BY <1>9 DEF Store!Next

(* A closure writes what its pointer points to: the content of its own     *)
(* resource and of no other, if it promises any.                           *)
LEMMA WriteStep ==
  ASSUME Inv, MappedPointerValid, NEW i \in 1 .. MaxMaps, NEW d \in Data, MapWrite(i, d)
  PROVE  Store!Next \/ UNCHANGED Store!storeVars
<1>0. PICK m \in Live : frames[i].slot = loc[ma[m].alloc]
  BY DEF MapWrite, MappedPointerValid
<1>1. /\ mem' = [mem EXCEPT ![loc[ma[m].alloc]] = d]
      /\ UNCHANGED <<loc, ma, handles>>
  BY <1>0 DEF MapWrite, managedVars
<1>2. mem \in [Slots -> Contents] /\ m \in Mas /\ loc[ma[m].alloc] \in Slots
  BY TypeConjuncts, LiveSlotsDiffer DEF Inv
<1>3. ASSUME NEW n \in Mas, n # m
      PROVE  ContentOf(n)' = ContentOf(n)
  <2>1. CASE n \in Live
    <3>1. loc[ma[n].alloc] # loc[ma[m].alloc] /\ loc[ma[n].alloc] \in Slots
      BY <1>1, <1>3, <2>1, LiveSlotsDiffer
    <3>2. mem'[loc[ma[n].alloc]] = mem[loc[ma[n].alloc]]
      BY <1>1, <1>2, <3>1
    <3> QED BY <1>1, <3>2 DEF ContentOf
  <2>2. CASE n \notin Live
    BY <1>1, <2>2 DEF ContentOf, Live
  <2> QED BY <2>1, <2>2
<1>4. CASE ma[m].layout = "UNDEFINED"
  <2>1. ContentOf(m)' = ContentOf(m)
    BY <1>1, <1>4 DEF ContentOf
  <2>2. \A n \in Mas : ma'[n].freed = ma[n].freed /\ ContentOf(n)' = ContentOf(n)
    BY <1>1, <1>3, <2>1
  <2> QED BY <1>1, <2>2, StoreStutters
<1>5. CASE ma[m].layout # "UNDEFINED"
  <2>1. ContentOf(m)' = d
    <3>1. mem'[loc[ma[m].alloc]] = d
      BY <1>1, <1>2
    <3> QED BY <1>1, <1>5, <3>1 DEF ContentOf, Live
  <2>2. ContentBut(m, d) /\ ~ma[m].freed
    BY <1>1, <1>3, <2>1 DEF ContentBut, Live
  <2>3. Store!Write(m, d)
    BY <1>1, <1>2, <2>2 DEF Store!Write, ContentBut
  <2> QED BY <1>2, <2>3 DEF Store!Next
<1> QED BY <1>4, <1>5

(* Steps that touch neither resources, memory nor handles stutter.         *)
LEMMA UntouchedStutters ==
  ASSUME UNCHANGED <<loc, mem, ma, handles>>
  PROVE  UNCHANGED Store!storeVars
BY StoreStutters DEF ContentOf

(* A transition changes what an image holds only if it promised nothing,   *)
(* because its object is bound to its own allocation's memory.             *)
LEMMA TransitionStutters ==
  ASSUME Inv, Placed, NEW m \in Mas, transition_image(m)
  PROVE  UNCHANGED Store!storeVars
<1>1. /\ m \in Live
      /\ \A n \in Live : /\ n # m => ma'[n] = ma[n]
                         /\ ma'[n].alloc = ma[n].alloc
      /\ ma'[m].layout = "GENERAL"
      /\ Live' = Live /\ loc' = loc
  BY TransitionParts
<1>2. /\ mem' = IF ma[m].layout = "UNDEFINED"
                THEN [mem EXCEPT ![bound[ma[m].res]] = Undefined] ELSE mem
      /\ handles' = handles /\ moves = {}
  BY NoPassWhenIdle DEF transition_image, ClientRuns
<1>3. bound[ma[m].res] = loc[ma[m].alloc] /\ mem \in [Slots -> Contents]
  BY <1>1, <1>2, TypeConjuncts DEF Inv, Placed, PlaceOf, Recorded
<1>4. \A n \in Mas : ma'[n].freed <=> ma[n].freed
  BY <1>1 DEF Live
<1>5. ContentOf(m)' = ContentOf(m)
  <2>1. CASE ma[m].layout = "UNDEFINED"
    <3>1. mem'[loc[ma[m].alloc]] = Undefined
      BY <1>1, <1>2, <1>3, <2>1, LiveSlotsDiffer
    <3>2. ContentOf(m) = Undefined
      BY <2>1 DEF ContentOf
    <3>3. ContentOf(m)' = Undefined
      BY <1>1, <3>1 DEF ContentOf
    <3> QED BY <3>2, <3>3
  <2>2. CASE ma[m].layout # "UNDEFINED"
    BY <1>1, <1>2, <1>4, <2>2 DEF ContentOf
  <2> QED BY <2>1, <2>2
<1>6. ASSUME NEW n \in Mas, n # m
      PROVE  ContentOf(n)' = ContentOf(n)
  <2>1. CASE n \in Live
    <3>1. loc[ma[n].alloc] \in Slots /\ loc[ma[n].alloc] # loc[ma[m].alloc]
      BY <1>1, <1>6, <2>1, LiveSlotsDiffer
    <3>2. mem'[loc[ma[n].alloc]] = mem[loc[ma[n].alloc]]
      BY <1>2, <1>3, <3>1
    <3>3. ma'[n] = ma[n]
      BY <1>1, <1>6, <2>1
    <3> QED BY <1>1, <3>2, <3>3 DEF ContentOf
  <2>2. CASE n \notin Live
    BY <1>1, <2>2 DEF ContentOf, Live
  <2> QED BY <2>1, <2>2
<1> QED BY <1>2, <1>4, <1>5, <1>6, StoreStutters

LEMMA ClientStoreStep ==
  ASSUME NoPassPanics, "drop_in_map" \notin Panics, StoreBase, Client
  PROVE  Store!Next \/ UNCHANGED Store!storeVars
<1>0. Inv /\ ListInv /\ Placed /\ MappedPointerValid /\ FreeUndefined
  BY DEF StoreBase, PassBase, ContentInv
<1> DEFINE Simulated == Store!Next \/ UNCHANGED Store!storeVars
<1> USE DEF vmaVars, deviceVars, managedVars
<1>1. ASSUME NEW m \in Mas, NEW r \in Res, NEW p \in Ptrs, NEW s \in Slots,
             NEW info \in CreateInfos, Allocate(m, r, p, s, info)
      PROVE  Simulated
  BY <1>0, <1>1, CreateStep
<1>2. ASSUME NEW r \in Res, NEW info \in CreateInfos, AllocatePanicsOnMemory(r, info)
      PROVE  Simulated
  BY <1>2, UntouchedStutters DEF AllocatePanicsOnMemory
<1>3. ASSUME NEW r \in Res, NEW p \in Ptrs, NEW s \in Slots, NEW info \in CreateInfos,
             AllocatePanicsOnBind(r, p, s, info)
      PROVE  FALSE
  BY <1>3 DEF AllocatePanicsOnBind, NoPassPanics
<1>4. ASSUME NEW m \in Mas, CloneHandle(m)
      PROVE  Simulated
  <2>1. /\ handles[m] > 0 /\ handles' = [handles EXCEPT ![m] = @ + 1]
        /\ UNCHANGED <<loc, mem, ma>>
    BY <1>0, <1>4, TypeConjuncts DEF CloneHandle, Inv
  <2>2. \A n \in Mas : ContentOf(n)' = ContentOf(n)
    BY <2>1 DEF ContentOf
  <2>3. Store!Clone(m)
    BY <2>1, <2>2 DEF Store!Clone
  <2> QED BY <2>3 DEF Store!Next
<1>5. ASSUME NEW m \in Mas, DropHandle(m)
      PROVE  Simulated
  BY <1>0, <1>5, DropStep
<1>6. ASSUME NEW m \in Mas, Free(m)
      PROVE  Simulated
  BY <1>0, <1>6, FreeStep
<1>7. ASSUME NEW m \in Mas, transition_image(m)
      PROVE  Simulated
  BY <1>0, <1>7, TransitionStutters
<1>8. ASSUME NEW i \in 1 .. MaxMaps, NEW d \in Data, MapWrite(i, d)
      PROVE  Simulated
  BY <1>0, <1>8, WriteStep
<1>9. ASSUME NEW m \in Mas, MapBegin(m)
      PROVE  Simulated
  BY <1>9, UntouchedStutters DEF MapBegin
<1>10. ASSUME NEW m \in Mas, NEW k \in 0 .. MaxMaps, DropHandlePanics(m, k)
       PROVE  FALSE
  BY <1>10 DEF DropHandlePanics
<1>11. CASE MapEnd \/ (\E k \in 1 .. MaxMaps : ClosurePanics(k))
            \/ CloneAllocatorHandle \/ DropAllocatorHandle \/ DefragBegin
  BY <1>11, UntouchedStutters DEF MapEnd, ClosurePanics, CloneAllocatorHandle,
     DropAllocatorHandle, DropReferences, DefragBegin
<1> QED BY <1>1, <1>2, <1>3, <1>4, <1>5, <1>6, <1>7, <1>8, <1>9, <1>10, <1>11 DEF Client
-----------------------------------------------------------------------------
(* Recording a move replaces the object, not the content.                  *)
LEMMA RecordMoveStutters ==
  ASSUME Inv, NEW mv \in Moves, NEW m \in Mas, NEW r \in Res, RecordMove(mv, m, r)
  PROVE  UNCHANGED Store!storeVars
<1>1. /\ m \in Live /\ Live' = Live
      /\ \A n \in Live : n # m => ma'[n] = ma[n]
      /\ ma'[m].alloc = ma[m].alloc /\ ma'[m].layout = ma[m].layout
      /\ UNCHANGED <<loc, mem>>
  BY RecordMoveParts
<1>2. UNCHANGED handles
  BY DEF RecordMove
<1>3. \A n \in Mas : ma'[n].freed <=> ma[n].freed
  BY <1>1 DEF Live
<1>4. ASSUME NEW n \in Mas
      PROVE  ContentOf(n)' = ContentOf(n)
  <2>1. CASE n = m
    BY <1>1, <1>3, <2>1 DEF ContentOf
  <2>2. CASE n # m /\ n \in Live
    BY <1>1, <2>2 DEF ContentOf
  <2>3. CASE n \notin Live
    BY <1>3, <2>3 DEF ContentOf, Live
  <2> QED BY <2>1, <2>2, <2>3
<1> QED BY <1>2, <1>3, <1>4, StoreStutters

(* A pass begins with targets nobody has.                                  *)
LEMMA BeginPassStutters ==
  ASSUME Inv, NEW plan \in SUBSET Candidates,
         NEW targets \in [{mv.dst : mv \in plan} -> FreeSlots],
         BeginPass(plan, targets)
  PROVE  UNCHANGED Store!storeVars
<1>1. UNCHANGED <<ma, mem>> /\ \A m \in Live : loc'[ma[m].alloc] = loc[ma[m].alloc]
  BY BeginPassParts, AllocatedSlots
<1>2. UNCHANGED handles
  BY DEF BeginPass
<1>3. \A m \in Mas : ContentOf(m)' = ContentOf(m)
  BY <1>1 DEF ContentOf, Live
<1> QED BY <1>1, <1>2, <1>3, StoreStutters

(* The GPU writes temporary allocations only.                              *)
LEMMA GpuStutters ==
  ASSUME Inv, CopiesInv, Gpu
  PROVE  UNCHANGED Store!storeVars
<1>1. PICK c \in cmds : GpuExecute(c)
  BY DEF Gpu
<1>2. mem' = [mem EXCEPT ![c.dst] = Delivered(c)] /\ UNCHANGED <<loc, ma, handles>>
  BY <1>1 DEF Gpu, GpuExecute, managedVars
<1>3. PICK mv \in moves : c.dst = loc[mv.dst]
  BY DEF CopiesInv, CopiesOfMoves, CopyOf, Recorded
<1>4. \A m \in Live : mem'[loc[ma[m].alloc]] = mem[loc[ma[m].alloc]]
  <2>1. \A m \in Live : loc[ma[m].alloc] \in Slots /\ loc[ma[m].alloc] # c.dst
    BY <1>3, AllocatedSlots
  <2> QED BY <1>2, <2>1, AllocatedSlots
<1>5. \A m \in Mas : ContentOf(m)' = ContentOf(m)
  BY <1>2, <1>4 DEF ContentOf, Live
<1> QED BY <1>2, <1>5, StoreStutters

(* The end of a pass is where a move becomes visible: everything has been  *)
(* copied by then, so what is visible does not change.                     *)
LEMMA EndPassStutters ==
  ASSUME PassBase, Copied, EndPass
  PROVE  UNCHANGED Store!storeVars
<1>1. /\ Inv /\ cmds = {} /\ Recorded = moves
      /\ UNCHANGED <<ma, handles>>
  BY DEF PassBase, QuietInv, GpuQuietOutsidePass, EndPass, Recorded, Inv, OwnershipInvariant,
     PassWellFormed
<1>2. ASSUME NEW m \in Live, ma[m].layout # "UNDEFINED"
      PROVE  mem'[loc'[ma[m].alloc]] = mem[loc[ma[m].alloc]]
  <2>1. /\ ma[m].alloc \in Allocated /\ ma[m].alloc \in Ptrs
        /\ loc[ma[m].alloc] \in Slots
        /\ ma[m].alloc \notin Destinations
    BY <1>1, AllocatedSlots DEF Destinations
  <2>2. CASE \E mv \in moves : mv.src = ma[m].alloc
    <3>1. PICK mv \in moves : mv.src = ma[m].alloc
      BY <2>2
    <3>2. loc'[ma[m].alloc] = loc[mv.dst] /\ loc[mv.dst] \in Slots
      BY <1>1, <3>1, EndPassLoc, AllocatedSlots
    <3>3. \A nv \in moves : loc[nv.src] # loc[mv.dst]
      BY <1>1, AllocatedSlots
    <3>4. mem'[loc[mv.dst]] = mem[loc[mv.dst]]
      BY <1>1, <3>2, <3>3, EndPassMem
    <3>5. mem[loc[mv.dst]] = mem[loc[mv.src]]
      BY <1>1, <1>2, <3>1 DEF Copied
    <3> QED BY <3>1, <3>2, <3>4, <3>5
  <2>3. CASE \A mv \in moves : mv.src # ma[m].alloc
    <3>1. loc'[ma[m].alloc] = loc[ma[m].alloc]
      BY <1>1, <2>1, <2>3, EndPassLoc DEF Sources
    <3>2. \A mv \in moves : loc[mv.src] # loc[ma[m].alloc]
      BY <1>1, <2>1, <2>3, AllocatedSlots
    <3> QED BY <1>1, <2>1, <3>1, <3>2, EndPassMem
  <2> QED BY <2>2, <2>3
<1>3. \A m \in Mas : ContentOf(m)' = ContentOf(m)
  BY <1>1, <1>2 DEF ContentOf, Live
<1> QED BY <1>1, <1>3, StoreStutters

(* Every step is a step of the store or stutters.                          *)
LEMMA StoreStep ==
  ASSUME NoPassPanics, "drop_in_map" \notin Panics
  PROVE  StoreBase /\ [Next]_vars => [Store!Next]_Store!storeVars
<1> SUFFICES ASSUME StoreBase, [Next]_vars
             PROVE  Store!Next \/ UNCHANGED Store!storeVars
  OBVIOUS
<1>0. PassBase /\ Inv /\ ListInv /\ AllocationsAccounted /\ Copied /\ CopiesInv
  BY DEF StoreBase, PassBase, ContentInv
<1>1. CASE Client
  BY <1>1, ClientStoreStep
<1>2. ASSUME NEW plan \in SUBSET Candidates,
             NEW targets \in [{mv.dst : mv \in plan} -> FreeSlots],
             BeginPass(plan, targets)
      PROVE  UNCHANGED Store!storeVars
  BY <1>0, <1>2, BeginPassStutters
<1>3. ASSUME NEW mv \in Moves, NEW m \in Mas, NEW r \in Res, RecordMove(mv, m, r)
      PROVE  UNCHANGED Store!storeVars
  BY <1>0, <1>3, RecordMoveStutters
<1>4. CASE WaitThenDestroyOld
  BY <1>4, UntouchedStutters DEF WaitThenDestroyOld, vmaVars
<1>5. CASE EndPass
  BY <1>0, <1>5, EndPassStutters
<1>6. CASE QuietDefrag
  BY <1>0, <1>6, QuietDefragStep, UntouchedStutters
<1>7. CASE Gpu
  BY <1>0, <1>7, GpuStutters
<1>8. CASE GpuDone \/ Terminated \/ UNCHANGED vars
  BY <1>8, UntouchedStutters DEF GpuDone, GpuSignal, Terminated, vars, vmaVars, managedVars
<1> QED BY <1>0, <1>1, <1>2, <1>3, <1>4, <1>5, <1>6, <1>7, <1>8, NoDefragPanics, DefragShape
    DEF Next

(* The managed allocator implements the store: whatever defrag moves, how  *)
(* often and in what order, the client's resources keep their content, and *)
(* they come and go with its handles only.  Map closures and allocations   *)
(* out of memory may panic.  What is excluded: a panic inside a pass, the  *)
(* drop of a last handle inside a map call, and PREINITIALIZED images.     *)
THEOREM AllocatorImplementsStore ==
  ASSUME NoPassPanics, "drop_in_map" \notin Panics, "PREINITIALIZED" \notin InitialLayouts
  PROVE  Spec => ImplementsStore
<1>1. Init => Store!Init
  <2> SUFFICES ASSUME Init PROVE Store!Init
    OBVIOUS
  <2>1. handles = [m \in Mas |-> 0] /\ \A m \in Mas : ma[m].freed
    BY DEF Init, NoMa
  <2>2. \A m \in Mas : ~ma[m].freed <=> FALSE
    BY <2>1
  <2>3. [m \in Mas |-> ~ma[m].freed] = [m \in Mas |-> FALSE]
    BY <2>2
  <2>4. [m \in Mas |-> ContentOf(m)] = [m \in Mas |-> Undefined]
    BY <2>1 DEF ContentOf
  <2> QED BY <2>1, <2>3, <2>4 DEF Store!Init
<1>2. BorrowInv => MappedPointerValid
  BY DEF BorrowInv
<1>3. Spec => []StoreBase
  BY <1>2, PassBaseInvariant, PlacedInvariant, BorrowInvariant, CopiesInvariant,
     ContentInvariant, LastHandleAlwaysFrees, PTL DEF StoreBase
<1> QED BY <1>1, <1>3, StoreStep, PTL DEF Spec, ImplementsStore, Store!Spec
=============================================================================
