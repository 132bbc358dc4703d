-------------------------- MODULE HostAccessProofs --------------------------
(***************************************************************************)
(* Theorems about HostAccess, for any device and any number of slots.      *)
(***************************************************************************)
EXTENDS HostAccess, TLAPS

(* Nothing is stored and nothing cached before the resource is allocated.  *)
NothingYet ==
  usage = "none" => /\ type = {}
                    /\ ~mapped /\ ~synced
                    /\ content = Undefined
                    /\ \A s \in Slots : mem[s] = Undefined

(* aci requires of the chosen type what the usage relies on.               *)
TypeServesUsage == usage # "none" => RequiredFlags(usage) \subseteq type

(* Pools are made for "Raw", of a type that serves it.                     *)
PoolsServe == pools # {} => "Raw" \in Usages /\ \A t \in pools : RequiredFlags("Raw") \subseteq t

(* Only memory that the host sees and that is not coherent is cached, and  *)
(* only memory that the host sees is mapped.                               *)
OnlyIncoherentCached ==
  /\ ~(Visible /\ ~Coherent) => \A s \in Slots : cache[s] = NoLine
  /\ mapped => Visible

(* The host writes only where the resource is, and outside map nothing is  *)
(* left to be written back.                                                *)
OnlyPlaceDirty ==
  /\ dirty \subseteq {place}
  /\ ~mapped => dirty = {}

(* What was stored last is in memory, or in a line still to be written     *)
(* back.                                                                   *)
ContentSomewhere == (IF place \in dirty THEN cache[place] ELSE mem[place]) = content

(* Once synced, the host's line of the resource is gone or up to date.     *)
SyncedLine == synced => cache[place] \in {NoLine, content}

Inv == /\ TypeOK
       /\ NothingYet
       /\ TypeServesUsage
       /\ PoolsServe
       /\ OnlyIncoherentCached
       /\ OnlyPlaceDirty
       /\ ContentSomewhere
       /\ SyncedLine
-----------------------------------------------------------------------------
(* The flags aci requires for Cpu and for the mappable usages.             *)
LEMMA CpuFlags == {"HOST_VISIBLE", "HOST_COHERENT"} \subseteq RequiredFlags("Cpu")
BY DEF RequiredFlags

LEMMA MappableFlags ==
  \A u \in {"Upload", "Readback", "Cpu", "Raw"} : "HOST_VISIBLE" \in RequiredFlags(u)
BY DEF RequiredFlags

(* The range of flush begins at the resource.                              *)
LEMMA PlaceFlushed == TypeOK => place \in FlushedRange
BY HostAssumption DEF TypeOK, FlushedRange, Slots

(* Coherent memory leaves nothing to write back.                           *)
LEMMA CoherentClean == Inv /\ Coherent => dirty = {}
BY DEF Inv, TypeOK, OnlyIncoherentCached

LEMMA InitInv == Init => Inv
<1> SUFFICES ASSUME Init PROVE Inv
  OBVIOUS
<1> USE HostAssumption
<1>1. TypeOK
  <2>1. place \in Slots /\ usage \in Usages \cup {"none"} /\ content \in Contents
    BY DEF Init, Slots, Contents
  <2>2. /\ mapped \in BOOLEAN /\ synced \in BOOLEAN
        /\ type \in SUBSET MemoryPropertyFlags /\ pools \subseteq MemoryTypes
    BY DEF Init
  <2>3. mem \in [Slots -> Contents] /\ cache \in [Slots -> Contents \cup {NoLine}]
    BY DEF Init, Contents
  <2>4. dirty \subseteq {s \in Slots : cache[s] # NoLine}
    BY DEF Init
  <2> QED BY <2>1, <2>2, <2>3, <2>4 DEF TypeOK
<1>2. OnlyIncoherentCached /\ NothingYet /\ TypeServesUsage /\ OnlyPlaceDirty
  BY DEF Init, OnlyIncoherentCached, NothingYet, TypeServesUsage, OnlyPlaceDirty, Slots
<1>4. PoolsServe /\ SyncedLine
  BY DEF Init, PoolsServe, SyncedLine
<1>3. ContentSomewhere
  BY DEF Init, ContentSomewhere, Slots
<1> QED BY <1>1, <1>2, <1>3, <1>4 DEF Inv
-----------------------------------------------------------------------------
(* One lemma per step.                                                     *)
LEMMA AllocateInv ==
  ASSUME NEW u \in Usages, NEW t \in MemoryTypes, NEW s \in Slots, Inv, Allocate(u, t, s)
  PROVE  Inv'
<1> USE HostAssumption
<1>1. t \in SUBSET MemoryPropertyFlags /\ RequiredFlags(u) \subseteq t /\ u # "none"
  BY DEF Allocate, Best, Suitable, AllUsages, AllocationUsage
<1>2. ~mapped /\ ~synced /\ dirty = {} /\ \A q \in Slots : cache[q] = NoLine /\ mem[q] = Undefined
  BY DEF Allocate, Inv, NothingYet, OnlyPlaceDirty, OnlyIncoherentCached, Visible
<1>3. TypeOK'
  BY <1>1 DEF Allocate, Inv, TypeOK
<1>4. NothingYet' /\ TypeServesUsage'
  BY <1>1 DEF Allocate, NothingYet, TypeServesUsage
<1>5. OnlyIncoherentCached' /\ OnlyPlaceDirty'
  BY <1>2 DEF Allocate, OnlyIncoherentCached, OnlyPlaceDirty
<1>6. ContentSomewhere' /\ SyncedLine'
  BY <1>2 DEF Allocate, Inv, NothingYet, ContentSomewhere, SyncedLine
<1>7. PoolsServe'
  BY DEF Allocate, Inv, PoolsServe
<1> QED BY <1>3, <1>4, <1>5, <1>6, <1>7 DEF Inv

LEMMA CreatePoolInv ==
  ASSUME NEW t \in MemoryTypes, Inv, CreatePool(t)
  PROVE  Inv'
<1>1. TypeOK' /\ NothingYet' /\ TypeServesUsage'
  BY DEF CreatePool, Inv, TypeOK, NothingYet, TypeServesUsage
<1>2. PoolsServe'
  BY DEF CreatePool, FindMemoryTypeIndex, Best, Suitable, PoolsServe
<1>3. OnlyIncoherentCached' /\ OnlyPlaceDirty' /\ ContentSomewhere' /\ SyncedLine'
  BY DEF CreatePool, Inv, OnlyIncoherentCached, OnlyPlaceDirty, ContentSomewhere, SyncedLine,
         Visible, Coherent
<1> QED BY <1>1, <1>2, <1>3 DEF Inv

LEMMA AllocateFromPoolInv ==
  ASSUME NEW t \in MemoryTypes, NEW s \in Slots, Inv, AllocateFromPool(t, s)
  PROVE  Inv'
<1> USE HostAssumption
<1>1. /\ t \in SUBSET MemoryPropertyFlags
      /\ "Raw" \in Usages /\ RequiredFlags("Raw") \subseteq t
  BY DEF AllocateFromPool, Inv, PoolsServe
<1>2. ~mapped /\ ~synced /\ dirty = {} /\ \A q \in Slots : cache[q] = NoLine /\ mem[q] = Undefined
  BY DEF AllocateFromPool, Inv, NothingYet, OnlyPlaceDirty, OnlyIncoherentCached, Visible
<1>3. TypeOK'
  BY <1>1 DEF AllocateFromPool, Inv, TypeOK
<1>4. NothingYet' /\ TypeServesUsage' /\ PoolsServe'
  BY <1>1 DEF AllocateFromPool, Inv, NothingYet, TypeServesUsage, PoolsServe
<1>5. OnlyIncoherentCached' /\ OnlyPlaceDirty'
  BY <1>2 DEF AllocateFromPool, OnlyIncoherentCached, OnlyPlaceDirty
<1>6. ContentSomewhere' /\ SyncedLine'
  BY <1>2 DEF AllocateFromPool, Inv, NothingYet, ContentSomewhere, SyncedLine
<1> QED BY <1>3, <1>4, <1>5, <1>6 DEF Inv

LEMMA MapBeginInv == Inv /\ MapBegin => Inv'
<1> SUFFICES ASSUME Inv, MapBegin PROVE Inv'
  OBVIOUS
<1>1. TypeOK' /\ NothingYet' /\ TypeServesUsage'
  BY DEF MapBegin, Inv, TypeOK, NothingYet, TypeServesUsage
<1>2. OnlyIncoherentCached' /\ OnlyPlaceDirty'
  BY DEF MapBegin, Inv, OnlyIncoherentCached, OnlyPlaceDirty, Visible, Coherent
<1>3. ContentSomewhere' /\ PoolsServe' /\ SyncedLine'
  BY DEF MapBegin, Inv, ContentSomewhere, PoolsServe, SyncedLine
<1> QED BY <1>1, <1>2, <1>3 DEF Inv

LEMMA WriteInv ==
  ASSUME NEW d \in Data, Inv, Write(d)
  PROVE  Inv'
<1> USE HostAssumption
<1>1. mapped /\ Visible /\ place \in Slots
  BY DEF Write, Inv, OnlyIncoherentCached, TypeOK
<1>2. NothingYet' /\ TypeServesUsage' /\ PoolsServe'
  BY <1>1 DEF Write, Inv, NothingYet, TypeServesUsage, PoolsServe
<1>3. CASE Coherent
  <2>1. mem' = [mem EXCEPT ![place] = d] /\ UNCHANGED <<cache, dirty>>
    BY <1>3 DEF Write
  <2>2. TypeOK'
    BY <2>1 DEF Write, Inv, TypeOK, Contents
  <2>3. OnlyIncoherentCached' /\ OnlyPlaceDirty'
    BY <2>1 DEF Write, Inv, OnlyIncoherentCached, OnlyPlaceDirty, Visible, Coherent
  <2>4. ContentSomewhere' /\ SyncedLine'
    BY <1>1, <1>3, <2>1, CoherentClean
    DEF Write, Inv, TypeOK, ContentSomewhere, OnlyIncoherentCached, SyncedLine
  <2> QED BY <1>2, <2>2, <2>3, <2>4 DEF Inv
<1>4. CASE ~Coherent
  <2>1. /\ cache' = [cache EXCEPT ![place] = d]
        /\ dirty' = dirty \cup {place}
        /\ UNCHANGED mem
    BY <1>4 DEF Write
  <2>2. TypeOK'
    BY <1>1, <2>1 DEF Write, Inv, TypeOK, Contents
  <2>3. OnlyIncoherentCached' /\ OnlyPlaceDirty'
    BY <1>1, <1>4, <2>1
    DEF Write, Inv, OnlyIncoherentCached, OnlyPlaceDirty, Visible, Coherent
  <2>4. ContentSomewhere' /\ SyncedLine'
    BY <1>1, <2>1 DEF Write, Inv, TypeOK, ContentSomewhere, SyncedLine
  <2> QED BY <1>2, <2>2, <2>3, <2>4 DEF Inv
<1> QED BY <1>3, <1>4

LEMMA FlushInv == Inv /\ Flush => Inv'
<1> SUFFICES ASSUME Inv, Flush PROVE Inv'
  OBVIOUS
<1>1. mapped /\ place \in Slots /\ place \in FlushedRange
  BY PlaceFlushed DEF Flush, Inv, TypeOK
<1>2. \A s \in Slots : s \in dirty => cache[s] \in Contents
  BY DEF Inv, TypeOK
<1>3. TypeOK'
  BY <1>2 DEF Flush, Inv, TypeOK
<1>4. NothingYet' /\ TypeServesUsage' /\ PoolsServe'
  BY <1>1 DEF Flush, Inv, NothingYet, TypeServesUsage, PoolsServe
<1>5. OnlyIncoherentCached' /\ OnlyPlaceDirty'
  BY <1>1 DEF Flush, Inv, OnlyIncoherentCached, OnlyPlaceDirty, Visible, Coherent
<1>6. ContentSomewhere' /\ SyncedLine'
  BY <1>1 DEF Flush, Inv, ContentSomewhere, SyncedLine
<1> QED BY <1>3, <1>4, <1>5, <1>6 DEF Inv

LEMMA MapEndInv == Inv /\ MapEnd => Inv'
<1> SUFFICES ASSUME Inv, MapEnd PROVE Inv'
  OBVIOUS
<1>1. dirty = {}
  <2>1. CASE usage = "Cpu"
    BY <2>1, CpuFlags, CoherentClean DEF Inv, TypeServesUsage, Coherent
  <2>2. CASE dirty \cap FlushedRange = {}
    BY <2>2, PlaceFlushed DEF Inv, OnlyPlaceDirty
  <2> QED BY <2>1, <2>2 DEF MapEnd
<1>2. TypeOK' /\ NothingYet' /\ TypeServesUsage'
  BY DEF MapEnd, Inv, TypeOK, NothingYet, TypeServesUsage
<1>3. OnlyIncoherentCached' /\ OnlyPlaceDirty'
  BY <1>1 DEF MapEnd, Inv, OnlyIncoherentCached, OnlyPlaceDirty, Visible, Coherent
<1>4. ContentSomewhere' /\ PoolsServe' /\ SyncedLine'
  BY DEF MapEnd, Inv, ContentSomewhere, PoolsServe, SyncedLine
<1> QED BY <1>2, <1>3, <1>4 DEF Inv

LEMMA MapMemoryInv == Inv /\ MapMemory => Inv'
<1> SUFFICES ASSUME Inv, MapMemory PROVE Inv'
  OBVIOUS
<1>1. TypeOK' /\ NothingYet' /\ TypeServesUsage'
  BY DEF MapMemory, Inv, TypeOK, NothingYet, TypeServesUsage
<1>2. OnlyIncoherentCached' /\ OnlyPlaceDirty'
  BY DEF MapMemory, Inv, OnlyIncoherentCached, OnlyPlaceDirty, Visible, Coherent
<1>3. ContentSomewhere' /\ PoolsServe' /\ SyncedLine'
  BY DEF MapMemory, Inv, ContentSomewhere, PoolsServe, SyncedLine
<1> QED BY <1>1, <1>2, <1>3 DEF Inv

LEMMA UnmapMemoryInv == Inv /\ UnmapMemory => Inv'
<1> SUFFICES ASSUME Inv, UnmapMemory PROVE Inv'
  OBVIOUS
<1>1. TypeOK' /\ NothingYet' /\ TypeServesUsage'
  BY DEF UnmapMemory, Inv, TypeOK, NothingYet, TypeServesUsage
<1>2. OnlyIncoherentCached' /\ OnlyPlaceDirty'
  BY DEF UnmapMemory, Inv, OnlyIncoherentCached, OnlyPlaceDirty, Visible, Coherent
<1>3. ContentSomewhere' /\ PoolsServe' /\ SyncedLine'
  BY DEF UnmapMemory, Inv, ContentSomewhere, PoolsServe, SyncedLine
<1> QED BY <1>1, <1>2, <1>3 DEF Inv

LEMMA FlushAllocationInv == Inv /\ FlushAllocation => Inv'
<1> SUFFICES ASSUME Inv, FlushAllocation PROVE Inv'
  OBVIOUS
<1>1. mapped /\ usage = "Raw" /\ place \in Slots
  BY DEF FlushAllocation, Inv, TypeOK
<1>2. \A s \in Slots : s \in dirty => cache[s] \in Contents
  BY DEF Inv, TypeOK
<1>3. TypeOK'
  BY <1>1, <1>2 DEF FlushAllocation, Inv, TypeOK
<1>4. NothingYet' /\ TypeServesUsage' /\ PoolsServe'
  BY <1>1 DEF FlushAllocation, Inv, NothingYet, TypeServesUsage, PoolsServe
<1>5. OnlyIncoherentCached' /\ OnlyPlaceDirty'
  BY <1>1 DEF FlushAllocation, Inv, OnlyIncoherentCached, OnlyPlaceDirty, Visible, Coherent
<1>6. ContentSomewhere' /\ SyncedLine'
  BY <1>1 DEF FlushAllocation, Inv, TypeOK, ContentSomewhere, SyncedLine
<1> QED BY <1>3, <1>4, <1>5, <1>6 DEF Inv

LEMMA InvalidateAllocationInv == Inv /\ InvalidateAllocation => Inv'
<1> SUFFICES ASSUME Inv, InvalidateAllocation PROVE Inv'
  OBVIOUS
<1>1. usage = "Raw" /\ usage # "none" /\ place \in Slots /\ place \notin dirty
  BY DEF InvalidateAllocation, Inv, TypeOK
<1>2. TypeOK'
  BY <1>1 DEF InvalidateAllocation, Inv, TypeOK
<1>3. NothingYet' /\ TypeServesUsage' /\ PoolsServe'
  BY <1>1 DEF InvalidateAllocation, Inv, NothingYet, TypeServesUsage, PoolsServe
<1>4. OnlyIncoherentCached' /\ OnlyPlaceDirty'
  BY <1>1 DEF InvalidateAllocation, Inv, TypeOK, OnlyIncoherentCached, OnlyPlaceDirty,
              Visible, Coherent
<1>5. ContentSomewhere' /\ SyncedLine'
  BY <1>1 DEF InvalidateAllocation, Inv, TypeOK, ContentSomewhere, SyncedLine
<1> QED BY <1>2, <1>3, <1>4, <1>5 DEF Inv

LEMMA CopyAllocationToMemoryInv == Inv /\ CopyAllocationToMemory => Inv'
<1> SUFFICES ASSUME Inv, CopyAllocationToMemory PROVE Inv'
  OBVIOUS
<1> USE HostAssumption
<1>1. usage = "Raw" /\ usage # "none" /\ place \in Slots /\ place \notin dirty /\ Visible
  BY MappableFlags DEF CopyAllocationToMemory, Inv, TypeOK, TypeServesUsage, Visible
<1>2. mem[place] = content /\ mem[place] \in Contents /\ mem[place] # NoLine
  BY <1>1 DEF Inv, TypeOK, ContentSomewhere, Contents
<1>3. cache' = [cache EXCEPT ![place] = mem[place]] \/ UNCHANGED cache
  BY DEF CopyAllocationToMemory
<1>4. TypeOK'
  BY <1>1, <1>2, <1>3 DEF CopyAllocationToMemory, Inv, TypeOK
<1>5. NothingYet' /\ TypeServesUsage' /\ PoolsServe'
  BY <1>1 DEF CopyAllocationToMemory, Inv, NothingYet, TypeServesUsage, PoolsServe
<1>6. OnlyPlaceDirty' /\ ContentSomewhere'
  BY <1>1 DEF CopyAllocationToMemory, Inv, OnlyPlaceDirty, ContentSomewhere
<1>7. OnlyIncoherentCached' /\ SyncedLine'
  BY <1>1, <1>2
  DEF CopyAllocationToMemory, Inv, TypeOK, OnlyIncoherentCached, SyncedLine, Visible, Coherent
<1> QED BY <1>4, <1>5, <1>6, <1>7 DEF Inv

LEMMA CopyMemoryToAllocationInv ==
  ASSUME NEW d \in Data, Inv, CopyMemoryToAllocation(d)
  PROVE  Inv'
<1> USE HostAssumption
<1>1. usage = "Raw" /\ usage # "none" /\ place \in Slots /\ Visible
  BY MappableFlags DEF CopyMemoryToAllocation, Inv, TypeOK, TypeServesUsage, Visible
<1>2. mem' = [mem EXCEPT ![place] = d] /\ dirty' = dirty \ {place} /\ content' = d
  BY DEF CopyMemoryToAllocation
<1>3. NothingYet' /\ TypeServesUsage' /\ PoolsServe'
  BY <1>1 DEF CopyMemoryToAllocation, Inv, NothingYet, TypeServesUsage, PoolsServe
<1>4. OnlyPlaceDirty' /\ ContentSomewhere'
  BY <1>1, <1>2 DEF CopyMemoryToAllocation, Inv, TypeOK, OnlyPlaceDirty, ContentSomewhere
<1>5. CASE Coherent
  <2>1. UNCHANGED cache
    BY <1>5 DEF CopyMemoryToAllocation
  <2>2. TypeOK'
    BY <1>1, <1>2, <2>1 DEF CopyMemoryToAllocation, Inv, TypeOK, Contents
  <2>3. OnlyIncoherentCached' /\ SyncedLine'
    BY <1>1, <1>5, <2>1
    DEF CopyMemoryToAllocation, Inv, OnlyIncoherentCached, SyncedLine, Visible, Coherent
  <2> QED BY <1>3, <1>4, <2>2, <2>3 DEF Inv
<1>6. CASE ~Coherent
  <2>1. cache' = [cache EXCEPT ![place] = d]
    BY <1>6 DEF CopyMemoryToAllocation
  <2>2. TypeOK'
    BY <1>1, <1>2, <2>1 DEF CopyMemoryToAllocation, Inv, TypeOK, Contents
  <2>3. OnlyIncoherentCached' /\ SyncedLine'
    BY <1>1, <1>2, <1>6, <2>1
    DEF CopyMemoryToAllocation, Inv, TypeOK, OnlyIncoherentCached, SyncedLine, Visible, Coherent
  <2> QED BY <1>3, <1>4, <2>2, <2>3 DEF Inv
<1> QED BY <1>5, <1>6

LEMMA FetchInv ==
  ASSUME NEW s \in Slots, Inv, Fetch(s)
  PROVE  Inv'
<1>1. s \notin dirty
  BY DEF Fetch, Inv, TypeOK
<1>2. TypeOK'
  BY <1>1 DEF Fetch, Inv, TypeOK
<1>3. NothingYet' /\ TypeServesUsage'
  BY DEF Fetch, Inv, NothingYet, TypeServesUsage
<1>6. PoolsServe' /\ SyncedLine'
  BY <1>1 DEF Fetch, Inv, TypeOK, PoolsServe, ContentSomewhere, SyncedLine
<1>4. OnlyIncoherentCached' /\ OnlyPlaceDirty'
  BY DEF Fetch, Inv, OnlyIncoherentCached, OnlyPlaceDirty, Visible, Coherent
<1>5. ContentSomewhere'
  BY <1>1 DEF Fetch, Inv, TypeOK, ContentSomewhere
<1> QED BY <1>2, <1>3, <1>4, <1>5, <1>6 DEF Inv

LEMMA EvictInv ==
  ASSUME NEW s \in Slots, Inv, Evict(s)
  PROVE  Inv'
<1>1. Visible /\ ~Coherent /\ usage # "none"
  BY DEF Evict, Inv, OnlyIncoherentCached, NothingYet, Visible
<1>2. TypeOK'
  BY DEF Evict, Inv, TypeOK
<1>3. NothingYet' /\ TypeServesUsage'
  BY <1>1 DEF Evict, Inv, NothingYet, TypeServesUsage
<1>4. OnlyIncoherentCached' /\ OnlyPlaceDirty'
  BY <1>1 DEF Evict, Inv, OnlyIncoherentCached, OnlyPlaceDirty, Visible, Coherent
<1>5. ContentSomewhere'
  BY DEF Evict, Inv, TypeOK, OnlyPlaceDirty, ContentSomewhere
<1>6. PoolsServe' /\ SyncedLine'
  BY DEF Evict, Inv, TypeOK, PoolsServe, SyncedLine
<1> QED BY <1>2, <1>3, <1>4, <1>5, <1>6 DEF Inv

LEMMA DeviceWriteInv ==
  ASSUME NEW d \in Data, Inv, DeviceWrite(d)
  PROVE  Inv'
<1>1. dirty = {} /\ place \in Slots
  BY DEF DeviceWrite, Inv, TypeOK, OnlyPlaceDirty
<1>2. TypeOK'
  BY DEF DeviceWrite, Inv, TypeOK, Contents
<1>3. NothingYet' /\ TypeServesUsage' /\ OnlyIncoherentCached' /\ OnlyPlaceDirty'
  BY DEF DeviceWrite, Inv, NothingYet, TypeServesUsage, OnlyIncoherentCached, OnlyPlaceDirty,
         Visible, Coherent
<1>4. ContentSomewhere'
  BY <1>1 DEF DeviceWrite, Inv, TypeOK, ContentSomewhere
<1>5. PoolsServe' /\ SyncedLine'
  BY DEF DeviceWrite, Inv, PoolsServe, SyncedLine
<1> QED BY <1>2, <1>3, <1>4, <1>5 DEF Inv

LEMMA MoveInv ==
  ASSUME NEW s \in Slots, Inv, Move(s)
  PROVE  Inv'
<1>1. dirty = {} /\ place \in Slots /\ s # place
  BY DEF Move, Inv, TypeOK, OnlyPlaceDirty
<1>2. TypeOK'
  BY DEF Move, Inv, TypeOK, Contents
<1>3. NothingYet' /\ TypeServesUsage' /\ OnlyIncoherentCached' /\ OnlyPlaceDirty'
  BY <1>1 DEF Move, Inv, NothingYet, TypeServesUsage, OnlyIncoherentCached, OnlyPlaceDirty,
              Visible, Coherent
<1>4. ContentSomewhere'
  BY <1>1 DEF Move, Inv, TypeOK, ContentSomewhere
<1>5. PoolsServe' /\ SyncedLine'
  BY DEF Move, Inv, PoolsServe, SyncedLine
<1> QED BY <1>2, <1>3, <1>4, <1>5 DEF Inv
-----------------------------------------------------------------------------
LEMMA NextInv == Inv /\ [Next]_vars => Inv'
<1> SUFFICES ASSUME Inv, [Next]_vars PROVE Inv'
  OBVIOUS
<1>1. CASE UNCHANGED vars
  BY <1>1 DEF vars, Inv, TypeOK, NothingYet, TypeServesUsage, OnlyIncoherentCached,
              OnlyPlaceDirty, ContentSomewhere, PoolsServe, SyncedLine, Visible, Coherent
<1>2. CASE Next
  BY <1>2, AllocateInv, MapBeginInv, WriteInv, FlushInv, MapEndInv, FetchInv, EvictInv,
     DeviceWriteInv, MoveInv, CreatePoolInv, AllocateFromPoolInv, FlushAllocationInv,
     InvalidateAllocationInv, CopyMemoryToAllocationInv, MapMemoryInv, UnmapMemoryInv,
     CopyAllocationToMemoryInv
  DEF Next
<1> QED BY <1>1, <1>2

LEMMA Invariance == Spec => []Inv
BY InitInv, NextInv, PTL DEF Spec

(* Every variable keeps its type.                                          *)
THEOREM TypeCorrect == Spec => []TypeOK
<1>1. Inv => TypeOK
  BY DEF Inv
<1> QED BY <1>1, Invariance, PTL

(* Outside map the device finds what was stored last: the flush of a       *)
(* closure's range, the coherence aci requires for Cpu and the copies of   *)
(* defrag together leave nothing behind in the host's cache.               *)
THEOREM DeviceSees == Spec => []DeviceSeesContent
<1>1. Inv => DeviceSeesContent
  BY DEF Inv, OnlyPlaceDirty, ContentSomewhere, DeviceSeesContent
<1> QED BY <1>1, Invariance, PTL

(* The host always reads from Cpu memory what was stored last, although    *)
(* map neither flushes nor invalidates.                                    *)
THEOREM CpuSees == Spec => []CpuSeesContent
<1>1. Inv => CpuSeesContent
  <2> SUFFICES ASSUME Inv, usage = "Cpu" PROVE HostSees = content
    BY DEF CpuSeesContent
  <2>1. Coherent
    BY CpuFlags DEF Inv, TypeServesUsage, Coherent
  <2>2. dirty = {}
    BY <2>1, CoherentClean
  <2> QED BY <2>1, <2>2 DEF Inv, ContentSomewhere, HostSees
<1> QED BY <1>1, Invariance, PTL

(* Memory of a usage documented as mappable is visible to the host.        *)
THEOREM Mappable == Spec => []MappableAsDocumented
<1>1. Inv => MappableAsDocumented
  BY MappableFlags DEF Inv, TypeServesUsage, MappableAsDocumented, Visible
<1> QED BY <1>1, Invariance, PTL

(* After an invalidate or a copy to the host the host reads what was       *)
(* stored last until the device stores or moves, on any device.            *)
THEOREM Invalidated == Spec => []InvalidatedSees
<1>1. Inv => InvalidatedSees
  <2> SUFFICES ASSUME Inv, synced PROVE HostSees = content
    BY DEF InvalidatedSees
  <2>1. place \in Slots /\ (cache[place] = NoLine => place \notin dirty)
    BY DEF Inv, TypeOK
  <2>2. CASE Coherent \/ cache[place] = NoLine
    BY <2>1, <2>2, CoherentClean DEF Inv, ContentSomewhere, HostSees
  <2>3. CASE ~(Coherent \/ cache[place] = NoLine)
    BY <2>3 DEF Inv, SyncedLine, HostSees
  <2> QED BY <2>2, <2>3
<1> QED BY <1>1, Invariance, PTL
=============================================================================
