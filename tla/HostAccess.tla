----------------------------- MODULE HostAccess -----------------------------
(***************************************************************************)
(* What the host and the device see of one resource: the memory type that  *)
(* aci (src/auto.rs) asks for, the host's cache in front of memory that is *)
(* not HOST_COHERENT, map with the flush it hands to its closure, the      *)
(* client's work on the device, and the moves of defrag.                   *)
(*                                                                         *)
(* A resource of usage "Raw" is not a managed one: the client allocated it *)
(* with an Allocator or a pool of its own, and flushes, invalidates and    *)
(* copies with the functions of src/lib.rs.  As Vulkan requires it writes  *)
(* back what it wrote before the device uses the memory, before it         *)
(* invalidates, and before it unmaps.                                      *)
(*                                                                         *)
(* ManagedAllocator tells when an operation may run; here the operations   *)
(* follow each other and the cache works behind them: a line may be        *)
(* fetched or evicted at any time, also between mappings, because neither  *)
(* mapping nor unmapping flushes or invalidates anything.                  *)
(***************************************************************************)
EXTENDS Integers, FiniteSets

CONSTANTS
  MemoryTypes,   \* the memory types of the device: sets of property flags
  Usages,        \* the usages the client allocates with
  SlotCount,     \* places the resource can have in its memory block
  Data,          \* what the client can store
  Undefined,     \* content nobody may rely on
  NoLine         \* a slot that is not in the host's cache

MemoryPropertyFlags == {"DEVICE_LOCAL", "HOST_VISIBLE", "HOST_COHERENT", "HOST_CACHED"}

AllocationUsage == {"GpuOnly", "Upload", "Readback", "Cpu"}

AllUsages == AllocationUsage \cup {"Raw"}

(* Vulkan gives every device memory that is visible and coherent, and      *)
(* device local memory.                                                    *)
ASSUME HostAssumption ==
  /\ MemoryTypes \subseteq SUBSET MemoryPropertyFlags
  /\ \E t \in MemoryTypes : {"HOST_VISIBLE", "HOST_COHERENT"} \subseteq t
  /\ \E t \in MemoryTypes : "DEVICE_LOCAL" \in t
  /\ Usages \subseteq AllUsages
  /\ SlotCount \in Nat \ {0}
  /\ Undefined \notin Data
  /\ NoLine \notin Data \cup {Undefined}

VARIABLES
  pools,    \* the memory types the client made a pool of
  usage,    \* the usage of the resource, "none" before it is allocated
  type,     \* the memory type VMA chose for it
  place,    \* the slot it is in
  mem,      \* mem[s]: what the device finds in slot s
  cache,    \* cache[s]: the line of slot s in the host's cache
  dirty,    \* the slots whose line was written and not written back
  mapped,   \* a map closure runs
  synced,   \* the client invalidated or read back since the device stored or moved
  content   \* the last content the client or its work on the device stored

vars == <<pools, usage, type, place, mem, cache, dirty, mapped, synced, content>>

Slots    == 1 .. SlotCount
Contents == Data \cup {Undefined}

TypeOK ==
  /\ pools \subseteq MemoryTypes
  /\ usage \in Usages \cup {"none"}
  /\ type \in SUBSET MemoryPropertyFlags
  /\ place \in Slots
  /\ mem \in [Slots -> Contents]
  /\ cache \in [Slots -> Contents \cup {NoLine}]
  /\ dirty \subseteq {s \in Slots : cache[s] # NoLine}
  /\ mapped \in BOOLEAN
  /\ synced \in BOOLEAN
  /\ content \in Contents

Init ==
  /\ pools = {}
  /\ usage = "none"
  /\ type = {}
  /\ place = 1
  /\ mem = [s \in Slots |-> Undefined]
  /\ cache = [s \in Slots |-> NoLine]
  /\ dirty = {}
  /\ mapped = FALSE
  /\ synced = FALSE
  /\ content = Undefined

Coherent == "HOST_COHERENT" \in type
Visible  == "HOST_VISIBLE" \in type
-----------------------------------------------------------------------------
(* Mutant: Cpu memory is cached only.                                      *)
CpuCachedOnly(u) ==
  CASE u = "GpuOnly"  -> {"DEVICE_LOCAL"}
    [] u = "Upload"   -> {"HOST_VISIBLE"}
    [] u = "Readback" -> {"HOST_VISIBLE", "HOST_CACHED"}
    [] u = "Cpu"      -> {"HOST_VISIBLE", "HOST_CACHED"}
    [] u = "Raw"      -> {"HOST_VISIBLE"}

(* Mutant: Readback memory is cached, visible or not.                      *)
ReadbackCachedOnly(u) ==
  CASE u = "GpuOnly"  -> {"DEVICE_LOCAL"}
    [] u = "Upload"   -> {}
    [] u = "Readback" -> {"HOST_CACHED"}
    [] u = "Cpu"      -> {"HOST_VISIBLE", "HOST_COHERENT", "HOST_CACHED"}
    [] u = "Raw"      -> {"HOST_VISIBLE"}

(* AllocatorSingleThread::aci, and for "Raw" a client that wants to read:  *)
(* the flags required of the memory type ...                               *)
RequiredFlags(u) ==
  CASE u = "GpuOnly"  -> {"DEVICE_LOCAL"}
    [] u = "Upload"   -> {"HOST_VISIBLE"}
    [] u = "Readback" -> {"HOST_VISIBLE", "HOST_CACHED"}
    [] u = "Cpu"      -> {"HOST_VISIBLE", "HOST_COHERENT", "HOST_CACHED"}
    [] u = "Raw"      -> {"HOST_VISIBLE"}

(* ... and the flags preferred.                                            *)
PreferredFlags(u) ==
  CASE u = "GpuOnly"  -> {}
    [] u = "Upload"   -> {"DEVICE_LOCAL", "HOST_COHERENT"}
    [] u = "Readback" -> {"DEVICE_LOCAL"}
    [] u = "Cpu"      -> {}
    [] u = "Raw"      -> {"HOST_CACHED"}

(* vmaFindMemoryTypeIndex: a type that has every required flag and misses  *)
(* as few preferred ones as any other.                                     *)
Suitable(u) == {t \in MemoryTypes : RequiredFlags(u) \subseteq t}
Missing(u, t) == Cardinality(PreferredFlags(u) \ t)
Best(u) == {t \in Suitable(u) : \A o \in Suitable(u) : Missing(u, t) <= Missing(u, o)}

(* Mutant: the memory is allocated and the resource never bound to it.     *)
AllocateUnbound(u, t, s) ==
  /\ usage = "none"
  /\ t \in Best(u)
  /\ usage' = u
  /\ type' = t
  /\ place' = 0
  /\ UNCHANGED <<pools, mem, cache, dirty, mapped, synced, content>>

(* allocate_buffer or allocate_image with usage u; for "Raw" a function of *)
(* trait Alloc called on an Allocator.                                     *)
Allocate(u, t, s) ==
  /\ usage = "none"
  /\ t \in Best(u)
  /\ usage' = u
  /\ type' = t
  /\ place' = s
  /\ UNCHANGED <<pools, mem, cache, dirty, mapped, synced, content>>

(* The find_memory_type_index functions of trait Alloc.                    *)
FindMemoryTypeIndex(u) == Best(u)

(* Mutant: the memory type index is left at its default, the first type.   *)
CreatePoolOfFirst(t) ==
  /\ "Raw" \in Usages
  /\ usage = "none" /\ pools = {}
  /\ t \in FindMemoryTypeIndex("Raw")
  /\ pools' = {CHOOSE f \in MemoryTypes : TRUE}
  /\ UNCHANGED <<usage, type, place, mem, cache, dirty, mapped, synced, content>>

(* The client makes a pool of the memory type found for what it wants, as  *)
(* the test of src/pool.rs does.  One pool is enough for one resource.     *)
CreatePool(t) ==
  /\ "Raw" \in Usages
  /\ usage = "none" /\ pools = {}
  /\ t \in FindMemoryTypeIndex("Raw")
  /\ pools' = {t}
  /\ UNCHANGED <<usage, type, place, mem, cache, dirty, mapped, synced, content>>

(* A function of trait Alloc called on that pool: flags no longer matter.  *)
AllocateFromPool(t, s) ==
  /\ usage = "none"
  /\ t \in pools
  /\ usage' = "Raw"
  /\ type' = t
  /\ place' = s
  /\ UNCHANGED <<pools, mem, cache, dirty, mapped, synced, content>>
-----------------------------------------------------------------------------
(* AllocatorSingleThread::map up to the closure.  On memory that is not    *)
(* visible to the host the unwrap of map_memory panics, and nothing        *)
(* changes.                                                                *)
MapBegin ==
  /\ usage \notin {"none", "Raw"}
  /\ ~mapped
  /\ Visible
  /\ mapped' = TRUE
  /\ UNCHANGED <<pools, usage, type, place, mem, cache, dirty, synced, content>>

(* The closure, or a client that called map_memory, stores d through its   *)
(* pointer.                                                                *)
Write(d) ==
  /\ mapped
  /\ content' = d
  /\ IF Coherent
     THEN /\ mem' = [mem EXCEPT ![place] = d]
          /\ UNCHANGED <<cache, dirty>>
     ELSE /\ cache' = [cache EXCEPT ![place] = d]
          /\ dirty' = dirty \cup {place}
          /\ UNCHANGED mem
  /\ UNCHANGED <<pools, usage, type, place, mapped, synced>>

(* Mutant: the range starts behind the allocation.                         *)
RangeBehind == (place + 1) .. SlotCount

(* The range of flush: from the offset of the allocation, WHOLE_SIZE.      *)
FlushedRange == place .. SlotCount

(* vkFlushMappedMemoryRanges, through the closure map hands out.           *)
Flush ==
  /\ mapped /\ usage # "Raw"
  /\ mem' = [s \in Slots |-> IF s \in dirty \cap FlushedRange THEN cache[s] ELSE mem[s]]
  /\ dirty' = dirty \ FlushedRange
  /\ UNCHANGED <<pools, usage, type, place, cache, mapped, synced, content>>

(* The closure returns.  As the fill of the test suite does, it flushes    *)
(* what it wrote, unless the usage says that the memory is the host's.     *)
MapEnd ==
  /\ mapped /\ usage # "Raw"
  /\ usage = "Cpu" \/ dirty \cap FlushedRange = {}
  /\ mapped' = FALSE
  /\ UNCHANGED <<pools, usage, type, place, mem, cache, dirty, synced, content>>
-----------------------------------------------------------------------------
(* map_memory and unmap_memory, of the client's own allocation.  On memory *)
(* that is not visible map_memory returns an error.                        *)
MapMemory ==
  /\ usage = "Raw"
  /\ ~mapped
  /\ Visible
  /\ mapped' = TRUE
  /\ UNCHANGED <<pools, usage, type, place, mem, cache, dirty, synced, content>>

UnmapMemory ==
  /\ usage = "Raw" /\ mapped
  /\ dirty = {}
  /\ mapped' = FALSE
  /\ UNCHANGED <<pools, usage, type, place, mem, cache, dirty, synced, content>>

(* flush_allocation and flush_allocations, of the client's own allocation; *)
(* VMA ignores them on coherent memory.                                    *)
FlushAllocation ==
  /\ usage = "Raw" /\ mapped
  /\ ~Coherent
  /\ mem' = IF place \in dirty THEN [mem EXCEPT ![place] = cache[place]] ELSE mem
  /\ dirty' = dirty \ {place}
  /\ UNCHANGED <<pools, usage, type, place, cache, mapped, synced, content>>

(* Mutant: the call next to it is made, vmaFlushAllocation.                *)
InvalidateFlushes ==
  /\ usage = "Raw" /\ mapped
  /\ place \notin dirty
  /\ synced' = TRUE
  /\ UNCHANGED <<pools, usage, type, place, mem, cache, dirty, mapped, content>>

(* invalidate_allocation and invalidate_allocations: the host's line is    *)
(* thrown away.                                                            *)
InvalidateAllocation ==
  /\ usage = "Raw" /\ mapped
  /\ place \notin dirty
  /\ cache' = [cache EXCEPT ![place] = NoLine]
  /\ synced' = TRUE
  /\ UNCHANGED <<pools, usage, type, place, mem, dirty, mapped, content>>

(* copy_allocation_to_memory: VMA maps and invalidates for itself, then    *)
(* fetches what it copies.                                                 *)
CopyAllocationToMemory ==
  /\ usage = "Raw"
  /\ place \notin dirty
  /\ cache' = IF Coherent THEN cache ELSE [cache EXCEPT ![place] = mem[place]]
  /\ synced' = TRUE
  /\ UNCHANGED <<pools, usage, type, place, mem, dirty, mapped, content>>

(* copy_memory_to_allocation: VMA maps, stores and flushes for itself.     *)
CopyMemoryToAllocation(d) ==
  /\ usage = "Raw"
  /\ content' = d
  /\ mem' = [mem EXCEPT ![place] = d]
  /\ cache' = IF Coherent THEN cache ELSE [cache EXCEPT ![place] = d]
  /\ dirty' = dirty \ {place}
  /\ UNCHANGED <<pools, usage, type, place, mapped, synced>>
-----------------------------------------------------------------------------
(* The host fetches a line, by a read of its own or speculatively ...      *)
Fetch(s) ==
  /\ Visible /\ ~Coherent
  /\ cache[s] = NoLine
  /\ cache' = [cache EXCEPT ![s] = mem[s]]
  /\ UNCHANGED <<pools, usage, type, place, mem, dirty, mapped, synced, content>>

(* ... and evicts one, writing it back if it was written.                  *)
Evict(s) ==
  /\ cache[s] # NoLine
  /\ cache' = [cache EXCEPT ![s] = NoLine]
  /\ mem' = IF s \in dirty THEN [mem EXCEPT ![s] = cache[s]] ELSE mem
  /\ dirty' = dirty \ {s}
  /\ UNCHANGED <<pools, usage, type, place, mapped, synced, content>>

(* The client's own work on the device stores d, and the client waits for  *)
(* it.  Its own allocation may stay mapped meanwhile.                      *)
DeviceWrite(d) ==
  /\ usage # "none"
  /\ ~mapped \/ (usage = "Raw" /\ dirty = {})
  /\ mem' = [mem EXCEPT ![place] = d]
  /\ content' = d
  /\ synced' = FALSE
  /\ UNCHANGED <<pools, usage, type, place, cache, dirty, mapped>>

(* A defrag moves the resource: the device copies it and the old place is  *)
(* given up.                                                               *)
Move(s) ==
  /\ usage # "none"
  /\ ~mapped
  /\ s # place
  /\ mem' = [mem EXCEPT ![s] = mem[place], ![place] = Undefined]
  /\ place' = s
  /\ synced' = FALSE
  /\ UNCHANGED <<pools, usage, type, cache, dirty, mapped, content>>

Next ==
  \/ \E u \in Usages, t \in MemoryTypes, s \in Slots : Allocate(u, t, s)
  \/ \E t \in MemoryTypes : CreatePool(t) \/ \E s \in Slots : AllocateFromPool(t, s)
  \/ MapBegin
  \/ \E d \in Data : Write(d) \/ DeviceWrite(d) \/ CopyMemoryToAllocation(d)
  \/ Flush
  \/ MapMemory \/ UnmapMemory
  \/ FlushAllocation \/ InvalidateAllocation
  \/ CopyAllocationToMemory
  \/ MapEnd
  \/ \E s \in Slots : Fetch(s) \/ Evict(s) \/ Move(s)

Spec == Init /\ [][Next]_vars
-----------------------------------------------------------------------------
(* What a read through the pointer of map returns.                         *)
HostSees ==
  IF Coherent \/ cache[place] = NoLine THEN mem[place] ELSE cache[place]

(* Outside map the device finds what was stored last, whoever stored it    *)
(* and wherever defrag moved it: for Upload this is the point of flush,    *)
(* for Cpu, whose closures need not flush, of the required HOST_COHERENT.  *)
DeviceSeesContent ==
  usage # "none" /\ ~mapped => mem[place] = content

(* Memory of usage Cpu (src/auto/config.rs: CPU-owned memory) never shows  *)
(* the host anything but what was stored last.                             *)
CpuSeesContent ==
  usage = "Cpu" => HostSees = content

(* map never panics on a resource whose usage says it can be mapped        *)
(* (src/auto/config.rs: Can be Mapped), whatever memory the device has,    *)
(* and map_memory does not fail on one that was to be visible, also if it  *)
(* comes from a pool, where the flags of the allocation are ignored.       *)
MappableAsDocumented ==
  usage \in {"Upload", "Readback", "Cpu", "Raw"} => Visible

(* From an invalidate_allocation or a copy_allocation_to_memory on, until  *)
(* the device stores or moves again, the host reads what was stored last,  *)
(* although lines come and go and the host itself stores and flushes.      *)
InvalidatedSees == synced => HostSees = content

(* Memory of usage Readback shows the host what the device wrote           *)
(* (src/auto/config.rs: GPU writes, CPU reads).                            *)
ReadbackSeesContent ==
  usage = "Readback" /\ mapped => HostSees = content
=============================================================================
