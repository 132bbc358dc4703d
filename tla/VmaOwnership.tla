---------------------------- MODULE VmaOwnership ----------------------------
(***************************************************************************)
(* The crate's values that own or borrow what VMA made: Allocator          *)
(* (src/lib.rs), AllocatorPool (src/pool.rs), DefragmentationContext       *)
(* (src/defragmentation.rs) and the allocations drawn from them.           *)
(*                                                                         *)
(* Allocator and AllocatorPool are Send and Sync, so their values may be   *)
(* used and dropped by several threads; the drop of a pool value has two   *)
(* steps, between which others run.  The borrow checker is part of the     *)
(* model: a value that is borrowed is neither moved nor dropped, unless    *)
(* another one can lend instead.  The client keeps the contracts of the    *)
(* unsafe functions: it frees what it allocated, once, while it still      *)
(* reaches the allocator and before it drops the pool, and keeps the two   *)
(* raw parts of a pool together.                                           *)
(***************************************************************************)
EXTENDS Integers, FiniteSets

CONSTANTS
  Pools,         \* the pools VMA can make; a destroyed one may be made again
  Values,        \* identities for AllocatorPool values
  Contexts,      \* identities for defragmentations
  Allocations,   \* VmaAllocation pointers
  UserData,      \* what pUserData can hold
  MaxArcs,       \* bound on the client's own Arc<Allocator>
  Null,          \* the null VmaPool: VMA's default pools
  None           \* no value, no allocation

ASSUME OwnershipAssumption ==
  /\ IsFiniteSet(Values)
  /\ MaxArcs \in Nat \ {0}
  /\ Null \notin Pools

VARIABLES
  (* VMA *)
  allocatorLive, \* the VmaAllocator exists
  pools,         \* the pools that exist
  contexts,      \* the defragmentations begun and not ended
  open,          \* those of them with a pass begun and not ended
  allocs,        \* allocs[a]: where a lies and its user data, or None
  objects,       \* the allocations with a buffer or image bound to them
  (* the crate and its client *)
  holder,        \* how the Allocator is held: "value", "raw", "arc" or "none"
  arcs,          \* the strong count of Arc<Allocator>
  clientArcs,    \* those of the Arcs that the client holds itself
  value,         \* value[v]: an AllocatorPool, whole, as raw parts or half dropped, or None
  ctx,           \* ctx[c]: how far the DefragmentationContext is
  made           \* made[a]: what the client knows of a, or None

sharing    == <<allocatorLive, holder, arcs, clientArcs>>
poolVars   == <<pools, value>>
defragVars == <<contexts, open, ctx>>
allocVars  == <<allocs, objects, made>>

ownershipVars == <<sharing, poolVars, defragVars, allocVars>>

AllocatorPools ==
  [by : {"arc", "ref"}, pool : Pools \cup {Null}, phase : {"held", "raw", "dropping"}]

(* AllocationCreateInfo without what only VMA reads.                       *)
AllocationCreateInfos == [userData : UserData]

AllocationInfos == [pool : Pools \cup {Null}, userData : UserData]

ASSUME NoneAssumption == None \notin AllocatorPools \cup AllocationInfos

OwnershipTypeOK ==
  /\ allocatorLive \in BOOLEAN
  /\ pools \subseteq Pools
  /\ contexts \subseteq Contexts
  /\ open \subseteq contexts
  /\ objects \subseteq Allocations
  /\ allocs \in [Allocations -> AllocationInfos \cup {None}]
  /\ holder \in {"value", "raw", "arc", "none"}
  /\ arcs \in 0 .. MaxArcs + Cardinality(Values)
  /\ clientArcs \in 0 .. MaxArcs
  /\ value \in [Values -> AllocatorPools \cup {None}]
  /\ ctx \in [Contexts -> {"none", "idle", "inPass", "abandoned"}]
  /\ made \in [Allocations -> AllocationInfos \cup {None}]

OwnershipInit ==
  /\ allocatorLive = FALSE
  /\ pools = {} /\ contexts = {} /\ open = {}
  /\ allocs = [a \in Allocations |-> None]
  /\ objects = {}
  /\ holder = "none"
  /\ arcs = 0 /\ clientArcs = 0
  /\ value = [v \in Values |-> None]
  /\ ctx = [c \in Contexts |-> "none"]
  /\ made = [a \in Allocations |-> None]
-----------------------------------------------------------------------------
Is(v, phases)  == value[v] # None /\ value[v].phase \in phases
ByArc          == {v \in Values : value[v] # None /\ value[v].by = "arc"}
ByRef          == {v \in Values : value[v] # None /\ value[v].by = "ref"}
Lenders        == {v \in ByArc : value[v].phase # "dropping"}

(* References to the Allocator that are alive.                             *)
Borrowed == ByRef # {} \/ \E c \in Contexts : ctx[c] # "none"

(* How many values can lend a reference to the Allocator.                  *)
LenderCount ==
  clientArcs + Cardinality(Lenders) + (IF holder = "value" THEN 1 ELSE 0)

Reachable == LenderCount > 0

(* A lender may be moved, and may be dropped.                              *)
MayMove == Borrowed => LenderCount > 1
MayLetGo == LenderCount > 1 \/ (~Borrowed /\ \A a \in Allocations : made[a] = None)
-----------------------------------------------------------------------------
(* Allocator::new, into_raw, from_raw, and Arc::new of a client that wants *)
(* to share it.                                                            *)
NewAllocator ==
  /\ holder = "none"
  /\ holder' = "value"
  /\ allocatorLive' = TRUE
  /\ UNCHANGED <<arcs, clientArcs, poolVars, defragVars, allocVars>>

(* Mutant: the value is not forgotten, and its Drop runs.                  *)
AllocatorIntoRawDrops ==
  /\ holder = "value" /\ MayMove
  /\ holder' = "raw"
  /\ allocatorLive' = FALSE
  /\ UNCHANGED <<arcs, clientArcs, poolVars, defragVars, allocVars>>

AllocatorIntoRaw ==
  /\ holder = "value" /\ MayMove
  /\ holder' = "raw"
  /\ UNCHANGED <<allocatorLive, arcs, clientArcs, poolVars, defragVars, allocVars>>

AllocatorFromRaw ==
  /\ holder = "raw"
  /\ holder' = "value"
  /\ UNCHANGED <<allocatorLive, arcs, clientArcs, poolVars, defragVars, allocVars>>

NewArc ==
  /\ holder = "value" /\ MayMove
  /\ holder' = "arc"
  /\ arcs' = 1 /\ clientArcs' = 1
  /\ UNCHANGED <<allocatorLive, poolVars, defragVars, allocVars>>

CloneArc ==
  /\ 0 < clientArcs /\ clientArcs < MaxArcs
  /\ arcs' = arcs + 1 /\ clientArcs' = clientArcs + 1
  /\ UNCHANGED <<allocatorLive, holder, poolVars, defragVars, allocVars>>

(* Allocator::drop.                                                        *)
DropAllocator ==
  /\ holder = "value" /\ MayLetGo
  /\ holder' = "none"
  /\ allocatorLive' = FALSE
  /\ UNCHANGED <<arcs, clientArcs, poolVars, defragVars, allocVars>>

(* One Arc<Allocator> goes; with the last one the Allocator is dropped.    *)
ReleaseArc ==
  /\ arcs' = arcs - 1
  /\ holder' = IF arcs = 1 THEN "none" ELSE holder
  /\ allocatorLive' = (allocatorLive /\ arcs # 1)

DropArc ==
  /\ clientArcs > 0 /\ MayLetGo
  /\ ReleaseArc
  /\ clientArcs' = clientArcs - 1
  /\ UNCHANGED <<poolVars, defragVars, allocVars>>
-----------------------------------------------------------------------------
NewValue(v, by, p) ==
  /\ value[v] = None
  /\ value' = [value EXCEPT ![v] = [by |-> by, pool |-> p, phase |-> "held"]]

(* Mutant: the Arc is cloned for the raw parts and again for the pool.     *)
CreatePoolClonesTwice(v, p) ==
  /\ clientArcs > 0
  /\ p \notin pools
  /\ pools' = pools \cup {p}
  /\ arcs' = arcs + 2
  /\ NewValue(v, "arc", p)
  /\ UNCHANGED <<allocatorLive, holder, clientArcs, defragVars, allocVars>>

(* create_pool: a pool by reference, taken apart and put together again    *)
(* with a clone of the Arc.  create_pool_with_ref is its first half.       *)
CreatePool(v, p) ==
  /\ clientArcs > 0
  /\ p \notin pools
  /\ pools' = pools \cup {p}
  /\ arcs' = arcs + 1
  /\ NewValue(v, "arc", p)
  /\ UNCHANGED <<allocatorLive, holder, clientArcs, defragVars, allocVars>>

CreatePoolWithRef(v, p) ==
  /\ Reachable
  /\ p \notin pools
  /\ pools' = pools \cup {p}
  /\ NewValue(v, "ref", p)
  /\ UNCHANGED <<sharing, defragVars, allocVars>>

(* default_pool and default_pool_with_ref: a value for no pool of its own. *)
DefaultPool(v) ==
  /\ clientArcs > 0
  /\ arcs' = arcs + 1
  /\ NewValue(v, "arc", Null)
  /\ UNCHANGED <<allocatorLive, pools, holder, clientArcs, defragVars, allocVars>>

DefaultPoolWithRef(v) ==
  /\ Reachable
  /\ NewValue(v, "ref", Null)
  /\ UNCHANGED <<pools, sharing, defragVars, allocVars>>

(* Mutant: the pool is read out of a value that is dropped all the same.   *)
PoolIntoRawPartsDrops(v) ==
  /\ Is(v, {"held"}) /\ (v \in ByArc => MayMove)
  /\ pools' = pools \ {value[v].pool}
  /\ value' = [value EXCEPT ![v].phase = "raw"]
  /\ UNCHANGED <<sharing, defragVars, allocVars>>

(* into_raw_parts moves pool and allocator out of the value and forgets    *)
(* it; from_raw_parts makes a value of them.                               *)
PoolIntoRawParts(v) ==
  /\ Is(v, {"held"}) /\ (v \in ByArc => MayMove)
  /\ value' = [value EXCEPT ![v].phase = "raw"]
  /\ UNCHANGED <<pools, sharing, defragVars, allocVars>>

PoolFromRawParts(v) ==
  /\ Is(v, {"raw"}) /\ (v \in ByArc => MayMove)
  /\ value' = [value EXCEPT ![v].phase = "held"]
  /\ UNCHANGED <<pools, sharing, defragVars, allocVars>>

MayDropPool(v) ==
  /\ Is(v, {"held"})
  /\ v \in ByArc => MayLetGo
  /\ value[v].pool # Null =>
       \A a \in Allocations : made[a] # None => made[a].pool # value[v].pool

(* Mutant: the Arc goes first, then the pool.                              *)
DropPoolAfterArc(v) ==
  /\ MayDropPool(v)
  /\ value' = [value EXCEPT ![v].phase = "dropping"]
  /\ IF v \in ByArc THEN ReleaseArc ELSE UNCHANGED <<allocatorLive, holder, arcs>>
  /\ UNCHANGED <<pools, clientArcs, defragVars, allocVars>>

(* AllocatorPool::drop destroys the pool, which is nothing for a null one; *)
DropPool(v) ==
  /\ MayDropPool(v)
  /\ value' = [value EXCEPT ![v].phase = "dropping"]
  /\ pools' = pools \ {value[v].pool}
  /\ UNCHANGED <<sharing, defragVars, allocVars>>

(* then the value's fields are dropped, and with them its Arc.             *)
DropPoolFields(v) ==
  /\ Is(v, {"dropping"})
  /\ value' = [value EXCEPT ![v] = None]
  /\ IF v \in ByArc THEN ReleaseArc ELSE UNCHANGED <<allocatorLive, holder, arcs>>
  /\ UNCHANGED <<pools, clientArcs, defragVars, allocVars>>
-----------------------------------------------------------------------------
(* The conversion of an AllocationCreateInfo: everything but the pool,     *)
(* which is null;                                                          *)
ToVma(info) == [pool |-> Null, userData |-> info.userData]

(* Mutant: the pool of the conversion is kept.                             *)
DrawnFromDefault(p, info) == ToVma(info)

(* every function of trait Alloc sets it to its own afterwards.            *)
DrawnFrom(p, info) == [ToVma(info) EXCEPT !.pool = p]

(* allocate_memory, allocate_memory_for_buffer, allocate_memory_for_image, *)
(* and allocate_memory_pages for several at once, with self.pool() = p.    *)
AllocateMemory(S, p, info) ==
  /\ S # {} /\ \A a \in S : allocs[a] = None /\ made[a] = None
  /\ allocs' = [a \in Allocations |-> IF a \in S THEN DrawnFrom(p, info) ELSE allocs[a]]
  /\ made' = [a \in Allocations |->
                IF a \in S THEN [pool |-> p, userData |-> info.userData] ELSE made[a]]
  /\ UNCHANGED <<sharing, poolVars, defragVars>>

(* create_buffer, create_buffer_with_alignment, create_image: VMA creates  *)
(* the object, allocates for it and binds it.                              *)
CreateObject(a, p, info) ==
  /\ AllocateMemory({a}, p, info)
  /\ objects' = objects \cup {a}

Draw(p) ==
  \E info \in AllocationCreateInfos :
    \/ \E S \in SUBSET Allocations : AllocateMemory(S, p, info) /\ UNCHANGED objects
    \/ \E a \in Allocations : CreateObject(a, p, info)

(* Trait Alloc for Allocator and for AllocatorPool.                        *)
DrawFromAllocator == Reachable /\ Draw(Null)

DrawFromPool(v) == Is(v, {"held"}) /\ Draw(value[v].pool)

(* bind_buffer_memory, bind_image_memory: an object of the client's own.   *)
BindMemory(a) ==
  /\ Reachable
  /\ made[a] # None /\ a \notin objects
  /\ objects' = objects \cup {a}
  /\ UNCHANGED <<allocs, made, sharing, poolVars, defragVars>>

(* The client destroys an object without its memory.                       *)
vkDestroy(a) ==
  /\ a \in objects
  /\ objects' = objects \ {a}
  /\ UNCHANGED <<allocs, made, sharing, poolVars, defragVars>>

(* set_allocation_user_data.                                               *)
SetAllocationUserData(a, userData) ==
  /\ Reachable /\ made[a] # None
  /\ allocs[a] # None
  /\ allocs' = [allocs EXCEPT ![a].userData = userData]
  /\ made' = [made EXCEPT ![a].userData = userData]
  /\ UNCHANGED <<objects, sharing, poolVars, defragVars>>

(* get_allocation_info, and whether VMA knows a at all.                    *)
GetAllocationInfo(a) == allocs[a]

(* Mutant: the slice is passed with a length of one.                       *)
FreeMemoryFirst(S) ==
  /\ Reachable
  /\ S # {} /\ S \cap objects = {} /\ \A a \in S : made[a] # None
  /\ \E a \in S : allocs' = [allocs EXCEPT ![a] = None]
  /\ made' = [a \in Allocations |-> IF a \in S THEN None ELSE made[a]]
  /\ UNCHANGED <<objects, sharing, poolVars, defragVars>>

(* free_memory, and free_memory_pages for several, of whatever pools.      *)
FreeMemory(S) ==
  /\ Reachable
  /\ S # {} /\ S \cap objects = {} /\ \A a \in S : made[a] # None
  /\ allocs' = [a \in Allocations |-> IF a \in S THEN None ELSE allocs[a]]
  /\ made' = [a \in Allocations |-> IF a \in S THEN None ELSE made[a]]
  /\ UNCHANGED <<objects, sharing, poolVars, defragVars>>

(* destroy_buffer, destroy_image: the object and its memory.               *)
DestroyObject(a) ==
  /\ Reachable
  /\ a \in objects /\ made[a] # None
  /\ objects' = objects \ {a}
  /\ allocs' = [allocs EXCEPT ![a] = None]
  /\ made' = [made EXCEPT ![a] = None]
  /\ UNCHANGED <<sharing, poolVars, defragVars>>
-----------------------------------------------------------------------------
(* begin_defragmentation.                                                  *)
BeginDefragmentation(c) ==
  /\ Reachable
  /\ ctx[c] = "none"
  /\ ctx' = [ctx EXCEPT ![c] = "idle"]
  /\ contexts' = contexts \cup {c}
  /\ UNCHANGED <<open, sharing, poolVars, allocVars>>

(* begin_pass up to the call of the mover, when VMA has moves; when it has *)
(* none, begin_pass returns and nothing changes.                           *)
CallMover(c) ==
  /\ ctx[c] = "idle"
  /\ ctx' = [ctx EXCEPT ![c] = "inPass"]
  /\ open' = open \cup {c}
  /\ UNCHANGED <<contexts, sharing, poolVars, allocVars>>

(* Mutant: begin_pass returns with the mover.                              *)
MoverReturnsEarly(c) ==
  /\ ctx[c] = "inPass"
  /\ ctx' = [ctx EXCEPT ![c] = "idle"]
  /\ UNCHANGED <<contexts, open, sharing, poolVars, allocVars>>

(* begin_pass from the return of the mover.                                *)
MoverReturns(c) ==
  /\ ctx[c] = "inPass"
  /\ ctx' = [ctx EXCEPT ![c] = "idle"]
  /\ open' = open \ {c}
  /\ UNCHANGED <<contexts, sharing, poolVars, allocVars>>

(* The mover panics: the pass stays open, and the context is good only for *)
(* its Drop.                                                               *)
MoverPanics(c) ==
  /\ ctx[c] = "inPass"
  /\ ctx' = [ctx EXCEPT ![c] = "abandoned"]
  /\ UNCHANGED <<contexts, open, sharing, poolVars, allocVars>>

vmaEndDefragmentation(c) ==
  /\ contexts' = contexts \ {c}
  /\ open' = open \ {c}

(* Mutant: end does not forget the context, whose Drop is still to run.    *)
EndKeepsContext(c) ==
  /\ ctx[c] \in {"idle", "abandoned"}
  /\ vmaEndDefragmentation(c)
  /\ UNCHANGED <<ctx, sharing, poolVars, allocVars>>

(* end, which forgets the context: no Drop follows.                        *)
EndDefragmentation(c) ==
  /\ ctx[c] \in {"idle", "abandoned"}
  /\ ctx' = [ctx EXCEPT ![c] = "none"]
  /\ vmaEndDefragmentation(c)
  /\ UNCHANGED <<sharing, poolVars, allocVars>>

(* Drop, of a context that end did not take, also while a panic unwinds.   *)
DropContext(c) ==
  /\ ctx[c] \in {"idle", "abandoned"}
  /\ ctx' = [ctx EXCEPT ![c] = "none"]
  /\ vmaEndDefragmentation(c)
  /\ UNCHANGED <<sharing, poolVars, allocVars>>
-----------------------------------------------------------------------------
AllocatorStep ==
  \/ NewAllocator \/ AllocatorIntoRaw \/ AllocatorFromRaw \/ DropAllocator
  \/ NewArc \/ CloneArc \/ DropArc

PoolStep ==
  \E v \in Values :
    \/ \E p \in Pools : CreatePool(v, p) \/ CreatePoolWithRef(v, p)
    \/ DefaultPool(v) \/ DefaultPoolWithRef(v)
    \/ PoolIntoRawParts(v) \/ PoolFromRawParts(v)
    \/ DropPool(v) \/ DropPoolFields(v)

AllocationStep ==
  \/ DrawFromAllocator
  \/ \E v \in Values : DrawFromPool(v)
  \/ \E S \in SUBSET Allocations : FreeMemory(S)
  \/ \E a \in Allocations :
       \/ BindMemory(a) \/ vkDestroy(a) \/ DestroyObject(a)
       \/ \E d \in UserData : SetAllocationUserData(a, d)

DefragmentationStep ==
  \E c \in Contexts :
    \/ BeginDefragmentation(c)
    \/ CallMover(c) \/ MoverReturns(c) \/ MoverPanics(c)
    \/ EndDefragmentation(c) \/ DropContext(c)

OwnershipNext == AllocatorStep \/ PoolStep \/ AllocationStep \/ DefragmentationStep

(* A drop that has begun is finished by the thread that runs it.           *)
OwnershipFairness == \A v \in Values : WF_ownershipVars(DropPoolFields(v))

OwnershipSpec == OwnershipInit /\ [][OwnershipNext]_ownershipVars /\ OwnershipFairness
-----------------------------------------------------------------------------
Owns(v, p) == Is(v, {"held", "raw"}) /\ value[v].pool = p

(* Every pool of VMA has one owner, and nobody owns a pool that is gone:   *)
(* pools are neither leaked nor destroyed twice, whatever way they took    *)
(* through create_pool, raw parts and threads.                             *)
PoolsOwnedOnce ==
  /\ pools = {p \in Pools : \E v \in Values : Owns(v, p)}
  /\ \A p \in Pools, v, w \in Values : Owns(v, p) /\ Owns(w, p) => v = w

(* The VmaAllocator exists exactly as long as somebody may still use it or *)
(* must still free it: a value, a raw handle, an Arc of the client's, or a *)
(* pool by Arc, be it half dropped.                                        *)
AllocatorLiveWhileOwned ==
  allocatorLive <=> \/ holder \in {"value", "raw"}
                    \/ clientArcs > 0
                    \/ ByArc # {}

(* Nothing VMA made outlives what it was made from: pools, contexts,       *)
(* references and allocations die before the VmaAllocator, however Arcs,   *)
(* pools and threads share it, and objects before their memory.            *)
NothingOutlivesOwner ==
  /\ ~allocatorLive => /\ pools = {} /\ contexts = {} /\ ByRef = {}
                       /\ \A a \in Allocations : allocs[a] = None
  /\ \A a \in objects : allocs[a] # None

(* VMA sees its calls well bracketed: a defragmentation is ended once, by  *)
(* end or by Drop, and each pass once, unless its mover panicked.  A       *)
(* context whose defragmentation is over is gone, so nothing is left to    *)
(* end it again.                                                           *)
DefragmentationBracketed ==
  /\ contexts = {c \in Contexts : ctx[c] # "none"}
  /\ open = {c \in Contexts : ctx[c] \in {"inPass", "abandoned"}}

(* VMA's record of an allocation (get_allocation_info) is what the client  *)
(* asked for through whatever pool value, and set since.                   *)
AllocatedAsAsked == \A a \in Allocations : GetAllocationInfo(a) = made[a]

(* vmaDestroyPool finds no allocation left in its pool, by any order of    *)
(* drops in any threads.                                                   *)
PoolsDieEmpty ==
  [][\A p \in pools \ pools', a \in Allocations : allocs[a] # None => allocs[a].pool # p]_ownershipVars

(* Once the client let go of everything, the last drop to finish destroys  *)
(* the VmaAllocator.                                                       *)
AllocatorReclaimed ==
  (holder = "arc" /\ clientArcs = 0 /\ Lenders = {}) ~> ~allocatorLive
=============================================================================
