# A TLA+ model of vk-mem-auto

vk-mem-auto is a Rust crate around AMD's Vulkan Memory Allocator (VMA). Most of
it is a thin wrapper; what it adds is a *managed* allocator (`src/auto.rs`):
reference-counted handles to buffers and images that the allocator may move in
device memory, behind the client's back, to defragment it. That part keeps
state, has invariants and can go wrong, and the model is built around it.
Paths below are relative to the repository; `auto.rs` is `src/auto.rs`.

## The system

| component | state | operations | interacts with |
| --- | --- | --- | --- |
| Managed allocator (`auto.rs`) | `AllocatorSingleThread`: the list `managed_allocations`, one command buffer, one fence, the VMA allocator. `ManagedAllocation`: Resource (object, VMA pointer, owned create info, tracked layout), `mem_offset`, `freed` | `allocate_buffer`, `allocate_image`, `free`, `map`, `set_layout`, `defrag`; `Clone` and `Drop` of both kinds of handle | shared state behind `Rc<RefCell<..>>`; calls VMA and Vulkan; `map` calls the client back |
| Defragmentation wrapper (`defragmentation.rs`) | `DefragmentationContext`: allocator reference and raw context | `begin_defragmentation`, `begin_pass` (calls the mover back), `end`, `Drop` | VMA; `defrag` is its one user in the crate |
| `Allocator`, `Allocation` (`lib.rs`) | a raw VmaAllocator; `Allocation` is a copyable pointer | create, into/from raw, free, map, unmap, flush, invalidate, copy, bind, destroy, user data, statistics, `Drop` | VMA; lent by reference or shared by `Arc`, across threads |
| Pools and `trait Alloc` (`pool.rs`) | allocator (by `Arc` or reference) and raw pool | create, default pool, into/from raw parts, the allocation functions, `Drop` in two steps (the pool, then the `Arc`) | VMA, `Allocator`, other threads |
| Virtual blocks (`virtual_block.rs`) | raw block | allocate, free, clear, into/from raw, `Drop` | VMA |
| Definitions (`definitions.rs`) | none | conversions between the crate's structures and VMA's | |
| FFI (`ffi.rs`), shader tables (`shaders.rs`), build scripts, test harness, example | none of interest | | generated code, input and output |
| VMA (C++, a submodule that is not in the repository) | allocations, mappings, moves of a pass | `vma...` functions | external |
| Vulkan device | objects, bindings, image layouts, command buffer, fence | `vk...` functions, execution of command buffers | external, runs concurrently |

Everything in `auto.rs` runs on one thread: `Rc` makes it neither `Send` nor
`Sync`. `Allocator` and `AllocatorPool` are `Send` and `Sync`, so their values
may be used and dropped by several threads; a `VirtualBlock` and a
`DefragmentationContext` stay in theirs. What interleaves within `auto.rs` all
the same:

- the client code in the closure of `map`, which may use every other handle;
- the GPU, which executes a submitted command buffer in its own order;
- `Drop` glue, which frees resources and, at the end, the allocator itself;
- panics. The crate unwraps almost every result; a panic that the client
  catches leaves an operation half done.

What has to be right, per component:

- *Managed allocator*: a resource lives while it has a handle and is not freed,
  and no longer; live resources own distinct memory and objects; content
  survives every defrag; what the allocator tracks (object, allocation, layout,
  place) is true between operations; a mapped pointer stays good for as long as
  the closure runs; nothing leaks; no object is destroyed while the GPU uses it;
  `defrag` returns.
- *Defragmentation wrapper*: each pass is ended exactly once and only after its
  mover, the context exactly once.
- *Allocator, pools, virtual blocks*: a thing is destroyed once, after
  everything made from it, also when it travels through raw handles.
- *Definitions*: a create info survives its conversion.

The file PROJECT.json lists the hazards, each at the line where it bites, with
the properties that would catch it.

## The modules

| module | models | kind |
| --- | --- | --- |
| `Vma` | VMA as the crate uses it: allocations in slots of device memory, mapping counts, the moves of a pass | external |
| `VulkanDevice` | objects, bindings, layouts, the command buffer, the fence and the GPU | external; extends `Vma` |
| `ManagedAllocator` | `auto.rs` with `begin_pass`, `end` and `Drop` of `defragmentation.rs` | extends `VulkanDevice` |
| `ResourceStore` | what the managed allocator promises its client | abstract specification |
| `MCManagedAllocator` | the symmetry used by the runs | model checking |
| `ManagedAllocatorProofs` | theorems and proofs: types, memory safety | extends `ManagedAllocator`, `TLAPS` |
| `ManagedAllocatorHandleProofs` | theorems and proofs: handles, `map` | extends the one before |
| `ManagedAllocatorPassProofs` | theorems and proofs: passes, the GPU, leaks | extends the one before |
| `ManagedAllocatorContentProofs` | theorems and proofs: layouts, copies, the refinement of `ResourceStore` | extends the one before |
| `HostAccess` | one resource seen by the host and by the device: `aci`'s memory types, the host's cache, `map` with its `flush`, device work and moves; for a client's own allocation pools, mapping, flush, invalidate and copies of `lib.rs` and `pool.rs` | on its own |
| `MCHostAccess` | a device's memory types for the runs | model checking |
| `HostAccessProofs` | theorems and proofs | extends `HostAccess`, `TLAPS` |
| `VmaOwnership` | `Allocator`, `AllocatorPool`, `DefragmentationContext` and their allocations as values that own or borrow what VMA made | on its own |
| `VmaOwnershipProofs` | theorems and proofs | extends `VmaOwnership`, `TLAPS` |
| `VirtualBlock` | `virtual_block.rs` | on its own |
| `VirtualBlockProofs` | theorems and proofs | extends `VirtualBlock`, `TLAPS` |
| `VmaWrapper` | the whole of the wrapper | composes `VmaOwnership` and `VirtualBlock` |
| `VmaWrapperProofs` | theorems and proofs | extends `VmaWrapper` and the proofs of its parts |

### State

| model | code |
| --- | --- |
| `ma[m]` | the `ManagedAllocation` behind one `Rc` (`NoMa` for an identity not used yet; a dead identity is used again) |
| `managed_allocations` | the `Vec` of `AllocatorSingleThread`, as a set: its order only decides which of several equal pointers is found first, and `SourceHasOneEntry` says there are none |
| `handles[m]`, `allocator_handles` | how many `ManagedAllocationHandle`s and bare `AllocatorHandle`s the client holds; `StrongCount` is what `Rc::strong_count` returns |
| `frames` | the `map` calls on the stack. Each is a shared borrow of the allocator's `RefCell`, so `borrow_mut` succeeds only when there is none |
| `pc`, `todo`, `old` | where a running `defrag` is, the moves it has not reached, `destroy_buffers` and `destroy_images` |
| `loc`, `mapCount`, `mem`, `moves`, `vma` | VMA: the slot and the mapping count of each allocation, the content of each slot, the pass |
| `objects`, `bound`, `imageLayout`, `cmds`, `commandBuffer`, `fence` | the device |

Memory is a row of equal slots, an allocation one slot, content one value per
slot. Freed VMA pointers and Vulkan handles are handed out again at once, as a
heap does, so stale ones collide with live ones. Buffers and images share their
actions; they differ in the layout (`"NONE"` for a buffer) and in what a move
records (an image in UNDEFINED is not copied; barriers expect and restore a
layout).

### Actions

`Allocate`, `CloneHandle`, `CloneAllocatorHandle`, `DropHandle`,
`DropAllocatorHandle`, `Free`, `MapBegin`, `MapWrite`, `MapEnd`,
`transition_image` and `DefragBegin` are the client's. A `defrag` is then one
step per point at which something else can happen or fail: `BeginPass` (or
`NoMoreMoves`), one `RecordMove` per move, `Submit`, `WaitThenDestroyOld`,
`EndPass`, `DefragEnd`. `Gpu` executes one recorded copy, `GpuDone` ends the
submission and signals its fence. The panics have actions of their own, named
for the call that fails; `Unwind` is the part the panics of `defrag` share: the
context's `Drop`, which ends the defragmentation but not the pass.
`Panics` names the panics an instance allows. With `Panics = {}` the program
never sees a failing Vulkan call and its client keeps to the rules.

`map` is split because its closure is client code. Inside a closure the client
may clone and drop handles, map, write and change layouts of other resources;
what needs `borrow_mut` panics there. Those panics change nothing and are left
out, except the one in `Drop` (`DropHandlePanics`), after which the handle is
gone all the same.

### `HostAccess`

`ManagedAllocator` lets every write reach memory at once. What that takes is a
question of its own, with one resource and no interleaving of operations but
with a cache that fetches and evicts lines whenever it likes, so it has a module
of its own. `usage`, `type` and `place` are the resource's `AllocationUsage`,
memory type and slot; `mem` is what the device finds, `cache` and `dirty` the
host's lines in front of it, `content` the last thing stored. `Allocate` picks a
type the way `vmaFindMemoryTypeIndex` does from the flags `aci` requires and
prefers. `MapBegin`, `Write`, `Flush` and `MapEnd` are `map` with a closure;
closures keep to the contract the test suite's `fill` shows: what they wrote
they flush, unless the usage is `Cpu`. `DeviceWrite` is work of the client's own
that it waits for, `Move` a whole defrag (its steps are `ManagedAllocator`'s).
Device-side visibility, that is the access masks of barriers, is not modelled.

The usage `"Raw"` stands for an allocation that is not a managed one. The client
makes it with `trait Alloc` on an `Allocator` or on a pool whose memory type
`find_memory_type_index...` chose (`CreatePool`, `AllocateFromPool`), keeps it
mapped as long as it likes (`MapMemory`, `UnmapMemory`), and is told what Vulkan
tells it: flush what you wrote before the device uses the memory, before you
invalidate and before you unmap. `FlushAllocation`, `InvalidateAllocation`,
`CopyAllocationToMemory` and `CopyMemoryToAllocation` are the functions of
`lib.rs`. What they promise is `InvalidatedSees`: from an invalidation, or a copy
to host memory, until the device stores or the resource moves, the host reads
what was stored last.

### `VmaOwnership`

What the wrapper adds to VMA is ownership: who destroys what, once, and in which
order. `holder` is how the one `Allocator` is held: as a value, as a raw handle
after `into_raw`, inside an `Arc`, or not at all. `arcs` is the `Arc`'s strong
count and `clientArcs` the client's part of it; the other part belongs to pools.
`value[v]` is an `AllocatorPool`, by `Arc` or by reference, of a pool of its own
or of VMA's default ones (`Null`), whole, taken apart (`"raw"`) or half dropped.
`ctx[c]` is a `DefragmentationContext`. On VMA's side there are `allocatorLive`,
`pools`, `contexts`, `open` (passes), `allocs` and `objects`; `made` is what the
client knows of its allocations.

| actions | code |
| --- | --- |
| `NewAllocator`, `AllocatorIntoRaw`, `AllocatorFromRaw`, `DropAllocator`, `NewArc`, `CloneArc`, `DropArc` | `lib.rs`, and the client's own `Arc::new` |
| `CreatePool`, `CreatePoolWithRef`, `DefaultPool`, `DefaultPoolWithRef`, `PoolIntoRawParts`, `PoolFromRawParts` | `pool.rs` |
| `DropPool`, `DropPoolFields` | `Drop for AllocatorPool`, then drop glue: other threads run between the two |
| `AllocateMemory`, `CreateObject` on an allocator or a pool, `BindMemory`, `SetAllocationUserData`, `FreeMemory`, `DestroyObject` | `trait Alloc`, `lib.rs`; the several allocation functions differ in how many they make and in what they bind |
| `BeginDefragmentation`, `CallMover`, `MoverReturns`, `MoverPanics`, `EndDefragmentation` (`end`, which forgets the context), `DropContext` | `defragmentation.rs` with any mover, which may return, panic, or run any other step |

The borrow checker is part of the model, as it is what makes much of this right.
`Borrowed` says that a reference to the `Allocator` is alive, in a pool by
reference or in a context; `LenderCount` counts who can lend one (the value, the
client's `Arc`s, whole pools by `Arc`). Who lends is not moved or dropped while
it is the only one left. The real borrow checker ties each reference to one
lender and so allows less: what holds here for every choice of lender holds for
the one a program made.

The client keeps the contracts of the `unsafe` functions, and no more: it frees
or destroys what it allocated, once, before it drops the pool it is in and
before it lets go of the last lender; it destroys an object before or with its
memory; it keeps the two raw parts of a pool together. Results other than
success return early and change nothing, so they are stutters.

### `VirtualBlock`

`block` and `blockLive` are the value and VMA's block; `spaces[h]` is VMA's
record of a virtual allocation and `known[h]` the client's. `AllocateVirtual`
sends a request through the crate's conversion and VMA answers with any place
that is free, inside and aligned (`Placements`), whichever algorithm was asked
for; with no such place the error changes nothing. The client forgets every
handle on `clear`, and frees or clears before it drops the block; VMA hands
handles out again.

### `VmaWrapper`

`VmaOwnership` and `VirtualBlock` share no variable and no resource: `VirtualBlock::new`
takes no `Allocator`. The composition therefore runs one part while the other is
in its initial condition. Nothing is lost: projected on one part, an
interleaving of the two is a behaviour of that part alone, every such behaviour
is still there, and every property is about one part.

## The runs

| run | instance | question |
| --- | --- | --- |
| `core` | 2 identities, 3 pointers, 3 slots, 3 objects, buffers and images, 2 handles each, 2 allocator handles, 2 map calls, no panic | do handles, freeing, mapping, passes and the GPU keep out of each other's way? |
| `content` | 2 identities, 4 pointers, slots and objects, images, 2 contents, 1 map call, no panic | does content survive, and is nothing left over? (`ImplementsStore`, refinement of `ResourceStore`) |
| `robust` | 2 identities, 3 pointers, 2 slots, 3 objects, buffers, every panic | do live resources own distinct memory and objects whatever panicked? |
| `terminates` | 2 identities, 3 pointers, slots and objects, `FairSpec` | does a defrag return? |
| `host_access` | 1 resource of any usage, managed, or the client's own with or without a pool, 5 memory types, 3 slots, 2 contents | does the device find what was stored last, and the host in `Cpu` memory and after an invalidation? can documented usages be mapped, and allocations of a pool made for mapping? |
| `wrapper` | 2 pools, 2 pool values, 2 allocations, 1 context, 2 client `Arc`s; a virtual block of 4 with 3 handles | is everything VMA made owned once, alive as long as something needs it and no longer, and destroyed empty? |
| `copy_size` (violation) | 1 buffer, allocation sizes rounded up to 2 | is the copy of a move within the buffer? |
| `preinitialized` (violation) | 1 image created PREINITIALIZED | does its content survive a defrag? |
| `late_fence` (violation) | panic in `wait_for_fences` only | is an object ever destroyed in flight? |
| `drop_in_map` (violation) | last handle dropped inside a closure | does the last handle free? |
| `orphan` (violation) | panic in a bind only | does defrag find an entry for every move? |
| `readback` (violation) | `host_access` with usage `Readback` only | does a read inside `map` return what the device wrote? |

The six violation runs are disagreements between the code and what its own
documentation, comments or assertions say; PROJECT.json quotes both sides.

### Bounds, and why they are enough

- Two identities: no operation looks at more than two allocations at a time
  (two entries with one pointer, two moves in one pass, two nested maps), and
  every invariant speaks of pairs.
- One pointer, slot and object more than identities (twice as many in
  `content`): a pass that moves everything at once needs a target for each, and
  with one spare a stale value and a live one can meet. VMA moves toward lower
  slots only, so three slots already give defrags of several passes.
- `MaxHandles`, `MaxAllocatorHandles`: the code compares the strong count with
  2 and nothing else; two handles reach both sides of that.
- `MaxMaps` bounds nested map calls and, with panicking closures, the mappings
  they leave: two calls nest on one allocation and on two.
- One or two contents: `ResourceStore` compares contents for equality only.
- `HostAccess`: three slots, so that a place has one before and one behind it
  and a flush of the wrong range misses it; memory types of every combination of
  visible, coherent and cached that the usages tell apart.
- `VmaWrapper`: two pools, so that an allocation can be in the wrong one and
  `free_memory_pages` can mix them; two pool values, so that two threads can be
  between the steps of a drop at once and either finish last; two client `Arc`s
  and two allocations, which is where "one" and "the last one" come apart, and
  which `free_memory_pages` needs to free one too few; two values of user data.
  One defragmentation: contexts meet only through what they borrow, and one
  beside two pool values covers that. A virtual block of 4 with three handles
  fills up and falls into pieces; sizes 1, 2 and 5 fit beside each other, fill
  half and fit nowhere, alignments 0 and 2 are "any" and one that matters. The
  theorems need none of these bounds.

The symmetry (permutations of identities, pointers, objects and contents) is
used by the safety runs. `terminates` has none. `content` checks a refinement
that is a safety property: `ResourceStore` has no fairness.

### Deadlock

Deadlock is checked in every run. A client may stop at any time, and when every
handle is gone the managed allocator is `Terminated`, an explicit stutter. A
wrapper whose client holds nothing may be created anew.

### Fairness

`FairSpec` is weakly fair to `Defrag` (one thread runs `defrag` to its end and
waits for nothing but the fence), to `Gpu` and to `GpuDone` (a device finishes
what was submitted to it; that it may take longer than the 60 seconds of
`auto.rs:709` is the panic `"wait"`, excluded from that run). Nothing is assumed
of the client. That VMA runs out of moves is a fact about VMA that no code here
shows: the model has it because moves go toward lower slots, as VMA's do.

`VmaOwnership` is weakly fair to `DropPoolFields` of each value: a thread that
has begun to drop a pool does not stop between the two steps. `AllocatorReclaimed`
rests on it: once the client has let go of its `Arc`s and its pools, the
VmaAllocator is destroyed, whichever thread comes last. Nothing obliges a client to let
go, which is why the property begins there.

## What is proved

`ManagedAllocatorProofs` proves, for every instance (any sets of identities,
pointers, objects and contents, any bounds) and **every** set of panics:

- `TypeCorrect`: `Spec => []TypeOK`
- `MemorySafety`: `Spec => []MemoryNeverShared`: two live resources never share an
  allocation, an object or memory, and each owns an allocation VMA knows and an
  object the device knows.

`MemoryNeverShared` is not inductive. The invariant is
`Inv == TypeOK /\ OwnershipInvariant`, and `OwnershipInvariant` adds:

- `AllocationsDisjoint`: allocations, temporary ones included, have different
  slots; otherwise committing a pass could put a resource on another;
- `LiveResourcesBound`: what a move copies from is bound;
- `PassWellFormed`: a pass moves distinct allocations into distinct temporary
  ones that belong to no resource; so that the swap at the end of a pass keeps
  allocations disjoint, and freeing the temporary ones frees nobody's;
- `OldIsOld`: what a pass will destroy belongs to no live resource;
- `ListLiveInDefrag`: a running defrag sees live entries only. Without it a
  move would put a new object in a freed entry whose pointer was handed out
  again.

The run `robust` checks the same formulas on a small instance. The proof goes
action by action, and under each action conjunct by conjunct; the actions that
leave the relevant variables alone share one lemma. The assumptions are the two
named ones on the constants, `VmaAssumption` and `ManagedAssumption`, which TLC
evaluates in every run.

Three modules build on `Inv` and state, between them, every other safety property
of `ManagedAllocator`. A theorem excludes the panics that really break its
property, and no others: `Panics` is a constant, so `"wait" \notin Panics` says
that this instance's client never sees that panic. `NoPassPanics` stands for
no `"bind"`, `"create"`, `"submit"` and `"wait"`: no pass is cut short.

| theorem | property | panics excluded |
| --- | --- | --- |
| `OwnershipHolds` | `OwnershipInvariant` | none |
| `PointersStayValid` | `MappedPointerValid` | none |
| `LastHandleAlwaysFrees` | `LastHandleFrees` | `"drop_in_map"` |
| `MapsAlwaysBalance` | `MapsBalanced` | `"closure"`, `"drop_in_map"` |
| `NeverFreedWhileMapped` | `FreedOnlyUnmapped` | `"closure"`, `"drop_in_map"` |
| `NothingDestroyedInFlight` | `NoDestroyInFlight` | `"wait"` |
| `LookupsSucceed` | `SourceHasOneEntry` | `NoPassPanics` |
| `GpuDoneOutsidePass` | `GpuQuietOutsidePass` | `NoPassPanics` |
| `ObjectsWhereVmaSays` | `BoundWhereVmaSays` | `NoPassPanics` |
| `NothingIsLeaked` | `NothingLeaks` | `NoPassPanics`, `"allocate_memory"` |
| `LayoutsStayTracked` | `LayoutTracked` | `NoPassPanics` |
| `CopiesStayWithin` | `CopyWithinResource` | `NoPassPanics`, and VMA rounds no requested size up |
| `AllocatorImplementsStore` | `ImplementsStore` | `NoPassPanics`, `"drop_in_map"`, and no image is created PREINITIALIZED |

TLC confirms that the hypotheses are needed. With one excluded panic allowed and
no other, it finds each property of the table violated, on buffers and images, two
identities and three to six slots. The one pair left open is `ImplementsStore`
with `"bind"` alone, where the search did not finish; a bind that fails in a pass
cuts it short at the same place as `"create"`, which does break it. The violation runs
`late_fence`, `drop_in_map`, `orphan`, `preinitialized` and `copy_size` each tell
one such story. The theorems complete them: beside the panics, layouts and sizes
of the table, nothing in this code breaks these properties.

None of these properties is inductive. What each one needed beside `Inv`, checked
by TLC on the instances of `core`, `content` and, where no panic is excluded,
`robust`:

- `BorrowInv`: no closure runs during a defrag, whose `borrow_mut` would fail.
  It is why no pass moves what a closure points to.
- `ListInv`: a defrag is running exactly when VMA is defragmenting, and the
  allocator's list holds every live resource. `Drop`'s test
  `strong_count == 2` counts that list, so this is what makes "last handle" and
  "count is 2" the same for a live resource.
- `MapsInv`: mapping counts balance, and temporary allocations of a pass are
  never mapped. The swap at the end of a pass moves counts along; the
  temporary allocation that is freed afterwards must have none. The lemmas on
  `FramesOf` say how the number of frames of one resource changes at either end of
  the stack.
- `GpuInv`: the GPU has work only while the mover waits for it; a signaled fence
  means that all of it has run; recorded copies name existing objects. This is
  where a timeout of the wait does its damage, and the only place.
- `AllocationsAccounted`, `QuietInv`, together with the above `PassBase`: VMA
  knows the allocations of live resources and the temporary ones of the pass and
  no other, so a move VMA asks for has an entry; a pass begins and ends with
  nothing recorded.
- `Placed`: a resource whose move is recorded is where its temporary allocation
  is, any other where its own allocation is. It says what is true in the middle
  of a pass, where `BoundWhereVmaSays` is silent.
- `ObjectsAccounted`: an object is a live resource's or waits to be destroyed.
- `CopiesInv`: an outstanding copy belongs to one recorded move and reads the
  object and memory that move leaves behind, in the layout that object is in; a
  resource no copy is still to be made to is in the layout tracked.
- `ContentInv`: free memory holds nothing, and the content of a recorded move has
  arrived unless its copy is outstanding. The GPU executes the copies of a pass
  in any order, and here is why it may: they read and write different slots.

`AllocatorImplementsStore` is the refinement. The mapping takes a resource's
content to be what is in the memory VMA says its allocation has. Each client
action is shown to be the store's operation of the same kind (`CreateStep`,
`DropStep`, `FreeStep`, `WriteStep`) or a stutter, and each step of a defrag and of the GPU
to be a stutter: recording touches objects the client does not see, a copy writes
memory that belongs to nobody yet, and the end of the pass swaps two allocations
whose slots by then hold the same (`EndPassStutters`). Dropping a
handle frees because of `LastHandleFrees`; a write in a closure reaches the right
slot because of `MappedPointerValid`.

`HostAccessProofs` proves all five properties of the run `host_access` for any
device that has the memory types Vulkan guarantees (`HostAssumption`), any
number of slots and any contents: `TypeCorrect`, `DeviceSees`, `CpuSees`,
`Mappable` and `Invalidated`. The invariant: only visible memory that is not coherent is ever
cached (`OnlyIncoherentCached`); only the line of the resource's own place can
be dirty, and only inside `map` (`OnlyPlaceDirty`); and what was stored last is
in memory or in that dirty line (`ContentSomewhere`). `TypeServesUsage` ties the
chosen type to `aci`'s flags and is what makes a `Cpu` closure without a flush
harmless: its memory is coherent, so nothing is ever dirty.

`VmaOwnershipProofs` proves every safety property of `VmaOwnership`, for any
number of pools, pool values, defragmentations and allocations, and any bound on
the client's `Arc`s: `OwnershipTypeCorrect`, `PoolsOwned`, `LiveWhileOwned`,
`NothingOutlives`, `Bracketed`, `AsAsked` and, of steps, `DieEmpty`. Assumed is
that there are finitely many values (`OwnershipAssumption`; the strong count is
a number) and that "no value" is none of the records (`NoneAssumption`). The
invariant `OwnershipInv` adds to the types, `PoolsOwnedOnce` and
`DefragmentationBracketed`:

- `Counted`: the strong count is the client's `Arc`s plus one for each pool by
  `Arc`, half dropped ones included. This is the heart of it: the code
  destroys the VmaAllocator when the count reaches zero, the properties speak
  of who is left, and only cardinalities tie the two. The lemmas about
  adding, removing and keeping one value are what each pool action cites.
- `HolderArc`, `LiveHeld`: how the count, the holder and the VmaAllocator's
  existence go together.
- `SomeoneLends`: whoever borrows, or has something left to free, finds a
  lender. Without it a last `Arc` could go under a running defragmentation.
- `AllocationsInv`: VMA and the client agree on every allocation, and objects
  have memory. With `SomeoneLends` it gives `NothingOutlives`.

`VirtualBlockProofs` proves all four properties of `VirtualBlock` for any block
size, requests and handles (`VirtualAssumption`): `VirtualTypeCorrect`,
`BlockIsOwned`, `SpacesSound`, `DiesEmpty`. The invariant adds that VMA's records
and the client's are the same (`SameRecords`) and that places are inside, aligned
and disjoint (`PlacesSound`).

`VmaWrapperProofs` carries these over to the composition that the run `wrapper`
checks: `WrapperImplementsParts` says that each part of the wrapper, fairness
included, behaves as its own module says, and `WrapperSafe` and `WrapperDiesEmpty`
that all their safety properties hold together.

Only model-checked: the liveness properties `DefragTerminates` and
`AllocatorReclaimed`, which are out of the prover's reach, as is everything that
needs ENABLED; and the violation runs, each a single behaviour that TLC finds.
Every other property of the passing runs is stated by a theorem.

## Not modelled, and why

- Access masks of the barriers `defrag` records (device-side visibility), for
  instance that no barrier makes a buffer copy visible to reads of the host.
- `set_layout` with layouts other than GENERAL: the one client in the repository,
  the test suite's `transition_image`, asks for no other.
- Mip levels, array layers and aspects: an image has one content. The
  repository knows that its copies are incomplete (`TODO.md`).
- The fields of create infos: two runs tell sizes and initial layouts apart,
  the rest is copied field by field. Of the conversions in `definitions.rs`
  those are modelled whose fields come back to the client or decide where an
  allocation lies (allocation and virtual allocation infos); the flag sets are
  constants, and `PoolCreateInfo` is handed on.
- `get_hints` reads driver limits and changes nothing. Statistics, budgets, JSON
  strings, names of pools and allocations, the frame index, memory properties
  and corruption checks ask VMA or label things; no property depends on them.
  One of them deserves a look all the same: `get_physical_device_properties`
  (`lib.rs:233`) passes the address of a structure where VMA wants that of a
  pointer; it is listed as a hazard.
- Flags of `aci` other than memory properties (`HOST_ACCESS_...`), which steer
  VMA's choice among types only when the usage is one of VMA's AUTO values.
- A second panic while one unwinds, which aborts the process: no state is left
  to speak of. `AllocationUsage::Custom` is a `todo!()`.
- Clients that reach into the public `RefCell` through `Deref`.
- Contracts of `unsafe` functions that a client breaks: use after free, a second
  pass on a context whose pass is open, a defragmentation of a pool that is
  dropped meanwhile, a `push_next` chain that dies before its pool. They are in
  the list of hazards, without a property, because neither code nor
  documentation says what should happen.
- VMA's internal locks: VMA synchronises its calls itself (`lib.rs:36`), so a
  call is one step; `EXTERNALLY_SYNCHRONIZED` passes that duty to the client.
- `ffi.rs`, `shaders.rs`, build scripts, examples: generated code, or input and
  output without state.

## Plan

Done: `Vma`, `VulkanDevice`, `ManagedAllocator`, `ResourceStore`, `HostAccess`,
`VmaOwnership`, `VirtualBlock`, `VmaWrapper`, and theorems about every safety
property the passing runs check, the refinement included. Left:

1. The safety half of `DefragTerminates`, as a property of steps: no pass puts an
   allocation at a higher slot and every pass puts one at a lower slot, so no
   placement comes back within a defrag.
2. Which conclusions of the table survive a pass that was cut short, once the
   client has dropped every handle.
