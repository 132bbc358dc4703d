---------------------------- MODULE VulkanDevice ----------------------------
(***************************************************************************)
(* The Vulkan device, queue, command buffer and fence as AllocatorSingle-  *)
(* Thread (src/auto.rs) drives them through ash.  The driver and the GPU   *)
(* are outside the repository: the definitions are external.               *)
(*                                                                         *)
(* Host calls are the operators a host action conjoins; the GPU runs on    *)
(* its own, one copy command at a time and in any order, because the       *)
(* command buffer puts no barrier between the copies of two moves.         *)
(***************************************************************************)
EXTENDS Vma

CONSTANT Res   \* the VkBuffer / VkImage handles the driver can hand out

VARIABLES
  objects,       \* the buffers and images that exist
  bound,         \* bound[r]: the slot r is bound to, NoSlot before binding
  imageLayout,   \* imageLayout[r]: the layout image r really is in
  cmds,          \* copy commands recorded and not yet executed
  commandBuffer, \* state of the one command buffer
  fence          \* state of the one fence

(* A buffer has no layout; TRANSFER_SRC is where a copied image is left.   *)
Layouts == {"NONE", "UNDEFINED", "PREINITIALIZED", "GENERAL", "TRANSFER_SRC"}

(* A recorded copy of one move: the two resources, the memory they were    *)
(* bound to when it was recorded, how much it copies, and the layout the   *)
(* barriers around it expect and restore ("NONE" for a buffer).            *)
Copies == [from : Res, to : Res, src : Slots, dst : Slots,
           size : Nat, layout : Layouts]

DeviceTypeOK ==
  /\ objects \subseteq Res
  /\ bound \in [Res -> Slots \cup {NoSlot}]
  /\ imageLayout \in [Res -> Layouts]
  /\ cmds \subseteq Copies
  /\ commandBuffer \in {"ready", "recording", "pending"}
  /\ fence \in {"unsignaled", "signaled", "destroyed"}

DeviceInit ==
  /\ objects = {}
  /\ bound = [r \in Res |-> NoSlot]
  /\ imageLayout = [r \in Res |-> "NONE"]
  /\ cmds = {}
  /\ commandBuffer = "ready"
  /\ fence = "unsignaled"
-----------------------------------------------------------------------------
(* vkCreateBuffer / vkCreateImage followed by the bind to slot s           *)
(* (s = NoSlot: the object exists but no memory was bound to it).          *)
CreateBound(r, s, layout) ==
  /\ r \notin objects
  /\ objects' = objects \cup {r}
  /\ bound' = [bound EXCEPT ![r] = s]
  /\ imageLayout' = [imageLayout EXCEPT ![r] = layout]

(* vkDestroyBuffer / vkDestroyImage of every member of R.                  *)
Destroy(R) ==
  /\ objects' = objects \ R
  /\ bound' = [r \in Res |-> IF r \in R THEN NoSlot ELSE bound[r]]
  /\ imageLayout' = [r \in Res |-> IF r \in R THEN "NONE" ELSE imageLayout[r]]

(* vkBeginCommandBuffer discards what was recorded.  Beginning a command   *)
(* buffer the GPU still executes is an error the driver need not report:   *)
(* any of the copies in flight may be lost or run with the next submission.*)
BeginCommandBuffer ==
  /\ commandBuffer' = "recording"
  /\ IF commandBuffer = "pending" THEN cmds' \in SUBSET cmds ELSE cmds' = {}

(* vkQueueSubmit hands the recorded copies to the GPU.                     *)
QueueSubmit == commandBuffer' = "pending"
-----------------------------------------------------------------------------
(* The layout a barrier may leave an image in: Vulkan forbids a transition *)
(* to UNDEFINED or PREINITIALIZED, and defines no content after one.       *)
RestorableLayout(l) == l \notin {"UNDEFINED", "PREINITIALIZED"}

(* What a copy delivers: the source's content, unless the barriers named a *)
(* layout the source image is not in or cannot be restored to.             *)
Delivered(c) ==
  IF c.layout = "NONE" \/ (imageLayout[c.from] = c.layout /\ RestorableLayout(c.layout))
  THEN mem[c.src] ELSE Undefined

(* The GPU executes one copy of the submitted command buffer.              *)
GpuExecute(c) ==
  /\ commandBuffer = "pending"
  /\ c \in cmds
  /\ cmds' = cmds \ {c}
  /\ mem' = [mem EXCEPT ![c.dst] = Delivered(c)]
  /\ imageLayout' = IF c.layout = "NONE" THEN imageLayout
                    ELSE [imageLayout EXCEPT ![c.from] = "TRANSFER_SRC",
                                             ![c.to] = c.layout]
  /\ UNCHANGED <<loc, mapCount, moves, vma, objects, bound, commandBuffer, fence>>

(* Everything submitted has executed: the fence of the submission signals. *)
GpuSignal ==
  /\ commandBuffer = "pending"
  /\ cmds = {}
  /\ commandBuffer' = "ready"
  /\ fence' = IF fence = "destroyed" THEN "destroyed" ELSE "signaled"
  /\ UNCHANGED <<loc, mapCount, mem, moves, vma, objects, bound, imageLayout, cmds>>
=============================================================================
