----------------------------- MODULE VmaWrapper -----------------------------
(***************************************************************************)
(* Both parts of the wrapper around VMA: VmaOwnership and VirtualBlock.    *)
(* They share nothing: a virtual block needs no Allocator.                 *)
(***************************************************************************)
EXTENDS VmaOwnership, VirtualBlock

wrapperVars == <<ownershipVars, virtualVars>>

WrapperInit == OwnershipInit /\ VirtualInit

(* The client holds nothing of an Allocator.                               *)
OwnershipIdle == ~Reachable /\ holder # "raw" /\ \A v \in Values : value[v] = None

(* As no step of one part reads or writes the other, every order of their  *)
(* steps shows each part what it sees when one begins after the other is   *)
(* over, which is far fewer states.                                        *)
WrapperNext ==
  \/ OwnershipNext /\ block = "none" /\ UNCHANGED virtualVars
  \/ VirtualNext /\ OwnershipIdle /\ UNCHANGED ownershipVars

WrapperSpec ==
  WrapperInit /\ [][WrapperNext]_wrapperVars /\ OwnershipFairness
=============================================================================
