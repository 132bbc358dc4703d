---------------------------- MODULE MCHostAccess ----------------------------
(***************************************************************************)
(* A device for HostAccess: the memory types of a discrete GPU together    *)
(* with the cached but not coherent ones of mobile devices.                *)
(***************************************************************************)
EXTENDS HostAccess, TLC

AllMemoryTypes ==
  {{"DEVICE_LOCAL"},
   {"HOST_VISIBLE", "HOST_COHERENT"},
   {"HOST_VISIBLE", "HOST_CACHED"},
   {"DEVICE_LOCAL", "HOST_VISIBLE", "HOST_CACHED"},
   {"HOST_VISIBLE", "HOST_COHERENT", "HOST_CACHED"}}

Interchangeable == Permutations(Data)
=============================================================================
