------------------------- MODULE MCManagedAllocator -------------------------
(***************************************************************************)
(* Small instances of ManagedAllocator for TLC.  Identities, pointers,     *)
(* objects and data are interchangeable: their permutations are a sound    *)
(* symmetry for the safety runs.                                           *)
(***************************************************************************)
EXTENDS ManagedAllocator, TLC

Interchangeable ==
  Permutations(Mas) \cup Permutations(Ptrs) \cup Permutations(Res) \cup Permutations(Data)
=============================================================================
