-------------------------- MODULE VirtualBlockProofs --------------------------
(***************************************************************************)
(* VirtualBlock keeps its block and its places sound, for blocks of every  *)
(* size and for any handles, sizes, alignments and user data.              *)
(*                                                                         *)
(* The client knows exactly what VMA does (SameRecords), and what VMA      *)
(* does is sound (PlacesSound).                                            *)
(***************************************************************************)
EXTENDS VirtualBlock, TLAPS

SameRecords == spaces = known

PlacesSound ==
  \A h \in VirtualHandles :
    known[h] # NoSpace =>
      /\ Inside(known[h]) /\ Aligned(known[h])
      /\ \A g \in VirtualHandles \ {h} : known[g] # NoSpace => Disjoint(known[h], known[g])

VirtualInv == VirtualTypeOK /\ BlockOwned /\ SameRecords /\ PlacesSound
-----------------------------------------------------------------------------
(* Where an allocation may lie does not depend on its user data.           *)
LEMMA UserDataIrrelevant ==
  ASSUME NEW a \in VirtualAllocationInfos, NEW d \in VirtualData
  PROVE  LET b == [a EXCEPT !.userData = d] IN
         /\ b \in VirtualAllocationInfos
         /\ b.offset = a.offset /\ b.size = a.size /\ b.alignment = a.alignment
BY DEF VirtualAllocationInfos

(* What VMA answers to a request is what was asked for, soundly placed.    *)
LEMMA PlacementIsSound ==
  ASSUME VirtualTypeOK,
         NEW s \in VirtualSizes, NEW al \in VirtualAlignments, NEW d \in VirtualData,
         NEW a \in Placements(ToVmaVirtual([size |-> s, alignment |-> al, userData |-> d]))
  PROVE  /\ a \in VirtualAllocationInfos
         /\ a = [offset |-> a.offset, size |-> s, alignment |-> al, userData |-> d]
         /\ Inside(a) /\ Aligned(a)
         /\ \A h \in VirtualHandles : spaces[h] # NoSpace => Disjoint(a, spaces[h])
<1> DEFINE At(o) == [offset |-> o, size |-> s, alignment |-> al, userData |-> d]
<1>1. PICK o \in 0 .. BlockSize : a = At(o)
  BY DEF Placements, ToVmaVirtual
<1>2. o \in Nat /\ s \in Nat \ {0} /\ al \in Nat
  BY VirtualAssumption
<1>3. a \in VirtualAllocationInfos
  BY <1>1, <1>2 DEF VirtualAllocationInfos
<1>4. a = [offset |-> a.offset, size |-> s, alignment |-> al, userData |-> d]
  BY <1>1
<1>5. /\ Inside(a) /\ Aligned(a)
      /\ \A h \in VirtualHandles : spaces[h] # NoSpace => Disjoint(a, spaces[h])
  BY DEF Placements
<1> QED BY <1>3, <1>4, <1>5
-----------------------------------------------------------------------------
(* The invariant holds initially ...                                       *)
LEMMA VirtualInitInv == VirtualInit => VirtualInv
BY DEF VirtualInit, VirtualInv, VirtualTypeOK, BlockOwned, SameRecords, PlacesSound

(* ... an allocation keeps it ...                                          *)
LEMMA AllocateVirtualInv ==
  ASSUME VirtualInv, NEW h \in VirtualHandles,
         NEW s \in VirtualSizes, NEW al \in VirtualAlignments, NEW d \in VirtualData,
         AllocateVirtual(h, [size |-> s, alignment |-> al, userData |-> d])
  PROVE  VirtualInv'
<1> DEFINE info == [size |-> s, alignment |-> al, userData |-> d]
<1>1. PICK a \in Placements(ToVmaVirtual(info)) :
        /\ spaces' = [spaces EXCEPT ![h] = a]
        /\ known' = [known EXCEPT ![h] =
                       [offset |-> a.offset, size |-> s, alignment |-> al, userData |-> d]]
  BY DEF AllocateVirtual
<1>2. /\ a \in VirtualAllocationInfos
      /\ a = [offset |-> a.offset, size |-> s, alignment |-> al, userData |-> d]
      /\ Inside(a) /\ Aligned(a)
      /\ \A g \in VirtualHandles : spaces[g] # NoSpace => Disjoint(a, spaces[g])
  BY PlacementIsSound DEF VirtualInv
<1>3. known' = [known EXCEPT ![h] = a]
  BY <1>1, <1>2, Zenon
<1>4. VirtualTypeOK' /\ BlockOwned'
  BY <1>1, <1>2, <1>3 DEF AllocateVirtual, VirtualInv, VirtualTypeOK, BlockOwned
<1>5. SameRecords'
  BY <1>1, <1>3 DEF VirtualInv, SameRecords
<1>6. PlacesSound'
  <2> SUFFICES ASSUME NEW k \in VirtualHandles, known'[k] # NoSpace
               PROVE  /\ Inside(known'[k]) /\ Aligned(known'[k])
                      /\ \A g \in VirtualHandles \ {k} :
                           known'[g] # NoSpace => Disjoint(known'[k], known'[g])
    BY DEF PlacesSound, Inside, Aligned, Disjoint
  <2>1. known'[h] = a /\ \A g \in VirtualHandles \ {h} : known'[g] = known[g] /\ spaces[g] = known[g]
    BY <1>3 DEF VirtualInv, VirtualTypeOK, SameRecords
  <2>2. CASE k = h
    BY <1>2, <2>1, <2>2
  <2>3. CASE k # h
    <3>1. Inside(known'[k]) /\ Aligned(known'[k])
      BY <2>1, <2>3 DEF VirtualInv, PlacesSound
    <3>2. ASSUME NEW g \in VirtualHandles \ {k}, known'[g] # NoSpace
          PROVE  Disjoint(known'[k], known'[g])
      <4>1. CASE g = h
        <5>1. Disjoint(a, known[k])
          BY <1>2, <2>1, <2>3
        <5> QED BY <2>1, <2>3, <4>1, <5>1 DEF Disjoint
      <4>2. CASE g # h
        BY <2>1, <2>3, <3>2, <4>2 DEF VirtualInv, PlacesSound
      <4> QED BY <4>1, <4>2
    <3> QED BY <3>1, <3>2
  <2> QED BY <2>2, <2>3
<1> QED BY <1>4, <1>5, <1>6 DEF VirtualInv

(* ... so does giving places back, of one handle or of all ...             *)
LEMMA GiveBackInv ==
  ASSUME VirtualInv, NEW H \in SUBSET VirtualHandles,
         spaces' = [h \in VirtualHandles |-> IF h \in H THEN NoSpace ELSE spaces[h]],
         known' = [h \in VirtualHandles |-> IF h \in H THEN NoSpace ELSE known[h]]
  PROVE  /\ spaces' \in [VirtualHandles -> VirtualAllocationInfos \cup {NoSpace}]
         /\ known' \in [VirtualHandles -> VirtualAllocationInfos \cup {NoSpace}]
         /\ SameRecords' /\ PlacesSound'
<1>1. /\ spaces' \in [VirtualHandles -> VirtualAllocationInfos \cup {NoSpace}]
      /\ known' \in [VirtualHandles -> VirtualAllocationInfos \cup {NoSpace}]
  BY DEF VirtualInv, VirtualTypeOK
<1>2. SameRecords'
  BY DEF VirtualInv, VirtualTypeOK, SameRecords
<1>3. \A h \in VirtualHandles : known'[h] # NoSpace => known'[h] = known[h]
  OBVIOUS
<1>4. PlacesSound'
  BY <1>3 DEF VirtualInv, PlacesSound, Inside, Aligned, Disjoint
<1> QED BY <1>1, <1>2, <1>4

(* ... and new user data.                                                  *)
LEMMA SetVirtualUserDataInv ==
  ASSUME VirtualInv, NEW h \in VirtualHandles, NEW d \in VirtualData,
         SetVirtualUserData(h, d)
  PROVE  VirtualInv'
<1> DEFINE b == [known[h] EXCEPT !.userData = d]
<1>1. known[h] \in VirtualAllocationInfos /\ spaces[h] = known[h]
  BY DEF SetVirtualUserData, VirtualInv, VirtualTypeOK, SameRecords
<1>2. /\ spaces' = [spaces EXCEPT ![h] = b]
      /\ known' = [known EXCEPT ![h] = b]
      /\ UNCHANGED <<block, blockLive>>
  BY <1>1 DEF SetVirtualUserData
<1>3. /\ b \in VirtualAllocationInfos
      /\ b.offset = known[h].offset /\ b.size = known[h].size
      /\ b.alignment = known[h].alignment
  BY <1>1, UserDataIrrelevant
<1> HIDE DEF b
<1>4. VirtualTypeOK' /\ BlockOwned'
  BY <1>2, <1>3 DEF VirtualInv, VirtualTypeOK, BlockOwned
<1>5. SameRecords'
  BY <1>2 DEF VirtualInv, SameRecords
<1>6. \A k \in VirtualHandles :
        known'[k] # NoSpace =>
          /\ known[k] # NoSpace
          /\ known'[k].offset = known[k].offset
          /\ known'[k].size = known[k].size
          /\ known'[k].alignment = known[k].alignment
  BY <1>2, <1>3 DEF SetVirtualUserData, VirtualInv, VirtualTypeOK
<1>7. PlacesSound'
  BY <1>6, Zenon DEF VirtualInv, PlacesSound, Inside, Aligned, Disjoint
<1> QED BY <1>4, <1>5, <1>7 DEF VirtualInv

(* Every step keeps it.                                                    *)
LEMMA VirtualNextInv == VirtualInv /\ [VirtualNext]_virtualVars => VirtualInv'
<1> SUFFICES ASSUME VirtualInv, [VirtualNext]_virtualVars PROVE VirtualInv'
  OBVIOUS
<1>1. CASE NewBlock \/ BlockIntoRaw \/ BlockFromRaw \/ UNCHANGED virtualVars
  <2>1. UNCHANGED <<spaces, known>>
    BY <1>1 DEF NewBlock, BlockIntoRaw, BlockFromRaw, virtualVars
  <2>2. SameRecords' /\ PlacesSound'
    BY <2>1 DEF VirtualInv, SameRecords, PlacesSound, Inside, Aligned, Disjoint
  <2>3. block' \in {"value", "raw", "none"} /\ blockLive' \in BOOLEAN /\ BlockOwned'
    <3>1. CASE NewBlock
      BY <3>1, Zenon DEF NewBlock, BlockOwned
    <3>2. CASE BlockIntoRaw \/ BlockFromRaw \/ UNCHANGED virtualVars
      BY <3>2 DEF BlockIntoRaw, BlockFromRaw, virtualVars, VirtualInv, VirtualTypeOK, BlockOwned
    <3> QED BY <1>1, <3>1, <3>2
  <2>4. VirtualTypeOK'
    BY <2>1, <2>3 DEF VirtualInv, VirtualTypeOK
  <2> QED BY <2>2, <2>3, <2>4 DEF VirtualInv
<1>2. CASE DropBlock
  <2>1. known' = [h \in VirtualHandles |-> NoSpace]
    BY <1>2 DEF DropBlock, VirtualInv, VirtualTypeOK
  <2> QED BY <1>2, <2>1, GiveBackInv DEF DropBlock, VirtualInv, VirtualTypeOK, BlockOwned
<1>3. CASE ClearVirtualBlock
  BY <1>3, GiveBackInv DEF ClearVirtualBlock, VirtualInv, VirtualTypeOK, BlockOwned
<1>4. ASSUME NEW h \in VirtualHandles, FreeVirtual(h) PROVE VirtualInv'
  <2>1. /\ spaces' = [k \in VirtualHandles |-> IF k \in {h} THEN NoSpace ELSE spaces[k]]
        /\ known' = [k \in VirtualHandles |-> IF k \in {h} THEN NoSpace ELSE known[k]]
    BY <1>4 DEF FreeVirtual, VirtualInv, VirtualTypeOK
  <2> QED BY <1>4, <2>1, GiveBackInv DEF FreeVirtual, VirtualInv, VirtualTypeOK, BlockOwned
<1>5. ASSUME NEW h \in VirtualHandles,
             NEW s \in VirtualSizes, NEW al \in VirtualAlignments, NEW d \in VirtualData,
             AllocateVirtual(h, [size |-> s, alignment |-> al, userData |-> d])
      PROVE  VirtualInv'
  BY <1>5, AllocateVirtualInv
<1>6. ASSUME NEW h \in VirtualHandles, NEW d \in VirtualData, SetVirtualUserData(h, d)
      PROVE  VirtualInv'
  BY <1>6, SetVirtualUserDataInv
<1> QED BY <1>1, <1>2, <1>3, <1>4, <1>5, <1>6 DEF VirtualNext

LEMMA VirtualInvariant == VirtualSpec => []VirtualInv
<1> QED BY VirtualInitInv, VirtualNextInv, PTL DEF VirtualSpec
-----------------------------------------------------------------------------
(* Every variable keeps its type: the records of VirtualBlock and of VMA   *)
(* are always well formed.                                                 *)
THEOREM VirtualTypeCorrect == VirtualSpec => []VirtualTypeOK
<1>1. VirtualInv => VirtualTypeOK
  BY DEF VirtualInv
<1> QED BY <1>1, VirtualInvariant, PTL

(* VMA's block exists as long as a value or raw handle stands for it.      *)
THEOREM BlockIsOwned == VirtualSpec => []BlockOwned
<1>1. VirtualInv => BlockOwned
  BY DEF VirtualInv
<1> QED BY <1>1, VirtualInvariant, PTL

(* What the client believes it holds is in the block, aligned, disjoint,   *)
(* and what get_allocation_info would tell.                                *)
THEOREM SpacesSound == VirtualSpec => []ClientSpacesSound
<1>1. VirtualInv => ClientSpacesSound
  BY DEF VirtualInv, SameRecords, PlacesSound, ClientSpacesSound
<1> QED BY <1>1, VirtualInvariant, PTL

(* Only an empty block is destroyed.                                       *)
THEOREM DiesEmpty == VirtualSpec => BlockDiesEmpty
<1>1. VirtualInv /\ [VirtualNext]_virtualVars
        => [blockLive /\ ~blockLive' => \A h \in VirtualHandles : spaces[h] = NoSpace]_virtualVars
  <2> SUFFICES ASSUME VirtualInv, VirtualNext, blockLive, ~blockLive'
               PROVE  \A h \in VirtualHandles : spaces[h] = NoSpace
    OBVIOUS
  <2>1. DropBlock
    BY DEF VirtualNext, NewBlock, BlockIntoRaw, BlockFromRaw, AllocateVirtual, FreeVirtual,
           ClearVirtualBlock, SetVirtualUserData
  <2> QED BY <2>1 DEF DropBlock, VirtualInv, SameRecords
<1> QED BY <1>1, VirtualInvariant, PTL DEF VirtualSpec, BlockDiesEmpty
=============================================================================
