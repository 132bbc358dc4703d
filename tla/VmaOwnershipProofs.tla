-------------------------- MODULE VmaOwnershipProofs --------------------------
(***************************************************************************)
(* Theorems about VmaOwnership, for any number of pools, values, contexts  *)
(* and allocations and any bound on the client's Arcs.                     *)
(***************************************************************************)
EXTENDS VmaOwnership, FiniteSetTheorems, TLAPS

Holds == \E a \in Allocations : made[a] # None

(* The strong count is the client's Arcs and one for every pool by Arc.    *)
Counted == arcs = clientArcs + Cardinality(ByArc)

HolderArc == (holder = "arc") <=> (arcs > 0)

LiveHeld == allocatorLive <=> (holder # "none")

(* Who borrows the Allocator, or has something to free, finds somebody to  *)
(* lend it.                                                                *)
SomeoneLends ==
  /\ Borrowed => Reachable
  /\ Holds => Reachable \/ holder = "raw"

SharingInv == Counted /\ HolderArc /\ LiveHeld /\ SomeoneLends

AllocationsInv ==
  /\ allocs = made
  /\ \A a \in objects : allocs[a] # None

SharingType ==
  /\ allocatorLive \in BOOLEAN
  /\ holder \in {"value", "raw", "arc", "none"}
  /\ arcs \in 0 .. MaxArcs + Cardinality(Values)
  /\ clientArcs \in 0 .. MaxArcs

PoolType ==
  /\ pools \subseteq Pools
  /\ value \in [Values -> AllocatorPools \cup {None}]

DefragType ==
  /\ contexts \subseteq Contexts
  /\ open \subseteq contexts
  /\ ctx \in [Contexts -> {"none", "idle", "inPass", "abandoned"}]

AllocType ==
  /\ objects \subseteq Allocations
  /\ allocs \in [Allocations -> AllocationInfos \cup {None}]
  /\ made \in [Allocations -> AllocationInfos \cup {None}]

LEMMA TypeConjuncts == OwnershipTypeOK <=> SharingType /\ PoolType /\ DefragType /\ AllocType
BY DEF OwnershipTypeOK, SharingType, PoolType, DefragType, AllocType

OwnershipInv ==
  /\ SharingType /\ PoolType /\ DefragType /\ AllocType
  /\ SharingInv
  /\ PoolsOwnedOnce
  /\ DefragmentationBracketed
  /\ AllocationsInv
-----------------------------------------------------------------------------
(* Sets of values can be counted.                                          *)
LEMMA Countable ==
  ASSUME NEW S \in SUBSET Values
  PROVE  /\ IsFiniteSet(S)
         /\ Cardinality(S) \in Nat
         /\ Cardinality(S) <= Cardinality(Values)
         /\ Cardinality(S) = 0 <=> S = {}
<1>1. IsFiniteSet(Values)
  BY OwnershipAssumption
<1>2. IsFiniteSet(S) /\ Cardinality(S) <= Cardinality(Values)
  BY <1>1, FS_Subset
<1> QED BY <1>2, FS_CardinalityType, FS_EmptySet

LEMMA ValueSets == ByArc \in SUBSET Values /\ Lenders \in SUBSET Values /\ Lenders \subseteq ByArc
BY DEF ByArc, Lenders

LEMMA ValueSetsNext ==
  ByArc' \in SUBSET Values /\ Lenders' \in SUBSET Values /\ Lenders' \subseteq ByArc'
BY DEF ByArc, Lenders

(* The type of arcs follows from the count.                                *)
LEMMA ArcsBounded ==
  ASSUME Counted', clientArcs' \in 0 .. MaxArcs
  PROVE  arcs' \in 0 .. MaxArcs + Cardinality(Values)
<1>1. /\ Cardinality(ByArc') \in Nat /\ Cardinality(Values) \in Nat
      /\ Cardinality(ByArc') <= Cardinality(Values)
  BY Countable, ValueSetsNext
<1> QED BY <1>1, OwnershipAssumption DEF Counted

(* LenderCount and arcs as sums of natural numbers.                        *)
LEMMA Sums ==
  ASSUME SharingType
  PROVE  /\ Cardinality(ByArc) \in Nat /\ Cardinality(Lenders) \in Nat
         /\ Cardinality(Lenders) <= Cardinality(ByArc)
         /\ arcs \in Nat /\ clientArcs \in Nat
         /\ LenderCount \in Nat
         /\ LenderCount = clientArcs + Cardinality(Lenders) + (IF holder = "value" THEN 1 ELSE 0)
<1>1. Cardinality(ByArc) \in Nat /\ Cardinality(Lenders) \in Nat /\ Cardinality(Values) \in Nat
  BY Countable, ValueSets
<1>2. Cardinality(Lenders) <= Cardinality(ByArc)
  <2>1. IsFiniteSet(ByArc)
    BY Countable, ValueSets
  <2> QED BY <2>1, ValueSets, FS_Subset
<1>3. arcs \in Nat /\ clientArcs \in Nat
  BY <1>1, OwnershipAssumption DEF SharingType
<1> QED BY <1>1, <1>2, <1>3 DEF LenderCount

(* Only a new value for v changes.                                         *)
LEMMA OneValue ==
  ASSUME PoolType, NEW v \in Values, NEW x \in AllocatorPools \cup {None},
         value' = [value EXCEPT ![v] = x]
  PROVE  /\ value' \in [Values -> AllocatorPools \cup {None}]
         /\ value'[v] = x
         /\ \A w \in Values \ {v} : value'[w] = value[w]
BY DEF PoolType

(* The counting of values and borrows looks at value and ctx only.         *)
LEMMA SameValues ==
  ASSUME UNCHANGED value
  PROVE  ByArc' = ByArc /\ ByRef' = ByRef /\ Lenders' = Lenders
BY DEF ByArc, ByRef, Lenders

LEMMA SameBorrowed == ASSUME UNCHANGED <<value, ctx>> PROVE Borrowed' = Borrowed
BY DEF Borrowed, ByRef

LEMMA SameHolds == ASSUME UNCHANGED made PROVE Holds' = Holds
BY DEF Holds

LEMMA SamePools == ASSUME PoolsOwnedOnce, UNCHANGED poolVars PROVE PoolsOwnedOnce'
BY DEF PoolsOwnedOnce, Owns, Is, poolVars

LEMMA SameDefrag ==
  ASSUME DefragType, DefragmentationBracketed, UNCHANGED defragVars
  PROVE  DefragType' /\ DefragmentationBracketed'
BY DEF DefragType, DefragmentationBracketed, defragVars

LEMMA SameAllocations ==
  ASSUME AllocType, AllocationsInv, UNCHANGED allocVars
  PROVE  AllocType' /\ AllocationsInv'
BY DEF AllocType, AllocationsInv, allocVars
-----------------------------------------------------------------------------
LEMMA OwnershipInitInv == OwnershipInit => OwnershipInv
<1> SUFFICES ASSUME OwnershipInit PROVE OwnershipInv
  OBVIOUS
<1> USE DEF OwnershipInit
<1>1. ByArc = {} /\ ByRef = {} /\ Lenders = {}
  BY DEF ByArc, ByRef, Lenders
<1>2. Cardinality(ByArc) = 0 /\ Cardinality(Values) \in Nat
  BY <1>1, FS_EmptySet, Countable
<1>3. SharingType
  <2>1. allocatorLive \in BOOLEAN
    BY Zenon
  <2>2. /\ holder \in {"value", "raw", "arc", "none"}
        /\ arcs \in 0 .. MaxArcs + Cardinality(Values)
        /\ clientArcs \in 0 .. MaxArcs
    BY <1>2, OwnershipAssumption
  <2> QED BY <2>1, <2>2 DEF SharingType
<1>4. PoolType /\ DefragType /\ AllocType
  BY DEF PoolType, DefragType, AllocType
<1>5. SharingInv
  BY <1>1, <1>2 DEF SharingInv, Counted, HolderArc, LiveHeld, SomeoneLends, Borrowed, Holds
<1>6. PoolsOwnedOnce
  BY DEF PoolsOwnedOnce, Owns, Is
<1>7. DefragmentationBracketed /\ AllocationsInv
  BY DEF DefragmentationBracketed, AllocationsInv
<1> QED BY <1>3, <1>4, <1>5, <1>6, <1>7 DEF OwnershipInv
-----------------------------------------------------------------------------
(* The steps of an Allocator and of the client's Arcs change how it is     *)
(* shared, and nothing else.                                               *)
LEMMA AllocatorStepShares ==
  ASSUME OwnershipInv, AllocatorStep
  PROVE  UNCHANGED <<poolVars, defragVars, allocVars>>
BY DEF AllocatorStep, NewAllocator, AllocatorIntoRaw, AllocatorFromRaw, DropAllocator, NewArc,
       CloneArc, DropArc, poolVars, defragVars, allocVars

LEMMA AllocatorStepInv == OwnershipInv /\ AllocatorStep => OwnershipInv'
<1> SUFFICES ASSUME OwnershipInv, AllocatorStep PROVE OwnershipInv'
  OBVIOUS
<1>1. UNCHANGED <<poolVars, defragVars, allocVars>>
  BY AllocatorStepShares
<1>2. /\ ByArc' = ByArc /\ Lenders' = Lenders
      /\ Borrowed' = Borrowed /\ Holds' = Holds
  BY <1>1, SameValues, SameBorrowed, SameHolds DEF poolVars, defragVars, allocVars
<1>3. /\ Cardinality(ByArc) \in Nat /\ Cardinality(Lenders) \in Nat
      /\ Cardinality(Lenders) <= Cardinality(ByArc)
      /\ arcs \in Nat /\ clientArcs \in 0 .. MaxArcs /\ MaxArcs \in Nat
      /\ holder \in {"value", "raw", "arc", "none"}
      /\ LenderCount = clientArcs + Cardinality(Lenders) + (IF holder = "value" THEN 1 ELSE 0)
  BY Sums, OwnershipAssumption DEF OwnershipInv, SharingType
<1>4. LenderCount' = clientArcs' + Cardinality(Lenders) + (IF holder' = "value" THEN 1 ELSE 0)
  BY <1>2 DEF LenderCount
<1>5. /\ arcs = clientArcs + Cardinality(ByArc)
      /\ (holder = "arc") <=> (arcs > 0)
      /\ Borrowed => LenderCount > 0
      /\ Holds => LenderCount > 0 \/ holder = "raw"
  BY DEF OwnershipInv, SharingInv, Counted, HolderArc, SomeoneLends, Reachable
<1>6. /\ clientArcs' \in 0 .. MaxArcs
      /\ holder' \in {"value", "raw", "arc", "none"}
      /\ arcs' = clientArcs' + Cardinality(ByArc)
      /\ (holder' = "arc") <=> (arcs' > 0)
      /\ Borrowed => LenderCount' > 0
      /\ Holds => LenderCount' > 0 \/ holder' = "raw"
  <2>1. CASE NewAllocator
    BY <1>3, <1>4, <1>5, <2>1 DEF NewAllocator
  <2>2. CASE AllocatorIntoRaw
    BY <1>3, <1>4, <1>5, <2>2 DEF AllocatorIntoRaw, MayMove
  <2>3. CASE AllocatorFromRaw
    BY <1>3, <1>4, <1>5, <2>3 DEF AllocatorFromRaw
  <2>4. CASE DropAllocator
    <3>1. Holds <=> ~ \A a \in Allocations : made[a] = None
      BY DEF Holds
    <3> QED BY <1>3, <1>4, <1>5, <2>4, <3>1 DEF DropAllocator, MayLetGo
  <2>5. CASE NewArc
    BY <1>3, <1>4, <1>5, <2>5, OwnershipAssumption DEF NewArc, MayMove
  <2>6. CASE CloneArc
    BY <1>3, <1>4, <1>5, <2>6 DEF CloneArc
  <2>7. CASE DropArc
    <3>1. Holds <=> ~ \A a \in Allocations : made[a] = None
      BY DEF Holds
    <3> QED BY <1>3, <1>4, <1>5, <2>7, <3>1 DEF DropArc, ReleaseArc, MayLetGo
  <2> QED BY <2>1, <2>2, <2>3, <2>4, <2>5, <2>6, <2>7 DEF AllocatorStep
<1>7. allocatorLive' \in BOOLEAN /\ LiveHeld'
  <2>1. CASE NewAllocator
    BY <2>1, Zenon DEF NewAllocator, LiveHeld
  <2>2. CASE AllocatorIntoRaw \/ AllocatorFromRaw \/ NewArc \/ CloneArc
    BY <2>2 DEF AllocatorIntoRaw, AllocatorFromRaw, NewArc, CloneArc, LiveHeld, OwnershipInv,
                SharingInv, SharingType
  <2>3. CASE DropAllocator
    BY <2>3, Zenon DEF DropAllocator, LiveHeld
  <2>4. CASE DropArc
    <3>1. holder = "arc"
      BY <1>3, <1>5, <2>4 DEF DropArc
    <3> QED BY <2>4, <3>1 DEF DropArc, ReleaseArc, LiveHeld, OwnershipInv, SharingInv, SharingType
  <2> QED BY <2>1, <2>2, <2>3, <2>4 DEF AllocatorStep
<1>8. Counted' /\ HolderArc' /\ SomeoneLends'
  BY <1>2, <1>6 DEF Counted, HolderArc, SomeoneLends, Reachable
<1>9. SharingType'
  BY <1>6, <1>7, <1>8, ArcsBounded DEF SharingType
<1>10. PoolType' /\ PoolsOwnedOnce'
  BY <1>1, SamePools DEF OwnershipInv, PoolType, poolVars
<1> QED BY <1>1, <1>7, <1>8, <1>9, <1>10, SameDefrag, SameAllocations DEF OwnershipInv, SharingInv
-----------------------------------------------------------------------------
(* A value is added: to those that count if it holds an Arc, to those that *)
(* borrow if not.                                                          *)
LEMMA NewValueSets ==
  ASSUME OwnershipInv, NEW v \in Values, NEW by \in {"arc", "ref"},
         NEW p \in Pools \cup {Null}, NewValue(v, by, p)
  PROVE  /\ value' \in [Values -> AllocatorPools \cup {None}]
         /\ Cardinality(ByArc') = Cardinality(ByArc) + (IF by = "arc" THEN 1 ELSE 0)
         /\ Cardinality(Lenders') = Cardinality(Lenders) + (IF by = "arc" THEN 1 ELSE 0)
         /\ by = "arc" => ByRef' = ByRef
         /\ \A w \in Values, q \in Pools : Owns(w, q)' <=> Owns(w, q) \/ (w = v /\ q = p)
<1> DEFINE x == [by |-> by, pool |-> p, phase |-> "held"]
<1>1. x \in AllocatorPools /\ x # None /\ x.by = by /\ x.pool = p /\ x.phase = "held"
  BY NoneAssumption DEF AllocatorPools
<1>2. /\ value' \in [Values -> AllocatorPools \cup {None}]
      /\ value'[v] = x
      /\ \A w \in Values \ {v} : value'[w] = value[w]
      /\ value[v] = None
  BY <1>1, OneValue DEF NewValue, OwnershipInv
<1>3. v \notin ByArc /\ v \notin ByRef /\ v \notin Lenders
  BY <1>2 DEF ByArc, ByRef, Lenders
<1> HIDE DEF x
<1>4. /\ Cardinality(ByArc') = Cardinality(ByArc) + (IF by = "arc" THEN 1 ELSE 0)
      /\ Cardinality(Lenders') = Cardinality(Lenders) + (IF by = "arc" THEN 1 ELSE 0)
      /\ by = "arc" => ByRef' = ByRef
  <2>1. /\ IsFiniteSet(ByArc) /\ Cardinality(ByArc) \in Nat
        /\ IsFiniteSet(Lenders) /\ Cardinality(Lenders) \in Nat
    BY ValueSets, Countable
  <2>2. CASE by = "arc"
    <3>1. ByArc' = ByArc \cup {v} /\ ByRef' = ByRef /\ Lenders' = Lenders \cup {v}
      BY <1>1, <1>2, <1>3, <2>2 DEF ByArc, ByRef, Lenders
    <3>2. /\ Cardinality(ByArc \cup {v}) = Cardinality(ByArc) + 1
          /\ Cardinality(Lenders \cup {v}) = Cardinality(Lenders) + 1
      BY <1>3, <2>1, FS_AddElement
    <3> QED BY <2>2, <3>1, <3>2
  <2>3. CASE by = "ref"
    <3>1. ByArc' = ByArc /\ Lenders' = Lenders
      BY <1>1, <1>2, <1>3, <2>3 DEF ByArc, Lenders
    <3> QED BY <2>1, <2>3, <3>1
  <2> QED BY <2>2, <2>3
<1>5. \A w \in Values, q \in Pools : Owns(w, q)' <=> Owns(w, q) \/ (w = v /\ q = p)
  BY <1>1, <1>2 DEF Owns, Is
<1> QED BY <1>2, <1>4, <1>5

(* A value changes its phase between held and raw, or begins to die.       *)
LEMMA PhaseSets ==
  ASSUME OwnershipInv, NEW v \in Values, NEW ph \in {"held", "raw", "dropping"},
         value[v] # None, value[v].phase # "dropping",
         value' = [value EXCEPT ![v].phase = ph]
  PROVE  /\ value' \in [Values -> AllocatorPools \cup {None}]
         /\ ByArc' = ByArc /\ ByRef' = ByRef
         /\ Lenders' = IF ph = "dropping" THEN Lenders \ {v} ELSE Lenders
         /\ v \in Lenders <=> v \in ByArc
         /\ \A w \in Values, q \in Pools :
              Owns(w, q)' <=> Owns(w, q) /\ (ph = "dropping" => w # v)
<1> DEFINE x == [value[v] EXCEPT !.phase = ph]
<1>1. value[v] \in AllocatorPools
  BY DEF OwnershipInv, PoolType
<1>2. x \in AllocatorPools /\ x.by = value[v].by /\ x.pool = value[v].pool /\ x.phase = ph
  BY <1>1 DEF AllocatorPools
<1>3. x # None
  BY <1>2, NoneAssumption
<1>4. /\ value' \in [Values -> AllocatorPools \cup {None}]
      /\ value'[v] = x
      /\ \A w \in Values \ {v} : value'[w] = value[w]
  BY <1>2, OneValue DEF OwnershipInv
<1>5. value[v].phase \in {"held", "raw"}
  BY <1>1 DEF AllocatorPools
<1> HIDE DEF x
<1>6. ByArc' = ByArc /\ ByRef' = ByRef
  BY <1>2, <1>3, <1>4 DEF ByArc, ByRef
<1>7. v \in Lenders <=> v \in ByArc
  BY DEF ByArc, Lenders
<1>8. Lenders' = IF ph = "dropping" THEN Lenders \ {v} ELSE Lenders
  BY <1>2, <1>3, <1>4, <1>6 DEF Lenders
<1>9. \A w \in Values, q \in Pools :
        Owns(w, q)' <=> Owns(w, q) /\ (ph = "dropping" => w # v)
  BY <1>2, <1>3, <1>4, <1>5 DEF Owns, Is
<1> QED BY <1>4, <1>6, <1>7, <1>8, <1>9

(* A value is gone.                                                        *)
LEMMA GoneSets ==
  ASSUME OwnershipInv, NEW v \in Values, Is(v, {"dropping"}),
         value' = [value EXCEPT ![v] = None]
  PROVE  /\ value' \in [Values -> AllocatorPools \cup {None}]
         /\ ByArc' = ByArc \ {v} /\ ByRef' \subseteq ByRef /\ Lenders' = Lenders
         /\ \A w \in Values, q \in Pools : Owns(w, q)' <=> Owns(w, q)
<1>1. /\ value' \in [Values -> AllocatorPools \cup {None}]
      /\ value'[v] = None
      /\ \A w \in Values \ {v} : value'[w] = value[w]
  BY OneValue DEF OwnershipInv
<1>2. ByArc' = ByArc \ {v} /\ ByRef' \subseteq ByRef
  BY <1>1 DEF ByArc, ByRef
<1>3. Lenders' = Lenders
  BY <1>1, <1>2 DEF Lenders, Is
<1>4. \A w \in Values, q \in Pools : Owns(w, q)' <=> Owns(w, q)
  BY <1>1 DEF Owns, Is
<1> QED BY <1>1, <1>2, <1>3, <1>4

(* Pools stay owned once when v takes a new pool, ...                      *)
LEMMA PoolMade ==
  ASSUME PoolsOwnedOnce, NEW v \in Values, NEW p \in Pools,
         p \notin pools, pools' = pools \cup {p},
         \A w \in Values, q \in Pools : Owns(w, q)' <=> Owns(w, q) \/ (w = v /\ q = p)
  PROVE  PoolsOwnedOnce'
BY DEF PoolsOwnedOnce

(* ... when no pool is made or destroyed, ...                              *)
LEMMA PoolKept ==
  ASSUME PoolsOwnedOnce, pools' = pools,
         \A w \in Values, q \in Pools : Owns(w, q)' <=> Owns(w, q)
  PROVE  PoolsOwnedOnce'
BY DEF PoolsOwnedOnce

(* ... and when the owner of a pool destroys it.                           *)
LEMMA PoolGone ==
  ASSUME PoolsOwnedOnce, NEW v \in Values, Is(v, {"held"}), pools' = pools \ {value[v].pool},
         \A w \in Values, q \in Pools : Owns(w, q)' <=> Owns(w, q) /\ w # v
  PROVE  PoolsOwnedOnce'
<1>1. \A q \in Pools : Owns(v, q) <=> q = value[v].pool
  BY DEF Owns, Is
<1> QED BY <1>1 DEF PoolsOwnedOnce
-----------------------------------------------------------------------------
(* What pool steps have to show.                                           *)
LEMMA PoolStepShape ==
  ASSUME OwnershipInv, UNCHANGED <<defragVars, allocVars>>,
         pools' \subseteq Pools,
         value' \in [Values -> AllocatorPools \cup {None}],
         allocatorLive' \in BOOLEAN,
         holder' \in {"value", "raw", "arc", "none"},
         clientArcs' \in 0 .. MaxArcs,
         SharingInv', PoolsOwnedOnce'
  PROVE  OwnershipInv'
<1>1. SharingType'
  BY ArcsBounded DEF SharingInv, SharingType
<1>2. PoolType'
  BY DEF PoolType
<1> QED BY <1>1, <1>2, SameDefrag, SameAllocations DEF OwnershipInv

(* The same, when nothing is released.                                     *)
LEMMA NothingReleased ==
  ASSUME OwnershipInv, UNCHANGED <<allocatorLive, holder, clientArcs, defragVars, allocVars>>,
         pools' \subseteq Pools,
         value' \in [Values -> AllocatorPools \cup {None}],
         Counted', arcs' \in Nat, (arcs' > 0) <=> (arcs > 0),
         Borrowed' => Reachable', Holds => Reachable' \/ holder = "raw",
         PoolsOwnedOnce'
  PROVE  OwnershipInv'
<1>1. HolderArc' /\ LiveHeld'
  BY DEF HolderArc, LiveHeld, OwnershipInv, SharingInv
<1>2. SomeoneLends'
  BY SameHolds DEF SomeoneLends, allocVars
<1> QED BY <1>1, <1>2, PoolStepShape DEF SharingInv, OwnershipInv, SharingType

(* A new pool value, whichever way it is made.                             *)
LEMMA NewValueInv ==
  ASSUME OwnershipInv, NEW v \in Values, NEW by \in {"arc", "ref"},
         NEW p \in Pools \cup {Null}, NewValue(v, by, p),
         UNCHANGED <<allocatorLive, holder, clientArcs, defragVars, allocVars>>,
         by = "arc" => clientArcs > 0 /\ arcs' = arcs + 1,
         by = "ref" => Reachable /\ arcs' = arcs,
         \/ p \in Pools /\ p \notin pools /\ pools' = pools \cup {p}
         \/ p = Null /\ pools' = pools
  PROVE  OwnershipInv'
<1>1. /\ value' \in [Values -> AllocatorPools \cup {None}]
      /\ Cardinality(ByArc') = Cardinality(ByArc) + (IF by = "arc" THEN 1 ELSE 0)
      /\ Cardinality(Lenders') = Cardinality(Lenders) + (IF by = "arc" THEN 1 ELSE 0)
      /\ \A w \in Values, q \in Pools : Owns(w, q)' <=> Owns(w, q) \/ (w = v /\ q = p)
  BY NewValueSets
<1>2. /\ Cardinality(ByArc) \in Nat /\ Cardinality(Lenders) \in Nat
      /\ arcs \in Nat /\ clientArcs \in Nat
      /\ LenderCount = clientArcs + Cardinality(Lenders) + (IF holder = "value" THEN 1 ELSE 0)
      /\ arcs = clientArcs + Cardinality(ByArc)
  BY Sums DEF OwnershipInv, SharingInv, Counted
<1>3. LenderCount' = clientArcs + Cardinality(Lenders') + (IF holder = "value" THEN 1 ELSE 0)
  BY DEF LenderCount
<1>4. LenderCount' >= LenderCount /\ LenderCount \in Nat /\ LenderCount' \in Nat
  BY <1>1, <1>2, <1>3
<1>5. arcs' = clientArcs' + Cardinality(ByArc') /\ arcs' \in Nat /\ ((arcs' > 0) <=> (arcs > 0))
  BY <1>1, <1>2
<1>6. Reachable
  BY <1>2 DEF Reachable
<1>7. Reachable'
  BY <1>4, <1>6 DEF Reachable
<1>8. pools' \subseteq Pools /\ PoolsOwnedOnce'
  <2>1. CASE p \in Pools /\ p \notin pools /\ pools' = pools \cup {p}
    BY <1>1, <2>1, PoolMade DEF OwnershipInv, PoolType
  <2>2. CASE p = Null /\ pools' = pools
    <3>1. \A w \in Values, q \in Pools : Owns(w, q)' <=> Owns(w, q)
      BY <1>1, <2>2, OwnershipAssumption
    <3> QED BY <2>2, <3>1, PoolKept DEF OwnershipInv, PoolType
  <2> QED BY <2>1, <2>2
<1> QED BY <1>1, <1>5, <1>7, <1>8, NothingReleased DEF Counted

(* A value goes through raw parts.                                         *)
LEMMA RawPartsInv ==
  ASSUME OwnershipInv, NEW v \in Values, NEW ph \in {"held", "raw"},
         Is(v, {"held", "raw"}), value' = [value EXCEPT ![v].phase = ph],
         UNCHANGED <<pools, sharing, defragVars, allocVars>>
  PROVE  OwnershipInv'
<1>1. /\ value' \in [Values -> AllocatorPools \cup {None}]
      /\ ByArc' = ByArc /\ ByRef' = ByRef /\ Lenders' = Lenders
      /\ \A w \in Values, q \in Pools : Owns(w, q)' <=> Owns(w, q)
  BY PhaseSets DEF Is
<1>2. UNCHANGED <<allocatorLive, holder, arcs, clientArcs>>
  BY DEF sharing
<1>3. Borrowed' = Borrowed
  BY <1>1 DEF Borrowed, defragVars
<1>4. Reachable' = Reachable
  BY <1>1, <1>2 DEF Reachable, LenderCount
<1>5. PoolsOwnedOnce' /\ pools' \subseteq Pools
  BY <1>1, PoolKept DEF OwnershipInv, PoolType
<1>6. Counted' /\ arcs' \in Nat /\ ((arcs' > 0) <=> (arcs > 0))
  BY <1>1, <1>2, Sums DEF OwnershipInv, SharingInv, Counted
<1>7. (Borrowed => Reachable) /\ (Holds => Reachable \/ holder = "raw")
  BY DEF OwnershipInv, SharingInv, SomeoneLends
<1> QED BY <1>1, <1>2, <1>3, <1>4, <1>5, <1>6, <1>7, NothingReleased

(* A pool is destroyed: if its value lent the Allocator, another one still *)
(* does, or nobody needs it.                                               *)
LEMMA DropPoolInv ==
  ASSUME OwnershipInv, NEW v \in Values, DropPool(v)
  PROVE  OwnershipInv'
<1>1. /\ Is(v, {"held"}) /\ (v \in ByArc => MayLetGo)
      /\ value' = [value EXCEPT ![v].phase = "dropping"]
      /\ pools' = pools \ {value[v].pool}
      /\ UNCHANGED <<allocatorLive, holder, arcs, clientArcs, defragVars, allocVars>>
  BY DEF DropPool, MayDropPool, sharing
<1>2. /\ value' \in [Values -> AllocatorPools \cup {None}]
      /\ ByArc' = ByArc /\ ByRef' = ByRef /\ Lenders' = Lenders \ {v}
      /\ v \in Lenders <=> v \in ByArc
      /\ \A w \in Values, q \in Pools : Owns(w, q)' <=> Owns(w, q) /\ w # v
  BY <1>1, PhaseSets DEF Is
<1>3. Borrowed' = Borrowed
  BY <1>1, <1>2 DEF Borrowed, defragVars
<1>4. PoolsOwnedOnce' /\ pools' \subseteq Pools
  BY <1>1, <1>2, PoolGone DEF OwnershipInv, PoolType
<1>5. /\ Cardinality(Lenders) \in Nat /\ arcs \in Nat /\ clientArcs \in Nat
      /\ LenderCount \in Nat
      /\ LenderCount = clientArcs + Cardinality(Lenders) + (IF holder = "value" THEN 1 ELSE 0)
  BY Sums DEF OwnershipInv
<1>6. LenderCount' = LenderCount - (IF v \in ByArc THEN 1 ELSE 0)
  <2>1. IsFiniteSet(Lenders)
    BY ValueSets, Countable
  <2>2. Cardinality(Lenders') = Cardinality(Lenders) - (IF v \in ByArc THEN 1 ELSE 0)
    <3>1. Cardinality(Lenders \ {v}) = IF v \in Lenders THEN Cardinality(Lenders) - 1
                                       ELSE Cardinality(Lenders)
      BY <2>1, FS_RemoveElement
    <3>2. CASE v \in ByArc
      BY <1>2, <3>1, <3>2
    <3>3. CASE v \notin ByArc
      BY <1>2, <1>5, <3>1, <3>3
    <3> QED BY <3>2, <3>3
  <2> QED BY <1>1, <1>5, <2>2 DEF LenderCount
<1>7. (Borrowed => Reachable) /\ (Holds => Reachable \/ holder = "raw")
  BY DEF OwnershipInv, SharingInv, SomeoneLends
<1>8. (Borrowed => Reachable') /\ (Holds => Reachable' \/ holder = "raw")
  <2>1. CASE v \in ByArc
    <3>1. LenderCount > 1 \/ (~Borrowed /\ ~Holds)
      BY <1>1, <2>1 DEF MayLetGo, Holds
    <3> QED BY <1>5, <1>6, <2>1, <3>1 DEF Reachable
  <2>2. CASE v \notin ByArc
    BY <1>5, <1>6, <1>7, <2>2 DEF Reachable
  <2> QED BY <2>1, <2>2
<1>9. Counted' /\ arcs' \in Nat /\ ((arcs' > 0) <=> (arcs > 0))
  BY <1>1, <1>2, <1>5 DEF OwnershipInv, SharingInv, Counted
<1> QED BY <1>1, <1>2, <1>3, <1>4, <1>8, <1>9, NothingReleased

(* The fields of a value are dropped, and with its Arc perhaps the         *)
(* Allocator.                                                              *)
LEMMA DropPoolFieldsInv ==
  ASSUME OwnershipInv, NEW v \in Values, DropPoolFields(v)
  PROVE  OwnershipInv'
<1>1. /\ Is(v, {"dropping"})
      /\ value' = [value EXCEPT ![v] = None]
      /\ UNCHANGED <<pools, clientArcs, defragVars, allocVars>>
  BY DEF DropPoolFields
<1>2. /\ value' \in [Values -> AllocatorPools \cup {None}]
      /\ ByArc' = ByArc \ {v} /\ ByRef' \subseteq ByRef /\ Lenders' = Lenders
      /\ \A w \in Values, q \in Pools : Owns(w, q)' <=> Owns(w, q)
  BY <1>1, GoneSets
<1>3. Borrowed' => Borrowed
  BY <1>1, <1>2 DEF Borrowed, defragVars
<1>4. PoolsOwnedOnce' /\ pools' \subseteq Pools
  BY <1>1, <1>2, PoolKept DEF OwnershipInv, PoolType
<1>5. /\ Cardinality(ByArc) \in Nat /\ arcs \in Nat /\ clientArcs \in Nat
      /\ arcs = clientArcs + Cardinality(ByArc)
      /\ (holder = "arc") <=> (arcs > 0)
      /\ allocatorLive <=> (holder # "none")
      /\ allocatorLive \in BOOLEAN
      /\ holder \in {"value", "raw", "arc", "none"}
      /\ clientArcs \in 0 .. MaxArcs
  BY Sums DEF OwnershipInv, SharingType, SharingInv, Counted, HolderArc, LiveHeld
<1>6. (Borrowed => Reachable) /\ (Holds => Reachable \/ holder = "raw")
  BY DEF OwnershipInv, SharingInv, SomeoneLends
<1>7. CASE v \in ByArc
  <2>1. /\ arcs' = arcs - 1
        /\ holder' = IF arcs = 1 THEN "none" ELSE holder
        /\ allocatorLive' = (allocatorLive /\ arcs # 1)
    BY <1>7 DEF DropPoolFields, ReleaseArc
  <2>2. Cardinality(ByArc) > 0 /\ Cardinality(ByArc') = Cardinality(ByArc) - 1
    <3>1. IsFiniteSet(ByArc) /\ Cardinality(ByArc) # 0
      BY <1>7, ValueSets, Countable
    <3> QED BY <1>2, <1>5, <1>7, <3>1, FS_RemoveElement
  <2>3. holder = "arc"
    BY <1>5, <2>2
  <2>4. Reachable' = Reachable
    BY <1>1, <1>2, <2>1, <2>3 DEF Reachable, LenderCount
  <2>5. /\ arcs' = clientArcs' + Cardinality(ByArc')
        /\ (holder' = "arc") <=> (arcs' > 0)
        /\ holder' \in {"value", "raw", "arc", "none"}
    <3> DEFINE n == Cardinality(ByArc)
    <3>1. n \in Nat /\ Cardinality(ByArc') = n - 1 /\ n > 0 /\ arcs = clientArcs + n
          /\ clientArcs \in Nat
      BY <1>5, <2>2
    <3> HIDE DEF n
    <3>2. CASE arcs = 1
      BY <1>1, <2>1, <3>1, <3>2
    <3>3. CASE arcs # 1
      BY <1>1, <2>1, <2>3, <3>1, <3>3
    <3> QED BY <3>2, <3>3
  <2>6. allocatorLive' \in BOOLEAN /\ LiveHeld'
    <3>1. CASE arcs = 1
      BY <2>1, <3>1, Zenon DEF LiveHeld
    <3>2. CASE arcs # 1
      BY <1>5, <2>1, <2>3, <3>2 DEF LiveHeld
    <3> QED BY <3>1, <3>2
  <2>7. SomeoneLends'
    BY <1>1, <1>3, <1>6, <2>3, <2>4, SameHolds DEF SomeoneLends, allocVars
  <2>8. SharingInv'
    BY <2>5, <2>6, <2>7 DEF SharingInv, Counted, HolderArc
  <2> QED BY <1>1, <1>2, <1>4, <1>5, <2>5, <2>6, <2>8, PoolStepShape
<1>8. CASE v \notin ByArc
  <2>1. UNCHANGED <<allocatorLive, holder, arcs>> /\ ByArc' = ByArc
    BY <1>2, <1>8 DEF DropPoolFields
  <2>2. Reachable' = Reachable
    BY <1>1, <1>2, <2>1 DEF Reachable, LenderCount
  <2>3. Counted' /\ arcs' \in Nat /\ ((arcs' > 0) <=> (arcs > 0))
    BY <1>1, <1>5, <2>1 DEF Counted
  <2> QED BY <1>1, <1>2, <1>3, <1>4, <1>6, <2>1, <2>2, <2>3, NothingReleased
<1> QED BY <1>7, <1>8

LEMMA PoolStepInv == OwnershipInv /\ PoolStep => OwnershipInv'
<1> SUFFICES ASSUME OwnershipInv, PoolStep PROVE OwnershipInv'
  OBVIOUS
<1>1. PICK v \in Values :
        \/ \E p \in Pools : CreatePool(v, p) \/ CreatePoolWithRef(v, p)
        \/ DefaultPool(v) \/ DefaultPoolWithRef(v)
        \/ PoolIntoRawParts(v) \/ PoolFromRawParts(v)
        \/ DropPool(v) \/ DropPoolFields(v)
  BY DEF PoolStep
<1>2. ASSUME NEW p \in Pools, CreatePool(v, p) PROVE OwnershipInv'
  BY <1>2, NewValueInv DEF CreatePool
<1>3. ASSUME NEW p \in Pools, CreatePoolWithRef(v, p) PROVE OwnershipInv'
  BY <1>3, NewValueInv DEF CreatePoolWithRef, sharing
<1>4. CASE DefaultPool(v)
  BY <1>4, NewValueInv DEF DefaultPool
<1>5. CASE DefaultPoolWithRef(v)
  BY <1>5, NewValueInv DEF DefaultPoolWithRef, sharing
<1>6. CASE PoolIntoRawParts(v)
  BY <1>6, RawPartsInv DEF PoolIntoRawParts, Is
<1>7. CASE PoolFromRawParts(v)
  BY <1>7, RawPartsInv DEF PoolFromRawParts, Is
<1> QED BY <1>1, <1>2, <1>3, <1>4, <1>5, <1>6, <1>7, DropPoolInv, DropPoolFieldsInv
-----------------------------------------------------------------------------
(* What the steps of allocations have to show.                             *)
LEMMA AllocationStepShape ==
  ASSUME OwnershipInv, UNCHANGED <<sharing, poolVars, defragVars>>,
         AllocType', AllocationsInv', Reachable
  PROVE  OwnershipInv'
<1>1. /\ UNCHANGED <<allocatorLive, holder, arcs, clientArcs, pools, value, ctx>>
  BY DEF sharing, poolVars, defragVars
<1>2. ByArc' = ByArc /\ Lenders' = Lenders /\ Borrowed' = Borrowed
  BY <1>1, SameValues, SameBorrowed
<1>3. Reachable' /\ Counted'
  BY <1>1, <1>2 DEF Reachable, LenderCount, OwnershipInv, SharingInv, Counted
<1>4. SharingType' /\ PoolType' /\ HolderArc' /\ LiveHeld'
  BY <1>1 DEF OwnershipInv, SharingInv, SharingType, PoolType, HolderArc, LiveHeld
<1> QED BY <1>3, <1>4, SamePools, SameDefrag DEF OwnershipInv, SharingInv, SomeoneLends

(* What VMA records of an allocation drawn from p.                         *)
LEMMA DrawnFromType ==
  ASSUME NEW p \in Pools \cup {Null}, NEW info \in AllocationCreateInfos
  PROVE  /\ DrawnFrom(p, info) = [pool |-> p, userData |-> info.userData]
         /\ DrawnFrom(p, info) \in AllocationInfos
BY DEF DrawnFrom, ToVma, AllocationInfos, AllocationCreateInfos

LEMMA DrawInv ==
  ASSUME OwnershipInv, NEW p \in Pools \cup {Null}, Reachable, Draw(p)
  PROVE  OwnershipInv'
<1>1. PICK info \in AllocationCreateInfos, S \in SUBSET Allocations :
        /\ AllocateMemory(S, p, info)
        /\ objects' = objects \/ objects' = objects \cup S
  BY DEF Draw, CreateObject
<1>2. /\ allocs' = [a \in Allocations |-> IF a \in S THEN DrawnFrom(p, info) ELSE allocs[a]]
      /\ made' = [a \in Allocations |->
                    IF a \in S THEN [pool |-> p, userData |-> info.userData] ELSE made[a]]
      /\ UNCHANGED <<sharing, poolVars, defragVars>>
  BY <1>1 DEF AllocateMemory
<1>3. /\ DrawnFrom(p, info) = [pool |-> p, userData |-> info.userData]
      /\ DrawnFrom(p, info) \in AllocationInfos
      /\ DrawnFrom(p, info) # None
  BY DrawnFromType, NoneAssumption
<1>4. allocs = made /\ (\A a \in objects : allocs[a] # None) /\ AllocType
  BY DEF OwnershipInv, AllocationsInv
<1>5. allocs' = made'
  BY <1>2, <1>3, <1>4, Zenon
<1>6. allocs' \in [Allocations -> AllocationInfos \cup {None}]
  BY <1>2, <1>3, <1>4 DEF AllocType
<1>7. \A a \in objects' : allocs'[a] # None
  BY <1>1, <1>2, <1>3, <1>4 DEF AllocType
<1>8. AllocType' /\ AllocationsInv'
  BY <1>1, <1>4, <1>5, <1>6, <1>7 DEF AllocType, AllocationsInv
<1> QED BY <1>2, <1>8, AllocationStepShape

(* A held pool value reaches the Allocator.                                *)
LEMMA HeldReaches ==
  ASSUME OwnershipInv, NEW v \in Values, Is(v, {"held"})
  PROVE  Reachable /\ value[v].pool \in Pools \cup {Null}
<1>1. value[v] \in AllocatorPools /\ value[v].phase = "held"
  BY DEF Is, OwnershipInv, PoolType
<1>2. CASE value[v].by = "arc"
  <2>1. v \in Lenders
    BY <1>1, <1>2 DEF Lenders, ByArc, Is
  <2>2. Cardinality(Lenders) # 0 /\ Cardinality(Lenders) \in Nat
    BY <2>1, ValueSets, Countable
  <2> QED BY <1>1, <2>2, Sums DEF OwnershipInv, Reachable, AllocatorPools
<1>3. CASE value[v].by = "ref"
  <2>1. Borrowed
    BY <1>3 DEF Borrowed, ByRef, Is
  <2> QED BY <1>1, <2>1 DEF OwnershipInv, SharingInv, SomeoneLends, AllocatorPools
<1> QED BY <1>1, <1>2, <1>3 DEF AllocatorPools

LEMMA FreeMemoryInv ==
  ASSUME OwnershipInv, NEW S \in SUBSET Allocations, FreeMemory(S)
  PROVE  OwnershipInv'
<1>1. AllocType' /\ AllocationsInv'
  BY DEF OwnershipInv, AllocType, AllocationsInv, FreeMemory
<1> QED BY <1>1, AllocationStepShape DEF FreeMemory

LEMMA DestroyObjectInv ==
  ASSUME OwnershipInv, NEW a \in Allocations, DestroyObject(a)
  PROVE  OwnershipInv'
<1>1. AllocType' /\ AllocationsInv'
  BY DEF OwnershipInv, AllocType, AllocationsInv, DestroyObject
<1> QED BY <1>1, AllocationStepShape DEF DestroyObject

(* User data changes nothing else of a record.                             *)
LEMMA SetAllocationUserDataInv ==
  ASSUME OwnershipInv, NEW a \in Allocations, NEW d \in UserData, SetAllocationUserData(a, d)
  PROVE  OwnershipInv'
<1> DEFINE x == [allocs[a] EXCEPT !.userData = d]
<1>1. allocs = made /\ (\A b \in objects : allocs[b] # None) /\ AllocType
  BY DEF OwnershipInv, AllocationsInv
<1>2. allocs[a] \in AllocationInfos
  BY <1>1 DEF SetAllocationUserData, AllocType
<1>3. x \in AllocationInfos /\ x # None
  BY <1>2, NoneAssumption DEF AllocationInfos
<1>4. /\ allocs' = [allocs EXCEPT ![a] = x]
      /\ made' = [made EXCEPT ![a] = x]
      /\ UNCHANGED <<objects, sharing, poolVars, defragVars>>
  BY <1>1 DEF SetAllocationUserData
<1> HIDE DEF x
<1>5. AllocType' /\ AllocationsInv'
  BY <1>1, <1>3, <1>4 DEF AllocType, AllocationsInv
<1> QED BY <1>4, <1>5, AllocationStepShape DEF SetAllocationUserData

(* An object is bound to memory, or destroyed without it.                  *)
LEMMA BindMemoryInv ==
  ASSUME OwnershipInv, NEW a \in Allocations, BindMemory(a)
  PROVE  OwnershipInv'
<1>1. AllocType' /\ AllocationsInv'
  BY DEF OwnershipInv, AllocType, AllocationsInv, BindMemory
<1> QED BY <1>1, AllocationStepShape DEF BindMemory

LEMMA vkDestroyInv ==
  ASSUME OwnershipInv, NEW a \in Allocations, vkDestroy(a)
  PROVE  OwnershipInv'
<1>1. AllocType' /\ AllocationsInv'
  BY DEF OwnershipInv, AllocType, AllocationsInv, vkDestroy
<1>2. UNCHANGED <<allocatorLive, holder, arcs, clientArcs, pools, value, ctx, made>>
  BY DEF vkDestroy, sharing, poolVars, defragVars
<1>3. ByArc' = ByArc /\ Lenders' = Lenders /\ Borrowed' = Borrowed /\ Holds' = Holds
  BY <1>2, SameValues, SameBorrowed, SameHolds
<1>4. SharingInv'
  BY <1>2, <1>3 DEF OwnershipInv, SharingInv, Counted, HolderArc, LiveHeld, SomeoneLends,
                    Reachable, LenderCount
<1>5. SharingType' /\ PoolType'
  BY <1>2 DEF OwnershipInv, SharingType, PoolType
<1> QED BY <1>1, <1>4, <1>5, SamePools, SameDefrag DEF OwnershipInv, vkDestroy

LEMMA AllocationStepInv == OwnershipInv /\ AllocationStep => OwnershipInv'
<1> SUFFICES ASSUME OwnershipInv, AllocationStep PROVE OwnershipInv'
  OBVIOUS
<1>1. CASE DrawFromAllocator
  BY <1>1, DrawInv DEF DrawFromAllocator
<1>2. ASSUME NEW v \in Values, DrawFromPool(v) PROVE OwnershipInv'
  BY <1>2, HeldReaches, DrawInv DEF DrawFromPool
<1>3. ASSUME NEW S \in SUBSET Allocations, FreeMemory(S) PROVE OwnershipInv'
  BY <1>3, FreeMemoryInv
<1>4. ASSUME NEW a \in Allocations,
             \/ BindMemory(a) \/ vkDestroy(a) \/ DestroyObject(a)
             \/ \E d \in UserData : SetAllocationUserData(a, d)
      PROVE  OwnershipInv'
  BY <1>4, BindMemoryInv, vkDestroyInv, DestroyObjectInv, SetAllocationUserDataInv
<1> QED BY <1>1, <1>2, <1>3, <1>4 DEF AllocationStep
-----------------------------------------------------------------------------
(* Defragmentations borrow the Allocator and stay bracketed.               *)
LEMMA DefragmentationStepInv == OwnershipInv /\ DefragmentationStep => OwnershipInv'
<1> SUFFICES ASSUME OwnershipInv, NEW c \in Contexts,
                    \/ BeginDefragmentation(c)
                    \/ CallMover(c) \/ MoverReturns(c) \/ MoverPanics(c)
                    \/ EndDefragmentation(c) \/ DropContext(c)
             PROVE  OwnershipInv'
  BY DEF DefragmentationStep
<1> USE DEF BeginDefragmentation, CallMover, MoverReturns, MoverPanics, EndDefragmentation,
            DropContext, vmaEndDefragmentation
<1>1. UNCHANGED <<sharing, poolVars, allocVars>>
  OBVIOUS
<1>2. UNCHANGED <<allocatorLive, holder, arcs, clientArcs, pools, value, made>>
  BY <1>1 DEF sharing, poolVars, allocVars
<1>3. DefragType' /\ DefragmentationBracketed'
  BY DEF OwnershipInv, DefragType, DefragmentationBracketed
<1>4. Borrowed' => Borrowed \/ Reachable
  <2>1. CASE BeginDefragmentation(c)
    BY <2>1
  <2>2. CASE \/ CallMover(c) \/ MoverReturns(c) \/ MoverPanics(c)
             \/ EndDefragmentation(c) \/ DropContext(c)
    <3>1. ctx[c] # "none" /\ \A b \in Contexts \ {c} : ctx'[b] = ctx[b]
      BY <2>2 DEF OwnershipInv, DefragType
    <3> QED BY <1>2, <3>1, SameValues DEF Borrowed
  <2> QED BY <2>1, <2>2
<1>5. ByArc' = ByArc /\ Lenders' = Lenders /\ Holds' = Holds
  BY <1>2, SameValues, SameHolds
<1>6. Reachable' = Reachable
  BY <1>2, <1>5 DEF Reachable, LenderCount
<1>7. SharingInv'
  BY <1>2, <1>4, <1>5, <1>6 DEF OwnershipInv, SharingInv, Counted, HolderArc, LiveHeld, SomeoneLends
<1>8. SharingType' /\ PoolType'
  BY <1>2 DEF OwnershipInv, SharingType, PoolType
<1> QED BY <1>1, <1>3, <1>7, <1>8, SamePools, SameAllocations DEF OwnershipInv
-----------------------------------------------------------------------------
LEMMA OwnershipNextInv == OwnershipInv /\ [OwnershipNext]_ownershipVars => OwnershipInv'
<1> SUFFICES ASSUME OwnershipInv, [OwnershipNext]_ownershipVars PROVE OwnershipInv'
  OBVIOUS
<1>1. CASE UNCHANGED ownershipVars
  <2>1. UNCHANGED <<sharing, poolVars, defragVars, allocVars>>
    BY <1>1 DEF ownershipVars
  <2>2. UNCHANGED <<allocatorLive, holder, arcs, clientArcs, pools, value, ctx, made>>
    BY <2>1 DEF sharing, poolVars, defragVars, allocVars
  <2>3. ByArc' = ByArc /\ Lenders' = Lenders /\ Borrowed' = Borrowed /\ Holds' = Holds
    BY <2>2, SameValues, SameBorrowed, SameHolds
  <2>4. SharingInv'
    BY <2>2, <2>3 DEF OwnershipInv, SharingInv, Counted, HolderArc, LiveHeld, SomeoneLends,
                      Reachable, LenderCount
  <2>5. SharingType' /\ PoolType'
    BY <2>2 DEF OwnershipInv, SharingType, PoolType
  <2> QED BY <2>1, <2>4, <2>5, SamePools, SameDefrag, SameAllocations DEF OwnershipInv
<1> QED BY <1>1, AllocatorStepInv, PoolStepInv, AllocationStepInv, DefragmentationStepInv
        DEF OwnershipNext

LEMMA OwnershipInvariant == OwnershipSpec => []OwnershipInv
<1> QED BY OwnershipInitInv, OwnershipNextInv, PTL DEF OwnershipSpec
-----------------------------------------------------------------------------
(* Every variable keeps its type; the strong count of Arc<Allocator> never *)
(* exceeds the client's own and one for every pool value.                  *)
THEOREM OwnershipTypeCorrect == OwnershipSpec => []OwnershipTypeOK
<1>1. OwnershipInv => OwnershipTypeOK
  BY TypeConjuncts DEF OwnershipInv
<1> QED BY <1>1, OwnershipInvariant, PTL

(* Every pool VMA has is owned by exactly one value or pair of raw parts,  *)
(* and no value owns a pool that is gone.                                  *)
THEOREM PoolsOwned == OwnershipSpec => []PoolsOwnedOnce
<1>1. OwnershipInv => PoolsOwnedOnce
  BY DEF OwnershipInv
<1> QED BY <1>1, OwnershipInvariant, PTL

(* The VmaAllocator exists exactly as long as something stands for it.     *)
THEOREM LiveWhileOwned == OwnershipSpec => []AllocatorLiveWhileOwned
<1>1. ASSUME OwnershipInv PROVE AllocatorLiveWhileOwned
  <2>1. /\ Cardinality(ByArc) \in Nat /\ clientArcs \in Nat
        /\ arcs = clientArcs + Cardinality(ByArc)
        /\ (holder = "arc") <=> (arcs > 0)
        /\ holder \in {"value", "raw", "arc", "none"}
    BY <1>1, Sums DEF OwnershipInv, SharingType, SharingInv, Counted, HolderArc
  <2>2. Cardinality(ByArc) = 0 <=> ByArc = {}
    BY ValueSets, Countable
  <2>3. (holder = "arc") <=> (clientArcs > 0 \/ ByArc # {})
    BY <2>1, <2>2
  <2>4. (holder # "none") <=> (holder \in {"value", "raw"} \/ holder = "arc")
    BY <2>1
  <2> QED BY <1>1, <2>3, <2>4 DEF AllocatorLiveWhileOwned, OwnershipInv, SharingInv, LiveHeld
<1> QED BY <1>1, OwnershipInvariant, PTL

(* Pools, defragmentations, borrows and allocations die before the         *)
(* VmaAllocator, in whatever order threads drop what shares it.            *)
THEOREM NothingOutlives == OwnershipSpec => []NothingOutlivesOwner
<1>1. ASSUME OwnershipInv, ~allocatorLive
      PROVE  /\ pools = {} /\ contexts = {} /\ ByRef = {}
             /\ \A a \in Allocations : allocs[a] = None
  <2>1. /\ Cardinality(ByArc) \in Nat /\ clientArcs \in Nat /\ Cardinality(Lenders) \in Nat
        /\ Cardinality(Lenders) <= Cardinality(ByArc)
        /\ arcs = clientArcs + Cardinality(ByArc)
        /\ holder = "none" /\ ~(arcs > 0)
        /\ LenderCount = clientArcs + Cardinality(Lenders) + (IF holder = "value" THEN 1 ELSE 0)
    BY <1>1, Sums DEF OwnershipInv, SharingInv, Counted, HolderArc, LiveHeld
  <2>2. Cardinality(ByArc) = 0 /\ LenderCount = 0
    BY <2>1
  <2>3. ByArc = {} /\ ~Reachable
    BY <2>2, ValueSets, Countable DEF Reachable
  <2>4. ~Borrowed /\ ~Holds
    BY <1>1, <2>1, <2>3 DEF OwnershipInv, SharingInv, SomeoneLends
  <2>5. ByRef = {} /\ contexts = {}
    BY <1>1, <2>4 DEF Borrowed, OwnershipInv, DefragmentationBracketed
  <2>6. \A v \in Values : value[v] = None
    BY <1>1, <2>3, <2>5 DEF ByArc, ByRef, OwnershipInv, PoolType, AllocatorPools
  <2>7. pools = {}
    BY <1>1, <2>6 DEF OwnershipInv, PoolsOwnedOnce, Owns, Is
  <2> QED BY <1>1, <2>4, <2>5, <2>7 DEF Holds, OwnershipInv, AllocationsInv
<1>2. OwnershipInv => NothingOutlivesOwner
  BY <1>1 DEF NothingOutlivesOwner, OwnershipInv, AllocationsInv
<1> QED BY <1>2, OwnershipInvariant, PTL

(* Defragmentations and passes are ended once each.                        *)
THEOREM Bracketed == OwnershipSpec => []DefragmentationBracketed
<1>1. OwnershipInv => DefragmentationBracketed
  BY DEF OwnershipInv
<1> QED BY <1>1, OwnershipInvariant, PTL

(* VMA's record of an allocation is what the client asked for and set.     *)
THEOREM AsAsked == OwnershipSpec => []AllocatedAsAsked
<1>1. OwnershipInv => AllocatedAsAsked
  BY DEF OwnershipInv, AllocationsInv, AllocatedAsAsked, GetAllocationInfo
<1> QED BY <1>1, OwnershipInvariant, PTL

(* No pool is destroyed with an allocation in it.                          *)
THEOREM DieEmpty == OwnershipSpec => PoolsDieEmpty
<1>1. OwnershipInv /\ [OwnershipNext]_ownershipVars
        => [\A p \in pools \ pools', a \in Allocations :
              allocs[a] # None => allocs[a].pool # p]_ownershipVars
  <2> SUFFICES ASSUME OwnershipInv, OwnershipNext, NEW p \in pools \ pools',
                      NEW a \in Allocations, allocs[a] # None
               PROVE  allocs[a].pool # p
    OBVIOUS
  <2>1. PICK v \in Values : DropPool(v)
    <3>1. ~AllocatorStep
      BY AllocatorStepShares DEF poolVars
    <3>2. ~AllocationStep /\ ~DefragmentationStep
      BY DEF AllocationStep, DefragmentationStep, DrawFromAllocator, DrawFromPool, Draw,
             AllocateMemory, CreateObject, BindMemory, vkDestroy, SetAllocationUserData,
             FreeMemory, DestroyObject, BeginDefragmentation, CallMover, MoverReturns,
             MoverPanics, EndDefragmentation, DropContext, poolVars
    <3> QED BY <3>1, <3>2 DEF OwnershipNext, PoolStep, CreatePool, CreatePoolWithRef, DefaultPool,
               DefaultPoolWithRef, PoolIntoRawParts, PoolFromRawParts, DropPoolFields
  <2>2. p = value[v].pool /\ p # Null
    BY <2>1, OwnershipAssumption DEF DropPool, OwnershipInv, PoolType
  <2>3. made[a] # None /\ allocs[a] = made[a]
    BY DEF OwnershipInv, AllocationsInv
  <2> QED BY <2>1, <2>2, <2>3 DEF DropPool, MayDropPool
<1> QED BY <1>1, OwnershipInvariant, PTL DEF OwnershipSpec, PoolsDieEmpty
=============================================================================
