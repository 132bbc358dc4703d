---------------------------- MODULE ResourceStore ----------------------------
(***************************************************************************)
(* What the managed allocator promises its client: a store of resources    *)
(* that live while somebody holds a handle and nobody freed them, and      *)
(* whose content changes only when the client writes it.  Memory, passes,  *)
(* moves and the GPU do not appear: defragmenting is a stuttering step.    *)
(***************************************************************************)
EXTENDS Naturals

CONSTANTS Ids, Data, Undefined

VARIABLES
  live,     \* live[i]: resource i can be used
  users,    \* users[i]: handles to resource i
  content   \* content[i]: what a reader of i finds, Undefined if nothing is promised

storeVars == <<live, users, content>>

Init ==
  /\ live = [i \in Ids |-> FALSE]
  /\ users = [i \in Ids |-> 0]
  /\ content = [i \in Ids |-> Undefined]

Create(i) ==
  /\ ~live[i] /\ users[i] = 0
  /\ live' = [live EXCEPT ![i] = TRUE]
  /\ users' = [users EXCEPT ![i] = 1]
  /\ UNCHANGED content

Clone(i) ==
  /\ users[i] > 0
  /\ users' = [users EXCEPT ![i] = @ + 1]
  /\ UNCHANGED <<live, content>>

Write(i, d) ==
  /\ live[i]
  /\ content' = [content EXCEPT ![i] = d]
  /\ UNCHANGED <<live, users>>

Free(i) ==
  /\ users[i] > 0
  /\ live[i]
  /\ live' = [live EXCEPT ![i] = FALSE]
  /\ content' = [content EXCEPT ![i] = Undefined]
  /\ UNCHANGED users

(* The last handle takes the resource with it.                             *)
Drop(i) ==
  /\ users[i] > 0
  /\ users' = [users EXCEPT ![i] = @ - 1]
  /\ IF users[i] = 1
     THEN /\ live' = [live EXCEPT ![i] = FALSE]
          /\ content' = [content EXCEPT ![i] = Undefined]
     ELSE UNCHANGED <<live, content>>

Next == \E i \in Ids :
  \/ Create(i) \/ Clone(i) \/ Free(i) \/ Drop(i)
  \/ \E d \in Data : Write(i, d)

Spec == Init /\ [][Next]_storeVars
=============================================================================
