------------------------------ MODULE CidMutex ------------------------------
(***************************************************************************)
(* What FileRegistry.withExclusiveCids promises to the code that runs      *)
(* inside it: an operation gets all its CIDs in one step, owns them alone, *)
(* and gives them all up in one step.  FileLifecycle relies on this.       *)
(***************************************************************************)
CONSTANTS Ops, Cids

VARIABLE owned   \* per operation: the CIDs it works on

Init == owned = [o \in Ops |-> {}]

Take(o) == \E S \in (SUBSET Cids) \ {{}} :
             /\ owned[o] = {}
             /\ \A p \in Ops : owned[p] \cap S = {}
             /\ owned' = [owned EXCEPT ![o] = S]

Drop(o) == owned[o] # {} /\ owned' = [owned EXCEPT ![o] = {}]

Next == \E o \in Ops : Take(o) \/ Drop(o)

Spec == Init /\ [][Next]_owned
=============================================================================
