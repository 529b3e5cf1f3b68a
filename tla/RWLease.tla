------------------------------ MODULE RWLease ------------------------------
(***************************************************************************)
(* What the storage lease promises to its clients, whatever queue is used  *)
(* to grant it: intake and pin operations (readers) may overlap each       *)
(* other, a collection (writer) overlaps nothing, and a lease is given up  *)
(* by its holder only.  A release may hand the lease to waiting clients in *)
(* the same step.                                                          *)
(***************************************************************************)
CONSTANT Clients

VARIABLES sharing,    \* clients that hold a shared lease
          collecting  \* clients that hold the exclusive lease

vars == <<sharing, collecting>>

Init == sharing = {} /\ collecting = {}

\* Free lease, or shared already: some clients start sharing.
Admit == \E S \in (SUBSET Clients) \ {{}} :
           /\ collecting = {}
           /\ sharing' = sharing \cup S
           /\ UNCHANGED collecting

\* Nobody holds the lease: one client gets it alone.
Seize == \E c \in Clients :
           /\ sharing = {} /\ collecting = {}
           /\ collecting' = {c}
           /\ UNCHANGED sharing

\* A holder leaves; whoever comes next finds the lease free.
Leave == \E c \in sharing \cup collecting :
           LET s == sharing \ {c}
               x == collecting \ {c} IN
           \/ sharing' = s /\ collecting' = x
           \/ /\ s = {} /\ x = {}
              /\ \/ \E S \in (SUBSET Clients) \ {{}} : sharing' = S /\ collecting' = {}
                 \/ \E d \in Clients : sharing' = {} /\ collecting' = {d}

Next == Admit \/ Seize \/ Leave

Spec == Init /\ [][Next]_vars
=============================================================================
