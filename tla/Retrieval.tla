------------------------------ MODULE Retrieval ------------------------------
(***************************************************************************)
(* Whom a node asks for a file it does not hold: retrievalTargets of       *)
(* storage/retrieval.ts, against the holders that placement and repair     *)
(* leave behind while the network changes.                                 *)
(*                                                                         *)
(* Nodes are numbered by their place in the rendezvous ranking of one file *)
(* (storage/placement.ts); any subset of them may be the network, so every *)
(* ranking of every network of that size is covered.                       *)
(***************************************************************************)
EXTENDS Naturals, FiniteSets, FiniteSetsExt

CONSTANTS Places,     \* highest place in the ranking
          Copies,     \* the numbers of copies the age tiers ask for
          Widening,   \* RETRIEVAL_WIDENING
          MaxJoins    \* bound: nodes that join between two placements

ASSUME RetrievalAssumption ==
  /\ Places \in Nat \ {0} /\ {Widening, MaxJoins} \subseteq Nat
  /\ Copies \subseteq Nat \ {0} /\ \E w \in Copies : \A c \in Copies : c <= w

AllNodes == 1..Places

VARIABLES network,  \* nodes every list names
          placed,   \* nodes that hold the file since it was placed last
          wanted,   \* what the age of the file asks for now
          joined    \* nodes that joined since the file was placed last

retrievalVars == <<network, placed, wanted, joined>>

\* rankHolders, and a prefix of it: the nodes of N with fewer than k before them.
before(N, n) == {m \in N : m < n}
top(N, k) == {n \in N : Cardinality(before(N, n)) < k}

\* Mutant: the holders are computed for the age that asks for fewest.
narrowest == Min(Copies)

widest == Max(Copies)

\* retrievalTargets: the asking node takes part in the ranking.
retrievalTargets(n) == top(network, widest + Widening) \ {n}

-----------------------------------------------------------------------------
\* The node that took an upload may hold it too until it hands over; those
\* copies come on top and are left out.
RetrievalInit == /\ network \in SUBSET AllNodes /\ network # {}
                 /\ wanted \in Copies
                 /\ joined = 0
                 /\ placed = top(network, wanted)

\* The file reaches another age tier.
Age == /\ wanted' \in Copies
       /\ UNCHANGED <<network, placed, joined>>

\* Repair and handover have run: the holders are those of today.
Place == /\ placed # {}
         /\ placed' = top(network, wanted)
         /\ joined' = 0
         /\ UNCHANGED <<network, wanted>>

\* A holder loses its copy.
Lose(n) == /\ placed' = placed \ {n}
           /\ UNCHANGED <<network, wanted, joined>>

\* An operator adds a node to the lists, or takes one out with its copy.
Join(n) == /\ joined < MaxJoins
           /\ network' = network \cup {n}
           /\ joined' = joined + 1
           /\ UNCHANGED <<placed, wanted>>

Leave(n) == /\ network # {n}
            /\ network' = network \ {n}
            /\ placed' = placed \ {n}
            /\ UNCHANGED <<wanted, joined>>

RetrievalNext == \/ Age \/ Place
                 \/ \E n \in placed : Lose(n)
                 \/ \E n \in AllNodes \ network : Join(n)
                 \/ \E n \in network : Leave(n)

RetrievalSpec == RetrievalInit /\ [][RetrievalNext]_retrievalVars

-----------------------------------------------------------------------------
(* Properties                                                              *)

RetrievalTypeOK == /\ network \subseteq AllNodes /\ placed \subseteq network
                   /\ wanted \in Copies
                   /\ joined \in 0..MaxJoins

\* retrieval.ts 27-38: a node that does not know the age of a file
\* asks every node that has it, also while up to two nodes have joined that
\* the last placement did not know.
HoldersAsked ==
  joined <= Widening =>
    \A n \in network \ placed : placed \subseteq retrievalTargets(n)
=============================================================================
