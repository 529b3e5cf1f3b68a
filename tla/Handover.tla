------------------------------ MODULE Handover ------------------------------
(***************************************************************************)
(* Several nodes place, repair, hand over and rescue the copies of one     *)
(* file: placement.ts, and replicateFile, repairReplication,               *)
(* rescueOrphanedFiles, demoteReleasableCopies and hasDurableReplica of    *)
(* storage/service.ts.                                                     *)
(*                                                                         *)
(* No node locks anything on another one.  A node that wants to give up    *)
(* its copy asks the holders it computes, and the answers are old by the   *)
(* time the last one is in.  Each node computes holders from its own node  *)
(* list and from the age of its own record, which starts when the copy     *)
(* came to that node.                                                      *)
(*                                                                         *)
(* What a single node does to its record and pin is FileLifecycle's; here  *)
(* a node holds the file durably, has released it, or has no record.       *)
(***************************************************************************)
EXTENDS Naturals, FiniteSets

CONSTANTS Nodes,
          View,      \* View[n]: the nodes n is configured with, and n itself
          Score,     \* Score[n]: score(n, cid), the same wherever it is computed
          CopiesAt,  \* CopiesAt[a]: copiesForAge of the placement tiers
          MaxTime, MaxLosses  \* bounds

ASSUME NodesAssumption ==
  /\ IsFiniteSet(Nodes)
  /\ View \in [Nodes -> SUBSET Nodes] /\ \A n \in Nodes : n \in View[n]
  /\ Score \in [Nodes -> Nat]
  /\ \A n, m \in Nodes : Score[n] = Score[m] => n = m
ASSUME TiersAssumption ==
  /\ MaxTime \in Nat /\ MaxLosses \in Nat
  /\ CopiesAt \in [0..MaxTime -> Nat \ {0}]

VARIABLES now,
          record,     \* "none", "held" (confirmed and pinned) or "released"
          createdAt,  \* of the record of each node
          blocks,     \* the whole DAG is in the blockstore of the node
          pass,       \* the handover or the rescue a node is busy with
          losses      \* disks lost so far

vars == <<now, record, createdAt, blocks, pass, losses>>

\* asked: probes not answered yet; confirmed: probes answered with yes.
Idle == [kind |-> "none", asked |-> {}, confirmed |-> {}]
Passes == [kind : {"none", "demote", "rescue"}, asked : SUBSET Nodes,
           confirmed : SUBSET Nodes]

Held == {n \in Nodes : record[n] = "held"}

\* The file has been uploaded to one node.
Init == /\ now = 0
        /\ \E o \in Nodes :
             /\ record = [n \in Nodes |-> IF n = o THEN "held" ELSE "none"]
             /\ blocks = [n \in Nodes |-> n = o]
        /\ createdAt = [n \in Nodes |-> 0]
        /\ pass = [n \in Nodes |-> Idle]
        /\ losses = 0

-----------------------------------------------------------------------------
(* placement.ts *)

\* rankHolders(...).slice(0, k)
Best(S, k) == {m \in S : Cardinality({x \in S : Score[x] > Score[m]}) < k}

age(n) == now - createdAt[n]
desiredCopies(n) == CopiesAt[age(n)]
copies(n) == IF desiredCopies(n) <= Cardinality(View[n])
               THEN desiredCopies(n) ELSE Cardinality(View[n])

\* Mutant: the node leaves itself out of the candidates.
holdersAmongPeers(n) == Best(View[n] \ {n}, copies(n))

\* placeFile(...).holders
holders(n) == Best(View[n], copies(n))

storageTargets(n) == holders(n) \ {n}

mayDemote(n) == /\ Cardinality(View[n]) > desiredCopies(n)   \* ~networkTooSmall
                /\ n \notin holders(n)

-----------------------------------------------------------------------------
(* Handover *)

\* A confirmed, settled copy that may be demoted: every designated holder is
\* asked at once.
BeginDemotion(n) ==
  /\ record[n] = "held" /\ pass[n] = Idle
  /\ mayDemote(n)
  /\ Cardinality(storageTargets(n)) >= copies(n)
  /\ pass' = [pass EXCEPT ![n] = [Idle EXCEPT !.kind = "demote",
                                               !.asked = storageTargets(n)]]
  /\ UNCHANGED <<now, record, createdAt, blocks, losses>>

\* A released copy: is any designated holder left?
BeginRescue(n) ==
  /\ record[n] = "released" /\ pass[n] = Idle
  /\ pass' = [pass EXCEPT ![n] = [Idle EXCEPT !.kind = "rescue",
                                               !.asked = storageTargets(n)]]
  /\ UNCHANGED <<now, record, createdAt, blocks, losses>>

\* m answers with hasDurableReplica.  For a rescue one holder is enough.
ProbeYes(n, m) ==
  /\ m \in pass[n].asked
  /\ record[m] = "held"
  /\ pass' = [pass EXCEPT ![n] = IF pass[n].kind = "rescue" THEN Idle
                                 ELSE [pass[n] EXCEPT !.asked = @ \ {m},
                                                      !.confirmed = @ \cup {m}]]
  /\ UNCHANGED <<now, record, createdAt, blocks, losses>>

\* Mutant: a handover goes on without the holders that do not confirm.
ProbeNoIgnored(n, m) ==
  /\ m \in pass[n].asked
  /\ pass' = [pass EXCEPT ![n].asked = @ \ {m}]
  /\ UNCHANGED <<now, record, createdAt, blocks, losses>>

\* m answers no, or the probe fails although m holds the file: a handover keeps
\* the copy, a rescue asks on.
ProbeNo(n, m) ==
  /\ m \in pass[n].asked
  /\ pass' = [pass EXCEPT ![n] = IF pass[n].kind = "demote" THEN Idle
                                 ELSE [pass[n] EXCEPT !.asked = @ \ {m}]]
  /\ UNCHANGED <<now, record, createdAt, blocks, losses>>

Answered(n, kind) == pass[n].kind = kind /\ pass[n].asked = {}

\* Every holder has confirmed: the copy is unpinned and saved as released,
\* unless the record has been revised meanwhile or the save fails.
Demote(n) ==
  /\ Answered(n, "demote")
  /\ pass' = [pass EXCEPT ![n] = Idle]
  /\ \/ record' = [record EXCEPT ![n] = "released"]
     \/ UNCHANGED record
  /\ UNCHANGED <<now, createdAt, blocks, losses>>

\* Nobody was found holding the file: pinned again, if the DAG is still here.
Rescue(n) ==
  /\ Answered(n, "rescue")
  /\ pass' = [pass EXCEPT ![n] = Idle]
  /\ record' = IF record[n] = "released" /\ blocks[n]
                 THEN [record EXCEPT ![n] = "held"] ELSE record
  /\ UNCHANGED <<now, createdAt, blocks, losses>>

-----------------------------------------------------------------------------
(* Repair *)

\* Mutant: one live holder is enough for a record to count as replicated.
isUnderReplicatedAtAll(n) == storageTargets(n) \cap Held = {}

isUnderReplicated(n) == ~(storageTargets(n) \subseteq Held)

\* n, a holder, asks m to store the file; m accepts it from nodes it knows,
\* pulls the DAG and registers it under the age it already has, if any.
Repair(n, m) ==
  /\ record[n] = "held" /\ isUnderReplicated(n)
  /\ m \in storageTargets(n) /\ record[m] # "held"
  /\ n \in View[m]
  /\ record' = [record EXCEPT ![m] = "held"]
  /\ createdAt' = [createdAt EXCEPT ![m] = IF record[m] = "none" THEN now ELSE @]
  /\ blocks' = [blocks EXCEPT ![m] = TRUE]
  /\ UNCHANGED <<now, pass, losses>>

-----------------------------------------------------------------------------
(* Environment *)

\* A collection removes what is no longer pinned.
Collect(n) ==
  /\ record[n] = "released" /\ blocks[n]
  /\ blocks' = [blocks EXCEPT ![n] = FALSE]
  /\ UNCHANGED <<now, record, createdAt, pass, losses>>

\* A node comes back with an empty disk.
LoseDisk(n) ==
  /\ losses < MaxLosses
  /\ record[n] # "none"
  /\ losses' = losses + 1
  /\ record' = [record EXCEPT ![n] = "none"]
  /\ blocks' = [blocks EXCEPT ![n] = FALSE]
  /\ pass' = [pass EXCEPT ![n] = Idle]
  /\ UNCHANGED <<now, createdAt>>

Tick == /\ now < MaxTime
        /\ now' = now + 1
        /\ UNCHANGED <<record, createdAt, blocks, pass, losses>>

Next == \/ \E n \in Nodes : \/ BeginDemotion(n) \/ Demote(n)
                            \/ BeginRescue(n) \/ Rescue(n)
                            \/ Collect(n) \/ LoseDisk(n)
                            \/ \E m \in Nodes : \/ ProbeYes(n, m) \/ ProbeNo(n, m)
                                                \/ Repair(n, m)
        \/ Tick

\* Repair passes run for ever, and every probe and every pass comes to an end.
\* Nothing makes a collection or a handover happen.
Fairness ==
  \A n \in Nodes :
    /\ WF_vars(\/ BeginRescue(n) \/ Rescue(n) \/ Demote(n)
               \/ \E m \in Nodes : ProbeYes(n, m) \/ ProbeNo(n, m))
    /\ WF_vars(\E m \in Nodes : Repair(n, m))

Spec == Init /\ [][Next]_vars /\ Fairness

-----------------------------------------------------------------------------
TypeOK == /\ now \in 0..MaxTime
          /\ record \in [Nodes -> {"none", "held", "released"}]
          /\ createdAt \in [Nodes -> 0..now]
          /\ blocks \in [Nodes -> BOOLEAN]
          /\ pass \in [Nodes -> Passes]
          /\ losses \in 0..MaxLosses

\* Nodes that hand over at the same time, on old answers and with different
\* node lists and ages, never give up the last copy: as long as no disk is lost
\* somebody holds the file.
LastCopyKept == losses = 0 => Held # {}

\* What the check of the configuration and its documentation ask for.
TiersShrink == \A a, b \in 0..MaxTime : a <= b => CopiesAt[b] <= CopiesAt[a]
OneNodeList == \A n \in Nodes : View[n] = Nodes

\* With one node list everywhere, a handover leaves the file at least where the
\* policy for its real age wants it.
HandoverKeepsPolicy ==
  [][\A n \in Nodes : record[n] = "held" /\ record'[n] = "released"
       => losses > 0 \/ Best(Nodes, CopiesAt[now]) \subseteq Held]_vars

\* When the last holder has lost its disk, a node that released the file and
\* still has the blocks takes it back, unless a collection was faster.
OrphanRescued ==
  (Held = {} /\ \E n \in Nodes : record[n] = "released" /\ blocks[n])
     ~> (Held # {} \/ \A n \in Nodes : ~blocks[n])

\* With one node list everywhere, the file gets to the nodes the policy names
\* and stays there, if it is not lost altogether.
PolicyReached == <>[](Held = {} \/ Best(Nodes, CopiesAt[now]) \subseteq Held)

\* What storage-lifecycle.md:419 says: "The designated set is identical on
\* every node, and a designated holder never considers releasing."
DesignatedNeverReleases ==
  [][\A n \in Nodes : record[n] = "held" /\ record'[n] = "released"
       => \A m \in Held : n \notin holders(m)]_vars
=============================================================================
