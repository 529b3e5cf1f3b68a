-------------------------- MODULE PlacementProofs ---------------------------
(***************************************************************************)
(* Proofs about where copies are: the last one is never given up, what is  *)
(* given up leaves the policy satisfied, a node without the file asks      *)
(* every node that has it, the sweep that hands copies over reaches every  *)
(* file, and only whole messages count between the nodes.                  *)
(***************************************************************************)
EXTENDS Handover, Retrieval, SweepCursor, FramedExchange,
        FiniteSetTheorems, WellFoundedInduction, NaturalsInduction, TLAPS

(***************************************************************************)
(* The last copy is never given up, for every finite set of nodes, every   *)
(* configuration of node lists, every score without ties and every age     *)
(* policy.  The argument is not that the nodes agree on the holders, which *)
(* they need not: a node hands over only to nodes of a higher score, so    *)
(* the holder with the highest score never has anybody to hand over to.    *)
(***************************************************************************)

\* The node that answered may have handed its copy over since, but then
\* somebody with at least its score holds the file.
HeldAtOrAbove(rec, m) == \E k \in Nodes : rec[k] = "held" /\ Score[k] >= Score[m]

\* Whom a handover asks, and what its answers are still worth.
UpwardPass(n, p, rec, lost) ==
  p.kind = "demote" =>
    /\ p.asked \cup p.confirmed # {}
    /\ \A m \in p.asked \cup p.confirmed : Score[m] > Score[n]
    /\ lost = 0 => \A m \in p.confirmed : HeldAtOrAbove(rec, m)

IInv == /\ TypeOK
        /\ LastCopyKept
        /\ \A n \in Nodes : UpwardPass(n, pass[n], record, losses)

-----------------------------------------------------------------------------
\* The sizes of the sets that placement compares.
LEMMA ViewFinite ==
  ASSUME NEW n \in Nodes
  PROVE  /\ IsFiniteSet(View[n]) /\ Cardinality(View[n]) \in Nat
         /\ \A S \in SUBSET View[n] : IsFiniteSet(S) /\ Cardinality(S) \in Nat
<1>1. View[n] \subseteq Nodes
  BY NodesAssumption
<1>2. IsFiniteSet(View[n])
  BY <1>1, NodesAssumption, FS_Subset
<1> QED BY <1>2, FS_Subset, FS_CardinalityType

\* A node that ranks below the best k of a set ranks below each of them.
LEMMA BestRankAbove ==
  ASSUME NEW n \in Nodes, NEW k \in Nat, n \notin Best(View[n], k),
         NEW m \in Best(View[n], k)
  PROVE  m \in Nodes /\ Score[m] > Score[n]
<1> DEFINE Above(x) == {y \in View[n] : Score[y] > Score[x]}
<1>1. m \in View[n] /\ n \in View[n] /\ m \in Nodes
  BY NodesAssumption DEF Best
<1>2. Cardinality(Above(m)) < k /\ ~(Cardinality(Above(n)) < k)
  BY <1>1 DEF Best
<1>3. \A x \in View[n] : IsFiniteSet(Above(x)) /\ Cardinality(Above(x)) \in Nat
  BY ViewFinite
<1>4. View[n] \subseteq Nodes /\ \A x \in Nodes : Score[x] \in Nat
  BY NodesAssumption
<1>5. ASSUME ~(Score[m] > Score[n])
      PROVE  FALSE
  <2>1. Above(n) \subseteq Above(m)
    BY <1>1, <1>4, <1>5
  <2>2. Cardinality(Above(n)) <= Cardinality(Above(m))
    BY <1>1, <1>3, <2>1, FS_Subset
  <2>3. Cardinality(Above(n)) \in Nat /\ Cardinality(Above(m)) \in Nat
    BY <1>1, <1>3
  <2> HIDE DEF Above
  <2> QED BY <1>2, <2>2, <2>3
<1> QED BY <1>1, <1>5

\* Ages and numbers of copies stay within the policy.
LEMMA CopiesType ==
  ASSUME TypeOK, NEW n \in Nodes
  PROVE  copies(n) \in Nat \ {0}
<1>1. age(n) \in 0..MaxTime
  BY TiersAssumption DEF TypeOK, age
<1>2. desiredCopies(n) \in Nat \ {0}
  BY <1>1, TiersAssumption DEF desiredCopies
<1>3. Cardinality(View[n]) \in Nat
  BY ViewFinite
<1>4. Cardinality(View[n]) # 0
  BY ViewFinite, FS_EmptySet, NodesAssumption
<1> QED BY <1>2, <1>3, <1>4 DEF copies

-----------------------------------------------------------------------------
\* A pass of another kind asks nothing of the invariant.
LEMMA IdlePass ==
  ASSUME NEW n, NEW rec, NEW lost
  PROVE  UpwardPass(n, Idle, rec, lost)
BY DEF UpwardPass, Idle

\* If nobody stops holding the file, the passes of the other nodes are worth
\* what they were.
LEMMA PassesKept ==
  ASSUME NEW n \in Nodes, NEW p, UpwardPass(n, p, record, losses),
         NEW rec, NEW lost, lost = 0 => losses = 0,
         \A k \in Nodes : record[k] = "held" /\ lost = 0 => rec[k] = "held"
  PROVE  UpwardPass(n, p, rec, lost)
BY DEF UpwardPass, HeldAtOrAbove

LEMMA InitIInv == Init => IInv
<1> SUFFICES ASSUME Init PROVE IInv
  OBVIOUS
<1>1. PICK o \in Nodes : /\ record = [n \in Nodes |-> IF n = o THEN "held" ELSE "none"]
                         /\ blocks = [n \in Nodes |-> n = o]
  BY DEF Init
<1>2. TypeOK
  BY <1>1, TiersAssumption DEF Init, TypeOK, Passes, Idle
<1>3. LastCopyKept
  BY <1>1 DEF LastCopyKept, Held
<1>4. \A n \in Nodes : UpwardPass(n, pass[n], record, losses)
  BY IdlePass DEF Init
<1> QED BY <1>2, <1>3, <1>4 DEF IInv

LEMMA TypeStep == TypeOK /\ [Next]_vars => TypeOK'
<1> SUFFICES ASSUME TypeOK, [Next]_vars PROVE TypeOK'
  OBVIOUS
<1> USE TiersAssumption
<1>1. \A n \in Nodes : storageTargets(n) \in SUBSET Nodes
  BY NodesAssumption DEF storageTargets, holders, Best
<1>2. ASSUME NEW n \in Nodes, BeginDemotion(n) \/ BeginRescue(n)
      PROVE  TypeOK'
  <2>1. \A k \in {"demote", "rescue"} :
          [Idle EXCEPT !.kind = k, !.asked = storageTargets(n)] \in Passes
    BY <1>1 DEF Passes, Idle
  <2>2. pass' \in [Nodes -> Passes]
    <3>1. CASE BeginDemotion(n)
      BY <2>1, <3>1 DEF BeginDemotion, TypeOK
    <3>2. CASE BeginRescue(n)
      BY <2>1, <3>2 DEF BeginRescue, TypeOK
    <3> QED BY <1>2, <3>1, <3>2
  <2> QED BY <1>2, <2>2 DEF BeginDemotion, BeginRescue, TypeOK
<1>3. ASSUME NEW n \in Nodes, NEW m \in Nodes, ProbeYes(n, m) \/ ProbeNo(n, m)
      PROVE  TypeOK'
  <2>1. pass[n] \in Passes
    BY DEF TypeOK
  <2>2. Idle \in Passes /\ [pass[n] EXCEPT !.asked = @ \ {m}] \in Passes
        /\ [pass[n] EXCEPT !.asked = @ \ {m}, !.confirmed = @ \cup {m}] \in Passes
    BY <2>1 DEF Passes, Idle
  <2>3. pass' \in [Nodes -> Passes]
    <3>1. CASE ProbeYes(n, m)
      BY <2>2, <3>1 DEF ProbeYes, TypeOK
    <3>2. CASE ProbeNo(n, m)
      BY <2>2, <3>2 DEF ProbeNo, TypeOK
    <3> QED BY <1>3, <3>1, <3>2
  <2> QED BY <1>3, <2>3 DEF ProbeYes, ProbeNo, TypeOK
<1>4. ASSUME NEW n \in Nodes, Demote(n) \/ Rescue(n) \/ Collect(n) \/ LoseDisk(n)
      PROVE  TypeOK'
  <2>1. Idle \in Passes
    BY DEF Passes, Idle
  <2>2. CASE Demote(n)
    BY <2>1, <2>2 DEF Demote, TypeOK
  <2>3. CASE Rescue(n)
    BY <2>1, <2>3 DEF Rescue, TypeOK
  <2>4. CASE Collect(n)
    BY <2>4 DEF Collect, TypeOK
  <2>5. CASE LoseDisk(n)
    BY <2>1, <2>5 DEF LoseDisk, TypeOK
  <2> QED BY <1>4, <2>2, <2>3, <2>4, <2>5
<1>5. ASSUME NEW n \in Nodes, NEW m \in Nodes, Repair(n, m)
      PROVE  TypeOK'
  BY <1>5 DEF Repair, TypeOK
<1>6. CASE Tick
  BY <1>6 DEF Tick, TypeOK
<1>7. CASE UNCHANGED vars
  BY <1>7 DEF vars, TypeOK
<1> QED BY <1>2, <1>3, <1>4, <1>5, <1>6, <1>7 DEF Next

\* Every step keeps the invariant.  Only Demote gives up a copy, and what its
\* answers are worth is a holder of a higher score.
LEMMA NextIInv == IInv /\ [Next]_vars => IInv'
<1> SUFFICES ASSUME IInv, [Next]_vars PROVE IInv'
  OBVIOUS
<1>1. TypeOK /\ TypeOK'
  BY TypeStep DEF IInv
<1>2. LastCopyKept /\ \A n \in Nodes : UpwardPass(n, pass[n], record, losses)
  BY DEF IInv
<1> DEFINE Passing == \A n \in Nodes : UpwardPass(n, pass'[n], record', losses')
<1>3. ASSUME NEW n \in Nodes, BeginDemotion(n)
      PROVE  LastCopyKept' /\ Passing
  <2>1. /\ pass' = [pass EXCEPT ![n] = [Idle EXCEPT !.kind = "demote", !.asked = storageTargets(n)]]
        /\ record' = record /\ losses' = losses
    BY <1>3 DEF BeginDemotion
  <2>2. copies(n) \in Nat \ {0}
    BY <1>1, CopiesType
  <2>3. storageTargets(n) # {}
    BY <1>3, <2>2, FS_EmptySet DEF BeginDemotion
  <2>4. \A m \in storageTargets(n) : Score[m] > Score[n]
    BY <1>3, <2>2, BestRankAbove DEF BeginDemotion, mayDemote, storageTargets, holders
  <2>5. UpwardPass(n, pass'[n], record', losses')
    BY <1>1, <2>1, <2>3, <2>4 DEF UpwardPass, Idle, TypeOK
  <2>6. \A k \in Nodes : k # n => pass'[k] = pass[k]
    BY <1>1, <2>1 DEF TypeOK
  <2> QED BY <1>2, <2>1, <2>5, <2>6 DEF LastCopyKept, Held
<1>4. ASSUME NEW n \in Nodes, NEW m \in Nodes, ProbeYes(n, m)
      PROVE  LastCopyKept' /\ Passing
  <2>1. record' = record /\ losses' = losses /\ record[m] = "held" /\ m \in pass[n].asked
    BY <1>4 DEF ProbeYes
  <2>2. \A k \in Nodes : k # n => pass'[k] = pass[k]
    BY <1>1, <1>4 DEF ProbeYes, TypeOK
  <2>3. HeldAtOrAbove(record, m)
    BY <2>1, NodesAssumption DEF HeldAtOrAbove
  <2>4. UpwardPass(n, pass'[n], record', losses')
    <3>1. CASE pass[n].kind = "rescue"
      <4>1. pass'[n] = Idle
        BY <1>1, <1>4, <3>1 DEF ProbeYes, TypeOK
      <4> QED BY <4>1, IdlePass
    <3>2. CASE pass[n].kind # "rescue"
      <4>1. pass'[n] = [pass[n] EXCEPT !.asked = @ \ {m}, !.confirmed = @ \cup {m}]
        BY <1>1, <1>4, <3>2 DEF ProbeYes, TypeOK
      <4>2. pass[n] \in Passes
        BY <1>1 DEF TypeOK
      <4>3. /\ pass'[n].kind = pass[n].kind
            /\ pass'[n].asked = pass[n].asked \ {m}
            /\ pass'[n].confirmed = pass[n].confirmed \cup {m}
        BY <4>1, <4>2 DEF Passes
      <4>4. UpwardPass(n, pass[n], record, losses)
        BY <1>2
      <4> QED BY <2>1, <2>3, <4>3, <4>4 DEF UpwardPass
    <3> QED BY <3>1, <3>2
  <2> QED BY <1>2, <2>1, <2>2, <2>4 DEF LastCopyKept, Held
<1>5. ASSUME NEW n \in Nodes, NEW m \in Nodes, ProbeNo(n, m)
      PROVE  LastCopyKept' /\ Passing
  <2>1. record' = record /\ losses' = losses
    BY <1>5 DEF ProbeNo
  <2>2. \A k \in Nodes : k # n => pass'[k] = pass[k]
    BY <1>1, <1>5 DEF ProbeNo, TypeOK
  <2>3. UpwardPass(n, pass'[n], record', losses')
    <3>1. CASE pass[n].kind = "demote"
      <4>1. pass'[n] = Idle
        BY <1>1, <1>5, <3>1 DEF ProbeNo, TypeOK
      <4> QED BY <4>1, IdlePass
    <3>2. CASE pass[n].kind # "demote"
      <4>1. pass'[n].kind = pass[n].kind
        BY <1>1, <1>5, <3>2 DEF ProbeNo, TypeOK, Passes
      <4> QED BY <3>2, <4>1 DEF UpwardPass
    <3> QED BY <3>1, <3>2
  <2> QED BY <1>2, <2>1, <2>2, <2>3 DEF LastCopyKept, Held
<1>6. ASSUME NEW n \in Nodes, Demote(n)
      PROVE  LastCopyKept' /\ Passing
  <2>1. /\ losses' = losses
        /\ pass' = [pass EXCEPT ![n] = Idle]
        /\ pass[n].kind = "demote" /\ pass[n].asked = {}
        /\ record' = [record EXCEPT ![n] = "released"] \/ record' = record
    BY <1>6 DEF Demote, Answered
  <2>2. UpwardPass(n, pass[n], record, losses)
    BY <1>2
  <2>3. \A k \in Nodes : k # n /\ record[k] = "held" => record'[k] = "held"
    BY <1>1, <2>1 DEF TypeOK
  \* Whoever vouches for a score at or above n's still does, n included:
  \* its own answers name a holder above it.
  <2>4. ASSUME losses = 0, NEW m \in Nodes, HeldAtOrAbove(record, m)
        PROVE  HeldAtOrAbove(record', m)
    <3>1. PICK k \in Nodes : record[k] = "held" /\ Score[k] >= Score[m]
      BY <2>4 DEF HeldAtOrAbove
    <3>2. CASE k # n
      BY <2>3, <3>1, <3>2 DEF HeldAtOrAbove
    <3>3. CASE k = n
      <4>1. PICK c \in pass[n].confirmed : Score[c] > Score[n] /\ HeldAtOrAbove(record, c)
        BY <2>1, <2>2, <2>4 DEF UpwardPass
      <4>2. PICK h \in Nodes : record[h] = "held" /\ Score[h] >= Score[c]
        BY <4>1 DEF HeldAtOrAbove
      <4>3. c \in Nodes
        BY <1>1, <4>1 DEF TypeOK, Passes
      <4>4. {Score[h], Score[c], Score[n], Score[m]} \subseteq Nat
        BY <4>3, NodesAssumption
      <4>5. h # n /\ Score[h] >= Score[m]
        BY <3>1, <3>3, <4>1, <4>2, <4>4
      <4> QED BY <2>3, <4>2, <4>5 DEF HeldAtOrAbove
    <3> QED BY <3>2, <3>3
  <2>5. LastCopyKept'
    <3>1. ASSUME losses = 0 PROVE \E k \in Nodes : record'[k] = "held"
      <4>1. PICK h \in Nodes : record[h] = "held"
        BY <1>2, <3>1 DEF LastCopyKept, Held
      <4>2. HeldAtOrAbove(record, h)
        BY <4>1, NodesAssumption DEF HeldAtOrAbove
      <4> QED BY <2>4, <3>1, <4>2 DEF HeldAtOrAbove
    <3> QED BY <2>1, <3>1 DEF LastCopyKept, Held
  <2>6. ASSUME NEW k \in Nodes PROVE UpwardPass(k, pass'[k], record', losses')
    <3>1. CASE k = n
      <4>1. pass'[k] = Idle
        BY <1>1, <2>1, <3>1 DEF TypeOK
      <4> QED BY <4>1, IdlePass
    <3>2. CASE k # n
      <4>1. pass'[k] = pass[k] /\ pass[k].confirmed \subseteq Nodes
        BY <1>1, <2>1, <3>2 DEF TypeOK, Passes
      <4>2. UpwardPass(k, pass[k], record, losses)
        BY <1>2
      <4> QED BY <2>1, <2>4, <4>1, <4>2 DEF UpwardPass
    <3> QED BY <3>1, <3>2
  <2> QED BY <2>5, <2>6
<1>7. ASSUME NEW n \in Nodes, BeginRescue(n) \/ Rescue(n) \/ LoseDisk(n) \/ Collect(n)
      PROVE  LastCopyKept' /\ Passing
  <2>1. /\ losses' = 0 => losses = 0
        /\ \A k \in Nodes : record[k] = "held" /\ losses' = 0 => record'[k] = "held"
    <3>1. CASE LoseDisk(n)
      BY <1>1, <3>1 DEF LoseDisk, TypeOK
    <3>2. CASE BeginRescue(n) \/ Rescue(n) \/ Collect(n)
      BY <1>1, <3>2 DEF BeginRescue, Rescue, Collect, TypeOK
    <3> QED BY <1>7, <3>1, <3>2
  <2>2. \A k \in Nodes : pass'[k] = pass[k] \/ pass'[k].kind # "demote"
    <3>1. Idle.kind = "none" /\ [Idle EXCEPT !.kind = "rescue", !.asked = storageTargets(n)].kind = "rescue"
      BY DEF Idle
    <3>2. CASE BeginRescue(n)
      BY <1>1, <3>1, <3>2 DEF BeginRescue, TypeOK
    <3>3. CASE Rescue(n)
      BY <1>1, <3>1, <3>3 DEF Rescue, TypeOK
    <3>4. CASE LoseDisk(n)
      BY <1>1, <3>1, <3>4 DEF LoseDisk, TypeOK
    <3>5. CASE Collect(n)
      BY <3>5 DEF Collect
    <3> QED BY <1>7, <3>2, <3>3, <3>4, <3>5
  <2>3. ASSUME NEW k \in Nodes PROVE UpwardPass(k, pass'[k], record', losses')
    <3>1. CASE pass'[k] = pass[k]
      BY <1>2, <2>1, <3>1, PassesKept
    <3>2. CASE pass'[k].kind # "demote"
      BY <3>2 DEF UpwardPass
    <3> QED BY <2>2, <3>1, <3>2
  <2>4. LastCopyKept'
    BY <1>2, <2>1 DEF LastCopyKept, Held
  <2> QED BY <2>3, <2>4
<1>8. ASSUME NEW n \in Nodes, NEW m \in Nodes, Repair(n, m)
      PROVE  LastCopyKept' /\ Passing
  <2>1. /\ pass' = pass /\ losses' = losses
        /\ \A k \in Nodes : record[k] = "held" => record'[k] = "held"
    BY <1>1, <1>8 DEF Repair, TypeOK
  <2>2. Passing
    BY <1>2, <2>1, PassesKept
  <2> QED BY <1>2, <2>1, <2>2 DEF LastCopyKept, Held
<1>9. ASSUME Tick \/ UNCHANGED vars
      PROVE  LastCopyKept' /\ Passing
  <2>1. pass' = pass /\ losses' = losses /\ record' = record
    BY <1>9 DEF Tick, vars
  <2> QED BY <1>2, <2>1 DEF LastCopyKept, Held
<1>10. LastCopyKept' /\ Passing
  BY <1>3, <1>4, <1>5, <1>6, <1>7, <1>8, <1>9 DEF Next
<1> QED BY <1>1, <1>10 DEF IInv

-----------------------------------------------------------------------------
\* Types are kept, for every number of nodes.
THEOREM TypeCorrect == Spec => []TypeOK
<1>1. Init => TypeOK
  BY InitIInv DEF IInv
<1> QED BY <1>1, TypeStep, PTL DEF Spec

\* However the node lists and the ages differ, and however old the answers of
\* the probes are, demoteReleasableCopies never gives up the last copy.
THEOREM LastCopySafe == Spec => []LastCopyKept
<1>1. IInv => LastCopyKept
  BY DEF IInv
<1> QED BY <1>1, InitIInv, NextIInv, PTL DEF Spec

-----------------------------------------------------------------------------
(***************************************************************************)
(* A handover leaves the file where the policy for its age wants it: the   *)
(* nodes a pass waits for cover the policy, which asks for fewer copies    *)
(* only as the file grows older.                                           *)
(***************************************************************************)

\* What the policy for the age of the file asks for.
Wanted == Best(Nodes, CopiesAt[now])

\* Whom a handover has still to ask or has heard of covers the policy, and those of
\* the policy who confirmed still hold the file; the node itself is not among them.
PolicyPass(n, p) ==
  p.kind = "demote" => /\ n \notin Wanted
                       /\ Wanted \subseteq p.asked \cup p.confirmed
                       /\ losses = 0 => Wanted \cap p.confirmed \subseteq Held

PolicyInv == TypeOK /\ \A n \in Nodes : PolicyPass(n, pass[n])

LEMMA SmallerBest ==
  ASSUME NEW S, NEW j \in Nat, NEW k \in Nat, j <= k,
         \A m \in S : Cardinality({x \in S : Score[x] > Score[m]}) \in Nat
  PROVE  Best(S, j) \subseteq Best(S, k)
BY DEF Best

\* Nobody that the age of its own record designates is less than the policy wants.
LEMMA WantedFact ==
  ASSUME TypeOK, TiersShrink, OneNodeList, NEW n \in Nodes
  PROVE  /\ CopiesAt[now] \in Nat /\ desiredCopies(n) \in Nat
         /\ Wanted \subseteq Best(View[n], desiredCopies(n))
<1>1. /\ now \in 0..MaxTime /\ createdAt[n] \in 0..now /\ MaxTime \in Nat
      /\ CopiesAt \in [0..MaxTime -> Nat \ {0}]
  BY TiersAssumption DEF TypeOK
<1>2. age(n) \in 0..MaxTime /\ age(n) <= now
  BY <1>1 DEF age
<1>3. CopiesAt[now] \in Nat /\ CopiesAt[age(n)] \in Nat /\ CopiesAt[now] <= CopiesAt[age(n)]
  BY <1>1, <1>2 DEF TiersShrink
<1>4. \A m \in Nodes : Cardinality({x \in Nodes : Score[x] > Score[m]}) \in Nat
  BY NodesAssumption, FS_Subset, FS_CardinalityType
<1>5. Wanted \subseteq Best(Nodes, CopiesAt[age(n)])
  BY <1>3, <1>4, SmallerBest DEF Wanted
<1> QED
  BY <1>3, <1>5 DEF OneNodeList, desiredCopies

LEMMA PolicyStep ==
  ASSUME TiersShrink, OneNodeList, PolicyInv, [Next]_vars
  PROVE  PolicyInv'
<1>1. TypeOK /\ TypeOK' /\ \A n \in Nodes : PolicyPass(n, pass[n])
  BY TypeStep DEF PolicyInv
<1>2. Wanted' \subseteq Wanted
  <2>1. CASE Tick
    <3>1. now' = now + 1 /\ now \in 0..MaxTime /\ now' \in 0..MaxTime /\ MaxTime \in Nat
      BY <1>1, <2>1, TiersAssumption DEF Tick, TypeOK
    <3>2. CopiesAt[now'] \in Nat /\ CopiesAt[now] \in Nat /\ CopiesAt[now'] <= CopiesAt[now]
      BY <3>1, TiersAssumption DEF TiersShrink
    <3>3. \A m \in Nodes : Cardinality({x \in Nodes : Score[x] > Score[m]}) \in Nat
      BY NodesAssumption, FS_Subset, FS_CardinalityType
    <3> QED
      BY <3>2, <3>3, SmallerBest DEF Wanted
  <2>2. CASE now' = now
    BY <2>2 DEF Wanted
  <2> QED
    BY <2>1, <2>2 DEF Next, BeginDemotion, Demote, BeginRescue, Rescue, Collect, LoseDisk, ProbeYes,
       ProbeNo, Repair, vars
\* Nobody whom the policy wants is giving up its copy.
<1>3. losses' = 0 => losses = 0 /\ Wanted' \cap Held \subseteq Held'
  <2>1. CASE \E n \in Nodes : Demote(n)
    <3>1. PICK n \in Nodes : Demote(n)
      BY <2>1
    <3>2. n \notin Wanted
      BY <1>1, <3>1 DEF Demote, Answered, PolicyPass
    <3>3. losses' = losses /\ \A m \in Nodes : m # n => record'[m] = record[m]
      BY <1>1, <3>1 DEF Demote, TypeOK
    <3> QED
      BY <1>2, <3>2, <3>3 DEF Held
  <2>2. CASE \E n \in Nodes : LoseDisk(n)
    BY <1>1, <2>2 DEF LoseDisk, TypeOK
  <2>3. CASE \E n \in Nodes : Rescue(n) \/ \E m \in Nodes : Repair(n, m)
    BY <1>1, <2>3 DEF Rescue, Repair, TypeOK, Held
  <2>4. CASE record' = record /\ losses' = losses
    BY <2>4 DEF Held
  <2> QED
    BY <2>1, <2>2, <2>3, <2>4 DEF Next, BeginDemotion, BeginRescue, Collect, ProbeYes, ProbeNo, Tick, vars
<1>4. ASSUME NEW n \in Nodes, pass'[n] = pass[n] PROVE PolicyPass(n, pass[n])'
  <2>1. pass[n].confirmed \subseteq Nodes
    BY <1>1 DEF TypeOK, Passes
  <2> QED
    BY <1>1, <1>2, <1>3, <1>4 DEF PolicyPass
<1>5. ASSUME NEW n \in Nodes, pass'[n] # pass[n] PROVE PolicyPass(n, pass[n])'
  <2>1. CASE BeginDemotion(n)
    <3>1. pass'[n] = [Idle EXCEPT !.kind = "demote", !.asked = storageTargets(n)]
      BY <1>1, <2>1 DEF BeginDemotion, TypeOK
    <3>2. copies(n) = desiredCopies(n) /\ n \notin holders(n)
      <4>1. Cardinality(View[n]) > desiredCopies(n) /\ n \notin holders(n)
        BY <2>1 DEF BeginDemotion, mayDemote
      <4>2. Cardinality(View[n]) \in Nat /\ desiredCopies(n) \in Nat
        BY <1>1, WantedFact, ViewFinite
      <4> QED
        BY <4>1, <4>2 DEF copies
    <3>3. Wanted \subseteq holders(n)
      BY <1>1, <3>2, WantedFact DEF holders
    <3>4. pass'[n].asked = storageTargets(n) /\ pass'[n].confirmed = {}
      BY <3>1 DEF Idle
    <3>5. n \notin Wanted /\ Wanted \subseteq storageTargets(n)
      BY <3>2, <3>3 DEF storageTargets
    <3> QED
      BY <1>2, <3>4, <3>5 DEF PolicyPass
  <2>2. ASSUME NEW m \in Nodes, ProbeYes(n, m), pass'[n].kind = "demote" PROVE PolicyPass(n, pass[n])'
    <3>1. pass[n] \in Passes /\ pass[n].kind = "demote"
          /\ pass'[n].asked = pass[n].asked \ {m} /\ pass'[n].confirmed = pass[n].confirmed \cup {m}
      <4>1. pass[n] \in Passes
        BY <1>1 DEF TypeOK
      <4>2. pass[n].kind # "rescue"
        BY <1>1, <2>2 DEF ProbeYes, TypeOK, Idle
      <4>3. pass'[n] = [pass[n] EXCEPT !.asked = @ \ {m}, !.confirmed = @ \cup {m}]
        BY <1>1, <2>2, <4>2 DEF ProbeYes, TypeOK
      <4> QED
        BY <2>2, <4>1, <4>3 DEF Passes
    <3>2. record[m] = "held" /\ record' = record
      BY <2>2 DEF ProbeYes
    <3>3. m \in Held /\ Held' = Held
      BY <3>2 DEF Held
    <3>4. PolicyPass(n, pass[n])
      BY <1>1
    <3> QED
      BY <1>2, <1>3, <3>1, <3>3, <3>4 DEF PolicyPass
  <2>3. CASE pass'[n].kind # "demote"
    BY <2>3 DEF PolicyPass
  <2>4. BeginDemotion(n) \/ (\E m \in Nodes : ProbeYes(n, m)) \/ pass'[n].kind # "demote"
    <3>1. Idle.kind = "none" /\ [Idle EXCEPT !.kind = "rescue", !.asked = storageTargets(n)].kind = "rescue"
      BY DEF Idle
    <3>2. ASSUME NEW k \in Nodes, k # n,
                 \/ BeginDemotion(k) \/ Demote(k) \/ BeginRescue(k) \/ Rescue(k) \/ LoseDisk(k)
                 \/ \E m \in Nodes : ProbeYes(k, m) \/ ProbeNo(k, m)
          PROVE  FALSE
      BY <1>1, <1>5, <3>2 DEF BeginDemotion, Demote, BeginRescue, Rescue, LoseDisk, ProbeYes, ProbeNo, TypeOK
    <3>3. ASSUME Demote(n) \/ BeginRescue(n) \/ Rescue(n) \/ LoseDisk(n) PROVE pass'[n].kind # "demote"
      BY <1>1, <3>1, <3>3 DEF Demote, BeginRescue, Rescue, LoseDisk, TypeOK
    <3>4. ASSUME NEW m \in Nodes, ProbeNo(n, m) PROVE pass'[n].kind # "demote"
      <4>1. CASE pass[n].kind = "demote"
        BY <1>1, <3>1, <3>4, <4>1 DEF ProbeNo, TypeOK
      <4>2. CASE pass[n].kind # "demote"
        BY <1>1, <3>4, <4>2 DEF ProbeNo, TypeOK, Passes
      <4> QED BY <4>1, <4>2
    <3>5. ~\E k, m \in Nodes : Repair(k, m) \/ Collect(k)
      BY <1>5 DEF Repair, Collect
    <3>6. ~Tick /\ ~UNCHANGED vars
      BY <1>5 DEF Tick, vars
    <3> QED
      BY <3>2, <3>3, <3>4, <3>5, <3>6 DEF Next
  <2> QED
    BY <2>1, <2>2, <2>3, <2>4
<1> QED
  BY <1>1, <1>4, <1>5 DEF PolicyInv

\* service.ts 1184-1287, storage/config.ts 306-316: with one node list and tiers that
\* shrink, a handover leaves the file wherever the policy for its age wants it, for
\* any finite set of nodes, scores without ties, tiers, ages and delays of answers.
THEOREM HandoverKeepsPlacement ==
  ASSUME TiersShrink, OneNodeList
  PROVE  Spec => HandoverKeepsPolicy
<1>1. Init => PolicyInv
  <2> SUFFICES ASSUME Init PROVE PolicyInv
    OBVIOUS
  <2>1. TypeOK
    BY InitIInv DEF IInv
  <2>2. \A n \in Nodes : pass[n].kind = "none"
    BY DEF Init, Idle
  <2> QED
    BY <2>1, <2>2 DEF PolicyInv, PolicyPass
<1>2. PolicyInv /\ [Next]_vars => PolicyInv'
  BY PolicyStep
<1>3. PolicyInv /\ [Next]_vars =>
        [\A n \in Nodes : record[n] = "held" /\ record'[n] = "released"
           => losses > 0 \/ Best(Nodes, CopiesAt[now]) \subseteq Held]_vars
  <2> SUFFICES ASSUME PolicyInv, Next, NEW n \in Nodes,
                      record[n] = "held", record'[n] = "released", ~(losses > 0)
               PROVE  Best(Nodes, CopiesAt[now]) \subseteq Held
    OBVIOUS
  <2>1. TypeOK /\ PolicyPass(n, pass[n])
    BY DEF PolicyInv
  <2>2. Demote(n)
    <3>1. ASSUME NEW k \in Nodes, k # n, Demote(k) PROVE FALSE
      BY <2>1, <3>1 DEF Demote, TypeOK
    <3>2. ASSUME NEW k \in Nodes, Rescue(k) \/ LoseDisk(k) PROVE FALSE
      BY <2>1, <3>2 DEF Rescue, LoseDisk, TypeOK
    <3>3. ASSUME NEW k \in Nodes, NEW m \in Nodes, Repair(k, m) PROVE FALSE
      BY <2>1, <3>3 DEF Repair, TypeOK
    <3>4. record' # record
      OBVIOUS
    <3> QED
      BY <3>1, <3>2, <3>3, <3>4 DEF Next, BeginDemotion, BeginRescue, Collect, ProbeYes, ProbeNo, Tick
  <2>3. losses = 0
    BY <2>1, TiersAssumption DEF TypeOK
  <2>4. pass[n].kind = "demote" /\ pass[n].asked = {}
    BY <2>2 DEF Demote, Answered
  <2> QED
    BY <2>1, <2>3, <2>4 DEF PolicyPass, Wanted
<1> QED
  BY <1>1, <1>2, <1>3, PTL DEF Spec, HandoverKeepsPolicy

-----------------------------------------------------------------------------
(***************************************************************************)
(* A node without the file asks every node that has it, for any number of  *)
(* nodes, any age tiers and any widening.                                  *)
(*                                                                         *)
(* The induction is on where holders stand: when the file is placed, fewer *)
(* nodes than the widest tier asks for stand before a holder; every node   *)
(* that joins later moves it back by one place at most.                    *)
(***************************************************************************)

\* No holder stands further back than the tiers and the joins explain.
HoldersNearTop ==
  \A h \in placed : Cardinality(before(network, h)) < widest + joined

Inv == RetrievalTypeOK /\ HoldersNearTop

\* The widest tier is the one the code's Math.max finds.
LEMMA WidestType == widest \in Nat /\ \A c \in Copies : c <= widest
BY RetrievalAssumption DEF widest, Max

\* Who stands before a node is counted by a natural number, and adding one
\* node to the network adds at most one.
LEMMA BeforeSize ==
  ASSUME NEW N \in SUBSET AllNodes, NEW h
  PROVE  IsFiniteSet(before(N, h)) /\ Cardinality(before(N, h)) \in Nat
<1>1. IsFiniteSet(1..Places)  BY FS_Interval, RetrievalAssumption
<1>2. before(N, h) \subseteq 1..Places  BY DEF before, AllNodes
<1> QED  BY <1>1, <1>2, FS_Subset, FS_CardinalityType

LEMMA BeforeGrows ==
  ASSUME NEW N \in SUBSET AllNodes, NEW n \in AllNodes, NEW h \in AllNodes
  PROVE  Cardinality(before(N \cup {n}, h)) <= Cardinality(before(N, h)) + 1
<1> DEFINE B == before(N, h)
<1>1. IsFiniteSet(B) /\ Cardinality(B) \in Nat  BY BeforeSize
<1>2. IsFiniteSet(B \cup {n}) /\ Cardinality(B \cup {n}) <= Cardinality(B) + 1
  <2>1. IsFiniteSet(B \cup {n}) /\ \/ Cardinality(B \cup {n}) = Cardinality(B)
                                    \/ Cardinality(B \cup {n}) = Cardinality(B) + 1
    BY <1>1, FS_AddElement
  <2> QED  BY <2>1, <1>1
<1>3. before(N \cup {n}, h) \subseteq B \cup {n}  BY DEF before
<1>4. Cardinality(before(N \cup {n}, h)) <= Cardinality(B \cup {n})
  BY <1>2, <1>3, FS_Subset
<1>5. Cardinality(before(N \cup {n}, h)) \in Nat /\ Cardinality(B \cup {n}) \in Nat
  BY <1>2, BeforeSize, FS_CardinalityType
<1> QED  BY <1>1, <1>2, <1>4, <1>5

LEMMA BeforeShrinks ==
  ASSUME NEW N \in SUBSET AllNodes, NEW n, NEW h
  PROVE  Cardinality(before(N \ {n}, h)) <= Cardinality(before(N, h))
<1>1. before(N \ {n}, h) \subseteq before(N, h)  BY DEF before
<1> QED  BY <1>1, BeforeSize, FS_Subset

\* Freshly placed holders are within the widest tier.
LEMMA PlacedNearTop ==
  ASSUME RetrievalTypeOK, NEW h \in top(network, wanted)
  PROVE  Cardinality(before(network, h)) < widest
<1>1. Cardinality(before(network, h)) \in Nat  BY BeforeSize DEF RetrievalTypeOK, top
<1>2. Cardinality(before(network, h)) < wanted  BY DEF top
<1>3. wanted \in Nat /\ wanted <= widest  BY WidestType, RetrievalAssumption DEF RetrievalTypeOK
<1> QED  BY <1>1, <1>2, <1>3, WidestType

LEMMA InitInv == RetrievalInit => Inv
<1> SUFFICES ASSUME RetrievalInit PROVE Inv  OBVIOUS
<1>1. RetrievalTypeOK  BY RetrievalAssumption DEF RetrievalInit, RetrievalTypeOK, top
<1>2. ASSUME NEW h \in placed PROVE Cardinality(before(network, h)) < widest + joined
  <2>1. Cardinality(before(network, h)) < widest  BY <1>1, PlacedNearTop DEF RetrievalInit
  <2> QED  BY <2>1, WidestType DEF RetrievalInit
<1> QED  BY <1>1, <1>2 DEF Inv, HoldersNearTop

\* Every action keeps holders near the top.
LEMMA StepInv == Inv /\ [RetrievalNext]_retrievalVars => Inv'
<1> SUFFICES ASSUME Inv, [RetrievalNext]_retrievalVars PROVE Inv'  OBVIOUS
<1> USE DEF Inv
<1>0. /\ network \in SUBSET AllNodes /\ joined \in Nat /\ widest \in Nat
      /\ widest' = widest
  BY WidestType DEF RetrievalTypeOK, widest
<1>1. RetrievalTypeOK'
  <2>1. CASE Age  BY <2>1 DEF Age, RetrievalTypeOK
  <2>2. CASE Place  BY <2>2, RetrievalAssumption DEF Place, RetrievalTypeOK, top
  <2>3. ASSUME NEW n \in placed, Lose(n) PROVE RetrievalTypeOK'  BY <2>3 DEF Lose, RetrievalTypeOK
  <2>4. ASSUME NEW n \in AllNodes \ network, Join(n) PROVE RetrievalTypeOK'
    BY <2>4, RetrievalAssumption DEF Join, RetrievalTypeOK
  <2>5. ASSUME NEW n \in network, Leave(n) PROVE RetrievalTypeOK'  BY <2>5 DEF Leave, RetrievalTypeOK
  <2>6. CASE UNCHANGED retrievalVars  BY <2>6 DEF retrievalVars, RetrievalTypeOK
  <2> QED  BY <2>1, <2>2, <2>3, <2>4, <2>5, <2>6 DEF RetrievalNext
<1>2. ASSUME NEW h \in placed'
      PROVE  Cardinality(before(network', h)) < widest + joined'
  <2>1. CASE Age  BY <2>1 DEF Age, HoldersNearTop
  <2>2. CASE Place
    <3>1. Cardinality(before(network, h)) < widest  BY <2>2, PlacedNearTop DEF Place
    <3> QED  BY <3>1, <2>2, <1>0 DEF Place
  <2>3. ASSUME NEW n \in placed, Lose(n)
        PROVE  Cardinality(before(network', h)) < widest + joined'
    BY <2>3 DEF Lose, HoldersNearTop
  <2>4. ASSUME NEW n \in AllNodes \ network, Join(n)
        PROVE  Cardinality(before(network', h)) < widest + joined'
    <3>1. h \in placed /\ h \in AllNodes  BY <2>4 DEF Join, RetrievalTypeOK
    <3>2. Cardinality(before(network, h)) < widest + joined  BY <3>1 DEF HoldersNearTop
    <3>3. Cardinality(before(network \cup {n}, h)) <= Cardinality(before(network, h)) + 1
      BY <1>0, <3>1, BeforeGrows
    <3>4. /\ Cardinality(before(network, h)) \in Nat
          /\ Cardinality(before(network \cup {n}, h)) \in Nat
      BY <1>0, BeforeSize
    <3> QED  BY <3>2, <3>3, <3>4, <1>0, <2>4 DEF Join
  <2>5. ASSUME NEW n \in network, Leave(n)
        PROVE  Cardinality(before(network', h)) < widest + joined'
    <3>1. h \in placed  BY <2>5 DEF Leave
    <3>2. Cardinality(before(network, h)) < widest + joined  BY <3>1 DEF HoldersNearTop
    <3>3. Cardinality(before(network \ {n}, h)) <= Cardinality(before(network, h))
      BY <1>0, BeforeShrinks
    <3>4. /\ Cardinality(before(network, h)) \in Nat
          /\ Cardinality(before(network \ {n}, h)) \in Nat
      BY <1>0, BeforeSize
    <3> QED  BY <3>2, <3>3, <3>4, <1>0, <2>5 DEF Leave
  <2>6. CASE UNCHANGED retrievalVars  BY <2>6 DEF retrievalVars, HoldersNearTop
  <2> QED  BY <2>1, <2>2, <2>3, <2>4, <2>5, <2>6 DEF RetrievalNext
<1> QED  BY <1>0, <1>1, <1>2 DEF HoldersNearTop

\* retrieval.ts 27-38: as long as no more nodes have joined than the
\* widening allows for, every node that lacks the file asks all that hold it.
THEOREM AskedHolders == RetrievalSpec => []HoldersAsked
<1>1. Inv => HoldersAsked
  <2> SUFFICES ASSUME Inv, joined <= Widening,
                      NEW n \in network \ placed, NEW h \in placed
               PROVE  h \in retrievalTargets(n)
    BY DEF HoldersAsked
  <2>1. Cardinality(before(network, h)) < widest + joined
    BY DEF Inv, HoldersNearTop
  <2>2. Cardinality(before(network, h)) \in Nat  BY BeforeSize DEF Inv, RetrievalTypeOK
  <2>3. Cardinality(before(network, h)) < widest + Widening
    BY <2>1, <2>2, WidestType, RetrievalAssumption DEF Inv, RetrievalTypeOK
  <2> QED  BY <2>3 DEF retrievalTargets, top, Inv, RetrievalTypeOK
<1> QED  BY <1>1, InitInv, StepInv, PTL DEF RetrievalSpec


-----------------------------------------------------------------------------
(***************************************************************************)
(* The sweep passes nothing over, for any finite set of files and any size *)
(* of a batch: what is due is always ahead of the cursor.                  *)
(***************************************************************************)

LEMMA LeastExists ==
  ASSUME NEW S \in SUBSET Nat, S # {}
  PROVE  \E n \in S : \A m \in S : n <= m
<1>1. PICK n \in S : \A m \in S : ~(<<m, n>> \in OpToRel(<, Nat))
  BY WFMin, NatLessThanWellFounded
<1>2. \A m \in S : ~(m < n)
  BY <1>1 DEF OpToRel
<1> QED
  BY <1>2

\* Of a finite set, the greatest is the one with the fewest above it.
LEMMA GreatestExists ==
  ASSUME NEW S \in SUBSET Nat, S # {}, IsFiniteSet(S)
  PROVE  Max(S) \in S /\ \A m \in S : Max(S) >= m
<1> DEFINE above(n) == {m \in S : m > n}
           K == {Cardinality(above(n)) : n \in S}
<1>1. \A n \in S : IsFiniteSet(above(n)) /\ Cardinality(above(n)) \in Nat
  BY FS_Subset, FS_CardinalityType
<1>2. PICK n \in S : \A m \in S : Cardinality(above(n)) <= Cardinality(above(m))
  <2>1. K \in SUBSET Nat /\ K # {}
    BY <1>1
  <2>2. PICK k \in K : \A j \in K : k <= j
    <3> HIDE DEF K
    <3> QED BY <2>1, LeastExists
  <2> QED
    BY <2>2
<1>3. ASSUME NEW m \in S, m > n PROVE FALSE
  <2>1. above(m) \subseteq above(n) /\ m \in above(n) /\ m \notin above(m)
    <3>1. m \in Nat /\ n \in Nat /\ m > n
      BY <1>3
    <3>2. \A x \in S : x \in Nat /\ (x > m => x > n)
      BY <3>1
    <3>3. above(m) \subseteq above(n)
      BY <3>2
    <3>4. m \in above(n)
      BY <1>3
    <3>5. ~(m > m)
      BY <3>1
    <3> QED
      BY <3>3, <3>4, <3>5
  <2>2. Cardinality(above(m)) < Cardinality(above(n))
    <3> HIDE DEF above
    <3> QED BY <1>1, <2>1, FS_Subset
  <2>3. Cardinality(above(n)) <= Cardinality(above(m))
    BY <1>2
  <2> HIDE DEF above
  <2> QED
    BY <1>1, <2>2, <2>3
<1>4. \A m \in S : n >= m
  BY <1>3
<1> HIDE DEF above, K
<1> QED
  BY <1>4 DEF Max

SweepInv == /\ candidates \in SUBSET Cids /\ cursor \in Nat
            /\ due \subseteq After(cursor)

\* A batch is the first files after a position, and one at least if there is any.
LEMMA BatchFact ==
  ASSUME SweepAssumption, candidates \in SUBSET Cids, NEW from \in Nat
  PROVE  /\ IsFiniteSet(After(from)) /\ After(from) \subseteq candidates /\ After(from) \in SUBSET Nat
         /\ sweepBatch(from) \subseteq After(from)
         /\ \A c \in sweepBatch(from), d \in After(from) : d < c => d \in sweepBatch(from)
         /\ After(from) # {} => sweepBatch(from) # {}
<1>1. /\ IsFiniteSet(After(from)) /\ After(from) \subseteq candidates /\ After(from) \in SUBSET Nat
      /\ sweepBatch(from) \subseteq After(from) /\ Size \in Nat \ {0}
  <2>1. After(from) \subseteq Cids /\ IsFiniteSet(Cids) /\ Cids \subseteq Nat
    BY DEF After, SweepAssumption
  <2> QED
    BY <2>1, FS_Subset DEF After, sweepBatch, SweepAssumption
<1> DEFINE below(c) == {d \in After(from) : d < c}
<1>2. \A c \in After(from) : IsFiniteSet(below(c)) /\ Cardinality(below(c)) \in Nat
  BY <1>1, FS_Subset, FS_CardinalityType
<1>3. ASSUME NEW c \in sweepBatch(from), NEW d \in After(from), d < c
      PROVE  d \in sweepBatch(from)
  <2>1. below(d) \subseteq below(c) /\ c \in After(from)
    BY <1>1, <1>3
  <2>2. Cardinality(below(d)) <= Cardinality(below(c))
    <3> HIDE DEF below
    <3> QED BY <1>2, <2>1, FS_Subset
  <2>3. Cardinality(below(c)) < Size
    BY DEF sweepBatch
  <2>4. Cardinality(below(d)) < Size
    <3> HIDE DEF below
    <3> QED BY <1>1, <1>2, <2>1, <2>2, <2>3
  <2> QED
    BY <2>4 DEF sweepBatch
<1>4. ASSUME After(from) # {} PROVE sweepBatch(from) # {}
  <2>1. PICK c \in After(from) : \A d \in After(from) : c <= d
    BY <1>1, <1>4, LeastExists
  <2>2. below(c) = {}
    BY <1>1, <2>1
  <2>3. Cardinality(below(c)) < Size
    BY <1>1, <2>2, FS_EmptySet
  <2> QED
    BY <2>1, <2>3 DEF sweepBatch
<1> QED
  BY <1>1, <1>3, <1>4

\* Where a pass resumes: behind the last file it starts again.
LEMMA SelectedFact ==
  ASSUME SweepAssumption, SweepInv
  PROVE  \E from \in Nat :
           /\ Selected = [records |-> sweepBatch(from), rest |-> After(from)]
           /\ After(cursor) = {} => After(from) = candidates
           /\ After(cursor) # {} => from = cursor
<1> DEFINE from == IF After(cursor) = {} THEN Start ELSE cursor
<1>1. from \in Nat /\ Selected = [records |-> sweepBatch(from), rest |-> After(from)]
  BY DEF SweepInv, Selected, Start
<1>2. After(cursor) = {} => After(from) = candidates
  <2>1. \A c \in candidates : c \in Nat /\ c > 0
    BY DEF SweepInv, SweepAssumption
  <2> QED
    BY <2>1 DEF After, Start
<1> QED
  BY <1>1, <1>2

LEMMA SweepStep ==
  ASSUME SweepAssumption, SweepInv, [SweepNext]_sweepVars
  PROVE  SweepInv'
<1>1. CASE Pass
  <2>1. PICK from \in Nat :
          /\ Selected = [records |-> sweepBatch(from), rest |-> After(from)]
          /\ After(cursor) = {} => After(from) = candidates
          /\ After(cursor) # {} => from = cursor
    BY SelectedFact
  <2>2. candidates' = candidates /\ candidates \in SUBSET Cids /\ candidates \in SUBSET (Nat \ {0})
    BY <1>1 DEF Pass, SweepInv, SweepAssumption
  <2>3. CASE completed
    BY <1>1, <2>2, <2>3 DEF Pass, SweepInv, After, Start
  <2>4. CASE ~completed
    <3> DEFINE R == sweepBatch(from)
    <3>1. /\ cursor' = Max(R)
          /\ due' = (IF After(cursor) = {} THEN candidates ELSE due) \ R
          /\ ~(After(from) \subseteq R)
      BY <1>1, <2>1, <2>4 DEF Pass, completed
    <3>2. /\ IsFiniteSet(After(from)) /\ After(from) \in SUBSET Nat
          /\ R \subseteq After(from) /\ R # {}
          /\ \A c \in R, d \in After(from) : d < c => d \in R
      BY <2>2, <3>1, BatchFact
    <3> HIDE DEF R
    <3>3. Max(R) \in R /\ Max(R) \in Nat
      BY <3>2, FS_Subset, GreatestExists
    <3>4. due' \subseteq After(from) \ R
      BY <2>1, <3>1 DEF SweepInv
    <3>5. \A d \in After(from) \ R : d > Max(R)
      BY <3>2, <3>3
    <3>6. After(from) \subseteq candidates
      BY DEF After
    <3> QED
      BY <2>2, <3>1, <3>3, <3>4, <3>5, <3>6 DEF SweepInv, After
  <2> QED
    BY <2>3, <2>4
<1>2. ASSUME NEW c \in Cids, Appear(c) \/ Vanish(c) PROVE SweepInv'
  BY <1>2 DEF Appear, Vanish, SweepInv, After
<1>3. CASE Restart
  BY <1>3 DEF Restart, SweepInv, SweepAssumption, After, Start
<1>4. CASE UNCHANGED sweepVars
  BY <1>4 DEF sweepVars, SweepInv, After
<1> QED
  BY <1>1, <1>2, <1>3, <1>4 DEF SweepNext, DryRun

\* sweep.ts 42-115: a cycle that completes has looked at every file that was there
\* when it began and stayed, whatever comes and goes on both sides of the cursor, the
\* file it stopped at included, for any finite set of files and size of a batch.
THEOREM SweepCoversAll == ASSUME SweepAssumption PROVE SweepSpec => CycleCovers
<1>1. SweepInit => SweepInv
  BY DEF SweepInit, SweepInv, SweepAssumption, After, Start
<1>2. SweepInv /\ [SweepNext]_sweepVars => SweepInv'
  BY SweepStep
<1>3. SweepInv /\ [SweepNext]_sweepVars
        => [Pass /\ (completed \/ After(cursor) = {}) => due \subseteq batch']_sweepVars
  <2> SUFFICES ASSUME SweepInv, Pass, completed \/ After(cursor) = {}
               PROVE  due \subseteq batch'
    OBVIOUS
  <2>1. PICK from \in Nat :
          /\ Selected = [records |-> sweepBatch(from), rest |-> After(from)]
          /\ After(cursor) # {} => from = cursor
    BY SelectedFact
  <2>2. batch' = sweepBatch(from) /\ due \subseteq After(cursor)
    BY <2>1 DEF Pass, SweepInv
  <2>3. CASE After(cursor) = {}
    BY <2>2, <2>3
  <2>4. CASE After(cursor) # {}
    <3>1. After(cursor) \subseteq sweepBatch(from)
      BY <2>1, <2>4 DEF completed
    <3> QED
      BY <2>2, <3>1
  <2> QED
    BY <2>3, <2>4
<1> QED
  BY <1>1, <1>2, <1>3, PTL DEF SweepSpec, CycleCovers

\* sweep.ts 97-104: a pass that takes nothing had nothing to take, also when the
\* position lies behind every file that is left.
THEOREM SweepTakesSome == ASSUME SweepAssumption PROVE SweepSpec => NoEmptyPass
<1>1. SweepInit => SweepInv
  BY DEF SweepInit, SweepInv, SweepAssumption, After, Start
<1>2. SweepInv /\ [SweepNext]_sweepVars => SweepInv'
  BY SweepStep
<1>3. SweepInv /\ [SweepNext]_sweepVars
        => [batch' # batch /\ batch' = {} => candidates = {}]_sweepVars
  <2> SUFFICES ASSUME SweepInv, SweepNext, batch' # batch, batch' = {}
               PROVE  candidates = {}
    OBVIOUS
  <2>1. Pass
    BY DEF SweepNext, DryRun, Restart, Appear, Vanish, sweepVars
  <2>2. PICK from \in Nat :
          /\ Selected = [records |-> sweepBatch(from), rest |-> After(from)]
          /\ After(cursor) = {} => After(from) = candidates
          /\ After(cursor) # {} => from = cursor
    BY SelectedFact
  <2>3. batch' = sweepBatch(from)
    BY <2>1, <2>2 DEF Pass
  <2>4. After(from) = {}
    BY <2>3, BatchFact DEF SweepInv
  <2> QED
    BY <2>2, <2>4
<1> QED
  BY <1>1, <1>2, <1>3, PTL DEF SweepSpec, NoEmptyPass

-----------------------------------------------------------------------------
(***************************************************************************)
(* One exchange: only whole messages count, for any limit, prefix and cuts.*)
(***************************************************************************)

\* A reply is there once the handler has run and the server is done with it.
ReplyOK ==
  /\ client = "idle" => server = "idle" /\ down = Nothing
  /\ client = "answered" => down # Nothing
  /\ down = Nothing \/
       /\ server \in {"answered", "closed"} /\ acted
       /\ down.sent = Prefix + down.announced
       /\ down.announced \in Nat

FramesOK == /\ up \in [announced : Nat, sent : Nat, got : Nat]
            /\ down \in [announced : Nat, sent : Nat, got : Nat] /\ down.got <= down.sent

ExchangeInv == FramesOK /\ ReplyOK /\ WholeMessages

LEMMA ExchangeStep ==
  ASSUME FrameAssumption, ExchangeInv, [ExchangeNext]_exchangeVars
  PROVE  ExchangeInv'
<1> DEFINE Sides == [announced : Nat, sent : Nat, got : Nat]
<1>0. /\ Prefix \in Nat \ {0} /\ MaxMessage \in Nat \ {0} /\ Excess \in Nat
      /\ Bytes \subseteq Nat /\ 1..MaxMessage \subseteq Nat /\ Nothing \in Sides
      /\ 1..(MaxMessage + Excess) \subseteq Nat
  BY DEF FrameAssumption, Bytes, Nothing
<1>1. /\ up \in Sides /\ down \in Sides /\ down.got <= down.sent
      /\ ReplyOK /\ WholeMessages
  BY DEF ExchangeInv, FramesOK
<1>2. ASSUME NEW l \in 1..MaxMessage, Call(l) PROVE ExchangeInv'
  BY <1>0, <1>1, <1>2 DEF Call, ExchangeInv, FramesOK, ReplyOK, WholeMessages
<1>3. ASSUME NEW f \in Frames(1..(MaxMessage + Excess), Bytes), Foreign(f) PROVE ExchangeInv'
  <2>1. f \in Sides
    <3>1. /\ f = [announced |-> f.announced, sent |-> f.sent, got |-> f.got]
          /\ f.announced \in 1..(MaxMessage + Excess) /\ f.sent \in Bytes /\ f.got = 0
      BY DEF Frames
    <3>2. f.announced \in Nat /\ f.sent \in Nat /\ f.got \in Nat
      BY <1>0, <3>1
    <3> QED
      BY <3>1, <3>2
  <2> QED
    BY <1>0, <1>1, <1>3, <2>1 DEF Foreign, ExchangeInv, FramesOK, ReplyOK, WholeMessages
<1>4. ASSUME NEW n \in Bytes \ {0}, ReceiveRequest(n) PROVE ExchangeInv'
  <2>1. up' = [up EXCEPT !.got = @ + n] /\ n \in Nat
    BY <1>0, <1>4 DEF ReceiveRequest
  <2>2. up' \in Sides
    BY <1>1, <2>1
  <2>3. Read(up') = "complete" => up'.got >= Prefix + up'.announced
    BY <1>0, <2>2 DEF Read
  <2>4. server = "reading" /\ ((server' = "working" /\ Read(up') = "complete") \/ server' \in {"failed", "reading"})
    BY <1>4 DEF ReceiveRequest
  <2> QED
    BY <1>0, <1>1, <1>4, <2>2, <2>3, <2>4
    DEF ReceiveRequest, ExchangeInv, FramesOK, ReplyOK, WholeMessages
<1>5. ASSUME NEW l \in 1..MaxMessage, Respond(l) PROVE ExchangeInv'
  <2>1. l \in Nat /\ Prefix + l \in Nat
    BY <1>0
  <2>2. server = "working" /\ client # "idle" /\ down = Nothing /\ client # "answered"
    BY <1>0, <1>1, <1>5 DEF Respond, ReplyOK, WholeMessages
  <2> QED
    BY <1>0, <1>1, <1>5, <2>1, <2>2 DEF Respond, ExchangeInv, FramesOK, ReplyOK, WholeMessages, Nothing
<1>6. ASSUME NEW n \in Bytes \ {0}, ReceiveReply(n) PROVE ExchangeInv'
  <2>1. /\ down' = [down EXCEPT !.got = @ + n] /\ n \in Nat \ {0} /\ down.got + n <= down.sent
        /\ client = "waiting"
    BY <1>0, <1>6 DEF ReceiveReply
  <2>2. down # Nothing
    BY <1>0, <1>1, <2>1 DEF Nothing
  <2>3. /\ down' \in Sides /\ down'.got <= down'.sent /\ down'.sent = Prefix + down'.announced
        /\ server \in {"answered", "closed"} /\ acted
    BY <1>1, <2>1, <2>2 DEF ReplyOK
  <2>4. Read(down') = "complete" => down'.got = down'.sent
    BY <1>0, <2>3 DEF Read
  <2>5. (client' = "answered" /\ Read(down') = "complete") \/ client' = "waiting"
    BY <1>6 DEF ReceiveReply
  <2>6. down' # Nothing
    BY <1>0, <2>1, <2>3 DEF Nothing
  <2> QED
    BY <1>0, <1>1, <1>6, <2>3, <2>4, <2>5, <2>6
    DEF ReceiveReply, ExchangeInv, FramesOK, ReplyOK, WholeMessages
<1>7. CASE RequestEnds \/ ServerTimeout
  BY <1>0, <1>1, <1>7 DEF RequestEnds, ServerTimeout, ExchangeInv, FramesOK, ReplyOK, WholeMessages
<1>8. CASE ServerCloses
  BY <1>0, <1>1, <1>8 DEF ServerCloses, ExchangeInv, FramesOK, ReplyOK, WholeMessages
<1>9. CASE CallFails \/ CallTimeout \/ ForeignLeaves \/ UNCHANGED exchangeVars
  BY <1>0, <1>1, <1>9
  DEF CallFails, CallTimeout, ForeignLeaves, exchangeVars, ExchangeInv, FramesOK, ReplyOK, WholeMessages
<1> QED
  BY <1>2, <1>3, <1>4, <1>5, <1>6, <1>7, <1>8, <1>9 DEF ExchangeNext

\* replicationProtocol.ts 180-217: for any prefix, limit and foreign callers, a
\* handler runs only on a whole message, and a caller takes only a whole reply, given
\* after the handler has run, wherever the chunks were cut.
THEOREM OnlyWholeMessages == ASSUME FrameAssumption PROVE ExchangeSpec => []WholeMessages
<1>1. ExchangeInit => ExchangeInv
  BY DEF ExchangeInit, ExchangeInv, FramesOK, ReplyOK, WholeMessages, Nothing
<1>2. ExchangeInv /\ [ExchangeNext]_exchangeVars => ExchangeInv'
  BY ExchangeStep
<1>3. ExchangeInv => WholeMessages
  BY DEF ExchangeInv
<1> QED
  BY <1>1, <1>2, <1>3, PTL DEF ExchangeSpec
=============================================================================
