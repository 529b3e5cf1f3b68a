------------------------ MODULE StrictUploadProofs ------------------------
(***************************************************************************)
(* Proofs about StrictUpload for any number of uploads, peers, lost        *)
(* messages, restarts and crashes, and any quorum.                         *)
(*                                                                         *)
(* The properties are not inductive by themselves.  QuorumOnSuccess needs  *)
(* that everything a source counts is really permanent (Evidence), which   *)
(* holds because it counts only what a peer that already had the copy, or  *)
(* that has just committed, answered.  DurableOnlyByDecision needs that a  *)
(* commit under way belongs to a source that has decided (Decided).        *)
(* CleanRejection needs that an abort which was answered took the claim    *)
(* away and left a marker (Gone), which no late stage request can undo.    *)
(***************************************************************************)
EXTENDS StrictUpload, TLAPS, FiniteSetTheorems

\* What a handler knows about its own copy follows from where it is.
Phased == \A t \in Txs :
  /\ phase[t] \in {"placing", "aborting", "finalizing"} => local[t] = "admitted"
  /\ phase[t] = "committing" => local[t] = "kept"
  /\ http[t] # "none" => phase[t] = "done"

\* A commit under way belongs to an upload whose source decided to keep it.
Decided == \A m \in net : m.op = "commit" => local[m.tx] = "kept"

\* Whatever a source counts towards its quorum is permanent.
Evidence == \A t \in Txs : \A p \in Peers :
  ack[t][p] = "stable" \/ p \in verified[t] => p \in durable

\* The peer gave the transaction's claim up, and remembers to refuse it.
Gone(t, p) == t \in tomb[p] /\ t \notin owners[p]

\* An upload that must have no claim on a peer: it was told so by the peer
\* itself, or it has told its client so.
Claims(u, q) == /\ ack[u][q] \in {"staged", "maybe"}
                /\ \/ phase[u] = "aborting" /\ ~broken[u] /\ at[u][q] = "done"
                   \/ http[u] = "503"

\* An abort that was answered took the claim away, on every peer still running.
Withdrawn == \A t \in Txs, p \in Peers \ Restarting : Claims(t, p) => Gone(t, p)

RejectedRestored == \A t \in Txs : http[t] = "503" => local[t] = "restored"

IInv == /\ TypeOK /\ Phased /\ Decided /\ Evidence /\ Withdrawn
        /\ RejectedRestored /\ QuorumOnSuccess /\ DurableOnlyByDecision

-----------------------------------------------------------------------------
\* More permanent copies never break a quorum that was reached.
LEMMA QuorumMonotone ==
  ASSUME NEW A, NEW B, A \subseteq B, B \subseteq Peers, satisfied(A)
  PROVE  satisfied(B)
<1>1. IsFiniteSet(B) BY NetworkAssumption, FS_Subset
<1>2. IsFiniteSet(A) BY <1>1, FS_Subset
<1>3. Cardinality(A) <= Cardinality(B) BY <1>1, FS_Subset
<1>4. Cardinality(A) \in Nat /\ Cardinality(B) \in Nat /\ Cardinality(Peers) \in Nat
  BY <1>1, <1>2, FS_CardinalityType, NetworkAssumption
<1>5. Copies \in Nat BY <1>4, NetworkAssumption DEF Copies
<1>6. Required \in Nat BY <1>5, NetworkAssumption DEF Required
<1> QED BY <1>3, <1>4, <1>6 DEF satisfied

\* The initial state satisfies the inductive invariant.
LEMMA InitIInv == Init => IInv
<1> SUFFICES ASSUME Init PROVE IInv OBVIOUS
<1> USE DEF Init
<1>1. TypeOK BY NetworkAssumption DEF TypeOK, Steps, Acks, Phases
<1>2. Phased /\ Decided /\ Evidence /\ Withdrawn /\ RejectedRestored
  BY DEF Phased, Decided, Evidence, Withdrawn, Claims, RejectedRestored
<1>3. QuorumOnSuccess /\ DurableOnlyByDecision
  BY DEF QuorumOnSuccess, DurableOnlyByDecision
<1> QED BY <1>1, <1>2, <1>3 DEF IInv

\* Changing one entry of a table indexed by uploads and peers.
LEMMA EntryUpdate ==
  ASSUME NEW S, NEW f \in [Txs -> [Peers -> S]],
         NEW t \in Txs, NEW p \in Peers, NEW s \in S
  PROVE  /\ [f EXCEPT ![t][p] = s] \in [Txs -> [Peers -> S]]
         /\ \A u \in Txs, q \in Peers :
              [f EXCEPT ![t][p] = s][u][q] = IF u = t /\ q = p THEN s ELSE f[u][q]
OBVIOUS

\* Changing one row of such a table.
LEMMA RowUpdate ==
  ASSUME NEW S, NEW f \in [Txs -> [Peers -> S]], NEW t \in Txs, NEW g \in [Peers -> S]
  PROVE  /\ [f EXCEPT ![t] = g] \in [Txs -> [Peers -> S]]
         /\ \A u \in Txs, q \in Peers :
              [f EXCEPT ![t] = g][u][q] = IF u = t THEN g[q] ELSE f[u][q]
OBVIOUS

\* What moving one exchange to another step does to the table of exchanges.
LEMMA GotoEffect ==
  ASSUME TypeOK, NEW t \in Txs, NEW p \in Peers, NEW s \in Steps, goto(t, p, s)
  PROVE  /\ at' \in [Txs -> [Peers -> Steps]]
         /\ \A u \in Txs, q \in Peers :
              at'[u][q] = IF u = t /\ q = p THEN s ELSE at[u][q]
<1>1. at \in [Txs -> [Peers -> Steps]] BY DEF TypeOK
<1> QED BY <1>1, EntryUpdate DEF goto

\* What reporting an acknowledgement does.
LEMMA ReportEffect ==
  ASSUME TypeOK, NEW t \in Txs, NEW p \in Peers, NEW a \in Acks, report(t, p, a)
  PROVE  /\ at' \in [Txs -> [Peers -> Steps]] /\ ack' \in [Txs -> [Peers -> Acks]]
         /\ attempt' \in [Txs -> [Peers -> 1..2]]
         /\ \A u \in Txs, q \in Peers :
              /\ at'[u][q] = IF u = t /\ q = p THEN "done" ELSE at[u][q]
              /\ ack'[u][q] = IF u = t /\ q = p THEN a ELSE ack[u][q]
<1>1. ack \in [Txs -> [Peers -> Acks]] BY DEF TypeOK
<1>2. "done" \in Steps BY DEF Steps
<1>3. goto(t, p, "done") BY DEF report
<1>4. ack' = [ack EXCEPT ![t][p] = a] /\ attempt' = attempt BY DEF report
<1>5. attempt' \in [Txs -> [Peers -> 1..2]] BY <1>4 DEF TypeOK
<1>6. /\ ack' \in [Txs -> [Peers -> Acks]]
      /\ \A u \in Txs, q \in Peers :
           ack'[u][q] = IF u = t /\ q = p THEN a ELSE ack[u][q]
  BY <1>1, <1>4, EntryUpdate
<1>7. /\ at' \in [Txs -> [Peers -> Steps]]
      /\ \A u \in Txs, q \in Peers :
           at'[u][q] = IF u = t /\ q = p THEN "done" ELSE at[u][q]
  BY <1>2, <1>3, GotoEffect
<1> QED BY <1>5, <1>6, <1>7

\* What starting the exchanges of the next phase does.
LEMMA ExchangeEffect ==
  ASSUME TypeOK, NEW t \in Txs, NEW A, exchange(t, A)
  PROVE  /\ at' \in [Txs -> [Peers -> Steps]]
         /\ \A u \in Txs, q \in Peers : at'[u][q] =
              IF u = t THEN (IF q \in A THEN "settle" ELSE "done") ELSE at[u][q]
<1> DEFINE g == [p \in Peers |-> IF p \in A THEN "settle" ELSE "done"]
<1>1. at \in [Txs -> [Peers -> Steps]] BY DEF TypeOK
<1>2. g \in [Peers -> Steps] BY DEF Steps
<1>3. at' = [at EXCEPT ![t] = g] BY DEF exchange
<1> HIDE DEF g
<1>4. /\ at' \in [Txs -> [Peers -> Steps]]
      /\ \A u \in Txs, q \in Peers : at'[u][q] = IF u = t THEN g[q] ELSE at[u][q]
  BY <1>1, <1>2, <1>3, RowUpdate
<1> QED BY <1>4 DEF g

\* What the end of a handler leaves of its variables.
LEMMA ReturnEffect ==
  ASSUME TypeOK, NEW t \in Txs, return(t)
  PROVE  /\ at' \in [Txs -> [Peers -> Steps]] /\ ack' \in [Txs -> [Peers -> Acks]]
         /\ attempt' \in [Txs -> [Peers -> 1..2]]
         /\ phase' \in [Txs -> Phases] /\ verified' \in [Txs -> SUBSET Peers]
         /\ broken' \in [Txs -> BOOLEAN]
         /\ \A u \in Txs : /\ phase'[u] = IF u = t THEN "done" ELSE phase[u]
                           /\ verified'[u] = IF u = t THEN {} ELSE verified[u]
         /\ \A u \in Txs, q \in Peers :
              /\ at'[u][q] = IF u = t THEN "done" ELSE at[u][q]
              /\ ack'[u][q] = IF u # t THEN ack[u][q]
                              ELSE IF ack[u][q] \in {"staged", "maybe"} THEN "maybe" ELSE "none"
<1> DEFINE g == [p \in Peers |-> IF p \in maybeStaged(t) THEN "maybe" ELSE "none"]
           d == [p \in Peers |-> "done"]
           n == [p \in Peers |-> 1]
<1>1. /\ at \in [Txs -> [Peers -> Steps]] /\ ack \in [Txs -> [Peers -> Acks]]
      /\ attempt \in [Txs -> [Peers -> 1..2]]
  BY DEF TypeOK
<1>2. g \in [Peers -> Acks] /\ d \in [Peers -> Steps] /\ n \in [Peers -> 1..2]
  BY DEF Acks, Steps
<1>3. /\ at' = [at EXCEPT ![t] = d] /\ ack' = [ack EXCEPT ![t] = g]
      /\ attempt' = [attempt EXCEPT ![t] = n]
  BY DEF return
<1>4. \A q \in Peers : /\ d[q] = "done"
                       /\ g[q] = IF ack[t][q] \in {"staged", "maybe"} THEN "maybe" ELSE "none"
  BY DEF maybeStaged, acked
<1> HIDE DEF g, d, n
<1>5. /\ at' \in [Txs -> [Peers -> Steps]]
      /\ \A u \in Txs, q \in Peers : at'[u][q] = IF u = t THEN d[q] ELSE at[u][q]
  BY <1>1, <1>2, <1>3, RowUpdate
<1>6. /\ ack' \in [Txs -> [Peers -> Acks]]
      /\ \A u \in Txs, q \in Peers : ack'[u][q] = IF u = t THEN g[q] ELSE ack[u][q]
  BY <1>1, <1>2, <1>3, RowUpdate
<1>7. attempt' \in [Txs -> [Peers -> 1..2]] BY <1>1, <1>2, <1>3, RowUpdate
<1>8. /\ phase' \in [Txs -> Phases] /\ verified' \in [Txs -> SUBSET Peers]
      /\ broken' \in [Txs -> BOOLEAN]
      /\ \A u \in Txs : /\ phase'[u] = IF u = t THEN "done" ELSE phase[u]
                        /\ verified'[u] = IF u = t THEN {} ELSE verified[u]
  BY DEF TypeOK, return, Phases
<1>9. \A u \in Txs, q \in Peers :
        /\ at'[u][q] = IF u = t THEN "done" ELSE at[u][q]
        /\ ack'[u][q] = IF u # t THEN ack[u][q]
                        ELSE IF ack[u][q] \in {"staged", "maybe"} THEN "maybe" ELSE "none"
  BY <1>4, <1>5, <1>6
<1> QED BY <1>5, <1>6, <1>7, <1>8, <1>9

\* A request made of its parts is a request.
LEMMA RequestType ==
  ASSUME NEW op \in {"stage", "commit", "abort"}, NEW t \in Txs, NEW p \in Peers, NEW n \in 1..2
  PROVE  request(op, t, p, n) \in Request
BY DEF request, Request

\* What an answered placement does.
LEMMA PlacementReplyEffect ==
  ASSUME TypeOK, NEW m \in net, NEW a \in Acks, placementReply(m, a)
  PROVE  /\ at' \in [Txs -> [Peers -> Steps]] /\ ack' \in [Txs -> [Peers -> Acks]]
         /\ attempt' \in [Txs -> [Peers -> 1..2]]
         /\ \A u \in Txs, q \in Peers :
              \/ at'[u][q] = at[u][q] /\ ack'[u][q] = ack[u][q]
              \/ u = m.tx /\ q = m.to /\ phase[u] = "placing" /\ ack'[u][q] = a
<1>1. m.tx \in Txs /\ m.to \in Peers BY DEF TypeOK, Request
<1>2. CASE phase[m.tx] = "placing" /\ report(m.tx, m.to, a)
  <2>1. /\ at' \in [Txs -> [Peers -> Steps]] /\ ack' \in [Txs -> [Peers -> Acks]]
        /\ attempt' \in [Txs -> [Peers -> 1..2]]
        /\ \A u \in Txs, q \in Peers :
             /\ at'[u][q] = IF u = m.tx /\ q = m.to THEN "done" ELSE at[u][q]
             /\ ack'[u][q] = IF u = m.tx /\ q = m.to THEN a ELSE ack[u][q]
    BY <1>1, <1>2, ReportEffect
  <2> QED BY <1>2, <2>1
<1>3. CASE UNCHANGED <<at, attempt, ack>> BY <1>3 DEF TypeOK
<1> QED BY <1>2, <1>3 DEF placementReply

\* What an answered commit or abort does.
LEMMA SettlementReplyEffect ==
  ASSUME TypeOK, NEW m \in net, NEW ok \in BOOLEAN, settlementReply(m, ok)
  PROVE  /\ at' \in [Txs -> [Peers -> Steps]]
         /\ verified' \in [Txs -> SUBSET Peers] /\ broken' \in [Txs -> BOOLEAN]
         /\ \A u \in Txs, q \in Peers :
              \/ at'[u][q] = at[u][q]
              \/ u = m.tx /\ q = m.to
         /\ \A u \in Txs : broken[u] => broken'[u]
         /\ at' = at \/ (m.op = "abort" /\ ~ok => broken'[m.tx])
         /\ \A u \in Txs : verified'[u] \subseteq
              verified[u] \cup {q \in Peers : u = m.tx /\ q = m.to /\ m.op = "commit" /\ ok}
<1>1. m.tx \in Txs /\ m.to \in Peers BY DEF TypeOK, Request
<1>2. CASE UNCHANGED <<at, broken, verified>> BY <1>2 DEF TypeOK
<1>3. ASSUME IF m.op = "abort" \/ ok THEN goto(m.tx, m.to, "done") ELSE goto(m.tx, m.to, "verify"),
             broken' = [broken EXCEPT ![m.tx] = @ \/ (m.op = "abort" /\ ~ok)],
             verified' = [verified EXCEPT ![m.tx] =
                            IF m.op = "commit" /\ ok THEN @ \cup {m.to} ELSE @]
      PROVE  /\ at' \in [Txs -> [Peers -> Steps]]
             /\ verified' \in [Txs -> SUBSET Peers] /\ broken' \in [Txs -> BOOLEAN]
             /\ \A u \in Txs, q \in Peers :
                  \/ at'[u][q] = at[u][q]
                  \/ u = m.tx /\ q = m.to
             /\ \A u \in Txs : broken[u] => broken'[u]
             /\ m.op = "abort" /\ ~ok => broken'[m.tx]
             /\ \A u \in Txs : verified'[u] \subseteq
                  verified[u] \cup {q \in Peers : u = m.tx /\ q = m.to /\ m.op = "commit" /\ ok}
  <2>1. "done" \in Steps /\ "verify" \in Steps BY DEF Steps
  <2>2. PICK s \in Steps : goto(m.tx, m.to, s) BY <1>3, <2>1
  <2>3. /\ at' \in [Txs -> [Peers -> Steps]]
        /\ \A u \in Txs, q \in Peers :
             at'[u][q] = IF u = m.tx /\ q = m.to THEN s ELSE at[u][q]
    BY <1>1, <2>2, GotoEffect
  <2>4. /\ broken' \in [Txs -> BOOLEAN] /\ \A u \in Txs : broken[u] => broken'[u]
        /\ m.op = "abort" /\ ~ok => broken'[m.tx]
    BY <1>1, <1>3 DEF TypeOK
  <2>5. verified' \in [Txs -> SUBSET Peers] BY <1>1, <1>3 DEF TypeOK
  <2>6. \A u \in Txs : verified'[u] \subseteq
          verified[u] \cup {q \in Peers : u = m.tx /\ q = m.to /\ m.op = "commit" /\ ok}
    BY <1>1, <1>3 DEF TypeOK
  <2> QED BY <2>3, <2>4, <2>5, <2>6
<1> QED BY <1>2, <1>3, Zenon DEF settlementReply

\* Every step of the protocol keeps the types.
LEMMA TypeStep == TypeOK /\ [Next]_vars => TypeOK'
<1> SUFFICES ASSUME TypeOK, [Next]_vars PROVE TypeOK' OBVIOUS
<1> USE DEF peerVars, sourceVars, keepSource
<1>1. ASSUME NEW t \in Txs, NEW p \in Peers, ProbeStranger(t, p) PROVE TypeOK'
  <2>1. PICK a \in {"cached", "failed"} : report(t, p, a) BY <1>1 DEF ProbeStranger
  <2>2. a \in Acks BY DEF Acks
  <2> QED BY <1>1, <2>1, <2>2, ReportEffect DEF ProbeStranger, TypeOK
<1>2. ASSUME NEW t \in Txs, NEW p \in Peers, Probe(t, p) PROVE TypeOK'
  <2>1. ASSUME NEW a \in {"stable", "failed"}, report(t, p, a), UNCHANGED net PROVE TypeOK'
    <3>1. a \in Acks BY DEF Acks
    <3> QED BY <1>2, <2>1, <3>1, ReportEffect DEF Probe, TypeOK
  <2>2. ASSUME net' = net \cup {request("stage", t, p, attempt[t][p])},
               goto(t, p, "stage"), UNCHANGED <<attempt, ack>>
        PROVE  TypeOK'
    <3>1. "stage" \in Steps BY DEF Steps
    <3>2. at' \in [Txs -> [Peers -> Steps]] BY <2>2, <3>1, GotoEffect
    <3>3. attempt[t][p] \in 1..2 BY DEF TypeOK
    <3>4. net' \subseteq Request BY <2>2, <3>3, RequestType DEF TypeOK
    <3> QED BY <1>2, <2>2, <3>2, <3>4 DEF Probe, TypeOK
  <2> QED BY <1>2, <2>1, <2>2 DEF Probe
<1>3. ASSUME NEW t \in Txs, NEW p \in Peers, PlacementLost(t, p) PROVE TypeOK'
  <2>1. CASE report(t, p, "maybe")
    <3>1. "maybe" \in Acks BY DEF Acks
    <3> QED BY <1>3, <2>1, <3>1, ReportEffect DEF PlacementLost, TypeOK
  <2>2. ASSUME attempt' = [attempt EXCEPT ![t][p] = 2], goto(t, p, "probe"), UNCHANGED ack
        PROVE  TypeOK'
    <3>1. "probe" \in Steps BY DEF Steps
    <3>2. at' \in [Txs -> [Peers -> Steps]] BY <2>2, <3>1, GotoEffect
    <3>3. attempt \in [Txs -> [Peers -> 1..2]] BY DEF TypeOK
    <3>4. attempt' \in [Txs -> [Peers -> 1..2]] BY <2>2, <3>3, EntryUpdate
    <3> QED BY <1>3, <2>2, <3>2, <3>4 DEF PlacementLost, TypeOK
  <2> QED BY <1>3, <2>1, <2>2 DEF PlacementLost, lost
<1>4. ASSUME NEW t \in Txs, NEW p \in Peers, SendSettlement(t, p) PROVE TypeOK'
  <2>1. "wait" \in Steps BY DEF Steps
  <2>2. at' \in [Txs -> [Peers -> Steps]] BY <1>4, <2>1, GotoEffect DEF SendSettlement
  <2>3. net' \subseteq Request BY <1>4, RequestType DEF SendSettlement, TypeOK
  <2> QED BY <1>4, <2>2, <2>3 DEF SendSettlement, TypeOK
<1>5. ASSUME NEW t \in Txs, NEW p \in Peers, SettlementLost(t, p) PROVE TypeOK'
  <2>0. "done" \in Steps /\ "verify" \in Steps BY DEF Steps
  <2>1. PICK s \in Steps : goto(t, p, s)
    <3>1. CASE phase[t] = "aborting" BY <1>5, <2>0, <3>1 DEF SettlementLost
    <3>2. CASE phase[t] # "aborting" BY <1>5, <2>0, <3>2 DEF SettlementLost
    <3> QED BY <3>1, <3>2
  <2>2. at' \in [Txs -> [Peers -> Steps]] BY <2>1, GotoEffect
  <2>3. broken' \in [Txs -> BOOLEAN] BY <1>5 DEF SettlementLost, TypeOK
  <2> QED BY <1>5, <2>2, <2>3 DEF SettlementLost, TypeOK
<1>6. ASSUME NEW t \in Txs, NEW p \in Peers, VerifyCommit(t, p) PROVE TypeOK'
  <2>1. "done" \in Steps BY DEF Steps
  <2>2. at' \in [Txs -> [Peers -> Steps]] BY <1>6, <2>1, GotoEffect DEF VerifyCommit
  <2>3. verified' \in [Txs -> SUBSET Peers]
    <3>1. CASE UNCHANGED verified BY <3>1 DEF TypeOK
    <3>2. CASE verified' = [verified EXCEPT ![t] = @ \cup {p}] BY <3>2 DEF TypeOK
    <3> QED BY <1>6, <3>1, <3>2 DEF VerifyCommit, verifyCommit
  <2> QED BY <1>6, <2>2, <2>3 DEF VerifyCommit, TypeOK
<1>7. ASSUME NEW t \in Txs, NEW p \in Peers, Repair(t, p) PROVE TypeOK'
  BY <1>7 DEF Repair, TypeOK
<1>8. ASSUME NEW t \in Txs, EndPlacement(t) PROVE TypeOK'
  <2>1. at' \in [Txs -> [Peers -> Steps]]
    <3>1. CASE UNCHANGED at BY <3>1 DEF TypeOK
    <3>2. CASE exchange(t, maybeStaged(t)) BY <3>2, ExchangeEffect
    <3> QED BY <1>8, <3>1, <3>2 DEF EndPlacement, abortEverywhere
  <2>2. phase' \in [Txs -> Phases] BY <1>8 DEF EndPlacement, abortEverywhere, TypeOK, Phases
  <2> QED BY <1>8, <2>1, <2>2 DEF EndPlacement, TypeOK
<1>9. ASSUME NEW t \in Txs, PlacementThrows(t) PROVE TypeOK'
  <2>1. return(t) BY <1>9 DEF PlacementThrows, answer
  <2>2. http' = [http EXCEPT ![t] = "500"] BY <1>9 DEF PlacementThrows, answer
  <2>3. local' \in [Txs -> {"admitted", "kept", "restored"}] BY <1>9 DEF PlacementThrows, TypeOK
  <2> QED BY <1>9, <2>1, <2>2, <2>3, ReturnEffect DEF PlacementThrows, TypeOK
<1>10. ASSUME NEW t \in Txs, Finalize(t) PROVE TypeOK'
  <2>1. at' \in [Txs -> [Peers -> Steps]]
    BY <1>10, ExchangeEffect DEF Finalize, abortEverywhere
  <2>2. phase' \in [Txs -> Phases] BY <1>10 DEF Finalize, abortEverywhere, TypeOK, Phases
  <2>3. broken' \in [Txs -> BOOLEAN] /\ token' \in [Txs -> BOOLEAN]
    BY <1>10 DEF Finalize, TypeOK
  <2>4. local' \in [Txs -> {"admitted", "kept", "restored"}] BY <1>10 DEF Finalize, TypeOK
  <2> QED BY <1>10, <2>1, <2>2, <2>3, <2>4 DEF Finalize, TypeOK
<1>11. ASSUME NEW t \in Txs, EndAbort(t) PROVE TypeOK'
  <2>1. return(t) BY <1>11 DEF EndAbort, answer
  <2>2. http' \in [Txs -> {"none", "200", "500", "503"}] BY <1>11 DEF EndAbort, answer, TypeOK
  <2>3. local' \in [Txs -> {"admitted", "kept", "restored"}] BY <1>11 DEF EndAbort, TypeOK
  <2> QED BY <1>11, <2>1, <2>2, <2>3, ReturnEffect DEF EndAbort, TypeOK
<1>12. ASSUME NEW t \in Txs, EndCommit(t) PROVE TypeOK'
  <2>1. return(t) BY <1>12 DEF EndCommit, answer
  <2>2. http' \in [Txs -> {"none", "200", "500", "503"}] BY <1>12 DEF EndCommit, answer, TypeOK
  <2>3. token' \in [Txs -> BOOLEAN] BY <1>12 DEF EndCommit, TypeOK
  <2> QED BY <1>12, <2>1, <2>2, <2>3, ReturnEffect DEF EndCommit, TypeOK
<1>13. ASSUME NEW t \in Txs, SourceCrash(t) PROVE TypeOK'
  <2>1. return(t) BY <1>13 DEF SourceCrash
  <2> QED BY <1>13, <2>1, ReturnEffect DEF SourceCrash, TypeOK
<1>14. ASSUME NEW t \in Txs, RepairClear(t) PROVE TypeOK'
  BY <1>14 DEF RepairClear, TypeOK
<1>15. ASSUME NEW m \in net, DeliverStage(m) PROVE TypeOK'
  <2>1. PICK a \in Acks : placementReply(m, a) BY <1>15 DEF DeliverStage, Acks
  <2>2. m.tx \in Txs /\ m.to \in Peers BY DEF TypeOK, Request
  <2>3. owners' \in [Peers -> SUBSET Txs] BY <1>15, <2>2 DEF DeliverStage, TypeOK
  <2> QED BY <1>15, <2>1, <2>3, PlacementReplyEffect DEF DeliverStage, TypeOK
<1>16. ASSUME NEW m \in net, DeliverCommit(m) PROVE TypeOK'
  <2>0. settlementReply(m, TRUE) \/ settlementReply(m, FALSE) \/ settlementReply(m, m.to \in durable)
    BY <1>16 DEF DeliverCommit
  <2>1. PICK ok \in BOOLEAN : settlementReply(m, ok)
    <3>1. TRUE \in BOOLEAN /\ FALSE \in BOOLEAN /\ (m.to \in durable) \in BOOLEAN OBVIOUS
    <3> QED BY <2>0, <3>1, Zenon
  <2>2. m.tx \in Txs /\ m.to \in Peers BY DEF TypeOK, Request
  <2>3. owners' \in [Peers -> SUBSET Txs] /\ durable' \subseteq Peers
    BY <1>16, <2>2 DEF DeliverCommit, TypeOK
  <2> QED BY <1>16, <2>1, <2>3, SettlementReplyEffect DEF DeliverCommit, TypeOK
<1>17. ASSUME NEW m \in net, DeliverAbort(m) PROVE TypeOK'
  <2>1. PICK ok \in BOOLEAN : settlementReply(m, ok) BY <1>17 DEF DeliverAbort
  <2>2. m.tx \in Txs /\ m.to \in Peers BY DEF TypeOK, Request
  <2>3. tomb' \in [Peers -> SUBSET Txs] BY <1>17, <2>2 DEF DeliverAbort, TypeOK
  <2>4. owners' \in [Peers -> SUBSET Txs]
    <3>1. CASE UNCHANGED owners BY <3>1 DEF TypeOK
    <3>2. CASE owners' = [owners EXCEPT ![m.to] = IF m.tx \in @ THEN owners[m.to] \ {m.tx} ELSE @]
      BY <2>2, <3>2 DEF TypeOK
    <3> QED BY <1>17, <3>1, <3>2 DEF DeliverAbort, remaining
  <2> QED BY <1>17, <2>1, <2>3, <2>4, SettlementReplyEffect DEF DeliverAbort, TypeOK
<1>18. ASSUME NEW p \in Peers, Expire(p) PROVE TypeOK'
  BY <1>18 DEF Expire, TypeOK
<1>19. ASSUME NEW p \in Peers, RestartPeer(p) PROVE TypeOK'
  BY <1>19 DEF RestartPeer, TypeOK
<1>20. CASE UNCHANGED vars BY <1>20 DEF vars, TypeOK
<1> QED BY <1>1, <1>2, <1>3, <1>4, <1>5, <1>6, <1>7, <1>8, <1>9, <1>10, <1>11, <1>12,
           <1>13, <1>14, <1>15, <1>16, <1>17, <1>18, <1>19, <1>20 DEF Next, Exchange, Handler

\* The steps outside the handler leave its phase, its copy and its answer alone.
LEMMA OtherSteps ==
  ASSUME [Next]_vars,
         ~ \E t \in Txs : Handler(t) \/ PlacementThrows(t) \/ SourceCrash(t)
  PROVE  UNCHANGED <<phase, local, http>>
<1>1. ASSUME NEW t \in Txs, RepairClear(t) PROVE UNCHANGED <<phase, local, http>>
  BY <1>1 DEF RepairClear
<1>2. ASSUME NEW t \in Txs, NEW p \in Peers, Exchange(t, p) \/ Repair(t, p)
      PROVE  UNCHANGED <<phase, local, http>>
  BY <1>2 DEF Exchange, sourceVars, keepSource, ProbeStranger, Probe, PlacementLost,
              SendSettlement, SettlementLost, VerifyCommit, Repair
<1>3. ASSUME NEW m \in net, DeliverStage(m) \/ DeliverCommit(m) \/ DeliverAbort(m)
      PROVE  UNCHANGED <<phase, local, http>>
  BY <1>3 DEF sourceVars, keepSource, DeliverStage, DeliverCommit, DeliverAbort
<1>4. ASSUME NEW p \in Peers, Expire(p) \/ RestartPeer(p)
      PROVE  UNCHANGED <<phase, local, http>>
  BY <1>4 DEF sourceVars, Expire, RestartPeer
<1>5. CASE UNCHANGED vars BY <1>5 DEF vars, sourceVars
<1> QED BY <1>1, <1>2, <1>3, <1>4, <1>5 DEF Next

\* The phase of a handler, its copy and its answer stay consistent.
LEMMA PhasedStep == IInv /\ [Next]_vars => Phased' /\ RejectedRestored'
<1> SUFFICES ASSUME IInv, [Next]_vars PROVE Phased' /\ RejectedRestored' OBVIOUS
<1> USE DEF Phased, RejectedRestored
<1>0. /\ phase \in [Txs -> Phases] /\ local \in [Txs -> {"admitted", "kept", "restored"}]
      /\ http \in [Txs -> {"none", "200", "500", "503"}]
      /\ Phased /\ RejectedRestored
  BY DEF IInv, TypeOK
<1>1. ASSUME NEW t \in Txs, EndPlacement(t) PROVE Phased' /\ RejectedRestored'
  BY <1>0, <1>1 DEF EndPlacement, abortEverywhere
<1>2. ASSUME NEW t \in Txs, Finalize(t) PROVE Phased' /\ RejectedRestored'
  BY <1>0, <1>2 DEF Finalize, abortEverywhere
<1>3. ASSUME NEW t \in Txs, EndAbort(t) PROVE Phased' /\ RejectedRestored'
  BY <1>0, <1>3 DEF EndAbort, answer, return
<1>4. ASSUME NEW t \in Txs, EndCommit(t) PROVE Phased' /\ RejectedRestored'
  BY <1>0, <1>4 DEF EndCommit, answer, return
<1>5. ASSUME NEW t \in Txs, PlacementThrows(t) PROVE Phased' /\ RejectedRestored'
  BY <1>0, <1>5 DEF PlacementThrows, answer, return
<1>6. ASSUME NEW t \in Txs, SourceCrash(t) PROVE Phased' /\ RejectedRestored'
  BY <1>0, <1>6 DEF SourceCrash, return
<1>7. CASE ~ \E t \in Txs : Handler(t) \/ PlacementThrows(t) \/ SourceCrash(t)
  BY <1>0, <1>7, OtherSteps
<1> QED BY <1>1, <1>2, <1>3, <1>4, <1>5, <1>6, <1>7 DEF Handler

\* A source never takes back its decision to keep a file.
LEMMA KeptStays ==
  ASSUME IInv, [Next]_vars, NEW u \in Txs, local[u] = "kept"
  PROVE  local'[u] = "kept"
<1>0. local \in [Txs -> {"admitted", "kept", "restored"}] /\ Phased BY DEF IInv, TypeOK
<1>1. ASSUME NEW t \in Txs, EndPlacement(t) \/ EndCommit(t) PROVE local' = local
  BY <1>1 DEF EndPlacement, EndCommit
<1>2. ASSUME NEW t \in Txs, Finalize(t) PROVE local'[u] = "kept"
  BY <1>0, <1>2 DEF Finalize
<1>3. ASSUME NEW t \in Txs, EndAbort(t) PROVE local'[u] = "kept"
  BY <1>0, <1>3 DEF EndAbort, Phased
<1>4. ASSUME NEW t \in Txs, PlacementThrows(t) PROVE local'[u] = "kept"
  BY <1>0, <1>4 DEF PlacementThrows, Phased
<1>5. ASSUME NEW t \in Txs, SourceCrash(t) PROVE local'[u] = "kept"
  BY <1>0, <1>5 DEF SourceCrash
<1>6. CASE ~ \E t \in Txs : Handler(t) \/ PlacementThrows(t) \/ SourceCrash(t)
  BY <1>6, OtherSteps
<1> QED BY <1>1, <1>2, <1>3, <1>4, <1>5, <1>6 DEF Handler

\* Permanent copies only come from a repair or a commit.
LEMMA DurableGrows ==
  ASSUME TypeOK, [Next]_vars
  PROVE  \/ durable' = durable
         \/ \E t \in Txs, p \in Peers : Repair(t, p) /\ durable' = durable \cup {p}
         \/ \E m \in net : DeliverCommit(m) /\ durable' = durable \cup {m.to}
<1> USE DEF peerVars
<1>1. ASSUME NEW t \in Txs, NEW p \in Peers, Exchange(t, p) PROVE durable' = durable
  BY <1>1 DEF Exchange, ProbeStranger, Probe, PlacementLost, SendSettlement,
              SettlementLost, VerifyCommit
<1>2. ASSUME NEW t \in Txs, Handler(t) \/ PlacementThrows(t) \/ SourceCrash(t) \/ RepairClear(t)
      PROVE  durable' = durable
  BY <1>2 DEF Handler, EndPlacement, Finalize, EndAbort, EndCommit, PlacementThrows,
              SourceCrash, RepairClear
<1>3. ASSUME NEW m \in net, DeliverStage(m) \/ DeliverAbort(m) PROVE durable' = durable
  BY <1>3 DEF DeliverStage, DeliverAbort
<1>4. ASSUME NEW p \in Peers, Expire(p) \/ RestartPeer(p) PROVE durable' = durable
  BY <1>4 DEF Expire, RestartPeer
<1>5. ASSUME NEW m \in net, DeliverCommit(m)
      PROVE  durable' = durable \/ durable' = durable \cup {m.to}
  BY <1>5 DEF DeliverCommit
<1>6. ASSUME NEW t \in Txs, NEW p \in Peers, Repair(t, p) PROVE durable' = durable \cup {p}
  BY <1>6 DEF Repair
<1>7. CASE UNCHANGED vars BY <1>7 DEF vars
<1> QED BY <1>1, <1>2, <1>3, <1>4, <1>5, <1>6, <1>7 DEF Next

\* New requests come from probes and settlements.
LEMMA NetGrows ==
  ASSUME TypeOK, [Next]_vars
  PROVE  \/ net' \subseteq net
         \/ \E t \in Txs, p \in Peers : net' = net \cup {request("stage", t, p, attempt[t][p])}
         \/ \E t \in Txs, p \in Peers : SendSettlement(t, p)
<1>1. ASSUME NEW t \in Txs, NEW p \in Peers,
             ProbeStranger(t, p) \/ PlacementLost(t, p) \/ SettlementLost(t, p)
               \/ VerifyCommit(t, p) \/ Repair(t, p)
      PROVE  net' \subseteq net
  BY <1>1 DEF ProbeStranger, PlacementLost, SettlementLost, VerifyCommit, Repair
<1>2. ASSUME NEW t \in Txs, NEW p \in Peers, Probe(t, p)
      PROVE  net' \subseteq net \/ net' = net \cup {request("stage", t, p, attempt[t][p])}
  BY <1>2 DEF Probe
<1>3. ASSUME NEW t \in Txs, Handler(t) \/ PlacementThrows(t) \/ SourceCrash(t) \/ RepairClear(t)
      PROVE  net' \subseteq net
  BY <1>3 DEF Handler, EndPlacement, Finalize, EndAbort, EndCommit, PlacementThrows,
              SourceCrash, RepairClear
<1>4. ASSUME NEW m \in net, DeliverStage(m) \/ DeliverCommit(m) \/ DeliverAbort(m)
      PROVE  net' \subseteq net
  BY <1>4 DEF DeliverStage, DeliverCommit, DeliverAbort
<1>5. ASSUME NEW p \in Peers, Expire(p) \/ RestartPeer(p) PROVE net' \subseteq net
  BY <1>5 DEF Expire, RestartPeer
<1>6. CASE UNCHANGED vars BY <1>6 DEF vars
<1> QED BY <1>1, <1>2, <1>3, <1>4, <1>5, <1>6 DEF Next, Exchange

\* Commits under way, and permanent copies, belong to sources that decided.
LEMMA DecidedStep == IInv /\ [Next]_vars => Decided' /\ DurableOnlyByDecision'
<1> SUFFICES ASSUME IInv, [Next]_vars PROVE Decided' /\ DurableOnlyByDecision' OBVIOUS
<1>0. TypeOK /\ Phased /\ Decided /\ DurableOnlyByDecision /\ net \subseteq Request
  BY DEF IInv, TypeOK
<1>1. Decided'
  <2> SUFFICES ASSUME NEW m \in net', m.op = "commit" PROVE local'[m.tx] = "kept"
    BY DEF Decided
  <2>1. CASE m \in net
    <3>1. m.tx \in Txs /\ local[m.tx] = "kept" BY <1>0, <2>1 DEF Decided, Request
    <3> QED BY <3>1, KeptStays
  <2>2. CASE m \notin net
    <3>1. PICK t \in Txs, p \in Peers : SendSettlement(t, p)
      BY <1>0, <2>2, NetGrows DEF request
    <3>2. m = request(IF phase[t] = "aborting" THEN "abort" ELSE "commit", t, p, 1)
      BY <2>2, <3>1 DEF SendSettlement
    <3>3. phase[t] = "committing" BY <3>1, <3>2 DEF SendSettlement, request
    <3>4. m.tx = t /\ local[t] = "kept" BY <1>0, <3>2, <3>3 DEF Phased, request
    <3> QED BY <3>4, KeptStays
  <2> QED BY <2>1, <2>2
<1>2. DurableOnlyByDecision'
  <2>1. CASE \E t \in Txs : local[t] = "kept"
    BY <2>1, KeptStays DEF DurableOnlyByDecision
  <2>2. CASE ~ \E t \in Txs : local[t] = "kept"
    <3>1. durable \subseteq Holders BY <1>0, <2>2 DEF DurableOnlyByDecision
    <3>2. durable' = durable
      BY <1>0, <2>2, DurableGrows DEF Repair, DeliverCommit, Decided, Request
    <3> QED BY <3>1, <3>2 DEF DurableOnlyByDecision
  <2> QED BY <2>1, <2>2
<1> QED BY <1>1, <1>2

\* Permanent copies stay.
LEMMA DurableStays == TypeOK /\ [Next]_vars => durable \subseteq durable'
BY DurableGrows

\* A source counts only copies that are permanent.
LEMMA EvidenceStep == IInv /\ [Next]_vars => Evidence'
<1> SUFFICES ASSUME IInv, [Next]_vars PROVE Evidence' OBVIOUS
<1>0. TypeOK /\ Evidence BY DEF IInv
<1>1. durable \subseteq durable' BY <1>0, DurableStays
<1>2. ASSUME \A u \in Txs, q \in Peers : ack'[u][q] = "stable" => ack[u][q] = "stable" \/ q \in durable,
             \A u \in Txs, q \in Peers : q \in verified'[u] => q \in verified[u] \/ q \in durable'
      PROVE  Evidence'
  BY <1>0, <1>1, <1>2 DEF Evidence
<1>3. ASSUME NEW t \in Txs, NEW p \in Peers, NEW a \in Acks, report(t, p, a),
             a = "stable" => p \in durable, UNCHANGED verified
      PROVE  Evidence'
  <2>1. \A u \in Txs, q \in Peers : ack'[u][q] = IF u = t /\ q = p THEN a ELSE ack[u][q]
    BY <1>0, <1>3, ReportEffect
  <2> QED BY <1>2, <1>3, <2>1
<1>4. ASSUME UNCHANGED <<ack, verified>> PROVE Evidence' BY <1>2, <1>4
<1>5. ASSUME NEW t \in Txs, return(t) PROVE Evidence'
  <2>1. \A u \in Txs, q \in Peers : ack'[u][q] = IF u # t THEN ack[u][q]
           ELSE IF ack[u][q] \in {"staged", "maybe"} THEN "maybe" ELSE "none"
    BY <1>0, <1>5, ReturnEffect
  <2>2. \A u \in Txs : verified'[u] = IF u = t THEN {} ELSE verified[u]
    BY <1>0, <1>5, ReturnEffect
  <2> QED BY <1>2, <2>1, <2>2
<1>6. ASSUME NEW t \in Txs, NEW p \in Peers, ProbeStranger(t, p) PROVE Evidence'
  BY <1>3, <1>6 DEF ProbeStranger, keepSource, Acks
<1>7. ASSUME NEW t \in Txs, NEW p \in Peers, Probe(t, p) PROVE Evidence'
  <2>1. "stable" \in Acks /\ "failed" \in Acks BY DEF Acks
  <2> QED BY <1>3, <1>4, <1>7, <2>1 DEF Probe, hasDurableReplica, keepSource
<1>8. ASSUME NEW t \in Txs, NEW p \in Peers, PlacementLost(t, p) PROVE Evidence'
  <2>1. "maybe" \in Acks BY DEF Acks
  <2> QED BY <1>3, <1>4, <1>8, <2>1 DEF PlacementLost, lost, keepSource
<1>9. ASSUME NEW t \in Txs, NEW p \in Peers,
             SendSettlement(t, p) \/ SettlementLost(t, p) \/ Repair(t, p)
      PROVE  Evidence'
  BY <1>4, <1>9 DEF SendSettlement, SettlementLost, Repair, sourceVars, keepSource
<1>10. ASSUME NEW t \in Txs, NEW p \in Peers, VerifyCommit(t, p) PROVE Evidence'
  <2>1. ack' = ack BY <1>10 DEF VerifyCommit
  <2>2. \A u \in Txs, q \in Peers : q \in verified'[u] => q \in verified[u] \/ q \in durable'
    <3>1. CASE UNCHANGED verified BY <3>1
    <3>2. CASE p \in durable /\ verified' = [verified EXCEPT ![t] = @ \cup {p}]
      BY <1>0, <1>1, <3>2 DEF TypeOK
    <3> QED BY <1>10, <3>1, <3>2 DEF VerifyCommit, verifyCommit, hasDurableReplica
  <2> QED BY <1>2, <2>1, <2>2
<1>11. ASSUME NEW t \in Txs, EndPlacement(t) \/ Finalize(t) \/ RepairClear(t) PROVE Evidence'
  BY <1>4, <1>11 DEF EndPlacement, Finalize, RepairClear
<1>12. ASSUME NEW t \in Txs, EndAbort(t) \/ EndCommit(t) \/ PlacementThrows(t) \/ SourceCrash(t)
       PROVE  Evidence'
  BY <1>5, <1>12 DEF EndAbort, EndCommit, PlacementThrows, SourceCrash, answer
<1>13. ASSUME NEW m \in net, DeliverStage(m) PROVE Evidence'
  <2>1. PICK a \in Acks : placementReply(m, a) /\ (a = "stable" => m.to \in durable)
    BY <1>13 DEF DeliverStage, Acks
  <2>2. \A u \in Txs, q \in Peers : \/ ack'[u][q] = ack[u][q]
                                    \/ q = m.to /\ ack'[u][q] = a
    BY <1>0, <2>1, PlacementReplyEffect
  <2> QED BY <1>2, <1>13, <2>1, <2>2 DEF DeliverStage, keepSource
<1>14. ASSUME NEW m \in net, DeliverCommit(m) \/ DeliverAbort(m) PROVE Evidence'
  <2>1. PICK ok \in BOOLEAN : settlementReply(m, ok) /\ (m.op = "commit" /\ ok => m.to \in durable')
    <3>1. CASE DeliverAbort(m)
      BY <3>1 DEF DeliverAbort
    <3>2. CASE settlementReply(m, TRUE) /\ durable' = durable \cup {m.to} BY <3>2
    <3>3. CASE settlementReply(m, FALSE) BY <3>3
    <3>4. CASE settlementReply(m, m.to \in durable) /\ durable' = durable
      <4>1. settlementReply(m, m.to \in durable) /\ durable' = durable BY <3>4
      <4>2. (m.to \in durable) \in BOOLEAN OBVIOUS
      <4> QED BY <4>1, <4>2, Zenon
    <3> QED BY <1>14, <3>1, <3>2, <3>3, <3>4 DEF DeliverCommit
  <2>2. \A u \in Txs : verified'[u] \subseteq
          verified[u] \cup {q \in Peers : u = m.tx /\ q = m.to /\ m.op = "commit" /\ ok}
    BY <1>0, <2>1, SettlementReplyEffect
  <2>3. ack' = ack BY <1>14 DEF DeliverCommit, DeliverAbort
  <2>4. \A u \in Txs, q \in Peers : q \in verified'[u] => q \in verified[u] \/ q \in durable'
    BY <2>1, <2>2
  <2> QED BY <1>2, <2>3, <2>4
<1>15. ASSUME NEW p \in Peers, Expire(p) \/ RestartPeer(p) PROVE Evidence'
  BY <1>4, <1>15 DEF Expire, RestartPeer, sourceVars
<1>16. CASE UNCHANGED vars BY <1>4, <1>16 DEF vars, sourceVars
<1> QED BY <1>6, <1>7, <1>8, <1>9, <1>10, <1>11, <1>12, <1>13, <1>14, <1>15, <1>16
  DEF Next, Exchange, Handler

\* A claim that a peer gave up never comes back while the peer keeps running.
LEMMA GoneStays ==
  ASSUME TypeOK, [Next]_vars, NEW u \in Txs, NEW q \in Peers \ Restarting, Gone(u, q)
  PROVE  Gone(u, q)'
<1> USE DEF Gone, peerVars
<1>1. CASE UNCHANGED <<owners, tomb>> BY <1>1
<1>2. ASSUME NEW t \in Txs, NEW p \in Peers, Exchange(t, p) PROVE UNCHANGED <<owners, tomb>>
  BY <1>2 DEF Exchange, ProbeStranger, Probe, PlacementLost, SendSettlement,
              SettlementLost, VerifyCommit
<1>3. ASSUME NEW t \in Txs, Handler(t) \/ PlacementThrows(t) \/ SourceCrash(t) \/ RepairClear(t)
      PROVE  UNCHANGED <<owners, tomb>>
  BY <1>3 DEF Handler, EndPlacement, Finalize, EndAbort, EndCommit, PlacementThrows,
              SourceCrash, RepairClear
<1>4. ASSUME NEW t \in Txs, NEW p \in Peers, Repair(t, p) PROVE Gone(u, q)'
  BY <1>4 DEF Repair, TypeOK
<1>5. ASSUME NEW m \in net PROVE m.tx \in Txs /\ m.to \in Peers BY DEF TypeOK, Request
<1>6. ASSUME NEW m \in net, DeliverStage(m) PROVE Gone(u, q)'
  <2>1. tomb' = tomb BY <1>6 DEF DeliverStage
  <2>2. CASE UNCHANGED owners BY <2>1, <2>2
  <2>3. CASE m.tx \notin tomb[m.to] /\ owners' = [owners EXCEPT ![m.to] = @ \cup {m.tx}]
    BY <1>5, <2>1, <2>3 DEF TypeOK
  <2> QED BY <1>6, <2>2, <2>3 DEF DeliverStage, wasAborted
<1>7. ASSUME NEW m \in net, DeliverCommit(m) PROVE Gone(u, q)'
  <2>1. tomb' = tomb BY <1>7 DEF DeliverCommit
  <2>2. CASE UNCHANGED owners BY <2>1, <2>2
  <2>3. CASE owners' = [owners EXCEPT ![m.to] = {}] BY <1>5, <2>1, <2>3 DEF TypeOK
  <2> QED BY <1>7, <2>2, <2>3 DEF DeliverCommit
<1>8. ASSUME NEW m \in net, DeliverAbort(m) PROVE Gone(u, q)'
  <2>1. tomb' = [tomb EXCEPT ![m.to] = @ \cup {m.tx}] BY <1>8 DEF DeliverAbort
  <2>2. u \in tomb'[q] BY <1>5, <2>1 DEF TypeOK
  <2>3. CASE UNCHANGED owners BY <2>2, <2>3
  <2>4. CASE owners' = [owners EXCEPT ![m.to] = IF m.tx \in @ THEN owners[m.to] \ {m.tx} ELSE @]
    BY <1>5, <2>2, <2>4 DEF TypeOK
  <2> QED BY <1>8, <2>3, <2>4 DEF DeliverAbort, remaining
<1>9. ASSUME NEW p \in Peers, Expire(p) PROVE Gone(u, q)'
  BY <1>9 DEF Expire, TypeOK
<1>10. ASSUME NEW p \in Peers, RestartPeer(p) PROVE Gone(u, q)'
  BY <1>10 DEF RestartPeer, TypeOK
<1>11. CASE UNCHANGED vars BY <1>1, <1>11 DEF vars
<1> QED BY <1>1, <1>2, <1>3, <1>4, <1>6, <1>7, <1>8, <1>9, <1>10, <1>11 DEF Next

\* An abort that was answered took the claim away.
LEMMA WithdrawnStep == IInv /\ [Next]_vars => Withdrawn'
<1> SUFFICES ASSUME IInv, [Next]_vars PROVE Withdrawn' OBVIOUS
<1>0. TypeOK /\ Phased /\ Decided /\ Withdrawn BY DEF IInv
<1>1. ASSUME \A u \in Txs, q \in Peers \ Restarting :
               Claims(u, q)' => Claims(u, q) \/ Gone(u, q)'
      PROVE  Withdrawn'
  <2> SUFFICES ASSUME NEW u \in Txs, NEW q \in Peers \ Restarting, Claims(u, q)'
               PROVE  Gone(u, q)'
    BY DEF Withdrawn
  <2>1. CASE Claims(u, q)
    <3>1. Gone(u, q) BY <1>0, <2>1 DEF Withdrawn
    <3> QED BY <1>0, <3>1, GoneStays
  <2> QED BY <1>1, <2>1
<1>2. ASSUME UNCHANGED <<ack, phase, broken, at, http>> PROVE Withdrawn'
  BY <1>1, <1>2 DEF Claims
<1>3. ASSUME NEW t \in Txs, NEW p \in Peers, phase[t] = "placing",
             UNCHANGED <<phase, broken, http>>,
             \A u \in Txs, q \in Peers :
               (u = t /\ q = p) \/ (ack'[u][q] = ack[u][q] /\ at'[u][q] = at[u][q])
      PROVE  Withdrawn'
  <2>1. http[t] = "none" BY <1>0, <1>3 DEF Phased
  <2>2. ASSUME NEW u \in Txs, NEW q \in Peers, Claims(u, q)' PROVE Claims(u, q)
    <3>1. CASE u = t BY <1>3, <2>1, <2>2, <3>1 DEF Claims
    <3>2. CASE u # t BY <1>3, <2>2, <3>2 DEF Claims
    <3> QED BY <3>1, <3>2
  <2> QED BY <1>1, <1>3, <2>2
<1>4. ASSUME NEW t \in Txs, return(t),
             \A u \in Txs : u # t => http'[u] = http[u],
             http'[t] = "503" =>
               phase[t] = "aborting" /\ ~broken[t] /\ \A q \in Peers : at[t][q] = "done"
      PROVE  Withdrawn'
  <2>1. \A u \in Txs, q \in Peers : ack'[u][q] = IF u # t THEN ack[u][q]
           ELSE IF ack[u][q] \in {"staged", "maybe"} THEN "maybe" ELSE "none"
    BY <1>0, <1>4, ReturnEffect
  <2>2. \A u \in Txs, q \in Peers : at'[u][q] = IF u = t THEN "done" ELSE at[u][q]
    BY <1>0, <1>4, ReturnEffect
  <2>3. \A u \in Txs : phase'[u] = IF u = t THEN "done" ELSE phase[u]
    BY <1>0, <1>4, ReturnEffect
  <2>4. \A u \in Txs : u # t => broken'[u] = broken[u] BY <1>0, <1>4 DEF return, TypeOK
  <2>5. ASSUME NEW u \in Txs, NEW q \in Peers, Claims(u, q)' PROVE Claims(u, q)
    <3>1. CASE u = t BY <1>4, <2>1, <2>3, <2>5, <3>1 DEF Claims
    <3>2. CASE u # t BY <1>4, <2>1, <2>2, <2>3, <2>4, <2>5, <3>2 DEF Claims
    <3> QED BY <3>1, <3>2
  <2> QED BY <1>1, <1>4, <2>5
<1>5. ASSUME NEW t \in Txs, NEW p \in Peers, NEW a \in Acks, report(t, p, a),
             phase[t] = "placing", UNCHANGED <<phase, broken, http>>
      PROVE  Withdrawn'
  <2>1. \A u \in Txs, q \in Peers :
          (u = t /\ q = p) \/ (ack'[u][q] = ack[u][q] /\ at'[u][q] = at[u][q])
    BY <1>0, <1>5, ReportEffect
  <2> QED BY <1>3, <1>5, <2>1
<1>6. ASSUME NEW t \in Txs, NEW p \in Peers, NEW s \in Steps, goto(t, p, s),
             phase[t] = "placing", UNCHANGED <<phase, broken, http, ack>>
      PROVE  Withdrawn'
  <2>1. \A u \in Txs, q \in Peers :
          (u = t /\ q = p) \/ (ack'[u][q] = ack[u][q] /\ at'[u][q] = at[u][q])
    BY <1>0, <1>6, GotoEffect
  <2> QED BY <1>3, <1>6, <2>1
<1> USE DEF peerVars, keepSource, sourceVars
<1>7. ASSUME NEW t \in Txs, NEW p \in Peers, ProbeStranger(t, p) PROVE Withdrawn'
  <2>1. PICK a \in {"cached", "failed"} : report(t, p, a) BY <1>7 DEF ProbeStranger
  <2>2. a \in Acks BY DEF Acks
  <2> QED BY <1>5, <1>7, <2>1, <2>2 DEF ProbeStranger
<1>8. ASSUME NEW t \in Txs, NEW p \in Peers, Probe(t, p) PROVE Withdrawn'
  <2>1. "stable" \in Acks /\ "failed" \in Acks /\ "stage" \in Steps BY DEF Acks, Steps
  <2> QED BY <1>5, <1>6, <1>8, <2>1 DEF Probe
<1>9. ASSUME NEW t \in Txs, NEW p \in Peers, PlacementLost(t, p) PROVE Withdrawn'
  <2>1. "maybe" \in Acks /\ "probe" \in Steps BY DEF Acks, Steps
  <2> QED BY <1>5, <1>6, <1>9, <2>1 DEF PlacementLost, lost
<1>10. ASSUME NEW t \in Txs, NEW p \in Peers, SendSettlement(t, p) PROVE Withdrawn'
  <2>1. "wait" \in Steps BY DEF Steps
  <2>2. \A u \in Txs, q \in Peers : at'[u][q] = IF u = t /\ q = p THEN "wait" ELSE at[u][q]
    BY <1>0, <1>10, <2>1, GotoEffect DEF SendSettlement
  <2>3. UNCHANGED <<ack, phase, broken, http>> BY <1>10 DEF SendSettlement
  <2>4. ASSUME NEW u \in Txs, NEW q \in Peers, Claims(u, q)' PROVE Claims(u, q)
    BY <2>2, <2>3, <2>4 DEF Claims
  <2> QED BY <1>1, <2>3, <2>4
<1>11. ASSUME NEW t \in Txs, NEW p \in Peers, SettlementLost(t, p) PROVE Withdrawn'
  <2>1. UNCHANGED <<ack, phase, http>> BY <1>11 DEF SettlementLost
  <2>2. PICK s \in Steps : goto(t, p, s)
    <3>1. "done" \in Steps /\ "verify" \in Steps BY DEF Steps
    <3>2. CASE phase[t] = "aborting" BY <1>11, <3>1, <3>2 DEF SettlementLost
    <3>3. CASE phase[t] # "aborting" BY <1>11, <3>1, <3>3 DEF SettlementLost
    <3> QED BY <3>2, <3>3
  <2>3. \A u \in Txs, q \in Peers : at'[u][q] = IF u = t /\ q = p THEN s ELSE at[u][q]
    BY <1>0, <2>2, GotoEffect
  <2>4. /\ \A u \in Txs : u # t => broken'[u] = broken[u]
        /\ phase[t] = "aborting" => broken'[t]
    BY <1>0, <1>11 DEF SettlementLost, TypeOK
  <2>5. ASSUME NEW u \in Txs, NEW q \in Peers, Claims(u, q)' PROVE Claims(u, q)
    BY <2>1, <2>3, <2>4, <2>5 DEF Claims
  <2> QED BY <1>1, <2>1, <2>5
<1>12. ASSUME NEW t \in Txs, NEW p \in Peers, VerifyCommit(t, p) PROVE Withdrawn'
  <2>1. "done" \in Steps BY DEF Steps
  <2>2. \A u \in Txs, q \in Peers : at'[u][q] = IF u = t /\ q = p THEN "done" ELSE at[u][q]
    BY <1>0, <1>12, <2>1, GotoEffect DEF VerifyCommit
  <2>3. UNCHANGED <<ack, phase, broken, http>> /\ phase[t] = "committing"
    BY <1>12 DEF VerifyCommit
  <2>4. ASSUME NEW u \in Txs, NEW q \in Peers, Claims(u, q)' PROVE Claims(u, q)
    BY <2>2, <2>3, <2>4 DEF Claims
  <2> QED BY <1>1, <2>3, <2>4
<1>13. ASSUME NEW t \in Txs, NEW A, exchange(t, A), phase[t] # "done",
              UNCHANGED <<ack, http>>,
              \A u \in Txs : u # t => phase'[u] = phase[u] /\ broken'[u] = broken[u],
              phase'[t] = "aborting" => A = maybeStaged(t)
       PROVE  Withdrawn'
  <2>1. \A u \in Txs, q \in Peers : at'[u][q] =
          IF u = t THEN (IF q \in A THEN "settle" ELSE "done") ELSE at[u][q]
    BY <1>0, <1>13, ExchangeEffect
  <2>2. http[t] = "none" BY <1>0, <1>13 DEF Phased
  <2>3. ASSUME NEW u \in Txs, NEW q \in Peers, Claims(u, q)' PROVE Claims(u, q)
    <3>1. CASE u = t BY <1>13, <2>1, <2>2, <2>3, <3>1 DEF Claims, maybeStaged, acked
    <3>2. CASE u # t BY <1>13, <2>1, <2>3, <3>2 DEF Claims
    <3> QED BY <3>1, <3>2
  <2> QED BY <1>1, <1>13, <2>3
<1>14. ASSUME NEW t \in Txs, EndPlacement(t) PROVE Withdrawn'
  <2>1. /\ UNCHANGED <<ack, broken, http>> /\ phase[t] = "placing"
        /\ \A u \in Txs : u # t => phase'[u] = phase[u]
    BY <1>0, <1>14 DEF EndPlacement, abortEverywhere, TypeOK
  <2>2. CASE exchange(t, maybeStaged(t)) BY <1>13, <2>1, <2>2
  <2>3. CASE UNCHANGED at /\ phase' = [phase EXCEPT ![t] = "finalizing"]
    <3>1. http[t] = "none" /\ phase'[t] = "finalizing" BY <1>0, <2>1, <2>3 DEF Phased, TypeOK
    <3>2. ASSUME NEW u \in Txs, NEW q \in Peers, Claims(u, q)' PROVE Claims(u, q)
      BY <2>1, <2>3, <3>1, <3>2 DEF Claims
    <3> QED BY <1>1, <2>1, <3>2
  <2> QED BY <1>14, <2>2, <2>3 DEF EndPlacement, abortEverywhere
<1>15. ASSUME NEW t \in Txs, Finalize(t) PROVE Withdrawn'
  <2>1. UNCHANGED <<ack, http>> /\ phase[t] = "finalizing" BY <1>15 DEF Finalize
  <2>2. \A u \in Txs : u # t => phase'[u] = phase[u] /\ broken'[u] = broken[u]
    BY <1>0, <1>15 DEF Finalize, abortEverywhere, TypeOK
  <2>3. CASE exchange(t, maybeStaged(t)) BY <1>13, <2>1, <2>2, <2>3
  <2>4. CASE exchange(t, acked(t, {"staged"})) /\ phase' = [phase EXCEPT ![t] = "committing"]
    <3>1. phase'[t] = "committing" BY <1>0, <2>4 DEF TypeOK
    <3> QED BY <1>13, <2>1, <2>2, <2>4, <3>1
  <2> QED BY <1>15, <2>3, <2>4 DEF Finalize, abortEverywhere
<1>16. ASSUME NEW t \in Txs, EndAbort(t) PROVE Withdrawn'
  <2>1. return(t) /\ phase[t] = "aborting" /\ Settled(t)
    BY <1>16 DEF EndAbort, answer
  <2>2. PICK c \in {"500", "503"} : http' = [http EXCEPT ![t] = c] /\ (c = "503" => ~broken[t])
    BY <1>16 DEF EndAbort, answer
  <2>3. \A u \in Txs : http'[u] = IF u = t THEN c ELSE http[u] BY <1>0, <2>2 DEF TypeOK
  <2> QED BY <1>4, <2>1, <2>2, <2>3 DEF Settled
<1>17. ASSUME NEW t \in Txs, EndCommit(t) \/ PlacementThrows(t) PROVE Withdrawn'
  <2>1. return(t) BY <1>17 DEF EndCommit, PlacementThrows, answer
  <2>2. PICK c \in {"200", "500"} : http' = [http EXCEPT ![t] = c]
    BY <1>17 DEF EndCommit, PlacementThrows, answer
  <2>3. \A u \in Txs : http'[u] = IF u = t THEN c ELSE http[u] BY <1>0, <2>2 DEF TypeOK
  <2> QED BY <1>4, <2>1, <2>2, <2>3
<1>18. ASSUME NEW t \in Txs, SourceCrash(t) PROVE Withdrawn'
  <2>1. return(t) /\ UNCHANGED http BY <1>18 DEF SourceCrash
  <2>2. http[t] = "none" BY <1>0, <1>18 DEF SourceCrash, Phased
  <2> QED BY <1>4, <2>1, <2>2
<1>19. ASSUME NEW m \in net, DeliverStage(m) PROVE Withdrawn'
  <2>1. PICK a \in Acks : placementReply(m, a) BY <1>19 DEF DeliverStage, Acks
  <2>2. m.tx \in Txs /\ m.to \in Peers BY <1>0 DEF TypeOK, Request
  <2>3. UNCHANGED <<phase, broken, http>> BY <1>19 DEF DeliverStage
  <2>4. CASE phase[m.tx] = "placing" /\ report(m.tx, m.to, a) BY <1>5, <2>2, <2>3, <2>4
  <2>5. CASE UNCHANGED <<at, ack>> BY <1>2, <2>3, <2>5
  <2> QED BY <2>1, <2>4, <2>5 DEF placementReply
<1>20. ASSUME NEW m \in net, NEW ok \in BOOLEAN, settlementReply(m, ok),
              UNCHANGED <<phase, ack, http>>,
              phase[m.tx] # "aborting" \/ Gone(m.tx, m.to)' \/ (m.op = "abort" /\ ~ok)
       PROVE  Withdrawn'
  <2>1. \A u \in Txs, q \in Peers : at'[u][q] = at[u][q] \/ (u = m.tx /\ q = m.to)
    BY <1>0, <1>20, SettlementReplyEffect, Zenon
  <2>2. \A u \in Txs : broken[u] => broken'[u] BY <1>0, <1>20, SettlementReplyEffect, Zenon
  <2>3. at' = at \/ (m.op = "abort" /\ ~ok => broken'[m.tx])
    BY <1>0, <1>20, SettlementReplyEffect, Zenon
  <2>4. ASSUME NEW u \in Txs, NEW q \in Peers, Claims(u, q)'
        PROVE  Claims(u, q) \/ Gone(u, q)'
    <3>1. CASE at'[u][q] = at[u][q] BY <1>20, <2>2, <2>4, <3>1 DEF Claims
    <3>2. CASE at'[u][q] # at[u][q]
      <4>1. u = m.tx /\ q = m.to BY <2>1, <3>2
      <4>2. m.op = "abort" /\ ~ok => broken'[m.tx] BY <2>3, <3>2
      <4>3. CASE http[u] = "503" BY <1>20, <2>4, <4>3 DEF Claims
      <4>4. CASE http[u] # "503"
        <5>1. phase[u] = "aborting" /\ ~broken'[u] BY <1>20, <2>4, <4>4 DEF Claims
        <5> QED BY <1>20, <4>1, <4>2, <5>1
      <4> QED BY <4>3, <4>4
    <3> QED BY <3>1, <3>2
  <2> QED BY <1>1, <2>4
<1>21. ASSUME NEW m \in net, DeliverCommit(m) PROVE Withdrawn'
  <2>1. PICK ok \in BOOLEAN : settlementReply(m, ok)
    <3>1. settlementReply(m, TRUE) \/ settlementReply(m, FALSE) \/ settlementReply(m, m.to \in durable)
      BY <1>21 DEF DeliverCommit
    <3>2. TRUE \in BOOLEAN /\ FALSE \in BOOLEAN /\ (m.to \in durable) \in BOOLEAN OBVIOUS
    <3> QED BY <3>1, <3>2, Zenon
  <2>2. UNCHANGED <<phase, ack, http>> /\ m.op = "commit" BY <1>21 DEF DeliverCommit
  <2>3. m.tx \in Txs /\ local[m.tx] = "kept" BY <1>0, <2>2 DEF Decided, TypeOK, Request
  <2>4. phase[m.tx] # "aborting" BY <1>0, <2>3 DEF Phased
  <2> QED BY <1>20, <2>1, <2>2, <2>4
<1>22. ASSUME NEW m \in net, DeliverAbort(m) PROVE Withdrawn'
  <2>1. m.tx \in Txs /\ m.to \in Peers BY <1>0 DEF TypeOK, Request
  <2>2. UNCHANGED <<phase, ack, http>> /\ m.op = "abort" BY <1>22 DEF DeliverAbort
  <2>3. CASE settlementReply(m, FALSE) BY <1>20, <2>2, <2>3
  <2>4. ASSUME settlementReply(m, TRUE),
               owners' = [owners EXCEPT ![m.to] = IF m.tx \in @ THEN owners[m.to] \ {m.tx} ELSE @]
        PROVE  Withdrawn'
    <3>1. tomb' = [tomb EXCEPT ![m.to] = @ \cup {m.tx}] BY <1>22 DEF DeliverAbort
    <3>2. Gone(m.tx, m.to)' BY <1>0, <2>1, <2>4, <3>1 DEF TypeOK, Gone
    <3> QED BY <1>20, <2>2, <2>4, <3>2
  <2> QED BY <1>22, <2>3, <2>4 DEF DeliverAbort, remaining
<1>23. ASSUME NEW t \in Txs, NEW p \in Peers, Repair(t, p) PROVE Withdrawn'
  BY <1>2, <1>23 DEF Repair
<1>24. ASSUME NEW t \in Txs, RepairClear(t) PROVE Withdrawn'
  BY <1>2, <1>24 DEF RepairClear
<1>25. ASSUME NEW p \in Peers, Expire(p) PROVE Withdrawn'
  BY <1>2, <1>25 DEF Expire
<1>26. ASSUME NEW p \in Peers, RestartPeer(p) PROVE Withdrawn'
  BY <1>2, <1>26 DEF RestartPeer
<1>27. CASE UNCHANGED vars BY <1>2, <1>27 DEF vars
<1> QED BY <1>7, <1>8, <1>9, <1>10, <1>11, <1>12, <1>14, <1>15, <1>16, <1>17, <1>18, <1>19,
           <1>21, <1>22, <1>23, <1>24, <1>25, <1>26, <1>27 DEF Next, Exchange, Handler

\* What EndCommit counts is permanent, so 200 stands for a real quorum.
LEMMA CommitCounts ==
  ASSUME IInv, NEW t \in Txs, EndCommit(t), http' # [http EXCEPT ![t] = "500"]
  PROVE  satisfied(durable) /\ http' = [http EXCEPT ![t] = "200"]
<1>1. TypeOK /\ Evidence BY DEF IInv
<1>2. /\ satisfied(acked(t, {"stable"}) \cup verified[t])
      /\ http' = [http EXCEPT ![t] = "200"]
  BY DEF EndCommit, answer
<1>3. acked(t, {"stable"}) \cup verified[t] \subseteq durable
  BY <1>1 DEF Evidence, acked, TypeOK
<1>4. durable \subseteq Peers BY <1>1 DEF TypeOK
<1> QED BY <1>2, <1>3, <1>4, QuorumMonotone

\* A quorum that was answered for stays.
LEMMA QuorumStep == IInv /\ [Next]_vars => QuorumOnSuccess'
<1> SUFFICES ASSUME IInv, [Next]_vars, NEW u \in Txs, http'[u] = "200"
             PROVE  local'[u] = "kept" /\ satisfied(durable)'
  BY DEF QuorumOnSuccess
<1>0. TypeOK /\ Phased /\ QuorumOnSuccess BY DEF IInv
<1>1. durable \subseteq durable' BY <1>0, DurableStays
<1>2. durable' \subseteq Peers BY <1>0, TypeStep DEF TypeOK
<1>3. satisfied(durable) => satisfied(durable')
  BY <1>1, <1>2, QuorumMonotone
<1>4. satisfied(durable)' = satisfied(durable')
  BY DEF satisfied, Required, Copies
<1>5. local[u] = "kept" /\ satisfied(durable)
  <2>1. CASE http[u] = "200" BY <1>0, <2>1 DEF QuorumOnSuccess
  <2>2. ASSUME http[u] # "200", NEW t \in Txs, EndCommit(t)
        PROVE  local[u] = "kept" /\ satisfied(durable)
    <3>1. http' # [http EXCEPT ![t] = "500"] BY <1>0, <2>2 DEF TypeOK
    <3>2. satisfied(durable) /\ http' = [http EXCEPT ![t] = "200"] BY <2>2, <3>1, CommitCounts
    <3>3. u = t BY <1>0, <2>2, <3>2 DEF TypeOK
    <3>4. local[t] = "kept" BY <1>0, <2>2 DEF EndCommit, Phased
    <3> QED BY <3>2, <3>3, <3>4
  <2>3. ASSUME http[u] # "200", NEW t \in Txs, EndAbort(t) PROVE FALSE
    BY <1>0, <2>3 DEF EndAbort, answer, TypeOK
  <2>4. ASSUME http[u] # "200", NEW t \in Txs, PlacementThrows(t) PROVE FALSE
    BY <1>0, <2>4 DEF PlacementThrows, answer, TypeOK
  <2>5. ASSUME http[u] # "200", NEW t \in Txs, EndPlacement(t) \/ Finalize(t) \/ SourceCrash(t)
        PROVE  FALSE
    BY <1>0, <2>5 DEF EndPlacement, Finalize, SourceCrash
  <2>6. CASE ~ \E t \in Txs : Handler(t) \/ PlacementThrows(t) \/ SourceCrash(t)
    <3>1. http' = http BY <2>6, OtherSteps
    <3> QED BY <2>1, <3>1
  <2> QED BY <2>1, <2>2, <2>3, <2>4, <2>5, <2>6 DEF Handler
<1> QED BY <1>3, <1>4, <1>5, KeptStays

\* The inductive invariant holds in every reachable state: every step of
\* every actor, in any order, keeps it.
THEOREM StrictInvariant == Spec => []IInv
<1>1. IInv /\ [Next]_vars => IInv'
  <2> SUFFICES ASSUME IInv, [Next]_vars PROVE IInv' OBVIOUS
  <2>1. TypeOK' BY TypeStep DEF IInv
  <2>2. Phased' /\ RejectedRestored' BY PhasedStep
  <2>3. Decided' /\ DurableOnlyByDecision' BY DecidedStep
  <2>4. Evidence' BY EvidenceStep
  <2>5. Withdrawn' BY WithdrawnStep
  <2>6. QuorumOnSuccess' BY QuorumStep
  <2> QED BY <2>1, <2>2, <2>3, <2>4, <2>5, <2>6 DEF IInv
<1> QED BY <1>1, InitIInv, PTL DEF Spec

-----------------------------------------------------------------------------
\* Every variable of the sources, the peers and the network keeps its type:
\* in particular no exchange makes a third attempt.
THEOREM StrictTypeCorrect == Spec => []TypeOK
<1>1. IInv => TypeOK BY DEF IInv
<1> QED BY <1>1, StrictInvariant, PTL

\* A client that got 200 from commitUploadedReplicas' verdict has its quorum
\* of permanent copies, for any number of peers, uploads and lost answers.
THEOREM StrictQuorumOnSuccess == Spec => []QuorumOnSuccess
<1>1. IInv => QuorumOnSuccess BY DEF IInv
<1> QED BY <1>1, StrictInvariant, PTL

\* A peer makes a copy permanent only after some source decided to keep the
\* file: finalizeAdmitted comes before any commit.
THEOREM StrictDurableOnlyByDecision == Spec => []DurableOnlyByDecision
<1>1. IInv => DurableOnlyByDecision BY DEF IInv
<1> QED BY <1>1, StrictInvariant, PTL

\* After 503 no peer that the source believed may have staged the file owns a
\* prepared copy for it, even if a stage request arrives after its abort.
THEOREM StrictCleanRejection == Spec => []CleanRejection
<1>1. IInv => CleanRejection
  <2> SUFFICES ASSUME IInv, NEW t \in Txs, http[t] = "503"
               PROVE  /\ local[t] = "restored"
                      /\ \A p \in maybeStaged(t) \ Restarting : t \notin owners[p]
    BY DEF CleanRejection
  <2>1. local[t] = "restored" BY DEF IInv, RejectedRestored
  <2>2. ASSUME NEW p \in maybeStaged(t) \ Restarting PROVE t \notin owners[p]
    <3>1. p \in Peers \ Restarting /\ ack[t][p] \in {"staged", "maybe"}
      BY DEF maybeStaged, acked
    <3> QED BY <3>1 DEF IInv, Withdrawn, Claims, Gone
  <2> QED BY <2>1, <2>2
<1> QED BY <1>1, StrictInvariant, PTL

\* The message protocol implements what UploadDecision promises a client:
\* every step of a handler, a peer or the network is one decision, one more
\* permanent copy, one answer, or nothing the client can see.
THEOREM StrictImplementsDecision == Spec => ImplementsDecision
<1> USE DEF Decision!Next, Decision!vars
<1>1. Init => Decision!Init BY DEF Init, Decision!Init
<1>2. IInv /\ [Next]_vars => [Decision!Next]_(Decision!vars)
  <2> SUFFICES ASSUME IInv, [Next]_vars PROVE [Decision!Next]_(Decision!vars) OBVIOUS
  <2>0. TypeOK /\ Phased /\ Decided BY DEF IInv
  <2>1. ASSUME NEW t \in Txs, EndPlacement(t) PROVE UNCHANGED Decision!vars
    BY <2>1 DEF EndPlacement, peerVars
  <2>2. ASSUME NEW t \in Txs, Finalize(t) PROVE Decision!Keep(t) \/ UNCHANGED Decision!vars
    BY <2>0, <2>2 DEF Finalize, peerVars, Phased, Decision!Keep
  <2>3. ASSUME NEW t \in Txs, EndAbort(t) PROVE Decision!Restore(t) \/ Decision!Keep(t)
    BY <2>0, <2>3 DEF EndAbort, answer, peerVars, Phased, Decision!Restore, Decision!Keep
  <2>4. ASSUME NEW t \in Txs, EndCommit(t) PROVE Decision!Succeed(t) \/ Decision!Fail(t)
    <3>1. local[t] = "kept" /\ http[t] = "none" /\ UNCHANGED <<local, durable>>
      BY <2>0, <2>4 DEF EndCommit, Phased, peerVars
    <3>2. CASE http' = [http EXCEPT ![t] = "500"] BY <3>1, <3>2 DEF Decision!Fail
    <3>3. CASE http' # [http EXCEPT ![t] = "500"]
      <4>1. satisfied(durable) /\ http' = [http EXCEPT ![t] = "200"] BY <2>4, <3>3, CommitCounts
      <4> QED BY <3>1, <4>1 DEF Decision!Succeed
    <3> QED BY <3>2, <3>3
  <2>5. ASSUME NEW t \in Txs, PlacementThrows(t) PROVE Decision!Restore(t) \/ Decision!Keep(t)
    BY <2>0, <2>5 DEF PlacementThrows, answer, peerVars, Phased, Decision!Restore, Decision!Keep
  <2>6. ASSUME NEW t \in Txs, SourceCrash(t) PROVE Decision!Keep(t) \/ UNCHANGED Decision!vars
    <3>1. CASE local[t] = "admitted" BY <2>6, <3>1 DEF SourceCrash, peerVars, Decision!Keep
    <3>2. CASE local[t] = "kept" BY <2>0, <2>6, <3>2 DEF SourceCrash, peerVars, TypeOK
    <3>3. phase[t] \in {"placing", "aborting", "finalizing", "committing"}
      BY <2>0, <2>6 DEF SourceCrash, TypeOK, Phases
    <3>4. local[t] = "admitted" \/ local[t] = "kept" BY <2>0, <3>3 DEF Phased
    <3> QED BY <3>1, <3>2, <3>4, Zenon
  <2>7. CASE ~ \E t \in Txs : Handler(t) \/ PlacementThrows(t) \/ SourceCrash(t)
    <3>1. UNCHANGED <<local, http>> BY <2>7, OtherSteps
    <3>2. CASE durable' = durable BY <3>1, <3>2
    <3>3. ASSUME NEW t \in Txs, NEW p \in Peers, Repair(t, p), durable' = durable \cup {p}
          PROVE  Decision!Replicate(p)
      BY <3>1, <3>3 DEF Repair, Decision!Replicate
    <3>4. ASSUME NEW m \in net, DeliverCommit(m), durable' = durable \cup {m.to}
          PROVE  Decision!Replicate(m.to) /\ m.to \in Peers
      <4>1. m.tx \in Txs /\ m.to \in Peers BY <2>0 DEF TypeOK, Request
      <4>2. local[m.tx] = "kept" BY <2>0, <3>4 DEF DeliverCommit, Decided
      <4> QED BY <3>1, <3>4, <4>1, <4>2 DEF Decision!Replicate
    <3> QED BY <2>0, <3>2, <3>3, <3>4, DurableGrows
  <2> QED BY <2>1, <2>2, <2>3, <2>4, <2>5, <2>6, <2>7 DEF Handler
<1> QED BY <1>1, <1>2, StrictInvariant, PTL DEF Spec, ImplementsDecision, Decision!Spec

\* A settlement takes a prepared copy from no upload but its own, except by
\* making it permanent: abortReplica removes one claim, commitReplica settles
\* all of them.
THEOREM StrictSharedStageSurvives == Spec => SharedStageSurvives
<1> DEFINE Survives == \A p \in Peers : \A t \in owners[p] \ owners'[p] :
                         net' # net => p \in durable' \/ t \in tomb'[p]
<1>1. TypeOK /\ [Next]_vars => [Survives]_vars
  <2> SUFFICES ASSUME TypeOK, Next PROVE Survives OBVIOUS
  <2>1. CASE UNCHANGED owners BY <2>1
  <2>2. CASE UNCHANGED net BY <2>2
  <2>3. ASSUME NEW t \in Txs, NEW p \in Peers, Exchange(t, p) PROVE UNCHANGED owners
    BY <2>3 DEF Exchange, ProbeStranger, Probe, PlacementLost, SendSettlement,
                SettlementLost, VerifyCommit, peerVars
  <2>4. ASSUME NEW t \in Txs, Handler(t) \/ PlacementThrows(t) \/ SourceCrash(t) \/ RepairClear(t)
        PROVE  UNCHANGED owners
    BY <2>4 DEF Handler, EndPlacement, Finalize, EndAbort, EndCommit, PlacementThrows,
                SourceCrash, RepairClear, peerVars
  <2>5. ASSUME NEW t \in Txs, NEW p \in Peers, Repair(t, p) PROVE UNCHANGED net
    BY <2>5 DEF Repair
  <2>6. ASSUME NEW p \in Peers, Expire(p) \/ RestartPeer(p) PROVE UNCHANGED net
    BY <2>6 DEF Expire, RestartPeer
  <2>7. ASSUME NEW m \in net PROVE m.tx \in Txs /\ m.to \in Peers BY DEF TypeOK, Request
  <2>8. ASSUME NEW m \in net, DeliverStage(m) PROVE Survives
    <3>1. \A p \in Peers : owners[p] \subseteq owners'[p]
      BY <2>7, <2>8 DEF DeliverStage, TypeOK
    <3> QED BY <3>1
  <2>9. ASSUME NEW m \in net, DeliverCommit(m) PROVE Survives
    <3>1. CASE durable' = durable \cup {m.to} /\ owners' = [owners EXCEPT ![m.to] = {}]
      <4>1. m.to \in durable' /\ \A p \in Peers : p # m.to => owners'[p] = owners[p]
        BY <2>7, <3>1 DEF TypeOK
      <4> QED BY <4>1
    <3> QED BY <2>1, <2>9, <3>1 DEF DeliverCommit
  <2>10. ASSUME NEW m \in net, DeliverAbort(m) PROVE Survives
    <3>1. tomb' = [tomb EXCEPT ![m.to] = @ \cup {m.tx}] BY <2>10 DEF DeliverAbort
    <3>2. m.tx \in tomb'[m.to] BY <2>7, <3>1 DEF TypeOK
    <3>3. CASE owners' = [owners EXCEPT ![m.to] = IF m.tx \in @ THEN owners[m.to] \ {m.tx} ELSE @]
      <4>1. \A p \in Peers : owners'[p] = IF p = m.to THEN owners[p] \ {m.tx} ELSE owners[p]
        BY <2>7, <3>3 DEF TypeOK
      <4> QED BY <3>2, <4>1
    <3> QED BY <2>1, <2>10, <3>3 DEF DeliverAbort, remaining
  <2> HIDE DEF Survives
  <2> QED BY <2>1, <2>2, <2>3, <2>4, <2>5, <2>6, <2>8, <2>9, <2>10 DEF Next
<1> QED BY <1>1, StrictTypeCorrect, PTL DEF Spec, SharedStageSurvives

=============================================================================
