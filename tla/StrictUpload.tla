--------------------------- MODULE StrictUpload ---------------------------
(***************************************************************************)
(* Strict uploads across nodes: the coordinator side of                    *)
(* api/uploadRoute.ts and storage/service.ts (placeCopy,                   *)
(* commitUploadedReplicas, abortUploadedReplicas, repairCopy), the wire of *)
(* storage/replicationProtocol.ts, and the peers' answers                  *)
(* (storage/replicaStage.ts, acceptReplica).                               *)
(*                                                                         *)
(* One content; every transaction is an upload of it on a source of its    *)
(* own, and all of them ask the same peers, so a prepared copy can be      *)
(* shared.  What the peer does under its CID lock is one step here;        *)
(* FileLifecycle has the steps inside it.  A call is a request in `net`    *)
(* and an answer: the source may stop waiting at any moment, the peer may  *)
(* work on a request long after that, and a request or its answer may      *)
(* never arrive.  A probe reads the peer and changes nothing, so it is     *)
(* one step.  The TTL of a prepared copy may pass at any moment.           *)
(***************************************************************************)
EXTENDS Naturals, FiniteSets

CONSTANTS
  Txs,         \* strict uploads, one source each
  Peers,       \* storageTargets of the content
  Holders,     \* peers that hold a permanent copy from the start
  Strangers,   \* peers that do not know the sources
  Restarting,  \* peers that may restart and lose their abort markers
  Crashing,    \* uploads whose source may crash
  Recoverable, \* peers whose stale session is reset and tried again
  SelfIsHolder,\* whether the sources are designated holders themselves
  AckQuorum    \* replication.ackQuorum

ASSUME NetworkAssumption ==
  /\ IsFiniteSet(Peers)
  /\ Holders \subseteq Peers /\ Strangers \subseteq Peers
  /\ Restarting \subseteq Peers /\ Recoverable \subseteq Peers
  /\ Crashing \subseteq Txs
  /\ Holders \cap Strangers = {}
  /\ SelfIsHolder \in BOOLEAN
  /\ AckQuorum \in Nat

VARIABLES
  durable,   \* peers with a permanent copy
  owners,    \* per peer: transactions of its prepared copy
  tomb,      \* per peer: transactions it remembers as aborted
  net,       \* requests on their way, or being worked on
  phase,     \* per upload: where its handler is
  at,        \* per upload and peer: where the exchange with that peer is
  attempt,   \* per upload and peer: first or second attempt
  ack,       \* per upload and peer: the ReplicationAck
  verified,  \* per upload: peers whose commit was verified
  broken,    \* per upload: whether a compensation failed
  local,     \* per upload: the source's own copy
  token,     \* per upload: settled token that repair may retry commit with
  http       \* per upload: the answer to the client

peerVars   == <<durable, owners, tomb>>
sourceVars == <<phase, at, attempt, ack, verified, broken, local, token, http>>
vars == <<peerVars, net, sourceVars>>

Request == [op : {"stage", "commit", "abort"}, tx : Txs, to : Peers, attempt : 1..2]
Acks   == {"none", "stable", "staged", "maybe", "failed", "cached"}
Steps  == {"probe", "stage", "settle", "wait", "verify", "done"}
Phases == {"placing", "aborting", "finalizing", "committing", "done"}

\* The state of sources, peers and messages is well formed; in particular
\* placeCopy makes at most two attempts.
TypeOK ==
  /\ durable \subseteq Peers
  /\ owners \in [Peers -> SUBSET Txs] /\ tomb \in [Peers -> SUBSET Txs]
  /\ net \subseteq Request
  /\ phase \in [Txs -> Phases]
  /\ at \in [Txs -> [Peers -> Steps]] /\ attempt \in [Txs -> [Peers -> 1..2]]
  /\ ack \in [Txs -> [Peers -> Acks]]
  /\ verified \in [Txs -> SUBSET Peers] /\ broken \in [Txs -> BOOLEAN]
  /\ local \in [Txs -> {"admitted", "kept", "restored"}]
  /\ token \in [Txs -> BOOLEAN]
  /\ http \in [Txs -> {"none", "200", "500", "503"}]

\* placeFile: the designated holders are the targets and perhaps the source.
Copies == Cardinality(Peers) + (IF SelfIsHolder THEN 1 ELSE 0)

\* requiredAcks: bounded by the copies that can exist.
Required == IF AckQuorum < 1 \/ Copies < 1 THEN 1
            ELSE IF AckQuorum < Copies THEN AckQuorum ELSE Copies

acked(t, kinds) == {p \in Peers : ack[t][p] \in kinds}
satisfied(replicas) == Cardinality(replicas) + 1 >= Required

request(op, t, p, n) == [op |-> op, tx |-> t, to |-> p, attempt |-> n]
-----------------------------------------------------------------------------
(* The source places copies (placeCopy, attemptPlaceCopy, replicate) *)

keepSource == <<verified, broken, local, token, http>>
goto(t, p, s) == at' = [at EXCEPT ![t][p] = s]

report(t, p, a) == /\ ack' = [ack EXCEPT ![t][p] = a]
                   /\ goto(t, p, "done")
                   /\ UNCHANGED attempt

\* recoverPeerSession: a configured peer, out of its cooldown, is redialled.
recoverPeerSession(p) == p \in Recoverable

\* The answer was lost.  A stale session is reset and the placement tried
\* once more, unless the peer is in its recovery cooldown; otherwise the
\* attempt is reported as possibly staged.
lost(t, p) ==
  \/ /\ attempt[t][p] = 1 /\ recoverPeerSession(p)
     /\ attempt' = [attempt EXCEPT ![t][p] = 2]
     /\ goto(t, p, "probe")
     /\ UNCHANGED ack
  \/ report(t, p, "maybe")

\* A stranger refuses, and is offered an unpinned copy instead.
ProbeStranger(t, p) ==
  /\ phase[t] = "placing" /\ at[t][p] = "probe" /\ p \in Strangers
  /\ report(t, p, "cached") \/ report(t, p, "failed")
  /\ UNCHANGED <<peerVars, net, phase, keepSource>>

\* The peer's answer to `have`: a prepared copy does not count.
hasDurableReplica(p) == p \in durable

\* probeHave and probeAccept: a permanent copy is enough, a full peer fails,
\* and otherwise the stage request is sent.
Probe(t, p) ==
  /\ phase[t] = "placing" /\ at[t][p] = "probe" /\ p \notin Strangers
  /\ \/ hasDurableReplica(p) /\ report(t, p, "stable") /\ UNCHANGED net
     \/ ~hasDurableReplica(p) /\ report(t, p, "failed") /\ UNCHANGED net
     \/ /\ ~hasDurableReplica(p)
        /\ net' = net \cup {request("stage", t, p, attempt[t][p])}
        /\ goto(t, p, "stage")
        /\ UNCHANGED <<attempt, ack>>
  /\ UNCHANGED <<peerVars, phase, keepSource>>

\* A probe or the stage itself times out, or its stream breaks.
PlacementLost(t, p) ==
  /\ phase[t] = "placing" /\ at[t][p] \in {"probe", "stage"}
  /\ lost(t, p)
  /\ UNCHANGED <<peerVars, net, phase, keepSource>>

\* The exchanges that the next phase has with the peers of A.
exchange(t, A) ==
  at' = [at EXCEPT ![t] = [p \in Peers |-> IF p \in A THEN "settle" ELSE "done"]]

\* stagedPeers(report, {includeFailed: true})
maybeStaged(t) == acked(t, {"staged", "maybe"})

abortEverywhere(t) == /\ phase' = [phase EXCEPT ![t] = "aborting"]
                      /\ exchange(t, maybeStaged(t))

Settled(t) == \A p \in Peers : at[t][p] = "done"

\* Every file of the request must reach its quorum; another file may miss it.
EndPlacement(t) ==
  /\ phase[t] = "placing" /\ Settled(t)
  /\ \/ /\ satisfied(acked(t, {"stable", "staged"}))
        /\ phase' = [phase EXCEPT ![t] = "finalizing"]
        /\ UNCHANGED at
     \/ abortEverywhere(t)
  /\ UNCHANGED <<peerVars, net, attempt, ack, verified, broken, local, token, http>>

\* The handler returns; of its variables only what it had to withdraw is
\* kept, for CleanRejection.
return(t) == /\ phase' = [phase EXCEPT ![t] = "done"]
             /\ at' = [at EXCEPT ![t] = [p \in Peers |-> "done"]]
             /\ attempt' = [attempt EXCEPT ![t] = [p \in Peers |-> 1]]
             /\ ack' = [ack EXCEPT ![t] =
                  [p \in Peers |-> IF p \in maybeStaged(t) THEN "maybe" ELSE "none"]]
             /\ verified' = [verified EXCEPT ![t] = {}]
             /\ broken' = [broken EXCEPT ![t] = FALSE]

answer(t, code) == http' = [http EXCEPT ![t] = code] /\ return(t)

\* Placement threw: the local copy is undone at once (or the rollback fails
\* too); nobody withdraws the stages, which expire.
PlacementThrows(t) ==
  /\ phase[t] = "placing"
  /\ \E l \in {"restored", "kept"} : local' = [local EXCEPT ![t] = l]
  /\ answer(t, "500")
  /\ UNCHANGED <<peerVars, net, token>>

-----------------------------------------------------------------------------
(* The decision: abort, or finalize and commit *)

\* Mutant: prepared copies are made permanent before the local decision.
FinalizeAfterCommit(t) ==
  /\ phase[t] = "finalizing"
  /\ phase' = [phase EXCEPT ![t] = "committing"]
  /\ exchange(t, acked(t, {"staged"}))
  /\ UNCHANGED <<peerVars, net, attempt, ack, verified, broken, local, token, http>>

\* finalizeAdmitted: the local decision comes before any remote commit.
Finalize(t) ==
  /\ phase[t] = "finalizing"
  /\ \/ /\ local' = [local EXCEPT ![t] = "kept"]
        /\ token' = [token EXCEPT ![t] = TRUE]
        /\ phase' = [phase EXCEPT ![t] = "committing"]
        /\ exchange(t, acked(t, {"staged"}))
        /\ UNCHANGED broken
     \/ /\ broken' = [broken EXCEPT ![t] = TRUE]
        /\ abortEverywhere(t)
        /\ UNCHANGED <<local, token>>
  /\ UNCHANGED <<peerVars, net, attempt, ack, verified, http>>

\* requestAbort / requestCommit
SendSettlement(t, p) ==
  /\ phase[t] \in {"aborting", "committing"} /\ at[t][p] = "settle"
  /\ net' = net \cup
       {request(IF phase[t] = "aborting" THEN "abort" ELSE "commit", t, p, 1)}
  /\ goto(t, p, "wait")
  /\ UNCHANGED <<peerVars, phase, attempt, ack, keepSource>>

\* No answer: an abort has failed, a commit is verified with `have`.
SettlementLost(t, p) ==
  /\ phase[t] \in {"aborting", "committing"} /\ at[t][p] = "wait"
  /\ goto(t, p, IF phase[t] = "aborting" THEN "done" ELSE "verify")
  /\ broken' = [broken EXCEPT ![t] = @ \/ phase[t] = "aborting"]
  /\ UNCHANGED <<peerVars, net, phase, attempt, ack, verified, local, token, http>>

\* Mutant: the stage acknowledgement is taken for the commit.
believeStage(t, p) == verified' = [verified EXCEPT ![t] = @ \cup {p}]
verifyCommit(t, p) ==
  \/ hasDurableReplica(p) /\ verified' = [verified EXCEPT ![t] = @ \cup {p}]
  \/ UNCHANGED verified                        \* not permanent, or no answer

VerifyCommit(t, p) ==
  /\ phase[t] = "committing" /\ at[t][p] = "verify"
  /\ verifyCommit(t, p)
  /\ goto(t, p, "done")
  /\ UNCHANGED <<peerVars, net, phase, attempt, ack, broken, local, token, http>>

\* 503 only when every compensation succeeded.  A local rollback that fails
\* leaves the file, and its unsettled token to the recovery.
EndAbort(t) ==
  /\ phase[t] = "aborting" /\ Settled(t)
  /\ \/ /\ local' = [local EXCEPT ![t] = "restored"]
        /\ answer(t, IF broken[t] THEN "500" ELSE "503")
     \/ /\ local' = [local EXCEPT ![t] = "kept"]
        /\ answer(t, "500")
  /\ UNCHANGED <<peerVars, net, token>>

\* Mutant: the handler waits for every peer, not for the quorum.
EndCommitIfAll(t) ==
  /\ phase[t] = "committing" /\ Settled(t)
  /\ verified[t] = acked(t, {"staged"})
  /\ answer(t, "200")
  /\ token' = [token EXCEPT ![t] = FALSE]
  /\ UNCHANGED <<peerVars, net, local>>

\* Mutant: the copies counted are the ones that were prepared.
EndCommitPrepared(t) ==
  /\ phase[t] = "committing" /\ Settled(t)
  /\ IF satisfied(acked(t, {"stable", "staged"})) THEN answer(t, "200") ELSE answer(t, "500")
  /\ token' = [token EXCEPT ![t] = FALSE]
  /\ UNCHANGED <<peerVars, net, local>>

\* 200 only while the verified copies still satisfy the quorum, here and for
\* every other file; the token stays on what was not verified, or when the
\* write that clears it fails.
EndCommit(t) ==
  /\ phase[t] = "committing" /\ Settled(t)
  /\ IF satisfied(acked(t, {"stable"}) \cup verified[t])
       THEN /\ answer(t, "200") \/ answer(t, "500")
            /\ token' = [token EXCEPT ![t] = FALSE] \/ UNCHANGED token
       ELSE answer(t, "500") /\ UNCHANGED token
  /\ UNCHANGED <<peerVars, net, local>>

\* The source dies.  Its restart keeps the record, drops an unsettled token
\* and leaves a settled one to the repair job.
SourceCrash(t) ==
  /\ t \in Crashing /\ phase[t] # "done"
  /\ return(t)
  /\ local' = [local EXCEPT ![t] = "kept"]
  /\ UNCHANGED <<peerVars, net, token, http>>

\* repairCopy: a settled token first tries commit again, then store, which
\* leaves a prepared copy to its transactions.  The source asks for as long as
\* it keeps the file, so a late request is the same as a late repair.
Repair(t, p) ==
  /\ phase[t] = "done" /\ local[t] = "kept" /\ p \notin Strangers
  /\ p \notin durable
  /\ owners[p] = {} \/ (token[t] /\ t \in owners[p])
  /\ durable' = durable \cup {p}
  /\ owners' = [owners EXCEPT ![p] = {}]
  /\ UNCHANGED <<tomb, net, sourceVars>>

\* clearSettledAdmission, once every target answered `have`.
RepairClear(t) ==
  /\ phase[t] = "done" /\ local[t] = "kept" /\ token[t]
  /\ \A p \in Peers : hasDurableReplica(p)
  /\ token' = [token EXCEPT ![t] = FALSE]
  /\ UNCHANGED <<peerVars, net, phase, at, attempt, ack, verified, broken, local, http>>

-----------------------------------------------------------------------------
(* The peer answers (respond) *)

\* A reply reaches a source that still waits for it, or is lost.
placementReply(m, a) ==
  \/ /\ phase[m.tx] = "placing" /\ at[m.tx][m.to] = "stage"
     /\ attempt[m.tx][m.to] = m.attempt
     /\ report(m.tx, m.to, a)
  \/ UNCHANGED <<at, attempt, ack>>

\* Mutant: a late stage does not look for the abort that overtook it.
neverAborted(p, t) == FALSE
wasAborted(p, t) == t \in tomb[p]

\* stageReplica; the peer may also fail to pull the blocks, or be full.
DeliverStage(m) ==
  /\ m \in net /\ m.op = "stage" /\ net' = net \ {m}
  /\ \/ /\ wasAborted(m.to, m.tx)
        /\ placementReply(m, "failed")
        /\ UNCHANGED owners
     \/ /\ placementReply(m, "failed") \/ placementReply(m, "maybe")
        /\ UNCHANGED owners
     \/ /\ ~wasAborted(m.to, m.tx) /\ m.to \in durable
        /\ placementReply(m, "stable")
        /\ UNCHANGED owners
     \/ /\ ~wasAborted(m.to, m.tx) /\ m.to \notin durable
        /\ owners' = [owners EXCEPT ![m.to] = @ \cup {m.tx}]
        /\ placementReply(m, "staged")
  /\ UNCHANGED <<durable, tomb, phase, keepSource>>

\* A commit or abort is answered; the source may have stopped waiting.
settlementReply(m, ok) ==
  \/ /\ at[m.tx][m.to] = "wait" /\ phase[m.tx] # "done"
     /\ IF m.op = "abort" \/ ok THEN goto(m.tx, m.to, "done")
                                ELSE goto(m.tx, m.to, "verify")
     /\ broken' = [broken EXCEPT ![m.tx] = @ \/ (m.op = "abort" /\ ~ok)]
     /\ verified' = [verified EXCEPT ![m.tx] =
                       IF m.op = "commit" /\ ok THEN @ \cup {m.to} ELSE @]
  \/ UNCHANGED <<at, broken, verified>>

\* commitReplica: one commit settles every transaction sharing the copy, and
\* a repeated one is answered from the permanent record.
DeliverCommit(m) ==
  /\ m \in net /\ m.op = "commit" /\ net' = net \ {m}
  /\ \/ /\ m.tx \in owners[m.to]
        /\ durable' = durable \cup {m.to}
        /\ owners' = [owners EXCEPT ![m.to] = {}]
        /\ settlementReply(m, TRUE)
     \/ /\ m.tx \notin owners[m.to]
        /\ settlementReply(m, m.to \in durable)
        /\ UNCHANGED <<durable, owners>>
     \/ /\ settlementReply(m, FALSE)              \* the peer is busy
        /\ UNCHANGED <<durable, owners>>
  /\ UNCHANGED <<tomb, phase, attempt, ack, local, token, http>>

\* Mutant: an abort withdraws the copy whoever else depends on it.
othersOwn(p, t) == {}
remaining(p, t) == owners[p] \ {t}

\* abortReplica: the last claim takes the prepared copy with it.
DeliverAbort(m) ==
  /\ m \in net /\ m.op = "abort" /\ net' = net \ {m}
  /\ tomb' = [tomb EXCEPT ![m.to] = @ \cup {m.tx}]
  /\ \/ /\ owners' = [owners EXCEPT ![m.to] = IF m.tx \in @ THEN remaining(m.to, m.tx) ELSE @]
        /\ settlementReply(m, TRUE)
     \/ /\ m.tx \in owners[m.to] /\ UNCHANGED owners   \* its record was not written
        /\ settlementReply(m, FALSE)
  /\ UNCHANGED <<durable, phase, attempt, ack, local, token, http>>

\* The collector ends a prepared copy whose TTL passed.
Expire(p) ==
  /\ owners[p] # {}
  /\ owners' = [owners EXCEPT ![p] = {}]
  /\ UNCHANGED <<durable, tomb, net, sourceVars>>

\* Records survive a restart, abort markers do not.  Their own TTL is three
\* request timeouts, longer than any stage request they could still meet.
RestartPeer(p) ==
  /\ p \in Restarting /\ tomb[p] # {}
  /\ tomb' = [tomb EXCEPT ![p] = {}]
  /\ UNCHANGED <<durable, owners, net, sourceVars>>

-----------------------------------------------------------------------------
Init ==
  /\ durable = Holders
  /\ owners = [p \in Peers |-> {}] /\ tomb = [p \in Peers |-> {}]
  /\ net = {}
  /\ phase = [t \in Txs |-> "placing"]
  /\ at = [t \in Txs |-> [p \in Peers |-> "probe"]]
  /\ attempt = [t \in Txs |-> [p \in Peers |-> 1]]
  /\ ack = [t \in Txs |-> [p \in Peers |-> "none"]]
  /\ verified = [t \in Txs |-> {}] /\ broken = [t \in Txs |-> FALSE]
  /\ local = [t \in Txs |-> "admitted"] /\ token = [t \in Txs |-> FALSE]
  /\ http = [t \in Txs |-> "none"]

Exchange(t, p) == \/ ProbeStranger(t, p) \/ Probe(t, p) \/ PlacementLost(t, p)
                  \/ SendSettlement(t, p) \/ SettlementLost(t, p) \/ VerifyCommit(t, p)
Handler(t) == \/ EndPlacement(t) \/ Finalize(t) \/ EndAbort(t) \/ EndCommit(t)

Next ==
  \/ \E t \in Txs : \/ Handler(t) \/ PlacementThrows(t) \/ SourceCrash(t) \/ RepairClear(t)
                    \/ \E p \in Peers : Exchange(t, p) \/ Repair(t, p)
  \/ \E m \in net : DeliverStage(m) \/ DeliverCommit(m) \/ DeliverAbort(m)
  \/ \E p \in Peers : Expire(p) \/ RestartPeer(p)

Spec == Init /\ [][Next]_vars

\* Every call has a deadline, so an exchange never waits for ever; the
\* collector runs on a schedule and finds a prepared copy past its TTL.
Fairness == /\ \A t \in Txs : WF_vars(Handler(t))
            /\ \A t \in Txs, p \in Peers : WF_vars(Exchange(t, p))
            /\ \A p \in Peers : WF_vars(Expire(p))

LiveSpec == Spec /\ Fairness

-----------------------------------------------------------------------------
(* Properties *)

\* A client that got 200 has its quorum of permanent copies, although
\* acknowledgements get lost, prepared copies expire and are shared.
QuorumOnSuccess == \A t \in Txs : http[t] = "200" => local[t] = "kept" /\ satisfied(durable)

\* A peer keeps a copy for good only because some source decided to keep its
\* own: a prepared copy never becomes permanent for a rejected upload.
DurableOnlyByDecision ==
  durable \subseteq Holders \/ \E t \in Txs : local[t] = "kept"

\* 503 means a clean rejection: the source restored its copy, and no peer that
\* may have prepared one owns it for this upload, now or later, unless it
\* restarted ("withdraws every prepared copy").
CleanRejection ==
  \A t \in Txs : http[t] = "503" =>
    /\ local[t] = "restored"
    /\ \A p \in maybeStaged(t) \ Restarting : t \notin owners[p]

\* "The source withdraws every prepared copy, including peers whose stage ack
\* was lost": no peer that kept running owns a copy for a rejected upload.
EveryStageWithdrawn ==
  \A t \in Txs : http[t] = "503" => \A p \in Peers \ Restarting : t \notin owners[p]

\* The settlement of one upload (a message is consumed) never takes a prepared
\* copy away from another that shares it, except by making it permanent.
SharedStageSurvives ==
  [][\A p \in Peers : \A t \in owners[p] \ owners'[p] :
       net' # net => p \in durable' \/ t \in tomb'[p]]_vars

\* Every upload is answered, unless its source dies: each exchange with a peer
\* has a deadline and at most one retry.
UploadAnswered ==
  \A t \in Txs : phase[t] = "placing" ~> http[t] # "none" \/ (t \in Crashing /\ phase[t] = "done")

\* No prepared copy stays prepared for ever, whatever happened to its source.
StagesSettle == \A p \in Peers : owners[p] # {} ~> owners[p] = {}

\* Both ends of an upload come to rest, whatever is lost or dies.
UploadsSettle == UploadAnswered /\ StagesSettle

\* The protocol implements the promise of UploadDecision.
Decision == INSTANCE UploadDecision
ImplementsDecision == Decision!Spec
=============================================================================
