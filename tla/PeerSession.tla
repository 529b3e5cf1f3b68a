---------------------------- MODULE PeerSession ----------------------------
(***************************************************************************)
(* The libp2p session to one configured peer and the two things that reset *)
(* it: reactive recovery after a failed replication call                   *)
(* (peering/peerSessionRecovery.ts), and the scheduled peering pass        *)
(* (peering.cron.ts).  They do not know of each other.  Peers are handled  *)
(* independently, so one peer is modelled.                                 *)
(*                                                                         *)
(* A session may go stale without being closed: calls and pings on it fail *)
(* while libp2p reports the peer as connected.                             *)
(***************************************************************************)
EXTENDS Naturals

CONSTANTS Calls,
          Cooldown,      \* RECOVERY_COOLDOWN_MS
          RecoveryTime,  \* at most PEER_HANG_UP_TIMEOUT_MS + PEER_DIAL_TIMEOUT_MS
          MaxTime, MaxFaults  \* bounds

TimeAssumption ==
  /\ {Cooldown, RecoveryTime, MaxTime, MaxFaults} \subseteq Nat
  /\ 0 < RecoveryTime /\ RecoveryTime < Cooldown

Never == 0  \* now starts later than any cooldown

VARIABLES now, faults,
          peerUp,         \* the peer accepts connections
          session,        \* the open session, 0 if there is none
          opened,         \* sessions opened so far
          stale,          \* the open session does not work any more
          recoveredAt,    \* when a recovery opened the session, else Never
          recovery,       \* inFlightRecoveries: "none", "reset" or "redial"
          lastRecoveryAt,
          ended,          \* recoveries that have ended
          pass, pinged,   \* the peering pass, and the session it has pinged
          call            \* of every call: where it is, its session, what it was told

vars == <<now, faults, peerUp, session, opened, stale, recoveredAt, recovery,
          lastRecoveryAt, ended, pass, pinged, call>>

sessionVars  == <<peerUp, session, opened, stale, recoveredAt>>
recoveryVars == <<recovery, lastRecoveryAt, ended>>
passVars     == <<pass, pinged>>

\* since: recoveries that had ended when the call failed.
NewCall == [at |-> "idle", on |-> 0, since |-> 0, told |-> FALSE]

Init == /\ now = Cooldown /\ faults = 0
        /\ peerUp = TRUE /\ session = 0 /\ opened = 0 /\ stale = FALSE
        /\ recoveredAt = Never
        /\ recovery = "none" /\ lastRecoveryAt = Never /\ ended = 0
        /\ pass = "none" /\ pinged = 0
        /\ call = [c \in Calls |-> NewCall]

Live == session # 0 /\ ~stale

-----------------------------------------------------------------------------
\* A dial that finds an open session, stale or not, returns it.
dial(at) ==
  IF session = 0 /\ peerUp
    THEN /\ opened' = opened + 1 /\ session' = opened + 1
         /\ stale' = FALSE /\ recoveredAt' = at
         /\ UNCHANGED peerUp
    ELSE UNCHANGED sessionVars

\* resetPeerConnection: hang up and wait until the peer is gone; a hang-up that
\* fails or does not end in time is ignored.
hangUp ==
  /\ UNCHANGED <<peerUp, opened>>
  /\ \/ session' = 0 /\ stale' = FALSE /\ recoveredAt' = Never /\ UNCHANGED faults
     \/ /\ session # 0 /\ faults < MaxFaults /\ faults' = faults + 1
        /\ UNCHANGED <<session, stale, recoveredAt>>

-----------------------------------------------------------------------------
(* Replication calls *)

\* A call uses the open session or dials.
Call(c) ==
  /\ call[c].at = "idle" /\ (session # 0 \/ peerUp)
  /\ dial(Never)
  /\ call' = [call EXCEPT ![c].at = "calling", ![c].on = session']
  /\ UNCHANGED <<now, faults, recoveryVars, passVars>>

Answer(c) ==
  /\ call[c].at = "calling" /\ call[c].on = session /\ ~stale
  /\ call' = [call EXCEPT ![c].at = "done"]
  /\ UNCHANGED <<now, faults, sessionVars, recoveryVars, passVars>>

\* Mutant: the entry of a recovery is not removed when it ends.
FailJoinsFinished(c) ==
  /\ call[c].at = "calling"
  /\ IF recovery # "none"
       THEN /\ call' = [call EXCEPT ![c].at = "waiting", ![c].since = ended]
            /\ UNCHANGED recoveryVars
       ELSE IF ended > 0
       THEN /\ call' = [call EXCEPT ![c].at = "done", ![c].since = ended, ![c].told = TRUE]
            /\ UNCHANGED recoveryVars
       ELSE /\ recovery' = "reset" /\ lastRecoveryAt' = now /\ UNCHANGED ended
            /\ call' = [call EXCEPT ![c].at = "waiting", ![c].since = ended]
  /\ UNCHANGED <<now, faults, sessionVars, passVars>>

\* A call fails with an error that looks like a stale session, also when the
\* peer was only slow or the session is another one by now.  recoverPeerSession
\* joins the recovery in flight, refuses within the cooldown, or starts.
Fail(c) ==
  /\ call[c].at = "calling"
  /\ \/ /\ recovery # "none"
        /\ call' = [call EXCEPT ![c].at = "waiting", ![c].since = ended]
        /\ UNCHANGED recoveryVars
     \/ /\ recovery = "none" /\ lastRecoveryAt # Never /\ now - lastRecoveryAt < Cooldown
        /\ call' = [call EXCEPT ![c].at = "done", ![c].since = ended, ![c].told = FALSE]
        /\ UNCHANGED recoveryVars
     \/ /\ recovery = "none" /\ (lastRecoveryAt = Never \/ now - lastRecoveryAt >= Cooldown)
        /\ recovery' = "reset" /\ lastRecoveryAt' = now /\ UNCHANGED ended
        /\ call' = [call EXCEPT ![c].at = "waiting", ![c].since = ended]
  /\ UNCHANGED <<now, faults, sessionVars, passVars>>

Reset ==
  /\ recovery = "reset"
  /\ hangUp
  /\ recovery' = "redial"
  /\ UNCHANGED <<now, lastRecoveryAt, ended, passVars, call>>

\* redialKnownPeer logs a dial that fails: everybody who waits is told TRUE.
Redial ==
  /\ recovery = "redial"
  /\ dial(now)
  /\ recovery' = "none" /\ ended' = ended + 1
  /\ call' = [c \in Calls |-> IF call[c].at = "waiting"
                                THEN [call[c] EXCEPT !.at = "done", !.told = TRUE]
                                ELSE call[c]]
  /\ UNCHANGED <<now, faults, lastRecoveryAt, passVars>>

-----------------------------------------------------------------------------
(* The peering pass; one at a time *)

\* dropUnhealthyConnectedPeers pings peers that appear connected.
BeginPass ==
  /\ pass = "none"
  /\ pass' = IF session # 0 THEN "ping" ELSE "dial"
  /\ pinged' = session
  /\ UNCHANGED <<now, faults, sessionVars, recoveryVars, call>>

PingAnswered ==
  /\ pass = "ping" /\ pinged = session /\ ~stale
  /\ pass' = "dial"
  /\ UNCHANGED <<now, faults, sessionVars, recoveryVars, pinged, call>>

\* The ping times out, or its session has been closed.
PingFailed ==
  /\ pass = "ping" /\ (pinged # session \/ stale)
  /\ pass' = "reset"
  /\ UNCHANGED <<now, faults, sessionVars, recoveryVars, pinged, call>>

PassReset ==
  /\ pass = "reset"
  /\ hangUp
  /\ pass' = "dial"
  /\ UNCHANGED <<now, recoveryVars, pinged, call>>

\* The peer is dialled if it is missing.
PassDial ==
  /\ pass = "dial"
  /\ dial(Never)
  /\ pass' = "none" /\ pinged' = 0
  /\ UNCHANGED <<now, faults, recoveryVars, call>>

-----------------------------------------------------------------------------
(* The peer and the network *)

\* The session stops working: unnoticed, closed, or because the peer is down.
Break ==
  /\ session # 0 /\ faults < MaxFaults /\ faults' = faults + 1
  /\ \/ stale' = TRUE /\ UNCHANGED <<session, recoveredAt, peerUp>>
     \/ session' = 0 /\ stale' = FALSE /\ recoveredAt' = Never /\ UNCHANGED peerUp
     \/ stale' = TRUE /\ peerUp' = FALSE /\ UNCHANGED <<session, recoveredAt>>
  /\ UNCHANGED <<now, opened, recoveryVars, passVars, call>>

PeerReturns ==
  /\ ~peerUp /\ peerUp' = TRUE
  /\ UNCHANGED <<now, faults, session, opened, stale, recoveredAt, recoveryVars,
                 passVars, call>>

\* A hang-up and a dial have timeouts.
Tick ==
  /\ now < MaxTime
  /\ recovery # "none" => now - lastRecoveryAt < RecoveryTime
  /\ now' = now + 1
  /\ UNCHANGED <<faults, sessionVars, recoveryVars, passVars, call>>

PassStep == BeginPass \/ PingAnswered \/ PingFailed \/ PassReset \/ PassDial

Next == \/ \E c \in Calls : Call(c) \/ Answer(c) \/ Fail(c)
        \/ Reset \/ Redial
        \/ PassStep
        \/ Break \/ PeerReturns \/ Tick

\* The pass is scheduled for ever; calls, hang-ups, pings and dials end; a peer
\* that is down is started again.
Fairness == /\ WF_vars(PassStep) /\ WF_vars(Reset \/ Redial) /\ WF_vars(PeerReturns)
            /\ \A c \in Calls : WF_vars(Answer(c) \/ Fail(c))

Spec == Init /\ [][Next]_vars /\ Fairness

-----------------------------------------------------------------------------
\* Whoever is told that the session was recovered saw a recovery end after its
\* own call had failed, its own or one it joined: never an earlier one's answer.
RecoveredAfterFailure ==
  \A c \in Calls : call[c].told => ended > call[c].since

\* However many calls of the old session fail late, reactive recovery spares the
\* session it has just opened.
FreshSpared ==
  recovery = "reset" /\ recovery' = "redial" /\ session # 0 /\ session' = 0
    /\ recoveredAt # Never => now - recoveredAt >= Cooldown - RecoveryTime

\* Once the faults are over there is a working session and it stays, in spite of
\* the two resetters.
SessionRestored == <>[]Live

\* What peerSessionRecovery.ts:25 says of the answer: "Whether the session was
\* reset and redialled".
ToldTrueWhenRedialled ==
  [][recovery = "redial" /\ recovery' = "none" /\ (\E c \in Calls : call[c].at = "waiting")
       => session' # 0]_vars

\* What peering.cron.ts:70 says of the pass: "reset sessions that miss a ping".
ResetOnlySilentSessions ==
  [][pass = "reset" /\ pass' = "dial" /\ session # 0 /\ session' = 0
       => session = pinged]_vars
=============================================================================
