------------------------------- MODULE MCPeers -------------------------------
(***************************************************************************)
(* What a node tells its peers about itself, health checkpoints, and how   *)
(* it keeps its sessions with them.  The two share no state; each          *)
(* behaviour is of one of them, the other stays in its initial state.      *)
(***************************************************************************)
EXTENDS HealthCheckpoint

CONSTANTS c1, c2

VARIABLES part,  \* the component that moves
          \* PeerSession
          now, sessionFaults, peerUp, session, opened, stale, recoveredAt, recovery,
          lastRecoveryAt, ended, pass, pinged, call

Sessions == INSTANCE PeerSession WITH
  Calls <- {c1, c2}, Cooldown <- 2, RecoveryTime <- 1, MaxTime <- 5, MaxFaults <- 2,
  faults <- sessionFaults

ASSUME Sessions!TimeAssumption

sessionVars == <<now, sessionFaults, peerUp, session, opened, stale, recoveredAt,
                 recovery, lastRecoveryAt, ended, pass, pinged, call>>

PeersInit == part \in {"health", "sessions"} /\ Init /\ Sessions!Init

PeersNext == /\ \/ part = "health" /\ Next /\ UNCHANGED sessionVars
                \/ part = "sessions" /\ Sessions!Next /\ UNCHANGED vars
             /\ UNCHANGED part

PeersSpec == PeersInit /\ [][PeersNext]_<<part, vars, sessionVars>>

-----------------------------------------------------------------------------
\* peerSessionRecovery.ts, peering.cron.ts, health/service.ts: whoever is told that
\* the session was recovered saw a recovery end after its own call had failed, and
\* however many calls of the old session fail late, recovery spares the session it
\* has just opened.  With timers that fire, answers that come or time out and a
\* peer that comes back, there is a working session in the end and it stays; and
\* readers learn that the startup reconciliation has ended, also when an attempt
\* was in flight or its write was rejected.
PeersServed ==
  /\ [][/\ Sessions!RecoveredAfterFailure'
        /\ Sessions!FreshSpared]_<<part, vars, sessionVars>>
  /\ part = "sessions" /\ Sessions!Fairness => Sessions!SessionRestored
  /\ part = "health" /\ Fairness => StartupReported
=============================================================================
