-------------------------- MODULE HealthCheckpoint --------------------------
(***************************************************************************)
(* The readiness checkpoint of one node: health/service.ts, health/state.ts, *)
(* health/persistence.ts and health/protocol.ts.                           *)
(*                                                                         *)
(* An attempt captures the time and the repair evidence, awaits the peers' *)
(* attestations, reads everything else, evaluates, persists a completed    *)
(* checkpoint and only then publishes it.  Readers refresh the published   *)
(* snapshot to the moment they ask.  The wall clock may be set back, the   *)
(* datastore may reject a write, and the process may end between any two   *)
(* steps.  The time unit is arbitrary; time 0 stands for `null`.           *)
(***************************************************************************)
EXTENDS Integers

CONSTANTS CheckpointInterval, MaxCheckpointAge, StorageMaxAge, RepairMaxAge,
          ClockTolerance,     \* of parseCheckpoint
          SkewTolerance,      \* clockSkewToleranceMs
          Skews,              \* how far the peers' clocks may be off
          MaxTime, MaxRollbacks, MaxFaults, MaxRestarts,  \* bounds
          MaxReports  \* bound: storage reports and repair cycles

ASSUME PolicyAssumption ==
  /\ CheckpointInterval \in Nat \ {0}
  /\ {MaxCheckpointAge, StorageMaxAge, RepairMaxAge, ClockTolerance, SkewTolerance} \subseteq Nat
  /\ Skews \subseteq Int
ASSUME BoundAssumption == {MaxTime, MaxRollbacks, MaxFaults, MaxRestarts, MaxReports} \subseteq Nat

VARIABLES clock,
          storageAt,  \* updatedAt of the cached storage report
          repair,     \* evidence of the last complete repair cycle
          startup,    \* outcome of the startup reconciliation
          previous,   \* last completed checkpoint, in memory
          disk,       \* last completed checkpoint, persisted
          snapshot,   \* what readers refresh and get
          attempt,    \* the attempt in flight
          rerun,      \* rerunRequested
          stopping,
          highest,    \* history: the greatest height published in this epoch
          rollbacks, faults, restarts, reports

bounds == <<rollbacks, faults, restarts, reports>>
world  == <<clock, storageAt, repair, startup>>
vars   == <<world, previous, disk, snapshot, attempt, rerun, stopping, highest, bounds>>

Never == 0
NoCheckpoint == [height |-> 0, completedAt |-> Never]
NoAttempt    == [at |-> "none", now |-> 0, repair |-> [at |-> Never, good |-> FALSE],
                 completed |-> NoCheckpoint, snapshot |-> <<>>]

checkpointRound(time) == (time \div CheckpointInterval) * CheckpointInterval
Larger(a, b) == IF a > b THEN a ELSE b
Abs(n) == IF n < 0 THEN 0 - n ELSE n
notInFuture(now, observedAt) == now >= observedAt
fresh(now, observedAt, maxAge) == observedAt # Never /\ now - observedAt <= maxAge

-----------------------------------------------------------------------------
(* evaluateHealth and refreshHealthSnapshot *)

clockConsistent(in) == /\ notInFuture(in.now, in.previous.completedAt)
                       /\ notInFuture(in.now, in.storageAt)
                       /\ notInFuture(in.now, in.repair.at)

\* The checks of one attempt; `in.other` stands for the immediate ones (Helia
\* started, disk reserve kept).
complete(in) == /\ clockConsistent(in)
                /\ in.other /\ in.attested
                /\ in.startup = "healthy"
                /\ fresh(in.now, in.storageAt, StorageMaxAge)
                /\ fresh(in.now, in.repair.at, RepairMaxAge) /\ in.repair.good

completedBy(in) ==
  IF complete(in) THEN [height |-> Larger(in.previous.height, checkpointRound(in.now)),
                        completedAt |-> in.now]
                  ELSE NoCheckpoint

evaluateHealth(in) ==
  LET last == IF complete(in) THEN completedBy(in) ELSE in.previous IN
  [state |-> IF complete(in) THEN "ready"
             ELSE IF in.startup = "pending" THEN "starting"
             ELSE IF in.previous # NoCheckpoint /\ in.now - in.previous.completedAt > MaxCheckpointAge
               THEN "stale" ELSE "degraded",
   height |-> last.height, observedAt |-> last.completedAt,
   storageAt |-> in.storageAt, repair |-> in.repair, consistent |-> clockConsistent(in)]

\* Mutant: a read only looks at the age of the checkpoint.
CheckpointAgeOnly(s, now) ==
  IF s.state # "starting" /\ s.observedAt # Never /\ now - s.observedAt > MaxCheckpointAge
    THEN [s EXCEPT !.state = "stale"] ELSE s

\* What a reader gets at time `now`: elapsed time, or a clock that went back,
\* can only take readiness away.
refreshHealthSnapshot(s, now) ==
  LET consistent == /\ s.consistent
                    /\ notInFuture(now, s.observedAt)
                    /\ notInFuture(now, s.storageAt)
                    /\ notInFuture(now, s.repair.at)
      holds == /\ consistent
               /\ fresh(now, s.storageAt, StorageMaxAge)
               /\ fresh(now, s.repair.at, RepairMaxAge) IN
  [s EXCEPT !.consistent = consistent,
            !.state = IF @ # "starting" /\ s.observedAt # Never /\ now - s.observedAt > MaxCheckpointAge
                        THEN "stale"
                      ELSE IF @ = "ready" /\ ~holds THEN "degraded"
                      ELSE @]

published == refreshHealthSnapshot(snapshot, clock)

-----------------------------------------------------------------------------
startingSnapshot == [state |-> "starting", height |-> 0, observedAt |-> Never,
                     storageAt |-> Never, repair |-> [at |-> Never, good |-> FALSE],
                     consistent |-> TRUE]

Init == /\ clock = 1
        /\ storageAt = Never
        /\ repair = [at |-> Never, good |-> FALSE]
        /\ startup = "pending"
        /\ previous = NoCheckpoint /\ disk = NoCheckpoint
        /\ snapshot = startingSnapshot
        /\ attempt = NoAttempt
        /\ rerun = FALSE /\ stopping = FALSE
        /\ highest = 0
        /\ rollbacks = 0 /\ faults = 0 /\ restarts = 0 /\ reports = 0

health == <<previous, disk, snapshot, attempt, rerun, stopping, highest>>

Tick == /\ clock < MaxTime
        /\ clock' = clock + 1
        /\ UNCHANGED <<storageAt, repair, startup, health, bounds>>

\* An operator or NTP sets the clock back.
SetClockBack == /\ rollbacks < MaxRollbacks
                /\ rollbacks' = rollbacks + 1
                /\ clock' \in 1..(clock - 1)
                /\ UNCHANGED <<storageAt, repair, startup, health, faults, restarts, reports>>

\* refreshStorageMetrics, on the disk usage schedule.
MeasureStorage == /\ storageAt # clock /\ reports < MaxReports
                  /\ storageAt' = clock
                  /\ reports' = reports + 1
                  /\ UNCHANGED <<clock, repair, startup, health, rollbacks, faults, restarts>>

\* A repair cycle is published: without a backlog, or with one that the
\* configured grace still covers, it counts as good.
CompleteRepair(good) ==
  /\ reports < MaxReports
  /\ repair' = [at |-> clock, good |-> good]
  /\ reports' = reports + 1
  /\ UNCHANGED <<clock, storageAt, startup, health, rollbacks, faults, restarts>>

\* runHealthCheckpoint: the interval fires, or startup has just completed.  An
\* attempt in flight is only asked to run again.
BeginAttempt ==
  IF attempt.at = "none"
    THEN attempt' = [NoAttempt EXCEPT !.at = "attest", !.now = clock, !.repair = repair]
         /\ UNCHANGED rerun
    ELSE rerun' = TRUE /\ UNCHANGED attempt

runHealthCheckpoint ==
  /\ ~stopping
  /\ BeginAttempt
  /\ UNCHANGED <<world, previous, disk, snapshot, stopping, highest, bounds>>

setStartupReconciliationResult(r) ==
  /\ startup = "pending"
  /\ startup' = r
  /\ IF stopping THEN UNCHANGED <<attempt, rerun>> ELSE BeginAttempt
  /\ UNCHANGED <<clock, storageAt, repair, previous, disk, snapshot, stopping, highest, bounds>>

\* The peer accepts the asked round or an adjacent one and a bounded skew, and
\* echoes the round; the caller checks the skew again.
attests(now, timestamp) ==
  /\ Abs(checkpointRound(now) - checkpointRound(timestamp)) <= CheckpointInterval
  /\ Abs(timestamp - now) <= SkewTolerance

\* The finish handler: another attempt if one was asked for meanwhile.
finish == /\ rerun' = FALSE
          /\ attempt' = IF rerun /\ ~stopping
                          THEN [NoAttempt EXCEPT !.at = "attest", !.now = clock, !.repair = repair]
                          ELSE NoAttempt

\* The attestations are in (or timed out): evaluate.  An incomplete attempt is
\* published at once.
Evaluate(other, attested) ==
  LET in == [now |-> attempt.now, other |-> other, attested |-> attested,
             startup |-> startup, storageAt |-> storageAt, repair |-> attempt.repair,
             previous |-> previous] IN
  /\ attempt.at = "attest"
  /\ \/ /\ complete(in)
        /\ attempt' = [attempt EXCEPT !.at = "save", !.completed = completedBy(in),
                                      !.snapshot = evaluateHealth(in)]
        /\ UNCHANGED <<snapshot, rerun>>
     \/ ~complete(in) /\ snapshot' = evaluateHealth(in) /\ finish
  /\ UNCHANGED <<world, previous, disk, stopping, highest, bounds>>

EndAttestation ==
  \E other \in BOOLEAN, s \in Skews :
    \/ Evaluate(other, attests(attempt.now, clock + s))
    \/ Evaluate(other, FALSE)

\* saveHealthCheckpoint; a rejected write may have reached the disk.
Save ==
  /\ attempt.at = "save"
  /\ \/ /\ disk' = attempt.completed
        /\ previous' = attempt.completed
        /\ snapshot' = attempt.snapshot
        /\ highest' = Larger(highest, attempt.completed.height)
        /\ UNCHANGED faults
     \/ /\ faults < MaxFaults /\ faults' = faults + 1
        /\ disk' \in {disk, attempt.completed}
        /\ UNCHANGED <<previous, snapshot, highest>>
  /\ finish
  /\ UNCHANGED <<world, stopping, rollbacks, restarts, reports>>

stopHealthService ==
  /\ ~stopping
  /\ stopping' = TRUE /\ rerun' = FALSE
  /\ UNCHANGED <<world, previous, disk, snapshot, attempt, highest, bounds>>

\* parseCheckpoint: a round starts before the attempt that completed it, and
\* not ahead of the clock.
loadable(cp) == cp.height <= cp.completedAt /\ cp.completedAt <= clock + ClockTolerance

\* The process ends and comes back.  The checkpoint is kept unless the clock
\* went back too far; repair evidence from the future is rejected as well.
Restart ==
  /\ restarts < MaxRestarts
  /\ restarts' = restarts + 1
  /\ previous' = IF loadable(disk) THEN disk ELSE NoCheckpoint
  /\ highest' = IF loadable(disk) THEN highest ELSE 0
  /\ repair' = IF repair.at <= clock THEN repair ELSE [at |-> Never, good |-> FALSE]
  /\ startup' = "pending" /\ storageAt' = Never
  /\ snapshot' = startingSnapshot
  /\ attempt' = [NoAttempt EXCEPT !.at = "attest", !.now = clock, !.repair = repair']
  /\ rerun' = FALSE /\ stopping' = FALSE
  /\ UNCHANGED <<clock, disk, rollbacks, faults, reports>>

Next == \/ Tick \/ SetClockBack \/ MeasureStorage
        \/ \E good \in BOOLEAN : CompleteRepair(good)
        \/ runHealthCheckpoint
        \/ \E r \in {"healthy", "failed"} : setStartupReconciliationResult(r)
        \/ EndAttestation \/ Save
        \/ stopHealthService \/ Restart

\* Attestations answer or time out, the datastore answers, the interval fires.
Fairness == WF_vars(EndAttestation) /\ WF_vars(Save) /\ WF_vars(runHealthCheckpoint)

Spec == Init /\ [][Next]_vars /\ Fairness

-----------------------------------------------------------------------------
\* Whoever reads "ready" can rely on it at that moment: startup succeeded, the
\* checkpoint, the storage report and the repair evidence behind it are within
\* their ages, and none of them is from ahead of the clock, however long ago
\* the snapshot was evaluated and whatever happened to the clock since.
ReadyHoldsWhenRead ==
  published.state = "ready" =>
    /\ startup = "healthy" /\ snapshot.repair.good
    /\ fresh(clock, snapshot.observedAt, MaxCheckpointAge)
    /\ fresh(clock, snapshot.storageAt, StorageMaxAge)
    /\ fresh(clock, snapshot.repair.at, RepairMaxAge)
    /\ clock >= snapshot.observedAt /\ clock >= snapshot.storageAt /\ clock >= snapshot.repair.at

\* A height once published is never taken back: not by a failed attempt, a
\* rejected write or a clock that goes back, nor, once the first attempt after
\* it has ended, by a restart that could load the checkpoint.
HeightNeverLost == snapshot.state # "starting" => snapshot.height >= highest

\* What is persisted can be loaded again: no round starts after the attempt
\* that completed it.
PersistedLoadable == disk.height <= disk.completedAt

\* What a node says of its own health is true when it is read, and stays said.
HealthHonest == ReadyHoldsWhenRead /\ HeightNeverLost /\ PersistedLoadable

\* Once startup reconciliation has ended, readers learn of it: an attempt that
\* was in flight, or whose write was rejected, is followed by another one.
StartupReported ==
  startup # "pending" /\ ~stopping
    ~> snapshot.state # "starting" \/ startup = "pending" \/ stopping

\* While the clock has never gone back, no reader is told that it did.
ConsistentUnlessSetBack == rollbacks = 0 => published.consistent

\* Between checkpoints readiness only goes away: a reader gets "ready" again
\* only from a checkpoint that was completed since.
ReadyOnlyByCheckpoint ==
  [][published.state # "ready" /\ published'.state = "ready" => snapshot' # snapshot]_vars
=============================================================================
