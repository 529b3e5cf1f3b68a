----------------------- MODULE HealthCheckpointProofs -----------------------
(***************************************************************************)
(* What a node says of its own health is true when it is read, proved for  *)
(* every policy, every clock and any number of rollbacks, rejected writes  *)
(* and restarts; and what the recovery of a session to a peer answers, and *)
(* which session it spares, for any number of calls.                       *)
(***************************************************************************)
EXTENDS HealthCheckpoint, TLAPS

Checkpoints == [height : Nat, completedAt : Nat]
Evidence    == [at : Nat, good : BOOLEAN]
Snapshots   == [state : {"starting", "ready", "stale", "degraded"}, height : Nat,
                observedAt : Nat, storageAt : Nat, repair : Evidence, consistent : BOOLEAN]
Attempts    == [at : {"none", "attest", "save"}, now : Nat, repair : Evidence,
                completed : Checkpoints, snapshot : Snapshots \cup {<<>>}]

TypeOK == /\ clock \in Nat \ {0}
          /\ storageAt \in Nat
          /\ repair \in Evidence
          /\ startup \in {"pending", "healthy", "failed"}
          /\ previous \in Checkpoints /\ disk \in Checkpoints
          /\ snapshot \in Snapshots
          /\ attempt \in Attempts
          /\ highest \in Nat

\* What "ready" was evaluated from still holds, its ages aside.
Backed(s) == s.state = "ready" => startup = "healthy" /\ s.repair.good /\ s.observedAt # Never

\* A round never starts after the attempt that completed it, and no height
\* behind the published one is in memory, or on disk to be loaded.
HeightsOK == /\ previous.height <= previous.completedAt
             /\ disk.height <= disk.completedAt
             /\ highest <= previous.height
             /\ highest <= disk.height

\* The attempt in flight: it captured the time, and the checkpoint it is
\* about to save does not fall behind the previous one.
AttemptOK ==
  /\ attempt.at # "none" => attempt.now # 0
  /\ attempt.at = "save" =>
       /\ attempt.snapshot \in Snapshots /\ Backed(attempt.snapshot)
       /\ attempt.snapshot.height = attempt.completed.height
       /\ attempt.completed.height <= attempt.completed.completedAt
       /\ attempt.completed.height >= previous.height

IInv == TypeOK /\ HeightsOK /\ AttemptOK /\ Backed(snapshot) /\ HeightNeverLost

-----------------------------------------------------------------------------
\* checkpointRound: a round starts at a time, not after the one it is for.
LEMMA RoundNotAhead ==
  ASSUME NEW time \in Nat
  PROVE  checkpointRound(time) \in Nat /\ checkpointRound(time) <= time
<1> DEFINE n == CheckpointInterval  q == time \div n
<1>1. n \in Nat \ {0}
  BY PolicyAssumption
<1>2. q \in Nat /\ time % n \in Nat /\ time = n * q + (time % n)
  BY <1>1, SMT
<1>3. q * n = n * q /\ q * n \in Nat
  BY <1>1, <1>2, SMT
<1> HIDE DEF n, q
<1>4. q * n <= time
  BY <1>2, <1>3
<1> QED
  BY <1>3, <1>4 DEF checkpointRound, n, q

\* NoAttempt and a new attempt are attempts that have nothing to save.
LEMMA AttemptBegun ==
  ASSUME NEW t \in Nat \ {0}, NEW e \in Evidence
  PROVE  /\ [NoAttempt EXCEPT !.at = "attest", !.now = t, !.repair = e] \in Attempts
         /\ [NoAttempt EXCEPT !.at = "attest", !.now = t, !.repair = e].at = "attest"
         /\ [NoAttempt EXCEPT !.at = "attest", !.now = t, !.repair = e].now = t
BY DEF NoAttempt, NoCheckpoint, Never, Attempts, Checkpoints, Evidence

LEMMA NoAttemptType == NoAttempt \in Attempts /\ NoAttempt.at = "none"
BY DEF NoAttempt, NoCheckpoint, Never, Attempts, Checkpoints, Evidence

\* completedBy and evaluateHealth, from what the attempt captured and what it
\* read when the attestations were in.
LEMMA Evaluation ==
  ASSUME TypeOK, HeightsOK, attempt.now # 0,
         NEW other \in BOOLEAN, NEW attested \in BOOLEAN
  PROVE  LET in == [now |-> attempt.now, other |-> other, attested |-> attested,
                    startup |-> startup, storageAt |-> storageAt, repair |-> attempt.repair,
                    previous |-> previous]
             cp == completedBy(in)
             s  == evaluateHealth(in) IN
         /\ cp \in Checkpoints /\ s \in Snapshots /\ Backed(s)
         /\ complete(in) => /\ s.height = cp.height
                            /\ cp.height <= cp.completedAt /\ cp.height >= previous.height
         /\ ~complete(in) => s.height = previous.height
<1> DEFINE in == [now |-> attempt.now, other |-> other, attested |-> attested,
                  startup |-> startup, storageAt |-> storageAt, repair |-> attempt.repair,
                  previous |-> previous]
           now == attempt.now
           cp == completedBy(in)
           s  == evaluateHealth(in)
<1>1. /\ now \in Nat \ {0} /\ attempt.repair \in Evidence /\ storageAt \in Nat
      /\ previous \in Checkpoints /\ previous.height \in Nat /\ previous.completedAt \in Nat
      /\ attempt.repair.good \in BOOLEAN /\ attempt.repair.at \in Nat
  BY DEF TypeOK, Attempts, Checkpoints, Evidence
<1>2. checkpointRound(now) \in Nat /\ checkpointRound(now) <= now
  BY <1>1, RoundNotAhead
<1>3. /\ in.now = now /\ in.startup = startup /\ in.storageAt = storageAt
      /\ in.repair = attempt.repair /\ in.previous = previous
  OBVIOUS
<1>4. clockConsistent(in) \in BOOLEAN
  BY DEF clockConsistent
<1>5. CASE complete(in)
  <2>1. startup = "healthy" /\ attempt.repair.good /\ previous.completedAt <= now
    BY <1>5, <1>3 DEF complete, clockConsistent, notInFuture
  <2>2. cp = [height |-> Larger(previous.height, checkpointRound(now)), completedAt |-> now]
    BY <1>5, <1>3 DEF completedBy
  <2>3. /\ cp.height \in Nat /\ cp.height >= previous.height
        /\ cp.height <= now /\ cp.completedAt = now /\ cp \in Checkpoints
    BY <2>1, <2>2, <1>1, <1>2 DEF Larger, HeightsOK, Checkpoints
  <2>4. s = [state |-> "ready", height |-> cp.height, observedAt |-> cp.completedAt,
             storageAt |-> storageAt, repair |-> attempt.repair, consistent |-> clockConsistent(in)]
    BY <1>5, <1>3 DEF evaluateHealth
  <2> HIDE DEF in, cp, s
  <2>5. s \in Snapshots
    BY <2>3, <2>4, <1>1, <1>4 DEF Snapshots
  <2>6. Backed(s)
    BY <2>1, <2>3, <2>4, <1>1 DEF Backed, Never
  <2> QED
    BY <2>3, <2>4, <2>5, <2>6, <1>5 DEF in, cp, s
<1>6. CASE ~complete(in)
  <2>1. cp = NoCheckpoint
    BY <1>6 DEF completedBy
  <2>2. PICK state \in {"starting", "stale", "degraded"} :
          s = [state |-> state, height |-> previous.height, observedAt |-> previous.completedAt,
               storageAt |-> storageAt, repair |-> attempt.repair,
               consistent |-> clockConsistent(in)]
    BY <1>6, <1>3 DEF evaluateHealth
  <2> HIDE DEF in, cp, s
  <2>3. s \in Snapshots
    BY <2>2, <1>1, <1>4 DEF Snapshots
  <2>4. Backed(s) /\ s.height = previous.height
    BY <2>2 DEF Backed
  <2>5. cp \in Checkpoints
    BY <2>1 DEF NoCheckpoint, Never, Checkpoints
  <2> QED
    BY <2>3, <2>4, <2>5, <1>6 DEF in, cp, s
<1> QED
  BY <1>5, <1>6

-----------------------------------------------------------------------------
LEMMA Initially == Init => IInv
<1> SUFFICES ASSUME Init PROVE IInv
  OBVIOUS
<1>1. TypeOK
  BY NoAttemptType DEF Init, TypeOK, NoCheckpoint, startingSnapshot, Never, Checkpoints,
                       Evidence, Snapshots
<1>2. attempt.at = "none" /\ snapshot.state = "starting"
  BY NoAttemptType DEF Init, startingSnapshot
<1> QED
  BY <1>1, <1>2 DEF Init, IInv, HeightsOK, AttemptOK, Backed, HeightNeverLost, NoCheckpoint, Never

\* Steps of the world: the clock moves, storage is measured, a repair cycle is
\* published.  None touches what the service keeps.
LEMMA WorldStep ==
  ASSUME IInv, UNCHANGED <<startup, health>>,
         clock' \in Nat \ {0}, storageAt' \in Nat, repair' \in Evidence
  PROVE  IInv'
BY DEF IInv, TypeOK, HeightsOK, AttemptOK, Backed, HeightNeverLost, health

\* runHealthCheckpoint, the finish handler and startup: an attempt begins or
\* ends, or is asked to run again.
LEMMA AttemptStep ==
  ASSUME IInv, UNCHANGED <<clock, storageAt, repair, previous, disk, snapshot, highest>>,
         startup' = startup \/ (startup = "pending" /\ startup' \in {"healthy", "failed"}),
         \/ attempt' = attempt \/ attempt' = NoAttempt
         \/ attempt' = [NoAttempt EXCEPT !.at = "attest", !.now = clock, !.repair = repair]
  PROVE  IInv'
<1>1. clock \in Nat \ {0} /\ repair \in Evidence
  BY DEF IInv, TypeOK
<1>2. \/ attempt' = attempt
      \/ /\ attempt' \in Attempts /\ attempt'.at # "save"
         /\ attempt'.at # "none" => attempt'.now # 0
  <2>1. CASE attempt' = [NoAttempt EXCEPT !.at = "attest", !.now = clock, !.repair = repair]
    BY <1>1, <2>1, AttemptBegun
  <2> QED
    BY <2>1, NoAttemptType
<1>3. TypeOK' /\ HeightsOK' /\ HeightNeverLost'
  BY <1>2 DEF IInv, TypeOK, HeightsOK, HeightNeverLost
<1>4. AttemptOK'
  BY <1>2 DEF IInv, AttemptOK, Backed
<1>5. Backed(snapshot)'
  BY DEF IInv, Backed
<1> QED
  BY <1>3, <1>4, <1>5 DEF IInv

\* finish: whatever came before it, it leaves no attempt with something to save.
LEMMA FinishedAttempt ==
  ASSUME IInv, finish
  PROVE  /\ attempt' \in Attempts /\ attempt'.at # "save"
         /\ attempt'.at # "none" => attempt'.now # 0
<1>1. clock \in Nat \ {0} /\ repair \in Evidence
  BY DEF IInv, TypeOK
<1> QED
  BY <1>1, AttemptBegun, NoAttemptType DEF finish

LEMMA EvaluateStep ==
  ASSUME IInv, NEW other \in BOOLEAN, NEW attested \in BOOLEAN, Evaluate(other, attested)
  PROVE  IInv'
<1> DEFINE in == [now |-> attempt.now, other |-> other, attested |-> attested,
                  startup |-> startup, storageAt |-> storageAt, repair |-> attempt.repair,
                  previous |-> previous]
           cp == completedBy(in)
           s  == evaluateHealth(in)
<1>1. /\ attempt.at = "attest"
      /\ UNCHANGED <<clock, storageAt, repair, startup, previous, disk, highest>>
  BY DEF Evaluate, world
<1>2. attempt \in Attempts /\ attempt.now # 0
  BY <1>1 DEF IInv, TypeOK, AttemptOK
<1>3. /\ cp \in Checkpoints /\ s \in Snapshots /\ Backed(s)
      /\ complete(in) => /\ s.height = cp.height
                         /\ cp.height <= cp.completedAt /\ cp.height >= previous.height
      /\ ~complete(in) => s.height = previous.height
  BY <1>2, Evaluation DEF IInv
<1>4. \/ /\ complete(in)
         /\ attempt' = [attempt EXCEPT !.at = "save", !.completed = cp, !.snapshot = s]
         /\ snapshot' = snapshot
      \/ ~complete(in) /\ snapshot' = s /\ finish
  BY DEF Evaluate
<1> HIDE DEF in, cp, s
<1>5. CASE /\ complete(in)
           /\ attempt' = [attempt EXCEPT !.at = "save", !.completed = cp, !.snapshot = s]
           /\ snapshot' = snapshot
  <2>1. /\ attempt' \in Attempts /\ attempt'.completed = cp /\ attempt'.snapshot = s
        /\ attempt'.now = attempt.now
    BY <1>5, <1>2, <1>3 DEF Attempts
  <2>2. TypeOK' /\ HeightsOK' /\ HeightNeverLost'
    BY <2>1, <1>1, <1>5 DEF IInv, TypeOK, HeightsOK, HeightNeverLost
  <2>3. AttemptOK'
    BY <2>1, <1>1, <1>2, <1>3, <1>5 DEF AttemptOK, Backed
  <2>4. Backed(snapshot)'
    BY <1>1, <1>5 DEF IInv, Backed
  <2> QED
    BY <2>2, <2>3, <2>4 DEF IInv
<1>6. CASE ~complete(in) /\ snapshot' = s /\ finish
  <2>1. /\ attempt' \in Attempts /\ attempt'.at # "save"
        /\ attempt'.at # "none" => attempt'.now # 0
    BY <1>6, FinishedAttempt
  <2>2. TypeOK' /\ HeightsOK'
    BY <2>1, <1>1, <1>3, <1>6 DEF IInv, TypeOK, HeightsOK
  <2>3. AttemptOK'
    BY <2>1 DEF AttemptOK
  <2>4. Backed(snapshot)'
    BY <1>1, <1>3, <1>6 DEF Backed
  <2>5. HeightNeverLost'
    BY <1>1, <1>3, <1>6 DEF IInv, TypeOK, Checkpoints, HeightsOK, HeightNeverLost
  <2> QED
    BY <2>2, <2>3, <2>4, <2>5 DEF IInv
<1> QED
  BY <1>4, <1>5, <1>6

LEMMA SaveStep ==
  ASSUME IInv, Save
  PROVE  IInv'
<1>1. /\ attempt.at = "save" /\ finish
      /\ UNCHANGED <<clock, storageAt, repair, startup>>
  BY DEF Save, world
<1>2. /\ attempt' \in Attempts /\ attempt'.at # "save"
      /\ attempt'.at # "none" => attempt'.now # 0
  BY <1>1, FinishedAttempt
<1>3. /\ attempt.completed \in Checkpoints
      /\ attempt.snapshot \in Snapshots /\ Backed(attempt.snapshot)
      /\ attempt.snapshot.height = attempt.completed.height
      /\ attempt.completed.height <= attempt.completed.completedAt
      /\ attempt.completed.height >= previous.height
  BY <1>1 DEF IInv, TypeOK, Attempts, AttemptOK
<1>4. /\ highest \in Nat /\ highest <= previous.height /\ highest <= disk.height
      /\ previous \in Checkpoints /\ disk \in Checkpoints
      /\ previous.height \in Nat /\ attempt.completed.height \in Nat
  BY <1>3 DEF IInv, TypeOK, HeightsOK, Checkpoints
<1>5. AttemptOK'
  BY <1>2 DEF AttemptOK
<1>6. CASE /\ disk' = attempt.completed /\ previous' = attempt.completed
           /\ snapshot' = attempt.snapshot
           /\ highest' = Larger(highest, attempt.completed.height)
  <2>1. highest' = attempt.completed.height
    BY <1>3, <1>4, <1>6 DEF Larger
  <2>2. TypeOK'
    BY <2>1, <1>1, <1>2, <1>3, <1>4, <1>6 DEF IInv, TypeOK
  <2>3. HeightsOK' /\ HeightNeverLost'
    BY <2>1, <1>3, <1>4, <1>6 DEF HeightsOK, HeightNeverLost
  <2>4. Backed(snapshot)'
    BY <1>1, <1>3, <1>6 DEF Backed
  <2> QED
    BY <2>2, <2>3, <2>4, <1>5 DEF IInv
<1>7. CASE disk' \in {disk, attempt.completed} /\ UNCHANGED <<previous, snapshot, highest>>
  <2>1. TypeOK'
    BY <1>1, <1>2, <1>3, <1>7 DEF IInv, TypeOK
  <2>2. HeightsOK'
    BY <1>3, <1>4, <1>7 DEF IInv, HeightsOK, Checkpoints
  <2>3. HeightNeverLost'
    BY <1>7 DEF IInv, HeightNeverLost
  <2>4. Backed(snapshot)'
    BY <1>1, <1>7 DEF IInv, Backed
  <2> QED
    BY <2>1, <2>2, <2>3, <2>4, <1>5 DEF IInv
<1> QED
  BY <1>6, <1>7 DEF Save

LEMMA RestartStep ==
  ASSUME IInv, Restart
  PROVE  IInv'
<1>1. repair' \in Evidence /\ clock \in Nat \ {0} /\ disk \in Checkpoints /\ highest \in Nat
  BY DEF IInv, TypeOK, Restart, Evidence, Never
<1>2. attempt' \in Attempts /\ attempt'.at = "attest" /\ attempt'.now = clock
  <2> DEFINE e == repair'
  <2>1. attempt' = [NoAttempt EXCEPT !.at = "attest", !.now = clock, !.repair = e]
    BY DEF Restart
  <2>2. e \in Evidence
    BY <1>1
  <2> HIDE DEF e
  <2> QED
    BY <1>1, <2>1, <2>2, AttemptBegun
<1>3. /\ snapshot' = startingSnapshot /\ startingSnapshot \in Snapshots
      /\ startingSnapshot.state = "starting"
  BY DEF Restart, startingSnapshot, Snapshots, Evidence, Never
<1>4. /\ NoCheckpoint \in Checkpoints /\ NoCheckpoint.height = 0 /\ NoCheckpoint.completedAt = 0
      /\ disk.height \in Nat
  BY <1>1 DEF NoCheckpoint, Never, Checkpoints
<1>5. \/ previous' = disk /\ highest' = highest
      \/ previous' = NoCheckpoint /\ highest' = 0
  BY DEF Restart
<1>6. UNCHANGED <<clock, disk>> /\ startup' = "pending" /\ storageAt' = 0
  BY DEF Restart, Never
<1>7. TypeOK'
  BY <1>1, <1>2, <1>3, <1>4, <1>5, <1>6 DEF TypeOK
<1>8. HeightsOK'
  BY <1>1, <1>4, <1>5, <1>6 DEF IInv, HeightsOK
<1>9. AttemptOK' /\ Backed(snapshot)' /\ HeightNeverLost'
  BY <1>1, <1>2, <1>3 DEF AttemptOK, Backed, HeightNeverLost
<1> QED
  BY <1>7, <1>8, <1>9 DEF IInv

LEMMA Inductive == IInv /\ [Next]_vars => IInv'
<1> SUFFICES ASSUME IInv, [Next]_vars PROVE IInv'
  OBVIOUS
<1>0. TypeOK
  BY DEF IInv
<1>1. CASE UNCHANGED vars
  <2>1. UNCHANGED <<clock, storageAt, repair, startup, health>>
    BY <1>1 DEF vars, world, health
  <2> QED
    BY <2>1, <1>0, WorldStep DEF TypeOK
<1>2. CASE Tick
  <2>1. /\ UNCHANGED <<startup, health>>
        /\ clock' \in Nat \ {0} /\ storageAt' \in Nat /\ repair' \in Evidence
    BY <1>0, <1>2 DEF Tick, TypeOK
  <2> QED
    BY <2>1, WorldStep
<1>3. CASE SetClockBack
  <2>1. /\ UNCHANGED <<startup, health>>
        /\ clock' \in Nat \ {0} /\ storageAt' \in Nat /\ repair' \in Evidence
    BY <1>0, <1>3 DEF SetClockBack, TypeOK
  <2> QED
    BY <2>1, WorldStep
<1>4. CASE MeasureStorage
  <2>1. /\ UNCHANGED <<startup, health>>
        /\ clock' \in Nat \ {0} /\ storageAt' \in Nat /\ repair' \in Evidence
    BY <1>0, <1>4 DEF MeasureStorage, TypeOK
  <2> QED
    BY <2>1, WorldStep
<1>5. CASE \E good \in BOOLEAN : CompleteRepair(good)
  <2>1. PICK good \in BOOLEAN : CompleteRepair(good)
    BY <1>5
  <2>2. /\ UNCHANGED <<startup, health>>
        /\ clock' \in Nat \ {0} /\ storageAt' \in Nat /\ repair' \in Evidence
    BY <1>0, <2>1 DEF CompleteRepair, TypeOK, Evidence
  <2> QED
    BY <2>2, WorldStep
<1>6. CASE runHealthCheckpoint
  BY <1>6, AttemptStep DEF runHealthCheckpoint, BeginAttempt, world
<1>7. CASE \E r \in {"healthy", "failed"} : setStartupReconciliationResult(r)
  BY <1>7, AttemptStep DEF setStartupReconciliationResult, BeginAttempt
<1>8. CASE EndAttestation
  <2>1. \A now, t : attests(now, t) \in BOOLEAN
    BY DEF attests
  <2>2. PICK other \in BOOLEAN, attested \in BOOLEAN : Evaluate(other, attested)
    BY <1>8, <2>1 DEF EndAttestation
  <2> QED
    BY <2>2, EvaluateStep
<1>9. CASE Save
  BY <1>9, SaveStep
<1>10. CASE stopHealthService
  BY <1>10, AttemptStep DEF stopHealthService, world
<1>11. CASE Restart
  BY <1>11, RestartStep
<1> QED
  BY <1>1, <1>2, <1>3, <1>4, <1>5, <1>6, <1>7, <1>8, <1>9, <1>10, <1>11 DEF Next

\* A reader is told "ready" only of a snapshot that is ready and, at that
\* moment, neither too old nor from the future.
LEMMA ReadyWhenRead == IInv => ReadyHoldsWhenRead
<1> SUFFICES ASSUME IInv, published.state = "ready" PROVE
      /\ startup = "healthy" /\ snapshot.repair.good
      /\ fresh(clock, snapshot.observedAt, MaxCheckpointAge)
      /\ fresh(clock, snapshot.storageAt, StorageMaxAge)
      /\ fresh(clock, snapshot.repair.at, RepairMaxAge)
      /\ clock >= snapshot.observedAt /\ clock >= snapshot.storageAt /\ clock >= snapshot.repair.at
  BY DEF ReadyHoldsWhenRead
<1>1. /\ snapshot \in Snapshots /\ Backed(snapshot) /\ clock \in Nat
      /\ snapshot.observedAt \in Nat /\ MaxCheckpointAge \in Nat
  BY PolicyAssumption DEF IInv, TypeOK, Snapshots
<1> DEFINE consistent == /\ snapshot.consistent
                         /\ notInFuture(clock, snapshot.observedAt)
                         /\ notInFuture(clock, snapshot.storageAt)
                         /\ notInFuture(clock, snapshot.repair.at)
           holds == /\ consistent
                    /\ fresh(clock, snapshot.storageAt, StorageMaxAge)
                    /\ fresh(clock, snapshot.repair.at, RepairMaxAge)
           old == /\ snapshot.state # "starting" /\ snapshot.observedAt # Never
                  /\ clock - snapshot.observedAt > MaxCheckpointAge
<1>2. published.state = IF old THEN "stale"
                        ELSE IF snapshot.state = "ready" /\ ~holds THEN "degraded"
                        ELSE snapshot.state
  BY <1>1 DEF published, refreshHealthSnapshot, Snapshots
<1>3. snapshot.state = "ready" /\ holds /\ ~old
  BY <1>2
<1>4. startup = "healthy" /\ snapshot.repair.good /\ snapshot.observedAt # Never
  BY <1>1, <1>3 DEF Backed
<1>5. fresh(clock, snapshot.observedAt, MaxCheckpointAge)
  BY <1>1, <1>3, <1>4 DEF fresh
<1> QED
  BY <1>3, <1>4, <1>5 DEF notInFuture

-----------------------------------------------------------------------------
\* health/service.ts: the state of the checkpoint service always has its type.
THEOREM HealthTypeCorrect == Spec => []TypeOK
<1>1. Init => IInv
  BY Initially
<1>2. IInv /\ [Next]_vars => IInv'
  BY Inductive
<1>3. IInv => TypeOK
  BY DEF IInv
<1> QED
  BY <1>1, <1>2, <1>3, PTL DEF Spec

\* health/state.ts, health/service.ts, health/persistence.ts: whoever reads
\* "ready" can rely on it at that moment, a published height is never taken
\* back, and what is persisted can be loaded again; for every policy and
\* tolerance, however the clock is set back, whichever writes are rejected and
\* wherever the process ends.
THEOREM HonestHealth == Spec => []HealthHonest
<1>1. Init => IInv
  BY Initially
<1>2. IInv /\ [Next]_vars => IInv'
  BY Inductive
<1>3. IInv => HealthHonest
  BY ReadyWhenRead DEF IInv, HealthHonest, HeightsOK, PersistedLoadable
<1> QED
  BY <1>1, <1>2, <1>3, PTL DEF Spec

-----------------------------------------------------------------------------
(* The session to a peer *)

CONSTANTS Calls, Cooldown, RecoveryTime, MaxSessionTime, MaxSessionFaults

VARIABLES now, sessionFaults, peerUp, session, opened, stale, recoveredAt, recovery,
          lastRecoveryAt, ended, pass, pinged, call

Sessions == INSTANCE PeerSession WITH
  MaxTime <- MaxSessionTime, MaxFaults <- MaxSessionFaults, faults <- sessionFaults

CallStates == [at : {"idle", "calling", "waiting", "done"}, on : Nat, since : Nat,
               told : BOOLEAN]

\* A call waits for a recovery that has not ended yet, and was told nothing before.
CallOK(c) ==
  /\ call[c].told => call[c].at = "done" /\ ended > call[c].since
  /\ call[c].at = "waiting" => call[c].since <= ended

\* A recovery opens its session within its time, and the next one begins a cooldown
\* after it began.
RecoveryOK ==
  /\ lastRecoveryAt <= now /\ recoveredAt <= now
  /\ recovery # "none" => now - lastRecoveryAt <= RecoveryTime /\ lastRecoveryAt # 0
  /\ recoveredAt # 0 => recoveredAt <= lastRecoveryAt + RecoveryTime /\ lastRecoveryAt # 0
  /\ recovery # "none" /\ recoveredAt # 0 =>
       recoveredAt + Cooldown <= lastRecoveryAt + RecoveryTime

SessionsInv ==
  /\ now \in Nat /\ lastRecoveryAt \in Nat /\ recoveredAt \in Nat /\ ended \in Nat
  /\ now >= Cooldown
  /\ session \in Nat /\ opened \in Nat
  /\ recovery \in {"none", "reset", "redial"}
  /\ call \in [Calls -> CallStates]
  /\ RecoveryOK
  /\ \A c \in Calls : CallOK(c)

LEMMA SessionsInitially == Sessions!TimeAssumption /\ Sessions!Init => SessionsInv
BY DEF Sessions!TimeAssumption, Sessions!Init, Sessions!Never, Sessions!NewCall, SessionsInv,
       RecoveryOK, CallOK, CallStates

\* Steps that neither end a recovery nor begin one.
LEMMA SessionsKept ==
  ASSUME Sessions!TimeAssumption, SessionsInv, UNCHANGED <<recovery, lastRecoveryAt, ended>>,
         session' \in Nat, opened' \in Nat,
         \/ UNCHANGED now
         \/ now' = now + 1 /\ (recovery # "none" => now - lastRecoveryAt < RecoveryTime),
         recoveredAt' \in {recoveredAt, 0},
         call' \in [Calls -> CallStates], \A c \in Calls : CallOK(c)'
  PROVE  SessionsInv'
<1>1. RecoveryOK'
  BY DEF SessionsInv, RecoveryOK, Sessions!TimeAssumption
<1> QED BY <1>1 DEF SessionsInv, Sessions!TimeAssumption

LEMMA SessionsStep ==
  ASSUME Sessions!TimeAssumption, SessionsInv, [Sessions!Next]_(Sessions!vars)
  PROVE  SessionsInv'
<1> USE DEF Sessions!sessionVars, Sessions!recoveryVars, Sessions!passVars, Sessions!Never
<1>1. /\ Cooldown \in Nat /\ RecoveryTime \in Nat /\ 0 < RecoveryTime /\ RecoveryTime < Cooldown
  BY DEF Sessions!TimeAssumption
<1>2. UNCHANGED call /\ UNCHANGED ended => \A c \in Calls : CallOK(c)'
  BY DEF SessionsInv, CallOK
<1>3. ASSUME NEW c \in Calls, Sessions!Call(c) PROVE SessionsInv'
  <2>1. /\ UNCHANGED <<now, recovery, lastRecoveryAt, ended>>
        /\ session' \in Nat /\ opened' \in Nat /\ recoveredAt' \in {recoveredAt, 0}
        /\ call' = [call EXCEPT ![c].at = "calling", ![c].on = session']
        /\ call[c].at = "idle"
    BY <1>3 DEF Sessions!Call, Sessions!dial, SessionsInv
  <2>2. call' \in [Calls -> CallStates]
    BY <2>1 DEF SessionsInv, CallStates
  <2>3. \A d \in Calls : CallOK(d)'
    BY <2>1 DEF SessionsInv, CallStates, CallOK
  <2> QED BY <2>1, <2>2, <2>3, SessionsKept
<1>4. ASSUME NEW c \in Calls, Sessions!Answer(c) PROVE SessionsInv'
  <2>1. /\ UNCHANGED <<now, recovery, lastRecoveryAt, ended, session, opened, recoveredAt>>
        /\ call' = [call EXCEPT ![c].at = "done"] /\ call[c].at = "calling"
    BY <1>4 DEF Sessions!Answer
  <2>2. call' \in [Calls -> CallStates]
    BY <2>1 DEF SessionsInv, CallStates
  <2>3. \A d \in Calls : CallOK(d)'
    BY <2>1 DEF SessionsInv, CallStates, CallOK
  <2> QED BY <2>1, <2>2, <2>3, SessionsKept DEF SessionsInv
<1>5. ASSUME NEW c \in Calls, Sessions!Fail(c) PROVE SessionsInv'
  <2>1. /\ call[c].at = "calling" /\ UNCHANGED <<now, session, opened, recoveredAt, ended>>
        /\ \/ /\ recovery # "none" /\ UNCHANGED <<recovery, lastRecoveryAt>>
              /\ call' = [call EXCEPT ![c].at = "waiting", ![c].since = ended]
           \/ /\ UNCHANGED <<recovery, lastRecoveryAt>>
              /\ call' = [call EXCEPT ![c].at = "done", ![c].since = ended, ![c].told = FALSE]
           \/ /\ recovery = "none" /\ recovery' = "reset" /\ lastRecoveryAt' = now
              /\ lastRecoveryAt = 0 \/ now - lastRecoveryAt >= Cooldown
              /\ call' = [call EXCEPT ![c].at = "waiting", ![c].since = ended]
    BY <1>5 DEF Sessions!Fail
  <2>2. call' \in [Calls -> CallStates]
    BY <2>1 DEF SessionsInv, CallStates
  <2>3. \A d \in Calls : CallOK(d)'
    BY <2>1 DEF SessionsInv, CallStates, CallOK
  <2>4. CASE UNCHANGED <<recovery, lastRecoveryAt>>
    BY <2>1, <2>2, <2>3, <2>4, SessionsKept DEF SessionsInv
  <2>5. CASE /\ recovery = "none" /\ recovery' = "reset" /\ lastRecoveryAt' = now
             /\ lastRecoveryAt = 0 \/ now - lastRecoveryAt >= Cooldown
    <3>1. RecoveryOK'
      BY <1>1, <2>1, <2>5 DEF SessionsInv, RecoveryOK
    <3> QED BY <2>1, <2>2, <2>3, <2>5, <3>1 DEF SessionsInv
  <2> QED BY <2>1, <2>4, <2>5
<1>6. CASE Sessions!Reset
  <2>1. /\ recovery = "reset" /\ recovery' = "redial"
        /\ UNCHANGED <<now, lastRecoveryAt, ended, opened, call>>
        /\ session' \in Nat /\ recoveredAt' \in {recoveredAt, 0}
    BY <1>6 DEF Sessions!Reset, Sessions!hangUp, SessionsInv
  <2>2. RecoveryOK'
    BY <2>1 DEF SessionsInv, RecoveryOK
  <2> QED BY <1>2, <2>1, <2>2 DEF SessionsInv
<1>7. CASE Sessions!Redial
  <2>1. /\ recovery = "redial" /\ recovery' = "none" /\ ended' = ended + 1
        /\ UNCHANGED <<now, lastRecoveryAt>>
    BY <1>7 DEF Sessions!Redial
  <2>6. session' \in Nat /\ opened' \in Nat /\ recoveredAt' \in {recoveredAt, now}
    <3>1. Sessions!dial(now)
      BY <1>7 DEF Sessions!Redial
    <3> QED BY <3>1 DEF Sessions!dial, SessionsInv
  <2>5. call' = [c \in Calls |-> IF call[c].at = "waiting"
                                   THEN [call[c] EXCEPT !.at = "done", !.told = TRUE]
                                   ELSE call[c]]
    BY <1>7 DEF Sessions!Redial
  <2>2. call' \in [Calls -> CallStates]
    BY <2>5 DEF SessionsInv, CallStates
  <2>3. ASSUME NEW d \in Calls PROVE CallOK(d)'
    <3>1. CallOK(d) /\ call[d] \in CallStates /\ ended \in Nat
      BY DEF SessionsInv
    <3>2. CASE call[d].at = "waiting"
      <4>1. call'[d].at = "done" /\ call'[d].since = call[d].since
        BY <2>5, <3>1, <3>2 DEF CallStates
      <4> QED BY <2>1, <3>1, <3>2, <4>1 DEF CallStates, CallOK
    <3>3. CASE call[d].at # "waiting"
      <4>1. call'[d] = call[d]
        BY <2>5, <3>3
      <4> QED BY <2>1, <3>1, <3>3, <4>1 DEF CallStates, CallOK
    <3> QED BY <3>2, <3>3
  <2>4. RecoveryOK'
    BY <1>1, <2>1, <2>6 DEF SessionsInv, RecoveryOK
  <2> QED BY <2>1, <2>2, <2>3, <2>4, <2>6 DEF SessionsInv
<1>8. CASE Sessions!PassStep \/ Sessions!Break \/ Sessions!PeerReturns \/ Sessions!Tick
           \/ UNCHANGED Sessions!vars
  <2>1. /\ UNCHANGED <<recovery, lastRecoveryAt, ended, call>>
        /\ session' \in Nat /\ opened' \in Nat /\ recoveredAt' \in {recoveredAt, 0}
        /\ \/ UNCHANGED now
           \/ now' = now + 1 /\ (recovery # "none" => now - lastRecoveryAt < RecoveryTime)
    BY <1>8 DEF Sessions!PassStep, Sessions!BeginPass, Sessions!PingAnswered,
       Sessions!PingFailed, Sessions!PassReset, Sessions!PassDial, Sessions!dial,
       Sessions!hangUp, Sessions!Break, Sessions!PeerReturns, Sessions!Tick, Sessions!vars,
       SessionsInv
  <2> QED BY <1>2, <2>1, SessionsKept DEF SessionsInv
<1> QED BY <1>3, <1>4, <1>5, <1>6, <1>7, <1>8 DEF Sessions!Next

\* peerSessionRecovery.ts: whoever is told that the session was recovered saw a
\* recovery end after its own call had failed, for any number of calls, however late
\* they fail and whatever the peering pass resets meanwhile.
THEOREM RecoveryAnswersTrue ==
  Sessions!TimeAssumption => (Sessions!Spec => []Sessions!RecoveredAfterFailure)
<1> SUFFICES ASSUME Sessions!TimeAssumption
             PROVE  Sessions!Spec => []Sessions!RecoveredAfterFailure
  OBVIOUS
<1>1. Sessions!Init => SessionsInv
  BY SessionsInitially
<1>2. SessionsInv /\ [Sessions!Next]_(Sessions!vars) => SessionsInv'
  BY SessionsStep
<1>3. SessionsInv => Sessions!RecoveredAfterFailure
  BY DEF SessionsInv, CallOK, Sessions!RecoveredAfterFailure
<1> QED BY <1>1, <1>2, <1>3, PTL DEF Sessions!Spec

\* peerSessionRecovery.ts, the cooldown: however many calls of the old session fail
\* late, recovery does not hang up the session that it has just opened.
THEOREM FreshSessionSpared ==
  Sessions!TimeAssumption => (Sessions!Spec => [][Sessions!FreshSpared]_(Sessions!vars))
<1> SUFFICES ASSUME Sessions!TimeAssumption
             PROVE  Sessions!Spec => [][Sessions!FreshSpared]_(Sessions!vars)
  OBVIOUS
<1>1. Sessions!Init => SessionsInv
  BY SessionsInitially
<1>2. SessionsInv /\ [Sessions!Next]_(Sessions!vars) => SessionsInv'
  BY SessionsStep
<1>3. SessionsInv => Sessions!FreshSpared
  BY DEF SessionsInv, RecoveryOK, Sessions!FreshSpared, Sessions!Never, Sessions!TimeAssumption
<1> QED BY <1>1, <1>2, <1>3, PTL DEF Sessions!Spec
=============================================================================
