---------------------------- MODULE RepairCycle ----------------------------
(***************************************************************************)
(* The repair cycle of one node: replication.cron.ts, repairCycle.ts,      *)
(* repairCycleDriver.ts and repairEvidence.ts.                             *)
(*                                                                         *)
(* A cycle walks the durable records in bounded passes.  The list it       *)
(* committed to lives in memory (`cycle`), the cursor and the counters in  *)
(* an evidence record that is kept in memory and on disk.  A pass takes    *)
(* its batch from the list, visits it, and saves the evidence last.  The   *)
(* driver chains passes: a timer after an unfinished pass, the cron        *)
(* schedule, an operator's request.  Health reads the evidence of the last *)
(* complete cycle, so what matters is what a published cycle stands for.   *)
(*                                                                         *)
(* CIDs are numbered in the order a cycle walks them.  Counters are        *)
(* abstracted to "some record is still missing copies".                    *)
(***************************************************************************)
EXTENDS Naturals, Sequences, FiniteSets, SequencesExt

CONSTANTS Cids,                 \* contents, numbered in code-unit order
          BatchSize,            \* SWEEP_BATCHES.repair
          MaxCatchUpRounds,     \* MAX_CATCH_UP_ROUNDS
          MaxConsecutiveFailures,
          MaxChanges,           \* bound: records that come or go
          MaxFaults,            \* bound: datastore failures
          MaxRestarts           \* bound: stops and crashes

ASSUME CidsAssumption  == Cids \subseteq Nat \ {0} /\ IsFiniteSet(Cids)
ASSUME BoundAssumption == /\ {BatchSize, MaxConsecutiveFailures} \subseteq Nat \ {0}
                          /\ {MaxCatchUpRounds, MaxChanges, MaxFaults, MaxRestarts} \subseteq Nat

VARIABLES cand,      \* candidates: confirmed records nobody works on
          cycle,     \* the committed list, or NoCycle
          evidence,  \* evidence in memory
          disk,      \* evidence in the datastore
          pass,      \* the running pass
          proc,      \* "booted", "running" or "stopping"
          timer,     \* whether a continuation is scheduled
          failures,  \* consecutiveFailures
          visited,   \* history: CIDs visited since the cycle began
          found,     \* history: those of them that lack copies
          changes, faults, restarts

driverVars == <<proc, timer, failures>>
history    == <<visited, found>>
bounds     == <<changes, faults, restarts>>
vars == <<cand, cycle, evidence, disk, pass, driverVars, history, bounds>>

\* `undefined`: no cursor, which makes the next pass start a new cycle
NoCursor == 0

Evidence == [cursor : Cids \cup {NoCursor}, superseded : BOOLEAN, missing : BOOLEAN,
             completed : {"never", "fresh", "stale"}, successful : BOOLEAN]

emptyEvidence == [cursor |-> NoCursor, superseded |-> FALSE, missing |-> FALSE,
                  completed |-> "never", successful |-> FALSE]

NoCycle == [cids |-> <<>>, index |-> 0, refreshes |-> 0, resumed |-> FALSE, on |-> FALSE]
NoPass  == [at |-> "none", batch |-> <<>>, completed |-> FALSE, uncovered |-> FALSE,
            proven |-> TRUE, cursor |-> NoCursor, missing |-> FALSE, scan |-> {}]

active  == pass.at # "none"
stopped == proc # "running"

Init == /\ cand \in SUBSET Cids
        /\ cycle = NoCycle
        /\ evidence = emptyEvidence /\ disk = emptyEvidence
        /\ pass = NoPass
        /\ proc = "booted" /\ timer = FALSE /\ failures = 0
        /\ visited = {} /\ found = {}
        /\ changes = 0 /\ faults = 0 /\ restarts = 0

-----------------------------------------------------------------------------
(* The world around the cycle *)

\* Uploads are confirmed, files are released, lifecycles get busy and settle.
ChangeRegistry(c) ==
  /\ changes < MaxChanges
  /\ changes' = changes + 1
  /\ cand' = IF c \in cand THEN cand \ {c} ELSE cand \cup {c}
  /\ UNCHANGED <<cycle, evidence, disk, pass, driverVars, history, faults, restarts>>

\* The last complete cycle grows older than health.repairMaxAgeMs.
Age ==
  /\ evidence.completed = "fresh"
  /\ evidence' = [evidence EXCEPT !.completed = "stale"]
  /\ disk' = [disk EXCEPT !.completed = IF @ = "fresh" THEN "stale" ELSE @]
  /\ UNCHANGED <<cand, cycle, pass, driverVars, history, bounds>>

-----------------------------------------------------------------------------
(* One pass *)

rank(S, c) == Cardinality({d \in S : d < c})
sorted(S)  == [i \in 1..Cardinality(S) |-> CHOOSE c \in S : rank(S, c) = i - 1]

candidateCids == sorted(cand)

\* The first position behind the cursor in a list that is built anew.
resumeIndex(cids, cursor) ==
  Cardinality({i \in 1..Len(cids) : cids[i] <= cursor})

\* Mutant: a list rebuilt from the cursor counts as covered from its start.
BuiltAnew(cursor) == [cids |-> candidateCids, index |-> resumeIndex(candidateCids, cursor),
                      refreshes |-> 0, resumed |-> FALSE, on |-> TRUE]

built(cursor) == [cids |-> candidateCids, index |-> resumeIndex(candidateCids, cursor),
                  refreshes |-> 0, resumed |-> cursor # NoCursor, on |-> TRUE]

\* nextRepairCycleBatch up to its second scan: the position moves when the
\* batch is handed out, before anything of it has been visited.
TakeBatch ==
  LET cursor == evidence.cursor
      anew   == ~cycle.on \/ cursor = NoCursor
      cy     == IF anew THEN built(cursor) ELSE cycle
      upto   == IF cy.index + BatchSize < Len(cy.cids) THEN cy.index + BatchSize ELSE Len(cy.cids)
      batch  == SubSeq(cy.cids, cy.index + 1, upto) IN
  /\ pass.at = "select"
  /\ cycle' = [cy EXCEPT !.index = upto]
  /\ pass' = [pass EXCEPT !.at = IF upto < Len(cy.cids) THEN "visit" ELSE "scan",
                          !.batch = batch, !.proven = ~cy.resumed,
                          !.cursor = IF batch = <<>> THEN cursor ELSE Last(batch)]
  /\ IF cursor = NoCursor THEN visited' = {} /\ found' = {} ELSE UNCHANGED history
  /\ UNCHANGED <<cand, evidence, disk, driverVars, bounds>>

roundsLeft == cycle.refreshes < MaxCatchUpRounds

\* The scan at the end of the list: newcomers are appended, or the rounds
\* have run out and the cycle ends with them uncovered.
ScanEnd ==
  LET fresh == sorted(cand \ ToSet(cycle.cids)) IN
  /\ pass.at = "scan"
  /\ \/ /\ fresh # <<>> /\ roundsLeft
        /\ cycle' = [cycle EXCEPT !.cids = @ \o fresh, !.refreshes = @ + 1]
        /\ pass' = [pass EXCEPT !.at = "visit"]
     \/ /\ fresh = <<>> \/ ~roundsLeft
        /\ cycle' = NoCycle
        /\ pass' = [pass EXCEPT !.at = "visit", !.completed = TRUE, !.cursor = NoCursor,
                                !.uncovered = fresh # <<>>, !.scan = cand]
  /\ UNCHANGED <<cand, evidence, disk, driverVars, history, bounds>>

\* repairReplication visits the batch: records that are gone drop out, the
\* others are probed, copied and, where this node gave its copy away, rescued.
Visit ==
  /\ pass.at = "visit"
  /\ \E bad \in SUBSET (ToSet(pass.batch) \cap cand) :
       /\ visited' = visited \cup ToSet(pass.batch)
       /\ found' = found \cup bad
       /\ pass' = [pass EXCEPT !.at = "save", !.missing = bad # {}]
  /\ UNCHANGED <<cand, cycle, evidence, disk, driverVars, bounds>>

aggregate(p) == evidence.missing \/ p.missing

superseded(p) == evidence.superseded \/ p.uncovered \/ ~p.proven
publishes(p)  == p.completed /\ ~superseded(p)

\* Mutant: a cycle that could not be published leaves its mark on the next.
SavedSticky(p) ==
  [cursor |-> p.cursor, superseded |-> superseded(p), missing |-> aggregate(p),
   completed |-> IF publishes(p) THEN "fresh" ELSE evidence.completed,
   successful |-> IF publishes(p) THEN ~aggregate(p) ELSE evidence.successful]

\* The evidence a pass saves: a finished cycle starts over with an empty one
\* and replaces the completed cycle only if it really covered everything.
saved(p) ==
  IF p.completed
    THEN [emptyEvidence EXCEPT
            !.completed = IF publishes(p) THEN "fresh" ELSE evidence.completed,
            !.successful = IF publishes(p) THEN ~aggregate(p) ELSE evidence.successful]
    ELSE [evidence EXCEPT !.superseded = superseded(p), !.cursor = p.cursor,
                          !.missing = aggregate(p)]

\* saveEvidence, and the driver's handler of a fulfilled pass.
SavePass ==
  /\ pass.at = "save"
  /\ evidence' = saved(pass) /\ disk' = saved(pass)
  /\ pass' = NoPass
  /\ failures' = 0
  /\ timer' = (~pass.completed /\ ~stopped)
  /\ UNCHANGED <<cand, cycle, proc, history, bounds>>

\* Mutant: a failed pass waits for the next schedule.
onPassFailedGivesUp == failures' = failures + 1 /\ timer' = FALSE

\* The driver's handler of a rejected pass.
onPassFailed ==
  /\ failures' = failures + 1
  /\ timer' = (failures + 1 < MaxConsecutiveFailures /\ ~stopped)

\* A scan, a read or write of a record, or the write of the evidence fails:
\* part of the batch may have been visited, nothing is remembered of it, and
\* the write may have reached the disk all the same.
FailPass ==
  /\ active /\ faults < MaxFaults
  /\ faults' = faults + 1
  /\ \/ pass.at \in {"select", "scan"} /\ UNCHANGED <<disk, history>>
     \/ /\ pass.at = "visit"
        /\ \E n \in 0..Len(pass.batch) :
             LET seen == ToSet(SubSeq(pass.batch, 1, n)) IN
             /\ visited' = visited \cup seen
             /\ \E bad \in SUBSET (seen \cap cand) : found' = found \cup bad
        /\ UNCHANGED disk
     \/ pass.at = "save" /\ disk' \in {disk, saved(pass)} /\ UNCHANGED history
  /\ pass' = NoPass
  /\ onPassFailed
  /\ UNCHANGED <<cand, cycle, evidence, proc, changes, restarts>>

-----------------------------------------------------------------------------
(* The driver *)

\* run(): every trigger but a continuation starts with a new failure budget.
run(trigger) ==
  /\ pass' = [NoPass EXCEPT !.at = "select"]
  /\ failures' = IF trigger = "continuation" THEN failures ELSE 0
  /\ UNCHANGED <<cand, cycle, evidence, disk, history, bounds>>

start == /\ proc = "booted"
         /\ proc' = "running" /\ UNCHANGED timer
         /\ run("startup")

triggerSchedule == /\ ~stopped /\ ~timer /\ ~active
                   /\ UNCHANGED <<proc, timer>>
                   /\ run("schedule")

\* The timer stays: it finds the next pass active or continues after it.
runManual == /\ ~stopped /\ ~active
             /\ UNCHANGED <<proc, timer>>
             /\ run("manual")

\* While another pass is active the callback only sets the timer again.
Continue == /\ timer /\ ~stopped /\ ~active
            /\ timer' = FALSE /\ UNCHANGED proc
            /\ run("continuation")

stop == /\ proc = "running"
        /\ proc' = "stopping" /\ timer' = FALSE
        /\ UNCHANGED <<cand, cycle, evidence, disk, pass, failures, history, bounds>>

\* The process ends, by a crash or after stop(), and a new one loads the
\* evidence; parseEvidence or a changed membership or policy may reject it.
Restart ==
  /\ restarts < MaxRestarts /\ proc # "booted"
  /\ restarts' = restarts + 1
  /\ evidence' \in {disk, emptyEvidence}
  /\ cycle' = NoCycle /\ pass' = NoPass
  /\ proc' = "booted" /\ timer' = FALSE /\ failures' = 0
  /\ UNCHANGED <<cand, disk, history, changes, faults>>

PassStep == TakeBatch \/ ScanEnd \/ Visit \/ SavePass

Next == \/ \E c \in Cids : ChangeRegistry(c)
        \/ Age
        \/ PassStep \/ FailPass
        \/ start \/ triggerSchedule \/ runManual \/ Continue \/ stop \/ Restart

\* Awaited calls return, the cron schedule ticks and timers fire; a process
\* that was started begins its first cycle.  Nobody has to ask for a manual
\* pass.
Fairness == /\ WF_vars(PassStep) /\ WF_vars(start)
            /\ WF_vars(triggerSchedule) /\ WF_vars(Continue)

Spec == Init /\ [][Next]_vars /\ Fairness

-----------------------------------------------------------------------------
Publishing == pass.at = "save" /\ publishes(pass) /\ evidence' = saved(pass)

\* A cycle that readiness may rest on visited every record that was a
\* candidate when its last scan ran: those it found at its start, those that
\* came while it walked, and none skipped by a restart or by a failed pass.
PublishedCoversAll == [][Publishing => pass.scan \subseteq visited]_vars

\* The same as long as no pass has failed on its datastore: restarts, which may
\* keep or reject the saved evidence, and records that come and go do not make
\* a cycle skip one.
FaultlessCoversAll == [][Publishing /\ faults = 0 => pass.scan \subseteq visited]_vars

\* A cycle published as successful found no record short of copies in any of
\* its passes, as long as none of them failed on its datastore.
PublishedHonestly ==
  [][Publishing /\ faults = 0 /\ evidence'.successful => found = {}]_vars

\* What readiness rests on is true, unless a pass has failed on its datastore.
PublishedIsTrue == FaultlessCoversAll /\ PublishedHonestly

\* An unfinished cycle of a running node always has a pass at work or a
\* continuation scheduled, unless its failure budget is used up.
CycleOwned ==
  ~stopped /\ evidence.cursor # NoCursor =>
    active \/ timer \/ failures = MaxConsecutiveFailures

\* Evidence that has grown stale is renewed by a complete cycle, once uploads,
\* failures and restarts pause: no leftover of an earlier cycle (cursor,
\* superseded mark, failure budget, committed list) holds it back for ever.
EvidenceRenewed == proc = "running" /\ evidence.completed # "fresh"
                     ~> evidence.completed = "fresh" \/ proc # "running"
=============================================================================
