---------------------------- MODULE NodeShutdown ----------------------------
(***************************************************************************)
(* Start and end of a node process: index.ts, gc.cron.ts and the start and *)
(* stop of the repair driver and the health service.                       *)
(*                                                                         *)
(* The model begins when the server listens.  The startup reconciliation   *)
(* is not awaited, so requests are served, and a signal may arrive, before *)
(* the lifecycle jobs exist.  Stopping a cron job keeps it from ticking;   *)
(* only repair and health are waited for.  A request's handler goes on     *)
(* when its connection is closed.                                          *)
(*                                                                         *)
(* RepairCycle has the passes of the driver in detail and HealthCheckpoint *)
(* those of the health service; here a pass is running or not.  Disk scan  *)
(* and peering, which change no content, and the recovery job that runs    *)
(* when the collector is off, are stopped like the collector's job.        *)
(***************************************************************************)
EXTENDS Naturals

CONSTANTS CollectRequests, RepairRequests,  \* requests POST /gc and POST /repair
          PlainRequests,                    \* other requests
          Signals                           \* SIGINT, SIGTERM: each handled once

AllRequests == CollectRequests \cup RepairRequests \cup PlainRequests

VARIABLES recon,    \* startup reconciliation: "pending", "done" or "failed"
          jobs,     \* startLifecycleJobs has run
          cron,     \* scheduled jobs that tick: "gc" and "repair"
          passes,   \* passes and checkpoints that are running
          stopped, continuation,     \* of the RepairCycleDriver
          stopping, rerunRequested,  \* of the health service
          conn,     \* per request: "none", "open", "answered" or "cut"
          server,   \* "listening", "closing" or "closed"
          phase,    \* per signal: where its shutdown is
          waits,    \* per signal: passes its shutdown waits for
          timers,   \* "idle" and "force", armed by a shutdown
          helia,    \* "up", "stopping" or "down"
          exit,     \* how the process ended: "clean" (0), "forced" (1), or "none"
          early     \* history: a signal came before the jobs had started

health == <<stopping, rerunRequested>>
driver == <<stopped, continuation>>
down == <<server, phase, waits, timers, helia, exit, early>>
shutdownVars == <<recon, jobs, cron, passes, driver, health, conn, down>>

Passes == {"gc", "repair", "checkpoint"}

\* The first checkpoint runs before the server listens; the driver of repair
\* is not started yet.
ShutdownInit == /\ recon = "pending" /\ jobs = FALSE
                /\ cron = {} /\ passes \in {{}, {"checkpoint"}}
                /\ stopped = TRUE /\ continuation = FALSE
                /\ stopping = FALSE /\ rerunRequested = FALSE
                /\ conn = [r \in AllRequests |-> "none"]
                /\ server = "listening"
                /\ phase = [s \in Signals |-> "none"]
                /\ waits = [s \in Signals |-> {}]
                /\ timers = {} /\ helia = "up" /\ exit = "none" /\ early = FALSE

-----------------------------------------------------------------------------
(* Startup *)

\* scheduleCheckpoint: one checkpoint at a time; a request meanwhile runs
\* another one afterwards.
scheduleCheckpoint ==
  /\ ~stopping
  /\ \/ "checkpoint" \in passes /\ rerunRequested' = TRUE /\ UNCHANGED passes
     \/ "checkpoint" \notin passes /\ passes' = passes \cup {"checkpoint"} /\ UNCHANGED rerunRequested

\* Backfill and recovery settle; readiness is evaluated again.
Reconciled == /\ recon = "pending"
              /\ recon' \in {"done", "failed"}
              /\ scheduleCheckpoint \/ (stopping /\ UNCHANGED <<passes, rerunRequested>>)
              /\ UNCHANGED <<jobs, cron, driver, stopping, conn, down>>

\* startLifecycleJobs runs in `finally`.  It does not ask whether a shutdown
\* has begun, and RepairCycleDriver.start takes back a stop.
startLifecycleJobs ==
  /\ recon # "pending" /\ ~jobs
  /\ jobs' = TRUE /\ cron' = {"gc", "repair"} /\ stopped' = FALSE
  /\ passes' = passes \cup {"repair"}
  /\ UNCHANGED <<recon, continuation, health, conn, down>>

-----------------------------------------------------------------------------
(* Passes *)

CollectTick == /\ "gc" \in cron /\ "gc" \notin passes
               /\ passes' = passes \cup {"gc"}
               /\ UNCHANGED <<recon, jobs, cron, driver, health, conn, down>>

RepairTick == /\ "repair" \in cron /\ ~stopped /\ ~continuation /\ "repair" \notin passes
              /\ passes' = passes \cup {"repair"}
              /\ UNCHANGED <<recon, jobs, cron, driver, health, conn, down>>

\* The timer of a continuation fires; it waits for another round if a pass
\* is running.
Continue == /\ continuation /\ ~stopped
            /\ continuation' = ("repair" \in passes)
            /\ passes' = passes \cup {"repair"}
            /\ UNCHANGED <<recon, jobs, cron, stopped, health, conn, down>>

\* The pass completed its cycle, or has more to do.
RepairEnds == /\ "repair" \in passes
              /\ passes' = passes \ {"repair"}
              /\ \/ continuation' = FALSE
                 \/ continuation' = (continuation \/ ~stopped)
              /\ waits' = [s \in Signals |-> waits[s] \ {"repair"}]
              /\ conn' = [r \in AllRequests |->
                    IF r \in RepairRequests /\ conn[r] = "open" THEN "answered" ELSE conn[r]]
              /\ UNCHANGED <<recon, jobs, cron, stopped, health, server, phase, timers,
                             helia, exit, early>>

CollectEnds == /\ "gc" \in passes
               /\ passes' = passes \ {"gc"}
               /\ conn' = [r \in AllRequests |->
                     IF r \in CollectRequests /\ conn[r] = "open" THEN "answered" ELSE conn[r]]
               /\ UNCHANGED <<recon, jobs, cron, driver, health, down>>

CheckpointTick == /\ scheduleCheckpoint
                  /\ UNCHANGED <<recon, jobs, cron, driver, stopping, conn, down>>

CheckpointEnds ==
  /\ "checkpoint" \in passes
  /\ LET again == rerunRequested /\ ~stopping IN
     /\ passes' = IF again THEN passes ELSE passes \ {"checkpoint"}
     /\ rerunRequested' = (rerunRequested /\ ~again)
  /\ waits' = [s \in Signals |-> waits[s] \ {"checkpoint"}]
  /\ UNCHANGED <<recon, jobs, cron, driver, stopping, conn, server, phase, timers,
                             helia, exit, early>>

-----------------------------------------------------------------------------
(* Requests *)

Free(r) == server = "listening" /\ conn[r] = "none"

\* POST /gc starts a collection whatever the startup has done; 409 while one
\* is running.
RequestCollection(r) ==
  /\ Free(r)
  /\ conn' = [conn EXCEPT ![r] = IF "gc" \in passes THEN "answered" ELSE "open"]
  /\ passes' = passes \cup {"gc"}
  /\ UNCHANGED <<recon, jobs, cron, driver, health, down>>

\* POST /repair, with the same driver: 409 while it runs or is stopped.
RequestRepair(r) ==
  /\ Free(r)
  /\ \/ /\ ~stopped /\ "repair" \notin passes
        /\ conn' = [conn EXCEPT ![r] = "open"]
        /\ passes' = passes \cup {"repair"}
     \/ /\ stopped \/ "repair" \in passes
        /\ conn' = [conn EXCEPT ![r] = "answered"]
        /\ UNCHANGED passes
  /\ UNCHANGED <<recon, jobs, cron, driver, health, down>>

Request(r) == /\ Free(r)
              /\ conn' = [conn EXCEPT ![r] = "open"]
              /\ UNCHANGED <<recon, jobs, cron, passes, driver, health, down>>

Answer(r) == /\ conn[r] = "open"
             /\ conn' = [conn EXCEPT ![r] = "answered"]
             /\ UNCHANGED <<recon, jobs, cron, passes, driver, health, down>>

-----------------------------------------------------------------------------
(* Shutdown *)

\* Mutant: the passes are stopped but not waited for.
ShutdownForgets(s) ==
  /\ phase[s] = "none"
  /\ phase' = [phase EXCEPT ![s] = "closing"]
  /\ cron' = {} /\ stopped' = TRUE /\ continuation' = FALSE
  /\ stopping' = TRUE /\ rerunRequested' = FALSE
  /\ early' = (early \/ ~jobs)
  /\ server' = IF server = "listening" THEN "closing" ELSE server
  /\ timers' = {"idle", "force"}
  /\ UNCHANGED <<recon, jobs, passes, conn, waits, helia, exit>>

\* shutdown(): stop everything, remember the passes to wait for, arm both
\* timers, close the server.
Shutdown(s) ==
  /\ phase[s] = "none"
  /\ phase' = [phase EXCEPT ![s] = "closing"]
  /\ cron' = {} /\ stopped' = TRUE /\ continuation' = FALSE
  /\ stopping' = TRUE /\ rerunRequested' = FALSE
  /\ waits' = [waits EXCEPT ![s] = passes \cap {"repair", "checkpoint"}]
  /\ early' = (early \/ ~jobs)
  /\ server' = IF server = "listening" THEN "closing" ELSE server
  /\ timers' = {"idle", "force"}
  /\ UNCHANGED <<recon, jobs, passes, conn, helia, exit>>

\* closeAllConnections, idle or not.
CloseIdle ==
  /\ "idle" \in timers
  /\ timers' = timers \ {"idle"}
  /\ conn' = [r \in AllRequests |-> IF conn[r] = "open" THEN "cut" ELSE conn[r]]
  /\ UNCHANGED <<recon, jobs, cron, passes, driver, health, server, phase, waits, helia,
                 exit, early>>

\* Mutant: the callback of server.close disarms the hard deadline as well.
ServerClosesAll ==
  /\ server = "closing" /\ \A r \in AllRequests : conn[r] # "open"
  /\ server' = "closed" /\ timers' = {}
  /\ UNCHANGED <<recon, jobs, cron, passes, driver, health, conn, phase, waits, helia,
                 exit, early>>

\* The last connection has gone.
ServerCloses ==
  /\ server = "closing" /\ \A r \in AllRequests : conn[r] # "open"
  /\ server' = "closed" /\ timers' = timers \ {"idle"}
  /\ UNCHANGED <<recon, jobs, cron, passes, driver, health, conn, phase, waits, helia,
                 exit, early>>

StopHelia(s) ==
  /\ phase[s] = "closing" /\ server = "closed" /\ waits[s] = {}
  /\ phase' = [phase EXCEPT ![s] = "helia"]
  /\ helia' = IF helia = "up" THEN "stopping" ELSE helia
  /\ UNCHANGED <<recon, jobs, cron, passes, driver, health, conn, server, waits, timers,
                 exit, early>>

\* helia.stop has settled, either way.
Exit(s) == /\ phase[s] = "helia"
           /\ helia' = "down" /\ exit' = "clean"
           /\ UNCHANGED <<recon, jobs, cron, passes, driver, health, conn, server, phase, waits,
                          timers, early>>

ForceExit == /\ "force" \in timers
             /\ exit' = "forced"
             /\ UNCHANGED <<recon, jobs, cron, passes, driver, health, conn, server, phase, waits,
                            timers, helia, early>>

ShutdownNext == /\ exit = "none"
                /\ \/ Reconciled \/ startLifecycleJobs
                   \/ CollectTick \/ RepairTick \/ Continue \/ CheckpointTick
                   \/ RepairEnds \/ CollectEnds \/ CheckpointEnds
                   \/ \E r \in CollectRequests : RequestCollection(r)
                   \/ \E r \in RepairRequests : RequestRepair(r)
                   \/ \E r \in PlainRequests : Request(r) \/ Answer(r)
                   \/ CloseIdle \/ ServerCloses \/ ForceExit
                   \/ \E s \in Signals : Shutdown(s) \/ StopHelia(s) \/ Exit(s)

\* A settled reconciliation runs its `finally`, and an armed timer fires.
\* Passes, requests and helia.stop may hang.
ShutdownFairness == /\ WF_shutdownVars(exit = "none" /\ startLifecycleJobs)
                    /\ WF_shutdownVars(exit = "none" /\ ForceExit)

ShutdownSpec == ShutdownInit /\ [][ShutdownNext]_shutdownVars /\ ShutdownFairness

-----------------------------------------------------------------------------
\* Helia is stopped only after the repair pass, the checkpoint and every
\* request with an open connection have ended, whichever of them a second
\* signal, a late request or a rerun starts in between.
QuietBeforeHelia ==
  helia # "up" => passes \cap {"repair", "checkpoint"} = {} /\ \A r \in AllRequests : conn[r] # "open"

\* No repair pass runs before the registry is reconciled, by schedule or by
\* request.
RepairAfterReconciliation == recon = "pending" => "repair" \notin passes

\* index.ts, replication.cron.ts: repair keeps to the time between the
\* reconciliation and the stop of Helia, and checkpoints and requests with an
\* open connection end before it, unless a signal comes before the jobs start.
PassesWithinUptime == RepairAfterReconciliation /\ (~early => QuietBeforeHelia)

\* A node whose reconciliation failed still gets its collector.
JobsStart == recon # "pending" ~> (jobs \/ exit # "none")

\* A signal ends the process, whatever hangs.
ShutdownEnds == \A s \in Signals : phase[s] # "none" ~> exit # "none"

\* Documented: once shutdown has begun, no pass of repair or collection starts.
NoPassAfterSignal ==
  [][(\E s \in Signals : phase[s] # "none")
       => passes' \cap {"gc", "repair"} \subseteq passes]_shutdownVars

\* Documented: the background jobs have stopped before Helia does.
JobsEndBeforeHelia == helia # "up" => passes = {}

\* Documented: in-flight requests finish, only idle connections are closed.
InFlightFinish == \A r \in AllRequests : conn[r] # "cut"
=============================================================================
