---------------------------- MODULE MCNodeLocks ----------------------------
(***************************************************************************)
(* Everything on one node that waits for its turn: the lease over the      *)
(* block store, the per-CID queues of the registry, and the handlers and   *)
(* the collector, which wait for both.  FileLifecycle takes what the locks *)
(* promise as its fairness; the three share no state here, and each        *)
(* behaviour is of one of them, with the others in an initial state.       *)
(***************************************************************************)
EXTENDS StorageOperationLock, CidLocks

CONSTANTS c1, r1, r2, NoReq

VARIABLES part,  \* the component that moves
          \* FileLifecycle
          rec, intent, pin, blocks, job, handler, files, visits, baseline, created,
          written, doomed, active, repairing, repairToken, aborted, gcPc, gcTodo,
          gcPlan, gcFresh, gcReleased, gcCollect, backfill, recovery, faults, crashes

\* Two uploads of one content, a collector, one crash and one write rejected when
\* an upload is undone or settled.
Handlers == INSTANCE FileLifecycle WITH
  Cids <- {c1}, Requests <- {r1, r2}, Txs <- {}, Rejected <- {}, Legacy <- {},
  ConfirmationRequired <- FALSE, Strict <- TRUE, Calls <- {}, Jobs <- {"gc"},
  FaultyWrites <- {"undo", "settle"}, MaxFaults <- 1, MaxCrashes <- 1,
  pc <- handler, todo <- visits

ASSUME Handlers!ConfigAssumption

handlerVars == <<rec, intent, pin, blocks, job, handler, files, visits, baseline, created,
                 written, doomed, active, repairing, repairToken, aborted, gcPc,
                 gcTodo, gcPlan, gcFresh, gcReleased, gcCollect, backfill, recovery,
                 faults, crashes>>

NodeLocksInit == /\ part \in {"lease", "cids", "handlers"}
                 /\ Init /\ LocksInit /\ Handlers!Init

NodeLocksNext ==
  /\ \/ part = "lease" /\ Next /\ UNCHANGED <<lockVars, handlerVars>>
     \/ part = "cids" /\ LocksNext /\ UNCHANGED <<vars, handlerVars>>
     \/ part = "handlers" /\ Handlers!Next /\ UNCHANGED <<vars, lockVars>>
  /\ UNCHANGED part

LocksOfNode == /\ NodeLocksInit /\ [][NodeLocksNext]_<<part, vars, lockVars, handlerVars>>
               /\ Fairness /\ LocksFairness

-----------------------------------------------------------------------------
\* operationLock.ts, registry.ts: nobody waits for ever, neither a collector while
\* uploads keep coming, nor a request that needs several CIDs others want too.
EveryoneServed == EveryWaiterServed /\ EveryRequestServed

\* uploadRoute.ts, admission.ts, gc.ts: every admitted request ends, whatever the
\* collector and the other requests do; a token whose handler has died does not
\* hide its file for ever; a collection that queued for the lease is finished.
HandlersEnd ==
  /\ part = "handlers" /\ Handlers!Fairness => Handlers!UploadsEnd
  /\ part = "handlers" /\ Handlers!Fairness => Handlers!StaleTokensCleared
  /\ part = "handlers" /\ Handlers!Fairness => Handlers!CollectionEnds
=============================================================================
