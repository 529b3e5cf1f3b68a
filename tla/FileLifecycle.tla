--------------------------- MODULE FileLifecycle ---------------------------
(***************************************************************************)
(* One node's file lifecycle: the registry records (registry.ts), the      *)
(* Helia pins and blocks they describe, and every operation that moves     *)
(* them - uploads (uploadRoute.ts, rollback.ts), confirm / release / adopt *)
(* (lifecycle.ts), incoming copies and strict-upload stages                *)
(* (replicaStage.ts, service.ts), garbage collection with handover         *)
(* (gc.ts, collection.ts, gc.cron.ts), repair and rescue (service.ts),     *)
(* and crash, restart and backfill (index.ts, backfill.ts, admission.ts).  *)
(*                                                                         *)
(* A record and its pin are two stores, and every operation changes one    *)
(* and then the other while it holds the CID's lock.  The model splits     *)
(* each operation there: its first step reads the record, decides, and     *)
(* changes the pin, leaving in job[c] the record it is about to write and  *)
(* what its catch block would do; its second step is the registry write.   *)
(* A crash, a rejected write, Helia's block deletion and every operation   *)
(* on another CID can come in between.                                     *)
(*                                                                         *)
(* Time is abstracted: a temporary record may pass its TTL at any moment.  *)
(* The random revision of a record is abstracted to gcFresh, the CIDs not  *)
(* written since the collector's snapshot.  The storage lease is used      *)
(* through the promise of RWLease (implemented by StorageOperationLock),   *)
(* and withExclusiveCids as one step that takes all its locks.             *)
(***************************************************************************)
EXTENDS Naturals

CONSTANTS
  Cids,                  \* file contents
  Requests,              \* upload requests; each uses a token of its own
  Txs,                   \* transaction ids of strict uploads on other nodes
  Rejected,              \* those whose coordinator aborts; it commits the others
  Legacy,                \* CIDs pinned before this node had a registry
  ConfirmationRequired,  \* storage.confirmationRequired
  Strict,                \* replication.requireQuorumOnUpload
  Calls,                 \* lifecycle calls that clients and peers make
  Jobs,                  \* background jobs the operator enabled
  FaultyWrites,          \* kinds of registry write that the datastore may reject
  MaxFaults,             \* bound on rejected writes
  MaxCrashes,            \* bound on crashes
  NoReq                  \* no upload request

ConfigAssumption ==
  /\ NoReq \notin Requests
  /\ Legacy \subseteq Cids /\ Rejected \subseteq Txs
  /\ ConfirmationRequired \in BOOLEAN /\ Strict \in BOOLEAN
  /\ ~(ConfirmationRequired /\ Strict)   \* rejected at startup
  /\ MaxFaults \in Nat /\ MaxCrashes \in Nat
  /\ FaultyWrites \subseteq {"confirm", "store", "release", "demote", "guard", "rescue",
                             "stage", "abort", "gcRelease", "gcStage", "baseline",
                             "admit", "undo", "finalize", "settle"}

VARIABLES
  rec,        \* registry records, by CID
  intent,     \* CIDs with a pin-intent marker
  pin,        \* CIDs with a direct Helia pin
  blocks,     \* CIDs whose whole DAG is in the blockstore
  job,        \* per CID: the locked operation between pin and record
  pc,         \* per request: where its handler is
  files,      \* per request: the CIDs it uploads
  todo,       \* per request: CIDs the current loop still has to visit
  baseline,   \* per request: the records its registrations replaced
  created,    \* per request: CIDs whose pin this request created
  written,    \* per request: CIDs whose blocks this session created
  doomed,     \* per request: block the session cleanup is about to delete
  active,     \* activeAdmissions: tokens whose handler is still running
  repairing,  \* activeRepairs
  repairToken,\* per CID: admission token seen by the repair that claimed it
  aborted,    \* abort tombstones <<cid, transaction>>
  gcPc, gcTodo, gcPlan, gcFresh, gcReleased, gcCollect,
  backfill,   \* per CID: startup reconciliation of the pin snapshot
  recovery,   \* CIDs the startup admission recovery still has to visit
  faults, crashes

storeVars  == <<rec, intent, pin, blocks>>
uploadVars == <<pc, files, todo, baseline, created, written, doomed, active>>
repairVars == <<repairing, repairToken>>
gcVars     == <<gcPc, gcTodo, gcPlan, gcFresh, gcReleased, gcCollect>>
bootVars   == <<backfill, recovery>>
envVars    == <<faults, crashes>>
vars == <<storeVars, job, uploadVars, repairVars, aborted, gcVars, bootVars, envVars>>

-----------------------------------------------------------------------------
(* Records and pending jobs *)

Tokens == Requests \cup {NoReq}

\* adm/settled are admissionId/admissionSettledAt; stage is the set of
\* transactions of replicaStage and base its compensation baseline.
Record == [state : {"absent", "temporary", "confirmed", "expired"},
           pinned : BOOLEAN, held : BOOLEAN,
           adm : Tokens, settled : BOOLEAN,
           stage : SUBSET Txs, base : {"none", "expired"}]

Absent == [state |-> "absent", pinned |-> FALSE, held |-> FALSE, adm |-> NoReq,
           settled |-> FALSE, stage |-> {}, base |-> "none"]

Kinds == {"none", "confirm", "store", "release", "demote", "guard", "rescue",
          "stage", "abort", "gcRelease", "gcStage", "intent", "admit", "busy",
          "refused", "undo", "baseline"}

\* next is the record the operation writes; prev the one it read.  On a
\* rejected write its catch block puts the pin (undoPin) and, if undoSave,
\* the record back.
Job == [kind : Kinds, by : Tokens, next : Record, prev : Record,
        undoPin : {"keep", "pin", "unpin"}, undoSave : BOOLEAN, shared : BOOLEAN]

NoJob == [kind |-> "none", by |-> NoReq, next |-> Absent, prev |-> Absent,
          undoPin |-> "keep", undoSave |-> FALSE, shared |-> FALSE]

Durable(f)   == f.state = "confirmed" /\ f.held
Unowned(f)   == [f EXCEPT !.adm = NoReq, !.settled = FALSE]
Unstaged(f)  == [f EXCEPT !.stage = {}, !.base = "none"]
Plain(f)     == Unstaged(Unowned(f))
Confirmed(f) == [Plain(f) EXCEPT !.state = "confirmed", !.pinned = TRUE, !.held = TRUE]
\* Mutant: a state the schema does not know.
ReleasedUnknown(f) == [Plain(f) EXCEPT !.state = "released", !.pinned = FALSE, !.held = FALSE]
Released(f)  == [Plain(f) EXCEPT !.state = "expired", !.pinned = FALSE, !.held = FALSE]
Demoted(f)   == [Plain(f) EXCEPT !.pinned = FALSE, !.held = FALSE]
Rescued(f)   == [Plain(f) EXCEPT !.pinned = TRUE, !.held = TRUE]

isAdmissionSettled(f)  == f.adm = NoReq \/ f.settled
isAdmissionInFlight(f) == ~isAdmissionSettled(f) \/ f.adm \in active
\* Mutants: a running repair, or a settled token still in use, is overlooked.
busyIgnoringRepair(c) == rec[c].stage # {} \/ isAdmissionInFlight(rec[c])
busyUntilSettled(c) == \/ rec[c].stage # {}
                       \/ ~isAdmissionSettled(rec[c])
                       \/ c \in repairing
isLifecycleBusy(c) == \/ rec[c].stage # {}
                      \/ isAdmissionInFlight(rec[c])
                      \/ c \in repairing
isSettledHeldFile(c) == /\ Durable(rec[c])
                        /\ isAdmissionSettled(rec[c])
                        /\ rec[c].adm \notin active
                        /\ c \notin repairing

-----------------------------------------------------------------------------
(* Locks and the storage lease *)

\* Handlers between these points hold the locks of all their CIDs.
LockedPcs == {"admitting", "restoring", "cleaning", "undoing", "settling", "clearing"}
\* Sessions that are not settled hold the shared storage lease.
LeasedPcs == {"imported", "aborting", "admitting", "restoring", "cleaning"}
HandlerPcs == {"admitting", "restoring", "cleaning", "placing", "rollback",
               "undoing", "finalizing", "settling", "committing", "clearing"}
Pcs == HandlerPcs \cup LeasedPcs \cup {"idle", "done"}

HeldByUpload(c) == \E r \in Requests : pc[r] \in LockedPcs /\ c \in files[r]
Unlocked(c) == job[c].kind = "none" /\ ~HeldByUpload(c)

\* A queued collector already blocks new shared leases.
LeaseOpen == gcPc \notin {"lease", "delete"}
SharedLeaseOut == \/ \E r \in Requests : pc[r] \in LeasedPcs
                  \/ \E c \in Cids : job[c].shared

-----------------------------------------------------------------------------
(* Building blocks of the operations *)

\* pinFile: fetches what is missing, then protects the DAG.
pinFile(c) == pin' = pin \cup {c} /\ blocks' = blocks \cup {c}
unpinFile(c) == pin' = pin \ {c} /\ UNCHANGED blocks

\* FileRegistry.save and removeRecord: a new revision, or none.
save(c, f) == rec' = [rec EXCEPT ![c] = f] /\ gcFresh' = gcFresh \ {c}

Pending(c, kind, by, next, undoPin, undoSave, shared) ==
  job' = [job EXCEPT ![c] =
    [kind |-> kind, by |-> by, next |-> next, prev |-> rec[c],
     undoPin |-> undoPin, undoSave |-> undoSave, shared |-> shared]]

\* restoreLifecycleBaseline
wasPinned(c) == IF rec[c].pinned \/ c \in pin THEN "pin" ELSE "unpin"
\* "if (createdPin && previous.pinned !== true) unpin", and its mirror image
undoCreated(c) == IF c \notin pin /\ ~rec[c].pinned THEN "unpin" ELSE "keep"
undoRemoved(c) == IF c \in pin /\ rec[c].pinned THEN "pin" ELSE "keep"

\* registerExclusively: whom it refuses, and what it writes otherwise.
registerBusy(c, r) ==
  \/ c \in repairing
  \/ /\ ~(r = NoReq /\ rec[c].stage # {})
     /\ rec[c].adm \notin {NoReq, r}
     /\ (~rec[c].settled \/ rec[c].adm \in active)

registered(c, r, confirmationRequired) ==
  IF r = NoReq /\ rec[c].stage # {} THEN rec[c]
  ELSE [state |-> IF rec[c].state = "confirmed" \/ ~confirmationRequired
                    THEN "confirmed" ELSE "temporary",
        pinned |-> TRUE, held |-> TRUE, adm |-> r, settled |-> FALSE,
        stage |-> {}, base |-> "none"]

-----------------------------------------------------------------------------
(* Upload requests *)

at(r, p) == pc[r] = p
goto(r, p) == pc' = [pc EXCEPT ![r] = p]
NoJobOf(r) == \A c \in files[r] : job[c].kind = "none"
AllUnlocked(r) == \A c \in files[r] : Unlocked(c)

\* The last thing the handler does: endAdmission in `finally`.
finish(r) == /\ goto(r, "done")
             /\ active' = active \ {r}
             /\ files' = [files EXCEPT ![r] = {}]
             /\ todo' = [todo EXCEPT ![r] = {}]
             /\ baseline' = [baseline EXCEPT ![r] = [c \in Cids |-> Absent]]
             /\ created' = [created EXCEPT ![r] = {}]
             /\ written' = [written EXCEPT ![r] = {}]
             /\ doomed' = [doomed EXCEPT ![r] = {}]

\* Admission takes the shared lease; the parser imports unpinned blocks.
ImportFiles(r) ==
  /\ at(r, "idle") /\ LeaseOpen
  /\ \E F \in (SUBSET Cids) \ {{}} :
       /\ files' = [files EXCEPT ![r] = F]
       /\ written' = [written EXCEPT ![r] = F \ blocks]
       /\ blocks' = blocks \cup F
  /\ goto(r, "imported")
  /\ UNCHANGED <<rec, intent, pin, job, todo, baseline, created, doomed, active,
                 repairVars, aborted, gcVars, bootVars, envVars>>

\* The client disconnects before the handler claims the session.
DisconnectUpload(r) ==
  /\ at(r, "imported") /\ "disconnect" \in Calls
  /\ goto(r, "aborting")
  /\ todo' = [todo EXCEPT ![r] = written[r]]
  /\ UNCHANGED <<storeVars, job, files, baseline, created, written, doomed, active,
                 repairVars, aborted, gcVars, bootVars, envVars>>

\* The handler starts: beginAdmission, session.claim, withExclusiveCids.
ClaimUpload(r) ==
  /\ at(r, "imported") /\ AllUnlocked(r)
  /\ goto(r, "admitting")
  /\ active' = active \cup {r}
  /\ todo' = [todo EXCEPT ![r] = files[r]]
  /\ UNCHANGED <<storeVars, job, files, baseline, created, written, doomed,
                 repairVars, aborted, gcVars, bootVars, envVars>>

markPinIntent(c) == intent' = intent \cup {c}

\* Per file: read the previous record and mark the pin intent ...
MarkPinIntent(r, c) ==
  /\ at(r, "admitting") /\ c \in todo[r]
  /\ NoJobOf(r) /\ (files[r] \ todo[r]) \cap intent = {}
  /\ markPinIntent(c)
  /\ Pending(c, "intent", r, rec[c], "keep", FALSE, FALSE)
  /\ UNCHANGED <<rec, pin, blocks, uploadVars, repairVars, aborted, gcVars,
                 bootVars, envVars>>

\* ... pin it, and let registerReplacing decide ...
PinUpload(r, c) ==
  /\ at(r, "admitting") /\ job[c].kind = "intent" /\ job[c].by = r
  /\ pinFile(c)
  /\ IF registerBusy(c, r)
       THEN Pending(c, "busy", r, rec[c], undoCreated(c), TRUE, FALSE)
       ELSE Pending(c, "admit", r, registered(c, r, ConfirmationRequired),
                    undoCreated(c), TRUE, FALSE)
  /\ created' = [created EXCEPT ![r] = IF c \in pin THEN @ ELSE @ \cup {c}]
  /\ UNCHANGED <<rec, intent, pc, files, todo, baseline, written, doomed, active,
                 repairVars, aborted, gcVars, bootVars, envVars>>

\* ... write the record ...
RegisterUpload(r, c) ==
  /\ at(r, "admitting") /\ job[c].kind = "admit" /\ job[c].by = r
  /\ save(c, job[c].next)
  /\ baseline' = [baseline EXCEPT ![r][c] = job[c].prev]
  /\ todo' = [todo EXCEPT ![r] = @ \ {c}]
  /\ job' = [job EXCEPT ![c] = NoJob]
  /\ UNCHANGED <<intent, pin, blocks, pc, files, created, written, doomed, active,
                 repairVars, aborted, gcPc, gcTodo, gcPlan, gcReleased, gcCollect,
                 bootVars, envVars>>

\* ... and drop the marker.
ClearPinIntent(r, c) ==
  /\ at(r, "admitting") /\ c \in files[r] \ todo[r] /\ c \in intent
  /\ intent' = intent \ {c}
  /\ UNCHANGED <<rec, pin, blocks, job, uploadVars, repairVars, aborted, gcVars,
                 bootVars, envVars>>

\* registerReplacing threw FileLifecycleBusyError: rollbackUpload's unpin ...
RefuseUpload(r, c) ==
  /\ at(r, "admitting") /\ job[c].kind = "busy" /\ job[c].by = r
  /\ IF job[c].undoPin = "unpin" THEN unpinFile(c) ELSE UNCHANGED <<pin, blocks>>
  /\ job' = [job EXCEPT ![c].kind = "refused", ![c].undoPin = "keep", ![c].undoSave = FALSE]
  /\ UNCHANGED <<rec, intent, uploadVars, repairVars, aborted, gcVars, bootVars, envVars>>

\* ... its save or remove, clearPinIntent, and on to the files before it.
RestoreRefused(r, c) ==
  /\ at(r, "admitting") /\ job[c].kind = "refused" /\ job[c].by = r
  /\ save(c, job[c].prev)
  /\ intent' = intent \ {c}
  /\ job' = [job EXCEPT ![c] = NoJob]
  /\ goto(r, "restoring")
  /\ todo' = [todo EXCEPT ![r] = files[r] \ @]
  /\ UNCHANGED <<pin, blocks, files, baseline, created, written, doomed, active,
                 repairVars, aborted, gcPc, gcTodo, gcPlan, gcReleased, gcCollect,
                 bootVars, envVars>>

\* Mutant: a rollback also removes a pin it did not create.
unpinAlways(r, c) == TRUE
unpinOnRollback(r, c) == c \in created[r] /\ ~baseline[r][c].pinned

\* rollbackUpload on one registered file: token check and pin ...
UndoUpload(r, c) ==
  /\ pc[r] \in {"restoring", "undoing"} /\ c \in todo[r] /\ NoJobOf(r)
  /\ \/ /\ at(r, "undoing") /\ rec[c].adm # r
        /\ todo' = [todo EXCEPT ![r] = @ \ {c}]
        /\ UNCHANGED <<pin, blocks, job>>
     \/ /\ at(r, "restoring") \/ rec[c].adm = r
        /\ IF unpinOnRollback(r, c) THEN unpinFile(c) ELSE UNCHANGED <<pin, blocks>>
        /\ Pending(c, "undo", r, baseline[r][c], "keep", FALSE, FALSE)
        /\ UNCHANGED todo
  /\ UNCHANGED <<rec, intent, pc, files, baseline, created, written, doomed, active,
                 repairVars, aborted, gcVars, bootVars, envVars>>

\* ... and its record.
RestoreUpload(r, c) ==
  /\ job[c].kind = "undo" /\ job[c].by = r
  /\ save(c, job[c].next)
  /\ todo' = [todo EXCEPT ![r] = @ \ {c}]
  /\ job' = [job EXCEPT ![c] = NoJob]
  /\ UNCHANGED <<intent, pin, blocks, pc, files, baseline, created, written, doomed,
                 active, repairVars, aborted, gcPc, gcTodo, gcPlan, gcReleased,
                 gcCollect, bootVars, envVars>>

\* Session cleanup of one created block: the checks ...
isBlockInFlight(r, c) ==
  \E q \in Requests \ {r} : pc[q] \in {"imported", "admitting", "restoring"} /\ c \in files[q]

deletableBlock(r, c) == c \notin pin /\ ~isBlockInFlight(r, c)

CheckCreatedBlock(r, c) ==
  /\ pc[r] \in {"aborting", "cleaning"} /\ c \in todo[r] /\ doomed[r] = {}
  /\ todo' = [todo EXCEPT ![r] = @ \ {c}]
  /\ doomed' = [doomed EXCEPT ![r] = IF deletableBlock(r, c) THEN {c} ELSE {}]
  /\ UNCHANGED <<storeVars, job, pc, files, baseline, created, written, active,
                 repairVars, aborted, gcVars, bootVars, envVars>>

\* ... and the deletion, one await later.
DeleteCreatedBlock(r) ==
  /\ doomed[r] # {}
  /\ blocks' = blocks \ doomed[r]
  /\ doomed' = [doomed EXCEPT ![r] = {}]
  /\ UNCHANGED <<rec, intent, pin, job, pc, files, todo, baseline, created, written,
                 active, repairVars, aborted, gcVars, bootVars, envVars>>

\* Every registered file is restored: session.cleanup, still under the locks.
CleanUpSession(r) ==
  /\ at(r, "restoring") /\ todo[r] = {}
  /\ goto(r, "cleaning")
  /\ todo' = [todo EXCEPT ![r] = written[r]]
  /\ UNCHANGED <<storeVars, job, files, baseline, created, written, doomed, active,
                 repairVars, aborted, gcVars, bootVars, envVars>>

\* Every file is pinned and registered: the session and its lease are settled.
CommitSession(r) ==
  /\ at(r, "admitting") /\ todo[r] = {} /\ files[r] \cap intent = {}
  /\ goto(r, "placing")
  /\ UNCHANGED <<storeVars, job, files, todo, baseline, created, written, doomed, active,
                 repairVars, aborted, gcVars, bootVars, envVars>>

\* Placement on the peers: good enough, or (quorum missed, or it threw) not.
\* Only confirmed records are placed.
PlaceReplicas(r) ==
  /\ at(r, "placing")
  /\ \/ goto(r, "finalizing")
     \/ (\E c \in files[r] : rec[c].state = "confirmed") /\ goto(r, "rollback")
  /\ UNCHANGED <<storeVars, job, files, todo, baseline, created, written, doomed, active,
                 repairVars, aborted, gcVars, bootVars, envVars>>

\* rollbackAdmitted takes every lock again.
RollbackAdmitted(r) ==
  /\ at(r, "rollback") /\ AllUnlocked(r)
  /\ goto(r, "undoing")
  /\ todo' = [todo EXCEPT ![r] = files[r]]
  /\ UNCHANGED <<storeVars, job, files, baseline, created, written, doomed, active,
                 repairVars, aborted, gcVars, bootVars, envVars>>

\* finalizeAdmitted: every token must still be this request's; the replica
\* lists are written, which gives every record a new revision.
FinalizeAdmitted(r) ==
  /\ at(r, "finalizing") /\ AllUnlocked(r)
  /\ IF \A c \in files[r] : rec[c].adm = r
       THEN /\ goto(r, "settling")
            /\ todo' = [todo EXCEPT ![r] = files[r]]
            /\ gcFresh' = gcFresh \ files[r]
       ELSE goto(r, "rollback") /\ UNCHANGED <<todo, gcFresh>>
  /\ UNCHANGED <<storeVars, job, files, baseline, created, written, doomed, active,
                 repairVars, aborted, gcPc, gcTodo, gcPlan, gcReleased, gcCollect,
                 bootVars, envVars>>

\* A replica list could not be written: the request is undone under its locks.
FinalizeFails(r) ==
  /\ at(r, "finalizing") /\ AllUnlocked(r)
  /\ "finalize" \in FaultyWrites /\ faults < MaxFaults
  /\ \A c \in files[r] : rec[c].adm = r
  /\ faults' = faults + 1
  /\ goto(r, "undoing")
  /\ todo' = [todo EXCEPT ![r] = files[r]]
  /\ gcFresh' = gcFresh \ files[r]
  /\ UNCHANGED <<storeVars, job, files, baseline, created, written, doomed, active,
                 repairVars, aborted, gcPc, gcTodo, gcPlan, gcReleased, gcCollect,
                 bootVars, crashes>>

\* admissionSettledAt, file by file; a rejected write is only logged.
SettleUpload(r, c) ==
  /\ at(r, "settling") /\ c \in todo[r]
  /\ todo' = [todo EXCEPT ![r] = @ \ {c}]
  /\ \/ save(c, [rec[c] EXCEPT !.settled = TRUE]) /\ UNCHANGED faults
     \/ /\ "settle" \in FaultyWrites /\ faults < MaxFaults
        /\ faults' = faults + 1
        /\ UNCHANGED <<rec, gcFresh>>
  /\ UNCHANGED <<intent, pin, blocks, job, pc, files, baseline, created, written, doomed,
                 active, repairVars, aborted, gcPc, gcTodo, gcPlan, gcReleased,
                 gcCollect, bootVars, crashes>>

SettledUpload(r) ==
  /\ at(r, "settling") /\ todo[r] = {}
  /\ goto(r, "committing")
  /\ UNCHANGED <<storeVars, job, files, todo, baseline, created, written, doomed, active,
                 repairVars, aborted, gcVars, bootVars, envVars>>

\* Remote commit: a strict upload drops the token only of the CIDs whose
\* commit was verified, any other upload of all its CIDs.
CommitUpload(r) ==
  /\ at(r, "committing")
  /\ \E K \in SUBSET files[r] :
       /\ Strict \/ K = files[r]
       /\ \A c \in K : Unlocked(c)
       /\ files' = [files EXCEPT ![r] = K]
       /\ todo' = [todo EXCEPT ![r] = K]
  /\ goto(r, "clearing")
  /\ UNCHANGED <<storeVars, job, baseline, created, written, doomed, active,
                 repairVars, aborted, gcVars, bootVars, envVars>>

\* clearSettledAdmissions: a foreign token ends the loop with an error.
ClearSettledAdmission(r, c) ==
  /\ at(r, "clearing") /\ c \in todo[r]
  /\ \/ /\ rec[c].adm = r
        /\ save(c, Unowned(rec[c]))
        /\ todo' = [todo EXCEPT ![r] = @ \ {c}]
        /\ UNCHANGED faults
     \/ /\ rec[c].adm = r                  \* a rejected write is only logged
        /\ "settle" \in FaultyWrites /\ faults < MaxFaults
        /\ faults' = faults + 1
        /\ todo' = [todo EXCEPT ![r] = @ \ {c}]
        /\ UNCHANGED <<rec, gcFresh>>
     \/ /\ rec[c].adm # r
        /\ todo' = [todo EXCEPT ![r] = {}]
        /\ UNCHANGED <<rec, gcFresh, faults>>
  /\ UNCHANGED <<intent, pin, blocks, job, pc, files, baseline, created, written, doomed,
                 active, repairVars, aborted, gcPc, gcTodo, gcPlan, gcReleased,
                 gcCollect, bootVars, crashes>>

EndUpload(r) ==
  /\ pc[r] \in {"aborting", "cleaning", "undoing", "clearing"}
  /\ todo[r] = {} /\ doomed[r] = {} /\ NoJobOf(r)
  /\ finish(r)
  /\ UNCHANGED <<storeVars, job, repairVars, aborted, gcVars, bootVars, envVars>>

Upload(r) ==
  \/ ImportFiles(r) \/ DisconnectUpload(r) \/ ClaimUpload(r)
  \/ CleanUpSession(r) \/ DeleteCreatedBlock(r) \/ CommitSession(r)
  \/ PlaceReplicas(r) \/ RollbackAdmitted(r) \/ FinalizeAdmitted(r) \/ FinalizeFails(r)
  \/ SettledUpload(r) \/ CommitUpload(r) \/ EndUpload(r)
  \/ \E c \in Cids :
       \/ MarkPinIntent(r, c) \/ PinUpload(r, c) \/ RegisterUpload(r, c)
       \/ ClearPinIntent(r, c) \/ RefuseUpload(r, c) \/ RestoreRefused(r, c)
       \/ UndoUpload(r, c) \/ RestoreUpload(r, c) \/ CheckCreatedBlock(r, c)
       \/ SettleUpload(r, c) \/ ClearSettledAdmission(r, c)

-----------------------------------------------------------------------------
(* The second half of every other locked operation: its registry write *)

OwnKinds == {"confirm", "store", "release", "demote", "guard", "rescue", "stage",
             "abort", "gcRelease", "gcStage", "baseline"}

\* The collector remembers the revisions of the records it released itself.
WriteRecord(c) ==
  /\ job[c].kind \in OwnKinds
  /\ rec' = [rec EXCEPT ![c] = job[c].next]
  /\ job' = [job EXCEPT ![c] = NoJob]
  /\ IF job[c].kind \in {"gcRelease", "gcStage"}
       THEN gcReleased' = gcReleased \cup {c} /\ gcFresh' = gcFresh \cup {c}
       ELSE gcFresh' = gcFresh \ {c} /\ UNCHANGED gcReleased
  /\ UNCHANGED <<intent, pin, blocks, uploadVars, repairVars, aborted, gcPc, gcTodo,
                 gcPlan, gcCollect, bootVars, envVars>>

\* Putting the pin back walks the DAG again; it fails when blocks are gone.
undoPin(c) ==
  \/ job[c].undoPin = "keep" /\ UNCHANGED <<pin, blocks>>
  \/ job[c].undoPin = "unpin" /\ unpinFile(c)
  \/ job[c].undoPin = "pin" /\ pinFile(c)
  \/ job[c].undoPin = "pin" /\ c \notin blocks \cup pin /\ UNCHANGED <<pin, blocks>>

gcGoto(p, cs) == gcPc' = p /\ gcTodo' = cs

\* The datastore rejects the write, before or after persisting it, and the
\* operation's catch block runs.
SaveFails(c, persisted) ==
  /\ job[c].kind \in FaultyWrites /\ faults < MaxFaults
  /\ faults' = faults + 1
  /\ IF persisted THEN save(c, job[c].next) ELSE UNCHANGED <<rec, gcFresh>>
  /\ undoPin(c)
  /\ job' = [job EXCEPT ![c] =
       IF job[c].kind = "admit" THEN [@ EXCEPT !.kind = "refused", !.undoPin = "keep"]
       ELSE IF job[c].undoSave THEN [@ EXCEPT !.kind = "baseline", !.next = job[c].prev,
                                              !.undoPin = "keep", !.undoSave = FALSE]
       ELSE NoJob]
  /\ todo' = [r \in Requests |-> IF job[c].kind = "undo" /\ job[c].by = r
                                  THEN todo[r] \ {c} ELSE todo[r]]
  /\ IF job[c].kind = "guard"
       THEN gcPlan' = {} /\ gcCollect' = FALSE      \* the run is abandoned
       ELSE UNCHANGED <<gcPlan, gcCollect>>
  /\ IF job[c].kind = "demote"
       THEN gcGoto("idle", {})                      \* collectGarbage throws
       ELSE UNCHANGED <<gcPc, gcTodo>>
  /\ UNCHANGED <<intent, pc, files, baseline, created, written, doomed, active,
                 repairVars, aborted, gcReleased, bootVars, crashes>>

-----------------------------------------------------------------------------
(* Calls of clients and peers *)

others == <<intent, uploadVars, repairVars, aborted, gcPc, gcTodo, gcPlan, gcReleased,
            gcCollect, bootVars, envVars>>

\* confirmStoredFile on a known file
Confirm(c) ==
  /\ "confirm" \in Calls /\ LeaseOpen /\ Unlocked(c)
  /\ rec[c].state # "absent" /\ ~isLifecycleBusy(c)
  /\ pinFile(c)
  /\ Pending(c, "confirm", NoReq, Confirmed(rec[c]), wasPinned(c), TRUE, TRUE)
  /\ UNCHANGED <<rec, gcFresh, others>>

\* ... and on an unknown one, for an explicit pin request; registerPinnedFile
\* for a permanent copy that a peer asks this node to store.
registerPinnedUnderLock(c) ==
  \/ /\ registerBusy(c, NoReq)
     /\ blocks' = blocks \cup {c}
     /\ pin' = IF wasPinned(c) = "pin" THEN pin \cup {c} ELSE pin \ {c}
     /\ Pending(c, "baseline", NoReq, rec[c], "keep", FALSE, TRUE)
  \/ /\ ~registerBusy(c, NoReq) /\ rec[c].stage = {}
     /\ pinFile(c)
     /\ Pending(c, "store", NoReq, registered(c, NoReq, FALSE), wasPinned(c), TRUE, TRUE)
  \/ /\ ~registerBusy(c, NoReq) /\ rec[c].stage # {}   \* kept as it is
     /\ pinFile(c)
     /\ UNCHANGED job

Adopt(c) ==
  /\ "adopt" \in Calls /\ LeaseOpen /\ Unlocked(c)
  /\ rec[c].state = "absent"
  /\ registerPinnedUnderLock(c)
  /\ UNCHANGED <<rec, gcFresh, others>>

\* acceptReplica; a stage that exists before the pull is refused earlier
Store(c) ==
  /\ "store" \in Calls /\ LeaseOpen /\ Unlocked(c)
  /\ registerPinnedUnderLock(c)
  /\ UNCHANGED <<rec, gcFresh, others>>

\* releaseStoredFile; it takes no storage lease
Release(c) ==
  /\ "release" \in Calls /\ Unlocked(c)
  /\ rec[c].state # "absent" /\ ~isLifecycleBusy(c)
  /\ unpinFile(c)
  /\ Pending(c, "release", NoReq, Released(rec[c]), wasPinned(c), TRUE, FALSE)
  /\ UNCHANGED <<rec, gcFresh, others>>

\* setReplicas after a placement: only the revision changes
SetReplicas(c) ==
  /\ "confirm" \in Calls \/ c \in repairing
  /\ Unlocked(c) /\ rec[c].state # "absent"
  /\ gcFresh' = gcFresh \ {c}
  /\ UNCHANGED <<storeVars, job, uploadVars, repairVars, aborted, gcPc, gcTodo, gcPlan,
                 gcReleased, gcCollect, bootVars, envVars>>

\* stageReplica joins a stage, keeps durable or pinned content as a stable
\* replica, or prepares a temporary copy.
unpinIfCreated(c) == IF c \in pin THEN "keep" ELSE "unpin"

staged(c, t) ==
  \/ /\ rec[c].stage # {}
     /\ Pending(c, "stage", NoReq,
                [rec[c] EXCEPT !.state = "temporary", !.pinned = TRUE, !.held = TRUE,
                               !.stage = @ \cup {t}], "keep", TRUE, TRUE)
  \/ /\ rec[c].stage = {} /\ rec[c].state # "temporary" /\ isAdmissionSettled(rec[c])
     /\ Pending(c, "stage", NoReq,
          IF c \in pin \/ rec[c].state = "confirmed"
            THEN [rec[c] EXCEPT !.state = "confirmed", !.pinned = TRUE, !.held = TRUE]
            ELSE [rec[c] EXCEPT !.state = "temporary", !.pinned = TRUE, !.held = TRUE,
                    !.stage = {t},
                    !.base = IF rec[c].state = "absent" THEN "none" ELSE "expired"],
          unpinIfCreated(c), TRUE, TRUE)

\* Mutant: a late stage does not look for the abort that overtook it.
neverAborted(c, t) == FALSE
wasAborted(c, t) == <<c, t>> \in aborted

Stage(c, t) ==
  /\ LeaseOpen /\ Unlocked(c)
  /\ ~wasAborted(c, t)
  /\ staged(c, t)
  /\ pinFile(c)
  /\ UNCHANGED <<rec, gcFresh, others>>

\* commitReplica; the pin was made by the stage
Commit(c, t) ==
  /\ t \notin Rejected /\ LeaseOpen /\ Unlocked(c)
  /\ t \in rec[c].stage
  /\ save(c, Confirmed(rec[c]))
  /\ UNCHANGED <<intent, pin, blocks, job, uploadVars, repairVars, aborted, gcPc, gcTodo,
                 gcPlan, gcReleased, gcCollect, bootVars, envVars>>

\* Mutant: expiry keeps the transactions that own the copy.
expiredKeepingOwner(f) == [f EXCEPT !.state = "expired", !.pinned = FALSE, !.held = FALSE]
expiredBaseline(f) == [Unstaged(f) EXCEPT !.state = "expired", !.pinned = FALSE,
                                          !.held = FALSE]

\* restoreReplicaStage: unpin, then the record as it was before the stage.
\* `return registry.save(...)` is not awaited inside the try, so only a
\* rejected removal reaches the catch block.
Unstage(c, kind, keepCreatedRecord, shared) ==
  /\ unpinFile(c)
  /\ IF rec[c].base = "none" /\ ~keepCreatedRecord
       THEN Pending(c, kind, NoReq, Absent,
                    IF c \in pin THEN "pin" ELSE "keep", TRUE, shared)
       ELSE Pending(c, kind, NoReq, expiredBaseline(rec[c]), "keep", FALSE, shared)

Abort(c, t) ==
  /\ t \in Rejected /\ LeaseOpen /\ Unlocked(c)
  /\ aborted' = aborted \cup {<<c, t>>}
  /\ \/ t \notin rec[c].stage /\ UNCHANGED <<rec, gcFresh, pin, blocks, job>>
     \/ /\ t \in rec[c].stage /\ rec[c].stage # {t}
        /\ save(c, [rec[c] EXCEPT !.stage = @ \ {t}])
        /\ UNCHANGED <<pin, blocks, job>>
     \/ /\ rec[c].stage = {t}
        /\ Unstage(c, "abort", FALSE, TRUE)
        /\ UNCHANGED <<rec, gcFresh>>
  /\ UNCHANGED <<intent, uploadVars, repairVars, gcPc, gcTodo, gcPlan, gcReleased,
                 gcCollect, bootVars, envVars>>

ClientCall(c) ==
  \/ Confirm(c) \/ Adopt(c) \/ Store(c) \/ Release(c) \/ SetReplicas(c)
  \/ \E t \in Txs : Stage(c, t) \/ Commit(c, t) \/ Abort(c, t)

-----------------------------------------------------------------------------
(* Garbage collection: one pass at a time (gc.cron.ts `running`) *)

GcPcs == {"idle", "recover", "demote", "guard", "release", "lease", "delete", "cleanup"}

gcKeep == <<intent, uploadVars, repairVars, aborted, bootVars, envVars>>
gcDone(c) == gcTodo' = gcTodo \ {c} /\ UNCHANGED gcPc
gcMay(p, c) == gcPc = p /\ c \in gcTodo /\ Unlocked(c)
\* A phase ends when its loop is over and its last locked section returned.
GcKinds == {"demote", "guard", "gcRelease", "gcStage"}
gcOver(p) == gcPc = p /\ gcTodo = {} /\ \A c \in Cids : job[c].kind \notin GcKinds

\* Unsettled tokens of requests that are no longer running.
Stale(c) == rec[c].adm # NoReq /\ ~rec[c].settled /\ rec[c].adm \notin active

\* The cron jobs start once the reconciliation is over; POST /gc does not wait.
Reconciled == recovery = {} /\ \A c \in Cids : backfill[c] = "none"

GcStart ==
  /\ gcPc = "idle" /\ Jobs \cap {"gc", "recover"} # {}
  /\ Reconciled \/ "collect" \in Calls
  /\ gcGoto("recover", {c \in Cids : Stale(c)})
  /\ UNCHANGED <<storeVars, job, gcPlan, gcFresh, gcReleased, gcCollect, gcKeep>>

\* recoverInterruptedAdmissions re-reads the record under its lock.
\* Mutant: only settled tokens are cleared.
recoverSettledAdmission(c) ==
  IF rec[c].settled THEN save(c, Unowned(rec[c])) ELSE UNCHANGED <<rec, gcFresh>>

recoverAdmission(c) ==
  IF Stale(c) THEN save(c, Unowned(rec[c])) ELSE UNCHANGED <<rec, gcFresh>>

GcRecover(c) ==
  /\ gcMay("recover", c) /\ gcDone(c)
  /\ recoverAdmission(c)
  /\ UNCHANGED <<pin, blocks, job, gcPlan, gcReleased, gcCollect, gcKeep>>

\* demoteReleasableCopies: some settled files were confirmed by all their
\* designated holders.  With the collector off only the recovery runs.
GcDemoteStart ==
  /\ gcOver("recover")
  /\ IF "gc" \in Jobs
       THEN \E D \in SUBSET {c \in Cids : isSettledHeldFile(c)} :
              gcGoto("demote", D) /\ gcFresh' = Cids
       ELSE gcGoto("idle", {}) /\ UNCHANGED gcFresh
  /\ UNCHANGED <<storeVars, job, gcPlan, gcReleased, gcCollect, gcKeep>>

GcDemote(c) ==
  /\ gcMay("demote", c) /\ gcDone(c)
  /\ IF c \in gcFresh /\ Durable(rec[c]) /\ ~isLifecycleBusy(c)
       THEN /\ unpinFile(c)
            /\ Pending(c, "demote", NoReq, Demoted(rec[c]), undoRemoved(c), FALSE, FALSE)
       ELSE UNCHANGED <<pin, blocks, job>>
  /\ UNCHANGED <<rec, gcPlan, gcFresh, gcReleased, gcCollect, gcKeep>>

\* planGarbageCollection on a snapshot: every expired record, temporary ones
\* past their TTL, and, when space is short, older unstaged ones before it.
GcPlan ==
  /\ gcOver("demote")
  /\ LET idle(s) == {c \in Cids : rec[c].state = s /\ ~isAdmissionInFlight(rec[c])} IN
       \E E \in SUBSET idle("temporary") : gcPlan' = idle("expired") \cup E
  /\ gcGoto("guard", {c \in Cids : Durable(rec[c])})
  /\ gcFresh' = Cids
  /\ gcCollect' \in BOOLEAN
  /\ gcReleased' = {}
  /\ UNCHANGED <<storeVars, job, gcKeep>>

\* Guard rail: durable content must be pinned before anything is deleted.
\* Mutant: the record's flag is believed instead of asking Helia.
flaggedUnpinned(c) == Durable(rec[c]) /\ ~rec[c].pinned
unprotected(c) == Durable(rec[c]) /\ c \notin pin

GcGuard(c) ==
  /\ gcMay("guard", c) /\ gcDone(c)
  /\ \/ /\ unprotected(c) /\ c \in blocks
        /\ pinFile(c)
        /\ Pending(c, "guard", NoReq, [rec[c] EXCEPT !.pinned = TRUE],
                   undoCreated(c), FALSE, FALSE)
        /\ UNCHANGED <<gcPlan, gcCollect>>
     \/ /\ unprotected(c) /\ c \notin blocks
        /\ gcPlan' = {} /\ gcCollect' = FALSE        \* the run is abandoned
        /\ UNCHANGED <<pin, blocks, job>>
     \/ /\ ~unprotected(c)
        /\ UNCHANGED <<pin, blocks, job, gcPlan, gcCollect>>
  /\ UNCHANGED <<rec, gcFresh, gcReleased, gcKeep>>

GcReleaseStart ==
  /\ gcOver("guard")
  /\ gcGoto("release", gcPlan)
  /\ UNCHANGED <<storeVars, job, gcPlan, gcFresh, gcReleased, gcCollect, gcKeep>>

\* The plan is stale by now: the record is re-read under its lock.
\* Mutant: whatever the plan named is released.
plannedCid(c) == rec[c].state # "absent"
stillPlanned(c) == /\ c \in gcFresh
                   /\ rec[c].state \in {"temporary", "expired"}
                   /\ ~isAdmissionInFlight(rec[c])

GcRelease(c) ==
  /\ gcMay("release", c) /\ gcDone(c)
  /\ \/ /\ stillPlanned(c) /\ rec[c].stage # {}
        /\ Unstage(c, "gcStage", TRUE, FALSE)
     \/ /\ stillPlanned(c) /\ rec[c].stage = {}
        /\ unpinFile(c)
        /\ Pending(c, "gcRelease", NoReq, Released(rec[c]), undoRemoved(c), FALSE, FALSE)
     \/ ~stillPlanned(c) /\ UNCHANGED <<pin, blocks, job>>
  /\ UNCHANGED <<rec, gcPlan, gcFresh, gcReleased, gcCollect, gcKeep>>

\* No room is needed: the released blocks stay.
GcKeepBlocks ==
  /\ gcOver("release") /\ ~gcCollect
  /\ gcGoto("idle", {})
  /\ gcPlan' = {} /\ gcFresh' = {} /\ gcReleased' = {}
  /\ UNCHANGED <<storeVars, job, gcCollect, gcKeep>>

\* Queue for the exclusive lease, then delete every unpinned block.
GcAskLease ==
  /\ gcOver("release") /\ gcCollect
  /\ gcGoto("lease", {})
  /\ UNCHANGED <<storeVars, job, gcPlan, gcFresh, gcReleased, gcCollect, gcKeep>>

GcLease ==
  /\ gcPc = "lease" /\ ~SharedLeaseOut
  /\ gcGoto("delete", Cids)
  /\ UNCHANGED <<storeVars, job, gcPlan, gcFresh, gcReleased, gcCollect, gcKeep>>

\* Helia's node.gc; a deletion error keeps every record of this pass.
GcDelete(c) ==
  /\ gcPc = "delete" /\ c \in gcTodo /\ gcDone(c)
  /\ \/ blocks' = (IF c \in pin THEN blocks ELSE blocks \ {c}) /\ UNCHANGED gcReleased
     \/ c \notin pin /\ gcReleased' = {} /\ UNCHANGED blocks
  /\ UNCHANGED <<rec, pin, job, gcPlan, gcFresh, gcCollect, gcKeep>>

GcCleanupStart ==
  /\ gcOver("delete")
  /\ gcGoto("cleanup", gcReleased)
  /\ UNCHANGED <<storeVars, job, gcPlan, gcFresh, gcReleased, gcCollect, gcKeep>>

\* Only a record that is still the one this run released is removed.
\* Mutant: removal by CID alone.
releasedCid(c) == TRUE
stillReleased(c) == c \in gcFresh

GcCleanup(c) ==
  /\ gcMay("cleanup", c) /\ gcDone(c)
  /\ IF stillReleased(c) THEN save(c, Absent) ELSE UNCHANGED <<rec, gcFresh>>
  /\ UNCHANGED <<pin, blocks, job, gcPlan, gcReleased, gcCollect, gcKeep>>

GcEnd ==
  /\ gcOver("cleanup")
  /\ gcGoto("idle", {})
  /\ gcPlan' = {} /\ gcFresh' = {} /\ gcReleased' = {} /\ gcCollect' = FALSE
  /\ UNCHANGED <<storeVars, job, gcKeep>>

GcPass == \/ GcDemoteStart \/ GcPlan \/ GcReleaseStart \/ GcKeepBlocks \/ GcAskLease
          \/ GcLease \/ GcCleanupStart \/ GcEnd
GcLoop(c) == \/ GcRecover(c) \/ GcDemote(c) \/ GcGuard(c) \/ GcRelease(c)
             \/ GcDelete(c) \/ GcCleanup(c)

-----------------------------------------------------------------------------
(* Replication repair *)

repairKeep == <<intent, uploadVars, aborted, gcPc, gcTodo, gcPlan, gcReleased, gcCollect,
                bootVars, envVars>>

\* claimRepairRecord under the lock; the network work holds no lock.
RepairClaim(c) ==
  /\ "repair" \in Jobs /\ Unlocked(c) /\ isSettledHeldFile(c)
  /\ repairing' = repairing \cup {c}
  /\ repairToken' = [repairToken EXCEPT ![c] = rec[c].adm]
  /\ UNCHANGED <<rec, gcFresh, pin, blocks, job, repairKeep>>

\* clearSettledAdmission of the token the repair selected
RepairClear(c) ==
  /\ c \in repairing /\ Unlocked(c)
  /\ repairToken[c] # NoReq /\ rec[c].adm = repairToken[c]
  /\ rec[c].settled /\ rec[c].adm \notin active
  /\ save(c, Unowned(rec[c]))
  /\ UNCHANGED <<pin, blocks, job, repairVars, repairKeep>>

RepairEnd(c) ==
  /\ c \in repairing
  /\ repairing' = repairing \ {c}
  /\ repairToken' = [repairToken EXCEPT ![c] = NoReq]
  /\ UNCHANGED <<rec, gcFresh, pin, blocks, job, repairKeep>>

\* rescueOrphanedFiles: no designated holder answers and the DAG is here.
Rescue(c) ==
  /\ "repair" \in Jobs /\ LeaseOpen /\ Unlocked(c)
  /\ rec[c].state = "confirmed" /\ ~rec[c].held /\ c \in blocks
  /\ pinFile(c)
  /\ Pending(c, "rescue", NoReq, Rescued(rec[c]), undoCreated(c), FALSE, TRUE)
  /\ UNCHANGED <<rec, gcFresh, repairVars, repairKeep>>

Repair(c) == RepairClaim(c) \/ RepairClear(c) \/ RepairEnd(c) \/ Rescue(c)

-----------------------------------------------------------------------------
(* Crash, restart and the reconciliation that follows *)

\* Stores survive; handlers, locks, leases, tombstones and sets do not.  The
\* restart lists the pins and the stale tokens before it serves requests.
CrashAndRestart ==
  /\ crashes < MaxCrashes /\ crashes' = crashes + 1
  /\ UNCHANGED <<storeVars, faults>>
  /\ pc' = [r \in Requests |-> IF pc[r] = "idle" THEN "idle" ELSE "done"]
  /\ active' = {} /\ repairing' = {} /\ aborted' = {}
  /\ files' = [r \in Requests |-> {}] /\ todo' = [r \in Requests |-> {}]
  /\ baseline' = [r \in Requests |-> [c \in Cids |-> Absent]]
  /\ created' = [r \in Requests |-> {}] /\ written' = [r \in Requests |-> {}]
  /\ doomed' = [r \in Requests |-> {}]
  /\ repairToken' = [c \in Cids |-> NoReq]
  /\ job' = [c \in Cids |-> NoJob]
  /\ gcGoto("idle", {})
  /\ gcPlan' = {} /\ gcFresh' = {} /\ gcReleased' = {} /\ gcCollect' = FALSE
  /\ backfill' = [c \in Cids |-> IF c \in pin THEN "todo" ELSE "none"]
  /\ recovery' = {c \in Cids : rec[c].adm # NoReq /\ ~rec[c].settled}

bootKeep == <<job, uploadVars, repairVars, aborted, gcPc, gcTodo, gcPlan, gcReleased,
              gcCollect, envVars>>
backfillGoto(c, b) == backfill' = [backfill EXCEPT ![c] = b]

\* backfillRegistryFromPins reads the record, the marker and the blocks ...
BackfillRead(c) ==
  /\ backfill[c] = "todo"
  /\ \/ /\ rec[c].state # "absent"
        /\ intent' = intent \ {c}
        /\ backfillGoto(c, "none")
     \/ /\ rec[c].state = "absent"
        /\ backfillGoto(c, IF c \notin blocks THEN "none"
                           ELSE IF c \in intent THEN "interrupted" ELSE "legacy")
        /\ UNCHANGED intent
  /\ UNCHANGED <<rec, gcFresh, pin, blocks, recovery, bootKeep>>

\* ... and creates the record later, while the API is serving.
BackfillCreate(c) ==
  /\ backfill[c] \in {"interrupted", "legacy"} /\ Unlocked(c)
  /\ IF rec[c].state # "absent" THEN UNCHANGED <<rec, gcFresh>>
     ELSE save(c, [Absent EXCEPT !.pinned = TRUE, !.held = TRUE,
                     !.state = IF backfill[c] = "interrupted" /\ ConfirmationRequired
                                 THEN "temporary" ELSE "confirmed"])
  /\ intent' = intent \ {c}
  /\ backfillGoto(c, "none")
  /\ UNCHANGED <<pin, blocks, recovery, bootKeep>>

StartupRecover(c) ==
  /\ c \in recovery /\ Unlocked(c)
  /\ recovery' = recovery \ {c}
  /\ recoverAdmission(c)
  /\ UNCHANGED <<intent, pin, blocks, backfill, bootKeep>>

Boot(c) == BackfillRead(c) \/ BackfillCreate(c) \/ StartupRecover(c)

-----------------------------------------------------------------------------
Init ==
  /\ rec = [c \in Cids |-> Absent] /\ intent = {}
  /\ pin = Legacy /\ blocks = Legacy
  /\ job = [c \in Cids |-> NoJob]
  /\ pc = [r \in Requests |-> "idle"]
  /\ files = [r \in Requests |-> {}] /\ todo = [r \in Requests |-> {}]
  /\ baseline = [r \in Requests |-> [c \in Cids |-> Absent]]
  /\ created = [r \in Requests |-> {}] /\ written = [r \in Requests |-> {}]
  /\ doomed = [r \in Requests |-> {}]
  /\ active = {} /\ repairing = {} /\ aborted = {}
  /\ repairToken = [c \in Cids |-> NoReq]
  /\ gcPc = "idle" /\ gcTodo = {} /\ gcPlan = {} /\ gcFresh = {}
  /\ gcReleased = {} /\ gcCollect = FALSE
  /\ backfill = [c \in Cids |-> IF c \in Legacy THEN "todo" ELSE "none"]
  /\ recovery = {}
  /\ faults = 0 /\ crashes = 0

Next ==
  \/ \E r \in Requests : Upload(r)
  \/ \E c \in Cids : WriteRecord(c) \/ ClientCall(c) \/ GcLoop(c) \/ Repair(c) \/ Boot(c)
  \/ \E c \in Cids, persisted \in BOOLEAN : SaveFails(c, persisted)
  \/ GcStart \/ GcPass
  \/ CrashAndRestart

\* A handler that was admitted runs to its end: it awaits local stores and
\* bounded requests only, and the CID locks are FIFO queues.
HandlerStep(r) == pc[r] # "idle" /\ Upload(r)

Fairness ==
  /\ \A r \in Requests : SF_vars(HandlerStep(r))
  /\ \A c \in Cids : /\ WF_vars(WriteRecord(c)) /\ SF_vars(GcLoop(c))
                     /\ SF_vars(Boot(c)) /\ WF_vars(RepairEnd(c))
  /\ WF_vars(GcStart) /\ WF_vars(GcPass)

Spec == Init /\ [][Next]_vars
LiveSpec == Spec /\ Fairness

-----------------------------------------------------------------------------
(* Properties *)

\* Records, jobs and the programs' own variables keep their shapes; in
\* particular every record written is one isFileRecord accepts.
TypeOK ==
  /\ rec \in [Cids -> Record] /\ job \in [Cids -> Job]
  /\ intent \subseteq Cids /\ pin \subseteq Cids /\ blocks \subseteq Cids
  /\ pc \in [Requests -> Pcs]
  /\ files \in [Requests -> SUBSET Cids] /\ todo \in [Requests -> SUBSET Cids]
  /\ baseline \in [Requests -> [Cids -> Record]]
  /\ created \in [Requests -> SUBSET Cids] /\ written \in [Requests -> SUBSET Cids]
  /\ doomed \in [Requests -> SUBSET Cids]
  /\ active \subseteq Requests /\ repairing \subseteq Cids
  /\ repairToken \in [Cids -> Tokens]
  /\ aborted \subseteq Cids \X Txs
  /\ gcPc \in GcPcs /\ gcTodo \subseteq Cids /\ gcPlan \subseteq Cids
  /\ gcFresh \subseteq Cids /\ gcReleased \subseteq Cids /\ gcCollect \in BOOLEAN
  /\ backfill \in [Cids -> {"none", "todo", "interrupted", "legacy"}]
  /\ recovery \subseteq Cids
  /\ faults \in 0..MaxFaults /\ crashes \in 0..MaxCrashes

\* A request that registered a file owns it until its handler ends: nothing
\* else confirms, releases, collects, hands over or re-registers it, although
\* the handler holds no lock while it talks to peers (admissionId).
Registered(r) == IF pc[r] = "admitting" THEN files[r] \ todo[r]
                 ELSE IF pc[r] \in {"placing", "rollback", "finalizing", "settling", "committing"}
                        THEN files[r] ELSE {}
OwnershipExclusive ==
  \A r \in Requests : \A c \in Registered(r) :
    rec[c].adm = r /\ rec[c].pinned /\ rec[c].held /\ c \in pin

\* Whenever nobody holds the CID's lock, a record that says "held here" is
\* backed by a pin, whatever its state: pin and record change together.
Protected == \A c \in Cids : Unlocked(c) /\ rec[c].held => c \in pin

\* The converse: a pin belongs to a record that says so, or to the pins the
\* startup walk has still to record ("an orphan pin is not recoverable").
NoOrphanPin ==
  \A c \in Cids : Unlocked(c) /\ c \in pin => rec[c].held \/ backfill[c] # "none"

\* A repair holds no lock while it probes peers; nobody releases, hands over
\* or re-registers the copy it counts on meanwhile (activeRepairs).
RepairStable ==
  \A c \in repairing : Durable(rec[c]) /\ rec[c].adm \in {NoReq, repairToken[c]}

\* Durable content stops being durable only when somebody decided it on the
\* current record: a release, a handover, or an operation restoring the
\* record it replaced.  A stale collection plan never does it.
DurableDecided ==
  \A c \in Cids : Durable(rec[c]) /\ ~Durable(rec'[c]) =>
    job[c].kind \in {"release", "demote", "undo", "refused", "baseline"}
DurableOnlyByDecision == [][DurableDecided]_vars

\* The collector deletes the blocks of a file the registry calls durable only
\* if a lock holder has already dropped its pin for good reason: the guard
\* rail finds every other one, also those a crash left without a pin.
CollectedUnprotected ==
  gcPc = "delete" =>
    \A c \in blocks \ blocks' : Durable(rec[c]) => ~Unlocked(c)
CollectSpares == [][CollectedUnprotected]_vars

\* Content becomes confirmed because somebody decided it: a confirm, a copy
\* stored for a peer, the commit of a stage, an upload that needs no separate
\* confirmation, or the restoration of what was confirmed before.  A restart
\* decides it only for content pinned before the node had a registry.
ConfirmedDecided ==
  \A c \in Cids \ Legacy :
    rec[c].state # "confirmed" /\ rec'[c].state = "confirmed" =>
      \/ rec[c].stage # {}
      \/ job[c].kind \in {"confirm", "store", "baseline"}
      \/ job[c].kind = "admit" /\ ~ConfirmationRequired
ConfirmedOnlyByDecision == [][ConfirmedDecided]_vars

\* A transaction this node was told to abort never owns a prepared copy again, as
\* long as it takes no upload of its own, whose rollback restores what it replaced,
\* and the removal of the aborted copy is not rejected.
StagesStayAborted ==
  "abort" \notin FaultyWrites /\ (\A r \in Requests : pc[r] = "idle") =>
    \A c \in Cids, t \in Txs : Unlocked(c) /\ <<c, t>> \in aborted => t \notin rec[c].stage

\* A request that is refused after its files were registered ends with every
\* record and every pin as it found them ("restores its own exact pre-upload
\* pin and registry state before returning 503"), unless it ends in a crash or the
\* restored record is not written.
RejectedRestored ==
  \A r \in Requests : pc[r] = "undoing" /\ pc'[r] = "done" =>
    \A c \in files[r] : /\ rec[c] = baseline[r][c]
                        /\ c \in pin <=> c \notin created[r] \/ baseline[r][c].pinned
RefusedLeaveNoTrace ==
  [][UNCHANGED crashes /\ "undo" \notin FaultyWrites => RejectedRestored]_vars

\* A commit acknowledges a copy that is protected here: the stage it settles
\* still has its pin.
CommittedPinned ==
  \A c \in Cids : rec[c].stage # {} /\ job[c].kind = "none" /\ Durable(rec'[c])
    => c \in pin
CommitAcksPinned == [][CommittedPinned]_vars

\* What is pinned is really here: neither Helia's collection nor the cleanup
\* of a refused upload deletes blocks that a pin protects.
PinnedIsStored == pin \subseteq blocks

\* Every admitted request ends, whatever the collector, the repair and the
\* other requests do.
UploadsEnd == \A r \in Requests : pc[r] # "idle" ~> pc[r] = "done"

\* A token whose handler is gone does not hide a file for ever.
StaleTokensCleared == \A c \in Cids : Stale(c) ~> ~Stale(c)

\* A collector that queued for the exclusive lease finishes its pass.
CollectionEnds == gcPc = "lease" ~> gcPc = "idle"
=============================================================================
