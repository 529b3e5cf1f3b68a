------------------------ MODULE FileLifecycleProofs ------------------------
(***************************************************************************)
(* The lifecycle of files on one node, for any contents, requests and      *)
(* transactions.  For any number of crashes and rejected writes, and       *)
(* whatever clients, peers and background jobs do:                         *)
(*   - a request that registered a file owns it until its handler ends,    *)
(*   - nobody touches the copy that a repair counts on,                    *)
(*   - durable content is given up by a decision on its current record.    *)
(* None of the three is inductive.  What carries them is that a record and *)
(* its pin are changed by the holder of the CID's lock only, and that an   *)
(* operation which began while a token or a repair protected the file      *)
(* writes a record that protects it in the same way, also when its write   *)
(* is rejected and its catch block writes another one.                     *)
(*                                                                         *)
(* The second half of the module is about record, pin and blocks together, *)
(* which a crash or a rejected write may leave apart.  Each theorem there  *)
(* names, in its hypotheses or in the property it is about, the nodes it   *)
(* holds of.  The three promises of NodeStores take an invariant each: one *)
(* for nodes that nothing disturbs, one for nodes whose catch blocks find  *)
(* what they put back, one for nodes whose clients stay connected.         *)
(***************************************************************************)
EXTENDS NodeStores, TLAPS

UploadKinds == {"intent", "admit", "busy", "refused", "undo"}

\* Only an upload that is or was admitted has its token in a record.
Claimed(t) == t = NoReq \/ pc[t] \notin {"idle", "imported", "aborting"}

\* What holds of every record that exists or may be written: a token belongs
\* to a held upload, a stage to a temporary copy.
RecordOK(f) == /\ f.adm # NoReq => /\ f.state \in {"temporary", "confirmed"}
                                   /\ f.pinned /\ f.held /\ f.stage = {}
               /\ f.stage # {} => f.state = "temporary"
               /\ Claimed(f.adm)

RecordsOK(c) == RecordOK(rec[c]) /\ RecordOK(job[c].next) /\ RecordOK(job[c].prev)

BaselinesOK == \A r \in Requests, c \in Cids : RecordOK(baseline[r][c])

\* activeAdmissions holds the requests whose handler runs.
ActiveOK == \A r \in Requests : r \in active <=> pc[r] \in HandlerPcs

\* Two requests never hold the lock of one CID, and a loop visits files of its
\* own request.
LocksOK ==
  /\ \A r, q \in Requests :
       r # q /\ pc[r] \in LockedPcs /\ pc[q] \in LockedPcs => files[r] \cap files[q] = {}
  /\ \A r \in Requests :
       pc[r] \in {"admitting", "restoring", "undoing", "settling", "clearing"}
         => todo[r] \subseteq files[r]

\* Whose the pending operation on c is: that of a handler is about a file its
\* loop has still to finish, the others belong to no handler.  Only a release,
\* a handover and the restoration of an earlier record give up durable content.
JobOK(c) ==
  LET j == job[c] IN
  /\ j.kind \in UploadKinds =>
       /\ j.by \in Requests /\ c \in files[j.by] /\ c \in todo[j.by]
       /\ IF j.kind = "undo" THEN /\ pc[j.by] \in {"restoring", "undoing"}
                                  /\ rec[c].adm = j.by /\ ~j.undoSave
                             ELSE pc[j.by] = "admitting"
  /\ j.kind \in OwnKinds => ~HeldByUpload(c)
  /\ j.kind = "admit" => c \in pin /\ j.next.adm = j.by
  /\ j.kind \in {"confirm", "store", "guard", "rescue", "stage", "abort", "gcRelease",
                 "gcStage", "admit"} => (Durable(rec[c]) => Durable(j.next))

\* A handler has one pending operation at a time.
OneJob ==
  \A c, d \in Cids : /\ job[c].kind \in UploadKinds /\ job[d].kind \in UploadKinds
                     /\ job[c].by = job[d].by
                     => c = d

\* A refused request restores files it still owns.
RestoringOwned ==
  \A r \in Requests : \A c \in Cids : pc[r] = "restoring" /\ c \in todo[r] => rec[c].adm = r

\* A file that a running request owns, and whatever is pending on it leaves it
\* to that request.
Owns(r, c) ==
  /\ rec[c].adm = r /\ rec[c].pinned /\ rec[c].held /\ c \in pin
  /\ job[c].kind # "none" =>
       job[c].next.adm = r /\ job[c].prev.adm = r /\ job[c].undoPin # "unpin"

Owned == \A r \in Requests : \A c \in Registered(r) : Owns(r, c)

\* A file under repair, and whatever is pending on it keeps it durable.
Kept(f, c) == Durable(f) /\ f.adm \in {NoReq, repairToken[c]}

RepairOK(c) ==
  c \in repairing =>
    /\ Kept(rec[c], c)
    /\ job[c].kind # "none" => Kept(job[c].next, c) /\ Kept(job[c].prev, c)

\* The token a repair selected belongs to a request that has ended.
RepairTokensDone == \A c \in Cids : repairToken[c] = NoReq \/ pc[repairToken[c]] = "done"

\* What the collector may remove is still what it released itself; its locked
\* sections end before the phase they belong to.
CollectorOK ==
  /\ gcReleased # {} => gcPc \in {"release", "lease", "delete", "cleanup"}
  /\ gcPc = "cleanup" => gcTodo \subseteq gcReleased
  /\ \A c \in gcReleased \cap gcFresh : rec[c].state = "expired"
  /\ \A c \in Cids :
       /\ job[c].kind \in {"gcRelease", "gcStage"} =>
            job[c].next.state = "expired" /\ gcPc = "release"
       /\ job[c].kind = "demote" => gcPc \in {"idle", "recover", "demote"}

CidOK(c) == RecordsOK(c) /\ JobOK(c) /\ RepairOK(c)

IInv == /\ TypeOK
        /\ BaselinesOK /\ ActiveOK /\ LocksOK
        /\ \A c \in Cids : CidOK(c)
        /\ OneJob /\ RestoringOwned /\ Owned
        /\ RepairTokensDone
        /\ CollectorOK

-----------------------------------------------------------------------------
(* Types *)

LEMMA RecordShapes ==
  ASSUME NEW f \in Record
  PROVE  /\ Unowned(f) \in Record /\ Unstaged(f) \in Record /\ Plain(f) \in Record
         /\ Confirmed(f) \in Record /\ Released(f) \in Record /\ Demoted(f) \in Record
         /\ Rescued(f) \in Record /\ expiredBaseline(f) \in Record
         /\ [f EXCEPT !.settled = TRUE] \in Record
         /\ [f EXCEPT !.pinned = TRUE] \in Record
BY DEF Record, Tokens, Unowned, Unstaged, Plain, Confirmed, Released, Demoted, Rescued,
       expiredBaseline

LEMMA AbsentShape == Absent \in Record /\ NoJob \in Job
BY DEF Absent, NoJob, Record, Job, Kinds, Tokens

LEMMA RegisteredShape ==
  ASSUME TypeOK, NEW c \in Cids, NEW r \in Tokens, NEW b \in BOOLEAN
  PROVE  registered(c, r, b) \in Record
BY DEF registered, Record, Tokens, TypeOK

LEMMA UndoShapes ==
  ASSUME NEW c \in Cids
  PROVE  /\ wasPinned(c) \in {"keep", "pin", "unpin"}
         /\ undoCreated(c) \in {"keep", "pin", "unpin"}
         /\ undoRemoved(c) \in {"keep", "pin", "unpin"}
         /\ unpinIfCreated(c) \in {"keep", "pin", "unpin"}
BY DEF wasPinned, undoCreated, undoRemoved, unpinIfCreated

LEMMA StagedShape ==
  ASSUME NEW c \in Cids, NEW f \in Record, NEW t \in Txs
  PROVE  /\ [f EXCEPT !.state = "temporary", !.pinned = TRUE, !.held = TRUE,
                      !.stage = @ \cup {t}] \in Record
         /\ [f EXCEPT !.state = "confirmed", !.pinned = TRUE, !.held = TRUE] \in Record
         /\ [f EXCEPT !.state = "temporary", !.pinned = TRUE, !.held = TRUE, !.stage = {t},
              !.base = IF f.state = "absent" THEN "none" ELSE "expired"] \in Record
BY DEF Record, Tokens

LEMMA TypeStepRequest ==
  ASSUME ConfigAssumption, TypeOK, NEW r \in Requests,
         \/ ImportFiles(r) \/ DisconnectUpload(r) \/ ClaimUpload(r)
         \/ CleanUpSession(r) \/ DeleteCreatedBlock(r) \/ CommitSession(r)
         \/ PlaceReplicas(r) \/ RollbackAdmitted(r) \/ FinalizeAdmitted(r)
         \/ FinalizeFails(r) \/ SettledUpload(r) \/ CommitUpload(r) \/ EndUpload(r)
  PROVE  TypeOK'
<1> USE DEF TypeOK, storeVars, uploadVars, repairVars, gcVars, bootVars, envVars, goto, at
<1>1. CASE ImportFiles(r)
  BY <1>1 DEF ImportFiles, Pcs, HandlerPcs, LeasedPcs
<1>2. CASE DisconnectUpload(r)
  BY <1>2 DEF DisconnectUpload, Pcs, HandlerPcs, LeasedPcs
<1>3. CASE ClaimUpload(r)
  BY <1>3 DEF ClaimUpload, Pcs, HandlerPcs, LeasedPcs
<1>4. CASE CleanUpSession(r)
  BY <1>4 DEF CleanUpSession, Pcs, HandlerPcs, LeasedPcs
<1>5. CASE DeleteCreatedBlock(r)
  BY <1>5 DEF DeleteCreatedBlock
<1>6. CASE CommitSession(r)
  BY <1>6 DEF CommitSession, Pcs, HandlerPcs, LeasedPcs
<1>7. CASE PlaceReplicas(r)
  BY <1>7 DEF PlaceReplicas, Pcs, HandlerPcs, LeasedPcs
<1>8. CASE RollbackAdmitted(r)
  BY <1>8 DEF RollbackAdmitted, Pcs, HandlerPcs, LeasedPcs
<1>9. CASE FinalizeAdmitted(r)
  <2>1. pc' \in [Requests -> Pcs] /\ todo' \in [Requests -> SUBSET Cids]
    <3>1. {"settling", "rollback"} \subseteq Pcs
      BY DEF Pcs, HandlerPcs
    <3>2. CASE pc' = [pc EXCEPT ![r] = "settling"] /\ todo' = [todo EXCEPT ![r] = files[r]]
      BY <3>1, <3>2
    <3>3. CASE pc' = [pc EXCEPT ![r] = "rollback"] /\ UNCHANGED todo
      BY <3>1, <3>3
    <3> QED BY <1>9, <3>2, <3>3 DEF FinalizeAdmitted
  <2>2. gcFresh' \subseteq Cids
    BY <1>9 DEF FinalizeAdmitted
  <2> QED BY <1>9, <2>1, <2>2 DEF FinalizeAdmitted
<1>10. CASE FinalizeFails(r)
  BY <1>10 DEF FinalizeFails, Pcs, HandlerPcs, LeasedPcs, ConfigAssumption
<1>11. CASE SettledUpload(r)
  BY <1>11 DEF SettledUpload, Pcs, HandlerPcs, LeasedPcs
<1>12. CASE CommitUpload(r)
  BY <1>12 DEF CommitUpload, Pcs, HandlerPcs, LeasedPcs
<1>13. CASE EndUpload(r)
  BY <1>13, AbsentShape DEF EndUpload, finish, Pcs
<1> QED BY <1>1, <1>2, <1>3, <1>4, <1>5, <1>6, <1>7, <1>8, <1>9, <1>10, <1>11, <1>12, <1>13

LEMMA TypeStepFile ==
  ASSUME ConfigAssumption, TypeOK, NEW r \in Requests, NEW c \in Cids,
         \/ MarkPinIntent(r, c) \/ PinUpload(r, c) \/ RegisterUpload(r, c)
         \/ ClearPinIntent(r, c) \/ RefuseUpload(r, c) \/ RestoreRefused(r, c)
         \/ UndoUpload(r, c) \/ RestoreUpload(r, c) \/ CheckCreatedBlock(r, c)
         \/ SettleUpload(r, c) \/ ClearSettledAdmission(r, c)
  PROVE  TypeOK'
<1> USE DEF TypeOK, storeVars, uploadVars, repairVars, gcVars, bootVars, envVars, goto, at
<1>a. /\ rec[c] \in Record /\ job[c] \in Job /\ r \in Tokens /\ baseline[r][c] \in Record
      /\ job[c].next \in Record /\ job[c].prev \in Record
      /\ undoCreated(c) \in {"keep", "pin", "unpin"}
      /\ Unowned(rec[c]) \in Record /\ [rec[c] EXCEPT !.settled = TRUE] \in Record
      /\ registered(c, r, ConfirmationRequired) \in Record
  <2>1. rec[c] \in Record /\ r \in Tokens /\ ConfirmationRequired \in BOOLEAN
    BY DEF Tokens, ConfigAssumption
  <2>2. registered(c, r, ConfirmationRequired) \in Record
    BY <2>1, RegisteredShape
  <2> QED BY <2>1, <2>2, RecordShapes, UndoShapes DEF Job
<1>1. CASE MarkPinIntent(r, c)
  <2>1. job' \in [Cids -> Job]
    BY <1>1, <1>a DEF MarkPinIntent, Pending, Job, Kinds
  <2> QED
    BY <1>1, <2>1 DEF MarkPinIntent, markPinIntent
<1>2. CASE PinUpload(r, c)
  <2>1. job' \in [Cids -> Job]
    <3>1. CASE Pending(c, "busy", r, rec[c], undoCreated(c), TRUE, FALSE)
      BY <1>a, <3>1 DEF Pending, Job, Kinds
    <3>2. CASE Pending(c, "admit", r, registered(c, r, ConfirmationRequired),
                       undoCreated(c), TRUE, FALSE)
      BY <1>a, <3>2 DEF Pending, Job, Kinds
    <3> QED BY <1>2, <3>1, <3>2 DEF PinUpload
  <2> QED
    BY <1>2, <2>1 DEF PinUpload, pinFile
<1>3. CASE RegisterUpload(r, c)
  BY <1>3, <1>a, AbsentShape DEF RegisterUpload, save
<1>4. CASE ClearPinIntent(r, c)
  BY <1>4 DEF ClearPinIntent
<1>5. CASE RefuseUpload(r, c)
  BY <1>5, <1>a DEF RefuseUpload, unpinFile, Job, Kinds
<1>6. CASE RestoreRefused(r, c)
  BY <1>6, <1>a, AbsentShape DEF RestoreRefused, save, Pcs, HandlerPcs, LeasedPcs
<1>7. CASE UndoUpload(r, c)
  <2>1. CASE UNCHANGED <<job, pin, blocks>> /\ todo' = [todo EXCEPT ![r] = @ \ {c}]
    BY <1>7, <2>1 DEF UndoUpload
  <2>2. CASE Pending(c, "undo", r, baseline[r][c], "keep", FALSE, FALSE) /\ UNCHANGED todo
    <3>1. job' \in [Cids -> Job]
      BY <2>2, <1>a DEF Pending, Job, Kinds
    <3>2. pin' \subseteq Cids /\ blocks' \subseteq Cids
      BY <1>7 DEF UndoUpload, unpinFile
    <3> QED BY <1>7, <2>2, <3>1, <3>2 DEF UndoUpload
  <2> QED BY <1>7, <2>1, <2>2 DEF UndoUpload
<1>8. CASE RestoreUpload(r, c)
  BY <1>8, <1>a, AbsentShape DEF RestoreUpload, save
<1>9. CASE CheckCreatedBlock(r, c)
  BY <1>9 DEF CheckCreatedBlock
<1>10. CASE SettleUpload(r, c)
  <2>1. rec' \in [Cids -> Record] /\ gcFresh' \subseteq Cids
    <3>1. CASE UNCHANGED <<rec, gcFresh>>
      BY <3>1
    <3>2. CASE save(c, [rec[c] EXCEPT !.settled = TRUE])
      BY <1>a, <3>2 DEF save
    <3> QED BY <1>10, <3>1, <3>2 DEF SettleUpload
  <2>2. faults' \in 0..MaxFaults
    BY <1>10 DEF SettleUpload, ConfigAssumption
  <2>3. todo' \in [Requests -> SUBSET Cids]
    BY <1>10 DEF SettleUpload
  <2> QED BY <1>10, <2>1, <2>2, <2>3 DEF SettleUpload
<1>11. CASE ClearSettledAdmission(r, c)
  <2>1. rec' \in [Cids -> Record] /\ gcFresh' \subseteq Cids
    <3>1. CASE UNCHANGED <<rec, gcFresh>>
      BY <3>1
    <3>2. CASE save(c, Unowned(rec[c]))
      BY <1>a, <3>2 DEF save
    <3> QED BY <1>11, <3>1, <3>2 DEF ClearSettledAdmission
  <2>2. faults' \in 0..MaxFaults
    BY <1>11 DEF ClearSettledAdmission, ConfigAssumption
  <2>3. todo' \in [Requests -> SUBSET Cids]
    <3>1. CASE todo' = [todo EXCEPT ![r] = @ \ {c}]
      BY <3>1
    <3>2. CASE todo' = [todo EXCEPT ![r] = {}]
      BY <3>2
    <3> QED BY <1>11, <3>1, <3>2 DEF ClearSettledAdmission
  <2> QED BY <1>11, <2>1, <2>2, <2>3 DEF ClearSettledAdmission
<1> QED BY <1>1, <1>2, <1>3, <1>4, <1>5, <1>6, <1>7, <1>8, <1>9, <1>10, <1>11

LEMMA TypeStepCid ==
  ASSUME ConfigAssumption, TypeOK, NEW c \in Cids,
         WriteRecord(c) \/ ClientCall(c) \/ GcLoop(c) \/ Repair(c) \/ Boot(c)
  PROVE  TypeOK'
<1> USE DEF TypeOK, storeVars, uploadVars, repairVars, gcVars, bootVars, envVars,
            others, gcKeep, repairKeep, bootKeep
<1>a. /\ rec[c] \in Record /\ job[c] \in Job /\ NoReq \in Tokens
      /\ job[c].next \in Record /\ job[c].prev \in Record
      /\ wasPinned(c) \in {"keep", "pin", "unpin"}
      /\ undoCreated(c) \in {"keep", "pin", "unpin"}
      /\ undoRemoved(c) \in {"keep", "pin", "unpin"}
      /\ unpinIfCreated(c) \in {"keep", "pin", "unpin"}
      /\ Unowned(rec[c]) \in Record /\ Confirmed(rec[c]) \in Record
      /\ Released(rec[c]) \in Record /\ Demoted(rec[c]) \in Record
      /\ Rescued(rec[c]) \in Record /\ expiredBaseline(rec[c]) \in Record
      /\ [rec[c] EXCEPT !.pinned = TRUE] \in Record
      /\ registered(c, NoReq, FALSE) \in Record
  BY RecordShapes, RegisteredShape, UndoShapes DEF Tokens, Job
<1>1. CASE WriteRecord(c)
  BY <1>1, <1>a, AbsentShape DEF WriteRecord
<1>2. CASE Confirm(c)
  <2>1. job' \in [Cids -> Job]
    BY <1>2, <1>a DEF Confirm, Pending, Job, Kinds
  <2> QED
    BY <1>2, <2>1 DEF Confirm, pinFile
<1>3. CASE Adopt(c)
  <2>1. job' \in [Cids -> Job]
    <3>1. CASE UNCHANGED job
      BY <3>1
    <3>2. CASE Pending(c, "baseline", NoReq, rec[c], "keep", FALSE, TRUE)
      BY <1>a, <3>2 DEF Pending, Job, Kinds
    <3>3. CASE Pending(c, "store", NoReq, registered(c, NoReq, FALSE), wasPinned(c),
                       TRUE, TRUE)
      BY <1>a, <3>3 DEF Pending, Job, Kinds
    <3> QED BY <1>3, <3>1, <3>2, <3>3 DEF Adopt, registerPinnedUnderLock
  <2> QED
    BY <1>3, <2>1 DEF Adopt, registerPinnedUnderLock, pinFile
<1>4. CASE Store(c)
  <2>1. job' \in [Cids -> Job]
    <3>1. CASE UNCHANGED job
      BY <3>1
    <3>2. CASE Pending(c, "baseline", NoReq, rec[c], "keep", FALSE, TRUE)
      BY <1>a, <3>2 DEF Pending, Job, Kinds
    <3>3. CASE Pending(c, "store", NoReq, registered(c, NoReq, FALSE), wasPinned(c),
                       TRUE, TRUE)
      BY <1>a, <3>3 DEF Pending, Job, Kinds
    <3> QED BY <1>4, <3>1, <3>2, <3>3 DEF Store, registerPinnedUnderLock
  <2> QED
    BY <1>4, <2>1 DEF Store, registerPinnedUnderLock, pinFile
<1>5. CASE Release(c)
  <2>1. job' \in [Cids -> Job]
    BY <1>5, <1>a DEF Release, Pending, Job, Kinds
  <2> QED
    BY <1>5, <2>1 DEF Release, unpinFile
<1>6. CASE SetReplicas(c)
  BY <1>6 DEF SetReplicas
<1>7. CASE GcRecover(c)
  <2>1. rec' \in [Cids -> Record] /\ gcFresh' \subseteq Cids
    <3>1. CASE UNCHANGED <<rec, gcFresh>>
      BY <3>1
    <3>2. CASE save(c, Unowned(rec[c]))
      BY <1>a, <3>2 DEF save
    <3> QED BY <1>7, <3>1, <3>2 DEF GcRecover, recoverAdmission
  <2> QED BY <1>7, <2>1 DEF GcRecover, gcDone
<1>8. CASE GcDemote(c)
  <2>1. job' \in [Cids -> Job]
    <3>1. CASE UNCHANGED job
      BY <3>1
    <3>2. CASE Pending(c, "demote", NoReq, Demoted(rec[c]), undoRemoved(c), FALSE, FALSE)
      BY <1>a, <3>2 DEF Pending, Job, Kinds
    <3> QED BY <1>8, <3>1, <3>2 DEF GcDemote
  <2> QED
    BY <1>8, <2>1 DEF GcDemote, gcDone, unpinFile
<1>9. CASE GcGuard(c)
  <2>1. job' \in [Cids -> Job]
    <3>1. CASE UNCHANGED job
      BY <3>1
    <3>2. CASE Pending(c, "guard", NoReq, [rec[c] EXCEPT !.pinned = TRUE],
                       undoCreated(c), FALSE, FALSE)
      BY <1>a, <3>2 DEF Pending, Job, Kinds
    <3> QED BY <1>9, <3>1, <3>2 DEF GcGuard
  <2> QED
    BY <1>9, <2>1 DEF GcGuard, gcDone, pinFile
<1>10. CASE GcRelease(c)
  <2>1. job' \in [Cids -> Job]
    <3>1. CASE UNCHANGED job
      BY <3>1
    <3>2. CASE Unstage(c, "gcStage", TRUE, FALSE)
      <4>1. CASE Pending(c, "gcStage", NoReq, expiredBaseline(rec[c]), "keep", FALSE, FALSE)
        BY <1>a, <4>1 DEF Pending, Job, Kinds
      <4> QED BY <3>2, <4>1 DEF Unstage
    <3>3. CASE Pending(c, "gcRelease", NoReq, Released(rec[c]), undoRemoved(c), FALSE, FALSE)
      BY <1>a, <3>3 DEF Pending, Job, Kinds
    <3> QED BY <1>10, <3>1, <3>2, <3>3 DEF GcRelease
  <2>2. pin' \subseteq Cids /\ blocks' \subseteq Cids
    BY <1>10 DEF GcRelease, Unstage, unpinFile
  <2> QED
    BY <1>10, <2>1, <2>2 DEF GcRelease, gcDone
<1>11. CASE GcDelete(c)
  BY <1>11 DEF GcDelete, gcDone
<1>12. CASE GcCleanup(c)
  BY <1>12, AbsentShape DEF GcCleanup, gcDone, save
<1>13. CASE RepairClaim(c)
  BY <1>13, <1>a DEF RepairClaim, Record
<1>14. CASE RepairClear(c)
  BY <1>14, <1>a, RecordShapes DEF RepairClear, save
<1>15. CASE RepairEnd(c)
  BY <1>15, <1>a DEF RepairEnd
<1>16. CASE Rescue(c)
  <2>1. job' \in [Cids -> Job]
    BY <1>16, <1>a DEF Rescue, Pending, Job, Kinds
  <2> QED
    BY <1>16, <2>1 DEF Rescue, pinFile
<1>17. CASE BackfillRead(c)
  BY <1>17 DEF BackfillRead, backfillGoto
<1>18. CASE BackfillCreate(c)
  <2>1. \A s \in {"temporary", "confirmed"} :
          [Absent EXCEPT !.pinned = TRUE, !.held = TRUE, !.state = s] \in Record
    BY DEF Absent, Record, Tokens
  <2>2. rec' \in [Cids -> Record] /\ gcFresh' \subseteq Cids
    <3>1. CASE UNCHANGED <<rec, gcFresh>>
      BY <3>1
    <3>2. ASSUME NEW s \in {"temporary", "confirmed"},
                 save(c, [Absent EXCEPT !.pinned = TRUE, !.held = TRUE, !.state = s])
          PROVE  rec' \in [Cids -> Record] /\ gcFresh' \subseteq Cids
      BY <2>1, <3>2 DEF save
    <3> QED BY <1>18, <3>1, <3>2 DEF BackfillCreate
  <2> QED
    BY <1>18, <2>2 DEF BackfillCreate, backfillGoto
<1>19. CASE StartupRecover(c)
  <2>1. rec' \in [Cids -> Record] /\ gcFresh' \subseteq Cids
    <3>1. CASE UNCHANGED <<rec, gcFresh>>
      BY <3>1
    <3>2. CASE save(c, Unowned(rec[c]))
      BY <1>a, <3>2 DEF save
    <3> QED BY <1>19, <3>1, <3>2 DEF StartupRecover, recoverAdmission
  <2> QED BY <1>19, <2>1 DEF StartupRecover
<1>20. ASSUME NEW t \in Txs, Stage(c, t) PROVE TypeOK'
  <2>1. job' \in [Cids -> Job]
    <3>1. ASSUME NEW f \in Record, NEW u \in {"keep", "unpin"},
                 Pending(c, "stage", NoReq, f, u, TRUE, TRUE)
          PROVE  job' \in [Cids -> Job]
      BY <1>a, <3>1 DEF Pending, Job, Kinds
    <3>2. staged(c, t)
      BY <1>20 DEF Stage
    <3> QED
      BY <3>1, <3>2, <1>a, StagedShape DEF staged, unpinIfCreated
  <2> QED
    BY <1>20, <2>1 DEF Stage, pinFile
<1>21. ASSUME NEW t \in Txs, Commit(c, t) PROVE TypeOK'
  BY <1>21, <1>a, RecordShapes DEF Commit, save
<1>22. ASSUME NEW t \in Txs, Abort(c, t) PROVE TypeOK'
  <2>1. job' \in [Cids -> Job]
    <3>1. CASE UNCHANGED job
      BY <3>1
    <3>2. CASE Unstage(c, "abort", FALSE, TRUE)
      <4>1. CASE Pending(c, "abort", NoReq, expiredBaseline(rec[c]), "keep", FALSE, TRUE)
        BY <1>a, <4>1 DEF Pending, Job, Kinds
      <4>2. ASSUME NEW u \in {"keep", "pin"}, Pending(c, "abort", NoReq, Absent, u, TRUE, TRUE)
            PROVE  job' \in [Cids -> Job]
        BY <1>a, AbsentShape, <4>2 DEF Pending, Job, Kinds
      <4> QED BY <3>2, <4>1, <4>2 DEF Unstage
    <3> QED BY <1>22, <3>1, <3>2 DEF Abort
  <2>2. rec' \in [Cids -> Record] /\ gcFresh' \subseteq Cids
    <3>1. [rec[c] EXCEPT !.stage = @ \ {t}] \in Record
      BY <1>a DEF Record
    <3>2. CASE UNCHANGED <<rec, gcFresh>>
      BY <3>2
    <3>3. CASE save(c, [rec[c] EXCEPT !.stage = @ \ {t}])
      BY <3>1, <3>3 DEF save
    <3> QED BY <1>22, <3>2, <3>3 DEF Abort
  <2>3. pin' \subseteq Cids /\ blocks' \subseteq Cids
    BY <1>22 DEF Abort, Unstage, unpinFile
  <2>4. aborted' \subseteq Cids \X Txs
    BY <1>22 DEF Abort
  <2> QED
    BY <1>22, <2>1, <2>2, <2>3, <2>4 DEF Abort
<1> QED
  BY <1>1, <1>2, <1>3, <1>4, <1>5, <1>6, <1>7, <1>8, <1>9, <1>10, <1>11, <1>12, <1>13, <1>14,
     <1>15, <1>16, <1>17, <1>18, <1>19, <1>20, <1>21, <1>22
     DEF ClientCall, GcLoop, Repair, Boot

LEMMA TypeStepSaveFails ==
  ASSUME ConfigAssumption, TypeOK, NEW c \in Cids, NEW persisted \in BOOLEAN,
         SaveFails(c, persisted)
  PROVE  TypeOK'
<1> USE DEF TypeOK, storeVars, uploadVars, repairVars, gcVars, bootVars, envVars
<1>a. job[c] \in Job /\ job[c].next \in Record /\ job[c].prev \in Record
  BY DEF Job
<1>1. job' \in [Cids -> Job]
  BY <1>a, AbsentShape DEF SaveFails, Job, Kinds
<1>2. rec' \in [Cids -> Record] /\ gcFresh' \subseteq Cids
  BY <1>a DEF SaveFails, save
<1>3. pin' \subseteq Cids /\ blocks' \subseteq Cids
  BY DEF SaveFails, undoPin, pinFile, unpinFile
<1>4. gcPc' \in GcPcs /\ gcTodo' \subseteq Cids /\ gcPlan' \subseteq Cids /\ gcCollect' \in BOOLEAN
  BY DEF SaveFails, gcGoto, GcPcs
<1>5. todo' \in [Requests -> SUBSET Cids] /\ faults' \in 0..MaxFaults
  BY DEF SaveFails, ConfigAssumption
<1> QED BY <1>1, <1>2, <1>3, <1>4, <1>5 DEF SaveFails

LEMMA TypeStepPass ==
  ASSUME ConfigAssumption, TypeOK, GcStart \/ GcPass \/ CrashAndRestart
  PROVE  TypeOK'
<1> USE DEF TypeOK, storeVars, uploadVars, repairVars, gcVars, bootVars, envVars,
            gcKeep, gcGoto, GcPcs
<1>1. CASE GcStart
  BY <1>1 DEF GcStart
<1>2. CASE GcDemoteStart
  BY <1>2 DEF GcDemoteStart
<1>3. CASE GcPlan
  BY <1>3 DEF GcPlan
<1>4. CASE GcReleaseStart
  BY <1>4 DEF GcReleaseStart
<1>5. CASE GcKeepBlocks
  BY <1>5 DEF GcKeepBlocks
<1>6. CASE GcAskLease
  BY <1>6 DEF GcAskLease
<1>7. CASE GcLease
  BY <1>7 DEF GcLease
<1>8. CASE GcCleanupStart
  BY <1>8 DEF GcCleanupStart
<1>9. CASE GcEnd
  BY <1>9 DEF GcEnd
<1>10. CASE CrashAndRestart
  <2>1. /\ pc' \in [Requests -> Pcs] /\ job' \in [Cids -> Job]
        /\ baseline' \in [Requests -> [Cids -> Record]]
        /\ repairToken' \in [Cids -> Tokens]
    BY <1>10, AbsentShape DEF CrashAndRestart, Pcs, Tokens
  <2>2. crashes' \in 0..MaxCrashes
    BY <1>10 DEF CrashAndRestart, ConfigAssumption
  <2> QED
    BY <1>10, <2>1, <2>2 DEF CrashAndRestart
<1> QED BY <1>1, <1>2, <1>3, <1>4, <1>5, <1>6, <1>7, <1>8, <1>9, <1>10 DEF GcPass

LEMMA TypeStep ==
  ASSUME ConfigAssumption, TypeOK, [Next]_vars
  PROVE  TypeOK'
<1>1. CASE UNCHANGED vars
  BY <1>1 DEF vars, TypeOK, storeVars, uploadVars, repairVars, gcVars, bootVars, envVars
<1>2. ASSUME NEW r \in Requests, Upload(r) PROVE TypeOK'
  BY <1>2, TypeStepRequest, TypeStepFile DEF Upload
<1> QED
  BY <1>1, <1>2, TypeStepCid, TypeStepSaveFails, TypeStepPass DEF Next

LEMMA TypeInit == ConfigAssumption /\ Init => TypeOK
<1> SUFFICES ASSUME ConfigAssumption, Init PROVE TypeOK
  OBVIOUS
<1>1. /\ rec \in [Cids -> Record] /\ job \in [Cids -> Job]
      /\ baseline \in [Requests -> [Cids -> Record]]
      /\ pc \in [Requests -> Pcs] /\ repairToken \in [Cids -> Tokens]
  BY AbsentShape DEF Init, Pcs, Tokens
<1>2. faults \in 0..MaxFaults /\ crashes \in 0..MaxCrashes
  BY DEF Init, ConfigAssumption
<1> QED
  BY <1>1, <1>2 DEF Init, TypeOK, ConfigAssumption, GcPcs
-----------------------------------------------------------------------------
(* What the steps have in common *)

LEMMA RegisteredCids ==
  ASSUME TypeOK, NEW r \in Requests
  PROVE  Registered(r) \subseteq Cids /\ Registered(r) \subseteq files[r]
BY DEF TypeOK, Registered

\* A record that is still right when the requests move on.
LEMMA ClaimedLater ==
  ASSUME TypeOK, NEW f \in Record, RecordOK(f),
         \A r \in Requests : Claimed(r) => Claimed(r)'
  PROVE  RecordOK(f)'
BY DEF RecordOK, Claimed, Record, Tokens

\* A step that changes only the record, the pin and the pending operation of
\* one CID, and takes that CID off the loops of handlers.
LEMMA LocalStep ==
  ASSUME IInv, TypeOK', NEW c \in Cids,
         UNCHANGED <<pc, files, active, repairing, repairToken>>,
         \A r \in Requests : todo'[r] = todo[r] \/ todo'[r] = todo[r] \ {c},
         \A d \in Cids \ {c} : /\ rec'[d] = rec[d] /\ job'[d] = job[d]
                               /\ d \in pin' <=> d \in pin,
         BaselinesOK', CidOK(c)', OneJob', CollectorOK',
         \A r \in Requests : c \in Registered(r)' => Owns(r, c)',
         \A r \in Requests : pc[r] = "restoring" /\ c \in todo'[r] => rec'[c].adm = r
  PROVE  IInv'
<1>1. ActiveOK' /\ RepairTokensDone'
  BY DEF IInv, ActiveOK, RepairTokensDone
<1>2. LocksOK'
  BY DEF IInv, LocksOK
<1>3. ASSUME NEW d \in Cids PROVE CidOK(d)'
  <2>1. CASE d = c
    BY <2>1
  <2> SUFFICES ASSUME d # c PROVE CidOK(d)'
    BY <2>1
  <2>2. RecordsOK(d)'
    <3>1. RecordsOK(d) /\ rec'[d] = rec[d] /\ job'[d] = job[d] /\ pc' = pc
      BY DEF IInv, CidOK
    <3> QED BY <3>1 DEF RecordsOK, RecordOK, Claimed
  <2>3. RepairOK(d)'
    BY DEF IInv, CidOK, RepairOK, Kept
  <2>4. HeldByUpload(d)' <=> HeldByUpload(d)
    BY DEF HeldByUpload
  <2>5. JobOK(d)
    BY DEF IInv, CidOK
  <2>6. JobOK(d)'
    BY <2>4, <2>5 DEF JobOK
  <2> QED BY <2>2, <2>3, <2>6 DEF CidOK
<1>4. RestoringOwned'
  BY DEF IInv, RestoringOwned
<1>5. Owned'
  <2> SUFFICES ASSUME NEW r \in Requests, NEW d \in Registered(r)' PROVE Owns(r, d)'
    BY DEF Owned
  <2>1. d \in Cids
    <3>1. Registered(r)' \subseteq Cids
      BY DEF TypeOK, Registered
    <3> QED BY <3>1
  <2>2. CASE d = c
    BY <2>2
  <2>3. CASE d # c
    <3>1. d \in Registered(r)
      BY <2>3 DEF Registered
    <3>2. Owns(r, d)
      BY <3>1 DEF IInv, Owned
    <3> QED BY <2>1, <2>3, <3>2 DEF Owns
  <2> QED BY <2>2, <2>3
<1> QED
  BY <1>1, <1>2, <1>3, <1>4, <1>5 DEF IInv

\* A step of one handler that changes no record, no pin and no pending
\* operation.
LEMMA RequestStep ==
  ASSUME IInv, TypeOK', NEW r \in Requests,
         UNCHANGED <<rec, job, pin, repairing, repairToken>>,
         \A q \in Requests \ {r} : /\ pc'[q] = pc[q] /\ files'[q] = files[q]
                                   /\ todo'[q] = todo[q] /\ (q \in active' <=> q \in active),
         r \in active' <=> pc'[r] \in HandlerPcs,
         Claimed(r) => Claimed(r)',
         pc[r] # "done" /\ pc'[r] # "restoring",
         \A c \in Cids : job[c].kind \in UploadKinds => job[c].by # r,
         pc'[r] \in LockedPcs =>
           /\ \A q \in Requests \ {r} : pc[q] \in LockedPcs => files'[r] \cap files[q] = {}
           /\ \A c \in files'[r] : job[c].kind \notin OwnKinds,
         pc'[r] \in {"admitting", "restoring", "undoing", "settling", "clearing"}
           => todo'[r] \subseteq files'[r],
         Registered(r)' \subseteq Registered(r),
         BaselinesOK', CollectorOK'
  PROVE  IInv'
<1>1. ActiveOK'
  BY DEF IInv, ActiveOK
<1>2. RepairTokensDone'
  BY DEF IInv, RepairTokensDone, TypeOK, Tokens
<1>3. LocksOK'
  BY DEF IInv, LocksOK
<1>4. \A q \in Requests : Claimed(q) => Claimed(q)'
  BY DEF Claimed
<1>5. ASSUME NEW d \in Cids PROVE CidOK(d)'
  <2>1. rec[d] \in Record /\ job[d].next \in Record /\ job[d].prev \in Record /\ TypeOK
    BY DEF IInv, TypeOK, Job
  <2>2. RecordsOK(d)'
    BY <1>4, <2>1, ClaimedLater DEF IInv, CidOK, RecordsOK
  <2>3. RepairOK(d)'
    BY DEF IInv, CidOK, RepairOK, Kept
  <2>4. job[d].kind \in OwnKinds => ~HeldByUpload(d)'
    BY DEF IInv, CidOK, JobOK, HeldByUpload
  <2>5. JobOK(d)
    BY DEF IInv, CidOK
  <2>6. JobOK(d)'
    BY <2>4, <2>5 DEF JobOK
  <2> QED BY <2>2, <2>3, <2>6 DEF CidOK
<1>6. OneJob'
  BY DEF IInv, OneJob
<1>7. RestoringOwned'
  BY DEF IInv, RestoringOwned
<1>8. Owned'
  <2> SUFFICES ASSUME NEW q \in Requests, NEW d \in Registered(q)' PROVE Owns(q, d)'
    BY DEF Owned
  <2>1. d \in Registered(q)
    BY DEF Registered
  <2>2. Owns(q, d)
    BY <2>1 DEF IInv, Owned
  <2> QED BY <2>2 DEF Owns
<1> QED
  BY <1>1, <1>2, <1>3, <1>5, <1>6, <1>7, <1>8 DEF IInv

\* A step that changes none of it but the collector's own variables.
LEMMA QuietStep ==
  ASSUME IInv, TypeOK', CollectorOK',
         UNCHANGED <<rec, job, pin, pc, files, todo, baseline, active, repairing, repairToken>>
  PROVE  IInv'
<1>1. BaselinesOK' /\ ActiveOK' /\ LocksOK' /\ RepairTokensDone'
  BY DEF IInv, BaselinesOK, RecordOK, Claimed, ActiveOK, LocksOK, RepairTokensDone
<1>2. ASSUME NEW d \in Cids PROVE CidOK(d)'
  <2>1. CidOK(d)
    BY DEF IInv
  <2> QED
    BY <2>1 DEF CidOK, RecordsOK, RecordOK, Claimed, JobOK, HeldByUpload, RepairOK, Kept
<1>3. OneJob' /\ RestoringOwned'
  BY DEF IInv, OneJob, RestoringOwned
<1>4. Owned'
  BY DEF IInv, Owned, Owns, Registered
<1> QED BY <1>1, <1>2, <1>3, <1>4 DEF IInv

\* Nobody but a handler inside its locked section is in the middle of changing
\* a CID that a handler has locked.
LEMMA LockedByHandler ==
  ASSUME IInv, NEW r \in Requests, pc[r] \in LockedPcs, NEW c \in files[r], c \in Cids,
         job[c].kind # "none"
  PROVE  job[c].by = r /\ job[c].kind \in UploadKinds
<1>1. job[c].kind \in Kinds /\ JobOK(c)
  BY DEF IInv, TypeOK, Job, CidOK
<1>2. job[c].kind \notin OwnKinds
  BY <1>1 DEF JobOK, HeldByUpload
<1>3. job[c].kind \in UploadKinds
  BY <1>1, <1>2 DEF Kinds, OwnKinds, UploadKinds
<1>4. job[c].by \in Requests /\ c \in files[job[c].by] /\ pc[job[c].by] \in LockedPcs
  BY <1>1, <1>3 DEF JobOK, LockedPcs
<1> QED
  BY <1>3, <1>4 DEF IInv, LocksOK

\* What a request owns is under its token, and its handler is running.
LEMMA OwnerActive ==
  ASSUME ConfigAssumption, IInv, NEW r \in Requests, NEW c \in Registered(r)
  PROVE  /\ Owns(r, c) /\ rec[c].adm \in active /\ rec[c].adm # NoReq
         /\ rec[c].state \in {"temporary", "confirmed"} /\ rec[c].stage = {}
<1>0. c \in Cids
  BY RegisteredCids DEF IInv
<1>1. Owns(r, c)
  BY DEF IInv, Owned
<1>2. pc[r] \in HandlerPcs
  BY DEF Registered, HandlerPcs
<1>3. r \in active
  BY <1>2 DEF IInv, ActiveOK
<1>4. rec[c].adm = r
  BY <1>1 DEF Owns
<1>5. r # NoReq
  BY DEF ConfigAssumption
<1> QED
  BY <1>0, <1>1, <1>3, <1>4, <1>5 DEF IInv, CidOK, RecordsOK, RecordOK

\* The first half of an operation that no handler runs: it takes the lock,
\* changes the pin and leaves the record for later.
LEMMA BeginStep ==
  ASSUME IInv, TypeOK', NEW c \in Cids, Unlocked(c),
         UNCHANGED <<rec, pc, files, todo, baseline, active, repairing, repairToken,
                     gcPc, gcReleased, gcFresh>>,
         gcTodo' \subseteq gcTodo,
         \A d \in Cids \ {c} : job'[d] = job[d] /\ (d \in pin' <=> d \in pin),
         job'[c].kind \in OwnKinds, job'[c].prev = rec[c], RecordOK(job'[c].next),
         job'[c].kind \notin {"release", "demote", "baseline"} =>
           (Durable(rec[c]) => Durable(job'[c].next)),
         job'[c].kind \in {"gcRelease", "gcStage"} =>
           job'[c].next.state = "expired" /\ gcPc = "release",
         job'[c].kind = "demote" => gcPc = "demote",
         \A r \in Requests : c \in Registered(r) =>
           job'[c].next.adm = r /\ job'[c].undoPin # "unpin" /\ c \in pin',
         c \in repairing => Kept(job'[c].next, c)
  PROVE  IInv'
<1>1. RecordsOK(c)'
  BY DEF IInv, CidOK, RecordsOK, RecordOK, Claimed
<1>2. ~HeldByUpload(c)'
  BY DEF Unlocked, HeldByUpload
<1>3. job'[c].kind \notin UploadKinds /\ job'[c].kind # "admit"
  BY DEF OwnKinds, UploadKinds
<1>4. JobOK(c)'
  BY <1>2, <1>3 DEF JobOK, Durable
<1>5. RepairOK(c)'
  BY DEF IInv, CidOK, RepairOK, Kept, Durable
<1>6. OneJob'
  BY <1>3 DEF IInv, OneJob
<1>7. CollectorOK'
  <2>1. CollectorOK
    BY DEF IInv
  <2>2. \A d \in Cids :
          /\ job'[d].kind \in {"gcRelease", "gcStage"} =>
               job'[d].next.state = "expired" /\ gcPc = "release"
          /\ job'[d].kind = "demote" => gcPc \in {"idle", "recover", "demote"}
    BY <2>1 DEF CollectorOK
  <2> QED BY <2>1, <2>2 DEF CollectorOK
<1>8. BaselinesOK'
  BY DEF IInv, BaselinesOK, RecordOK, Claimed
<1>9. ASSUME NEW r \in Requests, c \in Registered(r)' PROVE Owns(r, c)'
  <2>1. c \in Registered(r)
    BY <1>9 DEF Registered
  <2>2. Owns(r, c)
    BY <2>1 DEF IInv, Owned
  <2> QED BY <2>1, <2>2 DEF Owns
<1>10. \A r \in Requests : pc[r] = "restoring" /\ c \in todo'[r] => rec'[c].adm = r
  BY DEF IInv, RestoringOwned
<1> QED
  BY <1>1, <1>4, <1>5, <1>6, <1>7, <1>8, <1>9, <1>10, LocalStep DEF CidOK

\* A registry write that needs no change of the pin, under the lock.
LEMMA WriteStep ==
  ASSUME IInv, TypeOK', NEW c \in Cids, Unlocked(c),
         UNCHANGED <<job, pin, pc, files, todo, baseline, active, repairing, repairToken,
                     gcPc, gcReleased>>,
         gcTodo' \subseteq gcTodo, gcFresh' \subseteq gcFresh \ {c},
         \A d \in Cids \ {c} : rec'[d] = rec[d],
         RecordOK(rec'[c]),
         \A r \in Requests : c \in Registered(r) =>
           rec'[c].adm = r /\ rec'[c].pinned /\ rec'[c].held,
         c \in repairing => Kept(rec'[c], c)
  PROVE  IInv'
<1>0. job[c].kind = "none" /\ ~HeldByUpload(c)
  BY DEF Unlocked
<1>1. RecordsOK(c)'
  BY DEF IInv, CidOK, RecordsOK, RecordOK, Claimed
<1>2. JobOK(c)'
  BY <1>0 DEF JobOK, UploadKinds, OwnKinds
<1>3. RepairOK(c)'
  BY <1>0 DEF IInv, CidOK, RepairOK, Kept, Durable
<1>4. OneJob'
  BY DEF IInv, OneJob
<1>5. CollectorOK'
  BY DEF IInv, CollectorOK, TypeOK
<1>6. BaselinesOK'
  BY DEF IInv, BaselinesOK, RecordOK, Claimed
<1>7. ASSUME NEW r \in Requests, c \in Registered(r)' PROVE Owns(r, c)'
  <2>1. c \in Registered(r)
    BY <1>7 DEF Registered
  <2>2. Owns(r, c)
    BY <2>1 DEF IInv, Owned
  <2> QED BY <1>0, <2>1, <2>2 DEF Owns
<1>8. ASSUME NEW r \in Requests, pc[r] = "restoring", c \in todo'[r] PROVE FALSE
  BY <1>0, <1>8 DEF IInv, LocksOK, HeldByUpload, LockedPcs
<1> QED
  BY <1>1, <1>2, <1>3, <1>4, <1>5, <1>6, <1>7, <1>8, LocalStep DEF CidOK

-----------------------------------------------------------------------------
(* Steps of upload handlers that change no record *)

LEMMA NoUploadJob ==
  ASSUME IInv, NEW r \in Requests,
         pc[r] \notin {"admitting", "restoring", "undoing"} \/ todo[r] = {}
  PROVE  \A c \in Cids : job[c].kind \in UploadKinds => job[c].by # r
BY DEF IInv, CidOK, JobOK

LEMMA CollectorKept ==
  ASSUME CollectorOK, UNCHANGED <<rec, job, gcPc, gcReleased>>, gcTodo' \subseteq gcTodo,
         gcFresh' \subseteq gcFresh
  PROVE  CollectorOK'
BY DEF CollectorOK

LEMMA CollectorWrite ==
  ASSUME CollectorOK, gcReleased \subseteq Cids, NEW c \in Cids,
         UNCHANGED <<gcPc, gcTodo, gcReleased>>, gcFresh' = gcFresh \ {c},
         job'[c].kind = "none",
         \A d \in Cids \ {c} : job'[d] = job[d] /\ rec'[d] = rec[d]
  PROVE  CollectorOK'
BY DEF CollectorOK

LEMMA AbsentOK == RecordOK(Absent)
BY DEF RecordOK, Absent, Claimed

LEMMA BaselinesKept ==
  ASSUME IInv,
         \A q \in Requests : Claimed(q) => Claimed(q)',
         \A q \in Requests, c \in Cids : baseline'[q][c] \in {baseline[q][c], Absent}
  PROVE  BaselinesOK'
<1> SUFFICES ASSUME NEW q \in Requests, NEW c \in Cids PROVE RecordOK(baseline[q][c])'
  BY DEF BaselinesOK
<1>1. RecordOK(baseline[q][c]) /\ baseline[q][c] \in Record /\ TypeOK
  BY DEF IInv, BaselinesOK, TypeOK
<1>2. CASE baseline'[q][c] = baseline[q][c]
  BY <1>1, <1>2 DEF RecordOK, Claimed, Record, Tokens
<1>3. CASE baseline'[q][c] = Absent
  BY <1>3 DEF RecordOK, Claimed, Absent
<1> QED BY <1>2, <1>3

\* Handlers that lock their files share none with other handlers.
LEMMA LocksTaken ==
  ASSUME IInv, NEW F \in SUBSET Cids, \A c \in F : Unlocked(c)
  PROVE  /\ \A q \in Requests : pc[q] \in LockedPcs => F \cap files[q] = {}
         /\ \A c \in F : job[c].kind \notin OwnKinds
BY DEF Unlocked, HeldByUpload, OwnKinds

LEMMA LocksStill ==
  ASSUME IInv, NEW r \in Requests, pc[r] \in LockedPcs
  PROVE  /\ \A q \in Requests \ {r} : pc[q] \in LockedPcs => files[r] \cap files[q] = {}
         /\ \A c \in files[r] : job[c].kind \notin OwnKinds
<1>1. \A q \in Requests \ {r} : pc[q] \in LockedPcs => files[r] \cap files[q] = {}
  BY DEF IInv, LocksOK
<1>2. ASSUME NEW c \in files[r] PROVE job[c].kind \notin OwnKinds
  <2>1. c \in Cids
    BY DEF IInv, TypeOK
  <2>2. HeldByUpload(c)
    BY DEF HeldByUpload
  <2> QED BY <2>1, <2>2 DEF IInv, CidOK, JobOK
<1> QED BY <1>1, <1>2

LEMMA RequestActions ==
  ASSUME ConfigAssumption, IInv, TypeOK', NEW r \in Requests,
         \/ ImportFiles(r) \/ DisconnectUpload(r) \/ ClaimUpload(r)
         \/ CleanUpSession(r) \/ CommitSession(r)
         \/ PlaceReplicas(r) \/ RollbackAdmitted(r) \/ FinalizeAdmitted(r)
         \/ FinalizeFails(r) \/ SettledUpload(r) \/ CommitUpload(r) \/ EndUpload(r)
  PROVE  IInv'
<1> USE DEF storeVars, uploadVars, repairVars, gcVars, bootVars, envVars, goto, at
<1>0. TypeOK /\ CollectorOK /\ r # NoReq
  BY DEF IInv, ConfigAssumption
<1>1. /\ UNCHANGED <<rec, job, pin, repairing, repairToken, gcPc, gcTodo, gcReleased>>
      /\ gcFresh' \subseteq gcFresh
  BY DEF ImportFiles, DisconnectUpload, ClaimUpload, CleanUpSession, CommitSession,
     PlaceReplicas, RollbackAdmitted, FinalizeAdmitted, FinalizeFails, SettledUpload,
     CommitUpload, EndUpload
<1>2. CollectorOK'
  BY <1>0, <1>1, CollectorKept
<1>3. \A q \in Requests \ {r} : /\ pc'[q] = pc[q] /\ files'[q] = files[q]
                                /\ todo'[q] = todo[q] /\ (q \in active' <=> q \in active)
  BY <1>0 DEF TypeOK, finish, ImportFiles, DisconnectUpload, ClaimUpload, CleanUpSession,
     CommitSession, PlaceReplicas, RollbackAdmitted, FinalizeAdmitted, FinalizeFails,
     SettledUpload, CommitUpload, EndUpload
<1>4. \A q \in Requests, c \in Cids : baseline'[q][c] \in {baseline[q][c], Absent}
  BY <1>0 DEF TypeOK, finish, ImportFiles, DisconnectUpload, ClaimUpload, CleanUpSession,
     CommitSession, PlaceReplicas, RollbackAdmitted, FinalizeAdmitted, FinalizeFails,
     SettledUpload, CommitUpload, EndUpload
<1> HIDE DEF storeVars, uploadVars, repairVars, gcVars, bootVars, envVars
<1>5. CASE ImportFiles(r)
  <2>1. pc[r] = "idle" /\ pc'[r] \in {"imported"}
    BY <1>5, <1>0 DEF ImportFiles, TypeOK
  <2>2. active' = active
    BY <1>5 DEF ImportFiles, uploadVars
  <2>3. r \in active' <=> pc'[r] \in HandlerPcs
    BY <2>1, <2>2 DEF IInv, ActiveOK, HandlerPcs
  <2>4. (Claimed(r) => Claimed(r)') /\ \A q \in Requests : Claimed(q) => Claimed(q)'
    BY <1>3, <2>1, <1>0 DEF Claimed
  <2>6. \A c \in Cids : job[c].kind \in UploadKinds => job[c].by # r
    BY <2>1, NoUploadJob
  <2>7. pc'[r] \in LockedPcs =>
          /\ \A q \in Requests \ {r} : pc[q] \in LockedPcs => files'[r] \cap files[q] = {}
          /\ \A c \in files'[r] : job[c].kind \notin OwnKinds
    BY <2>1 DEF LockedPcs
  <2>8. pc'[r] \in {"admitting", "restoring", "undoing", "settling", "clearing"}
          => todo'[r] \subseteq files'[r]
    BY <1>5, <2>1, <1>0 DEF ImportFiles, TypeOK
  <2>9. Registered(r)' \subseteq Registered(r)
    BY <2>1 DEF Registered
  <2>10. BaselinesOK'
    BY <1>4, <2>4, BaselinesKept
  <2>11. pc[r] # "done" /\ pc'[r] # "restoring"
    BY <2>1
  <2> QED
    BY <1>1, <1>2, <1>3, <2>3, <2>4, <2>6, <2>7, <2>8, <2>9, <2>10, <2>11, RequestStep
<1>6. CASE DisconnectUpload(r)
  <2>1. pc[r] = "imported" /\ pc'[r] \in {"aborting"}
    BY <1>6, <1>0 DEF DisconnectUpload, TypeOK
  <2>2. active' = active
    BY <1>6 DEF DisconnectUpload, uploadVars
  <2>3. r \in active' <=> pc'[r] \in HandlerPcs
    BY <2>1, <2>2 DEF IInv, ActiveOK, HandlerPcs
  <2>4. (Claimed(r) => Claimed(r)') /\ \A q \in Requests : Claimed(q) => Claimed(q)'
    BY <1>3, <2>1, <1>0 DEF Claimed
  <2>6. \A c \in Cids : job[c].kind \in UploadKinds => job[c].by # r
    BY <2>1, NoUploadJob
  <2>7. pc'[r] \in LockedPcs =>
          /\ \A q \in Requests \ {r} : pc[q] \in LockedPcs => files'[r] \cap files[q] = {}
          /\ \A c \in files'[r] : job[c].kind \notin OwnKinds
    BY <2>1 DEF LockedPcs
  <2>8. pc'[r] \in {"admitting", "restoring", "undoing", "settling", "clearing"}
          => todo'[r] \subseteq files'[r]
    BY <1>6, <2>1, <1>0 DEF DisconnectUpload, TypeOK
  <2>9. Registered(r)' \subseteq Registered(r)
    BY <2>1 DEF Registered
  <2>10. BaselinesOK'
    BY <1>4, <2>4, BaselinesKept
  <2>11. pc[r] # "done" /\ pc'[r] # "restoring"
    BY <2>1
  <2> QED
    BY <1>1, <1>2, <1>3, <2>3, <2>4, <2>6, <2>7, <2>8, <2>9, <2>10, <2>11, RequestStep
<1>7. CASE ClaimUpload(r)
  <2>1. pc[r] = "imported" /\ pc'[r] \in {"admitting"}
    BY <1>7, <1>0 DEF ClaimUpload, TypeOK
  <2>2. active' = active \cup {r}
    BY <1>7 DEF ClaimUpload, uploadVars
  <2>3. r \in active' <=> pc'[r] \in HandlerPcs
    BY <2>1, <2>2 DEF IInv, ActiveOK, HandlerPcs
  <2>4. (Claimed(r) => Claimed(r)') /\ \A q \in Requests : Claimed(q) => Claimed(q)'
    BY <1>3, <2>1, <1>0 DEF Claimed
  <2>6. \A c \in Cids : job[c].kind \in UploadKinds => job[c].by # r
    BY <2>1, NoUploadJob
  <2>7. pc'[r] \in LockedPcs =>
          /\ \A q \in Requests \ {r} : pc[q] \in LockedPcs => files'[r] \cap files[q] = {}
          /\ \A c \in files'[r] : job[c].kind \notin OwnKinds
    <3>1. files[r] \in SUBSET Cids /\ files'[r] = files[r] /\ \A c \in files[r] : Unlocked(c)
      BY <1>7, <1>0 DEF ClaimUpload, TypeOK, AllUnlocked
    <3> QED BY <3>1, LocksTaken
  <2>8. pc'[r] \in {"admitting", "restoring", "undoing", "settling", "clearing"}
          => todo'[r] \subseteq files'[r]
    BY <1>7, <2>1, <1>0 DEF ClaimUpload, TypeOK
  <2>9. Registered(r)' \subseteq Registered(r)
    BY <1>7, <2>1, <1>0 DEF Registered, ClaimUpload, TypeOK
  <2>10. BaselinesOK'
    BY <1>4, <2>4, BaselinesKept
  <2>11. pc[r] # "done" /\ pc'[r] # "restoring"
    BY <2>1
  <2> QED
    BY <1>1, <1>2, <1>3, <2>3, <2>4, <2>6, <2>7, <2>8, <2>9, <2>10, <2>11, RequestStep
<1>8. CASE CleanUpSession(r)
  <2>1. pc[r] = "restoring" /\ pc'[r] \in {"cleaning"}
    BY <1>8, <1>0 DEF CleanUpSession, TypeOK
  <2>2. active' = active
    BY <1>8 DEF CleanUpSession, uploadVars
  <2>3. r \in active' <=> pc'[r] \in HandlerPcs
    BY <2>1, <2>2 DEF IInv, ActiveOK, HandlerPcs
  <2>4. (Claimed(r) => Claimed(r)') /\ \A q \in Requests : Claimed(q) => Claimed(q)'
    BY <1>3, <2>1, <1>0 DEF Claimed
  <2>5. todo[r] = {}
    BY <1>8 DEF CleanUpSession
  <2>6. \A c \in Cids : job[c].kind \in UploadKinds => job[c].by # r
    BY <2>1, <2>5, NoUploadJob
  <2>7. pc'[r] \in LockedPcs =>
          /\ \A q \in Requests \ {r} : pc[q] \in LockedPcs => files'[r] \cap files[q] = {}
          /\ \A c \in files'[r] : job[c].kind \notin OwnKinds
    BY <1>8, <2>1, LocksStill DEF CleanUpSession, LockedPcs
  <2>8. pc'[r] \in {"admitting", "restoring", "undoing", "settling", "clearing"}
          => todo'[r] \subseteq files'[r]
    BY <1>8, <2>1, <1>0 DEF CleanUpSession, TypeOK
  <2>9. Registered(r)' \subseteq Registered(r)
    BY <2>1 DEF Registered
  <2>10. BaselinesOK'
    BY <1>4, <2>4, BaselinesKept
  <2>11. pc[r] # "done" /\ pc'[r] # "restoring"
    BY <2>1
  <2> QED
    BY <1>1, <1>2, <1>3, <2>3, <2>4, <2>6, <2>7, <2>8, <2>9, <2>10, <2>11, RequestStep
<1>9. CASE CommitSession(r)
  <2>1. pc[r] = "admitting" /\ pc'[r] \in {"placing"}
    BY <1>9, <1>0 DEF CommitSession, TypeOK
  <2>2. active' = active
    BY <1>9 DEF CommitSession, uploadVars
  <2>3. r \in active' <=> pc'[r] \in HandlerPcs
    BY <2>1, <2>2 DEF IInv, ActiveOK, HandlerPcs
  <2>4. (Claimed(r) => Claimed(r)') /\ \A q \in Requests : Claimed(q) => Claimed(q)'
    BY <1>3, <2>1, <1>0 DEF Claimed
  <2>5. todo[r] = {}
    BY <1>9 DEF CommitSession
  <2>6. \A c \in Cids : job[c].kind \in UploadKinds => job[c].by # r
    BY <2>1, <2>5, NoUploadJob
  <2>7. pc'[r] \in LockedPcs =>
          /\ \A q \in Requests \ {r} : pc[q] \in LockedPcs => files'[r] \cap files[q] = {}
          /\ \A c \in files'[r] : job[c].kind \notin OwnKinds
    BY <2>1 DEF LockedPcs
  <2>8. pc'[r] \in {"admitting", "restoring", "undoing", "settling", "clearing"}
          => todo'[r] \subseteq files'[r]
    BY <1>9, <2>1, <1>0 DEF CommitSession, TypeOK
  <2>9. Registered(r)' \subseteq Registered(r)
    BY <1>9, <2>1, <2>5 DEF Registered, CommitSession
  <2>10. BaselinesOK'
    BY <1>4, <2>4, BaselinesKept
  <2>11. pc[r] # "done" /\ pc'[r] # "restoring"
    BY <2>1
  <2> QED
    BY <1>1, <1>2, <1>3, <2>3, <2>4, <2>6, <2>7, <2>8, <2>9, <2>10, <2>11, RequestStep
<1>10. CASE PlaceReplicas(r)
  <2>1. pc[r] = "placing" /\ pc'[r] \in {"finalizing", "rollback"}
    BY <1>10, <1>0 DEF PlaceReplicas, TypeOK
  <2>2. active' = active
    BY <1>10 DEF PlaceReplicas, uploadVars
  <2>3. r \in active' <=> pc'[r] \in HandlerPcs
    BY <2>1, <2>2 DEF IInv, ActiveOK, HandlerPcs
  <2>4. (Claimed(r) => Claimed(r)') /\ \A q \in Requests : Claimed(q) => Claimed(q)'
    BY <1>3, <2>1, <1>0 DEF Claimed
  <2>6. \A c \in Cids : job[c].kind \in UploadKinds => job[c].by # r
    BY <2>1, NoUploadJob
  <2>7. pc'[r] \in LockedPcs =>
          /\ \A q \in Requests \ {r} : pc[q] \in LockedPcs => files'[r] \cap files[q] = {}
          /\ \A c \in files'[r] : job[c].kind \notin OwnKinds
    BY <2>1 DEF LockedPcs
  <2>8. pc'[r] \in {"admitting", "restoring", "undoing", "settling", "clearing"}
          => todo'[r] \subseteq files'[r]
    BY <1>10, <2>1, <1>0 DEF PlaceReplicas, TypeOK
  <2>9. Registered(r)' \subseteq Registered(r)
    BY <1>10, <2>1 DEF Registered, PlaceReplicas
  <2>10. BaselinesOK'
    BY <1>4, <2>4, BaselinesKept
  <2>11. pc[r] # "done" /\ pc'[r] # "restoring"
    BY <2>1
  <2> QED
    BY <1>1, <1>2, <1>3, <2>3, <2>4, <2>6, <2>7, <2>8, <2>9, <2>10, <2>11, RequestStep
<1>11. CASE RollbackAdmitted(r)
  <2>1. pc[r] = "rollback" /\ pc'[r] \in {"undoing"}
    BY <1>11, <1>0 DEF RollbackAdmitted, TypeOK
  <2>2. active' = active
    BY <1>11 DEF RollbackAdmitted, uploadVars
  <2>3. r \in active' <=> pc'[r] \in HandlerPcs
    BY <2>1, <2>2 DEF IInv, ActiveOK, HandlerPcs
  <2>4. (Claimed(r) => Claimed(r)') /\ \A q \in Requests : Claimed(q) => Claimed(q)'
    BY <1>3, <2>1, <1>0 DEF Claimed
  <2>6. \A c \in Cids : job[c].kind \in UploadKinds => job[c].by # r
    BY <2>1, NoUploadJob
  <2>7. pc'[r] \in LockedPcs =>
          /\ \A q \in Requests \ {r} : pc[q] \in LockedPcs => files'[r] \cap files[q] = {}
          /\ \A c \in files'[r] : job[c].kind \notin OwnKinds
    <3>1. files[r] \in SUBSET Cids /\ files'[r] = files[r] /\ \A c \in files[r] : Unlocked(c)
      BY <1>11, <1>0 DEF RollbackAdmitted, TypeOK, AllUnlocked
    <3> QED BY <3>1, LocksTaken
  <2>8. pc'[r] \in {"admitting", "restoring", "undoing", "settling", "clearing"}
          => todo'[r] \subseteq files'[r]
    BY <1>11, <2>1, <1>0 DEF RollbackAdmitted, TypeOK
  <2>9. Registered(r)' \subseteq Registered(r)
    BY <2>1 DEF Registered
  <2>10. BaselinesOK'
    BY <1>4, <2>4, BaselinesKept
  <2>11. pc[r] # "done" /\ pc'[r] # "restoring"
    BY <2>1
  <2> QED
    BY <1>1, <1>2, <1>3, <2>3, <2>4, <2>6, <2>7, <2>8, <2>9, <2>10, <2>11, RequestStep
<1>12. CASE FinalizeAdmitted(r)
  <2>1. pc[r] = "finalizing" /\ pc'[r] \in {"settling", "rollback"}
    BY <1>12, <1>0 DEF FinalizeAdmitted, TypeOK
  <2>2. active' = active
    BY <1>12 DEF FinalizeAdmitted, uploadVars
  <2>3. r \in active' <=> pc'[r] \in HandlerPcs
    BY <2>1, <2>2 DEF IInv, ActiveOK, HandlerPcs
  <2>4. (Claimed(r) => Claimed(r)') /\ \A q \in Requests : Claimed(q) => Claimed(q)'
    BY <1>3, <2>1, <1>0 DEF Claimed
  <2>6. \A c \in Cids : job[c].kind \in UploadKinds => job[c].by # r
    BY <2>1, NoUploadJob
  <2>7. pc'[r] \in LockedPcs =>
          /\ \A q \in Requests \ {r} : pc[q] \in LockedPcs => files'[r] \cap files[q] = {}
          /\ \A c \in files'[r] : job[c].kind \notin OwnKinds
    <3>1. files[r] \in SUBSET Cids /\ files'[r] = files[r] /\ \A c \in files[r] : Unlocked(c)
      BY <1>12, <1>0 DEF FinalizeAdmitted, TypeOK, AllUnlocked
    <3> QED BY <3>1, LocksTaken
  <2>8. pc'[r] \in {"admitting", "restoring", "undoing", "settling", "clearing"}
          => todo'[r] \subseteq files'[r]
    BY <1>12, <2>1, <1>0 DEF FinalizeAdmitted, TypeOK
  <2>9. Registered(r)' \subseteq Registered(r)
    BY <1>12, <2>1 DEF Registered, FinalizeAdmitted
  <2>10. BaselinesOK'
    BY <1>4, <2>4, BaselinesKept
  <2>11. pc[r] # "done" /\ pc'[r] # "restoring"
    BY <2>1
  <2> QED
    BY <1>1, <1>2, <1>3, <2>3, <2>4, <2>6, <2>7, <2>8, <2>9, <2>10, <2>11, RequestStep
<1>13. CASE FinalizeFails(r)
  <2>1. pc[r] = "finalizing" /\ pc'[r] \in {"undoing"}
    BY <1>13, <1>0 DEF FinalizeFails, TypeOK
  <2>2. active' = active
    BY <1>13 DEF FinalizeFails, uploadVars
  <2>3. r \in active' <=> pc'[r] \in HandlerPcs
    BY <2>1, <2>2 DEF IInv, ActiveOK, HandlerPcs
  <2>4. (Claimed(r) => Claimed(r)') /\ \A q \in Requests : Claimed(q) => Claimed(q)'
    BY <1>3, <2>1, <1>0 DEF Claimed
  <2>6. \A c \in Cids : job[c].kind \in UploadKinds => job[c].by # r
    BY <2>1, NoUploadJob
  <2>7. pc'[r] \in LockedPcs =>
          /\ \A q \in Requests \ {r} : pc[q] \in LockedPcs => files'[r] \cap files[q] = {}
          /\ \A c \in files'[r] : job[c].kind \notin OwnKinds
    <3>1. files[r] \in SUBSET Cids /\ files'[r] = files[r] /\ \A c \in files[r] : Unlocked(c)
      BY <1>13, <1>0 DEF FinalizeFails, TypeOK, AllUnlocked
    <3> QED BY <3>1, LocksTaken
  <2>8. pc'[r] \in {"admitting", "restoring", "undoing", "settling", "clearing"}
          => todo'[r] \subseteq files'[r]
    BY <1>13, <2>1, <1>0 DEF FinalizeFails, TypeOK
  <2>9. Registered(r)' \subseteq Registered(r)
    BY <2>1 DEF Registered
  <2>10. BaselinesOK'
    BY <1>4, <2>4, BaselinesKept
  <2>11. pc[r] # "done" /\ pc'[r] # "restoring"
    BY <2>1
  <2> QED
    BY <1>1, <1>2, <1>3, <2>3, <2>4, <2>6, <2>7, <2>8, <2>9, <2>10, <2>11, RequestStep
<1>14. CASE SettledUpload(r)
  <2>1. pc[r] = "settling" /\ pc'[r] \in {"committing"}
    BY <1>14, <1>0 DEF SettledUpload, TypeOK
  <2>2. active' = active
    BY <1>14 DEF SettledUpload, uploadVars
  <2>3. r \in active' <=> pc'[r] \in HandlerPcs
    BY <2>1, <2>2 DEF IInv, ActiveOK, HandlerPcs
  <2>4. (Claimed(r) => Claimed(r)') /\ \A q \in Requests : Claimed(q) => Claimed(q)'
    BY <1>3, <2>1, <1>0 DEF Claimed
  <2>6. \A c \in Cids : job[c].kind \in UploadKinds => job[c].by # r
    BY <2>1, NoUploadJob
  <2>7. pc'[r] \in LockedPcs =>
          /\ \A q \in Requests \ {r} : pc[q] \in LockedPcs => files'[r] \cap files[q] = {}
          /\ \A c \in files'[r] : job[c].kind \notin OwnKinds
    BY <2>1 DEF LockedPcs
  <2>8. pc'[r] \in {"admitting", "restoring", "undoing", "settling", "clearing"}
          => todo'[r] \subseteq files'[r]
    BY <1>14, <2>1, <1>0 DEF SettledUpload, TypeOK
  <2>9. Registered(r)' \subseteq Registered(r)
    BY <1>14, <2>1 DEF Registered, SettledUpload
  <2>10. BaselinesOK'
    BY <1>4, <2>4, BaselinesKept
  <2>11. pc[r] # "done" /\ pc'[r] # "restoring"
    BY <2>1
  <2> QED
    BY <1>1, <1>2, <1>3, <2>3, <2>4, <2>6, <2>7, <2>8, <2>9, <2>10, <2>11, RequestStep
<1>15. CASE CommitUpload(r)
  <2>1. pc[r] = "committing" /\ pc'[r] \in {"clearing"}
    BY <1>15, <1>0 DEF CommitUpload, TypeOK
  <2>2. active' = active
    BY <1>15 DEF CommitUpload, uploadVars
  <2>3. r \in active' <=> pc'[r] \in HandlerPcs
    BY <2>1, <2>2 DEF IInv, ActiveOK, HandlerPcs
  <2>4. (Claimed(r) => Claimed(r)') /\ \A q \in Requests : Claimed(q) => Claimed(q)'
    BY <1>3, <2>1, <1>0 DEF Claimed
  <2>6. \A c \in Cids : job[c].kind \in UploadKinds => job[c].by # r
    BY <2>1, NoUploadJob
  <2>7. pc'[r] \in LockedPcs =>
          /\ \A q \in Requests \ {r} : pc[q] \in LockedPcs => files'[r] \cap files[q] = {}
          /\ \A c \in files'[r] : job[c].kind \notin OwnKinds
    <3>1. files'[r] \in SUBSET Cids /\ \A c \in files'[r] : Unlocked(c)
      BY <1>15, <1>0 DEF CommitUpload, TypeOK
    <3> QED BY <3>1, LocksTaken
  <2>8. pc'[r] \in {"admitting", "restoring", "undoing", "settling", "clearing"}
          => todo'[r] \subseteq files'[r]
    BY <1>15, <2>1, <1>0 DEF CommitUpload, TypeOK
  <2>9. Registered(r)' \subseteq Registered(r)
    BY <2>1 DEF Registered
  <2>10. BaselinesOK'
    BY <1>4, <2>4, BaselinesKept
  <2>11. pc[r] # "done" /\ pc'[r] # "restoring"
    BY <2>1
  <2> QED
    BY <1>1, <1>2, <1>3, <2>3, <2>4, <2>6, <2>7, <2>8, <2>9, <2>10, <2>11, RequestStep
<1>16. CASE EndUpload(r)
  <2>1. pc[r] \in {"aborting", "cleaning", "undoing", "clearing"} /\ pc'[r] \in {"done"}
    BY <1>16, <1>0 DEF EndUpload, finish, TypeOK
  <2>2. active' = active \ {r}
    BY <1>16 DEF EndUpload, finish, uploadVars
  <2>3. r \in active' <=> pc'[r] \in HandlerPcs
    BY <2>1, <2>2 DEF IInv, ActiveOK, HandlerPcs
  <2>4. (Claimed(r) => Claimed(r)') /\ \A q \in Requests : Claimed(q) => Claimed(q)'
    BY <1>3, <2>1, <1>0 DEF Claimed
  <2>5. todo[r] = {}
    BY <1>16 DEF EndUpload
  <2>6. \A c \in Cids : job[c].kind \in UploadKinds => job[c].by # r
    BY <2>1, <2>5, NoUploadJob
  <2>7. pc'[r] \in LockedPcs =>
          /\ \A q \in Requests \ {r} : pc[q] \in LockedPcs => files'[r] \cap files[q] = {}
          /\ \A c \in files'[r] : job[c].kind \notin OwnKinds
    BY <2>1 DEF LockedPcs
  <2>8. pc'[r] \in {"admitting", "restoring", "undoing", "settling", "clearing"}
          => todo'[r] \subseteq files'[r]
    BY <1>16, <2>1, <1>0 DEF EndUpload, TypeOK
  <2>9. Registered(r)' \subseteq Registered(r)
    BY <2>1 DEF Registered
  <2>10. BaselinesOK'
    BY <1>4, <2>4, BaselinesKept
  <2>11. pc[r] # "done" /\ pc'[r] # "restoring"
    BY <2>1
  <2> QED
    BY <1>1, <1>2, <1>3, <2>3, <2>4, <2>6, <2>7, <2>8, <2>9, <2>10, <2>11, RequestStep
<1> QED
  BY <1>5, <1>6, <1>7, <1>8, <1>9, <1>10, <1>11, <1>12, <1>13, <1>14, <1>15, <1>16

-----------------------------------------------------------------------------
(* Steps of upload handlers on one file *)

LEMMA MarkPinIntentStep ==
  ASSUME IInv, TypeOK', NEW r \in Requests, NEW c \in Cids, MarkPinIntent(r, c)
  PROVE  IInv'
<1>1. /\ UNCHANGED <<rec, pin, pc, files, todo, baseline, active, repairing, repairToken,
                     gcPc, gcTodo, gcReleased, gcFresh>>
      /\ pc[r] = "admitting" /\ c \in todo[r] /\ NoJobOf(r)
  BY DEF MarkPinIntent, uploadVars, repairVars, gcVars, at
<1>2. /\ job'[c].kind = "intent" /\ job'[c].by = r /\ job'[c].next = rec[c]
      /\ job'[c].prev = rec[c] /\ job'[c].undoPin = "keep"
      /\ \A d \in Cids \ {c} : job'[d] = job[d]
  BY DEF MarkPinIntent, Pending, IInv, TypeOK
<1>3. c \in files[r]
  BY <1>1 DEF IInv, LocksOK
<1>4. RecordsOK(c)'
  BY <1>1, <1>2 DEF IInv, CidOK, RecordsOK, RecordOK, Claimed
<1>5. JobOK(c)'
  BY <1>1, <1>2, <1>3 DEF JobOK, OwnKinds
<1>6. RepairOK(c)'
  BY <1>1, <1>2 DEF IInv, CidOK, RepairOK, Kept, Durable
<1>7. OneJob'
  <2>1. ASSUME NEW d \in Cids \ {c}, job[d].kind \in UploadKinds PROVE job[d].by # r
    BY <1>1, <2>1 DEF IInv, CidOK, JobOK, NoJobOf, UploadKinds
  <2> QED BY <1>2, <2>1 DEF IInv, OneJob
<1>8. CollectorOK' /\ BaselinesOK'
  BY <1>1, <1>2 DEF IInv, CollectorOK, BaselinesOK, RecordOK, Claimed
<1>9. ASSUME NEW q \in Requests, c \in Registered(q)' PROVE Owns(q, c)'
  <2>1. c \in Registered(q)
    BY <1>1, <1>9 DEF Registered
  <2>2. Owns(q, c)
    BY <2>1 DEF IInv, Owned
  <2> QED BY <1>1, <1>2, <2>2 DEF Owns
<1>10. \A q \in Requests : pc[q] = "restoring" /\ c \in todo'[q] => rec'[c].adm = q
  BY <1>1 DEF IInv, RestoringOwned
<1> QED
  BY <1>1, <1>2, <1>4, <1>5, <1>6, <1>7, <1>8, <1>9, <1>10, LocalStep DEF CidOK

\* What an upload has registered, or a repair counts on, it does not replace.
LEMMA PinUploadStep ==
  ASSUME ConfigAssumption, IInv, TypeOK', NEW r \in Requests, NEW c \in Cids, PinUpload(r, c)
  PROVE  IInv'
<1>1. /\ UNCHANGED <<rec, pc, files, todo, baseline, active, repairing, repairToken,
                     gcPc, gcTodo, gcReleased, gcFresh>>
      /\ pc[r] = "admitting" /\ job[c].kind = "intent" /\ job[c].by = r
      /\ c \in pin' /\ \A d \in Cids \ {c} : d \in pin' <=> d \in pin
  BY DEF PinUpload, pinFile, repairVars, gcVars, at
<1>2. /\ job'[c].by = r /\ job'[c].prev = rec[c] /\ job'[c].undoPin = undoCreated(c)
      /\ job'[c].kind = (IF registerBusy(c, r) THEN "busy" ELSE "admit")
      /\ job'[c].next = IF registerBusy(c, r) THEN rec[c]
                        ELSE registered(c, r, ConfirmationRequired)
      /\ \A d \in Cids \ {c} : job'[d] = job[d]
  BY DEF PinUpload, Pending, IInv, TypeOK
<1>3. c \in files[r] /\ c \in todo[r] /\ RecordOK(rec[c]) /\ r # NoReq /\ rec[c] \in Record
  BY <1>1 DEF IInv, CidOK, JobOK, UploadKinds, RecordsOK, ConfigAssumption, TypeOK
<1>4. RecordOK(job'[c].next)
  <2>1. RecordOK(registered(c, r, ConfirmationRequired))
    BY <1>1, <1>3 DEF registered, RecordOK, Claimed
  <2> QED BY <1>2, <1>3, <2>1
<1>5. RecordsOK(c)'
  BY <1>1, <1>2, <1>3, <1>4 DEF RecordsOK, RecordOK, Claimed
<1>6. JobOK(c)'
  <2>1. ~registerBusy(c, r) => job'[c].next.adm = r /\ (Durable(rec[c]) => Durable(job'[c].next))
    BY <1>2, <1>3 DEF registered, Durable
  <2> QED BY <1>1, <1>2, <1>3, <2>1 DEF JobOK, OwnKinds, UploadKinds, Durable
<1>7. RepairOK(c)'
  <2>1. c \in repairing => registerBusy(c, r)
    BY DEF registerBusy
  <2> QED BY <1>1, <1>2, <2>1 DEF IInv, CidOK, RepairOK, Kept, Durable
<1>8. OneJob'
  BY <1>1, <1>2 DEF IInv, OneJob, UploadKinds
<1>9. CollectorOK' /\ BaselinesOK'
  BY <1>1, <1>2 DEF IInv, CollectorOK, BaselinesOK, RecordOK, Claimed
<1>10. ASSUME NEW q \in Requests, c \in Registered(q)' PROVE Owns(q, c)'
  <2>1. c \in Registered(q)
    BY <1>1, <1>10 DEF Registered
  <2>2. Owns(q, c) /\ q \in active /\ rec[c].adm = q /\ rec[c].stage = {}
    BY <2>1, OwnerActive DEF Owns
  <2>3. q # r
    BY <1>1, <1>3, <2>1 DEF Registered
  <2>4. registerBusy(c, r) /\ undoCreated(c) = "keep" /\ q # NoReq
    BY <1>3, <2>2, <2>3 DEF registerBusy, undoCreated, Owns, ConfigAssumption
  <2> QED BY <1>1, <1>2, <2>2, <2>4 DEF Owns
<1>11. \A q \in Requests : pc[q] = "restoring" /\ c \in todo'[q] => rec'[c].adm = q
  BY <1>1 DEF IInv, RestoringOwned
<1> QED
  BY <1>1, <1>2, <1>5, <1>6, <1>7, <1>8, <1>9, <1>10, <1>11, LocalStep DEF CidOK

LEMMA RegisterUploadStep ==
  ASSUME ConfigAssumption, IInv, TypeOK', NEW r \in Requests, NEW c \in Cids,
         RegisterUpload(r, c)
  PROVE  IInv' /\ (Durable(rec[c]) => Durable(rec'[c]))
<1>1. /\ UNCHANGED <<pin, pc, files, active, repairing, repairToken, gcPc, gcTodo, gcReleased>>
      /\ pc[r] = "admitting" /\ job[c].kind = "admit" /\ job[c].by = r
      /\ gcFresh' = gcFresh \ {c}
  BY DEF RegisterUpload, save, repairVars, at
<1>2. /\ rec'[c] = job[c].next /\ job'[c].kind = "none" /\ todo'[r] = todo[r] \ {c}
      /\ job'[c].next = Absent /\ job'[c].prev = Absent
      /\ \A d \in Cids \ {c} : job'[d] = job[d] /\ rec'[d] = rec[d]
      /\ \A q \in Requests \ {r} : todo'[q] = todo[q]
  BY DEF RegisterUpload, save, NoJob, IInv, TypeOK
<1>3. \A q \in Requests, d \in Cids : baseline'[q][d] \in {baseline[q][d], job[c].prev}
  BY DEF RegisterUpload, IInv, TypeOK
<1>4. JobOK(c) /\ RecordsOK(c) /\ RepairOK(c)
  BY DEF IInv, CidOK
<1>5. c \in files[r] /\ c \in todo[r] /\ c \in pin /\ job[c].next.adm = r
  BY <1>1, <1>4 DEF JobOK, UploadKinds
<1>6. CidOK(c)'
  <2>1. RecordsOK(c)'
    BY <1>1, <1>2, <1>4, AbsentOK DEF RecordsOK, RecordOK, Claimed
  <2>2. JobOK(c)'
    BY <1>2 DEF JobOK, UploadKinds, OwnKinds
  <2>3. RepairOK(c)'
    BY <1>1, <1>2, <1>4 DEF RepairOK, Kept, Durable
  <2> QED BY <2>1, <2>2, <2>3 DEF CidOK
<1>7. OneJob'
  BY <1>2 DEF IInv, OneJob, UploadKinds
<1>8. CollectorOK'
  <2>1. CollectorOK /\ gcReleased \subseteq Cids
    BY DEF IInv, TypeOK
  <2> QED BY <1>1, <1>2, <2>1, CollectorWrite
<1>9. BaselinesOK'
  BY <1>1, <1>3, <1>4 DEF IInv, BaselinesOK, RecordsOK, RecordOK, Claimed
<1>10. ASSUME NEW q \in Requests, c \in Registered(q)' PROVE Owns(q, c)'
  <2>1. CASE q = r
    <3>1. rec'[c].pinned /\ rec'[c].held
      BY <1>2, <1>4, <1>5 DEF RecordsOK, RecordOK, ConfigAssumption
    <3> QED BY <1>1, <1>2, <1>5, <2>1, <3>1 DEF Owns
  <2>2. CASE q # r
    <3>1. c \in Registered(q)
      BY <1>1, <1>2, <1>10, <2>2 DEF Registered
    <3>2. Owns(q, c)
      BY <3>1 DEF IInv, Owned
    <3> QED BY <1>1, <1>5, <2>2, <3>2 DEF Owns
  <2> QED BY <2>1, <2>2
<1>11. ASSUME NEW q \in Requests, pc[q] = "restoring", c \in todo'[q] PROVE rec'[c].adm = q
  BY <1>1, <1>2, <1>5, <1>11 DEF IInv, LocksOK, LockedPcs
<1>12. IInv'
  BY <1>1, <1>2, <1>6, <1>7, <1>8, <1>9, <1>10, <1>11, LocalStep
<1> QED BY <1>1, <1>2, <1>4, <1>12 DEF JobOK

LEMMA RefuseUploadStep ==
  ASSUME IInv, TypeOK', NEW r \in Requests, NEW c \in Cids, RefuseUpload(r, c)
  PROVE  IInv'
<1>1. /\ UNCHANGED <<rec, pc, files, todo, baseline, active, repairing, repairToken,
                     gcPc, gcTodo, gcReleased, gcFresh>>
      /\ pc[r] = "admitting" /\ job[c].kind = "busy" /\ job[c].by = r
      /\ \A d \in Cids \ {c} : d \in pin' <=> d \in pin
      /\ job[c].undoPin # "unpin" => pin' = pin
  BY DEF RefuseUpload, unpinFile, uploadVars, repairVars, gcVars, at
<1>2. /\ job'[c].kind = "refused" /\ job'[c].by = r /\ job'[c].undoPin = "keep"
      /\ job'[c].next = job[c].next /\ job'[c].prev = job[c].prev
      /\ \A d \in Cids \ {c} : job'[d] = job[d]
  BY <1>1 DEF RefuseUpload, IInv, TypeOK, Job
<1>3. JobOK(c) /\ RecordsOK(c) /\ RepairOK(c)
  BY DEF IInv, CidOK
<1>4. CidOK(c)'
  <2>1. RecordsOK(c)'
    BY <1>1, <1>2, <1>3 DEF RecordsOK, RecordOK, Claimed
  <2>2. JobOK(c)'
    BY <1>1, <1>2, <1>3 DEF JobOK, UploadKinds, OwnKinds
  <2>3. RepairOK(c)'
    BY <1>1, <1>2, <1>3 DEF RepairOK, Kept, Durable
  <2> QED BY <2>1, <2>2, <2>3 DEF CidOK
<1>5. OneJob'
  BY <1>1, <1>2 DEF IInv, OneJob, UploadKinds
<1>6. CollectorOK' /\ BaselinesOK'
  BY <1>1, <1>2 DEF IInv, CollectorOK, BaselinesOK, RecordOK, Claimed
<1>7. ASSUME NEW q \in Requests, c \in Registered(q)' PROVE Owns(q, c)'
  <2>1. c \in Registered(q)
    BY <1>1, <1>7 DEF Registered
  <2>2. Owns(q, c)
    BY <2>1 DEF IInv, Owned
  <2> QED BY <1>1, <1>2, <2>2 DEF Owns
<1>8. \A q \in Requests : pc[q] = "restoring" /\ c \in todo'[q] => rec'[c].adm = q
  BY <1>1 DEF IInv, RestoringOwned
<1> QED
  BY <1>1, <1>2, <1>4, <1>5, <1>6, <1>7, <1>8, LocalStep

\* The record of the refused file is put back; the files before it are still
\* the request's, and are restored next.
LEMMA RestoreRefusedStep ==
  ASSUME ConfigAssumption, IInv, TypeOK', NEW r \in Requests, NEW c \in Cids,
         RestoreRefused(r, c)
  PROVE  IInv'
<1>1. /\ UNCHANGED <<pin, files, baseline, active, repairing, repairToken, gcPc, gcTodo,
                     gcReleased>>
      /\ pc[r] = "admitting" /\ job[c].kind = "refused" /\ job[c].by = r
      /\ gcFresh' = gcFresh \ {c}
  BY DEF RestoreRefused, save, repairVars, at
<1>2. /\ rec'[c] = job[c].prev /\ job'[c] = NoJob
      /\ pc'[r] = "restoring" /\ todo'[r] = files[r] \ todo[r]
      /\ \A d \in Cids \ {c} : job'[d] = job[d] /\ rec'[d] = rec[d]
      /\ \A q \in Requests \ {r} : todo'[q] = todo[q] /\ pc'[q] = pc[q]
  BY DEF RestoreRefused, save, goto, IInv, TypeOK
<1>3. TypeOK /\ JobOK(c) /\ RecordsOK(c) /\ RepairOK(c)
  BY DEF IInv, CidOK
<1>4. c \in files[r] /\ c \in todo[r]
  BY <1>1, <1>3 DEF JobOK, UploadKinds
<1>5. \A q \in Requests : Claimed(q) => Claimed(q)'
  BY <1>1, <1>2 DEF Claimed
<1>6. BaselinesOK'
  BY <1>1, <1>5, BaselinesKept
<1>7. ActiveOK' /\ LocksOK' /\ RepairTokensDone'
  <2>1. ActiveOK'
    BY <1>1, <1>2 DEF IInv, ActiveOK, HandlerPcs
  <2>2. LocksOK'
    BY <1>1, <1>2 DEF IInv, LocksOK, LockedPcs
  <2>3. RepairTokensDone'
    BY <1>1, <1>2, <1>3 DEF IInv, RepairTokensDone, TypeOK, Tokens
  <2> QED BY <2>1, <2>2, <2>3
<1>8. ASSUME NEW d \in Cids PROVE CidOK(d)'
  <2>1. CASE d = c
    <3>1. job'[c].kind = "none" /\ job'[c].next = Absent /\ job'[c].prev = Absent
      BY <1>2 DEF NoJob
    <3>2. RecordsOK(c)'
      <4>1. job[c].prev \in Record /\ RecordOK(job[c].prev)
        BY <1>3 DEF RecordsOK, TypeOK, Job
      <4>2. RecordOK(rec[c])'
        BY <1>2, <1>5, <4>1 DEF RecordOK, Claimed, Record, Tokens
      <4>3. RecordOK(job[c].next)' /\ RecordOK(job[c].prev)'
        BY <3>1 DEF RecordOK, Claimed, Absent
      <4> QED BY <4>2, <4>3 DEF RecordsOK
    <3>3. JobOK(c)' /\ RepairOK(c)'
      BY <1>1, <1>2, <1>3, <3>1 DEF JobOK, UploadKinds, OwnKinds, RepairOK, Kept, Durable
    <3> QED BY <2>1, <3>2, <3>3 DEF CidOK
  <2>2. CASE d # c
    <3>1. RecordsOK(d) /\ JobOK(d) /\ RepairOK(d) /\ rec'[d] = rec[d] /\ job'[d] = job[d]
      BY <1>2, <2>2 DEF IInv, CidOK
    <3>2. RecordsOK(d)'
      <4>1. rec[d] \in Record /\ job[d].next \in Record /\ job[d].prev \in Record
        BY <1>3 DEF TypeOK, Job
      <4> QED BY <1>3, <1>5, <3>1, <4>1, ClaimedLater DEF RecordsOK
    <3>3. HeldByUpload(d)' => HeldByUpload(d)
      BY <1>1, <1>2 DEF HeldByUpload, LockedPcs
    <3>4. job[d].kind \in UploadKinds => job[d].by # r
      BY <1>1, <2>2 DEF IInv, OneJob, UploadKinds
    <3>5. JobOK(d)'
      BY <1>1, <1>2, <3>1, <3>3, <3>4 DEF JobOK
    <3>6. RepairOK(d)'
      BY <1>1, <3>1 DEF RepairOK, Kept
    <3> QED BY <3>2, <3>5, <3>6 DEF CidOK
  <2> QED BY <2>1, <2>2
<1>9. OneJob'
  BY <1>2 DEF IInv, OneJob, UploadKinds, NoJob
<1>10. RestoringOwned'
  <2> SUFFICES ASSUME NEW q \in Requests, NEW d \in Cids, pc'[q] = "restoring", d \in todo'[q]
               PROVE  rec'[d].adm = q
    BY DEF RestoringOwned
  <2>1. CASE q = r
    <3>1. d \in Registered(r) /\ d # c
      BY <1>1, <1>2, <1>4, <2>1 DEF Registered
    <3>2. Owns(r, d)
      BY <3>1 DEF IInv, Owned
    <3> QED BY <1>2, <2>1, <3>1, <3>2 DEF Owns
  <2>2. CASE q # r
    <3>1. d # c
      BY <1>1, <1>2, <1>4, <2>2 DEF IInv, LocksOK, LockedPcs
    <3> QED BY <1>2, <2>2, <3>1 DEF IInv, RestoringOwned
  <2> QED BY <2>1, <2>2
<1>11. Owned'
  <2> SUFFICES ASSUME NEW q \in Requests, NEW d \in Registered(q)' PROVE Owns(q, d)'
    BY DEF Owned
  <2>1. q # r
    BY <1>2 DEF Registered
  <2>2. d \in Registered(q)
    BY <1>1, <1>2, <2>1 DEF Registered
  <2>3. Owns(q, d) /\ d \in Cids
    BY <2>2, <1>3, RegisteredCids DEF IInv, Owned
  <2>4. CASE d = c
    <3>1. job[c].prev.adm = q /\ q # NoReq
      BY <1>1, <2>3, <2>4 DEF Owns, ConfigAssumption
    <3>2. job[c].prev.pinned /\ job[c].prev.held
      BY <1>3, <3>1 DEF RecordsOK, RecordOK
    <3> QED BY <1>1, <1>2, <2>3, <2>4, <3>1, <3>2 DEF Owns, NoJob
  <2>5. CASE d # c
    BY <1>1, <1>2, <2>3, <2>5 DEF Owns
  <2> QED BY <2>4, <2>5
<1>12. CollectorOK'
  <2>1. job'[c].kind = "none"
    BY <1>2 DEF NoJob
  <2>2. \A d \in Cids \ {c} : job'[d] = job[d] /\ rec'[d] = rec[d]
    BY <1>2
  <2>3. CollectorOK /\ gcReleased \subseteq Cids
    BY DEF IInv, TypeOK
  <2> QED BY <1>1, <2>1, <2>2, <2>3, CollectorWrite
<1> QED
  BY <1>6, <1>7, <1>8, <1>9, <1>10, <1>11, <1>12 DEF IInv

\* A file that a handler restores is its own: nobody else owns it, and no
\* repair counts on it.
LEMMA OwnFile ==
  ASSUME ConfigAssumption, IInv, NEW r \in Requests, NEW c \in Cids, rec[c].adm = r,
         pc[r] \in {"restoring", "undoing", "clearing"}
  PROVE  /\ \A q \in Requests : c \notin Registered(q)
         /\ c \notin repairing
<1>1. ASSUME NEW q \in Requests, c \in Registered(q) PROVE FALSE
  <2>1. Owns(q, c)
    BY <1>1 DEF IInv, Owned
  <2>2. q = r
    BY <2>1 DEF Owns
  <2> QED BY <1>1, <2>2 DEF Registered
<1>2. ASSUME c \in repairing PROVE FALSE
  <2>1. r = repairToken[c] /\ r # NoReq
    BY <1>2 DEF IInv, CidOK, RepairOK, Kept, ConfigAssumption
  <2> QED BY <2>1 DEF IInv, RepairTokensDone
<1> QED BY <1>1, <1>2

LEMMA UndoUploadStep ==
  ASSUME ConfigAssumption, IInv, TypeOK', NEW r \in Requests, NEW c \in Cids,
         UndoUpload(r, c)
  PROVE  IInv'
<1>1. /\ UNCHANGED <<rec, pc, files, baseline, active, repairing, repairToken,
                     gcPc, gcTodo, gcReleased, gcFresh>>
      /\ pc[r] \in {"restoring", "undoing"} /\ c \in todo[r] /\ NoJobOf(r)
  BY DEF UndoUpload, repairVars, gcVars
<1>2. c \in files[r] /\ job[c].kind = "none" /\ TypeOK
  BY <1>1 DEF IInv, LocksOK, NoJobOf
<1>3. BaselinesOK'
  BY <1>1 DEF IInv, BaselinesOK, RecordOK, Claimed
<1>4. ASSUME NEW d \in Cids, job[d].kind \in UploadKinds PROVE job[d].by # r
  BY <1>1, <1>4 DEF IInv, CidOK, JobOK, NoJobOf, UploadKinds
<1>5. CASE UNCHANGED <<pin, blocks, job>> /\ todo' = [todo EXCEPT ![r] = @ \ {c}]
           /\ pc[r] = "undoing"
  <2>1. \A q \in Requests \ {r} : todo'[q] = todo[q]
    BY <1>2, <1>5 DEF TypeOK
  <2>2. todo'[r] = todo[r] \ {c}
    BY <1>2, <1>5 DEF TypeOK
  <2>3. CollectorOK'
    BY <1>1, <1>5 DEF IInv, CollectorOK
  <2>4. RecordsOK(c)' /\ RepairOK(c)' /\ JobOK(c)'
    BY <1>1, <1>2, <1>5 DEF IInv, CidOK, RecordsOK, RecordOK, Claimed, RepairOK, Kept,
                            JobOK, OwnKinds, UploadKinds
  <2>5. OneJob'
    BY <1>5 DEF IInv, OneJob
  <2>6. ASSUME NEW q \in Requests, c \in Registered(q)' PROVE Owns(q, c)'
    <3>1. c \in Registered(q)
      BY <1>1, <1>5, <2>1, <2>6 DEF Registered
    <3>2. Owns(q, c)
      BY <3>1 DEF IInv, Owned
    <3> QED BY <1>1, <1>5, <3>2 DEF Owns
  <2>7. \A q \in Requests : pc[q] = "restoring" /\ c \in todo'[q] => rec'[c].adm = q
    BY <1>1, <2>1, <2>2 DEF IInv, RestoringOwned
  <2> QED
    BY <1>1, <1>3, <1>5, <2>1, <2>2, <2>3, <2>4, <2>5, <2>6, <2>7, LocalStep DEF CidOK
<1>6. CASE /\ pc[r] = "restoring" \/ rec[c].adm = r
           /\ IF unpinOnRollback(r, c) THEN unpinFile(c) ELSE UNCHANGED <<pin, blocks>>
           /\ Pending(c, "undo", r, baseline[r][c], "keep", FALSE, FALSE)
           /\ UNCHANGED todo
  <2>1. /\ job'[c].kind = "undo" /\ job'[c].by = r /\ job'[c].next = baseline[r][c]
        /\ job'[c].prev = rec[c] /\ ~job'[c].undoSave
        /\ \A d \in Cids \ {c} : job'[d] = job[d]
    BY <1>2, <1>6 DEF Pending, TypeOK
  <2>2. \A d \in Cids \ {c} : d \in pin' <=> d \in pin
    BY <1>6 DEF unpinFile
  <2>3. rec[c].adm = r
    BY <1>1, <1>6 DEF IInv, RestoringOwned
  <2>4. (\A q \in Requests : c \notin Registered(q)) /\ c \notin repairing
    BY <1>1, <2>3, OwnFile
  <2>5. RecordsOK(c)'
    BY <1>1, <2>1 DEF IInv, CidOK, BaselinesOK, RecordsOK, RecordOK, Claimed
  <2>6. JobOK(c)'
    BY <1>1, <1>2, <1>6, <2>1, <2>3 DEF JobOK, OwnKinds
  <2>7. RepairOK(c)'
    BY <1>1, <2>4 DEF RepairOK
  <2>8. OneJob'
    BY <1>4, <2>1 DEF IInv, OneJob
  <2>9. CollectorOK'
    BY <1>1, <2>1 DEF IInv, CollectorOK
  <2>10. \A q \in Requests : c \notin Registered(q)'
    BY <1>1, <1>6, <2>4 DEF Registered
  <2>11. \A q \in Requests : pc[q] = "restoring" /\ c \in todo'[q] => rec'[c].adm = q
    BY <1>1, <1>6 DEF IInv, RestoringOwned
  <2> QED
    BY <1>1, <1>3, <1>6, <2>1, <2>2, <2>5, <2>6, <2>7, <2>8, <2>9, <2>10, <2>11, LocalStep
       DEF CidOK
<1> QED
  BY <1>5, <1>6 DEF UndoUpload, at

LEMMA RestoreUploadStep ==
  ASSUME ConfigAssumption, IInv, TypeOK', NEW r \in Requests, NEW c \in Cids,
         RestoreUpload(r, c)
  PROVE  IInv'
<1>1. /\ UNCHANGED <<pin, pc, files, baseline, active, repairing, repairToken, gcPc, gcTodo,
                     gcReleased>>
      /\ job[c].kind = "undo" /\ job[c].by = r /\ gcFresh' = gcFresh \ {c}
  BY DEF RestoreUpload, save, repairVars
<1>2. /\ rec'[c] = job[c].next /\ job'[c].kind = "none"
      /\ job'[c].next = Absent /\ job'[c].prev = Absent /\ todo'[r] = todo[r] \ {c}
      /\ \A d \in Cids \ {c} : job'[d] = job[d] /\ rec'[d] = rec[d]
      /\ \A q \in Requests \ {r} : todo'[q] = todo[q]
  BY DEF RestoreUpload, save, NoJob, IInv, TypeOK
<1>3. JobOK(c) /\ RecordsOK(c)
  BY DEF IInv, CidOK
<1>4. c \in files[r] /\ pc[r] \in {"restoring", "undoing"} /\ rec[c].adm = r
  BY <1>1, <1>3 DEF JobOK, UploadKinds
<1>5. (\A q \in Requests : c \notin Registered(q)) /\ c \notin repairing
  BY <1>4, OwnFile
<1>6. CidOK(c)'
  <2>1. RecordsOK(c)'
    BY <1>1, <1>2, <1>3, AbsentOK DEF RecordsOK, RecordOK, Claimed
  <2>2. JobOK(c)' /\ RepairOK(c)'
    BY <1>1, <1>2, <1>5 DEF JobOK, UploadKinds, OwnKinds, RepairOK
  <2> QED BY <2>1, <2>2 DEF CidOK
<1>7. OneJob'
  BY <1>2 DEF IInv, OneJob, UploadKinds
<1>8. CollectorOK'
  <2>1. CollectorOK /\ gcReleased \subseteq Cids
    BY DEF IInv, TypeOK
  <2> QED BY <1>1, <1>2, <2>1, CollectorWrite
<1>9. BaselinesOK'
  BY <1>1 DEF IInv, BaselinesOK, RecordOK, Claimed
<1>10. \A q \in Requests : c \notin Registered(q)'
  BY <1>1, <1>2, <1>4, <1>5 DEF Registered
<1>11. ASSUME NEW q \in Requests, pc[q] = "restoring", c \in todo'[q] PROVE rec'[c].adm = q
  BY <1>1, <1>2, <1>4, <1>11 DEF IInv, LocksOK, LockedPcs
<1> QED
  BY <1>1, <1>2, <1>6, <1>7, <1>8, <1>9, <1>10, <1>11, LocalStep

LEMMA SettleUploadStep ==
  ASSUME ConfigAssumption, IInv, TypeOK', NEW r \in Requests, NEW c \in Cids,
         SettleUpload(r, c)
  PROVE  IInv' /\ (Durable(rec[c]) => Durable(rec'[c]))
<1>1. /\ UNCHANGED <<pin, job, pc, files, baseline, active, repairing, repairToken, gcPc,
                     gcTodo, gcReleased>>
      /\ pc[r] = "settling" /\ c \in todo[r]
  BY DEF SettleUpload, repairVars, at
<1>2. /\ todo'[r] = todo[r] \ {c}
      /\ \A q \in Requests \ {r} : todo'[q] = todo[q]
      /\ \A d \in Cids \ {c} : rec'[d] = rec[d]
      /\ \/ rec'[c] = [rec[c] EXCEPT !.settled = TRUE] /\ gcFresh' = gcFresh \ {c}
         \/ rec'[c] = rec[c] /\ gcFresh' = gcFresh
  BY <1>1 DEF SettleUpload, save, IInv, TypeOK
<1>3. /\ rec'[c].adm = rec[c].adm /\ rec'[c].pinned = rec[c].pinned
      /\ rec'[c].held = rec[c].held /\ rec'[c].stage = rec[c].stage
      /\ rec'[c].state = rec[c].state
  BY <1>2 DEF IInv, TypeOK, Record
<1>4. c \in files[r]
  BY <1>1 DEF IInv, LocksOK
<1>5. job[c].kind = "none"
  <2>1. pc[r] \in LockedPcs
    BY <1>1 DEF LockedPcs
  <2>2. \A d \in Cids : job[d].kind \in UploadKinds => job[d].by # r
    BY <1>1, NoUploadJob
  <2> QED BY <1>4, <2>1, <2>2, LockedByHandler
<1>6. CidOK(c)'
  <2>1. RecordsOK(c)'
    BY <1>1, <1>3 DEF IInv, CidOK, RecordsOK, RecordOK, Claimed
  <2>2. JobOK(c)'
    BY <1>1, <1>5 DEF JobOK, UploadKinds, OwnKinds
  <2>3. RepairOK(c)'
    BY <1>1, <1>3, <1>5 DEF IInv, CidOK, RepairOK, Kept, Durable
  <2> QED BY <2>1, <2>2, <2>3 DEF CidOK
<1>7. OneJob' /\ BaselinesOK'
  BY <1>1 DEF IInv, OneJob, BaselinesOK, RecordOK, Claimed
<1>8. CollectorOK'
  BY <1>1, <1>2, <1>3 DEF IInv, CollectorOK, TypeOK
<1>9. ASSUME NEW q \in Requests, c \in Registered(q)' PROVE Owns(q, c)'
  <2>1. c \in Registered(q)
    BY <1>1, <1>2, <1>9 DEF Registered
  <2>2. Owns(q, c)
    BY <2>1 DEF IInv, Owned
  <2> QED BY <1>1, <1>3, <2>2 DEF Owns
<1>10. ASSUME NEW q \in Requests, pc[q] = "restoring", c \in todo'[q] PROVE rec'[c].adm = q
  BY <1>1, <1>2, <1>3, <1>10 DEF IInv, RestoringOwned
<1>11. IInv'
  BY <1>1, <1>2, <1>6, <1>7, <1>8, <1>9, <1>10, LocalStep
<1> QED BY <1>3, <1>11 DEF Durable

LEMMA ClearSettledAdmissionStep ==
  ASSUME ConfigAssumption, IInv, TypeOK', NEW r \in Requests, NEW c \in Cids,
         ClearSettledAdmission(r, c)
  PROVE  IInv' /\ (Durable(rec[c]) => Durable(rec'[c]))
<1>1. /\ UNCHANGED <<pin, job, pc, files, baseline, active, repairing, repairToken, gcPc,
                     gcTodo, gcReleased>>
      /\ pc[r] = "clearing" /\ c \in todo[r]
  BY DEF ClearSettledAdmission, repairVars, at
<1>2. TypeOK /\ CollectorOK
  BY DEF IInv
<1>3. c \in files[r] /\ pc[r] \in LockedPcs
  BY <1>1 DEF IInv, LocksOK, LockedPcs
<1>4. \A d \in Cids : job[d].kind \in UploadKinds => job[d].by # r
  BY <1>1, NoUploadJob
<1>5. job[c].kind = "none"
  BY <1>3, <1>4, LockedByHandler
<1>6. OneJob' /\ BaselinesOK'
  BY <1>1 DEF IInv, OneJob, BaselinesOK, RecordOK, Claimed
<1>7. CASE rec[c].adm = r /\ todo' = [todo EXCEPT ![r] = @ \ {c}]
  <2>1. /\ todo'[r] = todo[r] \ {c}
        /\ \A q \in Requests \ {r} : todo'[q] = todo[q]
    BY <1>2, <1>7 DEF TypeOK
  <2>2. /\ \A d \in Cids \ {c} : rec'[d] = rec[d]
        /\ \/ rec'[c] = Unowned(rec[c]) /\ gcFresh' = gcFresh \ {c}
           \/ rec'[c] = rec[c] /\ gcFresh' = gcFresh
    BY <1>2, <1>7 DEF ClearSettledAdmission, save, TypeOK
  <2>3. /\ rec'[c].adm \in {rec[c].adm, NoReq} /\ rec'[c].pinned = rec[c].pinned
        /\ rec'[c].held = rec[c].held /\ rec'[c].stage = rec[c].stage
        /\ rec'[c].state = rec[c].state
    <3>1. rec[c] \in Record
      BY <1>2 DEF TypeOK
    <3>2. CASE rec'[c] = Unowned(rec[c])
      BY <3>1, <3>2 DEF Record, Unowned
    <3> QED BY <2>2, <3>2
  <2>4. (\A q \in Requests : c \notin Registered(q)) /\ c \notin repairing
    BY <1>1, <1>7, OwnFile
  <2>5. RecordsOK(c)'
    BY <1>1, <2>3 DEF IInv, CidOK, RecordsOK, RecordOK, Claimed
  <2>6. JobOK(c)' /\ RepairOK(c)'
    BY <1>1, <1>5, <2>4 DEF JobOK, UploadKinds, OwnKinds, RepairOK
  <2>7. CollectorOK'
    BY <1>1, <1>2, <2>2, <2>3 DEF CollectorOK, TypeOK
  <2>8. \A q \in Requests : c \notin Registered(q)'
    BY <1>1, <2>1, <2>4 DEF Registered
  <2>9. ASSUME NEW q \in Requests, pc[q] = "restoring", c \in todo'[q] PROVE rec'[c].adm = q
    BY <1>1, <1>3, <2>1, <2>9 DEF IInv, LocksOK, LockedPcs
  <2>10. IInv'
    BY <1>1, <1>6, <2>1, <2>2, <2>5, <2>6, <2>7, <2>8, <2>9, LocalStep DEF CidOK
  <2> QED BY <2>3, <2>10 DEF Durable
<1>8. CASE UNCHANGED <<rec, gcFresh>> /\ todo' = [todo EXCEPT ![r] = {}]
  <2>1. todo'[r] = {} /\ \A q \in Requests \ {r} : todo'[q] = todo[q]
    BY <1>2, <1>8 DEF TypeOK
  <2>2. CollectorOK'
    BY <1>1, <1>2, <1>8 DEF CollectorOK
  <2>3. r \in active' <=> pc'[r] \in HandlerPcs
    BY <1>1 DEF IInv, ActiveOK
  <2>4. Claimed(r) => Claimed(r)'
    BY <1>1 DEF Claimed
  <2>5. /\ \A q \in Requests \ {r} : pc[q] \in LockedPcs => files'[r] \cap files[q] = {}
        /\ \A d \in files'[r] : job[d].kind \notin OwnKinds
    BY <1>1, <1>3, LocksStill
  <2>6. Registered(r)' \subseteq Registered(r)
    BY <1>1 DEF Registered
  <2>7. IInv'
    BY <1>1, <1>4, <1>6, <1>8, <2>1, <2>2, <2>3, <2>4, <2>5, <2>6, RequestStep
  <2> QED BY <1>8, <2>7
<1> QED
  BY <1>7, <1>8 DEF ClearSettledAdmission

LEMMA CheckCreatedBlockStep ==
  ASSUME IInv, TypeOK', NEW r \in Requests, NEW c \in Cids, CheckCreatedBlock(r, c)
  PROVE  IInv'
<1>1. /\ UNCHANGED <<rec, pin, job, pc, files, baseline, active, repairing, repairToken,
                     gcPc, gcTodo, gcReleased, gcFresh>>
      /\ pc[r] \in {"aborting", "cleaning"}
  BY DEF CheckCreatedBlock, storeVars, repairVars, gcVars
<1>2. \A q \in Requests \ {r} : todo'[q] = todo[q]
  BY DEF CheckCreatedBlock, IInv, TypeOK
<1>3. \A d \in Cids : job[d].kind \in UploadKinds => job[d].by # r
  BY <1>1, NoUploadJob
<1>4. CollectorOK' /\ BaselinesOK'
  BY <1>1 DEF IInv, CollectorOK, BaselinesOK, RecordOK, Claimed
<1>5. r \in active' <=> pc'[r] \in HandlerPcs
  BY <1>1 DEF IInv, ActiveOK
<1>6. Claimed(r) => Claimed(r)'
  BY <1>1 DEF Claimed
<1>7. pc'[r] \in LockedPcs =>
        /\ \A q \in Requests \ {r} : pc[q] \in LockedPcs => files'[r] \cap files[q] = {}
        /\ \A d \in files'[r] : job[d].kind \notin OwnKinds
  BY <1>1, LocksStill
<1>8. Registered(r)' \subseteq Registered(r)
  BY <1>1 DEF Registered
<1> QED
  BY <1>1, <1>2, <1>3, <1>4, <1>5, <1>6, <1>7, <1>8, RequestStep

LEMMA QuietFileSteps ==
  ASSUME IInv, TypeOK', NEW r \in Requests,
         DeleteCreatedBlock(r) \/ \E c \in Cids : ClearPinIntent(r, c)
  PROVE  IInv'
<1>1. UNCHANGED <<rec, job, pin, pc, files, todo, baseline, active, repairing, repairToken,
                  gcPc, gcTodo, gcReleased, gcFresh>>
  BY DEF DeleteCreatedBlock, ClearPinIntent, uploadVars, repairVars, gcVars
<1>2. CollectorOK'
  BY <1>1 DEF IInv, CollectorOK
<1> QED BY <1>1, <1>2, QuietStep

-----------------------------------------------------------------------------
(* The other locked operations *)

LEMMA WriteRecordStep ==
  ASSUME ConfigAssumption, IInv, TypeOK', NEW c \in Cids, WriteRecord(c)
  PROVE  IInv'
<1>1. /\ UNCHANGED <<pin, pc, files, todo, baseline, active, repairing, repairToken,
                     gcPc, gcTodo>>
      /\ job[c].kind \in OwnKinds
  BY DEF WriteRecord, uploadVars, repairVars
<1>2. /\ rec'[c] = job[c].next /\ job'[c].kind = "none"
      /\ job'[c].next = Absent /\ job'[c].prev = Absent
      /\ \A d \in Cids \ {c} : job'[d] = job[d] /\ rec'[d] = rec[d]
  BY DEF WriteRecord, NoJob, IInv, TypeOK
<1>3. JobOK(c) /\ RecordsOK(c) /\ RepairOK(c) /\ ~HeldByUpload(c)
  BY <1>1 DEF IInv, CidOK, JobOK
<1>4. CidOK(c)'
  <2>1. RecordsOK(c)'
    BY <1>1, <1>2, <1>3, AbsentOK DEF RecordsOK, RecordOK, Claimed
  <2>2. JobOK(c)'
    BY <1>2 DEF JobOK, UploadKinds, OwnKinds
  <2>3. RepairOK(c)'
    BY <1>1, <1>2, <1>3 DEF RepairOK, Kept, Durable, OwnKinds
  <2> QED BY <2>1, <2>2, <2>3 DEF CidOK
<1>5. OneJob' /\ BaselinesOK'
  BY <1>1, <1>2 DEF IInv, OneJob, UploadKinds, BaselinesOK, RecordOK, Claimed
<1>6. CollectorOK'
  <2>1. CollectorOK /\ gcReleased \subseteq Cids
    BY DEF IInv, TypeOK
  <2>2. CASE job[c].kind \in {"gcRelease", "gcStage"}
    <3>1. gcPc = "release" /\ rec'[c].state = "expired"
      BY <1>2, <2>1, <2>2 DEF CollectorOK
    <3>2. gcReleased' = gcReleased \cup {c} /\ gcFresh' = gcFresh \cup {c}
      BY <2>2 DEF WriteRecord
    <3> QED BY <1>1, <1>2, <2>1, <3>1, <3>2 DEF CollectorOK
  <2>3. CASE job[c].kind \notin {"gcRelease", "gcStage"}
    <3>1. gcReleased' = gcReleased /\ gcFresh' = gcFresh \ {c}
      BY <2>3 DEF WriteRecord
    <3> QED BY <1>1, <1>2, <2>1, <3>1, CollectorWrite
  <2> QED BY <2>2, <2>3
<1>7. ASSUME NEW q \in Requests, c \in Registered(q)' PROVE Owns(q, c)'
  <2>1. c \in Registered(q)
    BY <1>1, <1>7 DEF Registered
  <2>2. Owns(q, c)
    BY <2>1 DEF IInv, Owned
  <2>3. job[c].next.adm = q /\ q # NoReq
    BY <1>1, <2>2 DEF Owns, OwnKinds, ConfigAssumption
  <2>4. job[c].next.pinned /\ job[c].next.held
    BY <1>3, <2>3 DEF RecordsOK, RecordOK
  <2> QED BY <1>1, <1>2, <2>2, <2>3, <2>4 DEF Owns
<1>8. ASSUME NEW q \in Requests, pc[q] = "restoring", c \in todo'[q] PROVE FALSE
  BY <1>1, <1>3, <1>8 DEF IInv, LocksOK, HeldByUpload, LockedPcs
<1> QED
  BY <1>1, <1>2, <1>4, <1>5, <1>6, <1>7, <1>8, LocalStep

\* A rejected write leaves, after the catch block, a file as well protected as
\* the operation found it.
LEMMA SaveFailsStep ==
  ASSUME ConfigAssumption, IInv, TypeOK', NEW c \in Cids, NEW persisted \in BOOLEAN,
         SaveFails(c, persisted)
  PROVE  IInv'
<1>1. /\ UNCHANGED <<pc, files, baseline, active, repairing, repairToken, gcReleased>>
      /\ job[c].kind \in FaultyWrites
      /\ (gcPc' = gcPc /\ gcTodo' = gcTodo) \/ (job[c].kind = "demote" /\ gcPc' = "idle")
  BY DEF SaveFails, repairVars, gcGoto
<1>2. job[c].kind \in OwnKinds \cup {"admit", "undo"}
  BY <1>1 DEF ConfigAssumption, IInv, TypeOK, Job, Kinds, OwnKinds
<1>3. \A q \in Requests : /\ todo'[q] = todo[q] \/ todo'[q] = todo[q] \ {c}
                          /\ job[c].kind = "undo" /\ job[c].by = q => todo'[q] = todo[q] \ {c}
                          /\ ~(job[c].kind = "undo" /\ job[c].by = q) => todo'[q] = todo[q]
  BY DEF SaveFails, IInv, TypeOK
<1>4. /\ \A d \in Cids \ {c} : rec'[d] = rec[d]
      /\ \/ rec'[c] = job[c].next /\ gcFresh' = gcFresh \ {c}
         \/ rec'[c] = rec[c] /\ gcFresh' = gcFresh
  BY DEF SaveFails, save, IInv, TypeOK
<1>5. /\ \A d \in Cids \ {c} : d \in pin' <=> d \in pin
      /\ job[c].undoPin # "unpin" /\ c \in pin => c \in pin'
  BY DEF SaveFails, undoPin, pinFile, unpinFile
<1>6. /\ \A d \in Cids \ {c} : job'[d] = job[d]
      /\ \/ /\ job[c].kind = "admit"
            /\ job'[c].kind = "refused" /\ job'[c].by = job[c].by
            /\ job'[c].next = job[c].next /\ job'[c].prev = job[c].prev
            /\ job'[c].undoPin = "keep"
         \/ /\ job[c].kind # "admit" /\ job[c].undoSave
            /\ job'[c].kind = "baseline" /\ job'[c].undoPin = "keep"
            /\ job'[c].next = job[c].prev /\ job'[c].prev = job[c].prev
         \/ /\ job[c].kind # "admit"
            /\ job'[c].kind = "none" /\ job'[c].next = Absent /\ job'[c].prev = Absent
  <2>1. /\ job \in [Cids -> Job]
        /\ job' = [job EXCEPT ![c] =
             IF job[c].kind = "admit" THEN [@ EXCEPT !.kind = "refused", !.undoPin = "keep"]
             ELSE IF job[c].undoSave THEN [@ EXCEPT !.kind = "baseline", !.next = job[c].prev,
                                                    !.undoPin = "keep", !.undoSave = FALSE]
             ELSE NoJob]
    BY DEF SaveFails, IInv, TypeOK
  <2>2. \A d \in Cids \ {c} : job'[d] = job[d]
    BY <2>1
  <2>3. CASE job[c].kind = "admit"
    BY <2>1, <2>2, <2>3 DEF Job
  <2>4. CASE job[c].kind # "admit" /\ job[c].undoSave
    BY <2>1, <2>2, <2>4 DEF Job
  <2>5. CASE job[c].kind # "admit" /\ ~job[c].undoSave
    BY <2>1, <2>2, <2>5 DEF NoJob
  <2> QED BY <2>3, <2>4, <2>5
<1>7. JobOK(c) /\ RecordsOK(c) /\ RepairOK(c) /\ job[c].kind # "none"
  BY <1>2 DEF IInv, CidOK, OwnKinds
<1>8. job'[c].kind = "baseline" => job[c].kind \in OwnKinds /\ ~HeldByUpload(c)
  BY <1>2, <1>6, <1>7 DEF JobOK, UploadKinds
<1>9. RecordsOK(c)'
  <2>1. RecordOK(rec[c]) /\ RecordOK(job[c].next) /\ RecordOK(job[c].prev)
    BY <1>7 DEF RecordsOK
  <2>2. RecordOK(rec'[c]) /\ RecordOK(job'[c].next) /\ RecordOK(job'[c].prev)
    BY <1>4, <1>6, <2>1, AbsentOK
  <2> QED BY <1>1, <2>2 DEF RecordsOK, RecordOK, Claimed
<1>10. JobOK(c)'
  <2>1. CASE job[c].kind = "admit"
    <3>1. /\ job'[c].kind = "refused" /\ job'[c].by = job[c].by
          /\ \A q \in Requests : todo'[q] = todo[q]
      BY <1>3, <1>6, <2>1
    <3> QED BY <1>1, <1>7, <2>1, <3>1 DEF JobOK, UploadKinds, OwnKinds
  <2>2. CASE job'[c].kind = "baseline"
    <3>1. ~HeldByUpload(c)'
      BY <1>1, <1>8, <2>2 DEF HeldByUpload
    <3> QED BY <2>2, <3>1 DEF JobOK, UploadKinds
  <2>3. CASE job'[c].kind = "none"
    BY <2>3 DEF JobOK, UploadKinds, OwnKinds
  <2> QED BY <1>6, <2>1, <2>2, <2>3
<1>11. RepairOK(c)'
  BY <1>1, <1>4, <1>6, <1>7 DEF RepairOK, Kept, Durable
<1>12. OneJob'
  <2>1. job'[c].kind \in UploadKinds => job[c].kind \in UploadKinds /\ job'[c].by = job[c].by
    BY <1>6 DEF UploadKinds
  <2> QED BY <1>6, <2>1 DEF IInv, OneJob
<1>13. BaselinesOK'
  BY <1>1 DEF IInv, BaselinesOK, RecordOK, Claimed
<1>14. CollectorOK'
  <2>1. CollectorOK /\ gcReleased \subseteq Cids
    BY DEF IInv, TypeOK
  <2>2. job'[c].kind \notin {"gcRelease", "gcStage", "demote"}
    BY <1>6
  <2>3. gcReleased \cap gcFresh' \subseteq gcReleased \cap gcFresh
    BY <1>4
  <2>4. \A d \in gcReleased' \cap gcFresh' : rec'[d].state = "expired"
    BY <1>1, <1>4, <2>1, <2>3 DEF CollectorOK
  <2>5. CASE gcPc' = gcPc /\ gcTodo' = gcTodo
    BY <1>1, <1>6, <2>1, <2>2, <2>4, <2>5 DEF CollectorOK
  <2>6. CASE job[c].kind = "demote" /\ gcPc' = "idle"
    <3>1. gcPc \in {"idle", "recover", "demote"}
      BY <2>1, <2>6 DEF CollectorOK
    <3> QED BY <1>1, <1>6, <2>1, <2>2, <2>4, <2>6, <3>1 DEF CollectorOK
  <2> QED BY <1>1, <2>5, <2>6
<1>15. ASSUME NEW q \in Requests, c \in Registered(q)' PROVE Owns(q, c)'
  <2>1. ~(job[c].kind = "undo" /\ job[c].by = q /\ pc[q] = "admitting")
    BY <1>7 DEF JobOK, UploadKinds
  <2>2. c \in Registered(q)
    BY <1>1, <1>3, <1>15, <2>1 DEF Registered
  <2>3. Owns(q, c) /\ q # NoReq
    BY <2>2 DEF IInv, Owned, ConfigAssumption
  <2>4. job[c].next.adm = q /\ job[c].prev.adm = q /\ job[c].undoPin # "unpin"
    BY <1>7, <2>3 DEF Owns
  <2>5. job[c].next.pinned /\ job[c].next.held
    BY <1>7, <2>3, <2>4 DEF RecordsOK, RecordOK
  <2> QED BY <1>4, <1>5, <1>6, <2>3, <2>4, <2>5 DEF Owns
<1>16. ASSUME NEW q \in Requests, pc[q] = "restoring", c \in todo'[q] PROVE rec'[c].adm = q
  <2>1. c \in todo[q] /\ c \in files[q]
    BY <1>3, <1>16 DEF IInv, LocksOK
  <2>2. HeldByUpload(c) /\ pc[q] \in LockedPcs
    BY <1>16, <2>1 DEF HeldByUpload, LockedPcs
  <2>3. job[c].by = q
    BY <1>7, <2>1, <2>2, LockedByHandler
  <2>4. job[c].kind = "undo"
    BY <1>2, <1>7, <1>16, <2>2, <2>3 DEF JobOK, UploadKinds
  <2> QED BY <1>3, <1>16, <2>3, <2>4
<1> QED
  BY <1>1, <1>3, <1>4, <1>5, <1>6, <1>9, <1>10, <1>11, <1>12, <1>13, <1>14, <1>15, <1>16,
     LocalStep DEF CidOK

\* What the operations write.
LEMMA FormsOK ==
  ASSUME NEW f \in Record
  PROVE  /\ RecordOK(Confirmed(f)) /\ Durable(Confirmed(f))
         /\ RecordOK(Released(f)) /\ Released(f).state = "expired"
         /\ RecordOK(Demoted(f))
         /\ RecordOK(Rescued(f)) /\ (f.state = "confirmed" => Durable(Rescued(f)))
         /\ f.stage # {} /\ RecordOK(f) =>
              RecordOK(expiredBaseline(f)) /\ expiredBaseline(f).state = "expired"
BY DEF Record, RecordOK, Claimed, Confirmed, Released, Demoted, Rescued, expiredBaseline,
       Plain, Unowned, Unstaged, Durable

LEMMA UnownedOK ==
  ASSUME NEW f \in Record, RecordOK(f)
  PROVE  /\ RecordOK(Unowned(f)) /\ Unowned(f).adm = NoReq
         /\ Durable(Unowned(f)) <=> Durable(f)
         /\ RecordOK([f EXCEPT !.pinned = TRUE])
         /\ [f EXCEPT !.pinned = TRUE].adm = f.adm
         /\ Durable([f EXCEPT !.pinned = TRUE]) <=> Durable(f)
BY DEF Record, RecordOK, Claimed, Unowned, Durable

\* A file that is staged, or whose token no running handler has, has no owner.
LEMMA IdleFile ==
  ASSUME ConfigAssumption, IInv, NEW c \in Cids,
         rec[c].stage # {} \/ ~isAdmissionInFlight(rec[c]) \/ rec[c].adm \notin active
  PROVE  \A r \in Requests : c \notin Registered(r)
BY OwnerActive DEF isAdmissionInFlight

\* No repair counts on a copy that is not durable.
LEMMA BrokenFile ==
  ASSUME IInv, NEW c \in Cids,
         rec[c].stage # {} \/ rec[c].state # "confirmed" \/ ~rec[c].held
  PROVE  c \notin repairing
<1>1. RecordOK(rec[c]) /\ RepairOK(c)
  BY DEF IInv, CidOK, RecordsOK
<1> QED BY <1>1 DEF RecordOK, RepairOK, Kept, Durable

LEMMA ConfirmReleaseStep ==
  ASSUME ConfigAssumption, IInv, TypeOK', NEW c \in Cids, Confirm(c) \/ Release(c)
  PROVE  IInv'
<1>1. /\ UNCHANGED <<rec, pc, files, todo, baseline, active, repairing, repairToken,
                     gcPc, gcTodo, gcReleased, gcFresh>>
      /\ Unlocked(c) /\ ~isLifecycleBusy(c)
      /\ \A d \in Cids \ {c} : d \in pin' <=> d \in pin
  BY DEF Confirm, Release, others, uploadVars, repairVars, pinFile, unpinFile
<1>2. /\ job'[c].kind \in {"confirm", "release"} /\ job'[c].prev = rec[c]
      /\ job'[c].next = IF job'[c].kind = "confirm" THEN Confirmed(rec[c]) ELSE Released(rec[c])
      /\ \A d \in Cids \ {c} : job'[d] = job[d]
  <2>1. job \in [Cids -> Job]
    BY DEF IInv, TypeOK
  <2>2. CASE Confirm(c)
    BY <2>1, <2>2 DEF Confirm, Pending
  <2>3. CASE Release(c)
    BY <2>1, <2>3 DEF Release, Pending
  <2> QED BY <2>2, <2>3
<1>3. rec[c] \in Record
  BY DEF IInv, TypeOK
<1>4. (\A r \in Requests : c \notin Registered(r)) /\ c \notin repairing
  BY <1>1, IdleFile DEF isLifecycleBusy
<1>5. RecordOK(job'[c].next) /\ (job'[c].kind = "confirm" => Durable(job'[c].next))
  BY <1>2, <1>3, FormsOK
<1>6. job'[c].kind \in OwnKinds
  BY <1>2 DEF OwnKinds
<1> QED
  BY <1>1, <1>2, <1>4, <1>5, <1>6, BeginStep

\* A copy stored for a peer replaces nothing that has an owner; refused, it
\* writes back the record it read.
LEMMA RegisterPinnedStep ==
  ASSUME ConfigAssumption, IInv, TypeOK', NEW c \in Cids, Adopt(c) \/ Store(c)
  PROVE  IInv'
<1>1. /\ UNCHANGED <<rec, pc, files, todo, baseline, active, repairing, repairToken,
                     gcPc, gcTodo, gcReleased, gcFresh>>
      /\ Unlocked(c) /\ registerPinnedUnderLock(c)
  BY DEF Adopt, Store, others, uploadVars, repairVars
<1>2. /\ job \in [Cids -> Job] /\ rec[c] \in Record /\ RecordOK(rec[c])
      /\ CollectorOK /\ RepairOK(c) /\ NoReq \notin Requests
  BY DEF IInv, TypeOK, CidOK, RecordsOK, ConfigAssumption
<1>3. CASE /\ registerBusy(c, NoReq)
           /\ blocks' = blocks \cup {c}
           /\ pin' = IF wasPinned(c) = "pin" THEN pin \cup {c} ELSE pin \ {c}
           /\ Pending(c, "baseline", NoReq, rec[c], "keep", FALSE, TRUE)
  <2>1. /\ job'[c].kind = "baseline" /\ job'[c].prev = rec[c] /\ job'[c].next = rec[c]
        /\ job'[c].undoPin = "keep" /\ \A d \in Cids \ {c} : job'[d] = job[d]
    BY <1>2, <1>3 DEF Pending
  <2>2. ASSUME NEW r \in Requests, c \in Registered(r)
        PROVE  job'[c].next.adm = r /\ job'[c].undoPin # "unpin" /\ c \in pin'
    <3>1. Owns(r, c)
      BY <2>2, OwnerActive
    <3>2. wasPinned(c) = "pin"
      BY <3>1 DEF Owns, wasPinned
    <3> QED BY <1>3, <2>1, <3>1, <3>2 DEF Owns
  <2>3. c \in repairing => Kept(job'[c].next, c)
    BY <1>2, <2>1 DEF RepairOK
  <2>4. \A d \in Cids \ {c} : d \in pin' <=> d \in pin
    BY <1>3
  <2>5. job'[c].kind \in OwnKinds
    BY <2>1 DEF OwnKinds
  <2> QED BY <1>1, <1>2, <2>1, <2>2, <2>3, <2>4, <2>5, BeginStep
<1>4. CASE /\ ~registerBusy(c, NoReq) /\ rec[c].stage = {}
           /\ pinFile(c)
           /\ Pending(c, "store", NoReq, registered(c, NoReq, FALSE), wasPinned(c), TRUE, TRUE)
  <2>1. /\ job'[c].kind = "store" /\ job'[c].prev = rec[c]
        /\ job'[c].next = registered(c, NoReq, FALSE)
        /\ \A d \in Cids \ {c} : job'[d] = job[d]
    BY <1>2, <1>4 DEF Pending
  <2>2. RecordOK(job'[c].next) /\ Durable(job'[c].next)
    BY <1>4, <2>1 DEF registered, RecordOK, Claimed, Durable
  <2>3. c \notin repairing /\ (rec[c].adm # NoReq => rec[c].adm \notin active)
    BY <1>4 DEF registerBusy
  <2>4. \A r \in Requests : c \notin Registered(r)
    BY <2>3, OwnerActive
  <2>5. \A d \in Cids \ {c} : d \in pin' <=> d \in pin
    BY <1>4 DEF pinFile
  <2>6. job'[c].kind \in OwnKinds
    BY <2>1 DEF OwnKinds
  <2> QED BY <1>1, <2>1, <2>2, <2>3, <2>4, <2>5, <2>6, BeginStep
<1>5. CASE rec[c].stage # {} /\ pinFile(c) /\ UNCHANGED job
  <2>1. c \in pin' /\ \A d \in Cids \ {c} : d \in pin' <=> d \in pin
    BY <1>5 DEF pinFile
  <2>2. (\A r \in Requests : c \notin Registered(r)) /\ c \notin repairing
    BY <1>5, IdleFile, BrokenFile
  <2>3. job[c].kind = "none"
    BY <1>1 DEF Unlocked
  <2>4. RecordsOK(c)' /\ JobOK(c)' /\ RepairOK(c)'
    BY <1>1, <1>5, <2>2, <2>3 DEF IInv, CidOK, RecordsOK, RecordOK, Claimed, JobOK,
                                  UploadKinds, OwnKinds, RepairOK
  <2>5. OneJob' /\ BaselinesOK' /\ CollectorOK'
    BY <1>1, <1>5 DEF IInv, OneJob, BaselinesOK, RecordOK, Claimed, CollectorOK
  <2>6. \A r \in Requests : c \notin Registered(r)'
    BY <1>1, <2>2 DEF Registered
  <2>7. \A q \in Requests : pc[q] = "restoring" /\ c \in todo'[q] => rec'[c].adm = q
    BY <1>1 DEF IInv, RestoringOwned
  <2> QED BY <1>1, <1>5, <2>1, <2>4, <2>5, <2>6, <2>7, LocalStep DEF CidOK
<1> QED
  BY <1>1, <1>3, <1>4, <1>5 DEF registerPinnedUnderLock

LEMMA StageStep ==
  ASSUME ConfigAssumption, IInv, TypeOK', NEW c \in Cids, NEW t \in Txs, Stage(c, t)
  PROVE  IInv'
<1>1. /\ UNCHANGED <<rec, pc, files, todo, baseline, active, repairing, repairToken,
                     gcPc, gcTodo, gcReleased, gcFresh>>
      /\ Unlocked(c) /\ staged(c, t)
      /\ c \in pin' /\ \A d \in Cids \ {c} : d \in pin' <=> d \in pin
  BY DEF Stage, others, uploadVars, repairVars, pinFile
<1>2. /\ job \in [Cids -> Job] /\ rec[c] \in Record /\ RecordOK(rec[c]) /\ RepairOK(c)
  BY DEF IInv, TypeOK, CidOK, RecordsOK
<1>3. CASE rec[c].stage # {}
  <2>1. /\ job'[c].kind = "stage" /\ job'[c].prev = rec[c]
        /\ job'[c].next = [rec[c] EXCEPT !.state = "temporary", !.pinned = TRUE,
                                         !.held = TRUE, !.stage = @ \cup {t}]
        /\ \A d \in Cids \ {c} : job'[d] = job[d]
    BY <1>1, <1>2, <1>3 DEF staged, Pending
  <2>2. (\A r \in Requests : c \notin Registered(r)) /\ c \notin repairing
    BY <1>3, IdleFile, BrokenFile
  <2>3. rec[c].adm = NoReq /\ ~Durable(rec[c])
    BY <1>2, <1>3 DEF RecordOK, Durable
  <2>4. RecordOK(job'[c].next)
    BY <1>2, <2>1, <2>3 DEF RecordOK, Claimed, Record
  <2>5. job'[c].kind \in OwnKinds
    BY <2>1 DEF OwnKinds
  <2> QED BY <1>1, <2>1, <2>2, <2>3, <2>4, <2>5, BeginStep
<1>4. CASE rec[c].stage = {} /\ (c \in pin \/ rec[c].state = "confirmed")
  <2>1. /\ job'[c].kind = "stage" /\ job'[c].prev = rec[c]
        /\ job'[c].undoPin = unpinIfCreated(c) /\ rec[c].state # "temporary"
        /\ job'[c].next = [rec[c] EXCEPT !.state = "confirmed", !.pinned = TRUE,
                                         !.held = TRUE]
        /\ \A d \in Cids \ {c} : job'[d] = job[d]
    BY <1>1, <1>2, <1>4 DEF staged, Pending
  <2>2. /\ job'[c].next.adm = rec[c].adm /\ Durable(job'[c].next)
        /\ RecordOK(job'[c].next)
    BY <1>2, <1>4, <2>1 DEF RecordOK, Claimed, Record, Durable
  <2>3. ASSUME NEW r \in Requests, c \in Registered(r)
        PROVE  job'[c].next.adm = r /\ job'[c].undoPin # "unpin" /\ c \in pin'
    <3>1. Owns(r, c)
      BY <2>3, OwnerActive
    <3> QED BY <1>1, <2>1, <2>2, <3>1 DEF Owns, unpinIfCreated
  <2>4. c \in repairing => Kept(job'[c].next, c)
    BY <1>2, <2>2 DEF RepairOK, Kept
  <2>5. job'[c].kind \in OwnKinds
    BY <2>1 DEF OwnKinds
  <2> QED BY <1>1, <2>1, <2>2, <2>3, <2>4, <2>5, BeginStep
<1>5. CASE rec[c].stage = {} /\ c \notin pin /\ rec[c].state # "confirmed"
  <2>1. /\ job'[c].kind = "stage" /\ job'[c].prev = rec[c] /\ rec[c].state # "temporary"
        /\ job'[c].next = [rec[c] EXCEPT !.state = "temporary", !.pinned = TRUE,
                             !.held = TRUE, !.stage = {t},
                             !.base = IF rec[c].state = "absent" THEN "none" ELSE "expired"]
        /\ \A d \in Cids \ {c} : job'[d] = job[d]
    BY <1>1, <1>2, <1>5 DEF staged, Pending
  <2>2. rec[c].adm = NoReq /\ ~Durable(rec[c])
    BY <1>2, <1>5, <2>1 DEF RecordOK, Durable
  <2>3. RecordOK(job'[c].next)
    BY <1>2, <2>1, <2>2 DEF RecordOK, Claimed, Record
  <2>4. (\A r \in Requests : c \notin Registered(r)) /\ c \notin repairing
    BY <1>5, <2>2, OwnerActive, BrokenFile
  <2>5. job'[c].kind \in OwnKinds
    BY <2>1 DEF OwnKinds
  <2> QED BY <1>1, <2>1, <2>2, <2>3, <2>4, <2>5, BeginStep
<1> QED BY <1>3, <1>4, <1>5

\* A stage that ends, by an abort or by the collector, is nobody's upload.
LEMMA UnstageStep ==
  ASSUME ConfigAssumption, IInv, TypeOK', NEW c \in Cids, Unlocked(c), rec[c].stage # {},
         UNCHANGED <<rec, pc, files, todo, baseline, active, repairing, repairToken,
                     gcPc, gcReleased, gcFresh>>,
         gcTodo' \subseteq gcTodo,
         \/ Unstage(c, "abort", FALSE, TRUE)
         \/ gcPc = "release" /\ Unstage(c, "gcStage", TRUE, FALSE)
  PROVE  IInv'
<1>1. /\ job \in [Cids -> Job] /\ rec[c] \in Record /\ RecordOK(rec[c])
  BY DEF IInv, TypeOK, CidOK, RecordsOK
<1>2. /\ \/ job'[c].kind = "abort"
         \/ /\ job'[c].kind = "gcStage" /\ gcPc = "release"
            /\ job'[c].next = expiredBaseline(rec[c])
      /\ job'[c].next \in {Absent, expiredBaseline(rec[c])} /\ job'[c].prev = rec[c]
      /\ \A d \in Cids \ {c} : job'[d] = job[d]
  <2>1. CASE Unstage(c, "abort", FALSE, TRUE)
    BY <1>1, <2>1 DEF Unstage, Pending
  <2>2. CASE gcPc = "release" /\ Unstage(c, "gcStage", TRUE, FALSE)
    BY <1>1, <2>2 DEF Unstage, Pending
  <2> QED BY <2>1, <2>2
<1>3. \A d \in Cids \ {c} : d \in pin' <=> d \in pin
  BY DEF Unstage, unpinFile
<1>4. (\A r \in Requests : c \notin Registered(r)) /\ c \notin repairing
  BY IdleFile, BrokenFile
<1>5. RecordOK(job'[c].next) /\ ~Durable(rec[c])
  BY <1>1, <1>2, FormsOK, AbsentOK DEF RecordOK, Durable
<1>6. job'[c].kind = "gcStage" => job'[c].next.state = "expired" /\ gcPc = "release"
  BY <1>1, <1>2, FormsOK
<1>7. job'[c].kind \in OwnKinds /\ job'[c].kind \notin {"gcRelease", "demote"}
  BY <1>2 DEF OwnKinds
<1> QED
  BY <1>2, <1>3, <1>4, <1>5, <1>6, <1>7, BeginStep

LEMMA CommitStep ==
  ASSUME ConfigAssumption, IInv, TypeOK', NEW c \in Cids, NEW t \in Txs, Commit(c, t)
  PROVE  IInv'
<1>1. /\ UNCHANGED <<job, pin, pc, files, todo, baseline, active, repairing, repairToken,
                     gcPc, gcTodo, gcReleased>>
      /\ Unlocked(c) /\ rec[c].stage # {}
      /\ rec' = [rec EXCEPT ![c] = Confirmed(rec[c])] /\ gcFresh' = gcFresh \ {c}
  BY DEF Commit, save, uploadVars, repairVars
<1>2. rec \in [Cids -> Record]
  BY DEF IInv, TypeOK
<1>3. /\ rec'[c] = Confirmed(rec[c]) /\ RecordOK(rec'[c])
      /\ \A d \in Cids \ {c} : rec'[d] = rec[d]
  BY <1>1, <1>2, FormsOK
<1>4. (\A r \in Requests : c \notin Registered(r)) /\ c \notin repairing
  BY <1>1, IdleFile, BrokenFile
<1> QED BY <1>1, <1>3, <1>4, WriteStep

LEMMA AbortStep ==
  ASSUME ConfigAssumption, IInv, TypeOK', NEW c \in Cids, NEW t \in Txs, Abort(c, t)
  PROVE  IInv'
<1>1. /\ UNCHANGED <<pc, files, todo, baseline, active, repairing, repairToken,
                     gcPc, gcTodo, gcReleased>>
      /\ Unlocked(c)
  BY DEF Abort, uploadVars, repairVars
<1>2. CASE UNCHANGED <<rec, gcFresh, pin, blocks, job>>
  <2>1. CollectorOK'
    BY <1>1, <1>2 DEF IInv, CollectorOK
  <2> QED BY <1>1, <1>2, <2>1, QuietStep
<1>3. CASE /\ t \in rec[c].stage /\ rec[c].stage # {t}
           /\ save(c, [rec[c] EXCEPT !.stage = @ \ {t}])
           /\ UNCHANGED <<pin, blocks, job>>
  <2>1. rec \in [Cids -> Record] /\ RecordOK(rec[c])
    BY DEF IInv, TypeOK, CidOK, RecordsOK
  <2>2. rec[c].stage # {}
    BY <1>3
  <2>3. (\A r \in Requests : c \notin Registered(r)) /\ c \notin repairing
    BY <2>2, IdleFile, BrokenFile
  <2>4. rec'[c] = [rec[c] EXCEPT !.stage = @ \ {t}] /\ \A d \in Cids \ {c} : rec'[d] = rec[d]
    BY <1>3, <2>1 DEF save
  <2>5. RecordOK(rec'[c])
    BY <2>1, <2>2, <2>4 DEF RecordOK, Claimed, Record
  <2>6. gcFresh' = gcFresh \ {c}
    BY <1>3 DEF save
  <2> QED BY <1>1, <1>3, <2>3, <2>4, <2>5, <2>6, WriteStep
<1>4. CASE /\ rec[c].stage = {t}
           /\ Unstage(c, "abort", FALSE, TRUE)
           /\ UNCHANGED <<rec, gcFresh>>
  BY <1>1, <1>4, UnstageStep
<1> QED BY <1>2, <1>3, <1>4 DEF Abort

LEMMA SetReplicasStep ==
  ASSUME IInv, TypeOK', NEW c \in Cids, SetReplicas(c)
  PROVE  IInv'
<1>1. /\ UNCHANGED <<rec, job, pin, pc, files, todo, baseline, active, repairing, repairToken,
                     gcPc, gcTodo, gcReleased>>
      /\ gcFresh' \subseteq gcFresh
  BY DEF SetReplicas, storeVars, uploadVars, repairVars
<1>2. CollectorOK'
  BY <1>1, CollectorKept DEF IInv
<1> QED BY <1>1, <1>2, QuietStep

\* Clearing a token that belongs to no running request.
LEMMA ClearTokenStep ==
  ASSUME ConfigAssumption, IInv, TypeOK', NEW c \in Cids, Unlocked(c),
         rec[c].adm \notin active,
         UNCHANGED <<job, pin, pc, files, todo, baseline, active, repairing, repairToken,
                     gcPc, gcReleased>>,
         gcTodo' \subseteq gcTodo, save(c, Unowned(rec[c]))
  PROVE  IInv'
<1>1. rec \in [Cids -> Record] /\ RecordOK(rec[c]) /\ RepairOK(c)
  BY DEF IInv, TypeOK, CidOK, RecordsOK
<1>2. /\ rec'[c] = Unowned(rec[c]) /\ gcFresh' = gcFresh \ {c}
      /\ \A d \in Cids \ {c} : rec'[d] = rec[d]
  BY <1>1 DEF save
<1>3. RecordOK(rec'[c]) /\ rec'[c].adm = NoReq /\ (Durable(rec[c]) => Durable(rec'[c]))
  <2>1. rec[c] \in Record
    BY <1>1
  <2>2. /\ RecordOK(Unowned(rec[c])) /\ Unowned(rec[c]).adm = NoReq
        /\ Durable(Unowned(rec[c])) <=> Durable(rec[c])
    BY <1>1, <2>1, UnownedOK
  <2> QED BY <1>2, <2>2
<1>4. \A r \in Requests : c \notin Registered(r)
  BY IdleFile
<1>5. c \in repairing => Kept(rec'[c], c)
  BY <1>1, <1>3 DEF RepairOK, Kept
<1> QED BY <1>2, <1>3, <1>4, <1>5, WriteStep

LEMMA RecoverStep ==
  ASSUME ConfigAssumption, IInv, TypeOK', NEW c \in Cids, Unlocked(c),
         UNCHANGED <<job, pin, pc, files, todo, baseline, active, repairing, repairToken,
                     gcPc, gcReleased>>,
         gcTodo' \subseteq gcTodo, recoverAdmission(c)
  PROVE  IInv'
<1>1. CASE Stale(c)
  BY <1>1, ClearTokenStep DEF recoverAdmission, Stale
<1>2. CASE ~Stale(c)
  <2>1. UNCHANGED <<rec, gcFresh>>
    BY <1>2 DEF recoverAdmission
  <2>2. CollectorOK'
    BY <2>1, CollectorKept DEF IInv
  <2> QED BY <2>1, <2>2, QuietStep
<1> QED BY <1>1, <1>2

-----------------------------------------------------------------------------
(* The collector *)

LEMMA GcDemoteStep ==
  ASSUME ConfigAssumption, IInv, TypeOK', NEW c \in Cids, GcDemote(c)
  PROVE  IInv'
<1>1. /\ UNCHANGED <<rec, pc, files, todo, baseline, active, repairing, repairToken,
                     gcPc, gcReleased, gcFresh>>
      /\ gcTodo' \subseteq gcTodo /\ Unlocked(c) /\ gcPc = "demote"
  BY DEF GcDemote, gcKeep, uploadVars, repairVars, gcMay, gcDone
<1>2. job \in [Cids -> Job] /\ rec[c] \in Record
  BY DEF IInv, TypeOK
<1>3. CASE /\ Durable(rec[c]) /\ ~isLifecycleBusy(c) /\ unpinFile(c)
           /\ Pending(c, "demote", NoReq, Demoted(rec[c]), undoRemoved(c), FALSE, FALSE)
  <2>1. /\ job'[c].kind = "demote" /\ job'[c].prev = rec[c] /\ job'[c].next = Demoted(rec[c])
        /\ \A d \in Cids \ {c} : job'[d] = job[d]
    BY <1>2, <1>3 DEF Pending
  <2>2. \A d \in Cids \ {c} : d \in pin' <=> d \in pin
    BY <1>3 DEF unpinFile
  <2>3. (\A r \in Requests : c \notin Registered(r)) /\ c \notin repairing
    BY <1>3, IdleFile DEF isLifecycleBusy
  <2>4. RecordOK(job'[c].next) /\ job'[c].kind \in OwnKinds
    BY <1>2, <2>1, FormsOK DEF OwnKinds
  <2> QED BY <1>1, <2>1, <2>2, <2>3, <2>4, BeginStep
<1>4. CASE UNCHANGED <<pin, blocks, job>>
  <2>1. CollectorOK'
    BY <1>1, <1>4, CollectorKept DEF IInv
  <2> QED BY <1>1, <1>4, <2>1, QuietStep
<1> QED BY <1>3, <1>4 DEF GcDemote

LEMMA GcGuardStep ==
  ASSUME ConfigAssumption, IInv, TypeOK', NEW c \in Cids, GcGuard(c)
  PROVE  IInv'
<1>1. /\ UNCHANGED <<rec, pc, files, todo, baseline, active, repairing, repairToken,
                     gcPc, gcReleased, gcFresh>>
      /\ gcTodo' \subseteq gcTodo /\ Unlocked(c)
  BY DEF GcGuard, gcKeep, uploadVars, repairVars, gcMay, gcDone
<1>2. job \in [Cids -> Job] /\ rec[c] \in Record /\ RecordOK(rec[c]) /\ RepairOK(c)
  BY DEF IInv, TypeOK, CidOK, RecordsOK
<1>3. CASE /\ unprotected(c) /\ pinFile(c)
           /\ Pending(c, "guard", NoReq, [rec[c] EXCEPT !.pinned = TRUE],
                      undoCreated(c), FALSE, FALSE)
  <2>1. /\ job'[c].kind = "guard" /\ job'[c].prev = rec[c]
        /\ job'[c].next = [rec[c] EXCEPT !.pinned = TRUE]
        /\ \A d \in Cids \ {c} : job'[d] = job[d]
    BY <1>2, <1>3 DEF Pending
  <2>2. \A d \in Cids \ {c} : d \in pin' <=> d \in pin
    BY <1>3 DEF pinFile
  <2>3. ASSUME NEW r \in Requests, c \in Registered(r) PROVE FALSE
    <3>1. Owns(r, c)
      BY <2>3, OwnerActive
    <3> QED BY <1>3, <3>1 DEF Owns, unprotected
  <2>4. /\ RecordOK(job'[c].next) /\ job'[c].next.adm = rec[c].adm
        /\ Durable(rec[c]) => Durable(job'[c].next)
    BY <1>2, <2>1, UnownedOK
  <2>5. c \in repairing => Kept(job'[c].next, c)
    BY <1>2, <2>4 DEF RepairOK, Kept
  <2>6. job'[c].kind \in OwnKinds
    BY <2>1 DEF OwnKinds
  <2> QED BY <1>1, <2>1, <2>2, <2>3, <2>4, <2>5, <2>6, BeginStep
<1>4. CASE UNCHANGED <<pin, blocks, job>>
  <2>1. CollectorOK'
    BY <1>1, <1>4, CollectorKept DEF IInv
  <2> QED BY <1>1, <1>4, <2>1, QuietStep
<1> QED BY <1>3, <1>4 DEF GcGuard

LEMMA GcReleaseStep ==
  ASSUME ConfigAssumption, IInv, TypeOK', NEW c \in Cids, GcRelease(c)
  PROVE  IInv'
<1>1. /\ UNCHANGED <<rec, pc, files, todo, baseline, active, repairing, repairToken,
                     gcPc, gcReleased, gcFresh>>
      /\ gcTodo' \subseteq gcTodo /\ Unlocked(c) /\ gcPc = "release"
  BY DEF GcRelease, gcKeep, uploadVars, repairVars, gcMay, gcDone
<1>2. job \in [Cids -> Job] /\ rec[c] \in Record
  BY DEF IInv, TypeOK
<1>3. CASE rec[c].stage # {} /\ Unstage(c, "gcStage", TRUE, FALSE)
  BY <1>1, <1>3, UnstageStep
<1>4. CASE /\ stillPlanned(c) /\ unpinFile(c)
           /\ Pending(c, "gcRelease", NoReq, Released(rec[c]), undoRemoved(c), FALSE, FALSE)
  <2>1. /\ job'[c].kind = "gcRelease" /\ job'[c].prev = rec[c]
        /\ job'[c].next = Released(rec[c])
        /\ \A d \in Cids \ {c} : job'[d] = job[d]
    BY <1>2, <1>4 DEF Pending
  <2>2. \A d \in Cids \ {c} : d \in pin' <=> d \in pin
    BY <1>4 DEF unpinFile
  <2>3. (\A r \in Requests : c \notin Registered(r)) /\ c \notin repairing /\ ~Durable(rec[c])
    BY <1>4, IdleFile, BrokenFile DEF stillPlanned, Durable
  <2>4. /\ RecordOK(job'[c].next) /\ job'[c].kind \in OwnKinds
        /\ job'[c].next.state = "expired"
    BY <1>2, <2>1, FormsOK DEF OwnKinds
  <2> QED BY <1>1, <2>1, <2>2, <2>3, <2>4, BeginStep
<1>5. CASE UNCHANGED <<pin, blocks, job>>
  <2>1. CollectorOK'
    BY <1>1, <1>5, CollectorKept DEF IInv
  <2> QED BY <1>1, <1>5, <2>1, QuietStep
<1> QED BY <1>3, <1>4, <1>5 DEF GcRelease

LEMMA GcDeleteStep ==
  ASSUME IInv, TypeOK', NEW c \in Cids, GcDelete(c)
  PROVE  IInv'
<1>1. /\ UNCHANGED <<rec, job, pin, pc, files, todo, baseline, active, repairing, repairToken,
                     gcPc, gcFresh>>
      /\ gcPc = "delete" /\ (gcReleased' = gcReleased \/ gcReleased' = {})
  BY DEF GcDelete, gcKeep, uploadVars, repairVars, gcDone
<1>2. CollectorOK'
  BY <1>1 DEF IInv, CollectorOK
<1> QED BY <1>1, <1>2, QuietStep

\* Only what the collector released itself is removed, and that has no owner.
LEMMA GcCleanupStep ==
  ASSUME ConfigAssumption, IInv, TypeOK', NEW c \in Cids, GcCleanup(c)
  PROVE  IInv' /\ (Durable(rec[c]) => Durable(rec'[c]))
<1>1. /\ UNCHANGED <<job, pin, pc, files, todo, baseline, active, repairing, repairToken,
                     gcPc, gcReleased>>
      /\ gcTodo' \subseteq gcTodo /\ Unlocked(c) /\ gcPc = "cleanup" /\ c \in gcTodo
  BY DEF GcCleanup, gcKeep, uploadVars, repairVars, gcMay, gcDone
<1>2. rec \in [Cids -> Record]
  BY DEF IInv, TypeOK
<1>3. CASE c \in gcFresh /\ save(c, Absent)
  <2>1. /\ rec'[c] = Absent /\ gcFresh' = gcFresh \ {c}
        /\ \A d \in Cids \ {c} : rec'[d] = rec[d]
    BY <1>2, <1>3 DEF save
  <2>2. rec[c].state = "expired"
    BY <1>1, <1>3 DEF IInv, CollectorOK
  <2>3. (\A r \in Requests : c \notin Registered(r)) /\ c \notin repairing
    BY <2>2, OwnerActive, BrokenFile
  <2>4. IInv'
    BY <1>1, <2>1, <2>3, AbsentOK, WriteStep
  <2> QED BY <2>2, <2>4 DEF Durable
<1>4. CASE UNCHANGED <<rec, gcFresh>>
  <2>1. CollectorOK'
    BY <1>1, <1>4, CollectorKept DEF IInv
  <2> QED BY <1>1, <1>4, <2>1, QuietStep
<1> QED BY <1>3, <1>4 DEF GcCleanup, stillReleased

LEMMA GcPassStep ==
  ASSUME IInv, TypeOK', GcStart \/ GcPass
  PROVE  IInv'
<1>1. UNCHANGED <<rec, job, pin, pc, files, todo, baseline, active, repairing, repairToken>>
  BY DEF GcStart, GcPass, GcDemoteStart, GcPlan, GcReleaseStart, GcKeepBlocks, GcAskLease,
         GcLease, GcCleanupStart, GcEnd, gcKeep, storeVars, uploadVars, repairVars
<1>2. CollectorOK
  BY DEF IInv
<1>3. CollectorOK'
  <2> USE DEF CollectorOK, gcGoto, gcOver, GcKinds
  <2>1. CASE GcStart
    BY <1>1, <1>2, <2>1 DEF GcStart
  <2>2. CASE GcDemoteStart
    BY <1>1, <1>2, <2>2 DEF GcDemoteStart
  <2>3. CASE GcPlan
    BY <1>1, <1>2, <2>3 DEF GcPlan
  <2>4. CASE GcReleaseStart
    BY <1>1, <1>2, <2>4 DEF GcReleaseStart
  <2>5. CASE GcKeepBlocks
    BY <1>1, <1>2, <2>5 DEF GcKeepBlocks
  <2>6. CASE GcAskLease
    BY <1>1, <1>2, <2>6 DEF GcAskLease
  <2>7. CASE GcLease
    BY <1>1, <1>2, <2>7 DEF GcLease
  <2>8. CASE GcCleanupStart
    BY <1>1, <1>2, <2>8 DEF GcCleanupStart
  <2>9. CASE GcEnd
    BY <1>1, <1>2, <2>9 DEF GcEnd
  <2> QED BY <2>1, <2>2, <2>3, <2>4, <2>5, <2>6, <2>7, <2>8, <2>9 DEF GcPass
<1> QED BY <1>1, <1>3, QuietStep

-----------------------------------------------------------------------------
(* Repair, restart and reconciliation *)

\* The token of a settled file that has no running handler belongs to a
\* request that has ended, and ended requests never run again.
LEMMA RepairClaimStep ==
  ASSUME IInv, TypeOK', NEW c \in Cids, RepairClaim(c)
  PROVE  IInv'
<1>1. /\ UNCHANGED <<rec, job, pin, pc, files, todo, baseline, active, gcPc, gcTodo,
                     gcReleased, gcFresh>>
      /\ Unlocked(c) /\ isSettledHeldFile(c) /\ repairing' = repairing \cup {c}
  BY DEF RepairClaim, repairKeep, uploadVars
<1>2. /\ repairToken'[c] = rec[c].adm
      /\ \A d \in Cids \ {c} : repairToken'[d] = repairToken[d]
  BY DEF RepairClaim, IInv, TypeOK
<1>3. rec[c].adm = NoReq \/ pc[rec[c].adm] = "done"
  <2>1. /\ rec[c].adm \in Tokens /\ Claimed(rec[c].adm) /\ rec[c].adm \notin active
        /\ pc \in [Requests -> Pcs]
    BY <1>1 DEF IInv, TypeOK, Record, CidOK, RecordsOK, RecordOK, isSettledHeldFile
  <2>2. CASE rec[c].adm \in Requests
    <3>1. pc[rec[c].adm] \in Pcs /\ pc[rec[c].adm] \notin HandlerPcs
      BY <2>1, <2>2 DEF IInv, ActiveOK
    <3>2. rec[c].adm = NoReq \/ pc[rec[c].adm] \notin {"idle", "imported", "aborting"}
      BY <2>1 DEF Claimed
    <3> QED BY <3>1, <3>2 DEF Pcs, HandlerPcs, LeasedPcs
  <2> QED BY <2>1, <2>2 DEF Tokens
<1>4. RepairTokensDone'
  BY <1>1, <1>2, <1>3 DEF IInv, RepairTokensDone
<1>5. ASSUME NEW d \in Cids PROVE CidOK(d)'
  <2>1. RecordsOK(d) /\ JobOK(d) /\ RepairOK(d)
    BY DEF IInv, CidOK
  <2>2. RecordsOK(d)' /\ JobOK(d)'
    BY <1>1, <2>1 DEF RecordsOK, RecordOK, Claimed, JobOK, HeldByUpload
  <2>3. CASE d = c
    <3>1. job[c].kind = "none" /\ Durable(rec[c])
      BY <1>1 DEF Unlocked, isSettledHeldFile
    <3>2. RepairOK(c)'
      BY <1>1, <1>2, <3>1 DEF RepairOK, Kept, Durable
    <3> QED BY <2>2, <2>3, <3>2 DEF CidOK
  <2>4. CASE d # c
    <3>1. RepairOK(d)'
      BY <1>1, <1>2, <2>1, <2>4 DEF RepairOK, Kept, Durable
    <3> QED BY <2>2, <3>1 DEF CidOK
  <2> QED BY <2>3, <2>4
<1>6. BaselinesOK' /\ ActiveOK' /\ LocksOK' /\ OneJob' /\ RestoringOwned' /\ CollectorOK'
  BY <1>1 DEF IInv, BaselinesOK, RecordOK, Claimed, ActiveOK, LocksOK, OneJob,
              RestoringOwned, CollectorOK
<1>7. Owned'
  BY <1>1 DEF IInv, Owned, Owns, Registered
<1> QED BY <1>4, <1>5, <1>6, <1>7 DEF IInv

LEMMA RepairEndStep ==
  ASSUME IInv, TypeOK', NEW c \in Cids, RepairEnd(c)
  PROVE  IInv'
<1>1. /\ UNCHANGED <<rec, job, pin, pc, files, todo, baseline, active, gcPc, gcTodo,
                     gcReleased, gcFresh>>
      /\ repairing' = repairing \ {c}
  BY DEF RepairEnd, repairKeep, uploadVars
<1>2. /\ repairToken'[c] = NoReq
      /\ \A d \in Cids \ {c} : repairToken'[d] = repairToken[d]
  BY DEF RepairEnd, IInv, TypeOK
<1>3. RepairTokensDone'
  BY <1>1, <1>2 DEF IInv, RepairTokensDone
<1>4. ASSUME NEW d \in Cids PROVE CidOK(d)'
  <2>1. RecordsOK(d) /\ JobOK(d) /\ RepairOK(d)
    BY DEF IInv, CidOK
  <2>2. RecordsOK(d)' /\ JobOK(d)'
    BY <1>1, <2>1 DEF RecordsOK, RecordOK, Claimed, JobOK, HeldByUpload
  <2>3. RepairOK(d)'
    BY <1>1, <1>2, <2>1 DEF RepairOK, Kept, Durable
  <2> QED BY <2>2, <2>3 DEF CidOK
<1>5. BaselinesOK' /\ ActiveOK' /\ LocksOK' /\ OneJob' /\ RestoringOwned' /\ CollectorOK'
  BY <1>1 DEF IInv, BaselinesOK, RecordOK, Claimed, ActiveOK, LocksOK, OneJob,
              RestoringOwned, CollectorOK
<1>6. Owned'
  BY <1>1 DEF IInv, Owned, Owns, Registered
<1> QED BY <1>3, <1>4, <1>5, <1>6 DEF IInv

LEMMA RescueStep ==
  ASSUME ConfigAssumption, IInv, TypeOK', NEW c \in Cids, Rescue(c)
  PROVE  IInv'
<1>1. /\ UNCHANGED <<rec, pc, files, todo, baseline, active, repairing, repairToken,
                     gcPc, gcTodo, gcReleased, gcFresh>>
      /\ Unlocked(c) /\ ~rec[c].held
      /\ \A d \in Cids \ {c} : d \in pin' <=> d \in pin
  BY DEF Rescue, repairKeep, repairVars, uploadVars, pinFile
<1>2. job \in [Cids -> Job] /\ rec[c] \in Record
  BY DEF IInv, TypeOK
<1>3. /\ job'[c].kind = "rescue" /\ job'[c].prev = rec[c] /\ job'[c].next = Rescued(rec[c])
      /\ \A d \in Cids \ {c} : job'[d] = job[d]
  BY <1>2 DEF Rescue, Pending
<1>4. RecordOK(job'[c].next) /\ ~Durable(rec[c]) /\ job'[c].kind \in OwnKinds
  BY <1>1, <1>2, <1>3, FormsOK DEF Durable, OwnKinds
<1>5. (\A r \in Requests : c \notin Registered(r)) /\ c \notin repairing
  BY <1>1, OwnerActive, BrokenFile DEF Owns
<1> QED BY <1>1, <1>3, <1>4, <1>5, BeginStep

LEMMA BackfillStep ==
  ASSUME ConfigAssumption, IInv, TypeOK', NEW c \in Cids,
         BackfillRead(c) \/ BackfillCreate(c)
  PROVE  IInv' /\ (Durable(rec[c]) => Durable(rec'[c]))
<1>1. UNCHANGED <<job, pin, pc, files, todo, baseline, active, repairing, repairToken,
                  gcPc, gcTodo, gcReleased>>
  BY DEF BackfillRead, BackfillCreate, bootKeep, repairVars, uploadVars
<1>2. CASE UNCHANGED <<rec, gcFresh>>
  <2>1. CollectorOK'
    BY <1>1, <1>2, CollectorKept DEF IInv
  <2> QED BY <1>1, <1>2, <2>1, QuietStep
<1>3. CASE Unlocked(c) /\ rec[c].state = "absent"
           /\ \E s \in {"temporary", "confirmed"} :
                save(c, [Absent EXCEPT !.pinned = TRUE, !.held = TRUE, !.state = s])
  <2>1. PICK s \in {"temporary", "confirmed"} :
          save(c, [Absent EXCEPT !.pinned = TRUE, !.held = TRUE, !.state = s])
    BY <1>3
  <2>2. rec \in [Cids -> Record]
    BY DEF IInv, TypeOK
  <2>3. /\ rec'[c] = [Absent EXCEPT !.pinned = TRUE, !.held = TRUE, !.state = s]
        /\ \A d \in Cids \ {c} : rec'[d] = rec[d]
        /\ gcFresh' = gcFresh \ {c}
    BY <2>1, <2>2 DEF save
  <2>4. RecordOK(rec'[c])
    BY <2>3 DEF RecordOK, Absent, Claimed
  <2>5. (\A r \in Requests : c \notin Registered(r)) /\ c \notin repairing
    BY <1>3, OwnerActive, BrokenFile
  <2>6. IInv'
    BY <1>1, <1>3, <2>3, <2>4, <2>5, WriteStep
  <2> QED BY <1>3, <2>6 DEF Durable
<1> QED
  BY <1>2, <1>3 DEF BackfillRead, BackfillCreate

\* A crash takes the handlers, the locks and the running repair with it.
LEMMA CrashStep ==
  ASSUME IInv, TypeOK', CrashAndRestart
  PROVE  IInv'
<1>1. /\ UNCHANGED <<rec, pin>> /\ active' = {} /\ repairing' = {}
      /\ gcPc' = "idle" /\ gcTodo' = {} /\ gcReleased' = {}
      /\ \A r \in Requests : /\ pc'[r] = (IF pc[r] = "idle" THEN "idle" ELSE "done")
                             /\ \A c \in Cids : baseline'[r][c] = Absent
      /\ \A c \in Cids : job'[c] = NoJob /\ repairToken'[c] = NoReq
  BY DEF CrashAndRestart, storeVars, gcGoto
<1>2. \A c \in Cids : /\ job'[c].kind = "none"
                      /\ job'[c].next = Absent /\ job'[c].prev = Absent
  BY <1>1 DEF NoJob
<1>3. \A r \in Requests : Claimed(r) => Claimed(r)'
  BY <1>1 DEF Claimed
<1>4. BaselinesOK'
  BY <1>1 DEF BaselinesOK, RecordOK, Claimed, Absent
<1>5. ActiveOK' /\ LocksOK' /\ RestoringOwned'
  BY <1>1 DEF ActiveOK, HandlerPcs, LocksOK, LockedPcs, RestoringOwned
<1>6. ASSUME NEW c \in Cids PROVE CidOK(c)'
  <2>1. rec[c] \in Record /\ RecordOK(rec[c]) /\ TypeOK
    BY DEF IInv, TypeOK, CidOK, RecordsOK
  <2>2. RecordOK(rec[c])'
    BY <1>1, <1>3, <2>1 DEF RecordOK, Claimed, Record, Tokens
  <2>3. RecordOK(job[c].next)' /\ RecordOK(job[c].prev)'
    BY <1>2 DEF RecordOK, Claimed, Absent
  <2>4. JobOK(c)' /\ RepairOK(c)'
    BY <1>1, <1>2 DEF JobOK, UploadKinds, OwnKinds, RepairOK
  <2> QED BY <2>2, <2>3, <2>4 DEF CidOK, RecordsOK
<1>7. OneJob' /\ RepairTokensDone' /\ CollectorOK'
  BY <1>1, <1>2 DEF OneJob, UploadKinds, RepairTokensDone, CollectorOK
<1>8. Owned'
  BY <1>1 DEF Owned, Registered
<1> QED BY <1>4, <1>5, <1>6, <1>7, <1>8 DEF IInv

-----------------------------------------------------------------------------
(* The inductive invariant *)

LEMMA Inductive ==
  ASSUME ConfigAssumption, IInv, [Next]_vars
  PROVE  IInv'
<1>1. TypeOK'
  BY TypeStep DEF IInv
<1>2. CASE UNCHANGED vars
  <2>1. UNCHANGED <<rec, job, pin, pc, files, todo, baseline, active, repairing, repairToken,
                    gcPc, gcTodo, gcReleased, gcFresh>>
    BY <1>2 DEF vars, storeVars, uploadVars, repairVars, gcVars
  <2>2. CollectorOK'
    BY <2>1, CollectorKept DEF IInv
  <2> QED BY <1>1, <2>1, <2>2, QuietStep
<1>3. ASSUME NEW r \in Requests, Upload(r) PROVE IInv'
  <2>1. ASSUME NEW c \in Cids,
               \/ MarkPinIntent(r, c) \/ PinUpload(r, c) \/ RegisterUpload(r, c)
               \/ RefuseUpload(r, c) \/ RestoreRefused(r, c)
               \/ UndoUpload(r, c) \/ RestoreUpload(r, c) \/ CheckCreatedBlock(r, c)
               \/ SettleUpload(r, c) \/ ClearSettledAdmission(r, c)
        PROVE  IInv'
    BY <1>1, <2>1, MarkPinIntentStep, PinUploadStep, RegisterUploadStep, RefuseUploadStep,
       RestoreRefusedStep, UndoUploadStep, RestoreUploadStep, CheckCreatedBlockStep,
       SettleUploadStep, ClearSettledAdmissionStep
  <2> QED
    BY <1>1, <1>3, <2>1, RequestActions, QuietFileSteps DEF Upload
<1>4. ASSUME NEW c \in Cids, ClientCall(c) PROVE IInv'
  BY <1>1, <1>4, ConfirmReleaseStep, RegisterPinnedStep, SetReplicasStep, StageStep,
     CommitStep, AbortStep DEF ClientCall
<1>5. ASSUME NEW c \in Cids, GcLoop(c) PROVE IInv'
  <2>1. CASE GcRecover(c)
    <3>1. /\ UNCHANGED <<job, pin, pc, files, todo, baseline, active, repairing, repairToken,
                         gcPc, gcReleased>>
          /\ gcTodo' \subseteq gcTodo /\ Unlocked(c) /\ recoverAdmission(c)
      BY <2>1 DEF GcRecover, gcKeep, uploadVars, repairVars, gcMay, gcDone
    <3> QED BY <1>1, <3>1, RecoverStep
  <2> QED
    BY <1>1, <1>5, <2>1, GcDemoteStep, GcGuardStep, GcReleaseStep, GcDeleteStep,
       GcCleanupStep DEF GcLoop
<1>6. ASSUME NEW c \in Cids, Repair(c) PROVE IInv'
  <2>1. CASE RepairClear(c)
    <3>1. /\ UNCHANGED <<job, pin, pc, files, todo, baseline, active, repairing, repairToken,
                         gcPc, gcTodo, gcReleased>>
          /\ rec[c].adm \notin active /\ Unlocked(c) /\ save(c, Unowned(rec[c]))
      BY <2>1 DEF RepairClear, repairKeep, uploadVars, repairVars
    <3> QED BY <1>1, <3>1, ClearTokenStep
  <2> QED
    BY <1>1, <1>6, <2>1, RepairClaimStep, RepairEndStep, RescueStep DEF Repair
<1>7. ASSUME NEW c \in Cids, Boot(c) PROVE IInv'
  <2>1. CASE StartupRecover(c)
    <3>1. /\ UNCHANGED <<job, pin, pc, files, todo, baseline, active, repairing, repairToken,
                         gcPc, gcTodo, gcReleased>>
          /\ Unlocked(c) /\ recoverAdmission(c)
      BY <2>1 DEF StartupRecover, bootKeep, uploadVars, repairVars
    <3> QED BY <1>1, <3>1, RecoverStep
  <2> QED BY <1>1, <1>7, <2>1, BackfillStep DEF Boot
<1> QED
  BY <1>1, <1>2, <1>3, <1>4, <1>5, <1>6, <1>7, WriteRecordStep, SaveFailsStep, GcPassStep,
     CrashStep DEF Next

LEMMA Initially == ConfigAssumption /\ Init => IInv
<1> SUFFICES ASSUME ConfigAssumption, Init PROVE IInv
  OBVIOUS
<1>1. TypeOK
  BY TypeInit
<1>2. /\ \A c \in Cids : rec[c] = Absent /\ job[c] = NoJob /\ repairToken[c] = NoReq
      /\ \A r \in Requests : pc[r] = "idle" /\ \A c \in Cids : baseline[r][c] = Absent
      /\ active = {} /\ repairing = {} /\ gcReleased = {} /\ gcPc = "idle"
  BY DEF Init
<1>3. \A c \in Cids : /\ job[c].kind = "none"
                      /\ job[c].next = Absent /\ job[c].prev = Absent
  <2>1. \A c \in Cids : job[c] = NoJob
    BY <1>2
  <2>2. NoJob.kind = "none" /\ NoJob.next = Absent /\ NoJob.prev = Absent
    BY DEF NoJob
  <2> QED BY <2>1, <2>2
<1>4. BaselinesOK
  BY <1>2, AbsentOK DEF BaselinesOK
<1>5. ActiveOK /\ LocksOK /\ RestoringOwned
  BY <1>2 DEF ActiveOK, HandlerPcs, LocksOK, LockedPcs, RestoringOwned
<1>6. \A c \in Cids : RecordsOK(c)
  BY <1>2, <1>3, AbsentOK DEF RecordsOK
<1>7. \A c \in Cids : JobOK(c) /\ RepairOK(c)
  BY <1>2, <1>3 DEF JobOK, UploadKinds, OwnKinds, RepairOK
<1>8. OneJob /\ RepairTokensDone /\ CollectorOK
  BY <1>2, <1>3 DEF OneJob, UploadKinds, RepairTokensDone, CollectorOK
<1>9. Owned
  BY <1>2 DEF Owned, Registered
<1> QED BY <1>1, <1>4, <1>5, <1>6, <1>7, <1>8, <1>9 DEF IInv, CidOK

-----------------------------------------------------------------------------
(* Durable content is given up by decision *)

\* Only one record changes in a step.
LEMMA OneRecord ==
  ASSUME NEW c \in Cids, \A d \in Cids \ {c} : rec'[d] = rec[d],
         Durable(rec[c]) /\ ~Durable(rec'[c]) =>
           job[c].kind \in {"release", "demote", "undo", "refused", "baseline"}
  PROVE  DurableDecided
BY DEF DurableDecided

LEMMA ClearedDurable ==
  ASSUME IInv, NEW c \in Cids, save(c, Unowned(rec[c]))
  PROVE  DurableDecided
<1>1. rec \in [Cids -> Record] /\ RecordOK(rec[c]) /\ rec[c] \in Record
  BY DEF IInv, TypeOK, CidOK, RecordsOK
<1>2. rec'[c] = Unowned(rec[c]) /\ \A d \in Cids \ {c} : rec'[d] = rec[d]
  BY <1>1 DEF save
<1>3. Durable(Unowned(rec[c])) <=> Durable(rec[c])
  BY <1>1, UnownedOK
<1> QED BY <1>2, <1>3, OneRecord

LEMMA DecidedUpload ==
  ASSUME ConfigAssumption, IInv, TypeOK', NEW r \in Requests, Upload(r)
  PROVE  DurableDecided
<1>1. rec \in [Cids -> Record]
  BY DEF IInv, TypeOK
<1>2. CASE UNCHANGED rec
  BY <1>2 DEF DurableDecided
<1>3. ASSUME NEW c \in Cids, RegisterUpload(r, c) PROVE DurableDecided
  <2>1. \A d \in Cids \ {c} : rec'[d] = rec[d]
    BY <1>1, <1>3 DEF RegisterUpload, save
  <2>2. Durable(rec[c]) => Durable(rec'[c])
    BY <1>3, RegisterUploadStep
  <2> QED BY <2>1, <2>2, OneRecord
<1>4. ASSUME NEW c \in Cids, RestoreRefused(r, c) \/ RestoreUpload(r, c) PROVE DurableDecided
  <2>1. \A d \in Cids \ {c} : rec'[d] = rec[d]
    BY <1>1, <1>4 DEF RestoreRefused, RestoreUpload, save
  <2>2. job[c].kind \in {"refused", "undo"}
    BY <1>4 DEF RestoreRefused, RestoreUpload
  <2> QED BY <2>1, <2>2, OneRecord
<1>5. ASSUME NEW c \in Cids, SettleUpload(r, c) \/ ClearSettledAdmission(r, c)
      PROVE  DurableDecided
  <2>1. \A d \in Cids \ {c} : rec'[d] = rec[d]
    BY <1>1, <1>5 DEF SettleUpload, ClearSettledAdmission, save
  <2>2. Durable(rec[c]) => Durable(rec'[c])
    BY <1>5, SettleUploadStep, ClearSettledAdmissionStep
  <2> QED BY <2>1, <2>2, OneRecord
<1>6. ASSUME NEW c \in Cids,
             \/ MarkPinIntent(r, c) \/ PinUpload(r, c) \/ ClearPinIntent(r, c)
             \/ RefuseUpload(r, c) \/ UndoUpload(r, c) \/ CheckCreatedBlock(r, c)
      PROVE  UNCHANGED rec
  BY <1>6 DEF MarkPinIntent, PinUpload, ClearPinIntent, RefuseUpload, UndoUpload,
              CheckCreatedBlock, storeVars
<1>7. CASE \/ ImportFiles(r) \/ DisconnectUpload(r) \/ ClaimUpload(r)
           \/ CleanUpSession(r) \/ DeleteCreatedBlock(r) \/ CommitSession(r)
           \/ PlaceReplicas(r) \/ RollbackAdmitted(r) \/ FinalizeAdmitted(r)
           \/ FinalizeFails(r) \/ SettledUpload(r) \/ CommitUpload(r) \/ EndUpload(r)
  BY <1>2, <1>7 DEF ImportFiles, DisconnectUpload, ClaimUpload, CleanUpSession,
     DeleteCreatedBlock, CommitSession, PlaceReplicas, RollbackAdmitted, FinalizeAdmitted,
     FinalizeFails, SettledUpload, CommitUpload, EndUpload, storeVars
<1> QED
  BY <1>2, <1>3, <1>4, <1>5, <1>6, <1>7 DEF Upload

LEMMA DecidedWrite ==
  ASSUME ConfigAssumption, IInv, NEW c \in Cids,
         WriteRecord(c) \/ \E persisted \in BOOLEAN : SaveFails(c, persisted)
  PROVE  DurableDecided
<1>1. /\ rec \in [Cids -> Record] /\ JobOK(c) /\ job[c].kind \in Kinds
  BY DEF IInv, TypeOK, CidOK, Job
<1>2. /\ \A d \in Cids \ {c} : rec'[d] = rec[d]
      /\ rec'[c] = job[c].next \/ rec'[c] = rec[c]
      /\ job[c].kind \in OwnKinds \cup FaultyWrites
  BY <1>1 DEF WriteRecord, SaveFails, save
<1>3. job[c].kind \in OwnKinds \cup {"admit", "undo"}
  BY <1>1, <1>2 DEF ConfigAssumption, Kinds, OwnKinds
<1>4. CASE job[c].kind \in {"release", "demote", "undo", "refused", "baseline"}
  BY <1>2, <1>4, OneRecord
<1>5. CASE job[c].kind \notin {"release", "demote", "undo", "refused", "baseline"}
  <2>1. Durable(rec[c]) => Durable(job[c].next)
    BY <1>1, <1>3, <1>5 DEF JobOK, OwnKinds
  <2> QED BY <1>2, <2>1, OneRecord
<1> QED BY <1>4, <1>5

LEMMA DecidedCid ==
  ASSUME ConfigAssumption, IInv, TypeOK', NEW c \in Cids,
         ClientCall(c) \/ GcLoop(c) \/ Repair(c) \/ Boot(c)
  PROVE  DurableDecided
<1>1. rec \in [Cids -> Record] /\ RecordOK(rec[c])
  BY DEF IInv, TypeOK, CidOK, RecordsOK
<1>2. CASE UNCHANGED rec
  BY <1>2 DEF DurableDecided
<1>3. ASSUME NEW t \in Txs, Commit(c, t) \/ Abort(c, t) PROVE DurableDecided
  <2>1. CASE UNCHANGED rec
    BY <1>2, <2>1
  <2>2. CASE /\ rec[c].stage # {}
             /\ \A d \in Cids \ {c} : rec'[d] = rec[d]
    <3>1. ~Durable(rec[c])
      BY <1>1, <2>2 DEF RecordOK, Durable
    <3> QED BY <2>2, <3>1, OneRecord
  <2> QED BY <1>1, <1>3, <2>1, <2>2 DEF Commit, Abort, save
<1>4. CASE GcCleanup(c)
  <2>1. Durable(rec[c]) => Durable(rec'[c])
    BY <1>4, GcCleanupStep
  <2>2. \A d \in Cids \ {c} : rec'[d] = rec[d]
    BY <1>1, <1>4 DEF GcCleanup, save
  <2> QED BY <2>1, <2>2, OneRecord
<1>5. CASE GcRecover(c) \/ StartupRecover(c) \/ RepairClear(c)
  BY <1>2, <1>5, ClearedDurable DEF GcRecover, StartupRecover, RepairClear, recoverAdmission
<1>6. CASE BackfillRead(c) \/ BackfillCreate(c)
  <2>1. Durable(rec[c]) => Durable(rec'[c])
    BY <1>6, BackfillStep
  <2>2. \A d \in Cids \ {c} : rec'[d] = rec[d]
    BY <1>1, <1>6 DEF BackfillRead, BackfillCreate, save
  <2> QED BY <2>1, <2>2, OneRecord
<1>7. CASE Confirm(c) \/ Adopt(c) \/ Store(c) \/ Release(c) \/ SetReplicas(c)
           \/ \E t \in Txs : Stage(c, t)
  BY <1>2, <1>7 DEF Confirm, Adopt, Store, Release, SetReplicas, Stage, storeVars
<1>8. CASE GcDemote(c) \/ GcGuard(c) \/ GcRelease(c) \/ GcDelete(c)
  BY <1>2, <1>8 DEF GcDemote, GcGuard, GcRelease, GcDelete
<1>9. CASE RepairClaim(c) \/ RepairEnd(c) \/ Rescue(c)
  BY <1>2, <1>9 DEF RepairClaim, RepairEnd, Rescue
<1> QED
  BY <1>3, <1>4, <1>5, <1>6, <1>7, <1>8, <1>9 DEF ClientCall, GcLoop, Repair, Boot

LEMMA Decided ==
  ASSUME ConfigAssumption, IInv, IInv', [Next]_vars
  PROVE  DurableDecided
<1>1. TypeOK'
  BY DEF IInv
<1>2. CASE UNCHANGED rec
  BY <1>2 DEF DurableDecided
<1>3. CASE GcStart \/ GcPass \/ CrashAndRestart \/ UNCHANGED vars
  BY <1>2, <1>3 DEF GcStart, GcPass, GcDemoteStart, GcPlan, GcReleaseStart, GcKeepBlocks,
     GcAskLease, GcLease, GcCleanupStart, GcEnd, CrashAndRestart, storeVars, vars
<1> QED
  BY <1>1, <1>3, DecidedUpload, DecidedWrite, DecidedCid DEF Next

-----------------------------------------------------------------------------
(* Theorems about every node *)

\* The inductive invariant holds in every behaviour of the node.
THEOREM Invariance == ConfigAssumption => (Spec => []IInv)
<1> SUFFICES ASSUME ConfigAssumption PROVE Spec => []IInv
  OBVIOUS
<1>1. Init => IInv
  BY Initially
<1>2. IInv /\ [Next]_vars => IInv'
  BY Inductive
<1> QED BY <1>1, <1>2, PTL DEF Spec

\* Every record, pending operation and set of the node keeps its shape, and
\* every record that is written is one isFileRecord accepts.
THEOREM TypeCorrect == ConfigAssumption => (Spec => []TypeOK)
<1>1. IInv => TypeOK
  BY DEF IInv
<1> QED BY <1>1, Invariance, PTL

\* From its registration to the end of its handler a file belongs to the
\* request that registered it, and stays pinned for it: no confirm, release,
\* store, stage, collection, repair, recovery or rejected write changes that,
\* although the handler holds no lock while it talks to peers.
THEOREM OwnedByItsRequest == ConfigAssumption => (Spec => []OwnershipExclusive)
<1>1. IInv => OwnershipExclusive
  BY DEF IInv, Owned, Owns, OwnershipExclusive
<1> QED BY <1>1, Invariance, PTL

\* The copy a repair counts on stays durable, under the token the repair saw
\* or none, until the repair ends.
THEOREM RepairUndisturbed == ConfigAssumption => (Spec => []RepairStable)
<1>1. IInv => RepairStable
  BY DEF IInv, TypeOK, CidOK, RepairOK, Kept, RepairStable
<1> QED BY <1>1, Invariance, PTL

\* Durable content stops being durable only in the write of a release, of a
\* handover, or of the record an operation had replaced: never by a collection
\* plan, a recovery, a stage, a restart or a crash.
THEOREM DurableUntilDecided == ConfigAssumption => (Spec => DurableOnlyByDecision)
<1> SUFFICES ASSUME ConfigAssumption PROVE Spec => DurableOnlyByDecision
  OBVIOUS
<1>1. IInv /\ IInv' /\ [Next]_vars => [DurableDecided]_vars
  BY Decided
<1>2. Spec => []IInv
  BY Invariance
<1> QED BY <1>1, <1>2, PTL DEF Spec, DurableOnlyByDecision

-----------------------------------------------------------------------------
(* Record and pin agree while nothing fails *)

\* What holds of every record here: pinned and held agree, a prepared copy is held,
\* and what has expired is not.
Consistent(f) == /\ f.held <=> f.pinned
                 /\ f.stage # {} => f.held
                 /\ f.state \in {"absent", "expired"} => ~f.held

\* The files a rollback of this request would restore.
Undoable(r) == IF pc[r] = "admitting" THEN files[r] \ todo[r]
               ELSE IF pc[r] \in {"restoring", "undoing"} THEN todo[r]
               ELSE IF pc[r] \in {"placing", "rollback", "finalizing"} THEN files[r] ELSE {}

\* A pin that a request did not create was there before its registration.
FoundPinned(r, c) == c \in Undoable(r) => c \in created[r] \/ baseline[r][c].held

\* Pin and record agree, or the pending operation writes a record that agrees.
Agree(c) ==
  LET j == job[c] IN
  /\ j.kind \in {"none", "intent"} => (c \in pin <=> rec[c].held)
  /\ j.kind \in OwnKinds \cup {"admit", "undo"} => (c \in pin <=> j.next.held)
  /\ j.kind = "refused" => (c \in pin <=> j.prev.held)
  /\ j.kind = "busy" => c \in pin /\ (j.undoPin = "unpin" <=> ~j.prev.held)
  /\ j.kind = "admit" => c \in created[j.by] \/ j.prev.held

StoreOK(c) ==
  /\ Agree(c)
  /\ Consistent(rec[c]) /\ Consistent(job[c].next) /\ Consistent(job[c].prev)
  /\ \A r \in Requests : Consistent(baseline[r][c]) /\ FoundPinned(r, c)

StoresInv == Reconciled /\ \A c \in Cids : StoreOK(c)

LEMMA ConsistentShapes ==
  ASSUME NEW f \in Record, Consistent(f)
  PROVE  /\ Consistent(Unowned(f)) /\ (Unowned(f).held <=> f.held)
         /\ Consistent([f EXCEPT !.settled = TRUE])
         /\ [f EXCEPT !.settled = TRUE].held <=> f.held
         /\ Consistent(Confirmed(f)) /\ Confirmed(f).held
         /\ Consistent(Released(f)) /\ ~Released(f).held
         /\ Consistent(Demoted(f)) /\ ~Demoted(f).held
         /\ f.state = "confirmed" => Consistent(Rescued(f)) /\ Rescued(f).held
         /\ Consistent(expiredBaseline(f)) /\ ~expiredBaseline(f).held
BY DEF Consistent, Record, Unowned, Confirmed, Released, Demoted, Rescued, expiredBaseline,
       Plain, Unstaged

LEMMA AbsentConsistent ==
  Consistent(Absent) /\ ~Absent.held /\ Consistent(NoJob.next) /\ Consistent(NoJob.prev)
BY DEF Consistent, Absent, NoJob

\* A step that leaves a content alone.
LEMMA StoreKept ==
  ASSUME NEW d \in Cids, StoreOK(d), JobOK(d),
         rec'[d] = rec[d], job'[d] = job[d], d \in pin' <=> d \in pin,
         \A r \in Requests : baseline'[r][d] \in {baseline[r][d], Absent},
         \A r \in Requests : d \in Undoable(r)' =>
           d \in Undoable(r) /\ baseline'[r][d] = baseline[r][d],
         \A r \in Requests : d \in created[r] =>
           \/ d \in created'[r]
           \/ d \notin Undoable(r)' /\ (d \notin files[r] \/ job[d].kind = "none")
  PROVE  StoreOK(d)'
<1>1. Agree(d)'
  BY DEF StoreOK, Agree, JobOK, UploadKinds
<1>2. \A r \in Requests : Consistent(baseline'[r][d])
  BY AbsentConsistent DEF StoreOK
<1>3. ASSUME NEW r \in Requests PROVE FoundPinned(r, d)'
  BY <1>3 DEF StoreOK, FoundPinned
<1> QED BY <1>1, <1>2, <1>3 DEF StoreOK, Consistent

\* The first half of an operation that no handler runs.
LEMMA StoreBegins ==
  ASSUME IInv, StoresInv, NEW c \in Cids, Unlocked(c),
         UNCHANGED <<rec, pc, files, todo, baseline, created, recovery, backfill>>,
         \A d \in Cids \ {c} : job'[d] = job[d] /\ (d \in pin' <=> d \in pin),
         job'[c].kind \in OwnKinds, job'[c].prev = rec[c],
         Consistent(job'[c].next), c \in pin' <=> job'[c].next.held
  PROVE  StoresInv'
<1>1. Reconciled'
  BY DEF StoresInv, Reconciled
<1>2. \A r \in Requests : Undoable(r)' = Undoable(r)
  BY DEF Undoable
<1>3. ASSUME NEW d \in Cids \ {c} PROVE StoreOK(d)'
  <2>1. StoreOK(d) /\ JobOK(d)
    BY DEF StoresInv, IInv, CidOK
  <2> QED BY <1>2, <2>1, StoreKept
<1>4. StoreOK(c)'
  <2>1. StoreOK(c)
    BY DEF StoresInv
  <2>2. Agree(c)'
    BY DEF Agree, OwnKinds
  <2>3. \A r \in Requests : FoundPinned(r, c)'
    BY <1>2, <2>1 DEF StoreOK, FoundPinned
  <2> QED BY <2>1, <2>2, <2>3 DEF StoreOK, Consistent
<1> QED BY <1>1, <1>3, <1>4 DEF StoresInv

\* A registry write that keeps what is held, or no write at all.
LEMMA StoreWrites ==
  ASSUME IInv, StoresInv, NEW c \in Cids,
         UNCHANGED <<job, baseline, created, recovery, backfill>>,
         \A d \in Cids : d \in pin' <=> d \in pin,
         \A r \in Requests : Undoable(r)' \subseteq Undoable(r),
         \A d \in Cids \ {c} : rec'[d] = rec[d],
         Consistent(rec'[c]), rec'[c].held <=> rec[c].held
  PROVE  StoresInv'
<1>1. Reconciled'
  BY DEF StoresInv, Reconciled
<1>2. ASSUME NEW d \in Cids \ {c} PROVE StoreOK(d)'
  <2>1. StoreOK(d) /\ JobOK(d)
    BY DEF StoresInv, IInv, CidOK
  <2> QED BY <2>1, StoreKept
<1>3. StoreOK(c)'
  <2>1. StoreOK(c)
    BY DEF StoresInv
  <2>2. Agree(c)'
    BY <2>1 DEF StoreOK, Agree
  <2>3. \A r \in Requests : FoundPinned(r, c)'
    BY <2>1 DEF StoreOK, FoundPinned
  <2> QED BY <2>1, <2>2, <2>3 DEF StoreOK, Consistent
<1> QED BY <1>1, <1>2, <1>3 DEF StoresInv

\* Steps of a handler that change no record, no pin and no pending operation, and leave
\* it no more to undo.
LEMMA RequestUndoable ==
  ASSUME ConfigAssumption, IInv, NEW r \in Requests,
         \/ ImportFiles(r) \/ DisconnectUpload(r) \/ ClaimUpload(r)
         \/ CleanUpSession(r) \/ DeleteCreatedBlock(r) \/ CommitSession(r)
         \/ PlaceReplicas(r) \/ RollbackAdmitted(r) \/ FinalizeAdmitted(r)
         \/ FinalizeFails(r) \/ SettledUpload(r) \/ CommitUpload(r) \/ EndUpload(r)
  PROVE  /\ UNCHANGED <<rec, pin, job, recovery, backfill>>
         /\ \A q \in Requests \ {r} : /\ Undoable(q)' = Undoable(q)
                                     /\ baseline'[q] = baseline[q] /\ created'[q] = created[q]
         /\ \/ UNCHANGED <<baseline, created>> /\ Undoable(r)' \subseteq Undoable(r)
            \/ /\ Undoable(r)' = {} /\ NoJobOf(r)
               /\ \A c \in Cids : baseline'[r][c] = Absent
<1> USE DEF goto, at, storeVars, bootVars
<1>1. /\ pc \in [Requests -> Pcs] /\ files \in [Requests -> SUBSET Cids]
      /\ todo \in [Requests -> SUBSET Cids] /\ created \in [Requests -> SUBSET Cids]
      /\ baseline \in [Requests -> [Cids -> Record]]
  BY DEF IInv, TypeOK
<1>2. UNCHANGED <<rec, pin, job, recovery, backfill>>
  BY DEF ImportFiles, DisconnectUpload, ClaimUpload, CleanUpSession, DeleteCreatedBlock,
     CommitSession, PlaceReplicas, RollbackAdmitted, FinalizeAdmitted, FinalizeFails,
     SettledUpload, CommitUpload, EndUpload
<1>3. \A q \in Requests \ {r} :
        Undoable(q)' = Undoable(q) /\ baseline'[q] = baseline[q] /\ created'[q] = created[q]
  <2>1. \A q \in Requests \ {r} : /\ pc'[q] = pc[q] /\ files'[q] = files[q]
                                  /\ todo'[q] = todo[q] /\ baseline'[q] = baseline[q]
                                  /\ created'[q] = created[q]
    BY <1>1 DEF ImportFiles, DisconnectUpload, ClaimUpload, CleanUpSession, DeleteCreatedBlock,
       CommitSession, PlaceReplicas, RollbackAdmitted, FinalizeAdmitted, FinalizeFails,
       SettledUpload, CommitUpload, EndUpload, finish
  <2> QED BY <2>1 DEF Undoable
<1>4. \/ UNCHANGED <<baseline, created>> /\ Undoable(r)' \subseteq Undoable(r)
      \/ /\ Undoable(r)' = {} /\ NoJobOf(r)
         /\ \A c \in Cids : baseline'[r][c] = Absent
  <2>1. CASE ImportFiles(r) \/ DisconnectUpload(r) \/ ClaimUpload(r)
    BY <1>1, <2>1 DEF ImportFiles, DisconnectUpload, ClaimUpload, Undoable
  <2>2. CASE CleanUpSession(r) \/ DeleteCreatedBlock(r) \/ CommitSession(r)
    BY <1>1, <2>2 DEF CleanUpSession, DeleteCreatedBlock, CommitSession, Undoable
  <2>3. CASE PlaceReplicas(r) \/ RollbackAdmitted(r)
    BY <1>1, <2>3 DEF PlaceReplicas, RollbackAdmitted, Undoable
  <2>4. CASE FinalizeAdmitted(r)
    BY <1>1, <2>4 DEF FinalizeAdmitted, Undoable
  <2>5. CASE FinalizeFails(r)
    BY <1>1, <2>5 DEF FinalizeFails, Undoable
  <2>6. CASE SettledUpload(r) \/ CommitUpload(r)
    BY <1>1, <2>6 DEF SettledUpload, CommitUpload, Undoable
  <2>7. CASE EndUpload(r)
    BY <1>1, <2>7 DEF EndUpload, finish, Undoable
  <2> QED BY <2>1, <2>2, <2>3, <2>4, <2>5, <2>6, <2>7
<1> QED BY <1>2, <1>3, <1>4

LEMMA StoreRequest ==
  ASSUME ConfigAssumption, MaxFaults = 0, IInv, StoresInv, NEW r \in Requests,
         \/ ImportFiles(r) \/ DisconnectUpload(r) \/ ClaimUpload(r)
         \/ CleanUpSession(r) \/ DeleteCreatedBlock(r) \/ CommitSession(r)
         \/ PlaceReplicas(r) \/ RollbackAdmitted(r) \/ FinalizeAdmitted(r)
         \/ FinalizeFails(r) \/ SettledUpload(r) \/ CommitUpload(r) \/ EndUpload(r)
  PROVE  StoresInv'
<1>1. /\ UNCHANGED <<rec, pin, job, recovery, backfill>>
      /\ \A q \in Requests \ {r} :
           Undoable(q)' = Undoable(q) /\ baseline'[q] = baseline[q] /\ created'[q] = created[q]
      /\ \/ UNCHANGED <<baseline, created>> /\ Undoable(r)' \subseteq Undoable(r)
         \/ /\ Undoable(r)' = {} /\ NoJobOf(r)
            /\ \A c \in Cids : baseline'[r][c] = Absent
  BY RequestUndoable
<1>2. ASSUME NEW d \in Cids PROVE StoreOK(d)'
  <2>1. StoreOK(d) /\ JobOK(d)
    BY DEF StoresInv, IInv, CidOK
  <2>2. d \in created[r] => \/ d \in created'[r]
                            \/ d \notin Undoable(r)' /\ (d \notin files[r] \/ job[d].kind = "none")
    BY <1>1 DEF NoJobOf
  <2>3. /\ baseline'[r][d] \in {baseline[r][d], Absent}
        /\ d \in Undoable(r)' => d \in Undoable(r) /\ baseline'[r][d] = baseline[r][d]
    BY <1>1
  <2> QED BY <1>1, <2>1, <2>2, <2>3, StoreKept
<1>3. Reconciled'
  BY <1>1 DEF StoresInv, Reconciled
<1> QED BY <1>2, <1>3 DEF StoresInv

\* Steps of a handler on one file.  The operation that is pending on it comes first.
LEMMA StoreUploadFile ==
  ASSUME ConfigAssumption, IInv, StoresInv, NEW r \in Requests, NEW c \in Cids,
         UNCHANGED <<recovery, backfill>>,
         \A d \in Cids \ {c} : rec'[d] = rec[d] /\ job'[d] = job[d] /\ (d \in pin' <=> d \in pin),
         \A q \in Requests : \A d \in Cids :
            d # c \/ q # r => baseline'[q][d] = baseline[q][d],
         \A q \in Requests : created[q] \subseteq created'[q],
         \A q \in Requests : Undoable(q)' \subseteq Undoable(q)
                               \cup (IF q = r THEN {c} ELSE {}),
         Agree(c)', Consistent(rec'[c]), Consistent(job'[c].next), Consistent(job'[c].prev),
         Consistent(baseline'[r][c]), FoundPinned(r, c)'
  PROVE  StoresInv'
<1>1. ASSUME NEW d \in Cids \ {c} PROVE StoreOK(d)'
  <2>1. StoreOK(d) /\ JobOK(d)
    BY DEF StoresInv, IInv, CidOK
  <2> QED BY <2>1, StoreKept
<1>2. StoreOK(c)'
  <2>1. StoreOK(c)
    BY DEF StoresInv
  <2>2. \A q \in Requests \ {r} : Consistent(baseline'[q][c]) /\ FoundPinned(q, c)'
    BY <2>1 DEF StoreOK, FoundPinned
  <2> QED BY <2>2 DEF StoreOK, Consistent
<1>3. Reconciled'
  BY DEF StoresInv, Reconciled
<1> QED BY <1>1, <1>2, <1>3 DEF StoresInv

LEMMA StorePins ==
  ASSUME ConfigAssumption, IInv, StoresInv, NEW r \in Requests, NEW c \in Cids,
         MarkPinIntent(r, c) \/ PinUpload(r, c)
  PROVE  StoresInv'
<1>1. /\ UNCHANGED <<recovery, backfill, rec, baseline>>
      /\ \A q \in Requests : Undoable(q)' = Undoable(q)
  BY DEF MarkPinIntent, PinUpload, uploadVars, bootVars, Undoable
<1>2. /\ StoreOK(c) /\ job \in [Cids -> Job] /\ TypeOK
      /\ created \in [Requests -> SUBSET Cids] /\ LocksOK /\ r # NoReq
  BY DEF StoresInv, IInv, TypeOK, ConfigAssumption
<1>3. CASE MarkPinIntent(r, c)
  <2>1. /\ UNCHANGED <<pin, created>>
        /\ job'[c].kind = "intent" /\ job'[c].next = rec[c] /\ job'[c].prev = rec[c]
        /\ \A d \in Cids \ {c} : job'[d] = job[d]
    BY <1>2, <1>3 DEF MarkPinIntent, Pending, uploadVars
  <2>2. job[c].kind = "none"
    BY <1>2, <1>3 DEF MarkPinIntent, NoJobOf, LocksOK, at
  <2>3. Agree(c)'
    BY <1>1, <1>2, <2>1, <2>2 DEF StoreOK, Agree, OwnKinds
  <2>4. Consistent(rec'[c]) /\ Consistent(job'[c].next) /\ Consistent(job'[c].prev)
    BY <1>1, <1>2, <2>1 DEF StoreOK
  <2>5. Consistent(baseline'[r][c]) /\ FoundPinned(r, c)'
    BY <1>1, <1>2, <2>1 DEF StoreOK, FoundPinned
  <2> QED BY <1>1, <2>1, <2>3, <2>4, <2>5, StoreUploadFile
<1>4. CASE PinUpload(r, c)
  <2>1. /\ c \in pin' /\ \A d \in Cids \ {c} : d \in pin' <=> d \in pin
        /\ job[c].kind = "intent"
        /\ \A q \in Requests : created[q] \subseteq created'[q]
        /\ c \in created'[r] \/ c \in pin
    BY <1>2, <1>4 DEF PinUpload, pinFile
  <2>2. rec[c].held <=> c \in pin
    BY <1>2, <2>1 DEF StoreOK, Agree
  <2>3. /\ job'[c].prev = rec[c] /\ job'[c].by = r /\ job'[c].undoPin = undoCreated(c)
        /\ \/ job'[c].kind = "busy" /\ job'[c].next = rec[c]
           \/ job'[c].kind = "admit" /\ job'[c].next = registered(c, r, ConfirmationRequired)
        /\ \A d \in Cids \ {c} : job'[d] = job[d]
    BY <1>2, <1>4 DEF PinUpload, Pending
  <2>4. Consistent(registered(c, r, ConfirmationRequired))
        /\ registered(c, r, ConfirmationRequired).held
    BY <1>2 DEF registered, Consistent
  <2>5. undoCreated(c) = "unpin" <=> ~rec[c].held
    BY <1>2, <2>2 DEF undoCreated, StoreOK, Consistent
  <2>6. Agree(c)'
    BY <2>1, <2>2, <2>3, <2>4, <2>5 DEF Agree, OwnKinds
  <2>7. Consistent(rec'[c]) /\ Consistent(job'[c].next) /\ Consistent(job'[c].prev)
    BY <1>1, <1>2, <2>3, <2>4 DEF StoreOK
  <2>8. Consistent(baseline'[r][c]) /\ FoundPinned(r, c)'
    BY <1>1, <1>2, <2>1 DEF StoreOK, FoundPinned
  <2> QED BY <1>1, <2>1, <2>3, <2>6, <2>7, <2>8, StoreUploadFile
<1> QED BY <1>3, <1>4

LEMMA StoreRegisters ==
  ASSUME ConfigAssumption, IInv, StoresInv, NEW r \in Requests, NEW c \in Cids,
         RegisterUpload(r, c) \/ RefuseUpload(r, c) \/ RestoreRefused(r, c)
  PROVE  StoresInv'
<1>1. /\ UNCHANGED <<recovery, backfill, created>>
      /\ StoreOK(c) /\ JobOK(c)
      /\ job \in [Cids -> Job] /\ rec \in [Cids -> Record]
      /\ baseline \in [Requests -> [Cids -> Record]] /\ todo \in [Requests -> SUBSET Cids]
      /\ pc \in [Requests -> Pcs] /\ files \in [Requests -> SUBSET Cids]
  BY DEF StoresInv, IInv, CidOK, TypeOK, RegisterUpload, RefuseUpload, RestoreRefused, uploadVars,
         bootVars
<1>2. CASE RegisterUpload(r, c)
  <2>1. /\ UNCHANGED <<pin, pc, files>> /\ pc[r] = "admitting"
        /\ job[c].kind = "admit" /\ job[c].by = r /\ job'[c] = NoJob /\ rec'[c] = job[c].next
        /\ baseline'[r][c] = job[c].prev
        /\ \A d \in Cids \ {c} : rec'[d] = rec[d] /\ job'[d] = job[d]
        /\ \A q \in Requests : \A d \in Cids : d # c \/ q # r => baseline'[q][d] = baseline[q][d]
        /\ \A q \in Requests : todo'[q] = IF q = r THEN todo[q] \ {c} ELSE todo[q]
    BY <1>1, <1>2 DEF RegisterUpload, save, at
  <2>2. \A q \in Requests : Undoable(q)' \subseteq Undoable(q) \cup (IF q = r THEN {c} ELSE {})
    BY <2>1 DEF Undoable
  <2>3. Agree(c)'
    BY <1>1, <2>1 DEF Agree, NoJob, StoreOK, OwnKinds
  <2>4. /\ Consistent(rec'[c]) /\ Consistent(job'[c].next) /\ Consistent(job'[c].prev)
        /\ Consistent(baseline'[r][c])
    BY <1>1, <2>1, AbsentConsistent DEF StoreOK
  <2>5. FoundPinned(r, c)'
    BY <1>1, <2>1 DEF StoreOK, Agree, FoundPinned
  <2> QED BY <1>1, <2>1, <2>2, <2>3, <2>4, <2>5, StoreUploadFile
<1>3. CASE RefuseUpload(r, c)
  <2>1. /\ UNCHANGED <<rec, baseline>> /\ \A q \in Requests : Undoable(q)' = Undoable(q)
        /\ job[c].kind = "busy" /\ job'[c].kind = "refused"
        /\ job'[c].prev = job[c].prev /\ job'[c].next = job[c].next
        /\ \A d \in Cids \ {c} : job'[d] = job[d] /\ (d \in pin' <=> d \in pin)
        /\ c \in pin' <=> c \in pin /\ job[c].undoPin # "unpin"
    BY <1>1, <1>3 DEF RefuseUpload, unpinFile, uploadVars, Undoable, Job
  <2>2. Agree(c)'
    BY <1>1, <2>1 DEF Agree, StoreOK, OwnKinds
  <2>3. /\ Consistent(rec'[c]) /\ Consistent(job'[c].next) /\ Consistent(job'[c].prev)
        /\ Consistent(baseline'[r][c]) /\ FoundPinned(r, c)'
    BY <1>1, <2>1 DEF StoreOK, FoundPinned
  <2> QED BY <1>1, <2>1, <2>2, <2>3, StoreUploadFile
<1>4. CASE RestoreRefused(r, c)
  <2>1. /\ UNCHANGED <<pin, files, baseline>> /\ pc[r] = "admitting"
        /\ job[c].kind = "refused" /\ job[c].by = r /\ job'[c] = NoJob /\ rec'[c] = job[c].prev
        /\ \A d \in Cids \ {c} : rec'[d] = rec[d] /\ job'[d] = job[d]
        /\ \A q \in Requests : pc'[q] = IF q = r THEN "restoring" ELSE pc[q]
        /\ \A q \in Requests : todo'[q] = IF q = r THEN files[r] \ todo[r] ELSE todo[q]
    BY <1>1, <1>4 DEF RestoreRefused, save, at, goto
  <2>2. \A q \in Requests : Undoable(q)' = Undoable(q)
    BY <2>1 DEF Undoable
  <2>3. Agree(c)'
    BY <1>1, <2>1 DEF Agree, NoJob, StoreOK, OwnKinds
  <2>4. /\ Consistent(rec'[c]) /\ Consistent(job'[c].next) /\ Consistent(job'[c].prev)
        /\ Consistent(baseline'[r][c]) /\ FoundPinned(r, c)'
    BY <1>1, <2>1, <2>2, AbsentConsistent DEF StoreOK, FoundPinned
  <2> QED BY <1>1, <2>1, <2>2, <2>3, <2>4, StoreUploadFile
<1> QED BY <1>2, <1>3, <1>4

LEMMA StoreUndoes ==
  ASSUME ConfigAssumption, IInv, StoresInv, NEW r \in Requests, NEW c \in Cids,
         UndoUpload(r, c) \/ RestoreUpload(r, c)
  PROVE  StoresInv'
<1>1. /\ UNCHANGED <<recovery, backfill, created, baseline, pc, files>>
      /\ StoreOK(c) /\ JobOK(c) /\ LocksOK /\ RecordOK(rec[c])
      /\ job \in [Cids -> Job] /\ rec \in [Cids -> Record] /\ todo \in [Requests -> SUBSET Cids]
  BY DEF StoresInv, IInv, CidOK, RecordsOK, TypeOK, UndoUpload, RestoreUpload, bootVars
<1>2. CASE UndoUpload(r, c) /\ UNCHANGED <<pin, blocks, job>>
           /\ todo' = [todo EXCEPT ![r] = @ \ {c}]
  <2>1. \A q \in Requests : Undoable(q)' \subseteq Undoable(q)
    <3>1. \A q \in Requests \ {r} : todo'[q] = todo[q]
      BY <1>1, <1>2
    <3>2. todo'[r] = todo[r] \ {c} /\ pc[r] \in {"restoring", "undoing"}
      BY <1>1, <1>2 DEF UndoUpload
    <3> QED BY <1>1, <3>1, <3>2 DEF Undoable
  <2>2. UNCHANGED rec
    BY <1>2 DEF UndoUpload
  <2> QED BY <1>1, <1>2, <2>1, <2>2, StoreWrites DEF StoreOK
<1>3. CASE /\ UndoUpload(r, c) /\ UNCHANGED todo
           /\ pc[r] = "restoring" \/ rec[c].adm = r
           /\ IF unpinOnRollback(r, c) THEN unpinFile(c) ELSE UNCHANGED <<pin, blocks>>
           /\ Pending(c, "undo", r, baseline[r][c], "keep", FALSE, FALSE)
  <2>1. /\ UNCHANGED rec /\ job[c].kind = "none" /\ c \in Undoable(r) /\ rec[c].adm = r
        /\ \A q \in Requests : Undoable(q)' = Undoable(q)
    BY <1>1, <1>3 DEF UndoUpload, NoJobOf, LocksOK, Undoable, IInv, RestoringOwned
  <2>2. /\ job'[c].kind = "undo" /\ job'[c].next = baseline[r][c] /\ job'[c].prev = rec[c]
        /\ \A d \in Cids \ {c} : job'[d] = job[d]
    BY <1>1, <1>3 DEF Pending
  <2>3. c \in pin
    BY <1>1, <2>1 DEF RecordOK, ConfigAssumption, StoreOK, Agree
  <2>4. /\ \A d \in Cids \ {c} : d \in pin' <=> d \in pin
        /\ c \in pin' <=> ~unpinOnRollback(r, c)
    BY <1>3, <2>3 DEF unpinFile
  <2>5. unpinOnRollback(r, c) <=> ~baseline[r][c].held
    BY <1>1, <2>1 DEF unpinOnRollback, StoreOK, FoundPinned, Consistent
  <2>6. Agree(c)'
    BY <2>2, <2>4, <2>5 DEF Agree, OwnKinds
  <2>7. /\ Consistent(rec'[c]) /\ Consistent(job'[c].next) /\ Consistent(job'[c].prev)
        /\ Consistent(baseline'[r][c]) /\ FoundPinned(r, c)'
    BY <1>1, <2>1, <2>2 DEF StoreOK, FoundPinned
  <2> QED BY <1>1, <2>1, <2>2, <2>4, <2>6, <2>7, StoreUploadFile
<1>4. CASE RestoreUpload(r, c)
  <2>1. /\ UNCHANGED pin /\ job[c].kind = "undo" /\ job[c].by = r
        /\ job'[c] = NoJob /\ rec'[c] = job[c].next
        /\ \A d \in Cids \ {c} : rec'[d] = rec[d] /\ job'[d] = job[d]
        /\ \A q \in Requests : todo'[q] = IF q = r THEN todo[q] \ {c} ELSE todo[q]
    BY <1>1, <1>4 DEF RestoreUpload, save
  <2>2. \A q \in Requests : Undoable(q)' \subseteq Undoable(q)
    BY <1>1, <2>1 DEF Undoable, JobOK, UploadKinds
  <2>3. Agree(c)'
    BY <1>1, <2>1 DEF Agree, NoJob, StoreOK, OwnKinds
  <2>4. /\ Consistent(rec'[c]) /\ Consistent(job'[c].next) /\ Consistent(job'[c].prev)
        /\ Consistent(baseline'[r][c]) /\ FoundPinned(r, c)'
    BY <1>1, <2>1, <2>2, AbsentConsistent DEF StoreOK, FoundPinned
  <2> QED BY <1>1, <2>1, <2>2, <2>3, <2>4, StoreUploadFile
<1> QED BY <1>2, <1>3, <1>4 DEF UndoUpload, at

LEMMA StoreFileKept ==
  ASSUME ConfigAssumption, IInv, StoresInv, NEW r \in Requests, NEW c \in Cids,
         \/ ClearPinIntent(r, c) \/ CheckCreatedBlock(r, c)
         \/ SettleUpload(r, c) \/ ClearSettledAdmission(r, c)
  PROVE  StoresInv'
<1>1. /\ UNCHANGED <<job, pin, baseline, created, recovery, backfill>>
      /\ rec \in [Cids -> Record] /\ todo \in [Requests -> SUBSET Cids] /\ rec[c] \in Record
      /\ Consistent(rec[c])
  BY DEF IInv, TypeOK, StoresInv, StoreOK, ClearPinIntent, CheckCreatedBlock, SettleUpload,
         ClearSettledAdmission, uploadVars, bootVars, storeVars
<1>2. \A q \in Requests : Undoable(q)' \subseteq Undoable(q)
  <2>1. CASE ClearPinIntent(r, c)
    BY <2>1 DEF ClearPinIntent, uploadVars, Undoable
  <2>2. CASE CheckCreatedBlock(r, c) \/ SettleUpload(r, c) \/ ClearSettledAdmission(r, c)
    <3>1. /\ UNCHANGED <<pc, files>> /\ pc[r] \in {"aborting", "cleaning", "settling", "clearing"}
          /\ \A q \in Requests \ {r} : todo'[q] = todo[q]
      BY <1>1, <2>2 DEF CheckCreatedBlock, SettleUpload, ClearSettledAdmission, at
    <3> QED BY <3>1 DEF Undoable
  <2> QED BY <2>1, <2>2
<1>3. /\ \A d \in Cids \ {c} : rec'[d] = rec[d]
      /\ rec'[c] \in {rec[c], [rec[c] EXCEPT !.settled = TRUE], Unowned(rec[c])}
  BY <1>1 DEF ClearPinIntent, CheckCreatedBlock, SettleUpload, ClearSettledAdmission, storeVars,
              save
<1>4. /\ Consistent(Unowned(rec[c])) /\ (Unowned(rec[c]).held <=> rec[c].held)
      /\ Consistent([rec[c] EXCEPT !.settled = TRUE])
      /\ [rec[c] EXCEPT !.settled = TRUE].held <=> rec[c].held
  BY <1>1, ConsistentShapes
<1>5. Consistent(rec'[c]) /\ (rec'[c].held <=> rec[c].held)
  BY <1>1, <1>3, <1>4
<1> QED BY <1>1, <1>2, <1>3, <1>5, StoreWrites

LEMMA StoreWriteRecord ==
  ASSUME ConfigAssumption, IInv, StoresInv, NEW c \in Cids, WriteRecord(c)
  PROVE  StoresInv'
<1>1. /\ StoreOK(c) /\ job \in [Cids -> Job] /\ rec \in [Cids -> Record]
  BY DEF StoresInv, IInv, TypeOK
<1>2. /\ UNCHANGED <<pin, pc, files, todo, baseline, created, recovery, backfill>>
      /\ job[c].kind \in OwnKinds /\ job'[c] = NoJob /\ rec'[c] = job[c].next
      /\ \A d \in Cids \ {c} : rec'[d] = rec[d] /\ job'[d] = job[d]
  BY <1>1 DEF WriteRecord, uploadVars, bootVars
<1>3. \A q \in Requests : Undoable(q)' = Undoable(q)
  BY <1>2 DEF Undoable
<1>4. Agree(c)'
  BY <1>1, <1>2 DEF Agree, NoJob, StoreOK, OwnKinds
<1>5. ASSUME NEW d \in Cids \ {c} PROVE StoreOK(d)'
  <2>1. StoreOK(d) /\ JobOK(d)
    BY DEF StoresInv, IInv, CidOK
  <2> QED BY <1>2, <1>3, <2>1, StoreKept
<1>6. StoreOK(c)'
  <2>1. Consistent(rec'[c]) /\ Consistent(job'[c].next) /\ Consistent(job'[c].prev)
    BY <1>1, <1>2, AbsentConsistent DEF StoreOK
  <2>2. \A q \in Requests : Consistent(baseline'[q][c]) /\ FoundPinned(q, c)'
    BY <1>1, <1>2, <1>3 DEF StoreOK, FoundPinned
  <2> QED BY <1>4, <2>1, <2>2 DEF StoreOK, Consistent
<1>7. Reconciled'
  BY <1>2 DEF StoresInv, Reconciled
<1> QED BY <1>5, <1>6, <1>7 DEF StoresInv

\* What an unlocked content looks like.
LEMMA StoreIdle ==
  ASSUME IInv, StoresInv, NEW c \in Cids, Unlocked(c)
  PROVE  /\ rec[c] \in Record /\ job \in [Cids -> Job] /\ rec \in [Cids -> Record]
         /\ Consistent(rec[c]) /\ (c \in pin <=> rec[c].held)
BY DEF IInv, TypeOK, StoresInv, StoreOK, Agree, Unlocked

\* The collector and an aborted stage drop a prepared copy.
LEMMA StoreUnstages ==
  ASSUME IInv, StoresInv, NEW c \in Cids, Unlocked(c), NEW kind \in OwnKinds,
         NEW keep \in BOOLEAN, NEW shared \in BOOLEAN,
         Unstage(c, kind, keep, shared),
         UNCHANGED <<rec, pc, files, todo, baseline, created, recovery, backfill>>
  PROVE  StoresInv'
<1>1. /\ job'[c].kind = kind /\ job'[c].prev = rec[c]
      /\ job'[c].next \in {Absent, expiredBaseline(rec[c])}
      /\ \A d \in Cids \ {c} : job'[d] = job[d]
  BY StoreIdle DEF Unstage, Pending
<1>2. c \notin pin' /\ \A d \in Cids \ {c} : d \in pin' <=> d \in pin
  BY DEF Unstage, unpinFile
<1>3. Consistent(expiredBaseline(rec[c])) /\ ~expiredBaseline(rec[c]).held
  BY StoreIdle, ConsistentShapes
<1>4. Consistent(job'[c].next) /\ ~job'[c].next.held
  BY <1>1, <1>3, AbsentConsistent
<1> QED BY <1>1, <1>2, <1>4, StoreBegins

LEMMA StagedConsistent ==
  ASSUME NEW f \in Record, NEW t \in Txs, NEW g,
         \/ g = [f EXCEPT !.state = "temporary", !.pinned = TRUE, !.held = TRUE,
                          !.stage = @ \cup {t}]
         \/ g = [f EXCEPT !.state = "confirmed", !.pinned = TRUE, !.held = TRUE]
         \/ g = [f EXCEPT !.state = "temporary", !.pinned = TRUE, !.held = TRUE, !.stage = {t},
                          !.base = IF f.state = "absent" THEN "none" ELSE "expired"]
  PROVE  Consistent(g) /\ g.held
<1>1. g.pinned = TRUE /\ g.held = TRUE /\ g.state \in {"temporary", "confirmed"}
  BY DEF Record
<1> QED BY <1>1 DEF Consistent

LEMMA StoreClient ==
  ASSUME ConfigAssumption, IInv, StoresInv, NEW c \in Cids, ClientCall(c)
  PROVE  StoresInv'
<1> USE DEF others, uploadVars, bootVars
<1>1. CASE Confirm(c) \/ Release(c)
  <2>1. /\ Unlocked(c)
        /\ UNCHANGED <<rec, pc, files, todo, baseline, created, recovery, backfill>>
    BY <1>1 DEF Confirm, Release
  <2>2. /\ \A d \in Cids \ {c} : job'[d] = job[d] /\ (d \in pin' <=> d \in pin)
        /\ job'[c].kind \in OwnKinds /\ job'[c].prev = rec[c]
        /\ \/ job'[c].next = Confirmed(rec[c]) /\ c \in pin'
           \/ job'[c].next = Released(rec[c]) /\ c \notin pin'
    BY <1>1, <2>1, StoreIdle DEF Confirm, Release, pinFile, unpinFile, Pending, OwnKinds
  <2>3. /\ Consistent(Confirmed(rec[c])) /\ Confirmed(rec[c]).held
        /\ Consistent(Released(rec[c])) /\ ~Released(rec[c]).held
    BY <2>1, StoreIdle, ConsistentShapes
  <2>4. Consistent(job'[c].next) /\ (c \in pin' <=> job'[c].next.held)
    BY <2>2, <2>3
  <2> QED BY <2>1, <2>2, <2>4, StoreBegins
<1>2. CASE Adopt(c) \/ Store(c)
  <2>1. /\ Unlocked(c) /\ registerPinnedUnderLock(c)
        /\ UNCHANGED <<rec, pc, files, todo, baseline, created, recovery, backfill>>
    BY <1>2 DEF Adopt, Store
  <2>2. CASE /\ pin' = IF wasPinned(c) = "pin" THEN pin \cup {c} ELSE pin \ {c}
             /\ Pending(c, "baseline", NoReq, rec[c], "keep", FALSE, TRUE)
    <3>1. /\ \A d \in Cids \ {c} : job'[d] = job[d] /\ (d \in pin' <=> d \in pin)
          /\ job'[c].kind \in OwnKinds /\ job'[c].prev = rec[c] /\ job'[c].next = rec[c]
      BY <2>1, <2>2, StoreIdle DEF Pending, OwnKinds
    <3>2. c \in pin' <=> rec[c].held
      BY <2>1, <2>2, StoreIdle DEF wasPinned, Consistent
    <3> QED BY <2>1, <3>1, <3>2, StoreIdle, StoreBegins
  <2>3. CASE /\ rec[c].stage = {} /\ pinFile(c)
             /\ Pending(c, "store", NoReq, registered(c, NoReq, FALSE), wasPinned(c), TRUE, TRUE)
    <3>1. /\ \A d \in Cids \ {c} : job'[d] = job[d] /\ (d \in pin' <=> d \in pin)
          /\ job'[c].kind \in OwnKinds /\ job'[c].prev = rec[c] /\ c \in pin'
          /\ job'[c].next = registered(c, NoReq, FALSE)
      BY <2>1, <2>3, StoreIdle DEF Pending, OwnKinds, pinFile
    <3>2. Consistent(job'[c].next) /\ job'[c].next.held
      BY <2>3, <3>1 DEF registered, Consistent
    <3> QED BY <2>1, <3>1, <3>2, StoreBegins
  <2>4. CASE rec[c].stage # {} /\ pinFile(c) /\ UNCHANGED job
    <3>1. \A d \in Cids : d \in pin' <=> d \in pin
      BY <2>1, <2>4, StoreIdle DEF pinFile, Consistent
    <3>2. \A q \in Requests : Undoable(q)' \subseteq Undoable(q)
      BY <2>1 DEF Undoable
    <3> QED BY <2>1, <2>4, <3>1, <3>2, StoreIdle, StoreWrites
  <2> QED BY <2>1, <2>2, <2>3, <2>4 DEF registerPinnedUnderLock
<1>3. CASE SetReplicas(c)
  <2>1. UNCHANGED <<rec, pin, job, pc, files, todo, baseline, created, recovery, backfill>>
        /\ Unlocked(c)
    BY <1>3 DEF SetReplicas, storeVars
  <2>2. \A q \in Requests : Undoable(q)' \subseteq Undoable(q)
    BY <2>1 DEF Undoable
  <2> QED BY <2>1, <2>2, StoreIdle, StoreWrites
<1>4. ASSUME NEW t \in Txs, Stage(c, t) PROVE StoresInv'
  <2>1. /\ Unlocked(c) /\ c \in pin' /\ \A d \in Cids \ {c} : d \in pin' <=> d \in pin
        /\ UNCHANGED <<rec, pc, files, todo, baseline, created, recovery, backfill>>
    BY <1>4 DEF Stage, pinFile
  <2>2. /\ \A d \in Cids \ {c} : job'[d] = job[d]
        /\ job'[c].kind \in OwnKinds /\ job'[c].prev = rec[c]
        /\ \/ job'[c].next = [rec[c] EXCEPT !.state = "temporary", !.pinned = TRUE,
                                !.held = TRUE, !.stage = @ \cup {t}]
           \/ job'[c].next = [rec[c] EXCEPT !.state = "confirmed", !.pinned = TRUE, !.held = TRUE]
           \/ job'[c].next = [rec[c] EXCEPT !.state = "temporary", !.pinned = TRUE,
                                !.held = TRUE, !.stage = {t},
                                !.base = IF rec[c].state = "absent" THEN "none" ELSE "expired"]
    <3>1. job \in [Cids -> Job]
      BY <2>1, StoreIdle
    <3> QED BY <1>4, <3>1 DEF Stage, staged, Pending, OwnKinds
  <2>3. Consistent(job'[c].next) /\ job'[c].next.held
    BY <2>1, <2>2, StoreIdle, StagedConsistent
  <2> QED BY <2>1, <2>2, <2>3, StoreBegins
<1>5. ASSUME NEW t \in Txs, Commit(c, t) PROVE StoresInv'
  <2>1. /\ UNCHANGED <<pin, job, pc, files, todo, baseline, created, recovery, backfill>>
        /\ Unlocked(c) /\ rec[c].stage # {} /\ save(c, Confirmed(rec[c]))
    BY <1>5 DEF Commit
  <2>2. /\ rec'[c] = Confirmed(rec[c]) /\ \A d \in Cids \ {c} : rec'[d] = rec[d]
    BY <2>1, StoreIdle DEF save
  <2>3. Consistent(rec'[c]) /\ (rec'[c].held <=> rec[c].held)
    BY <2>1, <2>2, StoreIdle, ConsistentShapes DEF Consistent
  <2>4. \A q \in Requests : Undoable(q)' \subseteq Undoable(q)
    BY <2>1 DEF Undoable
  <2> QED BY <2>1, <2>2, <2>3, <2>4, StoreWrites
<1>6. ASSUME NEW t \in Txs, Abort(c, t) PROVE StoresInv'
  <2>1. /\ UNCHANGED <<pc, files, todo, baseline, created, recovery, backfill>>
        /\ Unlocked(c)
    BY <1>6 DEF Abort
  <2>2. \A q \in Requests : Undoable(q)' \subseteq Undoable(q)
    BY <2>1 DEF Undoable
  <2>3. CASE UNCHANGED <<rec, pin, job>>
    BY <2>1, <2>2, <2>3, StoreIdle, StoreWrites
  <2>4. CASE /\ t \in rec[c].stage /\ UNCHANGED <<pin, blocks, job>>
             /\ save(c, [rec[c] EXCEPT !.stage = @ \ {t}])
    <3>1. /\ rec'[c] = [rec[c] EXCEPT !.stage = @ \ {t}]
          /\ \A d \in Cids \ {c} : rec'[d] = rec[d]
      BY <2>1, <2>4, StoreIdle DEF save
    <3>2. Consistent(rec'[c]) /\ (rec'[c].held <=> rec[c].held)
      BY <2>1, <2>4, <3>1, StoreIdle DEF Consistent, Record
    <3> QED BY <2>1, <2>2, <2>4, <3>1, <3>2, StoreWrites
  <2>5. CASE Unstage(c, "abort", FALSE, TRUE) /\ UNCHANGED <<rec, gcFresh>>
    <3>1. "abort" \in OwnKinds
      BY DEF OwnKinds
    <3> QED BY <2>1, <2>5, <3>1, StoreUnstages
  <2> QED BY <1>6, <2>3, <2>4, <2>5 DEF Abort
<1> QED BY <1>1, <1>2, <1>3, <1>4, <1>5, <1>6 DEF ClientCall

LEMMA StoreCollects ==
  ASSUME ConfigAssumption, IInv, StoresInv, NEW c \in Cids, GcLoop(c)
  PROVE  StoresInv'
<1> USE DEF gcKeep, uploadVars, bootVars, gcDone, gcMay
<1>1. /\ UNCHANGED <<pc, files, todo, baseline, created, recovery, backfill>>
      /\ job \in [Cids -> Job] /\ rec \in [Cids -> Record] /\ Consistent(rec[c])
  BY DEF GcLoop, GcRecover, GcDemote, GcGuard, GcRelease, GcDelete, GcCleanup, IInv, TypeOK,
         StoresInv, StoreOK
<1>2. \A q \in Requests : Undoable(q)' \subseteq Undoable(q)
  BY <1>1 DEF Undoable
<1>3. CASE UNCHANGED <<rec, pin, job>>
  BY <1>1, <1>2, <1>3, StoreWrites
<1>4. CASE GcRecover(c) /\ save(c, Unowned(rec[c]))
  <2>1. UNCHANGED <<pin, job>> /\ Unlocked(c)
    BY <1>4 DEF GcRecover
  <2>2. rec'[c] = Unowned(rec[c]) /\ \A d \in Cids \ {c} : rec'[d] = rec[d]
    BY <1>1, <1>4 DEF save
  <2>3. Consistent(Unowned(rec[c])) /\ (Unowned(rec[c]).held <=> rec[c].held)
    BY <2>1, StoreIdle, ConsistentShapes
  <2> QED BY <1>1, <1>2, <2>1, <2>2, <2>3, StoreWrites
<1>5. CASE /\ UNCHANGED rec /\ Unlocked(c) /\ unpinFile(c)
           /\ \/ Pending(c, "demote", NoReq, Demoted(rec[c]), undoRemoved(c), FALSE, FALSE)
              \/ Pending(c, "gcRelease", NoReq, Released(rec[c]), undoRemoved(c), FALSE, FALSE)
  <2>1. /\ c \notin pin' /\ job'[c].kind \in OwnKinds /\ job'[c].prev = rec[c]
        /\ job'[c].next \in {Demoted(rec[c]), Released(rec[c])}
        /\ \A d \in Cids \ {c} : job'[d] = job[d] /\ (d \in pin' <=> d \in pin)
    BY <1>1, <1>5 DEF unpinFile, Pending, OwnKinds
  <2>2. /\ Consistent(Demoted(rec[c])) /\ ~Demoted(rec[c]).held
        /\ Consistent(Released(rec[c])) /\ ~Released(rec[c]).held
    BY <1>5, StoreIdle, ConsistentShapes
  <2>3. Consistent(job'[c].next) /\ ~job'[c].next.held
    BY <2>1, <2>2
  <2> QED BY <1>1, <1>5, <2>1, <2>3, StoreBegins
<1>6. ASSUME unprotected(c), Unlocked(c) PROVE FALSE
  BY <1>6, StoreIdle DEF unprotected, Durable
<1>7. CASE UNCHANGED rec /\ Unlocked(c) /\ Unstage(c, "gcStage", TRUE, FALSE)
  <2>1. "gcStage" \in OwnKinds
    BY DEF OwnKinds
  <2> QED BY <1>1, <1>7, <2>1, StoreUnstages
<1>8. CASE GcCleanup(c) /\ c \in gcFresh
  <2>1. /\ UNCHANGED <<pin, job>> /\ save(c, Absent) /\ Unlocked(c)
        /\ c \in gcReleased /\ CollectorOK
    BY <1>8 DEF GcCleanup, stillReleased, IInv, CollectorOK
  <2>2. rec'[c] = Absent /\ \A d \in Cids \ {c} : rec'[d] = rec[d]
    BY <1>1, <2>1 DEF save
  <2>3. ~rec[c].held
    BY <1>1, <1>8, <2>1 DEF CollectorOK, Consistent
  <2>4. Consistent(rec'[c]) /\ (rec'[c].held <=> rec[c].held)
    BY <2>2, <2>3, AbsentConsistent
  <2> QED BY <1>1, <1>2, <2>1, <2>2, <2>4, StoreWrites
<1> QED
  BY <1>3, <1>4, <1>5, <1>6, <1>7, <1>8 DEF GcLoop, GcRecover, recoverAdmission, GcDemote,
     GcGuard, GcRelease, GcDelete, GcCleanup, stillReleased

LEMMA StoreRepairs ==
  ASSUME ConfigAssumption, IInv, StoresInv, NEW c \in Cids, Repair(c)
  PROVE  StoresInv'
<1> USE DEF repairKeep, uploadVars, bootVars
<1>1. /\ UNCHANGED <<pc, files, todo, baseline, created, recovery, backfill>>
      /\ job \in [Cids -> Job] /\ rec \in [Cids -> Record] /\ Consistent(rec[c])
  BY DEF Repair, RepairClaim, RepairClear, RepairEnd, Rescue, IInv, TypeOK, StoresInv, StoreOK
<1>2. \A q \in Requests : Undoable(q)' \subseteq Undoable(q)
  BY <1>1 DEF Undoable
<1>3. CASE RepairClaim(c) \/ RepairEnd(c)
  <2>1. UNCHANGED <<rec, pin, job>>
    BY <1>3 DEF RepairClaim, RepairEnd
  <2> QED BY <1>1, <1>2, <2>1, StoreWrites
<1>4. CASE RepairClear(c)
  <2>1. UNCHANGED <<pin, job>> /\ Unlocked(c) /\ save(c, Unowned(rec[c]))
    BY <1>4 DEF RepairClear
  <2>2. rec'[c] = Unowned(rec[c]) /\ \A d \in Cids \ {c} : rec'[d] = rec[d]
    BY <1>1, <2>1 DEF save
  <2>3. Consistent(Unowned(rec[c])) /\ (Unowned(rec[c]).held <=> rec[c].held)
    BY <2>1, StoreIdle, ConsistentShapes
  <2> QED BY <1>1, <1>2, <2>1, <2>2, <2>3, StoreWrites
<1>5. CASE Rescue(c)
  <2>1. /\ UNCHANGED rec /\ Unlocked(c) /\ c \in pin' /\ rec[c].state = "confirmed"
        /\ job'[c].kind \in OwnKinds /\ job'[c].prev = rec[c] /\ job'[c].next = Rescued(rec[c])
        /\ \A d \in Cids \ {c} : job'[d] = job[d] /\ (d \in pin' <=> d \in pin)
    BY <1>1, <1>5 DEF Rescue, pinFile, Pending, OwnKinds
  <2>2. Consistent(Rescued(rec[c])) /\ Rescued(rec[c]).held
    BY <2>1, StoreIdle, ConsistentShapes
  <2> QED BY <1>1, <2>1, <2>2, StoreBegins
<1> QED BY <1>3, <1>4, <1>5 DEF Repair

LEMMA StoresInductive ==
  ASSUME ConfigAssumption, Undisturbed, IInv, StoresInv, [Next]_vars
  PROVE  StoresInv'
<1>1. MaxFaults = 0 /\ MaxCrashes = 0 /\ faults = 0 /\ crashes = 0
  BY DEF Undisturbed, IInv, TypeOK
<1>2. ~CrashAndRestart /\ \A c \in Cids, persisted \in BOOLEAN : ~SaveFails(c, persisted)
  BY <1>1 DEF CrashAndRestart, SaveFails
<1>3. \A c \in Cids : ~Boot(c)
  BY DEF StoresInv, Reconciled, Boot, BackfillRead, BackfillCreate, StartupRecover
<1>4. CASE GcStart \/ GcPass \/ UNCHANGED vars
  <2>1. UNCHANGED <<rec, pin, job, pc, files, todo, baseline, created, recovery, backfill>>
    BY <1>4 DEF GcStart, GcPass, GcDemoteStart, GcPlan, GcReleaseStart, GcKeepBlocks,
       GcAskLease, GcLease, GcCleanupStart, GcEnd, gcKeep, storeVars, uploadVars, bootVars, vars
  <2>2. \A q \in Requests : Undoable(q)' = Undoable(q)
    BY <2>1 DEF Undoable
  <2>3. ASSUME NEW d \in Cids PROVE StoreOK(d)'
    <3>1. StoreOK(d) /\ JobOK(d)
      BY DEF StoresInv, IInv, CidOK
    <3> QED BY <2>1, <2>2, <3>1, StoreKept
  <2> QED BY <2>1, <2>3 DEF StoresInv, Reconciled
<1>5. ASSUME NEW r \in Requests, Upload(r) PROVE StoresInv'
  BY <1>1, <1>5, StoreRequest, StorePins, StoreRegisters, StoreUndoes, StoreFileKept DEF Upload
<1> QED
  BY <1>2, <1>3, <1>4, <1>5, StoreWriteRecord, StoreClient, StoreCollects, StoreRepairs DEF Next

LEMMA StoresInitially == ConfigAssumption /\ Undisturbed /\ Init => StoresInv
<1> SUFFICES ASSUME Undisturbed, Init PROVE StoresInv
  OBVIOUS
<1>1. /\ \A c \in Cids : /\ rec[c] = Absent /\ job[c] = NoJob /\ c \notin pin
                         /\ backfill[c] = "none"
      /\ \A r \in Requests : pc[r] = "idle" /\ \A c \in Cids : baseline[r][c] = Absent
      /\ recovery = {}
  BY DEF Init, Undisturbed
<1>2. ASSUME NEW c \in Cids PROVE StoreOK(c)
  <2>1. Agree(c)
    BY <1>1, AbsentConsistent DEF Agree, NoJob, OwnKinds
  <2>2. \A r \in Requests : FoundPinned(r, c)
    BY <1>1 DEF FoundPinned, Undoable
  <2> QED BY <1>1, <2>1, <2>2, AbsentConsistent DEF StoreOK
<1> QED BY <1>1, <1>2 DEF StoresInv, Reconciled

\* While every registry write succeeds and the node stays up, record and pin agree
\* whenever nobody holds the CID's lock, whatever uploads, rollbacks, peers, the
\* collector and the repair do: no record claims a copy without its pin, and no pin
\* is left without a record.
THEOREM StoresAgreeUndisturbed ==
  ConfigAssumption /\ Undisturbed => (Spec => [](Protected /\ NoOrphanPin))
<1> SUFFICES ASSUME ConfigAssumption, Undisturbed PROVE Spec => [](Protected /\ NoOrphanPin)
  OBVIOUS
<1>1. Init => StoresInv
  BY StoresInitially
<1>2. IInv /\ StoresInv /\ [Next]_vars => StoresInv'
  BY StoresInductive
<1>3. StoresInv => Protected /\ NoOrphanPin
  BY DEF StoresInv, StoreOK, Agree, Protected, NoOrphanPin, Unlocked
<1>4. Spec => []IInv
  BY Invariance
<1> QED BY <1>1, <1>2, <1>3, <1>4, PTL DEF Spec

-----------------------------------------------------------------------------
(* A refused request restores what it replaced *)

LEMMA ClientTouches ==
  ASSUME IInv, NEW c \in Cids, ClientCall(c)
  PROVE  /\ UNCHANGED <<pc, files, todo, baseline, created, written, doomed>>
         /\ \A d \in Cids \ {c} : /\ rec'[d] = rec[d] /\ job'[d] = job[d]
                                  /\ d \in pin' <=> d \in pin
         /\ UNCHANGED <<rec, job, pin>> \/ Unlocked(c)
<1> USE DEF others, uploadVars, storeVars, pinFile, unpinFile
<1>1. job \in [Cids -> Job] /\ rec \in [Cids -> Record]
  BY DEF IInv, TypeOK
<1>2. CASE Confirm(c) \/ Release(c) \/ SetReplicas(c)
  BY <1>1, <1>2 DEF Confirm, Release, SetReplicas, Pending
<1>3. CASE Adopt(c) \/ Store(c)
  <2>1. \A d \in Cids \ {c} : job'[d] = job[d] /\ (d \in pin' <=> d \in pin)
    BY <1>1, <1>3 DEF Adopt, Store, registerPinnedUnderLock, Pending
  <2> QED BY <1>3, <2>1 DEF Adopt, Store
<1>4. ASSUME NEW t \in Txs, Stage(c, t)
      PROVE  /\ UNCHANGED <<pc, files, todo, baseline, created, written, doomed, rec>>
             /\ Unlocked(c)
             /\ \A d \in Cids \ {c} : job'[d] = job[d] /\ (d \in pin' <=> d \in pin)
  BY <1>1, <1>4 DEF Stage, staged, Pending
<1>5. ASSUME NEW t \in Txs, Commit(c, t)
      PROVE  /\ UNCHANGED <<pc, files, todo, baseline, created, written, doomed, job, pin>>
             /\ Unlocked(c) /\ \A d \in Cids \ {c} : rec'[d] = rec[d]
  BY <1>1, <1>5 DEF Commit, save
<1>6. ASSUME NEW t \in Txs, Abort(c, t)
      PROVE  /\ UNCHANGED <<pc, files, todo, baseline, created, written, doomed>>
             /\ Unlocked(c)
             /\ \A d \in Cids \ {c} : /\ rec'[d] = rec[d] /\ job'[d] = job[d]
                                      /\ d \in pin' <=> d \in pin
  BY <1>1, <1>6 DEF Abort, Unstage, Pending, save
<1> QED BY <1>2, <1>3, <1>4, <1>5, <1>6 DEF ClientCall

LEMMA CollectorTouches ==
  ASSUME IInv, NEW c \in Cids, GcLoop(c)
  PROVE  /\ UNCHANGED <<pc, files, todo, baseline, created, written, doomed>>
         /\ \A d \in Cids \ {c} : /\ rec'[d] = rec[d] /\ job'[d] = job[d]
                                  /\ d \in pin' <=> d \in pin
         /\ UNCHANGED <<rec, job, pin>> \/ Unlocked(c)
<1> USE DEF gcKeep, uploadVars, gcMay, unpinFile, pinFile
<1>1. job \in [Cids -> Job] /\ rec \in [Cids -> Record]
  BY DEF IInv, TypeOK
<1>2. CASE GcRecover(c) \/ GcDelete(c) \/ GcCleanup(c)
  BY <1>1, <1>2 DEF GcRecover, recoverAdmission, GcDelete, GcCleanup, save
<1>3. CASE GcDemote(c) \/ GcGuard(c)
  BY <1>1, <1>3 DEF GcDemote, GcGuard, Pending
<1>4. CASE GcRelease(c)
  BY <1>1, <1>4 DEF GcRelease, Unstage, Pending
<1> QED BY <1>2, <1>3, <1>4 DEF GcLoop

\* An operation outside the handlers touches one content, whose lock it takes or holds.
LEMMA TouchesOwn ==
  ASSUME IInv, NEW c \in Cids,
         WriteRecord(c) \/ ClientCall(c) \/ GcLoop(c) \/ Repair(c) \/ Boot(c)
  PROVE  /\ UNCHANGED <<pc, files, todo, baseline, created, written, doomed>>
         /\ \A d \in Cids \ {c} : /\ rec'[d] = rec[d] /\ job'[d] = job[d]
                                  /\ d \in pin' <=> d \in pin
         /\ UNCHANGED <<rec, job, pin>> \/ ~HeldByUpload(c)
<1> USE DEF uploadVars
<1>1. job \in [Cids -> Job] /\ rec \in [Cids -> Record] /\ JobOK(c)
  BY DEF IInv, TypeOK, CidOK
<1>2. CASE WriteRecord(c)
  BY <1>1, <1>2 DEF WriteRecord, JobOK
<1>3. CASE ClientCall(c) \/ GcLoop(c)
  BY <1>3, ClientTouches, CollectorTouches DEF Unlocked
<1>4. CASE Repair(c)
  BY <1>1, <1>4 DEF Repair, RepairClaim, RepairClear, RepairEnd, Rescue, repairKeep, save,
     pinFile, Pending, Unlocked, HeldByUpload
<1>5. CASE Boot(c)
  BY <1>1, <1>5 DEF Boot, BackfillRead, BackfillCreate, StartupRecover, recoverAdmission,
     bootKeep, save, Unlocked, HeldByUpload
<1> QED BY <1>2, <1>3, <1>4, <1>5

\* A step of one handler leaves alone the other handlers and what they have locked.
LEMMA UploadTouches ==
  ASSUME IInv, NEW q \in Requests, Upload(q), NEW r \in Requests \ {q}
  PROVE  /\ pc'[r] = pc[r] /\ files'[r] = files[r] /\ todo'[r] = todo[r]
         /\ baseline'[r] = baseline[r] /\ created'[r] = created[r]
         /\ written'[r] = written[r] /\ doomed'[r] = doomed[r]
         /\ pc[r] \in LockedPcs =>
              \A c \in files[r] : /\ rec'[c] = rec[c] /\ job'[c] = job[c]
                                  /\ c \in pin' <=> c \in pin
<1> USE DEF goto, storeVars
<1>1. /\ pc \in [Requests -> Pcs] /\ files \in [Requests -> SUBSET Cids]
      /\ todo \in [Requests -> SUBSET Cids] /\ baseline \in [Requests -> [Cids -> Record]]
      /\ created \in [Requests -> SUBSET Cids] /\ written \in [Requests -> SUBSET Cids]
      /\ doomed \in [Requests -> SUBSET Cids]
      /\ job \in [Cids -> Job] /\ rec \in [Cids -> Record]
      /\ LocksOK /\ \A c \in Cids : JobOK(c)
  BY DEF IInv, TypeOK, CidOK
<1>2. CASE ImportFiles(q) \/ DisconnectUpload(q) \/ ClaimUpload(q) \/ CleanUpSession(q)
           \/ DeleteCreatedBlock(q) \/ CommitSession(q) \/ PlaceReplicas(q)
  BY <1>1, <1>2 DEF ImportFiles, DisconnectUpload, ClaimUpload, CleanUpSession,
     DeleteCreatedBlock, CommitSession, PlaceReplicas
<1>3. CASE RollbackAdmitted(q) \/ FinalizeAdmitted(q) \/ FinalizeFails(q) \/ SettledUpload(q)
           \/ CommitUpload(q) \/ EndUpload(q)
  BY <1>1, <1>3 DEF RollbackAdmitted, FinalizeAdmitted, FinalizeFails, SettledUpload,
     CommitUpload, EndUpload, finish
<1>4. ASSUME NEW c \in Cids, ClearPinIntent(q, c) \/ CheckCreatedBlock(q, c)
      PROVE  /\ UNCHANGED <<rec, job, pin, pc, files, baseline, created, written>>
             /\ todo'[r] = todo[r] /\ doomed'[r] = doomed[r]
  BY <1>1, <1>4 DEF ClearPinIntent, CheckCreatedBlock, uploadVars
<1>5. ASSUME NEW c \in Cids,
             \/ MarkPinIntent(q, c) \/ PinUpload(q, c) \/ RegisterUpload(q, c)
             \/ RefuseUpload(q, c) \/ RestoreRefused(q, c) \/ UndoUpload(q, c)
             \/ RestoreUpload(q, c) \/ SettleUpload(q, c) \/ ClearSettledAdmission(q, c)
      PROVE  /\ pc'[r] = pc[r] /\ files'[r] = files[r] /\ todo'[r] = todo[r]
             /\ baseline'[r] = baseline[r] /\ created'[r] = created[r]
             /\ written'[r] = written[r] /\ doomed'[r] = doomed[r]
             /\ pc[q] \in LockedPcs /\ c \in files[q]
             /\ \A d \in Cids \ {c} : /\ rec'[d] = rec[d] /\ job'[d] = job[d]
                                      /\ d \in pin' <=> d \in pin
  <2>1. pc[q] \in LockedPcs /\ c \in files[q]
    BY <1>1, <1>5 DEF MarkPinIntent, PinUpload, RegisterUpload, RefuseUpload, RestoreRefused,
       UndoUpload, RestoreUpload, SettleUpload, ClearSettledAdmission, at, LockedPcs, LocksOK,
       JobOK, UploadKinds
  <2>2. CASE MarkPinIntent(q, c) \/ PinUpload(q, c)
    BY <1>1, <2>1, <2>2 DEF MarkPinIntent, PinUpload, Pending, pinFile, uploadVars
  <2>3. CASE RegisterUpload(q, c) \/ RefuseUpload(q, c)
    BY <1>1, <2>1, <2>3 DEF RegisterUpload, RefuseUpload, save, unpinFile, uploadVars
  <2>4. CASE RestoreRefused(q, c) \/ RestoreUpload(q, c)
    BY <1>1, <2>1, <2>4 DEF RestoreRefused, RestoreUpload, save
  <2>5. CASE UndoUpload(q, c)
    BY <1>1, <2>1, <2>5 DEF UndoUpload, unpinFile, Pending
  <2>6. CASE SettleUpload(q, c) \/ ClearSettledAdmission(q, c)
    BY <1>1, <2>1, <2>6 DEF SettleUpload, ClearSettledAdmission, save
  <2> QED BY <1>5, <2>2, <2>3, <2>4, <2>5, <2>6
<1>6. ASSUME NEW c \in Cids, pc[q] \in LockedPcs, c \in files[q], pc[r] \in LockedPcs
      PROVE  c \notin files[r]
  BY <1>1, <1>6 DEF LocksOK
<1> QED
  BY <1>1, <1>2, <1>3, <1>4, <1>5, <1>6 DEF Upload

\* A request that is refused after its registrations, file by file: still under its
\* token, or as it was.
Restored(r, c) == c \in pin <=> c \notin created[r] \/ baseline[r][c].pinned

Undoing(r) ==
  pc[r] = "undoing" => \A c \in files[r] :
    /\ job[c].kind = "none" /\ c \in todo[r] => rec[c].adm = r /\ c \in pin
    /\ job[c].kind = "none" /\ c \notin todo[r] => rec[c] = baseline[r][c] /\ Restored(r, c)
    /\ job[c].kind # "none" => job[c].next = baseline[r][c] /\ Restored(r, c)

UndoInv == "undo" \notin FaultyWrites => \A r \in Requests : Undoing(r)

LEMMA UndoKept ==
  ASSUME NEW r \in Requests, Undoing(r), files[r] \subseteq Cids,
         pc'[r] = pc[r], files'[r] = files[r], todo'[r] = todo[r],
         baseline'[r] = baseline[r], created'[r] = created[r],
         pc[r] = "undoing" => \A c \in files[r] : /\ rec'[c] = rec[c] /\ job'[c] = job[c]
                                                  /\ c \in pin' <=> c \in pin
  PROVE  Undoing(r)'
BY DEF Undoing, Restored

\* The request begins to undo: all its files are still its own.
LEMMA UndoBegins ==
  ASSUME IInv, NEW r \in Requests, pc[r] \in {"rollback", "finalizing"}, AllUnlocked(r),
         todo'[r] = files[r], UNCHANGED <<rec, pin, job, files>>
  PROVE  Undoing(r)'
<1>1. ASSUME NEW c \in files[r] PROVE rec[c].adm = r /\ c \in pin /\ job[c].kind = "none"
  <2>1. Owns(r, c)
    BY DEF IInv, Owned, Registered
  <2> QED BY <2>1 DEF Owns, AllUnlocked, Unlocked
<1> QED BY <1>1 DEF Undoing

LEMMA UndoByHandler ==
  ASSUME ConfigAssumption, IInv, NEW r \in Requests, Undoing(r), Upload(r)
  PROVE  Undoing(r)'
<1> USE DEF goto, at
<1>1. /\ pc \in [Requests -> Pcs] /\ files \in [Requests -> SUBSET Cids]
      /\ todo \in [Requests -> SUBSET Cids] /\ files[r] \subseteq Cids
      /\ job \in [Cids -> Job] /\ rec \in [Cids -> Record]
      /\ LocksOK /\ \A c \in Cids : JobOK(c)
  BY DEF IInv, TypeOK, CidOK
<1>2. CASE RollbackAdmitted(r) \/ FinalizeFails(r)
  BY <1>1, <1>2, UndoBegins DEF RollbackAdmitted, FinalizeFails, storeVars
<1>3. ASSUME NEW c \in Cids, UndoUpload(r, c), pc[r] = "undoing" PROVE Undoing(r)'
  <2>1. /\ c \in files[r] /\ job[c].kind = "none" /\ c \in todo[r]
        /\ UNCHANGED <<rec, pc, files, baseline, created>>
        /\ rec[c].adm = r /\ c \in pin
    BY <1>1, <1>3 DEF UndoUpload, NoJobOf, LocksOK, Undoing
  <2>2. /\ UNCHANGED todo
        /\ job'[c].kind = "undo" /\ job'[c].next = baseline[r][c]
        /\ \A d \in Cids \ {c} : job'[d] = job[d] /\ (d \in pin' <=> d \in pin)
        /\ c \in pin' <=> c \in pin /\ ~unpinOnRollback(r, c)
    BY <1>1, <1>3, <2>1 DEF UndoUpload, Pending, unpinFile
  <2>3. Restored(r, c)'
    BY <2>1, <2>2 DEF Restored, unpinOnRollback
  <2> QED BY <1>1, <1>3, <2>1, <2>2, <2>3 DEF Undoing, Restored
<1>4. ASSUME NEW c \in Cids, RestoreUpload(r, c), pc[r] = "undoing" PROVE Undoing(r)'
  <2>1. /\ c \in files[r] /\ job[c].kind = "undo"
        /\ UNCHANGED <<pin, pc, files, baseline, created>>
        /\ job[c].next = baseline[r][c] /\ Restored(r, c)
    BY <1>1, <1>4 DEF RestoreUpload, JobOK, UploadKinds, Undoing
  <2>2. /\ rec'[c] = baseline[r][c] /\ job'[c].kind = "none" /\ todo'[r] = todo[r] \ {c}
        /\ \A d \in Cids \ {c} : rec'[d] = rec[d] /\ job'[d] = job[d]
    BY <1>1, <1>4, <2>1 DEF RestoreUpload, save, NoJob
  <2> QED BY <1>1, <1>4, <2>1, <2>2 DEF Undoing, Restored
<1>5. CASE DeleteCreatedBlock(r)
  BY <1>1, <1>5, UndoKept DEF DeleteCreatedBlock
<1>6. CASE /\ pc'[r] # "undoing"
  BY <1>6 DEF Undoing
<1>7. ASSUME NEW c \in Cids, pc[r] # "undoing",
             UndoUpload(r, c) \/ RestoreUpload(r, c)
      PROVE  pc'[r] # "undoing"
  BY <1>7 DEF UndoUpload, RestoreUpload
<1>8. CASE ImportFiles(r) \/ DisconnectUpload(r) \/ ClaimUpload(r) \/ CleanUpSession(r)
           \/ CommitSession(r) \/ PlaceReplicas(r) \/ FinalizeAdmitted(r) \/ SettledUpload(r)
           \/ CommitUpload(r) \/ EndUpload(r)
  <2>1. pc'[r] # "undoing"
    BY <1>1, <1>8 DEF ImportFiles, DisconnectUpload, ClaimUpload, CleanUpSession, CommitSession,
       PlaceReplicas, FinalizeAdmitted, SettledUpload, CommitUpload, EndUpload, finish
  <2> QED BY <1>6, <2>1
<1>9. ASSUME NEW c \in Cids,
             \/ MarkPinIntent(r, c) \/ PinUpload(r, c) \/ RegisterUpload(r, c)
             \/ ClearPinIntent(r, c) \/ RefuseUpload(r, c) \/ RestoreRefused(r, c)
             \/ CheckCreatedBlock(r, c) \/ SettleUpload(r, c) \/ ClearSettledAdmission(r, c)
      PROVE  Undoing(r)'
  <2>1. pc'[r] # "undoing"
    BY <1>1, <1>9 DEF MarkPinIntent, PinUpload, RegisterUpload, ClearPinIntent, RefuseUpload,
       RestoreRefused, CheckCreatedBlock, SettleUpload, ClearSettledAdmission, uploadVars
  <2> QED BY <1>6, <2>1
<1> QED
  BY <1>2, <1>3, <1>4, <1>5, <1>6, <1>7, <1>8, <1>9 DEF Upload

LEMMA UndoInductive ==
  ASSUME ConfigAssumption, IInv, UndoInv, [Next]_vars
  PROVE  UndoInv'
<1> SUFFICES ASSUME "undo" \notin FaultyWrites PROVE \A r \in Requests : Undoing(r)'
  BY DEF UndoInv
<1>1. /\ \A r \in Requests : files[r] \subseteq Cids /\ Undoing(r)
      /\ \A c \in Cids : JobOK(c) /\ job[c].kind \in Kinds
      /\ job \in [Cids -> Job] /\ rec \in [Cids -> Record] /\ LocksOK
  BY DEF IInv, TypeOK, CidOK, UndoInv, Job
<1>2. ASSUME NEW r \in Requests, NEW q \in Requests, Upload(q) PROVE Undoing(r)'
  <2>1. CASE q = r
    BY <1>1, <1>2, <2>1, UndoByHandler
  <2>2. CASE q # r
    BY <1>1, <1>2, <2>2, UploadTouches, UndoKept DEF LockedPcs
  <2> QED BY <2>1, <2>2
<1>3. ASSUME NEW r \in Requests, NEW c \in Cids,
             WriteRecord(c) \/ ClientCall(c) \/ GcLoop(c) \/ Repair(c) \/ Boot(c)
      PROVE  Undoing(r)'
  <2>1. pc[r] = "undoing" => HeldByUpload(c) \/ c \notin files[r]
    BY DEF HeldByUpload, LockedPcs
  <2>2. /\ UNCHANGED <<pc, files, todo, baseline, created>>
        /\ pc[r] = "undoing" => \A d \in files[r] : /\ rec'[d] = rec[d] /\ job'[d] = job[d]
                                                    /\ d \in pin' <=> d \in pin
    BY <1>1, <1>3, <2>1, TouchesOwn
  <2> QED BY <1>1, <2>2, UndoKept
<1>4. ASSUME NEW r \in Requests, NEW c \in Cids, NEW persisted \in BOOLEAN,
             SaveFails(c, persisted)
      PROVE  Undoing(r)'
  <2>1. job[c].kind \in OwnKinds \cup {"admit"}
    BY <1>1, <1>4 DEF SaveFails, ConfigAssumption, Kinds, OwnKinds
  <2>2. pc[r] = "undoing" => c \notin files[r]
    <3> SUFFICES ASSUME pc[r] = "undoing", c \in files[r] PROVE FALSE
      OBVIOUS
    <3>1. job[c].by = r /\ job[c].kind = "admit"
      BY <1>1, <2>1, LockedByHandler DEF LockedPcs, UploadKinds, OwnKinds
    <3> QED BY <1>1, <3>1 DEF JobOK, UploadKinds
  <2>3. /\ UNCHANGED <<pc, files, baseline, created>> /\ todo'[r] = todo[r]
        /\ \A d \in Cids \ {c} : /\ rec'[d] = rec[d] /\ job'[d] = job[d]
                                 /\ d \in pin' <=> d \in pin
    BY <1>1, <1>4, <2>1 DEF SaveFails, save, undoPin, pinFile, unpinFile, OwnKinds
  <2> QED BY <1>1, <2>2, <2>3, UndoKept
<1>5. CASE GcStart \/ GcPass \/ UNCHANGED vars
  <2>1. UNCHANGED <<rec, pin, job, pc, files, todo, baseline, created>>
    BY <1>5 DEF GcStart, GcPass, GcDemoteStart, GcPlan, GcReleaseStart, GcKeepBlocks,
       GcAskLease, GcLease, GcCleanupStart, GcEnd, gcKeep, storeVars, uploadVars, vars
  <2> QED BY <1>1, <2>1, UndoKept
<1>6. CASE CrashAndRestart
  <2>1. \A r \in Requests : pc'[r] # "undoing"
    BY <1>6 DEF CrashAndRestart
  <2> QED BY <2>1 DEF Undoing
<1> QED BY <1>2, <1>3, <1>4, <1>5, <1>6 DEF Next

\* A request that is refused after its registrations ends with every record and every
\* pin of all its files as it found them, whatever else runs, fails and restarts
\* meanwhile, as long as it does not end in a crash and the restored records are written.
THEOREM RefusedUploadLeavesNoTrace == ConfigAssumption => (Spec => RefusedLeaveNoTrace)
<1> SUFFICES ASSUME ConfigAssumption PROVE Spec => RefusedLeaveNoTrace
  OBVIOUS
<1> DEFINE Decent == UNCHANGED crashes /\ "undo" \notin FaultyWrites => RejectedRestored
<1>1. Init => UndoInv
  BY DEF Init, UndoInv, Undoing
<1>2. IInv /\ UndoInv /\ [Next]_vars => UndoInv'
  BY UndoInductive
<1>3. IInv /\ UndoInv /\ [Next]_vars => [Decent]_vars
  <2> SUFFICES ASSUME IInv, UndoInv, Next, UNCHANGED crashes, "undo" \notin FaultyWrites,
                      NEW r \in Requests, pc[r] = "undoing", pc'[r] = "done",
                      NEW c \in files[r]
               PROVE  rec[c] = baseline[r][c] /\ Restored(r, c)
    BY DEF RejectedRestored, Restored
  <2>1. EndUpload(r)
    <3>1. \A d \in Cids : ~(WriteRecord(d) \/ ClientCall(d) \/ GcLoop(d) \/ Repair(d) \/ Boot(d))
      BY TouchesOwn
    <3>2. \A d \in Cids, persisted \in BOOLEAN : ~SaveFails(d, persisted)
      BY DEF SaveFails
    <3>3. ~GcStart /\ ~GcPass /\ ~CrashAndRestart
      BY DEF GcStart, GcPass, GcDemoteStart, GcPlan, GcReleaseStart, GcKeepBlocks, GcAskLease,
         GcLease, GcCleanupStart, GcEnd, gcKeep, uploadVars, envVars, CrashAndRestart, IInv,
         TypeOK
    <3>4. ASSUME NEW q \in Requests, Upload(q) PROVE q = r
      BY <3>4, UploadTouches
    <3>5. Upload(r)
      BY <3>1, <3>2, <3>3, <3>4 DEF Next
    <3>6. pc \in [Requests -> Pcs]
      BY DEF IInv, TypeOK
    <3>7. CASE ImportFiles(r) \/ DisconnectUpload(r) \/ ClaimUpload(r) \/ CleanUpSession(r)
               \/ DeleteCreatedBlock(r) \/ CommitSession(r) \/ PlaceReplicas(r)
               \/ RollbackAdmitted(r) \/ FinalizeAdmitted(r) \/ FinalizeFails(r)
               \/ SettledUpload(r) \/ CommitUpload(r)
      BY <3>6, <3>7 DEF ImportFiles, DisconnectUpload, ClaimUpload, CleanUpSession,
         DeleteCreatedBlock, CommitSession, PlaceReplicas, RollbackAdmitted, FinalizeAdmitted,
         FinalizeFails, SettledUpload, CommitUpload, goto, at
    <3>8. ASSUME NEW d \in Cids,
                 \/ MarkPinIntent(r, d) \/ PinUpload(r, d) \/ RegisterUpload(r, d)
                 \/ ClearPinIntent(r, d) \/ RefuseUpload(r, d) \/ RestoreRefused(r, d)
                 \/ UndoUpload(r, d) \/ RestoreUpload(r, d) \/ CheckCreatedBlock(r, d)
                 \/ SettleUpload(r, d) \/ ClearSettledAdmission(r, d)
          PROVE  FALSE
      BY <3>8 DEF MarkPinIntent, PinUpload, RegisterUpload, ClearPinIntent, RefuseUpload,
         RestoreRefused, UndoUpload, RestoreUpload, CheckCreatedBlock, SettleUpload,
         ClearSettledAdmission, uploadVars, at
    <3> QED BY <3>5, <3>7, <3>8 DEF Upload
  <2>2. job[c].kind = "none" /\ todo[r] = {}
    BY <2>1 DEF EndUpload, NoJobOf
  <2> QED BY <2>2 DEF UndoInv, Undoing
<1>4. Spec => []IInv
  BY Invariance
<1> QED BY <1>1, <1>2, <1>3, <1>4, PTL DEF Spec, RefusedLeaveNoTrace

-----------------------------------------------------------------------------
(* Garbage collection spares what the registry calls durable *)

\* The pin is there when a pending operation writes a record that says so.
Backed(c) ==
  LET j == job[c] IN
  /\ j.kind \in OwnKinds \cup {"admit", "undo"} => (j.next.held => c \in pin)
  /\ j.kind = "refused" => (j.prev.held => c \in pin)
  /\ j.kind = "busy" => c \in pin /\ (j.undoPin = "unpin" => ~j.prev.held)

\* What the guard rail of this pass has seen, or the whole pass relies on.
Guarded(c) == \/ gcPc = "guard" /\ gcCollect /\ c \notin gcTodo
              \/ gcPc = "release" /\ gcCollect
              \/ gcPc \in {"lease", "delete"}

\* A crash may leave a durable record without a pin, until the guard rail finds it;
\* a prepared copy has no such guard.
Resting(c) ==
  job[c].kind \in {"none", "intent"} =>
    /\ Durable(rec[c]) /\ Guarded(c) => c \in pin
    /\ rec[c].stage # {} /\ MaxCrashes = 0 => c \in pin

SpareOK(c) ==
  /\ Consistent(rec[c]) /\ Consistent(job[c].next) /\ Consistent(job[c].prev)
  /\ \A r \in Requests : Consistent(baseline[r][c])
  /\ Backed(c) /\ Resting(c)

\* A file that a rollback has still to restore is pinned.
RestoreOK(r) ==
  pc[r] \in {"restoring", "undoing"} =>
    \A c \in todo[r] : job[c].kind = "none" /\ rec[c].adm = r => c \in pin

\* No session, and so no session cleanup, is open while the collector deletes.
LeaseOK(r) == /\ gcPc = "delete" => pc[r] \notin LeasedPcs
              /\ doomed[r] # {} => pc[r] \in {"aborting", "cleaning"}

SpareInv == /\ gcPc # "idle" => Reconciled
            /\ \A c \in Cids : SpareOK(c)
            /\ \A r \in Requests : RestoreOK(r) /\ LeaseOK(r)

\* No write fails, the collector waits for the startup walk, and a node that
\* prepares copies for others does not die.
Sparing == MaxFaults = 0 /\ "collect" \notin Calls /\ (Txs = {} \/ MaxCrashes = 0)

\* A step that leaves a content alone.
LEMMA SpareKept ==
  ASSUME NEW d \in Cids, SpareOK(d), rec'[d] = rec[d], job'[d] = job[d], d \in pin' <=> d \in pin,
         \A r \in Requests : baseline'[r][d] \in {baseline[r][d], Absent},
         Guarded(d)' => Guarded(d) \/ ~Durable(rec[d]) \/ d \in pin
  PROVE  SpareOK(d)'
<1>1. \A r \in Requests : Consistent(baseline'[r][d])
  BY AbsentConsistent DEF SpareOK
<1> QED BY <1>1 DEF SpareOK, Backed, Resting, Consistent, Durable

\* A step that touches one content, and whose pass relies on nothing more.
LEMMA SpareOthers ==
  ASSUME SpareInv, NEW c \in Cids, SpareOK(c)',
         \A d \in Cids \ {c} : /\ rec'[d] = rec[d] /\ job'[d] = job[d]
                               /\ d \in pin' <=> d \in pin
                               /\ \A r \in Requests : baseline'[r][d] = baseline[r][d]
                               /\ Guarded(d)' => Guarded(d)
  PROVE  \A d \in Cids : SpareOK(d)'
<1>1. ASSUME NEW d \in Cids \ {c} PROVE SpareOK(d)'
  <2>1. SpareOK(d)
    BY DEF SpareInv
  <2> QED BY <2>1, SpareKept
<1> QED BY <1>1

\* The first half of an operation that no handler runs.
LEMMA SpareBegins ==
  ASSUME IInv, SpareInv, NEW c \in Cids, Unlocked(c), UNCHANGED <<rec, baseline>>,
         \A d \in Cids \ {c} : job'[d] = job[d] /\ (d \in pin' <=> d \in pin)
                               /\ (Guarded(d)' => Guarded(d)),
         job'[c].kind \in OwnKinds, job'[c].prev = rec[c],
         Consistent(job'[c].next), job'[c].next.held => c \in pin'
  PROVE  \A d \in Cids : SpareOK(d)'
<1>1. SpareOK(c)
  BY DEF SpareInv
<1>2. SpareOK(c)'
  BY <1>1 DEF SpareOK, Backed, Resting, OwnKinds, Consistent
<1> QED BY <1>2, SpareOthers

\* A registry write that makes nothing durable and stages nothing, or no write at all.
LEMMA SpareWrites ==
  ASSUME IInv, SpareInv, NEW c \in Cids, UNCHANGED <<job, baseline>>,
         \A d \in Cids : d \in pin => d \in pin',
         \A d \in Cids \ {c} : rec'[d] = rec[d] /\ (d \in pin' => d \in pin),
         \A d \in Cids : Guarded(d)' => Guarded(d) \/ ~Durable(rec'[d]) \/ d \in pin',
         Consistent(rec'[c]),
         Durable(rec'[c]) /\ Guarded(c)' => Durable(rec[c]) \/ c \in pin',
         rec'[c].stage # {} => rec[c].stage # {}
  PROVE  \A d \in Cids : SpareOK(d)'
<1>1. ASSUME NEW d \in Cids \ {c} PROVE SpareOK(d)'
  <2>1. SpareOK(d)
    BY DEF SpareInv
  <2> QED BY <2>1, SpareKept
<1>2. SpareOK(c)'
  <2>1. SpareOK(c)
    BY DEF SpareInv
  <2>2. Backed(c)'
    BY <2>1 DEF SpareOK, Backed
  <2>3. Resting(c)'
    BY <2>1 DEF SpareOK, Resting
  <2> QED BY <2>1, <2>2, <2>3 DEF SpareOK, Consistent
<1> QED BY <1>1, <1>2

LEMMA RestoreKept ==
  ASSUME NEW r \in Requests, RestoreOK(r), IInv,
         pc'[r] = pc[r], todo'[r] = todo[r],
         pc[r] \in {"restoring", "undoing"} => \A c \in files[r] :
           rec'[c] = rec[c] /\ job'[c] = job[c] /\ (c \in pin' <=> c \in pin)
  PROVE  RestoreOK(r)'
BY DEF RestoreOK, IInv, LocksOK

\* Steps of a handler that change no record, no pin and no pending operation.
LEMMA SpareRequest ==
  ASSUME ConfigAssumption, Sparing, IInv, SpareInv, NEW r \in Requests,
         \/ ImportFiles(r) \/ DisconnectUpload(r) \/ ClaimUpload(r)
         \/ CleanUpSession(r) \/ DeleteCreatedBlock(r) \/ CommitSession(r)
         \/ PlaceReplicas(r) \/ RollbackAdmitted(r) \/ FinalizeAdmitted(r)
         \/ FinalizeFails(r) \/ SettledUpload(r) \/ CommitUpload(r) \/ EndUpload(r)
  PROVE  (\A c \in Cids : SpareOK(c)') /\ RestoreOK(r)' /\ LeaseOK(r)'
<1> USE DEF goto, at, storeVars, gcVars
<1>1. /\ pc \in [Requests -> Pcs] /\ files \in [Requests -> SUBSET Cids]
      /\ todo \in [Requests -> SUBSET Cids] /\ doomed \in [Requests -> SUBSET Cids]
      /\ baseline \in [Requests -> [Cids -> Record]] /\ faults = 0 /\ MaxFaults = 0
      /\ RestoreOK(r) /\ LeaseOK(r)
  BY DEF IInv, TypeOK, Sparing, SpareInv
<1>2. /\ UNCHANGED <<rec, pin, job, gcPc, gcTodo, gcCollect>>
      /\ \A q \in Requests : \A c \in Cids : baseline'[q][c] \in {baseline[q][c], Absent}
  BY <1>1 DEF ImportFiles, DisconnectUpload, ClaimUpload, CleanUpSession, DeleteCreatedBlock,
     CommitSession, PlaceReplicas, RollbackAdmitted, FinalizeAdmitted, FinalizeFails,
     SettledUpload, CommitUpload, EndUpload, finish
<1>3. ASSUME NEW c \in Cids PROVE SpareOK(c)'
  <2>1. SpareOK(c) /\ (Guarded(c)' => Guarded(c))
    BY <1>2 DEF SpareInv, Guarded
  <2> QED BY <1>2, <2>1, SpareKept
<1>4. RestoreOK(r)'
  <2>1. CASE RollbackAdmitted(r)
    <3>1. \A c \in files[r] : c \in pin
      BY <2>1 DEF RollbackAdmitted, IInv, Owned, Owns, Registered
    <3> QED BY <1>1, <2>1, <3>1 DEF RollbackAdmitted, RestoreOK
  <2>2. CASE DeleteCreatedBlock(r)
    BY <1>1, <2>2 DEF DeleteCreatedBlock, RestoreOK
  <2>3. CASE FinalizeFails(r)
    BY <1>1, <2>3 DEF FinalizeFails
  <2>4. CASE ImportFiles(r) \/ DisconnectUpload(r) \/ ClaimUpload(r) \/ CleanUpSession(r)
             \/ CommitSession(r) \/ PlaceReplicas(r) \/ FinalizeAdmitted(r) \/ SettledUpload(r)
             \/ CommitUpload(r) \/ EndUpload(r)
    BY <1>1, <2>4 DEF ImportFiles, DisconnectUpload, ClaimUpload, CleanUpSession, CommitSession,
       PlaceReplicas, FinalizeAdmitted, SettledUpload, CommitUpload, EndUpload, finish, RestoreOK
  <2> QED BY <2>1, <2>2, <2>3, <2>4
<1>5. LeaseOK(r)'
  <2>1. CASE ImportFiles(r)
    BY <1>1, <1>2, <2>1 DEF ImportFiles, LeaseOpen, LeaseOK
  <2>2. CASE DisconnectUpload(r) \/ ClaimUpload(r) \/ CleanUpSession(r) \/ DeleteCreatedBlock(r)
    BY <1>1, <1>2, <2>2 DEF DisconnectUpload, ClaimUpload, CleanUpSession, DeleteCreatedBlock,
       LeaseOK, LeasedPcs
  <2>3. CASE \/ CommitSession(r) \/ PlaceReplicas(r) \/ RollbackAdmitted(r)
             \/ FinalizeAdmitted(r) \/ FinalizeFails(r) \/ SettledUpload(r) \/ CommitUpload(r)
             \/ EndUpload(r)
    <3>1. pc'[r] \notin LeasedPcs /\ (doomed'[r] = {} \/ doomed'[r] = doomed[r])
      BY <1>1, <2>3 DEF CommitSession, PlaceReplicas, RollbackAdmitted, FinalizeAdmitted,
         FinalizeFails, SettledUpload, CommitUpload, EndUpload, finish, LeasedPcs
    <3>2. doomed'[r] = {}
      BY <1>1, <2>3 DEF CommitSession, PlaceReplicas, RollbackAdmitted, FinalizeAdmitted,
         FinalizeFails, SettledUpload, CommitUpload, EndUpload, finish, LeaseOK
    <3> QED BY <3>1, <3>2 DEF LeaseOK
  <2> QED BY <2>1, <2>2, <2>3
<1> QED BY <1>3, <1>4, <1>5

\* Steps of a handler on one file.
LEMMA SparePins ==
  ASSUME ConfigAssumption, IInv, SpareInv, NEW r \in Requests, NEW c \in Cids,
         \/ MarkPinIntent(r, c) \/ PinUpload(r, c) \/ RegisterUpload(r, c)
         \/ RefuseUpload(r, c) \/ RestoreRefused(r, c)
  PROVE  (\A d \in Cids : SpareOK(d)') /\ RestoreOK(r)' /\ LeaseOK(r)'
<1> USE DEF uploadVars, at, goto
<1>1. /\ SpareOK(c) /\ job \in [Cids -> Job] /\ rec \in [Cids -> Record]
      /\ baseline \in [Requests -> [Cids -> Record]] /\ pc \in [Requests -> Pcs]
      /\ todo \in [Requests -> SUBSET Cids]
      /\ LocksOK /\ r # NoReq /\ LeaseOK(r) /\ pc[r] = "admitting"
  BY DEF SpareInv, IInv, TypeOK, ConfigAssumption, MarkPinIntent, PinUpload, RegisterUpload,
         RefuseUpload, RestoreRefused
<1>2. /\ UNCHANGED <<gcPc, gcTodo, gcCollect>> /\ \A d \in Cids : Guarded(d)' <=> Guarded(d)
      /\ \A d \in Cids \ {c} : /\ rec'[d] = rec[d] /\ job'[d] = job[d]
                               /\ d \in pin' <=> d \in pin
                               /\ \A q \in Requests : baseline'[q][d] = baseline[q][d]
  BY <1>1 DEF MarkPinIntent, PinUpload, RegisterUpload, RefuseUpload, RestoreRefused, gcVars,
     Guarded, Pending, save, pinFile, unpinFile
<1>3. LeaseOK(r)'
  BY <1>1, <1>2 DEF MarkPinIntent, PinUpload, RegisterUpload, RefuseUpload, RestoreRefused,
     LeaseOK, LeasedPcs
<1>4. CASE MarkPinIntent(r, c)
  <2>1. /\ UNCHANGED <<rec, pin, baseline>> /\ job[c].kind = "none"
        /\ job'[c].kind = "intent" /\ job'[c].next = rec[c] /\ job'[c].prev = rec[c]
    BY <1>1, <1>4 DEF MarkPinIntent, Pending, NoJobOf, LocksOK
  <2>2. SpareOK(c)'
    BY <1>1, <1>2, <2>1 DEF SpareOK, Backed, Resting, OwnKinds
  <2> QED BY <1>1, <1>2, <1>3, <1>4, <2>2, SpareOthers DEF RestoreOK, MarkPinIntent
<1>5. CASE PinUpload(r, c)
  <2>1. /\ UNCHANGED <<rec, baseline>> /\ c \in pin'
        /\ job'[c].prev = rec[c] /\ job'[c].undoPin = undoCreated(c)
        /\ \/ job'[c].kind = "busy" /\ job'[c].next = rec[c]
           \/ job'[c].kind = "admit" /\ job'[c].next = registered(c, r, ConfirmationRequired)
    BY <1>1, <1>5 DEF PinUpload, Pending, pinFile
  <2>2. Consistent(registered(c, r, ConfirmationRequired))
    BY <1>1 DEF registered, Consistent
  <2>3. undoCreated(c) = "unpin" => ~rec[c].held
    BY <1>1 DEF undoCreated, SpareOK, Consistent
  <2>4. SpareOK(c)'
    BY <1>1, <2>1, <2>2, <2>3 DEF SpareOK, Backed, Resting
  <2> QED BY <1>1, <1>2, <1>3, <1>5, <2>4, SpareOthers DEF RestoreOK, PinUpload
<1>6. CASE RegisterUpload(r, c)
  <2>1. /\ UNCHANGED pin /\ job[c].kind = "admit" /\ rec'[c] = job[c].next /\ job'[c] = NoJob
        /\ \A q \in Requests : baseline'[q][c] \in {baseline[q][c], job[c].prev}
    BY <1>1, <1>6 DEF RegisterUpload, save
  <2>2. (rec'[c].held => c \in pin') /\ Consistent(rec'[c])
    BY <1>1, <2>1 DEF SpareOK, Backed
  <2>3. Resting(c)'
    BY <2>2 DEF Resting, Durable, Consistent
  <2>4. SpareOK(c)'
    BY <1>1, <2>1, <2>3, AbsentConsistent DEF SpareOK, Backed, NoJob, OwnKinds
  <2> QED BY <1>1, <1>2, <1>3, <1>6, <2>4, SpareOthers DEF RestoreOK, RegisterUpload
<1>7. CASE RefuseUpload(r, c)
  <2>1. /\ UNCHANGED <<rec, baseline>>
        /\ job[c].kind = "busy" /\ job'[c].kind = "refused"
        /\ job'[c].prev = job[c].prev /\ job'[c].next = job[c].next
        /\ job[c].undoPin # "unpin" /\ c \in pin => c \in pin'
    BY <1>1, <1>7 DEF RefuseUpload, unpinFile, Job
  <2>2. SpareOK(c)'
    BY <1>1, <2>1 DEF SpareOK, Backed, Resting, OwnKinds
  <2> QED BY <1>1, <1>2, <1>3, <1>7, <2>2, SpareOthers DEF RestoreOK, RefuseUpload
<1>8. CASE RestoreRefused(r, c)
  <2>1. /\ UNCHANGED <<pin, baseline>>
        /\ job[c].kind = "refused" /\ rec'[c] = job[c].prev /\ job'[c] = NoJob
        /\ todo'[r] = files[r] \ todo[r] /\ job[c].by = r
    BY <1>1, <1>8 DEF RestoreRefused, save
  <2>2. (rec'[c].held => c \in pin') /\ Consistent(rec'[c])
    BY <1>1, <2>1 DEF SpareOK, Backed
  <2>3. Resting(c)'
    BY <2>2 DEF Resting, Durable, Consistent
  <2>4. SpareOK(c)'
    BY <1>1, <2>1, <2>3, AbsentConsistent DEF SpareOK, Backed, NoJob, OwnKinds
  <2>5. RestoreOK(r)'
    BY <1>1, <2>1 DEF RestoreOK, IInv, Owned, Owns, Registered
  <2> QED BY <1>2, <1>3, <2>4, <2>5, SpareOthers
<1> QED BY <1>4, <1>5, <1>6, <1>7, <1>8

LEMMA SpareUndoes ==
  ASSUME ConfigAssumption, IInv, SpareInv, NEW r \in Requests, NEW c \in Cids,
         UndoUpload(r, c) \/ RestoreUpload(r, c)
  PROVE  (\A d \in Cids : SpareOK(d)') /\ RestoreOK(r)' /\ LeaseOK(r)'
<1> USE DEF at
<1>1. /\ SpareOK(c) /\ job \in [Cids -> Job] /\ rec \in [Cids -> Record]
      /\ todo \in [Requests -> SUBSET Cids] /\ JobOK(c)
      /\ LocksOK /\ LeaseOK(r) /\ RestoreOK(r) /\ RestoringOwned
      /\ UNCHANGED <<pc, files, baseline, doomed>>
  BY DEF SpareInv, IInv, TypeOK, CidOK, UndoUpload, RestoreUpload
<1>2. /\ UNCHANGED <<gcPc, gcTodo, gcCollect>> /\ \A d \in Cids : Guarded(d)' <=> Guarded(d)
      /\ LeaseOK(r)'
      /\ \A d \in Cids \ {c} : /\ rec'[d] = rec[d] /\ job'[d] = job[d]
                               /\ d \in pin' <=> d \in pin
                               /\ \A q \in Requests : baseline'[q][d] = baseline[q][d]
      /\ todo'[r] \in {todo[r], todo[r] \ {c}}
  BY <1>1 DEF UndoUpload, RestoreUpload, gcVars, Guarded, Pending, save, unpinFile, LeaseOK
<1>3. CASE UndoUpload(r, c) /\ UNCHANGED <<pin, blocks, job>>
  <2>1. SpareOK(c)'
    BY <1>1, <1>2, <1>3 DEF UndoUpload, SpareOK, Backed, Resting
  <2> QED BY <1>1, <1>2, <1>3, <2>1, SpareOthers DEF RestoreOK, UndoUpload
<1>4. CASE /\ UndoUpload(r, c)
           /\ pc[r] = "restoring" \/ rec[c].adm = r
           /\ IF unpinOnRollback(r, c) THEN unpinFile(c) ELSE UNCHANGED <<pin, blocks>>
           /\ Pending(c, "undo", r, baseline[r][c], "keep", FALSE, FALSE)
  <2>1. /\ UNCHANGED rec /\ job[c].kind = "none" /\ c \in todo[r] /\ rec[c].adm = r
        /\ pc[r] \in {"restoring", "undoing"}
    BY <1>1, <1>4 DEF UndoUpload, NoJobOf, LocksOK, RestoringOwned
  <2>2. job'[c].kind = "undo" /\ job'[c].next = baseline[r][c] /\ job'[c].prev = rec[c]
    BY <1>1, <1>4 DEF Pending
  <2>3. c \in pin /\ (c \in pin' <=> ~unpinOnRollback(r, c))
    BY <1>1, <1>4, <2>1 DEF RestoreOK, unpinFile
  <2>4. baseline[r][c].held => c \in pin'
    BY <1>1, <2>3 DEF unpinOnRollback, SpareOK, Consistent
  <2>5. SpareOK(c)'
    BY <1>1, <2>1, <2>2, <2>4 DEF SpareOK, Backed, Resting
  <2>6. RestoreOK(r)'
    BY <1>1, <1>2, <2>1, <2>2 DEF RestoreOK, IInv, LocksOK
  <2> QED BY <1>2, <2>5, <2>6, SpareOthers
<1>5. CASE RestoreUpload(r, c)
  <2>1. /\ UNCHANGED pin /\ job[c].kind = "undo" /\ rec'[c] = job[c].next /\ job'[c] = NoJob
        /\ todo'[r] = todo[r] \ {c}
    BY <1>1, <1>5 DEF RestoreUpload, save
  <2>2. (rec'[c].held => c \in pin') /\ Consistent(rec'[c])
    BY <1>1, <2>1 DEF SpareOK, Backed
  <2>3. Resting(c)'
    BY <2>2 DEF Resting, Durable, Consistent
  <2>4. SpareOK(c)'
    BY <1>1, <2>1, <2>3, AbsentConsistent DEF SpareOK, Backed, NoJob, OwnKinds
  <2>5. RestoreOK(r)'
    BY <1>1, <1>2, <2>1 DEF RestoreOK, IInv, LocksOK
  <2> QED BY <1>2, <2>4, <2>5, SpareOthers
<1> QED BY <1>3, <1>4, <1>5 DEF UndoUpload

LEMMA SpareFileKept ==
  ASSUME ConfigAssumption, IInv, SpareInv, NEW r \in Requests, NEW c \in Cids,
         \/ ClearPinIntent(r, c) \/ CheckCreatedBlock(r, c)
         \/ SettleUpload(r, c) \/ ClearSettledAdmission(r, c)
  PROVE  (\A d \in Cids : SpareOK(d)') /\ RestoreOK(r)' /\ LeaseOK(r)'
<1>1. /\ UNCHANGED <<job, pin, baseline, gcPc, gcTodo, gcCollect, pc>>
      /\ rec \in [Cids -> Record] /\ rec[c] \in Record /\ doomed \in [Requests -> SUBSET Cids]
      /\ Consistent(rec[c]) /\ LeaseOK(r) /\ RestoreOK(r)
  BY DEF IInv, TypeOK, SpareInv, SpareOK, ClearPinIntent, CheckCreatedBlock, SettleUpload,
         ClearSettledAdmission, uploadVars, gcVars, storeVars
<1>2. /\ \A d \in Cids \ {c} : rec'[d] = rec[d]
      /\ rec'[c] \in {rec[c], [rec[c] EXCEPT !.settled = TRUE], Unowned(rec[c])}
      /\ \A d \in Cids : Guarded(d)' <=> Guarded(d)
  BY <1>1 DEF ClearPinIntent, CheckCreatedBlock, SettleUpload, ClearSettledAdmission, storeVars,
              save, Guarded
<1>3. ASSUME NEW f, f \in {rec[c], [rec[c] EXCEPT !.settled = TRUE], Unowned(rec[c])}
      PROVE  Consistent(f) /\ (Durable(f) => Durable(rec[c])) /\ f.stage = rec[c].stage
  BY <1>1, <1>3 DEF Consistent, Record, Unowned, Durable
<1>4. \A d \in Cids : SpareOK(d)'
  <2>1. /\ Consistent(rec'[c]) /\ (Durable(rec'[c]) => Durable(rec[c]))
        /\ rec'[c].stage = rec[c].stage
    BY <1>2, <1>3
  <2>2. \A d \in Cids : Guarded(d)' => Guarded(d) \/ ~Durable(rec'[d]) \/ d \in pin'
    BY <1>2
  <2> QED BY <1>1, <1>2, <2>1, <2>2, SpareWrites
<1>5. RestoreOK(r)'
  <2>1. pc[r] \in {"restoring", "undoing"} => FALSE
    BY DEF ClearPinIntent, CheckCreatedBlock, SettleUpload, ClearSettledAdmission, at
  <2> QED BY <1>1, <2>1 DEF RestoreOK
<1>6. LeaseOK(r)'
  BY <1>1 DEF LeaseOK, ClearPinIntent, CheckCreatedBlock, SettleUpload, ClearSettledAdmission,
              uploadVars
<1> QED BY <1>4, <1>5, <1>6

LEMMA SpareWriteRecord ==
  ASSUME ConfigAssumption, IInv, SpareInv, NEW c \in Cids, WriteRecord(c)
  PROVE  \A d \in Cids : SpareOK(d)'
<1>1. SpareOK(c) /\ job \in [Cids -> Job] /\ rec \in [Cids -> Record]
  BY DEF SpareInv, IInv, TypeOK
<1>2. /\ UNCHANGED <<pin, baseline, gcPc, gcTodo, gcCollect>>
      /\ job[c].kind \in OwnKinds /\ job'[c] = NoJob /\ rec'[c] = job[c].next
      /\ \A d \in Cids \ {c} : rec'[d] = rec[d] /\ job'[d] = job[d]
  BY <1>1 DEF WriteRecord, uploadVars
<1>3. (rec'[c].held => c \in pin') /\ Consistent(rec'[c])
  BY <1>1, <1>2 DEF SpareOK, Backed
<1>4. Resting(c)'
  BY <1>3 DEF Resting, Durable, Consistent
<1>5. SpareOK(c)'
  BY <1>1, <1>2, <1>4, AbsentConsistent DEF SpareOK, Backed, NoJob, OwnKinds
<1>6. \A d \in Cids : Guarded(d)' <=> Guarded(d)
  BY <1>2 DEF Guarded
<1> QED BY <1>2, <1>5, <1>6, SpareOthers

\* What an unlocked content looks like.
LEMMA SpareIdle ==
  ASSUME IInv, SpareInv, NEW c \in Cids, Unlocked(c)
  PROVE  /\ rec[c] \in Record /\ job \in [Cids -> Job] /\ rec \in [Cids -> Record]
         /\ Consistent(rec[c]) /\ Resting(c) /\ job[c].kind = "none"
BY DEF IInv, TypeOK, SpareInv, SpareOK, Unlocked

LEMMA SpareUnstages ==
  ASSUME IInv, SpareInv, NEW c \in Cids, Unlocked(c), NEW kind \in OwnKinds,
         NEW keep \in BOOLEAN, NEW shared \in BOOLEAN,
         Unstage(c, kind, keep, shared), UNCHANGED <<rec, baseline>>,
         \A d \in Cids : Guarded(d)' => Guarded(d)
  PROVE  \A d \in Cids : SpareOK(d)'
<1>1. /\ job'[c].kind = kind /\ job'[c].prev = rec[c]
      /\ job'[c].next \in {Absent, expiredBaseline(rec[c])}
      /\ \A d \in Cids \ {c} : job'[d] = job[d]
  BY SpareIdle DEF Unstage, Pending
<1>2. \A d \in Cids \ {c} : d \in pin' <=> d \in pin
  BY DEF Unstage, unpinFile
<1>3. Consistent(expiredBaseline(rec[c])) /\ ~expiredBaseline(rec[c]).held
  BY SpareIdle, ConsistentShapes
<1>4. Consistent(job'[c].next) /\ ~job'[c].next.held
  BY <1>1, <1>3, AbsentConsistent
<1> QED BY <1>1, <1>2, <1>4, SpareBegins

LEMMA SpareClient ==
  ASSUME ConfigAssumption, Sparing, IInv, SpareInv, NEW c \in Cids, ClientCall(c)
  PROVE  (\A d \in Cids : SpareOK(d)') /\ UNCHANGED <<gcPc, recovery, backfill>>
<1> USE DEF others, uploadVars, bootVars
<1>1. UNCHANGED <<gcPc, gcTodo, gcCollect, baseline, recovery, backfill>>
  BY DEF ClientCall, Confirm, Release, Adopt, Store, SetReplicas, Stage, Commit, Abort
<1>2. \A d \in Cids : Guarded(d)' => Guarded(d)
  BY <1>1 DEF Guarded
<1>3. CASE Confirm(c) \/ Release(c)
  <2>1. Unlocked(c) /\ UNCHANGED rec
    BY <1>3 DEF Confirm, Release
  <2>2. /\ \A d \in Cids \ {c} : job'[d] = job[d] /\ (d \in pin' <=> d \in pin)
        /\ job'[c].kind \in OwnKinds /\ job'[c].prev = rec[c]
        /\ \/ job'[c].next = Confirmed(rec[c]) /\ c \in pin'
           \/ job'[c].next = Released(rec[c]) /\ c \notin pin'
    BY <1>3, <2>1, SpareIdle DEF Confirm, Release, pinFile, unpinFile, Pending, OwnKinds
  <2>3. /\ Consistent(Confirmed(rec[c])) /\ Confirmed(rec[c]).held
        /\ Consistent(Released(rec[c])) /\ ~Released(rec[c]).held
    BY <2>1, SpareIdle, ConsistentShapes
  <2>4. Consistent(job'[c].next) /\ (c \in pin' <=> job'[c].next.held)
    BY <2>2, <2>3
  <2> QED BY <1>1, <1>2, <2>1, <2>2, <2>4, SpareBegins
<1>4. CASE Adopt(c) \/ Store(c)
  <2>1. Unlocked(c) /\ registerPinnedUnderLock(c) /\ UNCHANGED rec
    BY <1>4 DEF Adopt, Store
  <2>2. CASE /\ pin' = IF wasPinned(c) = "pin" THEN pin \cup {c} ELSE pin \ {c}
             /\ Pending(c, "baseline", NoReq, rec[c], "keep", FALSE, TRUE)
    <3>1. /\ \A d \in Cids \ {c} : job'[d] = job[d] /\ (d \in pin' <=> d \in pin)
          /\ job'[c].kind \in OwnKinds /\ job'[c].prev = rec[c] /\ job'[c].next = rec[c]
      BY <2>1, <2>2, SpareIdle DEF Pending, OwnKinds
    <3>2. rec[c].held => c \in pin'
      BY <2>1, <2>2, SpareIdle DEF wasPinned, Consistent
    <3> QED BY <1>1, <1>2, <2>1, <3>1, <3>2, SpareIdle, SpareBegins
  <2>3. CASE /\ rec[c].stage = {} /\ pinFile(c)
             /\ Pending(c, "store", NoReq, registered(c, NoReq, FALSE), wasPinned(c), TRUE, TRUE)
    <3>1. /\ \A d \in Cids \ {c} : job'[d] = job[d] /\ (d \in pin' <=> d \in pin)
          /\ job'[c].kind \in OwnKinds /\ job'[c].prev = rec[c] /\ c \in pin'
          /\ job'[c].next = registered(c, NoReq, FALSE)
      BY <2>1, <2>3, SpareIdle DEF Pending, OwnKinds, pinFile
    <3>2. Consistent(job'[c].next)
      BY <2>3, <3>1 DEF registered, Consistent
    <3> QED BY <1>1, <1>2, <2>1, <3>1, <3>2, SpareBegins
  <2>4. CASE rec[c].stage # {} /\ pinFile(c) /\ UNCHANGED job
    <3>1. c \in pin' /\ \A d \in Cids \ {c} : d \in pin' <=> d \in pin
      BY <2>4 DEF pinFile
    <3>2. \A d \in Cids : d \in pin => d \in pin'
      BY <2>4 DEF pinFile
    <3> QED BY <1>1, <1>2, <2>1, <2>4, <3>1, <3>2, SpareIdle, SpareWrites
  <2> QED BY <2>1, <2>2, <2>3, <2>4 DEF registerPinnedUnderLock
<1>5. CASE SetReplicas(c)
  <2>1. UNCHANGED <<rec, pin, job>> /\ Unlocked(c)
    BY <1>5 DEF SetReplicas, storeVars
  <2> QED BY <1>1, <1>2, <2>1, SpareIdle, SpareWrites
<1>6. ASSUME NEW t \in Txs, Stage(c, t) PROVE \A d \in Cids : SpareOK(d)'
  <2>1. /\ Unlocked(c) /\ c \in pin' /\ \A d \in Cids \ {c} : d \in pin' <=> d \in pin
        /\ UNCHANGED rec
    BY <1>6 DEF Stage, pinFile
  <2>2. /\ \A d \in Cids \ {c} : job'[d] = job[d]
        /\ job'[c].kind \in OwnKinds /\ job'[c].prev = rec[c]
        /\ \/ job'[c].next = [rec[c] EXCEPT !.state = "temporary", !.pinned = TRUE,
                                !.held = TRUE, !.stage = @ \cup {t}]
           \/ job'[c].next = [rec[c] EXCEPT !.state = "confirmed", !.pinned = TRUE, !.held = TRUE]
           \/ job'[c].next = [rec[c] EXCEPT !.state = "temporary", !.pinned = TRUE,
                                !.held = TRUE, !.stage = {t},
                                !.base = IF rec[c].state = "absent" THEN "none" ELSE "expired"]
    <3>1. job \in [Cids -> Job]
      BY <2>1, SpareIdle
    <3> QED BY <1>6, <3>1 DEF Stage, staged, Pending, OwnKinds
  <2>3. Consistent(job'[c].next)
    <3>1. rec[c] \in Record /\ Consistent(rec[c])
      BY <2>1, SpareIdle
    <3> QED BY <2>2, <3>1, StagedConsistent
  <2> QED BY <1>1, <1>2, <2>1, <2>2, <2>3, SpareBegins
<1>7. ASSUME NEW t \in Txs, Commit(c, t) PROVE \A d \in Cids : SpareOK(d)'
  <2>1. /\ UNCHANGED <<pin, job>>
        /\ Unlocked(c) /\ rec[c].stage # {} /\ save(c, Confirmed(rec[c]))
    BY <1>7 DEF Commit
  <2>2. /\ rec'[c] = Confirmed(rec[c]) /\ \A d \in Cids \ {c} : rec'[d] = rec[d]
    BY <2>1, SpareIdle DEF save
  <2>3. Consistent(rec'[c])
    <3>1. Consistent(Confirmed(rec[c]))
      BY <2>1, SpareIdle, ConsistentShapes
    <3> QED BY <2>2, <3>1
  <2>4. MaxCrashes = 0
    BY <1>7 DEF Sparing
  <2>5. c \in pin'
    BY <2>1, <2>4, SpareIdle DEF Resting
  <2> QED BY <1>1, <1>2, <2>1, <2>2, <2>3, <2>5, SpareWrites
<1>8. ASSUME NEW t \in Txs, Abort(c, t) PROVE \A d \in Cids : SpareOK(d)'
  <2>1. Unlocked(c)
    BY <1>8 DEF Abort
  <2>2. CASE UNCHANGED <<rec, pin, job>>
    BY <1>1, <1>2, <2>1, <2>2, SpareIdle, SpareWrites
  <2>3. CASE /\ t \in rec[c].stage /\ UNCHANGED <<pin, blocks, job>>
             /\ save(c, [rec[c] EXCEPT !.stage = @ \ {t}])
    <3>1. /\ rec'[c] = [rec[c] EXCEPT !.stage = @ \ {t}]
          /\ \A d \in Cids \ {c} : rec'[d] = rec[d]
      BY <2>1, <2>3, SpareIdle DEF save
    <3>2. /\ Consistent(rec'[c]) /\ (Durable(rec'[c]) => Durable(rec[c]))
          /\ rec'[c].stage \subseteq rec[c].stage
      BY <2>1, <3>1, SpareIdle DEF Consistent, Record, Durable
    <3>3. rec'[c].stage # {} => rec[c].stage # {}
      BY <2>3
    <3> QED BY <1>1, <1>2, <2>3, <3>1, <3>2, <3>3, SpareWrites
  <2>4. CASE Unstage(c, "abort", FALSE, TRUE) /\ UNCHANGED <<rec, gcFresh>>
    <3>1. "abort" \in OwnKinds
      BY DEF OwnKinds
    <3> QED BY <1>1, <1>2, <2>1, <2>4, <3>1, SpareUnstages
  <2> QED BY <1>8, <2>2, <2>3, <2>4 DEF Abort
<1> QED BY <1>1, <1>3, <1>4, <1>5, <1>6, <1>7, <1>8 DEF ClientCall

LEMMA SpareCollects ==
  ASSUME ConfigAssumption, IInv, SpareInv, NEW c \in Cids, GcLoop(c)
  PROVE  (\A d \in Cids : SpareOK(d)') /\ UNCHANGED <<gcPc, recovery, backfill>>
<1> USE DEF gcKeep, uploadVars, bootVars, gcDone, gcMay
<1>1. /\ UNCHANGED <<gcPc, baseline, recovery, backfill>> /\ gcTodo' = gcTodo \ {c}
      /\ gcCollect' => gcCollect
      /\ job \in [Cids -> Job] /\ rec \in [Cids -> Record] /\ Consistent(rec[c])
  <2>1. job \in [Cids -> Job] /\ rec \in [Cids -> Record] /\ Consistent(rec[c])
    BY DEF IInv, TypeOK, SpareInv, SpareOK
  <2>2. UNCHANGED <<gcPc, baseline, recovery, backfill>> /\ gcTodo' = gcTodo \ {c}
    BY DEF GcLoop, GcRecover, GcDemote, GcGuard, GcRelease, GcDelete, GcCleanup
  <2>3. gcCollect' \in {gcCollect, FALSE}
    BY DEF GcLoop, GcRecover, GcDemote, GcGuard, GcRelease, GcDelete, GcCleanup
  <2> QED
    <3>1. gcCollect' => gcCollect
      BY <2>3
    <3> QED BY <2>1, <2>2, <3>1
<1>2. \A d \in Cids \ {c} : Guarded(d)' => Guarded(d)
  BY <1>1 DEF Guarded
<1>3. gcPc # "guard" => (Guarded(c)' => Guarded(c))
  BY <1>1 DEF Guarded
<1>4. CASE UNCHANGED <<rec, pin, job>> /\ (gcPc # "guard" \/ ~unprotected(c) \/ ~gcCollect')
  <2>1. Guarded(c)' => Guarded(c) \/ ~Durable(rec'[c]) \/ c \in pin'
    BY <1>1, <1>3, <1>4 DEF Guarded, unprotected
  <2>2. \A d \in Cids : Guarded(d)' => Guarded(d) \/ ~Durable(rec'[d]) \/ d \in pin'
    BY <1>2, <2>1
  <2> QED BY <1>1, <1>4, <2>2, SpareWrites
<1>5. CASE GcRecover(c) /\ save(c, Unowned(rec[c]))
  <2>1. UNCHANGED <<pin, job>> /\ Unlocked(c) /\ gcPc = "recover"
    BY <1>5 DEF GcRecover
  <2>2. rec'[c] = Unowned(rec[c]) /\ \A d \in Cids \ {c} : rec'[d] = rec[d]
    BY <1>1, <1>5 DEF save
  <2>3. /\ Consistent(Unowned(rec[c])) /\ (Durable(Unowned(rec[c])) => Durable(rec[c]))
        /\ Unowned(rec[c]).stage = rec[c].stage
    BY <2>1, SpareIdle DEF Consistent, Durable, Unowned, Record
  <2>4. \A d \in Cids : Guarded(d)' => Guarded(d)
    BY <1>2, <1>3, <2>1
  <2> QED BY <1>1, <2>1, <2>2, <2>3, <2>4, SpareWrites
<1>6. CASE /\ UNCHANGED rec /\ Unlocked(c) /\ unpinFile(c)
           /\ \/ Pending(c, "demote", NoReq, Demoted(rec[c]), undoRemoved(c), FALSE, FALSE)
              \/ Pending(c, "gcRelease", NoReq, Released(rec[c]), undoRemoved(c), FALSE, FALSE)
  <2>1. /\ job'[c].kind \in OwnKinds /\ job'[c].prev = rec[c]
        /\ job'[c].next \in {Demoted(rec[c]), Released(rec[c])}
        /\ \A d \in Cids \ {c} : job'[d] = job[d] /\ (d \in pin' <=> d \in pin)
    BY <1>1, <1>6 DEF unpinFile, Pending, OwnKinds
  <2>2. /\ Consistent(Demoted(rec[c])) /\ ~Demoted(rec[c]).held
        /\ Consistent(Released(rec[c])) /\ ~Released(rec[c]).held
    BY <1>6, SpareIdle, ConsistentShapes
  <2>3. Consistent(job'[c].next) /\ ~job'[c].next.held
    BY <2>1, <2>2
  <2> QED BY <1>1, <1>2, <1>6, <2>1, <2>3, SpareBegins
<1>7. CASE /\ UNCHANGED rec /\ Unlocked(c) /\ Durable(rec[c]) /\ pinFile(c)
           /\ Pending(c, "guard", NoReq, [rec[c] EXCEPT !.pinned = TRUE], undoCreated(c),
                      FALSE, FALSE)
  <2>1. /\ c \in pin' /\ job'[c].kind \in OwnKinds /\ job'[c].prev = rec[c]
        /\ job'[c].next = [rec[c] EXCEPT !.pinned = TRUE]
        /\ \A d \in Cids \ {c} : job'[d] = job[d] /\ (d \in pin' <=> d \in pin)
    BY <1>1, <1>7 DEF pinFile, Pending, OwnKinds
  <2>2. Consistent(job'[c].next)
    BY <1>7, <2>1, SpareIdle DEF Consistent, Record, Durable
  <2> QED BY <1>1, <1>2, <1>7, <2>1, <2>2, SpareBegins
<1>8. CASE UNCHANGED rec /\ Unlocked(c) /\ Unstage(c, "gcStage", TRUE, FALSE)
           /\ gcPc = "release"
  <2>1. "gcStage" \in OwnKinds
    BY DEF OwnKinds
  <2>2. \A d \in Cids : Guarded(d)' => Guarded(d)
    BY <1>2, <1>3, <1>8
  <2> QED BY <1>1, <1>8, <2>1, <2>2, SpareUnstages
<1>9. CASE GcCleanup(c) /\ c \in gcFresh
  <2>1. /\ UNCHANGED <<pin, job>> /\ save(c, Absent) /\ gcPc = "cleanup"
    BY <1>9 DEF GcCleanup, stillReleased
  <2>2. rec'[c] = Absent /\ \A d \in Cids \ {c} : rec'[d] = rec[d]
    BY <1>1, <2>1 DEF save
  <2>3. Consistent(rec'[c]) /\ ~Durable(rec'[c]) /\ rec'[c].stage = {}
    BY <2>2, AbsentConsistent DEF Durable, Absent
  <2>4. \A d \in Cids : Guarded(d)' => Guarded(d)
    BY <1>2, <1>3, <2>1
  <2> QED BY <1>1, <2>1, <2>2, <2>3, <2>4, SpareWrites
<1>10. CASE GcGuard(c)
  BY <1>1, <1>4, <1>7, <1>10 DEF GcGuard, unprotected
<1>11. CASE GcRecover(c) \/ GcDemote(c) \/ GcRelease(c)
  BY <1>1, <1>4, <1>5, <1>6, <1>8, <1>11 DEF GcRecover, recoverAdmission, GcDemote, GcRelease
<1>12. CASE GcDelete(c) \/ GcCleanup(c)
  BY <1>1, <1>4, <1>9, <1>12 DEF GcDelete, GcCleanup, stillReleased
<1> QED
  BY <1>10, <1>11, <1>12 DEF GcLoop

LEMMA SpareRepairs ==
  ASSUME ConfigAssumption, IInv, SpareInv, NEW c \in Cids, Repair(c)
  PROVE  (\A d \in Cids : SpareOK(d)') /\ UNCHANGED <<gcPc, recovery, backfill>>
<1> USE DEF repairKeep, uploadVars, bootVars
<1>1. /\ UNCHANGED <<gcPc, gcTodo, gcCollect, baseline, recovery, backfill>>
      /\ job \in [Cids -> Job] /\ rec \in [Cids -> Record] /\ Consistent(rec[c])
  BY DEF Repair, RepairClaim, RepairClear, RepairEnd, Rescue, IInv, TypeOK, SpareInv, SpareOK
<1>2. \A d \in Cids : Guarded(d)' => Guarded(d)
  BY <1>1 DEF Guarded
<1>3. CASE RepairClaim(c) \/ RepairEnd(c)
  <2>1. UNCHANGED <<rec, pin, job>>
    BY <1>3 DEF RepairClaim, RepairEnd
  <2> QED BY <1>1, <1>2, <2>1, SpareWrites
<1>4. CASE RepairClear(c)
  <2>1. UNCHANGED <<pin, job>> /\ Unlocked(c) /\ save(c, Unowned(rec[c]))
    BY <1>4 DEF RepairClear
  <2>2. rec'[c] = Unowned(rec[c]) /\ \A d \in Cids \ {c} : rec'[d] = rec[d]
    BY <1>1, <2>1 DEF save
  <2>3. /\ Consistent(Unowned(rec[c])) /\ (Durable(Unowned(rec[c])) => Durable(rec[c]))
        /\ Unowned(rec[c]).stage = rec[c].stage
    BY <2>1, SpareIdle DEF Consistent, Durable, Unowned, Record
  <2> QED BY <1>1, <1>2, <2>1, <2>2, <2>3, SpareWrites
<1>5. CASE Rescue(c)
  <2>1. /\ UNCHANGED rec /\ Unlocked(c) /\ c \in pin' /\ rec[c].state = "confirmed"
        /\ job'[c].kind \in OwnKinds /\ job'[c].prev = rec[c] /\ job'[c].next = Rescued(rec[c])
        /\ \A d \in Cids \ {c} : job'[d] = job[d] /\ (d \in pin' <=> d \in pin)
    BY <1>1, <1>5 DEF Rescue, pinFile, Pending, OwnKinds
  <2>2. Consistent(Rescued(rec[c]))
    BY <2>1, SpareIdle, ConsistentShapes
  <2> QED BY <1>1, <1>2, <2>1, <2>2, SpareBegins
<1> QED BY <1>1, <1>3, <1>4, <1>5 DEF Repair

\* The startup walk: no pass runs before it is over.
LEMMA SpareBoots ==
  ASSUME ConfigAssumption, IInv, SpareInv, NEW c \in Cids, Boot(c)
  PROVE  (\A d \in Cids : SpareOK(d)') /\ UNCHANGED gcPc /\ gcPc = "idle"
<1> USE DEF bootKeep, uploadVars
<1>1. /\ UNCHANGED <<gcPc, pin, job, baseline>>
      /\ rec \in [Cids -> Record] /\ rec[c] \in Record /\ Consistent(rec[c])
  BY DEF Boot, BackfillRead, BackfillCreate, StartupRecover, IInv, TypeOK, SpareInv, SpareOK
<1>2. gcPc = "idle"
  BY DEF Boot, BackfillRead, BackfillCreate, StartupRecover, SpareInv, Reconciled
<1>3. \A d \in Cids : ~Guarded(d)'
  BY <1>1, <1>2 DEF Guarded
<1>4. /\ \A d \in Cids \ {c} : rec'[d] = rec[d]
      /\ \/ rec'[c] \in {rec[c], Unowned(rec[c])}
         \/ rec'[c].held /\ rec'[c].pinned /\ rec'[c].stage = {}
            /\ rec'[c].state \in {"temporary", "confirmed"}
  <2>1. CASE BackfillRead(c)
    BY <2>1 DEF BackfillRead
  <2>2. CASE StartupRecover(c)
    BY <1>1, <2>2 DEF StartupRecover, recoverAdmission, save
  <2>3. CASE BackfillCreate(c)
    BY <1>1, <2>3 DEF BackfillCreate, save, Absent
  <2> QED BY <2>1, <2>2, <2>3 DEF Boot
<1>5. Consistent(Unowned(rec[c])) /\ Unowned(rec[c]).stage = rec[c].stage
  BY <1>1 DEF Consistent, Unowned, Record
<1>6. Consistent(rec'[c]) /\ (rec'[c].stage # {} => rec[c].stage # {})
  BY <1>1, <1>4, <1>5 DEF Consistent
<1> QED BY <1>1, <1>2, <1>3, <1>4, <1>6, SpareWrites

\* A pass relies on a durable content only once the guard rail has seen it.
LEMMA SparePass ==
  ASSUME ConfigAssumption, Sparing, IInv, SpareInv, GcStart \/ GcPass
  PROVE  SpareInv'
<1> USE DEF storeVars, gcKeep, uploadVars, bootVars, gcGoto
<1>1. UNCHANGED <<rec, pin, job, baseline, pc, files, todo, doomed, recovery, backfill>>
  BY DEF GcStart, GcPass, GcDemoteStart, GcPlan, GcReleaseStart, GcKeepBlocks, GcAskLease,
         GcLease, GcCleanupStart, GcEnd
<1>2. gcPc # "idle" \/ Reconciled
  BY DEF GcStart, Sparing, GcPass, GcDemoteStart, GcPlan, GcReleaseStart, GcKeepBlocks,
         GcAskLease, GcLease, GcCleanupStart, GcEnd, gcOver
<1>3. Reconciled'
  BY <1>1, <1>2 DEF SpareInv, Reconciled
<1>4. ASSUME NEW d \in Cids PROVE SpareOK(d)'
  <2>1. Guarded(d)' => Guarded(d) \/ ~Durable(rec[d])
    BY DEF Guarded, GcStart, GcPass, GcDemoteStart, GcPlan, GcReleaseStart, GcKeepBlocks,
           GcAskLease, GcLease, GcCleanupStart, GcEnd, gcOver
  <2>2. SpareOK(d)
    BY DEF SpareInv
  <2> QED BY <1>1, <2>1, <2>2, SpareKept
<1>5. ASSUME NEW r \in Requests PROVE RestoreOK(r)' /\ LeaseOK(r)'
  <2>1. RestoreOK(r) /\ LeaseOK(r)
    BY DEF SpareInv
  <2>2. gcPc' = "delete" => pc[r] \notin LeasedPcs
    BY <2>1 DEF GcStart, GcPass, GcDemoteStart, GcPlan, GcReleaseStart, GcKeepBlocks, GcAskLease,
       GcLease, GcCleanupStart, GcEnd, SharedLeaseOut
  <2> QED BY <1>1, <2>1, <2>2 DEF RestoreOK, LeaseOK
<1> QED BY <1>3, <1>4, <1>5 DEF SpareInv

LEMMA SpareCrash ==
  ASSUME ConfigAssumption, IInv, SpareInv, CrashAndRestart
  PROVE  SpareInv'
<1>1. /\ UNCHANGED <<rec, pin>> /\ gcPc' = "idle" /\ job' = [c \in Cids |-> NoJob]
      /\ baseline' = [r \in Requests |-> [c \in Cids |-> Absent]]
      /\ doomed' = [r \in Requests |-> {}]
      /\ \A r \in Requests : pc'[r] \in {"idle", "done"}
  BY DEF CrashAndRestart, storeVars, gcGoto
<1>2. MaxCrashes # 0
  BY DEF CrashAndRestart, IInv, TypeOK
<1>3. ASSUME NEW c \in Cids PROVE SpareOK(c)'
  <2>1. job'[c] = NoJob /\ rec'[c] = rec[c] /\ Consistent(rec[c])
    BY <1>1 DEF SpareInv, SpareOK
  <2>2. \A r \in Requests : Consistent(baseline'[r][c])
    BY <1>1, AbsentConsistent
  <2>3. Backed(c)'
    BY <2>1 DEF Backed, NoJob, OwnKinds
  <2>4. Resting(c)'
    BY <1>1, <1>2 DEF Resting, Guarded
  <2> QED BY <2>1, <2>2, <2>3, <2>4, AbsentConsistent DEF SpareOK
<1>4. ASSUME NEW r \in Requests PROVE RestoreOK(r)' /\ LeaseOK(r)'
  BY <1>1, <1>4 DEF RestoreOK, LeaseOK
<1> QED BY <1>1, <1>3, <1>4 DEF SpareInv

LEMMA SpareInductive ==
  ASSUME ConfigAssumption, Sparing, IInv, SpareInv, [Next]_vars
  PROVE  SpareInv'
<1>1. /\ \A c \in Cids : SpareOK(c)
      /\ \A r \in Requests : RestoreOK(r) /\ LeaseOK(r)
      /\ gcPc # "idle" => Reconciled
  BY DEF SpareInv
<1>2. ASSUME NEW q \in Requests, Upload(q) PROVE SpareInv'
  <2>1. UNCHANGED <<gcPc, recovery, backfill>>
    <3> USE DEF gcVars, bootVars
    <3>1. CASE ImportFiles(q) \/ DisconnectUpload(q) \/ ClaimUpload(q) \/ CleanUpSession(q)
               \/ DeleteCreatedBlock(q) \/ CommitSession(q) \/ PlaceReplicas(q)
               \/ RollbackAdmitted(q) \/ FinalizeAdmitted(q) \/ FinalizeFails(q)
               \/ SettledUpload(q) \/ CommitUpload(q) \/ EndUpload(q)
      BY <3>1 DEF ImportFiles, DisconnectUpload, ClaimUpload, CleanUpSession,
         DeleteCreatedBlock, CommitSession, PlaceReplicas, RollbackAdmitted, FinalizeAdmitted,
         FinalizeFails, SettledUpload, CommitUpload, EndUpload
    <3>2. ASSUME NEW c \in Cids,
                 \/ MarkPinIntent(q, c) \/ PinUpload(q, c) \/ RegisterUpload(q, c)
                 \/ ClearPinIntent(q, c) \/ RefuseUpload(q, c) \/ RestoreRefused(q, c)
                 \/ UndoUpload(q, c) \/ RestoreUpload(q, c) \/ CheckCreatedBlock(q, c)
                 \/ SettleUpload(q, c) \/ ClearSettledAdmission(q, c)
          PROVE  UNCHANGED <<gcPc, recovery, backfill>>
      BY <3>2 DEF MarkPinIntent, PinUpload, RegisterUpload, ClearPinIntent, RefuseUpload,
         RestoreRefused, UndoUpload, RestoreUpload, CheckCreatedBlock, SettleUpload,
         ClearSettledAdmission
    <3> QED BY <1>2, <3>1, <3>2 DEF Upload
  <2>2. (\A c \in Cids : SpareOK(c)') /\ RestoreOK(q)' /\ LeaseOK(q)'
    BY <1>2, SpareRequest, SparePins, SpareUndoes, SpareFileKept DEF Upload
  <2>3. ASSUME NEW r \in Requests \ {q} PROVE RestoreOK(r)' /\ LeaseOK(r)'
    <3>1. /\ pc'[r] = pc[r] /\ todo'[r] = todo[r] /\ doomed'[r] = doomed[r]
          /\ pc[r] \in {"restoring", "undoing"} => \A c \in files[r] :
               rec'[c] = rec[c] /\ job'[c] = job[c] /\ (c \in pin' <=> c \in pin)
      BY <1>2, UploadTouches DEF LockedPcs
    <3>2. RestoreOK(r)'
      BY <1>1, <3>1, RestoreKept
    <3> QED BY <1>1, <2>1, <3>1, <3>2 DEF LeaseOK
  <2> QED BY <1>1, <2>1, <2>2, <2>3 DEF SpareInv, Reconciled
<1>3. ASSUME NEW c \in Cids,
             WriteRecord(c) \/ ClientCall(c) \/ GcLoop(c) \/ Repair(c) \/ Boot(c)
      PROVE  SpareInv'
  <2>1. /\ \A d \in Cids : SpareOK(d)' /\ UNCHANGED gcPc
        /\ UNCHANGED <<recovery, backfill>> \/ gcPc = "idle"
    <3>1. CASE WriteRecord(c)
      BY <3>1, SpareWriteRecord DEF WriteRecord, bootVars
    <3> QED BY <1>3, <3>1, SpareClient, SpareCollects, SpareRepairs, SpareBoots
  <2>2. ASSUME NEW r \in Requests PROVE RestoreOK(r)' /\ LeaseOK(r)'
    <3>1. pc[r] \in {"restoring", "undoing"} => HeldByUpload(c) \/ c \notin files[r]
      BY DEF HeldByUpload, LockedPcs
    <3>2. files[r] \subseteq Cids
      BY DEF IInv, TypeOK
    <3>3. /\ UNCHANGED <<pc, todo, doomed>>
          /\ pc[r] \in {"restoring", "undoing"} => \A d \in files[r] :
               rec'[d] = rec[d] /\ job'[d] = job[d] /\ (d \in pin' <=> d \in pin)
      BY <1>3, <3>1, <3>2, TouchesOwn
    <3>4. RestoreOK(r)'
      BY <1>1, <3>3, RestoreKept
    <3> QED BY <1>1, <2>1, <3>3, <3>4 DEF LeaseOK
  <2> QED BY <1>1, <2>1, <2>2 DEF SpareInv, Reconciled
<1>4. \A c \in Cids, persisted \in BOOLEAN : ~SaveFails(c, persisted)
  BY DEF SaveFails, Sparing, IInv, TypeOK
<1>5. CASE UNCHANGED vars
  <2>1. UNCHANGED <<rec, pin, job, baseline, pc, files, todo, doomed, recovery, backfill,
                    gcPc, gcTodo, gcCollect>>
    BY <1>5 DEF vars, storeVars, uploadVars, gcVars, bootVars
  <2>2. \A d \in Cids : SpareOK(d)'
    BY <1>1, <2>1, SpareKept DEF Guarded
  <2> QED BY <1>1, <2>1, <2>2 DEF SpareInv, RestoreOK, LeaseOK, Reconciled
<1> QED BY <1>2, <1>3, <1>4, <1>5, SparePass, SpareCrash DEF Next

LEMMA SpareInitially == ConfigAssumption /\ Init => SpareInv
<1> SUFFICES ASSUME Init PROVE SpareInv
  OBVIOUS
<1>1. /\ gcPc = "idle"
      /\ \A c \in Cids : rec[c] = Absent /\ job[c] = NoJob
      /\ \A r \in Requests : /\ pc[r] = "idle" /\ doomed[r] = {}
                             /\ \A c \in Cids : baseline[r][c] = Absent
  BY DEF Init
<1>2. ASSUME NEW c \in Cids PROVE SpareOK(c)
  <2>1. Backed(c)
    BY <1>1 DEF Backed, NoJob, OwnKinds
  <2>2. Resting(c)
    BY <1>1 DEF Resting, Guarded, Absent
  <2> QED BY <1>1, <2>1, <2>2, AbsentConsistent DEF SpareOK
<1> QED BY <1>1, <1>2 DEF SpareInv, RestoreOK, LeaseOK

\* Only the collector and the cleanup of an upload session delete blocks, and nothing is
\* pinned that was not fetched.
BlocksStay == blocks \subseteq blocks' /\ pin' \subseteq pin \cup blocks'

LEMMA BlocksKept ==
  ASSUME IInv, Next,
         \A r \in Requests : ~DeleteCreatedBlock(r), \A c \in Cids : ~GcDelete(c)
  PROVE  BlocksStay
<1> USE DEF storeVars, pinFile, unpinFile, BlocksStay
<1>1. ASSUME NEW r \in Requests, Upload(r) PROVE BlocksStay
  <2>1. CASE ImportFiles(r) \/ DisconnectUpload(r) \/ ClaimUpload(r) \/ CleanUpSession(r)
             \/ CommitSession(r) \/ PlaceReplicas(r) \/ RollbackAdmitted(r)
             \/ FinalizeAdmitted(r) \/ FinalizeFails(r) \/ SettledUpload(r) \/ CommitUpload(r)
             \/ EndUpload(r)
    BY <2>1 DEF ImportFiles, DisconnectUpload, ClaimUpload, CleanUpSession, CommitSession,
       PlaceReplicas, RollbackAdmitted, FinalizeAdmitted, FinalizeFails, SettledUpload,
       CommitUpload, EndUpload
  <2>2. ASSUME NEW c \in Cids,
               \/ MarkPinIntent(r, c) \/ PinUpload(r, c) \/ RegisterUpload(r, c)
               \/ ClearPinIntent(r, c) \/ RefuseUpload(r, c) \/ RestoreRefused(r, c)
               \/ UndoUpload(r, c) \/ RestoreUpload(r, c) \/ CheckCreatedBlock(r, c)
               \/ SettleUpload(r, c) \/ ClearSettledAdmission(r, c)
        PROVE  BlocksStay
    BY <2>2 DEF MarkPinIntent, PinUpload, RegisterUpload, ClearPinIntent, RefuseUpload,
       RestoreRefused, UndoUpload, RestoreUpload, CheckCreatedBlock, SettleUpload,
       ClearSettledAdmission
  <2> QED BY <1>1, <2>1, <2>2 DEF Upload
<1>2. ASSUME NEW c \in Cids, WriteRecord(c) \/ ClientCall(c) PROVE BlocksStay
  <2>1. CASE Adopt(c) \/ Store(c)
    BY <2>1 DEF Adopt, Store, registerPinnedUnderLock
  <2> QED BY <1>2, <2>1 DEF WriteRecord, ClientCall, Confirm, Release, SetReplicas, Stage,
             Commit, Abort, Unstage
<1>3. ASSUME NEW c \in Cids, GcLoop(c) \/ Repair(c) \/ Boot(c) PROVE BlocksStay
  BY <1>3 DEF GcLoop, GcRecover, GcDemote, GcGuard, GcRelease, GcCleanup, Unstage, Repair,
     RepairClaim, RepairClear, RepairEnd, Rescue, Boot, BackfillRead, BackfillCreate,
     StartupRecover
<1>4. ASSUME NEW c \in Cids, NEW persisted \in BOOLEAN, SaveFails(c, persisted)
      PROVE  BlocksStay
  BY <1>4 DEF SaveFails, undoPin
<1>5. CASE GcStart \/ GcPass \/ CrashAndRestart
  BY <1>5 DEF GcStart, GcPass, GcDemoteStart, GcPlan, GcReleaseStart, GcKeepBlocks, GcAskLease,
     GcLease, GcCleanupStart, GcEnd, CrashAndRestart
<1> QED BY <1>1, <1>2, <1>3, <1>4, <1>5 DEF Next

\* The collector never deletes the blocks of a file the registry calls durable, unless
\* somebody who holds the CID's lock is just deciding otherwise: neither after crashes
\* that separated record and pin, because the guard rail repairs or abandons the pass,
\* nor because of what a request does between the guard rail and the deletion.
THEOREM CollectorSparesDurable ==
  ConfigAssumption /\ Sparing => (Spec => CollectSpares)
<1> SUFFICES ASSUME ConfigAssumption, Sparing PROVE Spec => CollectSpares
  OBVIOUS
<1>1. Init => SpareInv
  BY SpareInitially
<1>2. IInv /\ SpareInv /\ [Next]_vars => SpareInv'
  BY SpareInductive
<1>3. IInv /\ SpareInv /\ [Next]_vars => [CollectedUnprotected]_vars
  <2> SUFFICES ASSUME IInv, SpareInv, Next, gcPc = "delete",
                      NEW c \in blocks \ blocks', Durable(rec[c]), Unlocked(c)
               PROVE  FALSE
    BY DEF CollectedUnprotected
  <2>1. c \in Cids
    BY DEF IInv, TypeOK
  <2>2. c \in pin
    BY <2>1 DEF SpareInv, SpareOK, Resting, Guarded, Unlocked
  <2>3. \A d \in Cids : ~GcDelete(d)
    BY <2>2 DEF GcDelete
  <2>4. \A r \in Requests : ~DeleteCreatedBlock(r)
    BY DEF DeleteCreatedBlock, SpareInv, LeaseOK, LeasedPcs
  <2> QED BY <2>3, <2>4, BlocksKept DEF BlocksStay
<1>4. Spec => []IInv
  BY Invariance
<1> QED BY <1>1, <1>2, <1>3, <1>4, PTL DEF Spec, CollectSpares

-----------------------------------------------------------------------------
(* Pinned content stays in the blockstore *)

\* A session cleans up its own files only, and the block it is about to delete cannot be
\* pinned meanwhile: the handler still holds the locks.
SessionOK(r) ==
  /\ pc[r] # "aborting"
  /\ pc[r] \in {"imported", "admitting", "restoring"} => written[r] \subseteq files[r]
  /\ pc[r] = "cleaning" => todo[r] \subseteq files[r]
  /\ doomed[r] # {} => pc[r] = "cleaning" /\ doomed[r] \subseteq files[r] \ pin

BlocksInv == PinnedIsStored /\ \A r \in Requests : SessionOK(r)

LEMMA SessionKept ==
  ASSUME NEW r \in Requests, SessionOK(r), files[r] \subseteq Cids,
         pc'[r] = pc[r], files'[r] = files[r], todo'[r] \subseteq todo[r],
         written'[r] = written[r], doomed'[r] = doomed[r],
         pc[r] = "cleaning" => \A c \in files[r] : c \in pin' => c \in pin
  PROVE  SessionOK(r)'
BY DEF SessionOK

LEMMA SessionByHandler ==
  ASSUME ConfigAssumption, "disconnect" \notin Calls, IInv, NEW r \in Requests, SessionOK(r),
         Upload(r)
  PROVE  SessionOK(r)'
<1> USE DEF goto, at
<1>1. /\ pc \in [Requests -> Pcs] /\ files \in [Requests -> SUBSET Cids]
      /\ todo \in [Requests -> SUBSET Cids] /\ written \in [Requests -> SUBSET Cids]
      /\ doomed \in [Requests -> SUBSET Cids]
  BY DEF IInv, TypeOK
<1>2. CASE \/ ImportFiles(r) \/ DisconnectUpload(r) \/ ClaimUpload(r) \/ CleanUpSession(r)
           \/ CommitSession(r) \/ PlaceReplicas(r) \/ RollbackAdmitted(r)
           \/ FinalizeAdmitted(r) \/ FinalizeFails(r) \/ SettledUpload(r)
  BY <1>1, <1>2 DEF ImportFiles, DisconnectUpload, ClaimUpload, CleanUpSession, CommitSession,
     PlaceReplicas, RollbackAdmitted, FinalizeAdmitted, FinalizeFails, SettledUpload, SessionOK,
     storeVars
<1>3. CASE DeleteCreatedBlock(r) \/ CommitUpload(r) \/ EndUpload(r)
  BY <1>1, <1>3 DEF DeleteCreatedBlock, CommitUpload, EndUpload, finish, SessionOK, storeVars
<1>4. ASSUME NEW c \in Cids,
             \/ MarkPinIntent(r, c) \/ PinUpload(r, c) \/ RegisterUpload(r, c)
             \/ ClearPinIntent(r, c) \/ RefuseUpload(r, c)
      PROVE  SessionOK(r)'
  BY <1>1, <1>4 DEF MarkPinIntent, PinUpload, RegisterUpload, ClearPinIntent, RefuseUpload,
     uploadVars, SessionOK
<1>5. ASSUME NEW c \in Cids, RestoreRefused(r, c) \/ UndoUpload(r, c) \/ RestoreUpload(r, c)
      PROVE  SessionOK(r)'
  <2>1. pc[r] \in {"admitting", "restoring", "undoing"}
    BY <1>5 DEF RestoreRefused, UndoUpload, RestoreUpload, IInv, CidOK, JobOK, UploadKinds
  <2> QED BY <1>1, <1>5, <2>1 DEF RestoreRefused, UndoUpload, RestoreUpload, SessionOK
<1>6. ASSUME NEW c \in Cids,
             CheckCreatedBlock(r, c) \/ SettleUpload(r, c) \/ ClearSettledAdmission(r, c)
      PROVE  SessionOK(r)'
  BY <1>1, <1>6 DEF CheckCreatedBlock, SettleUpload, ClearSettledAdmission, deletableBlock,
     SessionOK, storeVars
<1> QED
  BY <1>2, <1>3, <1>4, <1>5, <1>6 DEF Upload

LEMMA BlocksInductive ==
  ASSUME ConfigAssumption, "disconnect" \notin Calls, IInv, BlocksInv, [Next]_vars
  PROVE  BlocksInv'
<1>1. /\ \A r \in Requests : files[r] \subseteq Cids /\ SessionOK(r)
      /\ job \in [Cids -> Job] /\ todo \in [Requests -> SUBSET Cids] /\ pin \subseteq Cids
  BY DEF IInv, TypeOK, BlocksInv
<1>2. ASSUME Next PROVE PinnedIsStored'
  <2>1. CASE (\A r \in Requests : ~DeleteCreatedBlock(r)) /\ \A c \in Cids : ~GcDelete(c)
    BY <1>2, <2>1, BlocksKept DEF BlocksStay, BlocksInv, PinnedIsStored
  <2>2. ASSUME NEW r \in Requests, DeleteCreatedBlock(r) PROVE PinnedIsStored'
    BY <1>1, <2>2 DEF DeleteCreatedBlock, BlocksInv, SessionOK, PinnedIsStored
  <2>3. ASSUME NEW c \in Cids, GcDelete(c) PROVE PinnedIsStored'
    BY <2>3 DEF GcDelete, BlocksInv, PinnedIsStored
  <2> QED BY <2>1, <2>2, <2>3
<1>3. ASSUME NEW r \in Requests, NEW q \in Requests, Upload(q) PROVE SessionOK(r)'
  <2>1. CASE q = r
    BY <1>1, <1>3, <2>1, SessionByHandler
  <2>2. CASE q # r
    BY <1>1, <1>3, <2>2, UploadTouches, SessionKept DEF LockedPcs
  <2> QED BY <2>1, <2>2
<1>4. ASSUME NEW r \in Requests, NEW c \in Cids,
             WriteRecord(c) \/ ClientCall(c) \/ GcLoop(c) \/ Repair(c) \/ Boot(c)
      PROVE  SessionOK(r)'
  <2>1. pc[r] = "cleaning" => HeldByUpload(c) \/ c \notin files[r]
    BY DEF HeldByUpload, LockedPcs
  <2>2. /\ UNCHANGED <<pc, files, todo, written, doomed>>
        /\ pc[r] = "cleaning" => \A d \in files[r] : d \in pin' => d \in pin
    BY <1>1, <1>4, <2>1, TouchesOwn
  <2> QED BY <1>1, <2>2, SessionKept
<1>5. ASSUME NEW r \in Requests, NEW c \in Cids, NEW persisted \in BOOLEAN,
             SaveFails(c, persisted)
      PROVE  SessionOK(r)'
  <2>1. job[c].kind # "none"
    BY <1>5 DEF SaveFails, ConfigAssumption
  <2>2. pc[r] = "cleaning" => c \notin files[r]
    <3> SUFFICES ASSUME pc[r] = "cleaning", c \in files[r] PROVE FALSE
      OBVIOUS
    <3>1. job[c].by = r /\ job[c].kind \in UploadKinds
      BY <2>1, LockedByHandler DEF LockedPcs
    <3> QED BY <3>1 DEF IInv, CidOK, JobOK
  <2>3. /\ UNCHANGED <<pc, files, written, doomed>> /\ todo'[r] \subseteq todo[r]
        /\ \A d \in Cids \ {c} : d \in pin' => d \in pin
    BY <1>1, <1>5 DEF SaveFails, undoPin, pinFile, unpinFile
  <2> QED BY <1>1, <2>2, <2>3, SessionKept
<1>6. CASE GcStart \/ GcPass \/ UNCHANGED vars
  <2>1. UNCHANGED <<pin, blocks, pc, files, todo, written, doomed>>
    BY <1>6 DEF GcStart, GcPass, GcDemoteStart, GcPlan, GcReleaseStart, GcKeepBlocks,
       GcAskLease, GcLease, GcCleanupStart, GcEnd, gcKeep, storeVars, uploadVars, vars
  <2> QED BY <1>1, <2>1 DEF BlocksInv, SessionOK, PinnedIsStored
<1>7. CASE CrashAndRestart
  <2>1. \A r \in Requests : pc'[r] \in {"idle", "done"} /\ doomed'[r] = {}
    BY <1>7 DEF CrashAndRestart
  <2> QED BY <1>2, <1>7, <2>1 DEF BlocksInv, SessionOK, Next
<1> QED BY <1>2, <1>3, <1>4, <1>5, <1>6, <1>7 DEF Next, BlocksInv

\* What is pinned is in the blockstore, after any crashes and rejected writes: neither
\* Helia's collection nor the cleanup of a refused upload deletes blocks under a pin.
\* Clients stay connected: the cleanup after a disconnect holds no lock.
THEOREM PinnedStaysStored ==
  ConfigAssumption /\ "disconnect" \notin Calls => (Spec => []PinnedIsStored)
<1> SUFFICES ASSUME ConfigAssumption, "disconnect" \notin Calls
             PROVE  Spec => []PinnedIsStored
  OBVIOUS
<1>1. Init => BlocksInv
  BY DEF Init, BlocksInv, PinnedIsStored, SessionOK
<1>2. IInv /\ BlocksInv /\ [Next]_vars => BlocksInv'
  BY BlocksInductive
<1>3. BlocksInv => PinnedIsStored
  BY DEF BlocksInv
<1>4. Spec => []IInv
  BY Invariance
<1> QED BY <1>1, <1>2, <1>3, <1>4, PTL DEF Spec

-----------------------------------------------------------------------------
(* What is held is pinned, also after rejected writes *)

\* Nothing is recorded of a content whose pin the startup walk has still to record.
Unknown(f, b) == f.state = "absent" /\ b # "none"

\* A record that goes with a pin: it says so, or the walk will write one that does.
Needs(f, b) == f.held \/ Unknown(f, b)

Sound(f, b) == /\ Consistent(f)
               /\ f.stage # {} /\ f.base = "none" => b = "none"

\* The pin is there when the record needs it, or when the pending operation writes a
\* record that does; and its catch block takes no pin from a record that needs it.
Secured(c) ==
  LET j == job[c]
      b == backfill[c] IN
  /\ j.kind # "guard"
  /\ j.kind \in {"none", "intent"} => (Needs(rec[c], b) => c \in pin)
  /\ j.kind \in OwnKinds \cup {"admit", "undo"} => (Needs(j.next, b) => c \in pin)
  /\ j.kind = "refused" => (Needs(j.prev, b) => c \in pin)
  /\ j.kind \in {"busy", "confirm", "store", "stage"} => c \in pin
  /\ j.kind \in {"busy", "admit", "confirm", "store", "stage"} /\ j.undoPin = "unpin"
       => ~Needs(j.prev, b)
  /\ j.kind \in {"confirm", "store", "stage"} => j.undoSave
  /\ j.kind \in {"demote", "gcRelease"} =>
       /\ ~j.undoSave /\ rec[c].state # "absent" /\ j.undoPin # "unpin"
       /\ rec[c].held => j.undoPin = "pin"

\* A pin that a request created is one that the record it replaced did not need.
CreatedOK(r, c) ==
  c \in created[r] =>
    /\ pc[r] \notin {"idle", "imported"}
    /\ pc[r] = "admitting" /\ c \in todo[r] =>
         job[c].kind \in {"busy", "admit", "refused"} /\ job[c].by = r
    /\ job[c].kind = "admit" /\ job[c].by = r => ~Unknown(job[c].prev, backfill[c])
    /\ c \in Undoable(r) => ~Unknown(baseline[r][c], backfill[c])

SureOK(c) ==
  /\ Sound(rec[c], backfill[c])
  /\ Sound(job[c].next, backfill[c]) /\ Sound(job[c].prev, backfill[c])
  /\ \A r \in Requests : Sound(baseline[r][c], backfill[c]) /\ CreatedOK(r, c)
  /\ Secured(c)

\* The collector runs when all pins are recorded.
Waited == gcPc # "idle" \/ Legacy = {} => Reconciled

\* A catch block that puts a pin back finds the blocks.
Recoverable ==
  \A c \in Cids : job[c].kind \in {"demote", "gcRelease"} /\ job[c].undoPin = "pin"
                    => c \in blocks

SureInv == /\ Waited
           /\ MaxFaults # 0 => BlocksInv /\ Recoverable
           /\ \A c \in Cids : SureOK(c)

-----------------------------------------------------------------------------
LEMMA WaitedKept ==
  ASSUME ConfigAssumption, Tolerable, IInv, Waited, [Next]_vars
  PROVE  Waited'
<1>1. crashes = 0 /\ MaxCrashes = 0
  BY DEF Tolerable, IInv, TypeOK
<1>2. ~CrashAndRestart
  BY <1>1 DEF CrashAndRestart
<1>3. backfill \in [Cids -> {"none", "todo", "interrupted", "legacy"}]
  BY DEF IInv, TypeOK
<1>4. Reconciled => Reconciled'
  <2>1. ASSUME NEW c \in Cids, Boot(c), Reconciled PROVE FALSE
    BY <2>1 DEF Boot, BackfillRead, BackfillCreate, StartupRecover, Reconciled
  <2>2. CASE UNCHANGED bootVars
    BY <2>2 DEF bootVars, Reconciled
  <2>3. CASE \E c \in Cids : WriteRecord(c) \/ ClientCall(c) \/ GcLoop(c) \/ Repair(c)
    <3>1. UNCHANGED bootVars
      BY <2>3 DEF WriteRecord, ClientCall, Confirm, Adopt, Store, Release, SetReplicas, Stage,
         Commit, Abort, others, GcLoop, GcRecover, GcDemote, GcGuard, GcRelease, GcDelete,
         GcCleanup, gcKeep, Repair, RepairClaim, RepairClear, RepairEnd, Rescue, repairKeep,
         bootVars
    <3> QED BY <2>2, <3>1
  <2>4. ASSUME NEW r \in Requests, Upload(r) PROVE UNCHANGED bootVars
    BY <2>4 DEF Upload, ImportFiles, DisconnectUpload, ClaimUpload, CleanUpSession,
       DeleteCreatedBlock, CommitSession, PlaceReplicas, RollbackAdmitted, FinalizeAdmitted,
       FinalizeFails, SettledUpload, CommitUpload, EndUpload, MarkPinIntent, PinUpload,
       RegisterUpload, ClearPinIntent, RefuseUpload, RestoreRefused, UndoUpload, RestoreUpload,
       CheckCreatedBlock, SettleUpload, ClearSettledAdmission, bootVars
  <2>5. ASSUME NEW c \in Cids, NEW persisted \in BOOLEAN, SaveFails(c, persisted)
        PROVE  UNCHANGED bootVars
    BY <2>5 DEF SaveFails, bootVars
  <2>6. CASE GcStart \/ GcPass \/ UNCHANGED vars
    <3>1. UNCHANGED bootVars
      BY <2>6 DEF GcStart, GcPass, GcDemoteStart, GcPlan, GcReleaseStart, GcKeepBlocks,
         GcAskLease, GcLease, GcCleanupStart, GcEnd, gcKeep, vars, bootVars
    <3> QED BY <2>2, <3>1
  <2> QED BY <1>2, <2>1, <2>2, <2>3, <2>4, <2>5, <2>6 DEF Next
<1>5. gcPc' # "idle" /\ gcPc = "idle" => GcStart
  <2> SUFFICES ASSUME Next, gcPc' # gcPc, gcPc = "idle" PROVE GcStart
    BY DEF vars, gcVars
  <2>1. ASSUME NEW r \in Requests, Upload(r) PROVE FALSE
    BY <2>1 DEF Upload, ImportFiles, DisconnectUpload, ClaimUpload, CleanUpSession,
       DeleteCreatedBlock, CommitSession, PlaceReplicas, RollbackAdmitted, FinalizeAdmitted,
       FinalizeFails, SettledUpload, CommitUpload, EndUpload, MarkPinIntent, PinUpload,
       RegisterUpload, ClearPinIntent, RefuseUpload, RestoreRefused, UndoUpload, RestoreUpload,
       CheckCreatedBlock, SettleUpload, ClearSettledAdmission, gcVars
  <2>2. ASSUME NEW c \in Cids, WriteRecord(c) \/ ClientCall(c) \/ GcLoop(c) \/ Repair(c) \/ Boot(c)
        PROVE  FALSE
    BY <2>2 DEF WriteRecord, ClientCall, Confirm, Adopt, Store, Release, SetReplicas, Stage,
       Commit, Abort, others, GcLoop, GcRecover, GcDemote, GcGuard, GcRelease, GcDelete,
       GcCleanup, gcDone, Repair, RepairClaim, RepairClear, RepairEnd, Rescue, repairKeep,
       Boot, BackfillRead, BackfillCreate, StartupRecover, bootKeep
  <2>3. ASSUME NEW c \in Cids, NEW persisted \in BOOLEAN, SaveFails(c, persisted) PROVE FALSE
    BY <2>3 DEF SaveFails, gcGoto, IInv, CollectorOK
  <2>4. ~GcPass
    BY DEF GcPass, GcDemoteStart, GcPlan, GcReleaseStart, GcKeepBlocks, GcAskLease, GcLease,
       GcCleanupStart, GcEnd, gcOver
  <2> QED BY <1>2, <2>1, <2>2, <2>3, <2>4 DEF Next
<1>6. GcStart => Reconciled
  BY DEF GcStart, Waited, Tolerable
<1> QED BY <1>4, <1>5, <1>6 DEF Waited

\* No block goes that a pending handover or release of the collector may have to pin again.
LEMMA RecoverableKept ==
  ASSUME ConfigAssumption, IInv, BlocksInv, Recoverable, Next
  PROVE  Recoverable'
<1>1. job \in [Cids -> Job] /\ CollectorOK /\ PinnedIsStored
  BY DEF IInv, TypeOK, BlocksInv
<1> SUFFICES ASSUME NEW c \in Cids, job'[c].kind \in {"demote", "gcRelease"},
                    job'[c].undoPin = "pin"
             PROVE  c \in blocks'
  BY DEF Recoverable
<1>2. CASE job'[c] # job[c]
  <2>1. GcLoop(c)
    <3>1. ASSUME NEW r \in Requests, Upload(r) PROVE FALSE
      <4>1. CASE \/ ImportFiles(r) \/ DisconnectUpload(r) \/ ClaimUpload(r) \/ CleanUpSession(r)
                 \/ DeleteCreatedBlock(r) \/ CommitSession(r) \/ PlaceReplicas(r)
                 \/ RollbackAdmitted(r) \/ FinalizeAdmitted(r) \/ FinalizeFails(r)
                 \/ SettledUpload(r) \/ CommitUpload(r) \/ EndUpload(r)
        BY <1>2, <4>1, RequestUndoable
      <4>2. ASSUME NEW d \in Cids,
                   \/ MarkPinIntent(r, d) \/ PinUpload(r, d) \/ RegisterUpload(r, d)
                   \/ ClearPinIntent(r, d) \/ RefuseUpload(r, d) \/ RestoreRefused(r, d)
                   \/ UndoUpload(r, d) \/ RestoreUpload(r, d) \/ CheckCreatedBlock(r, d)
                   \/ SettleUpload(r, d) \/ ClearSettledAdmission(r, d)
            PROVE  job'[c] = job[c] \/ job'[c].kind \notin {"demote", "gcRelease"}
        <5>1. CASE MarkPinIntent(r, d) \/ PinUpload(r, d) \/ UndoUpload(r, d)
          BY <1>1, <5>1 DEF MarkPinIntent, PinUpload, UndoUpload, Pending
        <5>2. CASE RegisterUpload(r, d) \/ RestoreRefused(r, d) \/ RestoreUpload(r, d)
          BY <1>1, <5>2 DEF RegisterUpload, RestoreRefused, RestoreUpload, NoJob
        <5>3. CASE RefuseUpload(r, d)
          BY <1>1, <5>3 DEF RefuseUpload, Job
        <5>4. CASE \/ ClearPinIntent(r, d) \/ CheckCreatedBlock(r, d)
                   \/ SettleUpload(r, d) \/ ClearSettledAdmission(r, d)
          BY <5>4 DEF ClearPinIntent, CheckCreatedBlock, SettleUpload, ClearSettledAdmission
        <5> QED BY <4>2, <5>1, <5>2, <5>3, <5>4
      <4> QED BY <1>2, <3>1, <4>1, <4>2 DEF Upload
    <3>2. ASSUME NEW d \in Cids, WriteRecord(d) PROVE FALSE
      BY <1>1, <1>2, <3>2 DEF WriteRecord, NoJob
    <3>3. ASSUME NEW d \in Cids, ClientCall(d) PROVE FALSE
      <4>1. d = c
        BY <1>2, <3>3, ClientTouches
      <4>2. job'[c] = job[c] \/ job'[c].kind \in {"confirm", "release", "baseline", "store",
                                                 "stage", "abort"}
        <5>1. CASE Confirm(c) \/ Release(c) \/ SetReplicas(c)
          BY <1>1, <5>1 DEF Confirm, Release, SetReplicas, Pending
        <5>2. CASE Adopt(c) \/ Store(c)
          <6>1. registerPinnedUnderLock(c)
            BY <5>2 DEF Adopt, Store
          <6>2. CASE Pending(c, "baseline", NoReq, rec[c], "keep", FALSE, TRUE)
            BY <1>1, <6>2 DEF Pending
          <6>3. CASE Pending(c, "store", NoReq, registered(c, NoReq, FALSE), wasPinned(c), TRUE,
                             TRUE)
            BY <1>1, <6>3 DEF Pending
          <6> QED BY <6>1, <6>2, <6>3 DEF registerPinnedUnderLock
        <5>3. ASSUME NEW t \in Txs, Stage(c, t) PROVE job'[c].kind = "stage"
          BY <1>1, <5>3 DEF Stage, staged, Pending
        <5>4. ASSUME NEW t \in Txs, Commit(c, t) PROVE job'[c] = job[c]
          BY <5>4 DEF Commit
        <5>5. ASSUME NEW t \in Txs, Abort(c, t)
              PROVE  job'[c] = job[c] \/ job'[c].kind = "abort"
          BY <1>1, <5>5 DEF Abort, Unstage, Pending
        <5> QED BY <3>3, <4>1, <5>1, <5>2, <5>3, <5>4, <5>5 DEF ClientCall
      <4> QED BY <1>2, <4>2
    <3>4. ASSUME NEW d \in Cids, Repair(d) \/ Boot(d) PROVE FALSE
      BY <1>1, <1>2, <3>4 DEF Repair, RepairClaim, RepairClear, RepairEnd, Rescue, Boot,
         BackfillRead, BackfillCreate, StartupRecover, bootKeep, Pending
    <3>5. ASSUME NEW d \in Cids, NEW persisted \in BOOLEAN, SaveFails(d, persisted) PROVE FALSE
      BY <1>1, <1>2, <3>5 DEF SaveFails, NoJob, Job
    <3>6. ~GcStart /\ ~GcPass /\ ~CrashAndRestart
      BY <1>2 DEF GcStart, GcPass, GcDemoteStart, GcPlan, GcReleaseStart, GcKeepBlocks, GcAskLease,
         GcLease, GcCleanupStart, GcEnd, CrashAndRestart, NoJob
    <3>7. PICK d \in Cids : GcLoop(d)
      BY <3>1, <3>2, <3>3, <3>4, <3>5, <3>6 DEF Next
    <3> QED BY <1>2, <3>7, CollectorTouches
  <2>2. GcDemote(c) \/ GcRelease(c)
    BY <1>1, <1>2, <2>1 DEF GcLoop, GcRecover, GcGuard, GcDelete, GcCleanup, Pending
  <2>3. UNCHANGED blocks /\ job'[c].undoPin = undoRemoved(c)
    BY <1>1, <1>2, <2>2 DEF GcDemote, GcRelease, Unstage, unpinFile, Pending
  <2>4. c \in pin
    BY <2>3 DEF undoRemoved
  <2> QED BY <1>1, <2>3, <2>4 DEF PinnedIsStored
<1>3. CASE job'[c] = job[c]
  <2>1. c \in blocks
    BY <1>3 DEF Recoverable
  <2>2. ASSUME NEW r \in Requests, DeleteCreatedBlock(r) PROVE c \in blocks'
    <3>1. c \notin doomed[r]
      <4> SUFFICES ASSUME c \in doomed[r] PROVE FALSE
        OBVIOUS
      <4>1. pc[r] = "cleaning" /\ c \in files[r]
        BY DEF BlocksInv, SessionOK
      <4>2. HeldByUpload(c) /\ JobOK(c)
        BY <4>1 DEF HeldByUpload, LockedPcs, IInv, CidOK
      <4> QED BY <1>3, <4>2 DEF JobOK, OwnKinds
    <3> QED BY <2>1, <2>2, <3>1 DEF DeleteCreatedBlock
  <2>3. ASSUME NEW d \in Cids, GcDelete(d) PROVE FALSE
    BY <1>1, <1>3, <2>3 DEF GcDelete, CollectorOK
  <2> QED BY <2>1, <2>2, <2>3, BlocksKept DEF BlocksStay
<1> QED BY <1>2, <1>3

LEMMA SoundShapes ==
  ASSUME NEW f \in Record, NEW b, Sound(f, b)
  PROVE  /\ Sound(Unowned(f), b) /\ (Needs(Unowned(f), b) <=> Needs(f, b))
         /\ Sound([f EXCEPT !.settled = TRUE], b)
         /\ Needs([f EXCEPT !.settled = TRUE], b) <=> Needs(f, b)
         /\ Sound(Confirmed(f), b)
         /\ Sound(Released(f), b) /\ ~Needs(Released(f), b)
         /\ Sound(Demoted(f), b) /\ (f.state # "absent" => ~Needs(Demoted(f), b))
         /\ f.state = "confirmed" => Sound(Rescued(f), b)
         /\ Sound(expiredBaseline(f), b) /\ ~Needs(expiredBaseline(f), b)
         /\ f.stage # {} => f.held
         /\ f.stage # {} /\ f.base = "none" => ~Needs(Absent, b)
BY DEF Sound, Needs, Unknown, Consistent, Record, Unowned, Confirmed, Released, Demoted, Rescued,
       expiredBaseline, Plain, Unstaged, Absent

LEMMA AbsentSound ==
  ASSUME NEW b
  PROVE  /\ Sound(Absent, b) /\ Sound(NoJob.next, b) /\ Sound(NoJob.prev, b)
         /\ NoJob.kind = "none" /\ (b = "none" => ~Needs(Absent, b))
BY DEF Sound, Consistent, Absent, NoJob, Needs, Unknown

\* The startup walk only settles what was to be recorded.
Walked(c) == backfill[c] = "none" => backfill'[c] = "none"

\* A request leaves no more to undo of c, and has it no longer to admit than before.
CreatedLess(r, c) ==
  c \in created'[r] =>
    /\ c \in created[r]
    /\ pc'[r] = pc[r] \/ pc'[r] \notin {"idle", "imported"}
    /\ pc'[r] = "admitting" /\ c \in todo'[r] => pc[r] = "admitting" /\ c \in todo[r]
    /\ c \in Undoable(r)' => c \in Undoable(r) /\ baseline'[r][c] = baseline[r][c]

\* A step that leaves a content alone.
LEMMA SureKept ==
  ASSUME NEW d \in Cids, SureOK(d), Walked(d),
         rec'[d] = rec[d], job'[d] = job[d], d \in pin => d \in pin',
         \A r \in Requests : /\ baseline'[r][d] \in {baseline[r][d], Absent}
                             /\ CreatedLess(r, d)
  PROVE  SureOK(d)'
<1>1. \A f : /\ Needs(f, backfill'[d]) => Needs(f, backfill[d])
             /\ Unknown(f, backfill'[d]) => Unknown(f, backfill[d])
             /\ Sound(f, backfill[d]) => Sound(f, backfill'[d])
  BY DEF Walked, Needs, Unknown, Sound
<1>2. Secured(d)'
  BY <1>1 DEF SureOK, Secured
<1>3. ASSUME NEW r \in Requests PROVE Sound(baseline'[r][d], backfill'[d]) /\ CreatedOK(r, d)'
  <2>1. Sound(baseline'[r][d], backfill'[d])
    BY <1>1, AbsentSound DEF SureOK
  <2>2. CreatedOK(r, d)'
    BY <1>1 DEF SureOK, CreatedOK, CreatedLess
  <2> QED BY <2>1, <2>2
<1> QED BY <1>1, <1>2, <1>3 DEF SureOK

AllSure == \A c \in Cids : SureOK(c)

\* The first half of an operation that no handler runs.
LEMMA SureBegins ==
  ASSUME IInv, AllSure, NEW c \in Cids, Unlocked(c),
         UNCHANGED <<rec, pc, files, todo, baseline, created, backfill>>,
         \A d \in Cids \ {c} : job'[d] = job[d] /\ (d \in pin' <=> d \in pin),
         job'[c].kind \in OwnKinds \ {"guard"}, job'[c].prev = rec[c],
         Sound(job'[c].next, backfill[c]), Needs(job'[c].next, backfill[c]) => c \in pin',
         job'[c].kind \in {"confirm", "store", "stage"} =>
           /\ c \in pin' /\ job'[c].undoSave
           /\ job'[c].undoPin = "unpin" => ~Needs(rec[c], backfill[c]),
         job'[c].kind \in {"demote", "gcRelease"} =>
           /\ ~job'[c].undoSave /\ rec[c].state # "absent" /\ job'[c].undoPin # "unpin"
           /\ rec[c].held => job'[c].undoPin = "pin"
  PROVE  AllSure'
<1>1. \A r \in Requests : Undoable(r)' = Undoable(r)
  BY DEF Undoable
<1>2. ASSUME NEW d \in Cids \ {c} PROVE SureOK(d)'
  <2>1. SureOK(d) /\ Walked(d)
    BY DEF AllSure, Walked
  <2>2. \A r \in Requests : baseline'[r][d] \in {baseline[r][d], Absent} /\ CreatedLess(r, d)
    BY <1>1 DEF CreatedLess
  <2> QED BY <2>1, <2>2, SureKept
<1>3. SureOK(c)'
  <2>1. SureOK(c) /\ job[c].kind = "none"
    BY DEF AllSure, Unlocked
  <2>2. Secured(c)'
    BY <2>1 DEF Secured, OwnKinds
  <2>3. \A r \in Requests : CreatedOK(r, c)'
    BY <1>1, <2>1 DEF SureOK, CreatedOK, OwnKinds
  <2> QED BY <2>1, <2>2, <2>3 DEF SureOK
<1> QED BY <1>2, <1>3 DEF AllSure

\* A registry write that keeps what a record says of its copy, whoever holds the lock.
LEMMA SureSame ==
  ASSUME AllSure, NEW c \in Cids,
         UNCHANGED <<job, pin, pc, files, baseline, created, backfill>>,
         \A d \in Cids \ {c} : rec'[d] = rec[d],
         \A r \in Requests : Undoable(r)' \subseteq Undoable(r) /\ todo'[r] \subseteq todo[r],
         Sound(rec'[c], backfill[c]), rec'[c].held = rec[c].held, rec'[c].state = rec[c].state
  PROVE  AllSure'
<1>1. \A d \in Cids, r \in Requests : CreatedLess(r, d)
  BY DEF CreatedLess
<1>2. ASSUME NEW d \in Cids \ {c} PROVE SureOK(d)'
  <2>1. SureOK(d) /\ Walked(d)
    BY DEF AllSure, Walked
  <2> QED BY <1>1, <2>1, SureKept
<1>3. SureOK(c)'
  <2>1. SureOK(c)
    BY DEF AllSure
  <2>2. Secured(c)'
    BY <2>1 DEF SureOK, Secured, Needs, Unknown
  <2>3. \A r \in Requests : CreatedOK(r, c)'
    BY <1>1, <2>1 DEF SureOK, CreatedOK, CreatedLess
  <2> QED BY <2>1, <2>2, <2>3 DEF SureOK
<1> QED BY <1>2, <1>3 DEF AllSure

\* A registry write, a pin or a step of the startup walk on a content nobody has locked.
LEMMA SureSaves ==
  ASSUME AllSure, NEW c \in Cids, Unlocked(c),
         UNCHANGED <<job, pc, files, todo, baseline, created>>,
         \A d \in Cids \ {c} : rec'[d] = rec[d] /\ backfill'[d] = backfill[d]
                               /\ (d \in pin => d \in pin'),
         Walked(c), Sound(rec'[c], backfill'[c]), Needs(rec'[c], backfill'[c]) => c \in pin'
  PROVE  AllSure'
<1>1. \A r \in Requests : Undoable(r)' = Undoable(r)
  BY DEF Undoable
<1>2. ASSUME NEW d \in Cids \ {c} PROVE SureOK(d)'
  <2>1. SureOK(d) /\ Walked(d)
    BY DEF AllSure, Walked
  <2>2. \A r \in Requests : CreatedLess(r, d)
    BY <1>1 DEF CreatedLess
  <2> QED BY <2>1, <2>2, SureKept
<1>3. SureOK(c)'
  <2>1. SureOK(c) /\ job[c].kind = "none" /\ job'[c] = job[c]
    BY DEF AllSure, Unlocked
  <2>2. \A f : /\ Unknown(f, backfill'[c]) => Unknown(f, backfill[c])
               /\ Sound(f, backfill[c]) => Sound(f, backfill'[c])
    BY DEF Walked, Unknown, Sound
  <2>3. Secured(c)'
    BY <2>1 DEF Secured, OwnKinds
  <2>4. \A r \in Requests : CreatedOK(r, c)'
    BY <1>1, <2>1, <2>2 DEF SureOK, CreatedOK
  <2> QED BY <2>1, <2>2, <2>3, <2>4 DEF SureOK
<1> QED BY <1>2, <1>3 DEF AllSure

\* Steps of a handler that are about its session as a whole.
LEMMA SureRequest ==
  ASSUME ConfigAssumption, IInv, AllSure, NEW r \in Requests,
         \/ ImportFiles(r) \/ DisconnectUpload(r) \/ ClaimUpload(r)
         \/ CleanUpSession(r) \/ DeleteCreatedBlock(r) \/ CommitSession(r)
         \/ PlaceReplicas(r) \/ RollbackAdmitted(r) \/ FinalizeAdmitted(r)
         \/ FinalizeFails(r) \/ SettledUpload(r) \/ CommitUpload(r) \/ EndUpload(r)
  PROVE  AllSure'
<1>1. /\ UNCHANGED <<rec, pin, job, recovery, backfill>>
      /\ \A q \in Requests \ {r} :
           Undoable(q)' = Undoable(q) /\ baseline'[q] = baseline[q] /\ created'[q] = created[q]
      /\ \/ UNCHANGED <<baseline, created>> /\ Undoable(r)' \subseteq Undoable(r)
         \/ /\ Undoable(r)' = {} /\ NoJobOf(r)
            /\ \A c \in Cids : baseline'[r][c] = Absent
  BY RequestUndoable
<1>2. Upload(r)
  BY DEF Upload
<1>3. \A q \in Requests \ {r} : pc'[q] = pc[q] /\ todo'[q] = todo[q]
  BY <1>2, UploadTouches
<1>4. /\ pc \in [Requests -> Pcs] /\ todo \in [Requests -> SUBSET Cids]
      /\ created \in [Requests -> SUBSET Cids]
  BY DEF IInv, TypeOK
<1>5. /\ created'[r] \subseteq created[r]
      /\ \/ pc'[r] = pc[r] /\ todo'[r] = todo[r]
         \/ pc'[r] \notin {"idle", "imported", "admitting"}
         \/ pc[r] \in {"idle", "imported"}
  BY <1>4 DEF ImportFiles, DisconnectUpload, ClaimUpload, CleanUpSession, DeleteCreatedBlock,
     CommitSession, PlaceReplicas, RollbackAdmitted, FinalizeAdmitted, FinalizeFails,
     SettledUpload, CommitUpload, EndUpload, finish, goto, at
<1>6. ASSUME NEW d \in Cids PROVE SureOK(d)'
  <2>1. SureOK(d) /\ Walked(d)
    BY <1>1 DEF AllSure, Walked
  <2>2. CreatedLess(r, d)
    <3>1. d \in created'[r] => d \in created[r] /\ pc[r] \notin {"idle", "imported"}
      BY <1>5, <2>1 DEF SureOK, CreatedOK
    <3> QED BY <1>1, <1>5, <3>1 DEF CreatedLess
  <2>3. \A q \in Requests : baseline'[q][d] \in {baseline[q][d], Absent} /\ CreatedLess(q, d)
    BY <1>1, <1>3, <2>2 DEF CreatedLess
  <2> QED BY <1>1, <2>1, <2>3, SureKept
<1> QED BY <1>6 DEF AllSure

\* Steps of a handler on one of its files, whose lock it holds.
LEMMA SureUploadFile ==
  ASSUME ConfigAssumption, IInv, AllSure, NEW r \in Requests, NEW c \in Cids, Upload(r),
         c \in files[r], pc[r] \in LockedPcs, UNCHANGED backfill,
         \A d \in Cids \ {c} : /\ rec'[d] = rec[d] /\ job'[d] = job[d]
                               /\ d \in pin => d \in pin'
                               /\ baseline'[r][d] = baseline[r][d] /\ CreatedLess(r, d),
         Secured(c)', job'[c].kind = "admit" => job'[c].by = r,
         Sound(rec'[c], backfill[c]), Sound(job'[c].next, backfill[c]),
         Sound(job'[c].prev, backfill[c]),
         Sound(baseline'[r][c], backfill[c]), CreatedOK(r, c)'
  PROVE  AllSure'
<1>1. \A q \in Requests \ {r} : /\ pc'[q] = pc[q] /\ files'[q] = files[q] /\ todo'[q] = todo[q]
                                /\ baseline'[q] = baseline[q] /\ created'[q] = created[q]
                                /\ Undoable(q)' = Undoable(q)
  BY UploadTouches DEF Undoable
<1>2. ASSUME NEW d \in Cids \ {c} PROVE SureOK(d)'
  <2>1. SureOK(d) /\ Walked(d)
    BY DEF AllSure, Walked
  <2>2. \A q \in Requests : baseline'[q][d] \in {baseline[q][d], Absent} /\ CreatedLess(q, d)
    BY <1>1 DEF CreatedLess
  <2> QED BY <2>1, <2>2, SureKept
<1>3. SureOK(c)'
  <2>1. SureOK(c)
    BY DEF AllSure
  <2>2. ASSUME NEW q \in Requests \ {r}
        PROVE  Sound(baseline'[q][c], backfill[c]) /\ CreatedOK(q, c)'
    <3>1. ~(pc[q] = "admitting" /\ c \in todo[q])
      BY DEF IInv, LocksOK, LockedPcs
    <3>2. CreatedOK(q, c)'
      BY <1>1, <2>1, <3>1 DEF SureOK, CreatedOK
    <3> QED BY <1>1, <2>1, <3>2 DEF SureOK
  <2> QED BY <2>2 DEF SureOK
<1> QED BY <1>2, <1>3 DEF AllSure

LEMMA SurePins ==
  ASSUME ConfigAssumption, IInv, AllSure, NEW r \in Requests, NEW c \in Cids,
         MarkPinIntent(r, c) \/ PinUpload(r, c)
  PROVE  AllSure'
<1> DEFINE b == backfill[c]
<1>1. /\ UNCHANGED <<backfill, rec, baseline, pc, files, todo>> /\ Upload(r)
      /\ pc[r] = "admitting" /\ c \in todo[r]
  BY DEF MarkPinIntent, PinUpload, uploadVars, bootVars, Upload, at, IInv, CidOK, JobOK,
         UploadKinds
<1>2. /\ SureOK(c) /\ job \in [Cids -> Job] /\ TypeOK
      /\ created \in [Requests -> SUBSET Cids] /\ r # NoReq
      /\ c \in files[r] /\ pc[r] \in LockedPcs
  BY <1>1 DEF AllSure, IInv, TypeOK, ConfigAssumption, LocksOK, LockedPcs
<1>3. \A q \in Requests : Undoable(q)' = Undoable(q)
  BY <1>1 DEF Undoable
<1>4. CASE MarkPinIntent(r, c)
  <2>1. /\ UNCHANGED <<pin, created>>
        /\ job'[c].kind = "intent" /\ job'[c].next = rec[c] /\ job'[c].prev = rec[c]
        /\ \A d \in Cids \ {c} : job'[d] = job[d]
    BY <1>2, <1>4 DEF MarkPinIntent, Pending, uploadVars
  <2>2. job[c].kind = "none"
    BY <1>2, <1>4 DEF MarkPinIntent, NoJobOf
  <2>3. Secured(c)'
    BY <1>1, <1>2, <2>1, <2>2 DEF SureOK, Secured, OwnKinds
  <2>4. c \notin created[r]
    BY <1>1, <1>2, <2>2 DEF SureOK, CreatedOK
  <2>5. /\ Sound(rec'[c], b) /\ Sound(job'[c].next, b) /\ Sound(job'[c].prev, b)
        /\ Sound(baseline'[r][c], b)
    BY <1>1, <1>2, <2>1 DEF SureOK
  <2>6. CreatedOK(r, c)' /\ \A d \in Cids : CreatedLess(r, d)
    BY <1>1, <1>3, <2>1, <2>4 DEF CreatedOK, CreatedLess
  <2> QED BY <1>1, <1>2, <2>1, <2>3, <2>5, <2>6, SureUploadFile
<1>5. CASE PinUpload(r, c)
  <2>1. /\ c \in pin' /\ \A d \in Cids \ {c} : d \in pin' <=> d \in pin
        /\ job[c].kind = "intent"
        /\ created'[r] = IF c \in pin THEN created[r] ELSE created[r] \cup {c}
    BY <1>2, <1>5 DEF PinUpload, pinFile
  <2>2. Needs(rec[c], b) => c \in pin
    BY <1>2, <2>1 DEF SureOK, Secured
  <2>3. /\ job'[c].prev = rec[c] /\ job'[c].by = r /\ job'[c].undoPin = undoCreated(c)
        /\ \/ job'[c].kind = "busy" /\ job'[c].next = rec[c]
           \/ job'[c].kind = "admit" /\ job'[c].next = registered(c, r, ConfirmationRequired)
        /\ \A d \in Cids \ {c} : job'[d] = job[d]
    BY <1>2, <1>5 DEF PinUpload, Pending
  <2>4. Sound(registered(c, r, ConfirmationRequired), b)
    BY <1>2 DEF registered, Consistent, Sound
  <2>5. undoCreated(c) = "unpin" => ~Needs(rec[c], b)
    BY <2>2 DEF undoCreated
  <2>6. Secured(c)'
    BY <1>1, <2>1, <2>3, <2>5 DEF Secured, OwnKinds
  <2>7. /\ Sound(rec'[c], b) /\ Sound(job'[c].next, b) /\ Sound(job'[c].prev, b)
        /\ Sound(baseline'[r][c], b)
    BY <1>1, <1>2, <2>3, <2>4 DEF SureOK
  <2>8. c \notin created[r]
    BY <1>1, <1>2, <2>1 DEF SureOK, CreatedOK
  <2>9. CreatedOK(r, c)'
    <3>1. c \in created'[r] => ~Unknown(rec[c], b)
      BY <2>1, <2>2, <2>8 DEF Needs
    <3>2. c \notin Undoable(r)'
      BY <1>1, <1>3 DEF Undoable
    <3> QED BY <1>1, <2>3, <3>1, <3>2 DEF CreatedOK
  <2>10. \A d \in Cids \ {c} : CreatedLess(r, d)
    BY <1>1, <1>3, <2>1 DEF CreatedLess
  <2> QED BY <1>1, <1>2, <2>1, <2>3, <2>6, <2>7, <2>9, <2>10, SureUploadFile
<1> QED BY <1>4, <1>5

LEMMA SureRegisters ==
  ASSUME ConfigAssumption, IInv, AllSure, NEW r \in Requests, NEW c \in Cids,
         RegisterUpload(r, c) \/ RefuseUpload(r, c) \/ RestoreRefused(r, c)
  PROVE  AllSure'
<1> DEFINE b == backfill[c]
<1>1. /\ UNCHANGED <<backfill, created, files>> /\ Upload(r)
      /\ SureOK(c) /\ JobOK(c) /\ RecordOK(job[c].next)
      /\ job \in [Cids -> Job] /\ rec \in [Cids -> Record]
      /\ baseline \in [Requests -> [Cids -> Record]] /\ todo \in [Requests -> SUBSET Cids]
      /\ pc \in [Requests -> Pcs] /\ files \in [Requests -> SUBSET Cids]
  BY DEF AllSure, IInv, CidOK, RecordsOK, TypeOK, RegisterUpload, RefuseUpload, RestoreRefused,
     uploadVars, bootVars, Upload
<1>2. pc[r] = "admitting" /\ c \in todo[r] /\ c \in files[r] /\ pc[r] \in LockedPcs
  BY <1>1 DEF RegisterUpload, RefuseUpload, RestoreRefused, at, JobOK, UploadKinds, LockedPcs
<1>3. CASE RegisterUpload(r, c)
  <2>1. /\ UNCHANGED <<pin, pc>>
        /\ job[c].kind = "admit" /\ job[c].by = r /\ job'[c] = NoJob /\ rec'[c] = job[c].next
        /\ baseline'[r][c] = job[c].prev
        /\ \A d \in Cids \ {c} : /\ rec'[d] = rec[d] /\ job'[d] = job[d]
                                 /\ baseline'[r][d] = baseline[r][d]
        /\ todo'[r] = todo[r] \ {c}
    BY <1>1, <1>3 DEF RegisterUpload, save, at
  <2>2. Secured(c)'
    BY <1>1, <2>1 DEF Secured, NoJob, SureOK, OwnKinds
  <2>3. /\ Sound(rec'[c], b) /\ Sound(job'[c].next, b) /\ Sound(job'[c].prev, b)
        /\ Sound(baseline'[r][c], b)
    BY <1>1, <2>1, AbsentSound DEF SureOK
  <2>4. CreatedOK(r, c)'
    BY <1>1, <1>2, <2>1, AbsentSound DEF SureOK, CreatedOK
  <2>5. \A d \in Cids \ {c} : CreatedLess(r, d)
    BY <1>1, <1>2, <2>1 DEF CreatedLess, Undoable
  <2>6. job'[c].kind # "admit"
    BY <2>1, AbsentSound
  <2> QED BY <1>1, <1>2, <2>1, <2>2, <2>3, <2>4, <2>5, <2>6, SureUploadFile
<1>4. CASE RefuseUpload(r, c)
  <2>1. /\ UNCHANGED <<rec, baseline, pc, todo>>
        /\ job[c].kind = "busy" /\ job'[c].kind = "refused" /\ job'[c].by = r
        /\ job'[c].prev = job[c].prev /\ job'[c].next = job[c].next
        /\ \A d \in Cids \ {c} : job'[d] = job[d] /\ (d \in pin' <=> d \in pin)
        /\ c \in pin' <=> c \in pin /\ job[c].undoPin # "unpin"
    BY <1>1, <1>4 DEF RefuseUpload, unpinFile, uploadVars, Job
  <2>2. Secured(c)'
    BY <1>1, <2>1 DEF Secured, SureOK, OwnKinds
  <2>3. \A q \in Requests : Undoable(q)' = Undoable(q)
    BY <1>1, <2>1 DEF Undoable
  <2>4. /\ Sound(rec'[c], b) /\ Sound(job'[c].next, b) /\ Sound(job'[c].prev, b)
        /\ Sound(baseline'[r][c], b)
    BY <1>1, <2>1 DEF SureOK
  <2>5. CreatedOK(r, c)' /\ \A d \in Cids : CreatedLess(r, d)
    BY <1>1, <2>1, <2>3 DEF SureOK, CreatedOK, CreatedLess
  <2> QED BY <1>1, <1>2, <2>1, <2>2, <2>4, <2>5, SureUploadFile
<1>5. CASE RestoreRefused(r, c)
  <2>1. /\ UNCHANGED <<pin, baseline>>
        /\ job[c].kind = "refused" /\ job[c].by = r /\ job'[c] = NoJob /\ rec'[c] = job[c].prev
        /\ \A d \in Cids \ {c} : rec'[d] = rec[d] /\ job'[d] = job[d]
        /\ pc'[r] = "restoring" /\ todo'[r] = files[r] \ todo[r]
    BY <1>1, <1>5 DEF RestoreRefused, save, at, goto
  <2>2. Undoable(r)' = Undoable(r)
    BY <1>1, <1>2, <2>1 DEF Undoable
  <2>3. Secured(c)'
    BY <1>1, <2>1 DEF Secured, NoJob, SureOK, OwnKinds
  <2>4. /\ Sound(rec'[c], b) /\ Sound(job'[c].next, b) /\ Sound(job'[c].prev, b)
        /\ Sound(baseline'[r][c], b)
    BY <1>1, <2>1, AbsentSound DEF SureOK
  <2>5. CreatedOK(r, c)' /\ \A d \in Cids : CreatedLess(r, d)
    BY <1>1, <1>2, <2>1, <2>2, AbsentSound DEF SureOK, CreatedOK, CreatedLess
  <2>6. job'[c].kind # "admit"
    BY <2>1, AbsentSound
  <2> QED BY <1>1, <1>2, <2>1, <2>3, <2>4, <2>5, <2>6, SureUploadFile
<1> QED BY <1>3, <1>4, <1>5

LEMMA SureUndoes ==
  ASSUME ConfigAssumption, IInv, AllSure, NEW r \in Requests, NEW c \in Cids,
         UndoUpload(r, c) \/ RestoreUpload(r, c)
  PROVE  AllSure'
<1> DEFINE b == backfill[c]
<1>1. /\ UNCHANGED <<backfill, created, baseline, pc, files>> /\ Upload(r)
      /\ SureOK(c) /\ JobOK(c) /\ LocksOK /\ RecordOK(rec[c])
      /\ job \in [Cids -> Job] /\ rec \in [Cids -> Record] /\ todo \in [Requests -> SUBSET Cids]
  BY DEF AllSure, IInv, CidOK, RecordsOK, TypeOK, UndoUpload, RestoreUpload, bootVars, Upload
<1>2. CASE UndoUpload(r, c) /\ UNCHANGED <<pin, blocks, job>>
           /\ todo' = [todo EXCEPT ![r] = @ \ {c}]
  <2>1. \A q \in Requests : Undoable(q)' \subseteq Undoable(q) /\ todo'[q] \subseteq todo[q]
    <3>1. \A q \in Requests \ {r} : todo'[q] = todo[q]
      BY <1>1, <1>2
    <3>2. todo'[r] = todo[r] \ {c} /\ pc[r] \in {"restoring", "undoing"}
      BY <1>1, <1>2 DEF UndoUpload
    <3> QED BY <1>1, <3>1, <3>2 DEF Undoable
  <2>2. UNCHANGED rec
    BY <1>2 DEF UndoUpload
  <2> QED BY <1>1, <1>2, <2>1, <2>2, SureSame DEF SureOK
<1>3. CASE /\ UndoUpload(r, c) /\ UNCHANGED todo
           /\ pc[r] = "restoring" \/ rec[c].adm = r
           /\ IF unpinOnRollback(r, c) THEN unpinFile(c) ELSE UNCHANGED <<pin, blocks>>
           /\ Pending(c, "undo", r, baseline[r][c], "keep", FALSE, FALSE)
  <2>1. /\ UNCHANGED rec /\ job[c].kind = "none" /\ c \in Undoable(r) /\ rec[c].adm = r
        /\ pc[r] \in {"restoring", "undoing"} /\ c \in files[r] /\ pc[r] \in LockedPcs
        /\ \A q \in Requests : Undoable(q)' = Undoable(q)
    BY <1>1, <1>3 DEF UndoUpload, NoJobOf, LocksOK, LockedPcs, Undoable, IInv, RestoringOwned
  <2>2. /\ job'[c].kind = "undo" /\ job'[c].next = baseline[r][c] /\ job'[c].prev = rec[c]
        /\ \A d \in Cids \ {c} : job'[d] = job[d]
    BY <1>1, <1>3 DEF Pending
  <2>3. c \in pin
    BY <1>1, <2>1 DEF RecordOK, ConfigAssumption, SureOK, Secured, Needs
  <2>4. /\ \A d \in Cids \ {c} : d \in pin' <=> d \in pin
        /\ c \in pin' <=> ~unpinOnRollback(r, c)
    BY <1>3, <2>3 DEF unpinFile
  <2>5. unpinOnRollback(r, c) => ~Needs(baseline[r][c], b)
    BY <1>1, <2>1 DEF unpinOnRollback, SureOK, CreatedOK, Needs, Sound, Consistent
  <2>6. Secured(c)'
    BY <1>1, <2>2, <2>4, <2>5 DEF Secured, OwnKinds
  <2>7. /\ Sound(rec'[c], b) /\ Sound(job'[c].next, b) /\ Sound(job'[c].prev, b)
        /\ Sound(baseline'[r][c], b)
    BY <1>1, <2>1, <2>2 DEF SureOK
  <2>8. CreatedOK(r, c)' /\ \A d \in Cids : CreatedLess(r, d)
    BY <1>1, <1>3, <2>1, <2>2 DEF SureOK, CreatedOK, CreatedLess
  <2> QED BY <1>1, <2>1, <2>2, <2>4, <2>6, <2>7, <2>8, SureUploadFile
<1>4. CASE RestoreUpload(r, c)
  <2>1. /\ UNCHANGED pin /\ job[c].kind = "undo" /\ job[c].by = r
        /\ job'[c] = NoJob /\ rec'[c] = job[c].next
        /\ \A d \in Cids \ {c} : rec'[d] = rec[d] /\ job'[d] = job[d]
        /\ todo'[r] = todo[r] \ {c}
    BY <1>1, <1>4 DEF RestoreUpload, save
  <2>2. /\ pc[r] \in {"restoring", "undoing"} /\ c \in files[r] /\ pc[r] \in LockedPcs
    BY <1>1, <2>1 DEF JobOK, UploadKinds, LockedPcs
  <2>3. Undoable(r)' \subseteq Undoable(r)
    BY <1>1, <2>1, <2>2 DEF Undoable
  <2>4. Secured(c)'
    BY <1>1, <2>1 DEF Secured, NoJob, SureOK, OwnKinds
  <2>5. /\ Sound(rec'[c], b) /\ Sound(job'[c].next, b) /\ Sound(job'[c].prev, b)
        /\ Sound(baseline'[r][c], b)
    BY <1>1, <2>1, AbsentSound DEF SureOK
  <2>6. CreatedOK(r, c)' /\ \A d \in Cids : CreatedLess(r, d)
    BY <1>1, <2>1, <2>2, <2>3, AbsentSound DEF SureOK, CreatedOK, CreatedLess
  <2>7. job'[c].kind # "admit"
    BY <2>1, AbsentSound
  <2> QED BY <1>1, <2>1, <2>2, <2>4, <2>5, <2>6, <2>7, SureUploadFile
<1> QED BY <1>2, <1>3, <1>4 DEF UndoUpload, at

LEMMA SureFileKept ==
  ASSUME ConfigAssumption, IInv, AllSure, NEW r \in Requests, NEW c \in Cids,
         \/ ClearPinIntent(r, c) \/ CheckCreatedBlock(r, c)
         \/ SettleUpload(r, c) \/ ClearSettledAdmission(r, c)
  PROVE  AllSure'
<1>1. /\ UNCHANGED <<job, pin, pc, files, baseline, created, backfill>>
      /\ rec \in [Cids -> Record] /\ todo \in [Requests -> SUBSET Cids] /\ rec[c] \in Record
      /\ Sound(rec[c], backfill[c])
  BY DEF IInv, TypeOK, AllSure, SureOK, ClearPinIntent, CheckCreatedBlock, SettleUpload,
         ClearSettledAdmission, uploadVars, bootVars, storeVars
<1>2. \A q \in Requests : Undoable(q)' \subseteq Undoable(q) /\ todo'[q] \subseteq todo[q]
  <2>1. CASE ClearPinIntent(r, c)
    BY <2>1 DEF ClearPinIntent, uploadVars, Undoable
  <2>2. CASE CheckCreatedBlock(r, c) \/ SettleUpload(r, c) \/ ClearSettledAdmission(r, c)
    <3>1. /\ pc[r] \in {"aborting", "cleaning", "settling", "clearing"}
          /\ todo'[r] \subseteq todo[r]
          /\ \A q \in Requests \ {r} : todo'[q] = todo[q]
      BY <1>1, <2>2 DEF CheckCreatedBlock, SettleUpload, ClearSettledAdmission, at
    <3> QED BY <1>1, <3>1 DEF Undoable
  <2> QED BY <2>1, <2>2
<1>3. /\ \A d \in Cids \ {c} : rec'[d] = rec[d]
      /\ rec'[c] \in {rec[c], [rec[c] EXCEPT !.settled = TRUE], Unowned(rec[c])}
  BY <1>1 DEF ClearPinIntent, CheckCreatedBlock, SettleUpload, ClearSettledAdmission, storeVars,
              save
<1>4. /\ Sound(Unowned(rec[c]), backfill[c]) /\ Sound([rec[c] EXCEPT !.settled = TRUE], backfill[c])
  BY <1>1, SoundShapes
<1>5. /\ Unowned(rec[c]).held = rec[c].held /\ Unowned(rec[c]).state = rec[c].state
      /\ [rec[c] EXCEPT !.settled = TRUE].held = rec[c].held
      /\ [rec[c] EXCEPT !.settled = TRUE].state = rec[c].state
  BY <1>1 DEF Record, Unowned
<1>6. /\ Sound(rec'[c], backfill[c])
      /\ rec'[c].held = rec[c].held /\ rec'[c].state = rec[c].state
  BY <1>1, <1>3, <1>4, <1>5
<1> QED BY <1>1, <1>2, <1>3, <1>6, SureSame

\* A step that leaves the records, their operations and the handlers alone.
LEMMA SureStays ==
  ASSUME AllSure, UNCHANGED <<rec, job, pc, files, todo, baseline, created>>,
         \A d \in Cids : Walked(d) /\ (d \in pin => d \in pin')
  PROVE  AllSure'
<1>1. \A q \in Requests : Undoable(q)' = Undoable(q)
  BY DEF Undoable
<1>2. ASSUME NEW d \in Cids PROVE SureOK(d)'
  <2>1. SureOK(d)
    BY DEF AllSure
  <2>2. \A q \in Requests : CreatedLess(q, d)
    BY <1>1 DEF CreatedLess
  <2> QED BY <2>1, <2>2, SureKept
<1> QED BY <1>2 DEF AllSure

LEMMA SureWriteRecord ==
  ASSUME IInv, AllSure, NEW c \in Cids, WriteRecord(c)
  PROVE  AllSure'
<1>1. /\ SureOK(c) /\ job \in [Cids -> Job] /\ rec \in [Cids -> Record]
  BY DEF AllSure, IInv, TypeOK
<1>2. /\ UNCHANGED <<pin, pc, files, todo, baseline, created, backfill>>
      /\ job[c].kind \in OwnKinds /\ job'[c] = NoJob /\ rec'[c] = job[c].next
      /\ \A d \in Cids \ {c} : rec'[d] = rec[d] /\ job'[d] = job[d]
  BY <1>1 DEF WriteRecord, uploadVars, bootVars
<1>3. \A q \in Requests : Undoable(q)' = Undoable(q)
  BY <1>2 DEF Undoable
<1>4. ASSUME NEW d \in Cids \ {c} PROVE SureOK(d)'
  <2>1. SureOK(d) /\ Walked(d) /\ \A q \in Requests : CreatedLess(q, d)
    BY <1>2, <1>3 DEF AllSure, Walked, CreatedLess
  <2> QED BY <1>2, <2>1, SureKept
<1>5. SureOK(c)'
  <2>1. /\ Sound(rec'[c], backfill[c]) /\ Sound(job'[c].next, backfill[c])
        /\ Sound(job'[c].prev, backfill[c])
    BY <1>1, <1>2, AbsentSound DEF SureOK
  <2>2. Secured(c)'
    BY <1>1, <1>2 DEF Secured, NoJob, SureOK, OwnKinds
  <2>3. \A q \in Requests : CreatedOK(q, c)'
    BY <1>1, <1>2, <1>3, AbsentSound DEF SureOK, CreatedOK, OwnKinds
  <2> QED BY <1>1, <1>2, <2>1, <2>2, <2>3 DEF SureOK
<1> QED BY <1>4, <1>5 DEF AllSure

\* What an unlocked content looks like.
LEMMA SureIdle ==
  ASSUME IInv, AllSure, NEW c \in Cids, Unlocked(c)
  PROVE  /\ rec[c] \in Record /\ job \in [Cids -> Job] /\ rec \in [Cids -> Record]
         /\ Sound(rec[c], backfill[c]) /\ (Needs(rec[c], backfill[c]) => c \in pin)
         /\ rec[c].held => rec[c].pinned /\ c \in pin
BY DEF IInv, TypeOK, AllSure, SureOK, Secured, Unlocked, Sound, Consistent, Needs

\* The collector and an aborted stage drop a prepared copy.
LEMMA SureUnstages ==
  ASSUME IInv, AllSure, NEW c \in Cids, Unlocked(c), NEW kind \in {"abort", "gcStage"},
         NEW keep \in BOOLEAN, NEW shared \in BOOLEAN, rec[c].stage # {},
         Unstage(c, kind, keep, shared),
         UNCHANGED <<rec, pc, files, todo, baseline, created, backfill>>
  PROVE  AllSure'
<1>1. /\ job'[c].kind = kind /\ job'[c].prev = rec[c]
      /\ \/ job'[c].next = Absent /\ rec[c].base = "none"
         \/ job'[c].next = expiredBaseline(rec[c])
      /\ \A d \in Cids \ {c} : job'[d] = job[d]
  BY SureIdle DEF Unstage, Pending
<1>2. c \notin pin' /\ \A d \in Cids \ {c} : d \in pin' <=> d \in pin
  BY DEF Unstage, unpinFile
<1>3. /\ Sound(expiredBaseline(rec[c]), backfill[c])
      /\ ~Needs(expiredBaseline(rec[c]), backfill[c])
      /\ rec[c].base = "none" => ~Needs(Absent, backfill[c])
  BY SureIdle, SoundShapes
<1>4. Sound(job'[c].next, backfill[c]) /\ ~Needs(job'[c].next, backfill[c])
  BY <1>1, <1>3, AbsentSound
<1>5. /\ job'[c].kind \in OwnKinds \ {"guard"}
      /\ job'[c].kind \notin {"confirm", "store", "stage", "demote", "gcRelease"}
  BY <1>1 DEF OwnKinds
<1> QED BY <1>1, <1>2, <1>4, <1>5, SureBegins

LEMMA StagedSound ==
  ASSUME NEW f \in Record, NEW t \in Txs, NEW g, NEW b, Sound(f, b),
         \/ g = [f EXCEPT !.state = "temporary", !.pinned = TRUE, !.held = TRUE,
                          !.stage = @ \cup {t}] /\ f.stage # {}
         \/ g = [f EXCEPT !.state = "confirmed", !.pinned = TRUE, !.held = TRUE]
         \/ /\ g = [f EXCEPT !.state = "temporary", !.pinned = TRUE, !.held = TRUE, !.stage = {t},
                             !.base = IF f.state = "absent" THEN "none" ELSE "expired"]
            /\ ~Unknown(f, b)
  PROVE  Sound(g, b)
<1>1. g.pinned = TRUE /\ g.held = TRUE /\ g.state \in {"temporary", "confirmed"}
  BY DEF Record
<1>2. g.stage # {} /\ g.base = "none" => b = "none"
  BY DEF Record, Sound, Unknown
<1> QED BY <1>1, <1>2 DEF Sound, Consistent

LEMMA SureClient ==
  ASSUME ConfigAssumption, IInv, AllSure, NEW c \in Cids, ClientCall(c)
  PROVE  AllSure'
<1> USE DEF others, uploadVars, bootVars
<1> DEFINE b == backfill[c]
<1>1. CASE Confirm(c) \/ Release(c)
  <2>1. /\ Unlocked(c)
        /\ UNCHANGED <<rec, pc, files, todo, baseline, created, backfill>>
    BY <1>1 DEF Confirm, Release
  <2>2. /\ \A d \in Cids \ {c} : job'[d] = job[d] /\ (d \in pin' <=> d \in pin)
        /\ job'[c].prev = rec[c]
        /\ \/ /\ job'[c].kind = "confirm" /\ job'[c].next = Confirmed(rec[c]) /\ c \in pin'
              /\ job'[c].undoSave /\ job'[c].undoPin = wasPinned(c)
           \/ job'[c].kind = "release" /\ job'[c].next = Released(rec[c])
    BY <1>1, <2>1, SureIdle DEF Confirm, Release, pinFile, unpinFile, Pending
  <2>3. /\ Sound(Confirmed(rec[c]), b)
        /\ Sound(Released(rec[c]), b) /\ ~Needs(Released(rec[c]), b)
    BY <2>1, SureIdle, SoundShapes
  <2>4. Sound(job'[c].next, b) /\ (Needs(job'[c].next, b) => c \in pin')
    BY <2>2, <2>3
  <2>5. wasPinned(c) = "unpin" => ~Needs(rec[c], b)
    BY <2>1, SureIdle DEF wasPinned
  <2>6. /\ job'[c].kind \in OwnKinds \ {"guard"}
        /\ job'[c].kind \notin {"store", "stage", "demote", "gcRelease"}
    BY <2>2 DEF OwnKinds
  <2> QED BY <2>1, <2>2, <2>4, <2>5, <2>6, SureBegins
<1>2. CASE Adopt(c) \/ Store(c)
  <2>1. /\ Unlocked(c) /\ registerPinnedUnderLock(c)
        /\ UNCHANGED <<rec, pc, files, todo, baseline, created, backfill>>
    BY <1>2 DEF Adopt, Store
  <2>2. CASE /\ pin' = IF wasPinned(c) = "pin" THEN pin \cup {c} ELSE pin \ {c}
             /\ Pending(c, "baseline", NoReq, rec[c], "keep", FALSE, TRUE)
    <3>1. /\ \A d \in Cids \ {c} : job'[d] = job[d] /\ (d \in pin' <=> d \in pin)
          /\ job'[c].kind = "baseline" /\ job'[c].prev = rec[c] /\ job'[c].next = rec[c]
      BY <2>1, <2>2, SureIdle DEF Pending
    <3>2. Needs(rec[c], b) => c \in pin'
      BY <2>1, <2>2, SureIdle DEF wasPinned
    <3>3. /\ job'[c].kind \in OwnKinds \ {"guard"}
          /\ job'[c].kind \notin {"confirm", "store", "stage", "demote", "gcRelease"}
      BY <3>1 DEF OwnKinds
    <3> QED BY <2>1, <3>1, <3>2, <3>3, SureIdle, SureBegins
  <2>3. CASE /\ rec[c].stage = {} /\ pinFile(c)
             /\ Pending(c, "store", NoReq, registered(c, NoReq, FALSE), wasPinned(c), TRUE, TRUE)
    <3>1. /\ \A d \in Cids \ {c} : job'[d] = job[d] /\ (d \in pin' <=> d \in pin)
          /\ job'[c].kind = "store" /\ job'[c].prev = rec[c] /\ c \in pin'
          /\ job'[c].next = registered(c, NoReq, FALSE)
          /\ job'[c].undoSave /\ job'[c].undoPin = wasPinned(c)
      BY <2>1, <2>3, SureIdle DEF Pending, pinFile
    <3>2. Sound(job'[c].next, b)
      BY <2>3, <3>1 DEF registered, Consistent, Sound
    <3>3. wasPinned(c) = "unpin" => ~Needs(rec[c], b)
      BY <2>1, SureIdle DEF wasPinned
    <3>4. /\ job'[c].kind \in OwnKinds \ {"guard"}
          /\ job'[c].kind \notin {"demote", "gcRelease"}
      BY <3>1 DEF OwnKinds
    <3> QED BY <2>1, <3>1, <3>2, <3>3, <3>4, SureBegins
  <2>4. CASE rec[c].stage # {} /\ pinFile(c) /\ UNCHANGED job
    <3>1. \A d \in Cids : Walked(d) /\ (d \in pin => d \in pin')
      BY <2>1, <2>4 DEF pinFile, Walked
    <3> QED BY <2>1, <2>4, <3>1, SureStays
  <2> QED BY <2>1, <2>2, <2>3, <2>4 DEF registerPinnedUnderLock
<1>3. CASE SetReplicas(c)
  <2>1. /\ UNCHANGED <<rec, pin, job, pc, files, todo, baseline, created, backfill>>
        /\ \A d \in Cids : Walked(d)
    BY <1>3 DEF SetReplicas, storeVars, Walked
  <2> QED BY <2>1, SureStays
<1>4. ASSUME NEW t \in Txs, Stage(c, t) PROVE AllSure'
  <2>1. /\ Unlocked(c) /\ c \in pin' /\ \A d \in Cids \ {c} : d \in pin' <=> d \in pin
        /\ UNCHANGED <<rec, pc, files, todo, baseline, created, backfill>>
    BY <1>4 DEF Stage, pinFile
  <2>2. /\ \A d \in Cids \ {c} : job'[d] = job[d]
        /\ job'[c].kind = "stage" /\ job'[c].prev = rec[c] /\ job'[c].undoSave
        /\ job'[c].undoPin = "unpin" => c \notin pin
        /\ \/ /\ job'[c].next = [rec[c] EXCEPT !.state = "temporary", !.pinned = TRUE,
                                   !.held = TRUE, !.stage = @ \cup {t}]
              /\ rec[c].stage # {}
           \/ job'[c].next = [rec[c] EXCEPT !.state = "confirmed", !.pinned = TRUE, !.held = TRUE]
           \/ /\ job'[c].next = [rec[c] EXCEPT !.state = "temporary", !.pinned = TRUE,
                                !.held = TRUE, !.stage = {t},
                                !.base = IF rec[c].state = "absent" THEN "none" ELSE "expired"]
              /\ c \notin pin
    <3>1. job \in [Cids -> Job]
      BY <2>1, SureIdle
    <3> QED BY <1>4, <3>1 DEF Stage, staged, Pending, unpinIfCreated
  <2>3. c \notin pin => ~Needs(rec[c], b) /\ ~Unknown(rec[c], b)
    BY <2>1, SureIdle DEF Needs
  <2>4. Sound(job'[c].next, b)
    <3> DEFINE g == job'[c].next
    <3>1. /\ rec[c] \in Record /\ Sound(rec[c], b)
          /\ \/ /\ g = [rec[c] EXCEPT !.state = "temporary", !.pinned = TRUE,
                                   !.held = TRUE, !.stage = @ \cup {t}]
                /\ rec[c].stage # {}
             \/ g = [rec[c] EXCEPT !.state = "confirmed", !.pinned = TRUE, !.held = TRUE]
             \/ /\ g = [rec[c] EXCEPT !.state = "temporary", !.pinned = TRUE,
                                !.held = TRUE, !.stage = {t},
                                !.base = IF rec[c].state = "absent" THEN "none" ELSE "expired"]
                /\ ~Unknown(rec[c], b)
      BY <2>1, <2>2, <2>3, SureIdle
    <3> HIDE DEF g
    <3> QED BY <3>1, StagedSound DEF g
  <2>5. /\ job'[c].kind \in OwnKinds \ {"guard"}
        /\ job'[c].kind \notin {"demote", "gcRelease"}
    BY <2>2 DEF OwnKinds
  <2> QED BY <2>1, <2>2, <2>3, <2>4, <2>5, SureBegins
<1>5. ASSUME NEW t \in Txs, Commit(c, t) PROVE AllSure'
  <2>1. /\ UNCHANGED <<pin, job, pc, files, todo, baseline, created, backfill>>
        /\ Unlocked(c) /\ rec[c].stage # {} /\ save(c, Confirmed(rec[c]))
    BY <1>5 DEF Commit
  <2>2. /\ rec'[c] = Confirmed(rec[c]) /\ \A d \in Cids \ {c} : rec'[d] = rec[d]
    BY <2>1, SureIdle DEF save
  <2>3. Sound(Confirmed(rec[c]), b) /\ rec[c].held
    BY <2>1, SureIdle, SoundShapes
  <2>4. Sound(rec'[c], b) /\ c \in pin
    BY <2>1, <2>2, <2>3, SureIdle
  <2> QED BY <2>1, <2>2, <2>4, SureSaves DEF Walked
<1>6. ASSUME NEW t \in Txs, Abort(c, t) PROVE AllSure'
  <2>1. /\ UNCHANGED <<pc, files, todo, baseline, created, backfill>>
        /\ Unlocked(c)
    BY <1>6 DEF Abort
  <2>2. \A d \in Cids : Walked(d)
    BY <2>1 DEF Walked
  <2>3. CASE UNCHANGED <<rec, pin, job>>
    BY <2>1, <2>2, <2>3, SureStays
  <2>4. CASE /\ t \in rec[c].stage /\ UNCHANGED <<pin, blocks, job>>
             /\ save(c, [rec[c] EXCEPT !.stage = @ \ {t}])
    <3>1. /\ rec'[c] = [rec[c] EXCEPT !.stage = @ \ {t}]
          /\ \A d \in Cids \ {c} : rec'[d] = rec[d]
      BY <2>1, <2>4, SureIdle DEF save
    <3>2. Sound(rec'[c], b) /\ (Needs(rec'[c], b) => c \in pin')
      BY <2>1, <2>4, <3>1, SureIdle DEF Sound, Consistent, Record, Needs, Unknown
    <3> QED BY <2>1, <2>2, <2>4, <3>1, <3>2, SureSaves
  <2>5. CASE rec[c].stage = {t} /\ Unstage(c, "abort", FALSE, TRUE) /\ UNCHANGED <<rec, gcFresh>>
    BY <2>1, <2>5, SureUnstages
  <2> QED BY <1>6, <2>3, <2>4, <2>5 DEF Abort
<1> QED BY <1>1, <1>2, <1>3, <1>4, <1>5, <1>6 DEF ClientCall

LEMMA SureCollects ==
  ASSUME ConfigAssumption, IInv, Waited, AllSure, NEW c \in Cids, GcLoop(c)
  PROVE  AllSure'
<1> USE DEF gcKeep, uploadVars, bootVars, gcDone, gcMay
<1> DEFINE b == backfill[c]
<1>1. /\ UNCHANGED <<pc, files, todo, baseline, created, backfill>>
      /\ job \in [Cids -> Job] /\ rec \in [Cids -> Record]
      /\ \A d \in Cids : Walked(d)
  BY DEF GcLoop, GcRecover, GcDemote, GcGuard, GcRelease, GcDelete, GcCleanup, IInv, TypeOK,
         Walked
<1>2. CASE UNCHANGED <<rec, pin, job>>
  BY <1>1, <1>2, SureStays
<1>3. CASE GcRecover(c) /\ save(c, Unowned(rec[c]))
  <2>1. UNCHANGED <<pin, job>> /\ Unlocked(c)
    BY <1>3 DEF GcRecover
  <2>2. rec'[c] = Unowned(rec[c]) /\ \A d \in Cids \ {c} : rec'[d] = rec[d]
    BY <1>1, <1>3 DEF save
  <2>3. Sound(Unowned(rec[c]), b) /\ (Needs(Unowned(rec[c]), b) => c \in pin)
    BY <2>1, SureIdle, SoundShapes
  <2>4. Sound(rec'[c], b) /\ (Needs(rec'[c], b) => c \in pin)
    BY <2>2, <2>3
  <2> QED BY <1>1, <2>1, <2>2, <2>4, SureSaves
<1>4. CASE /\ UNCHANGED rec /\ Unlocked(c) /\ unpinFile(c) /\ rec[c].state # "absent"
           /\ \/ Pending(c, "demote", NoReq, Demoted(rec[c]), undoRemoved(c), FALSE, FALSE)
              \/ Pending(c, "gcRelease", NoReq, Released(rec[c]), undoRemoved(c), FALSE, FALSE)
  <2>1. /\ job'[c].kind \in {"demote", "gcRelease"} /\ job'[c].prev = rec[c]
        /\ job'[c].next \in {Demoted(rec[c]), Released(rec[c])}
        /\ ~job'[c].undoSave /\ job'[c].undoPin = undoRemoved(c)
        /\ \A d \in Cids \ {c} : job'[d] = job[d] /\ (d \in pin' <=> d \in pin)
    BY <1>1, <1>4 DEF unpinFile, Pending
  <2>2. /\ Sound(Demoted(rec[c]), b) /\ ~Needs(Demoted(rec[c]), b)
        /\ Sound(Released(rec[c]), b) /\ ~Needs(Released(rec[c]), b)
    BY <1>4, SureIdle, SoundShapes
  <2>3. Sound(job'[c].next, b) /\ ~Needs(job'[c].next, b)
    BY <2>1, <2>2
  <2>4. undoRemoved(c) # "unpin" /\ (rec[c].held => undoRemoved(c) = "pin")
    BY <1>4, SureIdle DEF undoRemoved
  <2>5. /\ job'[c].kind \in OwnKinds \ {"guard"}
        /\ job'[c].kind \notin {"confirm", "store", "stage"}
    BY <2>1 DEF OwnKinds
  <2> QED BY <1>1, <1>4, <2>1, <2>3, <2>4, <2>5, SureBegins
<1>5. ASSUME unprotected(c), Unlocked(c) PROVE FALSE
  BY <1>5, SureIdle DEF unprotected, Durable
<1>6. CASE UNCHANGED rec /\ Unlocked(c) /\ rec[c].stage # {} /\ Unstage(c, "gcStage", TRUE, FALSE)
  BY <1>1, <1>6, SureUnstages
<1>7. CASE GcCleanup(c) /\ c \in gcFresh
  <2>1. UNCHANGED <<pin, job>> /\ save(c, Absent) /\ Unlocked(c) /\ gcPc = "cleanup"
    BY <1>7 DEF GcCleanup, stillReleased
  <2>2. rec'[c] = Absent /\ \A d \in Cids \ {c} : rec'[d] = rec[d]
    BY <1>1, <2>1 DEF save
  <2>3. b = "none"
    BY <2>1 DEF Waited, Reconciled
  <2> QED BY <1>1, <2>1, <2>2, <2>3, AbsentSound, SureSaves
<1>8. CASE GcDemote(c)
  <2>1. CASE UNCHANGED <<pin, blocks, job>>
    BY <1>2, <1>8, <2>1 DEF GcDemote
  <2>2. CASE ~UNCHANGED <<pin, blocks, job>>
    BY <1>4, <1>8, <2>2 DEF GcDemote, Durable
  <2> QED BY <2>1, <2>2
<1>9. CASE GcRelease(c)
  <2>1. CASE stillPlanned(c) /\ rec[c].stage # {} /\ Unstage(c, "gcStage", TRUE, FALSE)
    BY <1>6, <1>9, <2>1 DEF GcRelease
  <2>2. CASE /\ stillPlanned(c) /\ unpinFile(c)
             /\ Pending(c, "gcRelease", NoReq, Released(rec[c]), undoRemoved(c), FALSE, FALSE)
    BY <1>4, <1>9, <2>2 DEF GcRelease, stillPlanned
  <2>3. CASE UNCHANGED <<pin, blocks, job>>
    BY <1>2, <1>9, <2>3 DEF GcRelease
  <2> QED BY <1>9, <2>1, <2>2, <2>3 DEF GcRelease
<1> QED
  BY <1>2, <1>3, <1>5, <1>7, <1>8, <1>9 DEF GcLoop, GcRecover, recoverAdmission,
     GcGuard, GcDelete, GcCleanup, stillReleased

LEMMA SureRepairs ==
  ASSUME ConfigAssumption, IInv, AllSure, NEW c \in Cids, Repair(c)
  PROVE  AllSure'
<1> USE DEF repairKeep, uploadVars, bootVars
<1> DEFINE b == backfill[c]
<1>1. /\ UNCHANGED <<pc, files, todo, baseline, created, backfill>>
      /\ job \in [Cids -> Job] /\ rec \in [Cids -> Record]
      /\ \A d \in Cids : Walked(d)
  BY DEF Repair, RepairClaim, RepairClear, RepairEnd, Rescue, IInv, TypeOK, Walked
<1>2. CASE RepairClaim(c) \/ RepairEnd(c)
  <2>1. UNCHANGED <<rec, pin, job>>
    BY <1>2 DEF RepairClaim, RepairEnd
  <2> QED BY <1>1, <2>1, SureStays
<1>3. CASE RepairClear(c)
  <2>1. UNCHANGED <<pin, job>> /\ Unlocked(c) /\ save(c, Unowned(rec[c]))
    BY <1>3 DEF RepairClear
  <2>2. rec'[c] = Unowned(rec[c]) /\ \A d \in Cids \ {c} : rec'[d] = rec[d]
    BY <1>1, <2>1 DEF save
  <2>3. Sound(Unowned(rec[c]), b) /\ (Needs(Unowned(rec[c]), b) => c \in pin)
    BY <2>1, SureIdle, SoundShapes
  <2>4. Sound(rec'[c], b) /\ (Needs(rec'[c], b) => c \in pin)
    BY <2>2, <2>3
  <2> QED BY <1>1, <2>1, <2>2, <2>4, SureSaves
<1>4. CASE Rescue(c)
  <2>1. /\ UNCHANGED rec /\ Unlocked(c) /\ c \in pin' /\ rec[c].state = "confirmed"
        /\ job'[c].kind = "rescue" /\ job'[c].prev = rec[c] /\ job'[c].next = Rescued(rec[c])
        /\ \A d \in Cids \ {c} : job'[d] = job[d] /\ (d \in pin' <=> d \in pin)
    BY <1>1, <1>4 DEF Rescue, pinFile, Pending
  <2>2. Sound(Rescued(rec[c]), b)
    BY <2>1, SureIdle, SoundShapes
  <2>3. /\ job'[c].kind \in OwnKinds \ {"guard"}
        /\ job'[c].kind \notin {"confirm", "store", "stage", "demote", "gcRelease"}
    BY <2>1 DEF OwnKinds
  <2>4. Sound(job'[c].next, b)
    BY <2>1, <2>2
  <2> QED BY <1>1, <2>1, <2>3, <2>4, SureBegins
<1> QED BY <1>2, <1>3, <1>4 DEF Repair

LEMMA SureBoots ==
  ASSUME ConfigAssumption, IInv, AllSure, NEW c \in Cids, Boot(c)
  PROVE  AllSure'
<1> USE DEF bootKeep, uploadVars, backfillGoto
<1> DEFINE b == backfill[c]
<1>1. /\ UNCHANGED <<pin, job, pc, files, todo, baseline, created>>
      /\ job \in [Cids -> Job] /\ rec \in [Cids -> Record]
      /\ backfill \in [Cids -> {"none", "todo", "interrupted", "legacy"}]
  BY DEF Boot, BackfillRead, BackfillCreate, StartupRecover, IInv, TypeOK
<1>2. CASE BackfillRead(c)
  <2>1. UNCHANGED rec /\ backfill[c] = "todo" /\ \A d \in Cids \ {c} : backfill'[d] = backfill[d]
    BY <1>1, <1>2 DEF BackfillRead
  <2>2. \A d \in Cids : Walked(d)
    BY <2>1 DEF Walked
  <2> QED BY <1>1, <2>1, <2>2, SureStays
<1>3. CASE BackfillCreate(c)
  <2>1. /\ Unlocked(c) /\ b # "none" /\ backfill'[c] = "none"
        /\ \A d \in Cids \ {c} : backfill'[d] = backfill[d]
        /\ IF rec[c].state # "absent" THEN UNCHANGED rec
           ELSE save(c, [Absent EXCEPT !.pinned = TRUE, !.held = TRUE,
                           !.state = IF b = "interrupted" /\ ConfirmationRequired
                                       THEN "temporary" ELSE "confirmed"])
    BY <1>1, <1>3 DEF BackfillCreate
  <2>2. \A d \in Cids \ {c} : rec'[d] = rec[d]
    BY <1>1, <2>1 DEF save
  <2>3. Sound(rec'[c], "none") /\ (Needs(rec'[c], "none") => c \in pin)
    <3>1. CASE rec[c].state # "absent"
      BY <2>1, <3>1, SureIdle DEF Sound, Needs, Unknown
    <3>2. CASE rec[c].state = "absent"
      <4>1. c \in pin
        BY <2>1, <3>2, SureIdle DEF Needs, Unknown
      <4>2. \E s \in {"temporary", "confirmed"} :
              rec'[c] = [Absent EXCEPT !.pinned = TRUE, !.held = TRUE, !.state = s]
        BY <1>1, <2>1, <3>2 DEF save
      <4>3. rec'[c].held /\ rec'[c].pinned /\ rec'[c].stage = {}
            /\ rec'[c].state \in {"temporary", "confirmed"}
        BY <4>2 DEF Absent
      <4> QED BY <4>1, <4>3 DEF Sound, Consistent
    <3> QED BY <3>1, <3>2
  <2> QED BY <1>1, <2>1, <2>2, <2>3, SureSaves DEF Walked
<1>4. CASE StartupRecover(c)
  <2>1. Unlocked(c) /\ UNCHANGED backfill /\ recoverAdmission(c) /\ \A d \in Cids : Walked(d)
    BY <1>4 DEF StartupRecover, Walked
  <2>2. CASE UNCHANGED rec
    BY <1>1, <2>1, <2>2, SureStays
  <2>3. CASE save(c, Unowned(rec[c]))
    <3>1. rec'[c] = Unowned(rec[c]) /\ \A d \in Cids \ {c} : rec'[d] = rec[d]
      BY <1>1, <2>3 DEF save
    <3>2. Sound(Unowned(rec[c]), b) /\ (Needs(Unowned(rec[c]), b) => c \in pin)
      BY <2>1, SureIdle, SoundShapes
    <3>3. Sound(rec'[c], b) /\ (Needs(rec'[c], b) => c \in pin)
      BY <3>1, <3>2
    <3> QED BY <1>1, <2>1, <3>1, <3>3, SureSaves
  <2> QED BY <2>1, <2>2, <2>3 DEF recoverAdmission
<1> QED BY <1>2, <1>3, <1>4 DEF Boot

\* A rejected write: the catch block leaves the pin with a record that needs it, before
\* and after it wrote that record back.
LEMMA SureSaveFails ==
  ASSUME ConfigAssumption, Tolerable, IInv, AllSure, Recoverable,
         NEW c \in Cids, NEW persisted \in BOOLEAN, SaveFails(c, persisted)
  PROVE  AllSure'
<1> DEFINE b == backfill[c]
<1>1. /\ SureOK(c) /\ JobOK(c) /\ job \in [Cids -> Job] /\ rec \in [Cids -> Record]
      /\ faults \in 0..MaxFaults /\ todo \in [Requests -> SUBSET Cids] /\ MaxFaults \in Nat
  BY DEF AllSure, IInv, TypeOK, CidOK, ConfigAssumption
<1>2. job[c].kind \in {"confirm", "store", "stage", "demote", "gcRelease", "admit"}
  <2>1. MaxFaults # 0 /\ job[c].kind \in FaultyWrites
    BY <1>1 DEF SaveFails
  <2>2. job[c].kind \notin Unrestored /\ job[c].kind # "guard"
    BY <1>1, <2>1 DEF Tolerable, SureOK, Secured
  <2>3. job[c].kind \in Kinds
    BY <1>1 DEF Job
  <2> QED BY <2>1, <2>2, <2>3 DEF Unrestored, Kinds, ConfigAssumption
<1>3. /\ UNCHANGED <<pc, files, baseline, created, backfill, todo>>
      /\ rec'[c] \in {rec[c], job[c].next}
      /\ \A d \in Cids \ {c} : rec'[d] = rec[d] /\ job'[d] = job[d]
  <2>1. \A r \in Requests : todo'[r] = todo[r]
    BY <1>1, <1>2 DEF SaveFails
  <2>2. UNCHANGED todo
    BY <1>1, <1>2, <2>1 DEF SaveFails
  <2> QED BY <1>1, <2>2 DEF SaveFails, save, bootVars
<1>4. \A d \in Cids \ {c} : d \in pin' <=> d \in pin
  BY DEF SaveFails, undoPin, pinFile, unpinFile
<1>5. \A q \in Requests : Undoable(q)' = Undoable(q)
  BY <1>3 DEF Undoable
<1>6. ASSUME NEW d \in Cids \ {c} PROVE SureOK(d)'
  <2>1. SureOK(d) /\ Walked(d) /\ \A q \in Requests : CreatedLess(q, d)
    BY <1>3, <1>5 DEF AllSure, Walked, CreatedLess
  <2> QED BY <1>3, <1>4, <2>1, SureKept
<1>7. CASE job[c].kind \in {"demote", "gcRelease"}
  <2>1. /\ ~job[c].undoSave /\ rec[c].state # "absent" /\ job[c].undoPin # "unpin"
        /\ rec[c].held => job[c].undoPin = "pin"
        /\ Needs(job[c].next, b) => c \in pin
    BY <1>1, <1>7 DEF SureOK, Secured, OwnKinds
  <2>2. job'[c] = NoJob
    BY <1>1, <1>7, <2>1 DEF SaveFails
  <2>3. job[c].undoPin = "pin" => c \in pin'
    BY <1>7 DEF Recoverable, SaveFails, undoPin, pinFile
  <2>4. c \in pin => c \in pin'
    BY <2>1, <2>3 DEF SaveFails, undoPin
  <2>5. Needs(rec'[c], b) => c \in pin'
    BY <1>3, <2>1, <2>3, <2>4 DEF Needs, Unknown
  <2>6. Secured(c)'
    BY <1>3, <2>2, <2>5 DEF Secured, NoJob, OwnKinds
  <2>7. /\ Sound(rec'[c], b) /\ Sound(job'[c].next, b) /\ Sound(job'[c].prev, b)
    BY <1>1, <1>3, <2>2, AbsentSound DEF SureOK
  <2>8. \A q \in Requests : CreatedOK(q, c)'
    BY <1>1, <1>3, <1>5, <1>7, <2>2, AbsentSound DEF SureOK, CreatedOK
  <2>9. SureOK(c)'
    BY <1>1, <1>3, <2>6, <2>7, <2>8 DEF SureOK
  <2> QED BY <1>6, <2>9 DEF AllSure
<1>8. CASE job[c].kind \in {"confirm", "store", "stage"}
  <2>1. /\ job[c].undoSave /\ c \in pin
        /\ job[c].undoPin = "unpin" => ~Needs(job[c].prev, b)
    BY <1>1, <1>8 DEF SureOK, Secured
  <2>2. /\ job'[c].kind = "baseline" /\ job'[c].next = job[c].prev /\ job'[c].prev = job[c].prev
    BY <1>1, <1>8, <2>1 DEF SaveFails, Job
  <2>3. job[c].undoPin = "unpin" \/ c \in pin'
    BY <1>1, <2>1 DEF SaveFails, undoPin, pinFile, Job
  <2>4. Secured(c)'
    BY <1>3, <2>1, <2>2, <2>3 DEF Secured, OwnKinds
  <2>5. /\ Sound(rec'[c], b) /\ Sound(job'[c].next, b) /\ Sound(job'[c].prev, b)
    BY <1>1, <1>3, <2>2 DEF SureOK
  <2>6. \A q \in Requests : CreatedOK(q, c)'
    BY <1>1, <1>3, <1>5, <1>8, <2>2 DEF SureOK, CreatedOK
  <2>7. SureOK(c)'
    BY <1>1, <1>3, <2>4, <2>5, <2>6 DEF SureOK
  <2> QED BY <1>6, <2>7 DEF AllSure
<1>9. CASE job[c].kind = "admit"
  <2>1. c \in pin /\ (job[c].undoPin = "unpin" => ~Needs(job[c].prev, b))
    BY <1>1, <1>9 DEF SureOK, Secured, JobOK
  <2>2. /\ job'[c].kind = "refused" /\ job'[c].next = job[c].next /\ job'[c].prev = job[c].prev
        /\ job'[c].by = job[c].by
    BY <1>1, <1>9 DEF SaveFails, Job
  <2>3. job[c].undoPin = "unpin" \/ c \in pin'
    BY <1>1, <2>1 DEF SaveFails, undoPin, pinFile, Job
  <2>4. Secured(c)'
    BY <1>3, <2>1, <2>2, <2>3 DEF Secured, OwnKinds
  <2>5. /\ Sound(rec'[c], b) /\ Sound(job'[c].next, b) /\ Sound(job'[c].prev, b)
    BY <1>1, <1>3, <2>2 DEF SureOK
  <2>6. \A q \in Requests : CreatedOK(q, c)'
    BY <1>1, <1>3, <1>5, <1>9, <2>2 DEF SureOK, CreatedOK
  <2>7. SureOK(c)'
    BY <1>1, <1>3, <2>4, <2>5, <2>6 DEF SureOK
  <2> QED BY <1>6, <2>7 DEF AllSure
<1> QED BY <1>2, <1>7, <1>8, <1>9

LEMMA SureInductive ==
  ASSUME ConfigAssumption, Tolerable, IInv, SureInv, [Next]_vars
  PROVE  SureInv'
<1>1. Waited /\ AllSure /\ (MaxFaults # 0 => BlocksInv /\ Recoverable)
  BY DEF SureInv, AllSure
<1>2. Waited'
  BY <1>1, WaitedKept
<1>3. ASSUME MaxFaults # 0 PROVE BlocksInv' /\ Recoverable'
  <2>1. "disconnect" \notin Calls /\ BlocksInv /\ Recoverable
    BY <1>1, <1>3 DEF Tolerable
  <2>2. BlocksInv'
    BY <2>1, BlocksInductive
  <2>3. CASE Next
    BY <2>1, <2>2, <2>3, RecoverableKept
  <2>4. CASE UNCHANGED vars
    BY <2>1, <2>2, <2>4 DEF vars, storeVars, Recoverable
  <2> QED BY <2>3, <2>4, <2>2
<1>4. AllSure'
  <2>1. CASE GcStart \/ GcPass \/ UNCHANGED vars
    <3>1. UNCHANGED <<rec, pin, job, pc, files, todo, baseline, created, backfill>>
      BY <2>1 DEF GcStart, GcPass, GcDemoteStart, GcPlan, GcReleaseStart, GcKeepBlocks,
         GcAskLease, GcLease, GcCleanupStart, GcEnd, gcKeep, storeVars, uploadVars, bootVars, vars
    <3>2. \A d \in Cids : Walked(d)
      BY <3>1 DEF Walked
    <3> QED BY <1>1, <3>1, <3>2, SureStays
  <2>2. ASSUME NEW r \in Requests, Upload(r) PROVE AllSure'
    BY <1>1, <2>2, SureRequest, SurePins, SureRegisters, SureUndoes, SureFileKept DEF Upload
  <2>3. ASSUME NEW c \in Cids,
               WriteRecord(c) \/ ClientCall(c) \/ GcLoop(c) \/ Repair(c) \/ Boot(c)
        PROVE  AllSure'
    BY <1>1, <2>3, SureWriteRecord, SureClient, SureCollects, SureRepairs, SureBoots
  <2>4. ASSUME NEW c \in Cids, NEW persisted \in BOOLEAN, SaveFails(c, persisted)
        PROVE  AllSure'
    <3>1. MaxFaults # 0
      BY <2>4 DEF SaveFails, IInv, TypeOK, ConfigAssumption
    <3> QED BY <1>1, <2>4, <3>1, SureSaveFails
  <2>5. ~CrashAndRestart
    BY DEF CrashAndRestart, Tolerable, IInv, TypeOK
  <2> QED BY <2>1, <2>2, <2>3, <2>4, <2>5 DEF Next
<1> QED BY <1>2, <1>3, <1>4 DEF SureInv, AllSure

LEMMA SureInitially == ConfigAssumption /\ Tolerable /\ Init => SureInv
<1> SUFFICES ASSUME ConfigAssumption, Tolerable, Init PROVE SureInv
  OBVIOUS
<1>1. /\ \A c \in Cids : /\ rec[c] = Absent /\ job[c] = NoJob
                         /\ backfill[c] # "none" => c \in pin
      /\ \A r \in Requests : pc[r] = "idle" /\ \A c \in Cids : baseline[r][c] = Absent
      /\ \A r \in Requests : created[r] = {}
      /\ recovery = {} /\ gcPc = "idle" /\ (Legacy = {} => \A c \in Cids : backfill[c] = "none")
  BY DEF Init
<1>2. Waited
  BY <1>1 DEF Waited, Reconciled
<1>3. BlocksInv /\ Recoverable
  BY <1>1, AbsentSound DEF Init, BlocksInv, PinnedIsStored, SessionOK, Recoverable
<1>4. ASSUME NEW c \in Cids PROVE SureOK(c)
  <2>1. Secured(c)
    BY <1>1 DEF Secured, NoJob, OwnKinds, Absent, Needs, Unknown
  <2>2. \A r \in Requests : CreatedOK(r, c)
    BY <1>1 DEF CreatedOK
  <2> QED BY <1>1, <2>1, <2>2, AbsentSound DEF SureOK
<1> QED BY <1>2, <1>3, <1>4 DEF SureInv

\* What the three stores of a node promise each other.
JInv == /\ Undisturbed => StoresInv
        /\ Tolerable => SureInv
        /\ "disconnect" \notin Calls => BlocksInv

\* The three stores of a node keep what they promise each other: no pin without its record
\* while no write fails and the node stays up; no record without its pin whenever nobody
\* holds the lock, also after rejected writes whose catch blocks put the pin back, and with
\* pins older than the registry if the collector waits for the startup walk; and no pin
\* without its blocks, crashes and rejected writes included, while clients stay connected.
THEOREM StoresAgreed == ConfigAssumption => (Spec => []StoresAgree)
<1> SUFFICES ASSUME ConfigAssumption PROVE Spec => []StoresAgree
  OBVIOUS
<1>1. Init => JInv
  <2>1. Init => BlocksInv
    BY DEF Init, BlocksInv, PinnedIsStored, SessionOK
  <2> QED BY <2>1, StoresInitially, SureInitially DEF JInv
<1>2. IInv /\ JInv /\ [Next]_vars => JInv'
  BY StoresInductive, SureInductive, BlocksInductive DEF JInv, Undisturbed, Tolerable
<1>3. JInv => StoresAgree
  <2>1. StoresInv => NoOrphanPin
    BY DEF StoresInv, StoreOK, Agree, NoOrphanPin, Unlocked
  <2>2. SureInv => Protected
    BY DEF SureInv, SureOK, Secured, Needs, Protected, Unlocked
  <2>3. BlocksInv => PinnedIsStored
    BY DEF BlocksInv
  <2> QED BY <2>1, <2>2, <2>3 DEF JInv, StoresAgree
<1>4. Spec => []IInv
  BY Invariance
<1> QED BY <1>1, <1>2, <1>3, <1>4, PTL DEF Spec

\* A commit of a strict upload acknowledges a copy that is protected here: the stage it
\* settles still has its pin, whatever joined, left, expired or was rejected in between.
THEOREM CommitsAcknowledgePinned ==
  ConfigAssumption /\ Tolerable => (Spec => CommitAcksPinned)
<1> SUFFICES ASSUME ConfigAssumption, Tolerable PROVE Spec => CommitAcksPinned
  OBVIOUS
<1>1. Init => SureInv
  BY SureInitially
<1>2. IInv /\ SureInv /\ [Next]_vars => SureInv'
  BY SureInductive
<1>3. SureInv => CommittedPinned
  BY DEF SureInv, SureOK, Secured, Needs, Sound, Consistent, CommittedPinned
<1>4. Spec => []IInv
  BY Invariance
<1> QED BY <1>1, <1>2, <1>3, <1>4, PTL DEF Spec, CommitAcksPinned

-----------------------------------------------------------------------------
(* An aborted transaction owns nothing *)

\* No record and no pending operation on c brings an aborted transaction back; the
\* operation that drops its stage is the only one to have read it.
GoneOK(c) ==
  \A t \in Txs : <<c, t>> \in aborted =>
    /\ job[c].kind # "none" => t \notin job[c].next.stage
    /\ job[c].kind \notin {"none", "abort"} => t \notin job[c].prev.stage
    /\ job[c].kind # "abort" => t \notin rec[c].stage

GoneInv == \A c \in Cids : GoneOK(c)

\* No upload has come here.
NoUploads == \A r \in Requests : pc[r] = "idle"

LEMMA GoneElsewhere ==
  ASSUME GoneInv, NEW c \in Cids, GoneOK(c)',
         \A d \in Cids \ {c} : /\ rec'[d] = rec[d] /\ job'[d] = job[d]
                               /\ \A t \in Txs : <<d, t>> \in aborted' => <<d, t>> \in aborted
  PROVE  GoneInv'
<1>1. ASSUME NEW d \in Cids \ {c} PROVE GoneOK(d)'
  BY DEF GoneInv, GoneOK
<1> QED BY <1>1 DEF GoneInv

\* Nothing is pending on c, and its stage is left, shrunk, or taken over.
LEMMA GoneIdle ==
  ASSUME GoneInv, NEW c \in Cids, job[c].kind = "none", UNCHANGED aborted,
         \/ rec'[c].stage \subseteq rec[c].stage /\ job'[c] = job[c]
         \/ /\ UNCHANGED rec /\ job'[c].prev = rec[c] /\ job'[c].kind # "none"
            /\ \A t \in job'[c].next.stage : t \in rec[c].stage \/ <<c, t>> \notin aborted
  PROVE  GoneOK(c)'
BY DEF GoneInv, GoneOK

\* The shapes that operations write hold no transaction but those of the record.
LEMMA StageShapes ==
  ASSUME NEW f \in Record
  PROVE  /\ Unowned(f).stage = f.stage
         /\ Confirmed(f).stage = {} /\ Released(f).stage = {} /\ Demoted(f).stage = {}
         /\ Rescued(f).stage = {} /\ expiredBaseline(f).stage = {} /\ Absent.stage = {}
         /\ [f EXCEPT !.pinned = TRUE].stage = f.stage
BY DEF Record, Unowned, Confirmed, Released, Demoted, Rescued, expiredBaseline, Plain, Unstaged,
       Absent

LEMMA GoneClient ==
  ASSUME ConfigAssumption, IInv, GoneInv, NEW c \in Cids, ClientCall(c)
  PROVE  GoneInv'
<1> USE DEF others
<1>1. job \in [Cids -> Job] /\ rec \in [Cids -> Record] /\ rec[c] \in Record
  BY DEF IInv, TypeOK
<1>2. /\ \A d \in Cids \ {c} : rec'[d] = rec[d] /\ job'[d] = job[d]
      /\ UNCHANGED <<rec, job>> \/ Unlocked(c)
  BY ClientTouches
<1>3. SUFFICES GoneOK(c)' /\ \A d \in Cids \ {c} : \A t \in Txs :
                               <<d, t>> \in aborted' => <<d, t>> \in aborted
  BY <1>2, GoneElsewhere
<1>4. CASE Confirm(c) \/ Release(c)
  <2>1. /\ job[c].kind = "none" /\ UNCHANGED <<rec, aborted>>
        /\ job'[c].kind # "none" /\ job'[c].prev = rec[c]
        /\ job'[c].next \in {Confirmed(rec[c]), Released(rec[c])}
    BY <1>1, <1>4 DEF Confirm, Release, Pending, Unlocked
  <2>2. Confirmed(rec[c]).stage = {} /\ Released(rec[c]).stage = {}
    BY <1>1, StageShapes
  <2> QED BY <2>1, <2>2, GoneIdle
<1>5. CASE Adopt(c) \/ Store(c)
  <2>1. /\ job[c].kind = "none" /\ UNCHANGED <<rec, aborted>>
        /\ registerPinnedUnderLock(c)
    BY <1>5 DEF Adopt, Store, Unlocked
  <2>2. CASE UNCHANGED job
    BY <2>1, <2>2, GoneIdle
  <2>3. CASE \/ Pending(c, "baseline", NoReq, rec[c], "keep", FALSE, TRUE)
             \/ Pending(c, "store", NoReq, registered(c, NoReq, FALSE), wasPinned(c), TRUE, TRUE)
    <3>1. /\ job'[c].kind # "none" /\ job'[c].prev = rec[c]
          /\ job'[c].next = rec[c] \/ job'[c].next = registered(c, NoReq, FALSE)
      <4>1. CASE Pending(c, "baseline", NoReq, rec[c], "keep", FALSE, TRUE)
        BY <1>1, <4>1 DEF Pending
      <4>2. CASE Pending(c, "store", NoReq, registered(c, NoReq, FALSE), wasPinned(c), TRUE, TRUE)
        BY <1>1, <4>2 DEF Pending
      <4> QED BY <2>3, <4>1, <4>2
    <3>2. registered(c, NoReq, FALSE).stage \subseteq rec[c].stage
      BY <1>1 DEF registered, Record
    <3>3. job'[c].next.stage \subseteq rec[c].stage
      BY <3>1, <3>2
    <3> QED BY <2>1, <3>1, <3>3, GoneIdle
  <2> QED BY <2>1, <2>2, <2>3 DEF registerPinnedUnderLock
<1>6. CASE SetReplicas(c)
  BY <1>6 DEF SetReplicas, storeVars, GoneInv, GoneOK
<1>7. ASSUME NEW t \in Txs, Stage(c, t)
      PROVE  GoneOK(c)' /\ UNCHANGED aborted
  <2>1. job[c].kind = "none" /\ UNCHANGED <<rec, aborted>> /\ <<c, t>> \notin aborted
    BY <1>7 DEF Stage, wasAborted, Unlocked
  <2>2. /\ job'[c].kind # "none" /\ job'[c].prev = rec[c]
        /\ \/ job'[c].next = [rec[c] EXCEPT !.state = "temporary", !.pinned = TRUE,
                                !.held = TRUE, !.stage = @ \cup {t}]
           \/ job'[c].next = [rec[c] EXCEPT !.state = "confirmed", !.pinned = TRUE, !.held = TRUE]
           \/ job'[c].next = [rec[c] EXCEPT !.state = "temporary", !.pinned = TRUE,
                                !.held = TRUE, !.stage = {t},
                                !.base = IF rec[c].state = "absent" THEN "none" ELSE "expired"]
    BY <1>1, <1>7 DEF Stage, staged, Pending
  <2>3. job'[c].next.stage \subseteq rec[c].stage \cup {t}
    BY <1>1, <2>2 DEF Record
  <2> QED BY <2>1, <2>2, <2>3, GoneIdle
<1>8. ASSUME NEW t \in Txs, Commit(c, t)
      PROVE  GoneOK(c)' /\ UNCHANGED aborted
  <2>1. job[c].kind = "none" /\ UNCHANGED <<job, aborted>> /\ rec'[c] = Confirmed(rec[c])
    BY <1>1, <1>8 DEF Commit, save, Unlocked
  <2>2. rec'[c].stage = {}
    BY <1>1, <2>1, StageShapes
  <2> QED BY <2>1, <2>2, GoneIdle
<1>9. ASSUME NEW t \in Txs, Abort(c, t)
      PROVE  GoneOK(c)' /\ \A d \in Cids \ {c} : \A u \in Txs :
                             <<d, u>> \in aborted' => <<d, u>> \in aborted
  <2>1. /\ job[c].kind = "none" /\ aborted' = aborted \cup {<<c, t>>}
        /\ \A u \in Txs : <<c, u>> \in aborted => u \notin rec[c].stage
    BY <1>9 DEF Abort, Unlocked, GoneInv, GoneOK
  <2>2. CASE t \notin rec[c].stage /\ UNCHANGED <<rec, job>>
    BY <2>1, <2>2 DEF GoneOK
  <2>3. CASE UNCHANGED job /\ save(c, [rec[c] EXCEPT !.stage = @ \ {t}])
    <3>1. rec'[c].stage = rec[c].stage \ {t}
      BY <1>1, <2>3 DEF save, Record
    <3> QED BY <2>1, <2>3, <3>1 DEF GoneOK
  <2>4. CASE Unstage(c, "abort", FALSE, TRUE) /\ UNCHANGED rec
    <3>1. job'[c].kind = "abort" /\ job'[c].next \in {Absent, expiredBaseline(rec[c])}
      BY <1>1, <2>4 DEF Unstage, Pending
    <3>2. Absent.stage = {} /\ expiredBaseline(rec[c]).stage = {}
      BY <1>1, StageShapes
    <3> QED BY <2>1, <3>1, <3>2 DEF GoneOK
  <2> QED BY <1>9, <2>1, <2>2, <2>3, <2>4 DEF Abort
<1>10. Confirm(c) \/ Release(c) \/ Adopt(c) \/ Store(c) \/ SetReplicas(c) => UNCHANGED aborted
  BY DEF Confirm, Release, Adopt, Store, SetReplicas
<1> QED BY <1>4, <1>5, <1>6, <1>7, <1>8, <1>9, <1>10 DEF ClientCall

\* The collector, the repair and the startup walk.
LEMMA GoneJobs ==
  ASSUME ConfigAssumption, IInv, GoneInv, NEW c \in Cids, GcLoop(c) \/ Repair(c) \/ Boot(c)
  PROVE  GoneInv'
<1>1. job \in [Cids -> Job] /\ rec \in [Cids -> Record] /\ rec[c] \in Record
  BY DEF IInv, TypeOK
<1>2. /\ \A d \in Cids \ {c} : rec'[d] = rec[d] /\ job'[d] = job[d]
  BY TouchesOwn
<1>3. UNCHANGED aborted
  BY DEF GcLoop, GcRecover, GcDemote, GcGuard, GcRelease, GcDelete, GcCleanup, gcKeep, Repair,
         RepairClaim, RepairClear, RepairEnd, Rescue, repairKeep, Boot, BackfillRead,
         BackfillCreate, StartupRecover, bootKeep
<1>4. CASE UNCHANGED <<rec, job>>
  BY <1>3, <1>4 DEF GoneInv, GoneOK
<1>5. CASE /\ job[c].kind = "none" /\ UNCHANGED job
           /\ save(c, Unowned(rec[c])) \/ save(c, Absent)
  <2>1. rec'[c] \in {Unowned(rec[c]), Absent}
    BY <1>1, <1>5 DEF save
  <2>2. rec'[c].stage \subseteq rec[c].stage
    BY <1>1, <2>1, StageShapes
  <2>3. job[c].kind = "none" /\ job'[c] = job[c]
    BY <1>5
  <2>4. GoneOK(c)'
    BY <1>3, <2>2, <2>3, GoneIdle
  <2> QED BY <1>2, <1>3, <2>4, GoneElsewhere
<1>6. ASSUME job[c].kind = "none", UNCHANGED rec,
             job'[c].prev = rec[c] /\ job'[c].kind # "none",
             job'[c].next \in {Demoted(rec[c]), Released(rec[c]), Rescued(rec[c]), Absent,
                               expiredBaseline(rec[c]), [rec[c] EXCEPT !.pinned = TRUE]}
      PROVE  GoneInv'
  <2>1. job'[c].next.stage \subseteq rec[c].stage
    BY <1>1, <1>6, StageShapes
  <2>2. GoneOK(c)'
    BY <1>3, <1>6, <2>1, GoneIdle
  <2> QED BY <1>2, <1>3, <2>2, GoneElsewhere
<1>7. CASE GcRecover(c) \/ GcDelete(c) \/ GcCleanup(c)
  BY <1>4, <1>5, <1>7 DEF GcRecover, recoverAdmission, GcDelete, GcCleanup, gcMay, Unlocked
<1>8. CASE GcDemote(c) \/ GcGuard(c)
  <2>1. Unlocked(c) /\ UNCHANGED rec
    BY <1>8 DEF GcDemote, GcGuard, gcMay
  <2> QED BY <1>1, <1>4, <1>6, <1>8, <2>1 DEF GcDemote, GcGuard, Pending, Unlocked
<1>9. CASE GcRelease(c)
  <2>1. Unlocked(c) /\ UNCHANGED rec
    BY <1>9 DEF GcRelease, gcMay
  <2> QED BY <1>1, <1>4, <1>6, <1>9, <2>1 DEF GcRelease, Unstage, Pending, Unlocked
<1>10. CASE Repair(c)
  <2>1. CASE RepairClaim(c) \/ RepairEnd(c)
    BY <1>4, <2>1 DEF RepairClaim, RepairEnd
  <2>2. CASE RepairClear(c)
    BY <1>5, <2>2 DEF RepairClear, Unlocked
  <2>3. CASE Rescue(c)
    BY <1>1, <1>6, <2>3 DEF Rescue, Pending, Unlocked
  <2> QED BY <1>10, <2>1, <2>2, <2>3 DEF Repair
<1>11. CASE Boot(c)
  <2>1. UNCHANGED job
    BY <1>11 DEF Boot, BackfillRead, BackfillCreate, StartupRecover, bootKeep
  <2>2. UNCHANGED rec \/ (job[c].kind = "none" /\ rec'[c].stage \subseteq rec[c].stage)
    <3>1. CASE BackfillRead(c)
      BY <3>1 DEF BackfillRead
    <3>2. CASE BackfillCreate(c)
      BY <1>1, <3>2 DEF BackfillCreate, save, Absent, Unlocked
    <3>3. CASE StartupRecover(c)
      BY <1>1, <3>3, StageShapes DEF StartupRecover, recoverAdmission, save, Unlocked
    <3> QED BY <1>11, <3>1, <3>2, <3>3 DEF Boot
  <2>3. UNCHANGED rec \/ GoneOK(c)'
    BY <1>3, <2>1, <2>2, GoneIdle
  <2> QED BY <1>2, <1>3, <1>4, <2>1, <2>3, GoneElsewhere
<1> QED BY <1>7, <1>8, <1>9, <1>10, <1>11 DEF GcLoop

\* A request that was admitted is never as if it had not been.
LEMMA UploadsBegin == ASSUME IInv, [Next]_vars, NoUploads' PROVE NoUploads
<1> SUFFICES ASSUME NEW r \in Requests, pc'[r] = "idle" PROVE pc[r] = "idle"
  BY DEF NoUploads
<1> USE DEF goto, at
<1>0. pc \in [Requests -> Pcs]
  BY DEF IInv, TypeOK
<1>1. ASSUME NEW q \in Requests, Upload(q), q # r PROVE pc'[r] = pc[r]
  BY <1>1, UploadTouches
<1>2. CASE Upload(r)
  <2>1. CASE \/ ImportFiles(r) \/ DisconnectUpload(r) \/ ClaimUpload(r) \/ CleanUpSession(r)
             \/ DeleteCreatedBlock(r) \/ CommitSession(r) \/ PlaceReplicas(r)
             \/ RollbackAdmitted(r) \/ FinalizeAdmitted(r) \/ FinalizeFails(r)
             \/ SettledUpload(r) \/ CommitUpload(r) \/ EndUpload(r)
    BY <1>0, <2>1 DEF ImportFiles, DisconnectUpload, ClaimUpload, CleanUpSession,
       DeleteCreatedBlock, CommitSession, PlaceReplicas, RollbackAdmitted, FinalizeAdmitted,
       FinalizeFails, SettledUpload, CommitUpload, EndUpload, finish
  <2>2. ASSUME NEW d \in Cids,
               \/ MarkPinIntent(r, d) \/ PinUpload(r, d) \/ RegisterUpload(r, d)
               \/ ClearPinIntent(r, d) \/ RefuseUpload(r, d) \/ RestoreRefused(r, d)
               \/ UndoUpload(r, d) \/ RestoreUpload(r, d) \/ CheckCreatedBlock(r, d)
               \/ SettleUpload(r, d) \/ ClearSettledAdmission(r, d)
        PROVE  pc[r] = "idle"
    BY <1>0, <2>2 DEF MarkPinIntent, PinUpload, RegisterUpload, ClearPinIntent, RefuseUpload,
       RestoreRefused, UndoUpload, RestoreUpload, CheckCreatedBlock, SettleUpload,
       ClearSettledAdmission, uploadVars
  <2> QED BY <1>2, <2>1, <2>2 DEF Upload
<1>3. ASSUME NEW c \in Cids,
             WriteRecord(c) \/ ClientCall(c) \/ GcLoop(c) \/ Repair(c) \/ Boot(c)
      PROVE  UNCHANGED pc
  BY <1>3, TouchesOwn
<1>4. ASSUME NEW c \in Cids, NEW persisted \in BOOLEAN, SaveFails(c, persisted)
      PROVE  UNCHANGED pc
  BY <1>4 DEF SaveFails
<1>5. CASE GcStart \/ GcPass \/ UNCHANGED vars
  BY <1>5 DEF GcStart, GcPass, GcDemoteStart, GcPlan, GcReleaseStart, GcKeepBlocks,
     GcAskLease, GcLease, GcCleanupStart, GcEnd, gcKeep, uploadVars, vars
<1>6. CASE CrashAndRestart
  BY <1>6 DEF CrashAndRestart
<1> QED BY <1>1, <1>2, <1>3, <1>4, <1>5, <1>6 DEF Next

LEMMA GoneInductive ==
  ASSUME ConfigAssumption, "abort" \notin FaultyWrites, IInv, NoUploads, GoneInv, [Next]_vars,
         NoUploads'
  PROVE  GoneInv'
<1>1. job \in [Cids -> Job] /\ rec \in [Cids -> Record]
  BY DEF IInv, TypeOK
<1>2. ASSUME NEW c \in Cids, WriteRecord(c) PROVE GoneInv'
  <2>1. /\ job[c].kind # "none" /\ rec'[c] = job[c].next /\ job'[c].kind = "none"
        /\ UNCHANGED aborted
        /\ \A d \in Cids \ {c} : rec'[d] = rec[d] /\ job'[d] = job[d]
    BY <1>1, <1>2 DEF WriteRecord, OwnKinds, NoJob
  <2>2. GoneOK(c)'
    BY <2>1 DEF GoneInv, GoneOK
  <2> QED BY <2>1, <2>2, GoneElsewhere
<1>3. ASSUME NEW c \in Cids, NEW persisted \in BOOLEAN, SaveFails(c, persisted) PROVE GoneInv'
  <2>1. job[c].kind \notin {"none", "abort"} /\ UNCHANGED aborted
    BY <1>3 DEF SaveFails, ConfigAssumption
  <2>2. /\ \A d \in Cids \ {c} : rec'[d] = rec[d] /\ job'[d] = job[d]
        /\ rec'[c] \in {rec[c], job[c].next}
    BY <1>1, <1>3 DEF SaveFails, save
  <2>3. \/ job'[c].kind = "none"
        \/ /\ job'[c].kind \in {"refused", "baseline"} /\ job'[c].prev = job[c].prev
           /\ job'[c].next \in {job[c].next, job[c].prev}
    BY <1>1, <1>3 DEF SaveFails, NoJob, Job
  <2>4. GoneOK(c)'
    BY <2>1, <2>2, <2>3 DEF GoneInv, GoneOK
  <2> QED BY <2>1, <2>2, <2>4, GoneElsewhere
<1>4. CASE GcStart \/ GcPass \/ UNCHANGED vars
  <2>1. UNCHANGED <<rec, job, aborted>>
    BY <1>4 DEF GcStart, GcPass, GcDemoteStart, GcPlan, GcReleaseStart, GcKeepBlocks,
       GcAskLease, GcLease, GcCleanupStart, GcEnd, gcKeep, storeVars, vars
  <2> QED BY <2>1 DEF GoneInv, GoneOK
<1>5. CASE CrashAndRestart
  BY <1>5 DEF CrashAndRestart, GoneInv, GoneOK
<1>6. ASSUME NEW r \in Requests, Upload(r) PROVE GoneInv'
  <2>1. pc[r] = "idle" /\ pc \in [Requests -> Pcs] /\ \A c \in Cids : JobOK(c)
    BY DEF NoUploads, IInv, TypeOK, CidOK
  <2>2. CASE DeleteCreatedBlock(r)
    BY <2>2 DEF DeleteCreatedBlock, GoneInv, GoneOK
  <2>3. ~ImportFiles(r)
    BY <2>1 DEF ImportFiles, goto, NoUploads
  <2>4. ~(\/ DisconnectUpload(r) \/ ClaimUpload(r) \/ CleanUpSession(r) \/ CommitSession(r)
          \/ PlaceReplicas(r) \/ RollbackAdmitted(r) \/ FinalizeAdmitted(r)
          \/ FinalizeFails(r) \/ SettledUpload(r) \/ CommitUpload(r) \/ EndUpload(r))
    BY <2>1 DEF DisconnectUpload, ClaimUpload, CleanUpSession, CommitSession, PlaceReplicas,
       RollbackAdmitted, FinalizeAdmitted, FinalizeFails, SettledUpload, CommitUpload,
       EndUpload, at
  <2>5. ASSUME NEW d \in Cids,
               \/ MarkPinIntent(r, d) \/ PinUpload(r, d) \/ RegisterUpload(r, d)
               \/ ClearPinIntent(r, d) \/ RefuseUpload(r, d) \/ RestoreRefused(r, d)
               \/ UndoUpload(r, d) \/ RestoreUpload(r, d) \/ CheckCreatedBlock(r, d)
               \/ SettleUpload(r, d) \/ ClearSettledAdmission(r, d)
        PROVE  FALSE
    BY <2>1, <2>5 DEF MarkPinIntent, PinUpload, RegisterUpload, ClearPinIntent, RefuseUpload,
       RestoreRefused, UndoUpload, RestoreUpload, CheckCreatedBlock, SettleUpload,
       ClearSettledAdmission, at, JobOK, UploadKinds
  <2> QED BY <1>6, <2>2, <2>3, <2>4, <2>5 DEF Upload
<1> QED BY <1>2, <1>3, <1>4, <1>5, <1>6, GoneClient, GoneJobs DEF Next

\* A transaction this node was told to abort never owns a prepared copy again, whatever
\* joins, commits, expires, crashes or fails in between, until the node takes an upload of
\* its own, as long as the removal of the aborted copy itself is not rejected.
THEOREM AbortedTransactionsGone == ConfigAssumption => (Spec => []StagesStayAborted)
<1> SUFFICES ASSUME ConfigAssumption PROVE Spec => []StagesStayAborted
  OBVIOUS
<1> DEFINE Gone == "abort" \notin FaultyWrites /\ NoUploads => GoneInv
<1>1. Init => Gone
  BY DEF Init, GoneInv, GoneOK
<1>2. IInv /\ Gone /\ [Next]_vars => Gone'
  <2> SUFFICES ASSUME IInv, Gone, [Next]_vars, "abort" \notin FaultyWrites, NoUploads'
               PROVE  GoneInv'
    OBVIOUS
  <2> QED BY UploadsBegin, GoneInductive
<1>3. Gone => StagesStayAborted
  BY DEF GoneInv, GoneOK, StagesStayAborted, NoUploads, Unlocked
<1>4. Spec => []IInv
  BY Invariance
<1> QED BY <1>1, <1>2, <1>3, <1>4, PTL DEF Spec

-----------------------------------------------------------------------------
(* Confirmed by decision *)

\* A pending operation has read the record as it still is.  Unless somebody decided it,
\* neither what it writes nor what a rollback restores is confirmed when the record is
\* not; and no operation that leaves a file to its request makes it less than confirmed.
StateOK(c) ==
  LET j == job[c] IN
  /\ j.kind # "none" =>
       /\ j.prev = rec[c]
       /\ j.next.state = "confirmed" =>
            \/ rec[c].state = "confirmed"
            \/ j.kind \in {"confirm", "store", "baseline"}
            \/ j.kind = "admit" /\ ~ConfirmationRequired
       /\ rec[c].state = "confirmed" /\ j.kind # "undo" /\ j.next.adm # NoReq =>
            j.next.state = "confirmed"
  /\ \A r \in Requests :
       c \in Undoable(r) /\ rec[c].adm = r /\ baseline[r][c].state = "confirmed" =>
         rec[c].state = "confirmed"

StateInv == \A c \in Cids : StateOK(c)

\* A step that leaves a content alone.
LEMMA StateKept ==
  ASSUME NEW d \in Cids, StateOK(d), rec'[d] = rec[d], job'[d] = job[d],
         \A r \in Requests : d \in Undoable(r)' =>
           d \in Undoable(r) /\ baseline'[r][d] = baseline[r][d]
  PROVE  StateOK(d)'
BY DEF StateOK

\* The first half of an operation that no handler runs.
LEMMA StateBegins ==
  ASSUME IInv, StateInv, NEW c \in Cids, Unlocked(c),
         UNCHANGED <<rec, pc, files, todo, baseline>>,
         \A d \in Cids \ {c} : job'[d] = job[d],
         job'[c].prev = rec[c],
         job'[c].next.state = "confirmed" =>
           rec[c].state = "confirmed" \/ job'[c].kind \in {"confirm", "store", "baseline"},
         rec[c].state = "confirmed" /\ job'[c].next.adm # NoReq =>
           job'[c].next.state = "confirmed"
  PROVE  StateInv' /\ ConfirmedDecided
<1>1. \A r \in Requests : Undoable(r)' = Undoable(r)
  BY DEF Undoable
<1>2. ASSUME NEW d \in Cids \ {c} PROVE StateOK(d)'
  BY <1>1, StateKept DEF StateInv
<1>3. StateOK(c)'
  BY <1>1 DEF StateInv, StateOK
<1>4. ConfirmedDecided
  BY DEF ConfirmedDecided
<1> QED BY <1>2, <1>3, <1>4 DEF StateInv

\* A registry write that decides nothing, or no write at all.
LEMMA StateWrites ==
  ASSUME ConfigAssumption, IInv, StateInv, NEW c \in Cids, UNCHANGED <<job, baseline>>,
         \A r \in Requests : Undoable(r)' \subseteq Undoable(r),
         \A d \in Cids \ {c} : rec'[d] = rec[d],
         job[c].kind = "none" \/ rec'[c] = rec[c],
         rec'[c].state = "confirmed" => rec[c].state = "confirmed" \/ rec[c].stage # {},
         rec'[c].adm \in {rec[c].adm, NoReq},
         rec[c].state = "confirmed" /\ rec'[c].adm # NoReq => rec'[c].state = "confirmed"
  PROVE  StateInv' /\ ConfirmedDecided
<1>1. ASSUME NEW d \in Cids \ {c} PROVE StateOK(d)'
  BY StateKept DEF StateInv
<1>2. StateOK(c)'
  <2>1. StateOK(c) /\ NoReq \notin Requests
    BY DEF StateInv, ConfigAssumption
  <2>2. CASE rec'[c] = rec[c]
    BY <2>1, <2>2 DEF StateOK
  <2>3. CASE job[c].kind = "none"
    BY <2>1, <2>3 DEF StateOK
  <2> QED BY <2>2, <2>3
<1>3. ConfirmedDecided
  BY DEF ConfirmedDecided
<1> QED BY <1>1, <1>2, <1>3 DEF StateInv

\* Steps of a handler on one file.
LEMMA StateFile ==
  ASSUME StateInv, NEW c \in Cids, StateOK(c)',
         \A d \in Cids : d # c => rec'[d] = rec[d] /\ job'[d] = job[d],
         \A q \in Requests : \A d \in Cids :
            d # c /\ d \in Undoable(q)' =>
              d \in Undoable(q) /\ baseline'[q][d] = baseline[q][d],
         rec'[c].state = "confirmed" =>
           rec[c].state = "confirmed" \/ (job[c].kind = "admit" /\ ~ConfirmationRequired)
  PROVE  StateInv' /\ ConfirmedDecided
<1>1. ASSUME NEW d \in Cids, d # c PROVE StateOK(d)'
  BY <1>1, StateKept DEF StateInv
<1>2. ConfirmedDecided
  BY DEF ConfirmedDecided
<1> QED BY <1>1, <1>2 DEF StateInv

LEMMA StateRequest ==
  ASSUME ConfigAssumption, MaxFaults = 0, IInv, StateInv, NEW r \in Requests,
         \/ ImportFiles(r) \/ DisconnectUpload(r) \/ ClaimUpload(r)
         \/ CleanUpSession(r) \/ DeleteCreatedBlock(r) \/ CommitSession(r)
         \/ PlaceReplicas(r) \/ RollbackAdmitted(r) \/ FinalizeAdmitted(r)
         \/ FinalizeFails(r) \/ SettledUpload(r) \/ CommitUpload(r) \/ EndUpload(r)
  PROVE  StateInv' /\ ConfirmedDecided
<1>1. /\ UNCHANGED <<rec, job>>
      /\ \A q \in Requests \ {r} : Undoable(q)' = Undoable(q) /\ baseline'[q] = baseline[q]
      /\ \/ UNCHANGED baseline /\ Undoable(r)' \subseteq Undoable(r)
         \/ Undoable(r)' = {}
  BY RequestUndoable
<1>2. ASSUME NEW d \in Cids PROVE StateOK(d)'
  <2>1. \A q \in Requests : d \in Undoable(q)' =>
          d \in Undoable(q) /\ baseline'[q][d] = baseline[q][d]
    BY <1>1
  <2> QED BY <1>1, <2>1, StateKept DEF StateInv
<1> QED BY <1>1, <1>2 DEF StateInv, ConfirmedDecided

LEMMA StatePins ==
  ASSUME ConfigAssumption, IInv, StateInv, NEW r \in Requests, NEW c \in Cids,
         MarkPinIntent(r, c) \/ PinUpload(r, c) \/ RefuseUpload(r, c)
  PROVE  StateInv' /\ ConfirmedDecided
<1>1. /\ UNCHANGED <<rec, baseline>>
      /\ \A q \in Requests : Undoable(q)' = Undoable(q)
      /\ StateOK(c) /\ job \in [Cids -> Job] /\ r # NoReq
  BY DEF MarkPinIntent, PinUpload, RefuseUpload, uploadVars, Undoable, StateInv, IInv, TypeOK,
         ConfigAssumption
<1>2. \A d \in Cids : d # c => rec'[d] = rec[d] /\ job'[d] = job[d]
  BY <1>1 DEF MarkPinIntent, PinUpload, RefuseUpload, Pending
<1>3. StateOK(c)'
  <2>1. CASE MarkPinIntent(r, c)
    <3>1. job'[c].kind = "intent" /\ job'[c].prev = rec[c] /\ job'[c].next = rec[c]
      BY <1>1, <2>1 DEF MarkPinIntent, Pending
    <3> QED BY <1>1, <3>1 DEF StateOK
  <2>2. CASE PinUpload(r, c)
    <3>1. /\ job'[c].prev = rec[c]
          /\ \/ job'[c].kind = "busy" /\ job'[c].next = rec[c]
             \/ job'[c].kind = "admit" /\ job'[c].next = registered(c, r, ConfirmationRequired)
      BY <1>1, <2>2 DEF PinUpload, Pending
    <3>2. registered(c, r, ConfirmationRequired).state = "confirmed" <=>
            rec[c].state = "confirmed" \/ ~ConfirmationRequired
      BY <1>1 DEF registered, ConfigAssumption
    <3> QED BY <1>1, <3>1, <3>2 DEF StateOK
  <2>3. CASE RefuseUpload(r, c)
    <3>1. /\ job[c].kind = "busy" /\ job'[c].kind = "refused"
          /\ job'[c].prev = job[c].prev /\ job'[c].next = job[c].next
      BY <1>1, <2>3 DEF RefuseUpload, Job
    <3> QED BY <1>1, <3>1 DEF StateOK
  <2> QED BY <2>1, <2>2, <2>3
<1>4. \A q \in Requests : \A d \in Cids :
        d # c /\ d \in Undoable(q)' =>
          d \in Undoable(q) /\ baseline'[q][d] = baseline[q][d]
  BY <1>1
<1>5. rec'[c].state = "confirmed" =>
        rec[c].state = "confirmed" \/ (job[c].kind = "admit" /\ ~ConfirmationRequired)
  BY <1>1
<1> QED BY <1>2, <1>3, <1>4, <1>5, StateFile

\* What a handler has still to restore is its own.
LEMMA UndoableOwned ==
  ASSUME ConfigAssumption, IInv, NEW q \in Requests, NEW c \in Undoable(q)
  PROVE  rec[c].adm = q \/ (pc[q] \in LockedPcs /\ c \in files[q])
<1>1. CASE pc[q] \in {"admitting", "placing", "rollback", "finalizing"}
  BY <1>1 DEF Undoable, Registered, IInv, Owned, Owns
<1>2. CASE pc[q] \in {"restoring", "undoing"}
  BY <1>2 DEF Undoable, LockedPcs, IInv, LocksOK
<1> QED BY <1>1, <1>2 DEF Undoable

LEMMA StateRegisters ==
  ASSUME ConfigAssumption, IInv, StateInv, NEW r \in Requests, NEW c \in Cids,
         \/ RegisterUpload(r, c) \/ RestoreRefused(r, c)
         \/ UndoUpload(r, c) \/ RestoreUpload(r, c)
  PROVE  StateInv' /\ ConfirmedDecided
<1>1. /\ StateOK(c) /\ JobOK(c) /\ LocksOK /\ RestoringOwned /\ NoReq \notin Requests
      /\ job \in [Cids -> Job] /\ rec \in [Cids -> Record]
      /\ baseline \in [Requests -> [Cids -> Record]] /\ todo \in [Requests -> SUBSET Cids]
      /\ pc \in [Requests -> Pcs] /\ files \in [Requests -> SUBSET Cids]
  BY DEF StateInv, IInv, CidOK, TypeOK, ConfigAssumption
<1>2. CASE RegisterUpload(r, c)
  <2>1. /\ UNCHANGED <<pc, files>> /\ pc[r] = "admitting"
        /\ job[c].kind = "admit" /\ job[c].by = r /\ job'[c] = NoJob /\ rec'[c] = job[c].next
        /\ baseline'[r][c] = job[c].prev
        /\ \A d \in Cids : d # c => rec'[d] = rec[d] /\ job'[d] = job[d]
        /\ \A q \in Requests : \A d \in Cids : d # c \/ q # r => baseline'[q][d] = baseline[q][d]
        /\ \A q \in Requests : todo'[q] = IF q = r THEN todo[q] \ {c} ELSE todo[q]
    BY <1>1, <1>2 DEF RegisterUpload, save, at
  <2>2. \A q \in Requests : Undoable(q)' \subseteq Undoable(q) \cup (IF q = r THEN {c} ELSE {})
    BY <2>1 DEF Undoable
  <2>3. job[c].next.adm = r /\ job[c].prev = rec[c]
    BY <1>1, <2>1 DEF JobOK, StateOK
  <2>4. rec[c].state = "confirmed" => rec'[c].state = "confirmed"
    BY <1>1, <2>1, <2>3 DEF StateOK
  <2>5. rec'[c].state = "confirmed" => rec[c].state = "confirmed" \/ ~ConfirmationRequired
    BY <1>1, <2>1 DEF StateOK
  <2>6. StateOK(c)'
    BY <2>1, <2>3, <2>4 DEF StateOK, NoJob
  <2>9. \A q \in Requests : \A d \in Cids :
          d # c /\ d \in Undoable(q)' =>
            d \in Undoable(q) /\ baseline'[q][d] = baseline[q][d]
    BY <2>1, <2>2
  <2> QED BY <2>1, <2>2, <2>5, <2>6, <2>9, StateFile
<1>3. CASE RestoreRefused(r, c)
  <2>1. /\ UNCHANGED <<files, baseline>> /\ pc[r] = "admitting"
        /\ job[c].kind = "refused" /\ job'[c] = NoJob /\ rec'[c] = job[c].prev
        /\ \A d \in Cids : d # c => rec'[d] = rec[d] /\ job'[d] = job[d]
        /\ \A q \in Requests : pc'[q] = IF q = r THEN "restoring" ELSE pc[q]
        /\ \A q \in Requests : todo'[q] = IF q = r THEN files[r] \ todo[r] ELSE todo[q]
    BY <1>1, <1>3 DEF RestoreRefused, save, at, goto
  <2>2. \A q \in Requests : Undoable(q)' = Undoable(q)
    BY <2>1 DEF Undoable
  <2>3. rec'[c] = rec[c]
    BY <1>1, <2>1 DEF StateOK
  <2>4. StateOK(c)'
    BY <1>1, <2>1, <2>2, <2>3 DEF StateOK, NoJob
  <2>9. \A q \in Requests : \A d \in Cids :
          d # c /\ d \in Undoable(q)' =>
            d \in Undoable(q) /\ baseline'[q][d] = baseline[q][d]
    BY <2>1, <2>2
  <2> QED BY <2>1, <2>2, <2>3, <2>4, <2>9, StateFile
<1>4. CASE UndoUpload(r, c) /\ UNCHANGED job /\ todo' = [todo EXCEPT ![r] = @ \ {c}]
  <2>1. /\ UNCHANGED <<rec, pc, files, baseline>> /\ pc[r] \in {"restoring", "undoing"}
        /\ \A q \in Requests : todo'[q] \subseteq todo[q] /\ (q # r => todo'[q] = todo[q])
    BY <1>1, <1>4 DEF UndoUpload
  <2>2. \A q \in Requests : Undoable(q)' \subseteq Undoable(q)
    BY <2>1 DEF Undoable
  <2>3. StateOK(c)'
    BY <1>1, <1>4, <2>1, <2>2, StateKept
  <2>9. \A q \in Requests : \A d \in Cids :
          d # c /\ d \in Undoable(q)' =>
            d \in Undoable(q) /\ baseline'[q][d] = baseline[q][d]
    BY <2>1, <2>2
  <2> QED BY <1>4, <2>1, <2>2, <2>3, <2>9, StateFile
<1>5. CASE /\ UndoUpload(r, c) /\ UNCHANGED todo
           /\ pc[r] = "restoring" \/ rec[c].adm = r
           /\ Pending(c, "undo", r, baseline[r][c], "keep", FALSE, FALSE)
  <2>1. /\ UNCHANGED <<rec, baseline>> /\ c \in Undoable(r) /\ rec[c].adm = r
        /\ \A q \in Requests : Undoable(q)' = Undoable(q)
    BY <1>1, <1>5 DEF UndoUpload, LocksOK, Undoable, RestoringOwned
  <2>2. /\ job'[c].kind = "undo" /\ job'[c].next = baseline[r][c] /\ job'[c].prev = rec[c]
        /\ \A d \in Cids : d # c => rec'[d] = rec[d] /\ job'[d] = job[d]
    BY <1>1, <2>1, <1>5 DEF Pending
  <2>3. StateOK(c)'
    BY <1>1, <2>1, <2>2 DEF StateOK
  <2>9. \A q \in Requests : \A d \in Cids :
          d # c /\ d \in Undoable(q)' =>
            d \in Undoable(q) /\ baseline'[q][d] = baseline[q][d]
    BY <2>1
  <2> QED BY <2>1, <2>2, <2>3, StateFile, <2>9
<1>6. CASE RestoreUpload(r, c)
  <2>1. /\ UNCHANGED <<pc, files, baseline>> /\ job[c].kind = "undo" /\ job[c].by = r
        /\ job'[c] = NoJob /\ rec'[c] = job[c].next
        /\ \A d \in Cids : d # c => rec'[d] = rec[d] /\ job'[d] = job[d]
        /\ \A q \in Requests : todo'[q] = IF q = r THEN todo[q] \ {c} ELSE todo[q]
    BY <1>1, <1>6 DEF RestoreUpload, save
  <2>2. /\ pc[r] \in {"restoring", "undoing"} /\ c \in files[r] /\ rec[c].adm = r
    BY <1>1, <2>1 DEF JobOK, UploadKinds
  <2>3. \A q \in Requests : Undoable(q)' \subseteq Undoable(q)
    BY <1>1, <2>1, <2>2 DEF Undoable
  <2>4. ASSUME NEW q \in Requests PROVE c \notin Undoable(q)'
    <3>1. CASE q = r
      BY <2>1, <2>2, <3>1 DEF Undoable
    <3>2. CASE q # r
      <4>1. ~(pc[q] \in LockedPcs /\ c \in files[q])
        BY <1>1, <2>2, <3>2 DEF LocksOK, LockedPcs
      <4> QED BY <2>2, <2>3, <3>2, <4>1, UndoableOwned
    <3> QED BY <3>1, <3>2
  <2>5. StateOK(c)'
    BY <2>1, <2>4 DEF StateOK, NoJob
  <2>6. rec'[c].state = "confirmed" => rec[c].state = "confirmed"
    BY <1>1, <2>1 DEF StateOK
  <2>9. \A q \in Requests : \A d \in Cids :
          d # c /\ d \in Undoable(q)' =>
            d \in Undoable(q) /\ baseline'[q][d] = baseline[q][d]
    BY <2>1, <2>3
  <2> QED BY <2>1, <2>3, <2>5, <2>6, <2>9, StateFile
<1> QED BY <1>2, <1>3, <1>4, <1>5, <1>6 DEF UndoUpload, at

LEMMA StateFileKept ==
  ASSUME ConfigAssumption, IInv, StateInv, NEW r \in Requests, NEW c \in Cids,
         \/ ClearPinIntent(r, c) \/ CheckCreatedBlock(r, c)
         \/ SettleUpload(r, c) \/ ClearSettledAdmission(r, c)
  PROVE  StateInv' /\ ConfirmedDecided
<1>1. /\ UNCHANGED <<job, baseline>> /\ rec \in [Cids -> Record]
      /\ todo \in [Requests -> SUBSET Cids] /\ JobOK(c) /\ LocksOK /\ job \in [Cids -> Job]
  BY DEF IInv, TypeOK, CidOK, ClearPinIntent, CheckCreatedBlock, SettleUpload,
         ClearSettledAdmission, uploadVars, storeVars
<1>2. \A q \in Requests : Undoable(q)' \subseteq Undoable(q)
  <2>1. CASE ClearPinIntent(r, c)
    BY <2>1 DEF ClearPinIntent, uploadVars, Undoable
  <2>2. CASE CheckCreatedBlock(r, c) \/ SettleUpload(r, c) \/ ClearSettledAdmission(r, c)
    <3>1. /\ UNCHANGED <<pc, files>> /\ pc[r] \in {"aborting", "cleaning", "settling", "clearing"}
          /\ \A q \in Requests \ {r} : todo'[q] = todo[q]
      BY <1>1, <2>2 DEF CheckCreatedBlock, SettleUpload, ClearSettledAdmission, at
    <3> QED BY <3>1 DEF Undoable
  <2> QED BY <2>1, <2>2
<1>3. /\ \A d \in Cids \ {c} : rec'[d] = rec[d]
      /\ rec'[c] \in {rec[c], [rec[c] EXCEPT !.settled = TRUE], Unowned(rec[c])}
  BY <1>1 DEF ClearPinIntent, CheckCreatedBlock, SettleUpload, ClearSettledAdmission, storeVars,
              save
<1>4. rec'[c].state = rec[c].state /\ rec'[c].adm \in {rec[c].adm, NoReq}
  <2>1. rec[c] \in Record
    BY <1>1
  <2>2. /\ [rec[c] EXCEPT !.settled = TRUE].state = rec[c].state
        /\ [rec[c] EXCEPT !.settled = TRUE].adm = rec[c].adm
        /\ Unowned(rec[c]).state = rec[c].state /\ Unowned(rec[c]).adm = NoReq
    BY <2>1 DEF Record, Unowned
  <2> QED BY <1>3, <2>2
<1>5. job[c].kind = "none" \/ rec'[c] = rec[c]
  <2>1. CASE SettleUpload(r, c) \/ ClearSettledAdmission(r, c)
    <3>1. pc[r] \in {"settling", "clearing"} /\ c \in files[r]
      BY <1>1, <2>1 DEF SettleUpload, ClearSettledAdmission, at, LocksOK
    <3>2. job[c].kind \notin UploadKinds
      BY <1>1, <3>1 DEF JobOK, LocksOK, LockedPcs, UploadKinds
    <3>3. job[c].kind \notin OwnKinds
      BY <1>1, <3>1 DEF JobOK, HeldByUpload, LockedPcs
    <3> QED BY <1>1, <3>2, <3>3 DEF Job, Kinds, UploadKinds, OwnKinds
  <2>2. CASE ClearPinIntent(r, c) \/ CheckCreatedBlock(r, c)
    BY <2>2 DEF ClearPinIntent, CheckCreatedBlock, storeVars
  <2> QED BY <2>1, <2>2
<1> QED BY <1>1, <1>2, <1>3, <1>4, <1>5, StateWrites

LEMMA StateWriteRecord ==
  ASSUME ConfigAssumption, IInv, StateInv, NEW c \in Cids, WriteRecord(c)
  PROVE  StateInv' /\ ConfirmedDecided
<1>1. /\ StateOK(c) /\ JobOK(c) /\ NoReq \notin Requests
      /\ job \in [Cids -> Job] /\ rec \in [Cids -> Record]
  BY DEF StateInv, IInv, TypeOK, CidOK, ConfigAssumption
<1>2. /\ UNCHANGED <<pc, files, todo, baseline>> /\ job[c].kind \in OwnKinds
      /\ job'[c] = NoJob /\ rec'[c] = job[c].next
      /\ \A d \in Cids : d # c => rec'[d] = rec[d] /\ job'[d] = job[d]
  BY <1>1 DEF WriteRecord, uploadVars
<1>3. \A q \in Requests : Undoable(q)' = Undoable(q)
  BY <1>2 DEF Undoable
<1>4. StateOK(c)'
  <2>1. ASSUME NEW q \in Requests, c \in Undoable(q), rec'[c].adm = q,
               baseline[q][c].state = "confirmed"
        PROVE  rec'[c].state = "confirmed"
    <3>1. rec[c].adm = q
      BY <1>1, <1>2, <2>1, UndoableOwned DEF JobOK, HeldByUpload
    <3> QED BY <1>1, <1>2, <2>1, <3>1 DEF StateOK, OwnKinds
  <2> QED BY <1>2, <1>3, <2>1 DEF StateOK, NoJob
<1>5. ASSUME NEW d \in Cids, d # c PROVE StateOK(d)'
  BY <1>2, <1>3, <1>5, StateKept DEF StateInv
<1>6. ConfirmedDecided
  BY <1>1, <1>2 DEF ConfirmedDecided, StateOK, OwnKinds
<1> QED BY <1>4, <1>5, <1>6 DEF StateInv

\* What an unlocked content looks like.
LEMMA StateIdle ==
  ASSUME IInv, NEW c \in Cids, Unlocked(c)
  PROVE  /\ rec[c] \in Record /\ job \in [Cids -> Job] /\ rec \in [Cids -> Record]
         /\ RecordOK(rec[c]) /\ job[c].kind = "none"
BY DEF IInv, TypeOK, CidOK, RecordsOK, Unlocked

\* The forms a record is given by an operation that is not an upload.
LEMMA StateShapes ==
  ASSUME NEW f \in Record, RecordOK(f)
  PROVE  /\ Unowned(f).state = f.state /\ Unowned(f).adm = NoReq
         /\ Confirmed(f).state = "confirmed" /\ Confirmed(f).adm = NoReq
         /\ Released(f).state = "expired" /\ Released(f).adm = NoReq
         /\ Demoted(f).state = f.state /\ Demoted(f).adm = NoReq
         /\ Rescued(f).state = f.state /\ Rescued(f).adm = NoReq
         /\ expiredBaseline(f).state = "expired"
         /\ Absent.state = "absent"
         /\ f.stage # {} => f.state = "temporary"
BY DEF Record, RecordOK, Unowned, Confirmed, Released, Demoted, Rescued, expiredBaseline,
       Plain, Unstaged, Absent

LEMMA StateUnstages ==
  ASSUME IInv, StateInv, NEW c \in Cids, Unlocked(c), NEW kind \in OwnKinds,
         NEW keep \in BOOLEAN, NEW shared \in BOOLEAN, rec[c].stage # {},
         Unstage(c, kind, keep, shared), UNCHANGED <<rec, pc, files, todo, baseline>>
  PROVE  StateInv' /\ ConfirmedDecided
<1>1. /\ job'[c].prev = rec[c]
      /\ job'[c].next \in {Absent, expiredBaseline(rec[c])}
      /\ \A d \in Cids \ {c} : job'[d] = job[d]
  BY StateIdle DEF Unstage, Pending
<1>2. job'[c].next.state # "confirmed" /\ rec[c].state # "confirmed"
  BY <1>1, StateIdle, StateShapes
<1> QED BY <1>1, <1>2, StateBegins

LEMMA StateClient ==
  ASSUME ConfigAssumption, IInv, StoresInv, StateInv, NEW c \in Cids, ClientCall(c)
  PROVE  StateInv' /\ ConfirmedDecided
<1> USE DEF others, uploadVars
<1>1. CASE Confirm(c) \/ Release(c)
  <2>1. Unlocked(c) /\ UNCHANGED <<rec, pc, files, todo, baseline>>
    BY <1>1 DEF Confirm, Release
  <2>2. /\ \A d \in Cids \ {c} : job'[d] = job[d]
        /\ job'[c].prev = rec[c]
        /\ \/ job'[c].next = Confirmed(rec[c]) /\ job'[c].kind = "confirm"
           \/ job'[c].next = Released(rec[c])
    BY <1>1, <2>1, StateIdle DEF Confirm, Release, Pending
  <2>3. /\ Released(rec[c]).state = "expired" /\ Released(rec[c]).adm = NoReq
        /\ Confirmed(rec[c]).state = "confirmed"
    BY <2>1, StateIdle, StateShapes
  <2>4. /\ job'[c].next.state = "confirmed" =>
             rec[c].state = "confirmed" \/ job'[c].kind \in {"confirm", "store", "baseline"}
        /\ rec[c].state = "confirmed" /\ job'[c].next.adm # NoReq =>
             job'[c].next.state = "confirmed"
    BY <2>2, <2>3
  <2> QED BY <2>1, <2>2, <2>4, StateBegins
<1>2. CASE Adopt(c) \/ Store(c)
  <2>1. /\ Unlocked(c) /\ registerPinnedUnderLock(c)
        /\ UNCHANGED <<rec, pc, files, todo, baseline>>
    BY <1>2 DEF Adopt, Store
  <2>2. CASE Pending(c, "baseline", NoReq, rec[c], "keep", FALSE, TRUE)
    <3>1. /\ \A d \in Cids \ {c} : job'[d] = job[d]
          /\ job'[c].kind = "baseline" /\ job'[c].prev = rec[c] /\ job'[c].next = rec[c]
      BY <2>1, <2>2, StateIdle DEF Pending
    <3> QED BY <2>1, <3>1, StateBegins
  <2>3. CASE /\ rec[c].stage = {}
             /\ Pending(c, "store", NoReq, registered(c, NoReq, FALSE), wasPinned(c), TRUE, TRUE)
    <3>1. /\ \A d \in Cids \ {c} : job'[d] = job[d]
          /\ job'[c].kind = "store" /\ job'[c].prev = rec[c]
          /\ job'[c].next = registered(c, NoReq, FALSE)
      BY <2>1, <2>3, StateIdle DEF Pending
    <3>2. job'[c].next.adm = NoReq
      BY <2>3, <3>1 DEF registered
    <3> QED BY <2>1, <3>1, <3>2, StateBegins
  <2>4. CASE UNCHANGED job
    <3>1. \A q \in Requests : Undoable(q)' \subseteq Undoable(q)
      BY <2>1 DEF Undoable
    <3> QED BY <2>1, <2>4, <3>1, StateIdle, StateWrites
  <2> QED BY <2>1, <2>2, <2>3, <2>4 DEF registerPinnedUnderLock
<1>3. CASE SetReplicas(c)
  <2>1. UNCHANGED <<rec, job, pc, files, todo, baseline>> /\ Unlocked(c)
    BY <1>3 DEF SetReplicas, storeVars
  <2>2. \A q \in Requests : Undoable(q)' \subseteq Undoable(q)
    BY <2>1 DEF Undoable
  <2> QED BY <2>1, <2>2, StateIdle, StateWrites
<1>4. ASSUME NEW t \in Txs, Stage(c, t) PROVE StateInv' /\ ConfirmedDecided
  <2>1. Unlocked(c) /\ staged(c, t) /\ UNCHANGED <<rec, pc, files, todo, baseline>>
    BY <1>4 DEF Stage
  <2>2. rec[c].stage # {} => rec[c].state = "temporary"
    BY <2>1, StateIdle, StateShapes
  <2>3. rec[c].state # "temporary" /\ c \in pin => rec[c].state = "confirmed"
    BY <2>1, StoreIdle DEF Consistent, Record
  <2>4. /\ \A d \in Cids \ {c} : job'[d] = job[d]
        /\ job'[c].prev = rec[c]
        /\ job'[c].next.state = "confirmed" => rec[c].state = "confirmed"
        /\ rec[c].state = "confirmed" => job'[c].next.state = "confirmed"
    <3>1. rec[c] \in Record /\ job \in [Cids -> Job]
      BY <2>1, StateIdle
    <3>2. CASE /\ rec[c].stage # {}
               /\ Pending(c, "stage", NoReq,
                    [rec[c] EXCEPT !.state = "temporary", !.pinned = TRUE, !.held = TRUE,
                                   !.stage = @ \cup {t}], "keep", TRUE, TRUE)
      BY <2>2, <3>1, <3>2 DEF Pending, Record
    <3>3. CASE /\ c \in pin \/ rec[c].state = "confirmed"
               /\ rec[c].state # "temporary"
               /\ Pending(c, "stage", NoReq,
                    [rec[c] EXCEPT !.state = "confirmed", !.pinned = TRUE, !.held = TRUE],
                    unpinIfCreated(c), TRUE, TRUE)
      BY <2>3, <3>1, <3>3 DEF Pending, Record
    <3>4. CASE /\ ~(c \in pin \/ rec[c].state = "confirmed")
               /\ Pending(c, "stage", NoReq,
                    [rec[c] EXCEPT !.state = "temporary", !.pinned = TRUE, !.held = TRUE,
                       !.stage = {t},
                       !.base = IF rec[c].state = "absent" THEN "none" ELSE "expired"],
                    unpinIfCreated(c), TRUE, TRUE)
      BY <3>1, <3>4 DEF Pending, Record
    <3> QED BY <2>1, <3>2, <3>3, <3>4 DEF staged
  <2> QED BY <2>1, <2>4, StateBegins
<1>5. ASSUME NEW t \in Txs, Commit(c, t) PROVE StateInv' /\ ConfirmedDecided
  <2>1. /\ UNCHANGED <<job, pc, files, todo, baseline>>
        /\ Unlocked(c) /\ rec[c].stage # {} /\ save(c, Confirmed(rec[c]))
    BY <1>5 DEF Commit
  <2>2. /\ rec'[c] = Confirmed(rec[c]) /\ \A d \in Cids \ {c} : rec'[d] = rec[d]
    BY <2>1, StateIdle DEF save
  <2>3. rec'[c].state = "confirmed" /\ rec'[c].adm = NoReq
    BY <2>1, <2>2, StateIdle, StateShapes
  <2>4. \A q \in Requests : Undoable(q)' \subseteq Undoable(q)
    BY <2>1 DEF Undoable
  <2> QED BY <2>1, <2>2, <2>3, <2>4, StateIdle, StateWrites
<1>6. ASSUME NEW t \in Txs, Abort(c, t) PROVE StateInv' /\ ConfirmedDecided
  <2>1. Unlocked(c) /\ UNCHANGED <<pc, files, todo, baseline>>
    BY <1>6 DEF Abort
  <2>2. \A q \in Requests : Undoable(q)' \subseteq Undoable(q)
    BY <2>1 DEF Undoable
  <2>3. CASE UNCHANGED <<rec, job>>
    BY <2>1, <2>2, <2>3, StateWrites
  <2>4. CASE UNCHANGED job /\ save(c, [rec[c] EXCEPT !.stage = @ \ {t}])
    <3>1. /\ rec'[c] = [rec[c] EXCEPT !.stage = @ \ {t}]
          /\ \A d \in Cids \ {c} : rec'[d] = rec[d]
      BY <2>1, <2>4, StateIdle DEF save
    <3>2. rec'[c].state = rec[c].state /\ rec'[c].adm = rec[c].adm
      BY <2>1, <3>1, StateIdle DEF Record
    <3> QED BY <2>1, <2>2, <2>4, <3>1, <3>2, StateIdle, StateWrites
  <2>5. CASE rec[c].stage = {t} /\ Unstage(c, "abort", FALSE, TRUE) /\ UNCHANGED <<rec, gcFresh>>
    <3>1. "abort" \in OwnKinds
      BY DEF OwnKinds
    <3> QED BY <2>1, <2>5, <3>1, StateUnstages
  <2> QED BY <1>6, <2>3, <2>4, <2>5 DEF Abort
<1> QED BY <1>1, <1>2, <1>3, <1>4, <1>5, <1>6 DEF ClientCall

LEMMA StateCollects ==
  ASSUME ConfigAssumption, IInv, StateInv, NEW c \in Cids, GcLoop(c)
  PROVE  StateInv' /\ ConfirmedDecided
<1> USE DEF gcKeep, uploadVars, gcDone, gcMay
<1>1. /\ UNCHANGED <<pc, files, todo, baseline>>
      /\ job \in [Cids -> Job] /\ rec \in [Cids -> Record]
  BY DEF GcLoop, GcRecover, GcDemote, GcGuard, GcRelease, GcDelete, GcCleanup, IInv, TypeOK
<1>2. \A q \in Requests : Undoable(q)' \subseteq Undoable(q)
  BY <1>1 DEF Undoable
<1>3. CASE UNCHANGED <<rec, job>>
  BY <1>1, <1>2, <1>3, StateWrites
<1>4. CASE /\ UNCHANGED job /\ Unlocked(c)
           /\ save(c, Unowned(rec[c])) \/ save(c, Absent)
  <2>1. /\ rec'[c] \in {Unowned(rec[c]), Absent}
        /\ \A d \in Cids \ {c} : rec'[d] = rec[d]
    BY <1>1, <1>4 DEF save
  <2>2. /\ rec'[c].state = "confirmed" => rec[c].state = "confirmed"
        /\ rec'[c].adm = NoReq
    BY <1>4, <2>1, StateIdle, StateShapes DEF Absent
  <2> QED BY <1>1, <1>2, <1>4, <2>1, <2>2, StateIdle, StateWrites
<1>5. CASE /\ UNCHANGED rec /\ Unlocked(c)
           /\ \/ Pending(c, "demote", NoReq, Demoted(rec[c]), undoRemoved(c), FALSE, FALSE)
              \/ Pending(c, "gcRelease", NoReq, Released(rec[c]), undoRemoved(c), FALSE, FALSE)
              \/ Pending(c, "guard", NoReq, [rec[c] EXCEPT !.pinned = TRUE],
                         undoCreated(c), FALSE, FALSE)
  <2>1. /\ job'[c].prev = rec[c] /\ \A d \in Cids \ {c} : job'[d] = job[d]
        /\ job'[c].next \in {Demoted(rec[c]), Released(rec[c]), [rec[c] EXCEPT !.pinned = TRUE]}
    BY <1>1, <1>5 DEF Pending
  <2>2. /\ [rec[c] EXCEPT !.pinned = TRUE].state = rec[c].state
        /\ Demoted(rec[c]).adm = NoReq /\ Demoted(rec[c]).state = rec[c].state
        /\ Released(rec[c]).adm = NoReq /\ Released(rec[c]).state = "expired"
    BY <1>1, <1>5, StateIdle, StateShapes DEF Record
  <2>3. /\ job'[c].next.state = "confirmed" => rec[c].state = "confirmed"
        /\ rec[c].state = "confirmed" /\ job'[c].next.adm # NoReq =>
             job'[c].next.state = "confirmed"
    BY <2>1, <2>2
  <2> QED BY <1>1, <1>5, <2>1, <2>3, StateBegins
<1>6. CASE /\ UNCHANGED rec /\ Unlocked(c) /\ rec[c].stage # {}
           /\ Unstage(c, "gcStage", TRUE, FALSE)
  <2>1. "gcStage" \in OwnKinds
    BY DEF OwnKinds
  <2> QED BY <1>1, <1>6, <2>1, StateUnstages
<1> QED
  BY <1>3, <1>4, <1>5, <1>6 DEF GcLoop, GcRecover, recoverAdmission, GcDemote, GcGuard,
     GcRelease, GcDelete, GcCleanup

LEMMA StateRepairs ==
  ASSUME ConfigAssumption, IInv, StateInv, NEW c \in Cids, Repair(c)
  PROVE  StateInv' /\ ConfirmedDecided
<1> USE DEF repairKeep, uploadVars
<1>1. /\ UNCHANGED <<pc, files, todo, baseline>>
      /\ job \in [Cids -> Job] /\ rec \in [Cids -> Record]
  BY DEF Repair, RepairClaim, RepairClear, RepairEnd, Rescue, IInv, TypeOK
<1>2. \A q \in Requests : Undoable(q)' \subseteq Undoable(q)
  BY <1>1 DEF Undoable
<1>3. CASE RepairClaim(c) \/ RepairEnd(c)
  <2>1. UNCHANGED <<rec, job>>
    BY <1>3 DEF RepairClaim, RepairEnd
  <2> QED BY <1>1, <1>2, <2>1, StateWrites
<1>4. CASE RepairClear(c)
  <2>1. UNCHANGED job /\ Unlocked(c) /\ save(c, Unowned(rec[c]))
    BY <1>4 DEF RepairClear
  <2>2. rec'[c] = Unowned(rec[c]) /\ \A d \in Cids \ {c} : rec'[d] = rec[d]
    BY <1>1, <2>1 DEF save
  <2>3. rec'[c].state = rec[c].state /\ rec'[c].adm = NoReq
    BY <2>1, <2>2, StateIdle, StateShapes
  <2> QED BY <1>1, <1>2, <2>1, <2>2, <2>3, StateIdle, StateWrites
<1>5. CASE Rescue(c)
  <2>1. /\ UNCHANGED rec /\ Unlocked(c)
        /\ job'[c].prev = rec[c] /\ job'[c].next = Rescued(rec[c])
        /\ \A d \in Cids \ {c} : job'[d] = job[d]
    BY <1>1, <1>5 DEF Rescue, Pending
  <2>2. Rescued(rec[c]).state = rec[c].state
    BY <2>1, StateIdle, StateShapes
  <2> QED BY <1>1, <2>1, <2>2, StateBegins
<1> QED BY <1>3, <1>4, <1>5 DEF Repair

LEMMA StateInductive ==
  ASSUME ConfigAssumption, Undisturbed, IInv, StoresInv, StateInv, [Next]_vars
  PROVE  StateInv' /\ ConfirmedDecided
<1>1. MaxFaults = 0 /\ MaxCrashes = 0 /\ faults = 0 /\ crashes = 0
  BY DEF Undisturbed, IInv, TypeOK
<1>2. ~CrashAndRestart /\ \A c \in Cids, persisted \in BOOLEAN : ~SaveFails(c, persisted)
  BY <1>1 DEF CrashAndRestart, SaveFails
<1>3. \A c \in Cids : ~Boot(c)
  BY DEF StoresInv, Reconciled, Boot, BackfillRead, BackfillCreate, StartupRecover
<1>4. CASE GcStart \/ GcPass \/ UNCHANGED vars
  <2>1. UNCHANGED <<rec, job, pc, files, todo, baseline>>
    BY <1>4 DEF GcStart, GcPass, GcDemoteStart, GcPlan, GcReleaseStart, GcKeepBlocks,
       GcAskLease, GcLease, GcCleanupStart, GcEnd, gcKeep, storeVars, uploadVars, vars
  <2>2. \A q \in Requests : Undoable(q)' = Undoable(q)
    BY <2>1 DEF Undoable
  <2>3. ASSUME NEW d \in Cids PROVE StateOK(d)'
    BY <2>1, <2>2, StateKept DEF StateInv
  <2> QED BY <2>1, <2>3 DEF StateInv, ConfirmedDecided
<1>5. ASSUME NEW r \in Requests, Upload(r) PROVE StateInv' /\ ConfirmedDecided
  BY <1>1, <1>5, StateRequest, StatePins, StateRegisters, StateFileKept DEF Upload
<1> QED
  BY <1>2, <1>3, <1>4, <1>5, StateWriteRecord, StateClient, StateCollects, StateRepairs DEF Next

LEMMA StateInitially == ConfigAssumption /\ Init => StateInv
<1> SUFFICES ASSUME ConfigAssumption, Init PROVE StateInv
  OBVIOUS
<1>1. /\ \A c \in Cids : job[c] = NoJob
      /\ \A r \in Requests : pc[r] = "idle"
  BY DEF Init
<1>2. \A r \in Requests : Undoable(r) = {}
  BY <1>1 DEF Undoable
<1>3. ASSUME NEW c \in Cids PROVE StateOK(c)
  <2>1. job[c].kind = "none"
    BY <1>1 DEF NoJob
  <2> QED BY <1>2, <2>1 DEF StateOK
<1> QED BY <1>3 DEF StateInv

\* While every registry write succeeds and the node stays up, content becomes confirmed
\* only because somebody decided it: a confirm, a copy stored for a peer, the commit of a
\* stage or an upload that needs no confirmation.  No rollback, no catch block and no stage
\* that finds older content confirms what was not confirmed when it took the lock.
THEOREM ConfirmedByDecision ==
  ConfigAssumption /\ Undisturbed => (Spec => ConfirmedOnlyByDecision)
<1> SUFFICES ASSUME ConfigAssumption, Undisturbed PROVE Spec => ConfirmedOnlyByDecision
  OBVIOUS
<1>1. Init => StoresInv /\ StateInv
  BY StoresInitially, StateInitially
<1>2. IInv /\ StoresInv /\ [Next]_vars => StoresInv'
  BY StoresInductive
<1>3. IInv /\ StoresInv /\ StateInv /\ [Next]_vars => StateInv' /\ ConfirmedDecided
  BY StateInductive
<1>4. Spec => []IInv
  BY Invariance
<1> QED BY <1>1, <1>2, <1>3, <1>4, PTL DEF Spec, ConfirmedOnlyByDecision
====
