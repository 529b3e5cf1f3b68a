# TLA+ verification of the ADAMANT IPFS node's storage lifecycle

This directory holds a TLA+ model of the part of the node that decides whether
content is kept: the registry and its locks, uploads and their sessions,
incoming copies and their limits, strict (quorum) uploads across nodes, garbage
collection, repair, handover, downloads, health, peer sessions, and what happens
when the process stops or dies in between. TLC checks the model on small
instances. TLAPS proves, for every size, theorems about the storage lease, the
CID locks, the life of a file on one node, strict uploads, handover, retrieval,
repair cycles, intake (admission, block sessions, the meter), health
checkpoints, downloads, and start and shutdown.

Paths such as `storage/gc.ts` are relative to the repository's `src/`.

## 1. The system

### Components, their state and their operations

| Component | State | Operations | Model |
|---|---|---|---|
| Storage operation lease (`storage/operationLock.ts`) | reader count, writer flag, FIFO queue | acquireShared, acquireExclusive, release, drain | `StorageOperationLock`, `RWLease` |
| File registry and CID locks (`storage/registry.ts`, `storage/state.ts`) | one record per CID (state, pinned, held, admission token, stage, revision), pin-intent markers, a promise chain per CID | get, save, remove, transition, register, markPinIntent, exclusive, withExclusiveCids | `FileLifecycle`, `CidLocks`, `CidMutex` |
| Upload admission (`middleware/uploadAdmission.ts`, `storage/limits.ts`, `storage/reservation.ts`) | slots, promised bytes, leases | admit, refuse, close, claimSpace, release | `UploadAdmission` |
| Upload session (`storage/uploadSession.ts`, `utils/unixfs-multer.storage.ts`) | blocks created by a request, blocks in flight | put, claim, commit, cleanup | `BlockSessions`, `FileLifecycle` |
| Upload handler (`api/uploadRoute.ts`, `storage/rollback.ts`, `storage/admissionState.ts`) | active admission tokens; per request its files and baselines | claim, pin and register each file, place copies, roll back or finalize, commit, clear the token | `FileLifecycle`, `StrictUpload` |
| Confirm / release / adopt (`storage/lifecycle.ts`, `storage/pinning.ts`) | - | confirm, release, register a pinned file, each with its rollback | `FileLifecycle` |
| Stage on a replica (`storage/replicaStage.ts`) | abort tombstones (in memory) | stage, commit, abort, expiry | `FileLifecycle` (steps), `StrictUpload` (messages) |
| Intake limits (`storage/intakeBudget.ts`, `storage/meter.ts`) | spending per peer and bucket; bytes of a transfer | reserve, settle, prune; count, stop | `IntakeBudget`, `MeteredIntake`, `PeerIntake` |
| Garbage collection (`storage/gc.ts`, `storage/collection.ts`, `storage/metrics.ts`, `gc.cron.ts`) | a plan, in memory | measure, recover admissions, hand over, plan, guard rail, release, delete blocks, clean up | `FileLifecycle` (steps), `CollectionPlan` (arithmetic) |
| Repair and rescue (`storage/service.ts`, `storage/repairClaim.ts`, `storage/repairState.ts`) | active repairs | claim, probe, replicate, clear a settled token, rescue an orphan | `FileLifecycle` (this node), `Handover` (the network) |
| Repair cycle (`replication.cron.ts`, `storage/repairCycle.ts`, `repairCycleDriver.ts`, `repairEvidence.ts`) | committed list, cursor, evidence, failure budget, timer | pass, catch up, publish, continue, retry, stop | `RepairCycle` |
| Placement and handover (`storage/placement.ts`, `storage/sweep.ts`, `storage/service.ts`) | sweep position | designated holders, copies by age, mayDemote, probes, demotion | `Handover`, `SweepCursor` |
| Replication client and protocol (`storage/replication.ts`, `storage/replicationProtocol.ts`) | - | have, accept, stage, commit, abort, store, cache; framing, timers | `StrictUpload`, `UploadDecision`, `FramedExchange` |
| Peer health (`health/*`) | checkpoint in memory and on disk, snapshot | attempt, evaluate, persist, publish, refresh | `HealthCheckpoint` |
| Peering and session recovery (`peering.cron.ts`, `peering/*`) | cooldowns, recoveries in flight, the running pass | recoverPeerSession, ping, hang up, redial | `PeerSession` |
| Downloads (`api/file.ts`, `middleware/downloadAdmission.ts`, `utils/timedStream.ts`, `utils/downloadResponse.ts`) | slots, slots per client, the stream | admit, stat, stream, time out, finish, close | `Downloads` |
| Retrieval (`storage/retrieval.ts`) | - | retrievalTargets | `Retrieval` |
| Start and stop (`index.ts`, `storage/backfill.ts`, `storage/admission.ts`) | snapshot of pins; jobs, connections, timers | backfill, recover interrupted admissions, start the jobs, shut down | `FileLifecycle`, `NodeShutdown` |
| HTTP plumbing, configuration, security, logging | none that decides about content | | not modelled |

### How they interact

All of it runs on one Node.js event loop per node, so what interleaves is what
is separated by an `await`. Four mechanisms keep the pieces apart:

* the *storage lease*: intake and pinning share it, Helia's block deletion
  holds it exclusively;
* the *CID locks*: a record and its pin change under the CID's lock;
* the *admission token*: an upload handler releases all its locks while it
  places copies on peers, and the token in the record keeps everybody else off;
* the *repair claim*, which does the same for a repair that probes peers.

Across nodes, a strict upload is a two-phase commit. Peers take a *prepared*
copy (`stage`), the source decides, and then commits or aborts. There is no
log on the source beyond the token; what remains undecided ends by a TTL.

### What is hard here

* a record and a Helia pin are two stores that cannot change together: a crash
  or a rejected write in between leaves them contradicting each other, and the
  datastore may reject a write *after* persisting it;
* the collector works from a snapshot that is stale when applied;
* a handler or a repair goes on without a lock for as long as its peers take;
* stages, commits and aborts may be lost, late or overtaken, and two uploads
  may share one prepared copy;
* nodes give up copies on the word of peers that may be giving up theirs;
* clients hang up at every `await`, and what was taken must go back once;
* a reading (free space, a pin, a ping, the time) is old when it is used.

`PROJECT.json` lists these hazards at the line where they bite, with the
properties that cover them.

## 2. Modules

| Module | Contents |
|---|---|
| `RWLease` | abstract: what the storage lease promises |
| `StorageOperationLock` | the queued lease as coded; implements `RWLease` |
| `CidMutex` | abstract: all CIDs of a request taken and given back in one step |
| `CidLocks` | the promise chains as coded; implements `CidMutex` |
| `FileLifecycle` | one node: records, pins, blocks and every operation on them |
| `NodeStores` | what the three stores of such a node promise each other, and under which faults |
| `UploadDecision` | abstract: what a strict upload promises its client |
| `StrictUpload` | strict uploads across nodes; implements `UploadDecision` |
| `Handover` | several nodes place, repair, hand over and rescue one file |
| `SweepCursor` | the position of the handover sweep |
| `RepairCycle` | cycles of repair, their evidence and their driver |
| `UploadAdmission` | slots, space claims and leases of uploads and incoming copies |
| `BlockSessions` | blocks that running uploads share |
| `IntakeBudget`, `MeteredIntake`, `PeerIntake` | budgets of peers; the meter of one transfer; the two together |
| `CollectionPlan` | what a collection selects and frees |
| `HealthCheckpoint` | readiness checkpoints and what readers get |
| `PeerSession` | the session to one peer, its recovery and the peering pass |
| `FramedExchange` | one request and its reply, byte by byte |
| `Downloads` | downloads and their slots |
| `Retrieval` | whom a node asks for a file |
| `NodeShutdown` | start and shutdown of the process |
| `MCNodeLocks`, `MCLifecycle`, `MCStrictUpload`, `MCPlacement`, `MCRepairCycle`, `MCIntake`, `MCPeers`, `MCNode` | the instances TLC checks |
| `NodeLocksProofs` | proofs about `StorageOperationLock` and `CidLocks` |
| `FileLifecycleProofs` | proofs about `FileLifecycle` |
| `StrictUploadProofs` | proofs about `StrictUpload` |
| `PlacementProofs` | proofs about `Handover`, `Retrieval`, `SweepCursor` and `FramedExchange` |
| `RepairCycleProofs` | proofs about `RepairCycle` |
| `IntakeProofs` | proofs about `UploadAdmission`, `BlockSessions`, `IntakeBudget`, `MeteredIntake` and `PeerIntake`, with lemmas about sums |
| `HealthCheckpointProofs` | proofs about `HealthCheckpoint` and `PeerSession` |
| `NodeProofs` | proofs about `Downloads` and `NodeShutdown` |

How they fit together: `FileLifecycle` is the centre. It uses the lease as
`RWLease` and the CID locks as `CidMutex`, which the detailed modules are shown
to implement. Where it lets something be arbitrary, another module says what it
is: which files a plan selects (`CollectionPlan`), what a probe of a peer may
answer (`Handover`, `StrictUpload`), when a session's blocks go
(`BlockSessions`), when the jobs run (`RepairCycle`, `NodeShutdown`).

An `MC` module gives the constants their values, adds symmetry sets and the
functions (DAGs, node lists, scores) that a cfg cannot write, and puts instances
that answer one question side by side. Its variable `part` (or `scenario`) is
chosen in the initial state and never changes: each behaviour is a behaviour of
one instance, while the variables of the others keep their initial values. So
the states of a run are the sum, not the product, of its instances, and a
property of a run is a conjunction with one conjunct per instance it is about. A
liveness property carries the fairness of its instance as a hypothesis
(`part = "x" /\ Fairness => P`), because the other instances are not scheduled.
Where an `MC` module extends the module it instantiates, the constants of the
module itself are given in the cfg and the property checked is the module's own,
the one its theorem is about.

Operators marked "Mutant" are the faulty variants that the mutation runs put in
place of the definition that follows them; no specification uses them.

### StorageOperationLock

`readers`, `writer` and `waiters` are the class's fields, `lease[c]` the last
lease object client `c` was given. `AcquireShared` and `AcquireExclusive` grant
at once or queue, `ReleaseOnce` is the first `release()` of an object with its
`drain()`, `ReleaseAgain` every later one. `refuseReentry` is the guard
`MayAsk`.

### FileLifecycle

`rec`, `intent`, `pin`, `blocks` are the datastore's records and markers,
Helia's direct pins and the blockstore. An operation that changes a pin and
then a record is two steps: the first reads the record, decides and changes the
pin, leaving in `job[c]` the record to write and what its catch block would do;
the second, `WriteRecord` or `SaveFails`, is the registry write. `job[c]` not
being `NoJob` is the CID's lock. The upload handler is a program with counter
`pc[r]`, and the collector one with `gcPc`; both visit their files in any order.
`CrashAndRestart` empties everything that lives in memory and starts the
backfill.

Abstractions:

* Time: a temporary record may pass its TTL at any moment; timestamps are gone.
* Revisions: the random revision of a record only serves to see whether it was
  written since the collector's snapshot; `gcFresh` is the set of those not
  written.
* The lease is used through `RWLease`: pins wait while the collector deletes,
  the collector waits for shared holders.
* `withExclusiveCids` takes all its locks in one step, as `CidMutex` says.
* The planner may select any set of releasable files; its byte arithmetic is
  `CollectionPlan`'s.
* Pulling a DAG is one step with pinning it. Blocks shared between contents,
  the same CID twice in one request and failing marker writes are left out, as
  is `cacheFileLocally`, which writes no record and no pin.

### StrictUpload

One content; every transaction is an upload of it on a source of its own, all
asking the same peers. `durable` and `owners` are what the peers' records say,
`tomb` their abort markers, `net` the requests that may still arrive. `phase[t]`
is where the handler is (placing, then aborting, or finalizing and committing),
`at[t][p]` where its exchange with a peer is, `ack[t][p]` the acknowledgement in
its report. An answer may be lost at any moment (`PlacementLost`,
`SettlementLost`), and the peer may still act on the request later. What the
peer does under its CID lock is one step, because `FileLifecycle` has the steps
inside it.

Abstractions: probes are one step, since they change nothing; a prepared copy
may expire at any moment; permanent copies are not released or handed over
here; abort markers are lost by a restart only (their TTL outlives any request,
their cap of 10,000 is out of reach); a node that does not know the source
(`Strangers`) may keep an unpinned copy, which counts for nothing; the origin
check of a transaction is left out, framing is `FramedExchange`'s.

### CidLocks

The code keeps no queue as data: `queued[c]` (read through `QueueFor`) is the operation whose promise is
the tail of CID `c`, `after[o]` the operation whose promise `o` awaits. `Request`
sorts the CIDs and chains on the first, `Acquire` is a promise that resolves,
`Reenter` a public mutator called under the lock, which the code refuses, and
`Release` deletes the map entry only when it is still its own.

### Handover and SweepCursor

`record[n]` and `createdAt[n]` are node `n`'s record of the one file, `View[n]`
its node list, `Score` the rendezvous hash (arbitrary, without ties) and
`CopiesAt` the age tiers. A pass asks the holders the node computes, one probe
per step, and acts when the answers are in; ranks, tiers and `mayDemote` are the
code's. `Repair` stores a copy on a node that lacks it, with a `createdAt` of
its own. `SweepCursor` has the batches in which one node goes through its files.

### RepairCycle

`cycle` is the list in memory, `evidence` and `disk` the record of the cursor and
the counters, `pass` the running pass, which scans, takes its batch, visits it,
and saves; each may fail. The driver's timer, schedule, manual pass, failure
budget, stop and start are actions. `visited` and `found` are history variables;
`sorted` puts the candidates in the order of their CIDs (`rank`).
Counters are abstracted to whether some record lacks copies.

### UploadAdmission, BlockSessions, IntakeBudget, MeteredIntake, PeerIntake

`UploadAdmission` follows a request through its awaits (lease, free space,
session) with a client that hangs up at any of them. Others move between
reading and using free space; the history variable `stale` remembers that a claim
was granted by a reading larger than what was free by then. `BlockSessions`
follows each `put` (has, retain, store) and each cleanup (snapshot, pin, recheck,
delete) of uploads with common blocks. What each upload puts is chosen once from
`Contents`, what older content has stored is any set of blocks. Others move
during the awaits of a cleanup, and `overtaken` remembers that content was pinned
while a cleanup was deciding; only the deletion itself is one step unless
`SlowDelete`. `IntakeBudget` keeps the buckets of the code and, as
history, a log of what was really spent; its clock does not go back.
`MeteredIntake` is one transfer with several reads in flight. `PeerIntake` puts the two
side by side, as `cacheFileLocallyUnderLock` does: the reservation is the limit and its
overshoot, the settlement what the meter has counted.

### CollectionPlan

A file is a set of blocks of one unit. `Measure` computes what
`storage/metrics.ts` computes, from records on one side and the disk on the
other; `Collect` is a whole pass with the plan of `planGarbageCollection`.
Uploads, expiries, cached reads and other programs change the disk between.

### HealthCheckpoint

An attempt takes the time and the repair evidence, awaits attestations, reads
the rest, evaluates, persists, publishes; readers refresh. Time is a small
integer that may be set back; the datastore may reject a write and the process
may stop between any two steps. The thresholds are parameters.

### PeerSession and FramedExchange

One peer, because peers are handled independently. Calls fail on the session
they started on, `recoverPeerSession` coalesces and cools down, the peering pass
pings and resets; hang-up and dial may fail. `FramedExchange` counts the bytes of
one exchange in both directions and cuts them anywhere.

### Downloads and Retrieval

`pc`, `res`, `stream` are handler, response and generator of a download; a client
may stop reading (`stream = "suspended"`), leave, or share its address with
others. `Retrieval` numbers nodes by their rank for one file, so that any subset
is a network and every ranking is covered.

### NodeShutdown

From the moment the server listens: the reconciliation that nobody awaits, the
jobs it starts, two signals, the two timers, connections, passes, and
`helia.stop()`. A pass is running or not; what it does is in other modules. The
history variable `early` remembers a signal that came during the reconciliation.

## 3. What TLC checks

Deadlock is checked except where a cfg says otherwise: there, requests and
transactions are finitely many and the system may come to rest.

### Runs

**`NodeLocks`** - everything on one node that waits for its turn.

| Part | Instance | Properties |
|---|---|---|
| lease | 4 clients that acquire, release and release again | `ImplementsRWLease`; `EveryoneServed`: every waiter is served, a collector also while uploads keep coming |
| cids | 3 operations, each on up to 3 CIDs, re-entry | `EntriesMatchUse`: map entries exactly for the CIDs in use; `ImplementsMutex`; `EveryoneServed`: no wait cycle whatever the order of the files in a request |
| handlers | `FileLifecycle` with 1 content, 2 uploads, collector, 1 crash, 1 rejected write | `HandlersEnd`: uploads end, tokens of dead handlers are cleared, the collector finishes |

**`Lifecycle`** - records, pins and blocks of one node, in five scenarios. In all of
them `TypeOK`; the running upload owns its file (`OwnershipExclusive`); a repair keeps
the copy it counts on (`RepairStable`); durable content is dropped
(`DurableOnlyByDecision`), and content confirmed (`ConfirmedRightly`), only by a
decision on its current record; the guard rail spares durable content
(`CollectSpares`). `StoresAgree`, of `NodeStores`, says what the three stores promise
each other, each part of the nodes that keep it: `NoOrphanPin` where no write fails
and the node stays up, `Protected` also after the rejected writes of `Tolerable`,
`PinnedIsStored` where clients do not hang up; every scenario is checked for the parts
its node keeps. `StagesStayAborted` and `RefusedLeaveNoTrace` name their nodes in the
same way and are checked in all five. Which contents ever come and which uploads are sent is part of the
scenario (`OnlyThese`).

| Scenario | Instance | What it adds |
|---|---|---|
| uploads | 1 content, 2 uploads, all client calls, collector, repair | no pin without a record, none missing; a refused request leaves no trace (`RefusedLeaveNoTrace`) |
| multi-file | 2 contents, 2 uploads of any files, release, collector | the same for requests with several files; pinned blocks are never deleted |
| stages | 3 transactions, 2 of them aborted, all calls, collector, repair | an aborted transaction stays gone (`StagesStayAborted`), a commit acknowledges a pinned copy (`ConfirmedRightly`) |
| crash | 1 content, 2 uploads, confirmation required, 2 crashes, 1 rejected release | ownership survives restarts, nothing confirms itself |
| faults | 1 upload, 2 transactions, a legacy pin, 1 rejected write of 9 kinds, before or after it persisted | held records are still pinned, pinned content is still stored |

**`StrictUpload`** - 2 uploads of one content, 2 peers of which one restarts, quorum 2:
200 means a quorum (`QuorumOnSuccess`), permanent copies come from a decision
(`DurableOnlyByDecision`), 503 leaves nothing behind on peers that answered
(`CleanRejection`), a shared prepared copy survives the other upload
(`SharedStageSurvives`).

**`StrictUploadFaults`** - 1 upload, 3 peers (one does not know the source), session
recovery, a restart, a crash of the source, quorum 3: `ImplementsDecision`, and
`UploadsSettle`: every upload is answered and no prepared copy stays for ever.

**`Placement`** - where copies are and how nodes talk about them.

| Part | Instance | Properties |
|---|---|---|
| handover | 4 nodes with one node list, 3 then 2 copies, 2 lost disks | `LastCopyKept`, `HandoverKeepsPolicy`: no handover gives up the last copy or undercuts the policy; `PolicyIsReached`: the designated nodes get the file, an orphan is taken back |
| retrieval | 7 possible nodes, 3 tiers, 3 joins | `HoldersAsked`: a reader asks all that hold the file |
| sweep | 5 files that come and go, batches of 2, a restart | `SweepComplete`: no file is passed over, no pass is empty, all are visited again |
| exchange | prefix 2, body up to 3, 2 bytes too many | `ExchangeSound`: only whole messages count, silent callers are let go, a call ends without any timer |

**`RepairCycle`** - cycles over records that come and go (2 changes), 1 restart, every
trigger. *faults*: 2 records and 2 datastore failures, which use the failure budget
up; *rounds*: 3 records, no failure, so that the catch-up rounds run out.
`CycleOwned`: an unfinished cycle always has somebody to go on, unless the failure
budget is used up. `PublishedIsTrue`: a
published cycle without a failed pass visited every record of its last scan, and
hides none that lacks copies. `EvidenceRenewed`: stale evidence is renewed
once changes, failures and restarts pause.

**`Intake`** - what comes into a node and what it may cost.

| Part | Instance | Properties |
|---|---|---|
| admission | 2 uploads, 1 copy, a collector | `AdmissionExact`: slots, claims and leases go back once, no collection between import and pin, the reserve is kept unless a reading was stale |
| crowded | 2 uploads for 1 slot | the same |
| blocks | 2 uploads with a common, a repeated and an older block | `CleanupSpares`: no cleanup takes a block another upload works with, references are counted, older content stays, and so does pinned content unless it was pinned while a cleanup was deciding |
| budget | 3 peers, window of 2 buckets, 8 moments, 3 reservations | `IntakePaid`: no trailing window exceeds a budget, only recent spending counts, the map is bounded |
| meter | 3 reads in flight, blocks of 1 or 2 | `IntakePaid`: overshoot and unpaid bytes are bounded by the reads in flight |

**`Peers`** - *health*: 3 moments, 1 set-back, skewed peers, 1 rejected write, 1 restart.
`HealthHonest`: "ready" holds when it is read, no height is taken back, what is
persisted can be loaded. *sessions*: 2 calls, 5 moments, 2 faults. `PeersServed`: a
recovery follows the failure it is for and spares a session opened since, a
working session comes back and stays, and the result of the startup check
reaches the readers.

**`Node`** - work beside the requests that must come to an end.

| Part | Instance | Properties |
|---|---|---|
| downloads | 3 downloads of 2 clients, 2 slots, 1 per client, 2 chunks | `SlotsMatch`: counters follow the responses exactly; `DownloadsSound`: complete or visibly broken, nothing fetched for a client that left, every download ends |
| plan | 3 files, 4 blocks, 7 events | `EvictionJust`: evicts enough, no more than needed, oldest first, nothing that is owned |
| shared | shared blocks, slow measurements, failing deletions | `CollectorWorks`: pressure ends |
| uploads | 2 uploads for 1 slot | `CollectorWorks`: a waiting collection is served |
| shutdown | 2 signals at any time, a collection, a repair, another request | `PassesWithinUptime`: repair waits for the reconciliation, and Helia stops after what is waited for unless a signal came during the reconciliation; `StartsAndStops`: the jobs start, a signal ends the process |

### Bounds

The per-CID lock makes contents independent except inside one request, so one
content with two requests shows every race for a record, and two contents show
partial failure within a request. Three transactions are the least with which a
stage is joined, then aborted by some and committed by another. One rejected
write per behaviour isolates a single missing compensation; two crashes let the
second hit the recovery of the first. Two peers and two uploads are the least with
which a copy is shared and a quorum is still missed; the theorems cover the rest.

Four nodes are the least with which two designated holders, one that is not, and
one that joins later can be told apart. Three records in batches of one give a
cycle a beginning, a middle and an end for a record to arrive in. Time bounds
are at least one whole period of what they bound (budget window, cooldown,
checkpoint interval) plus the moments around its end. Two requests are enough
for slots and blocks, since both are shared pairwise; three show a queue.

What a run leaves out by its choice of instance is listed under "Further
counterexamples" below: those are the cases in which the code does not keep the
property.

### Fairness

* Lease: `ReleaseOnce` is weakly fair, since `withShared` and `withExclusive`
  release in `finally`. Arrivals are not fair.
* `FileLifecycle`: strong fairness for the steps that wait for a CID lock or
  the lease (handler, collector, startup), because those are FIFO queues; weak
  fairness for a pending registry write, for the collector's own steps and for
  the cron job that starts it, and for the end of a repair, whose calls have
  deadlines. Clients need do nothing.
* `StrictUpload`: weak fairness of handlers and exchanges (`call` has an abort
  signal) and of the expiry of prepared copies (the collector is scheduled).
  Messages need never arrive.
* `CidLocks`: a promise whose predecessor has settled resolves, and work under a
  lock ends (`finally`). Requests are not fair.
* Scheduled work (`Handover`, `RepairCycle`, `SweepCursor`, `CollectionPlan`,
  `PeerSession`, `HealthCheckpoint`): weak fairness of the cron ticks and of the
  steps of a pass, whose calls have deadlines. Faults, losses and changes are
  bounded, not fair. `PeerSession` also assumes that the peer comes back.
* `UploadAdmission`: handlers go on after each await and every response closes.
* `Downloads`: the node's own steps and timers (`NodeFairness`); only
  `DownloadEnds` also needs clients that read or leave (`ClientFairness`).
* `FramedExchange`: bytes sent are delivered; the server's timer (`Timer`) only for
  `ReaderReleased`.
* `NodeShutdown`: the start of the jobs after the reconciliation, and the hard
  deadline. Everything else may hang.

### Disagreements between code and documentation

Three are runs that TLC must find violated, with the quoted line in
`PROJECT.json`:

* `UnstageRejected`: `restoreReplicaStage` returns the registry write without
  `await` inside its `try`, so a rejected write skips the compensation and the
  record goes on claiming a pin that is gone.
* `StageCrash`: `stageReplica` marks no pin intent; after a crash between its
  pin and its record the backfill makes the prepared copy permanent.
* `RepairRetry`: the position in the committed list moves when a batch is handed
  out, so the retry of a failed pass skips the batch and the cycle is published
  as covering it.

### Further counterexamples

Each property below is stated in its module and fails on the model as coded. No
run repeats them; TLC finds the counterexample in seconds from the module's `Spec`
with the constants given (where none are given, those of the run above).

| Module, property | Constants | What happens | Against |
|---|---|---|---|
| `StrictUpload` `EveryStageWithdrawn` | 1 upload, 1 recoverable peer, quorum 2 | after a session recovery only the second attempt decides whether a peer may have staged; if it is refused for lack of room, the copy of the first is never aborted | `docs/storage-lifecycle.md:262` |
| `HealthCheckpoint` `ConsistentUnlessSetBack` | `MaxRollbacks = 0` | an attempt takes the time before it awaits its peers; a storage report refreshed meanwhile looks like a clock that went back | `docs/operations/monitoring.md:131` |
| `HealthCheckpoint` `ReadyOnlyByCheckpoint` | `MaxTime = 4` | readers get degraded and then ready again, without a checkpoint, when the clock was set back and has caught up | `docs/reference/api.md:213` |
| `UploadAdmission` `ReserveKept` without `stale` | 2 uploads | free space is read before an await and compared with the promises of a later moment; an upload that ends within it is counted in neither | `storage/limits.ts:59` |
| `UploadAdmission` `LeaseUntilCleaned` | 1 upload | a session counts as settled while its cleanup still runs, and a close then releases its lease | `middleware/uploadAdmission.ts:84` |
| `BlockSessions` `DurableKept` without `~overtaken` | | a cleanup uses the answer of `isPinned` one await after it looked | `storage/uploadSession.ts:272` |
| `BlockSessions` `LiveBlocksKept` | `SlowDelete = TRUE` | another upload takes a block up while its deletion is pending | `storage/uploadSession.ts:271` |
| `BlockSessions` `ReferencesReturned` | | a put that resumes after its session was cleaned up takes a reference that nobody returns | `storage/uploadSession.ts:32` |
| `Handover` `DesignatedNeverReleases` | `MaxTime = 1`, `MaxLosses = 0` | ages start with the local record, so nodes with one node list disagree about who is designated | `docs/storage-lifecycle.md:419` |
| `PeerSession` `ToldTrueWhenRedialled` | 1 call, `MaxFaults = 2` | callers are told "recovered" although the dial failed | `peering/peerSessionRecovery.ts:25` |
| `PeerSession` `ResetOnlySilentSessions` | 1 call, `MaxFaults = 0` | the peering pass hangs up the session that replaced the one it had pinged | `peering.cron.ts:70` |
| `CollectionPlan` `CacheFirst` | two files with the same blocks | blocks that two records share are subtracted twice from the cache, and a live upload is evicted instead | `storage/gc.ts:90` |
| `Downloads` `DeadlineCoversIteration` | 2 downloads | no deadline reaches a generator whose reader has stopped | `utils/timedStream.ts:16` |
| `MeteredIntake` `ChargedIsWhatArrived` | | reads that end after the transfer failed are not charged | `storage/service.ts:890` |
| `NodeShutdown` `NoPassAfterSignal` | | jobs start after a signal during the reconciliation | `docs/operations/upgrades.md:27` |
| `NodeShutdown` `JobsEndBeforeHelia` | | nobody waits for a collection | `docs/operations/upgrades.md:31` |
| `NodeShutdown` `InFlightFinish` | | open connections are cut together with idle ones | `docs/operations/upgrades.md:29` |

In `FileLifecycle` (constants as in `UnstageRejected.cfg`, with no faults, unless
given):

* `Protected`, `Legacy = {c1}`, `Calls = {"adopt", "release", "collect"}`:
  `POST /gc` during the startup walk lets the backfill record a file whose pin
  and blocks are gone.
* An aborted transaction owns a stage again, one request and one rejected
  transaction: an upload that rolls back writes back a staged record whose
  transaction was aborted meanwhile. This is why `StagesStayAborted` is claimed
  as long as no upload has come.
* `PinnedIsStored`, one request, `Calls = {"store", "disconnect"}`: what
  `DurableKept` shows, in the terms of records and pins. This is why `StoresAgree`
  claims it of nodes whose clients do not hang up.
* `Protected`, `Calls = {"adopt"}`, collector and repair, one rejected
  `"rescue"`: a rescue whose write is rejected after persisting only unpins. It is
  one of the writes `NodeStores` lists as `Unrestored`.
* `NoOrphanPin`, one request, `Legacy = {c1}`: the backfill counts a legacy pin
  as known because an upload is registering it, and the upload rolls back.
* `CommitAcksPinned`, one transaction, one crash: after a crash between the
  collector's unpin of an expired stage and its record, a late commit
  acknowledges a copy without a pin.
* `ConfirmedOnlyByDecision`, `Cids = {c1, c2}`, `Requests = {r1, r2}`, `Txs = {}`,
  `ConfirmationRequired = TRUE`, `Strict = FALSE`, no calls and no jobs,
  `MaxCrashes = 1`: an upload of two contents registers the first, pins the second
  and crashes. The client retries before the startup walk has come to the files.
  The retry registers the second content and drops its pin-intent marker
  (`api/uploadRoute.ts:347`), is refused because the first still has the dead
  token, and its rollback removes the record but keeps the pin that it did not
  create (`storage/rollback.ts`). The walk then finds a pin without record and
  marker and records it `confirmed`, although that "would bypass confirmation"
  (`storage/backfill.ts:40`). This is why `ConfirmedRightly` is checked after
  crashes with one content, and why `ConfirmedByDecision` is proved of a node that
  stays up. It came out of the proof: the invariant of that theorem is not kept
  by a restart.
* After a crash a pin and its record may disagree until the startup walk and the
  collector have seen them, so `StoresAgree` claims `NoOrphanPin` and `Protected`
  only of nodes that stay up, and `RefusedLeaveNoTrace` leaves crashes out; a
  rejected write may leave a pin without a record, so `NoOrphanPin` is claimed only
  of nodes whose writes succeed.

## 4. What TLAPS proves

Nothing here depends on the size of an instance: the theorems hold for every
value of the constants that satisfies the named assumptions. No property below
is inductive by itself; each module proves an invariant that implies it, and
that TLC was shown first on the instances of section 3.

| Assumption | Says |
|---|---|
| `ClientsFinite`, `CidsAssumption`, `NoneAssumption` | finitely many clients of the lease; finitely many CIDs, ordered; any operations |
| `ConfigAssumption` | `NoReq` is no request; a node does not require both confirmation and a quorum, as the configuration check does; `FaultyWrites` are the kinds of write whose rejection is modelled; any number of contents, requests, transactions, crashes and faults |
| `NetworkAssumption` | finitely many peers, the named subsets are subsets, the quorum is a number; any number of uploads |
| `NodesAssumption`, `TiersAssumption` | finitely many nodes, each in its own list, scores without ties, every age asks for a copy |
| `TiersShrink`, `OneNodeList` | tiers ask for no more copies as a file ages, which the configuration check enforces (`storage/config.ts:306`); the operators give every node the same list (only `HandoverKeepsPlacement`, and the run that checks its property) |
| `SweepAssumption`, `FrameAssumption` | finitely many files, ordered, batches of at least one; a length prefix and a limit, any excess a foreign caller sends |
| `RetrievalAssumption` | one tier asks for most copies |
| `CidsAssumption`, `BoundAssumption` of `RepairCycle` | finitely many records, ordered; a batch and a failure budget of at least one |
| `WindowAssumption` | budgets and window are numbers, the window is a whole number of buckets, the node-wide account is no peer's; any peers, and any bounds on time and reservations |
| `BoundAssumption` of `UploadAdmission`, `SessionAssumption`, `IntakeAssumption` | finitely many uploads, copies, sessions, readers; limits of at least one; the contents are any set of assignments of blocks to puts |
| `PolicyAssumption`, `BoundAssumption` of `HealthCheckpoint` | a checkpoint interval of at least one, any ages and tolerances |
| `TimeAssumption` of `PeerSession` | a recovery, cut off by the timeouts of its hang-up and its dial (`peering/liveness.ts`: 1 s and 10 s), takes less than the cooldown (`peering/peerSessionRecovery.ts`: 30 s); any calls and faults |
| `DownloadAssumption` | every request has a client, limits are positive |

### `NodeLocksProofs`

*Lease:* `LeaseTypeCorrect`, `LeaseMutualExclusion`, `LeaseNoLostWakeup`,
`LeaseNoBarging`, `LeaseImplementsRWLease`. The invariant adds to the types that
`readers` and `writer` count exactly the unreleased leases, that a client waits at
most once and holds nothing while it waits, and that a non-empty queue has a
reason to wait at its head. Without the counting part a repeated release could
not be told from a first one; without the queue part a release that drains nothing
could not be excluded.

*CID locks:* `CidMutualExclusion`, `EntriesExact`, `Refinement`, `TypeCorrect`. The queue is
nowhere in the state, so the invariant says of each CID that a numbering of the
operations exists along which every one waits for the one before it, the tail
has the greatest number and the holder the least. A newcomer gets a number above
all (`Joins`), a leaver had the least (`Leaves`), and steps on other CIDs keep
the numbering (`Untouched`).

### `FileLifecycleProofs`

*Every node:* `Invariance`, `TypeCorrect`, `OwnedByItsRequest`, `RepairUndisturbed`,
`DurableUntilDecided`, for any number of crashes and rejected writes. A file belongs to the request that registered it until its
handler ends, a repair keeps the copy it counts on, and durable content is given
up by a release, a handover or the restoration of an earlier record only.

While a handler or a repair works without a lock, everybody else may take the
lock, read the record, and write it later. So the invariant `IInv` speaks about
what is *pending*: only the holder of a CID's lock changes its record and its pin
(`LocksOK`, `JobOK`, `OneJob`), and an operation that is under way on a file that
a token or a repair protects will write a record that protects it in the same
way, whether its write succeeds or its catch block writes another one (`Owned`,
`RepairOK` speak about `job[c].next` and `job[c].prev`). A record with a token is
held, pinned and unstaged and its token is that of an admitted upload
(`RecordOK`), which must be known of the baselines a rollback will restore too
(`BaselinesOK`). What the collector may remove is what it released itself
(`CollectorOK`): a record that was written since is no longer in `gcFresh`. The
step is split by the action; `LocalStep`, `BeginStep`, `WriteStep`,
`RequestStep` and `QuietStep` say what a step of each sort leaves alone.

*Record, pin and blocks together.* These do not hold of every node, because a crash
or a rejected write leaves two stores apart; the counterexamples of section 3 say
how. So each theorem, or the property it states, names the nodes it is about, for any
contents, requests and transactions, and any calls and jobs that it does not exclude:

| Theorem | Nodes | Why not others |
|---|---|---|
| `StoresAgreed` (`StoresAgree` of `NodeStores`), first part, `NoOrphanPin`; `ConfirmedByDecision` (`ConfirmedOnlyByDecision`) | `Undisturbed`: no rejected write, no crash, no pin older than the registry | a crash between pin and record, the catch block of a rescue, the backfill of a pin that an upload is registering, the refused retry after a crash |
| `StoresAgreed`, second part, `Protected`; `CommitsAcknowledgePinned` (`CommitAcksPinned`) | `Tolerable`: no crash; writes may be rejected, but for those of an undo, an abort, a rescue, a release, a restored baseline or the collector's removal of a stage, and then clients stay connected; older pins, if no `POST /gc` overtakes the startup walk | the catch blocks of those writes leave the pin out or find no blocks to pin again |
| `StoresAgreed`, third part, `PinnedIsStored` | no client disconnects before its upload is claimed; any crashes and rejected writes | that cleanup holds no lock |
| `RefusedUploadLeavesNoTrace` (`RefusedLeaveNoTrace`) | the restored record is written, the step is no crash; any other write may fail | a rollback whose own write fails leaves its record visible on purpose |
| `CollectorSparesDurable` (`CollectSpares`) | `Sparing`: no rejected write; no `POST /gc`, which does not wait for the startup walk; no stages, or no crash | a commit after a crash makes an unpinned stage durable behind the guard rail, and so does a backfill that a collection overtakes |
| `AbortedTransactionsGone` (`StagesStayAborted`) | no upload has come yet, the removal of the aborted copy is not rejected; any crashes and other rejected writes | a rollback restores a staged record whose transaction was aborted meanwhile |

The arguments, all on top of `IInv`:

* `StoresInv` says of the pending operation which record its pin already agrees with
  (`Agree`): the one it will write, or, while a registration is being refused, the
  one it read; and of each request that it created the pins its baselines did not
  have (`FoundPinned`), or its rollback would leave a pin behind. Every record in
  sight has `held` and `pinned` alike, and a staged one is held (`Consistent`).
* `SureInv` carries `Protected` where writes are rejected. Then a pin may outlive its
  record, so only one direction is kept: the pin is there when the record that is,
  or that a pending operation will write, needs it, and an operation whose catch
  block would unpin has read a record that does not need the pin (`Secured`). A
  record needs a pin when it says held, and so does an absent one whose pin the
  startup walk has still to record (`Unknown`), or else the walk would write a held
  record for a pin that a catch block or a rollback has taken away. A catch block
  that pins again finds the blocks (`Recoverable`), because nothing deletes blocks
  while their CID is locked (`BlocksInv`). No collection runs before the walk has
  recorded all pins (`Waited`), so none removes an absent record's pin.
* `StateInv` says of "confirmed" what `StoresInv` says of "held": the record an
  operation writes is confirmed only if the one it read was, unless it decides so
  (`StateOK`), and a baseline that was confirmed is never less after the request
  registered it. That a stage which finds a pin finds confirmed content follows from
  `StoresInv`.
* `UndoInv` says that the files a request has undone are as it found them and that
  it still owns the others; it holds all their locks until it ends.
* `SpareInv` follows durable content from the guard rail to the deletion: what the
  guard rail has passed (`Guarded`) is pinned unless an operation is pending on it
  (`Resting`), and an operation has pinned what it is about to write as held
  (`Backed`). A crash may break the link between record and pin, but not during a
  pass: it ends the pass, and the next one waits for the walk and has a guard rail
  of its own. A prepared copy has no guard rail, hence the condition on stages.
* `BlocksInv` ties what a session may delete to what it created, to the pins and to
  the locks it holds while it checks and deletes.
* `GoneInv` says it of the record and of both records of a pending operation.

### `StrictUploadProofs`

For any number of losses, restarts and crashes:

| Theorem | Argument |
|---|---|
| `StrictTypeCorrect` | one step per action |
| `StrictQuorumOnSuccess` | `Evidence`: whatever a source counts is permanent, and permanent copies stay (`DurableGrows`); a larger set keeps a quorum (`QuorumMonotone`) |
| `StrictDurableOnlyByDecision` | `Phased` ties a handler's phase to its own copy, `Decided` says every commit under way belongs to a source that keeps its file, and a source never takes that back (`KeptStays`) |
| `StrictCleanRejection` | `Withdrawn`: an abort that was answered took the claim away and left a marker, which no late stage can undo on a peer that keeps running (`GoneStays`) |
| `StrictSharedStageSurvives` | which steps shrink `owners`, and what they leave instead |
| `StrictImplementsDecision` | `Evidence` and `Phased` again: each step is a decision, one more copy, an answer, or a stutter |

### `PlacementProofs`

`LastCopySafe` (and `TypeCorrect`): a node only counts on nodes that rank above
it, by scores that are the same everywhere, and a copy that ranked above stays
or is in turn given up for one further above. So the invariant says: for every
confirmation a pass has collected, somebody at that rank or above still holds
the file. This is why the answers may be old and the lists may disagree, which
the run does not cover.

`HandoverKeepsPlacement` (`HandoverKeepsPolicy`): here one node list is needed and
tiers that shrink, which the parser of the configuration enforces. A node judges by
the age of its own record, which is never older than the file, so the nodes it waits
for include the `Wanted` ones and it is none of them itself; the file only grows
older until the answers are in, so less is wanted then. `PolicyPass` says this of
every pass, with the confirmations it has: a wanted node that confirmed never hands
over, so it still holds the file.

`SweepCoversAll`, `SweepTakesSome` (parts of `SweepComplete`): a file that stays and
has not been looked at in the running cycle lies behind the cursor, so the rest of the
list that the next batch starts with contains it, whatever comes and goes on either
side; a batch cut short ends in its greatest file (`GreatestExists`), and all it
skipped lies behind that.

`OnlyWholeMessages` (part of `ExchangeSound`): `ReplyOK` says that a reply is written
whole and only after the handler ran, `FramesOK` that a caller has read no more than
was sent; the reader's own count does the rest, whatever a foreign caller announces.

`AskedHolders`: a holder was among the first `widest` when it got its copy; each
node that joins moves it back by one place, each that leaves only forward.

### `RepairCycleProofs`

`CycleNeverDropped`: `DriverOK` says that whoever works on a cycle or is about to
has failures left, so the branch that schedules nothing is taken only when the
budget is used up. `PublishedCyclesTrue`: `PassOK` says where in the committed
list a pass stands. `WalkOK` says that, while nothing has failed, all that a list
built from the head of a cycle has handed out was visited or is in the batch of
the running pass, and that what was found lacking is in the evidence or will be
when the pass saves. The batch must count, because the position moves before the
visit; that is also why a failure breaks the property (`RepairRetry`).
`SortedKeeps` proves that sorting the candidates neither loses nor adds any.

### `IntakeProofs`

`AdmissionIsExact`: the invariant says of every position of a handler which of slot,
claim and lease it holds there, whoever has closed the response meanwhile; that the
counters are the cardinalities and the sum over those who hold; and that what is
still to be written fits above the reserve (`room`) as long as no reading was
stale. The counters are the source's own (`uploading`, `copying`, `claimed`), so
that a hang-up at any `await` gives back exactly once is what keeps them equal.

`CleanupSparesOthers`: a block a handler is about to pin is in its session
(`HandlerOwns`), a session knows which of its blocks it created (`OldRecognised`),
what a live import has stored is on disk and counted (`LiveHeld`,
`ReferencesCounted`), and a cleanup that has seen a block unpinned and unreferenced
still may delete it, unless it was overtaken (`PinsUnchallenged`).

`TransferBounded`: the weight of the reads in flight bounds both what arrived
beyond the limit and what is not charged yet.

`PeersPayForIntake`: the buckets of the code are sums that nothing in the state explains,
so the invariant ties them to the log of reservations: over any set of buckets, what an
account says is what the reservations charged to those buckets cost (`Ledger`). That is
what makes a refund safe, which may hit a bucket that has left the window or one that
others have charged since (`SettleTypes`: the bucket holds at least what is given
back). The accounts are within their limits (`InBudget`); a reservation of the last window is in
a bucket that counts, and a bucket that counts holds none older than a window and a
bucket (`WindowCovered`). The map of peers stays bounded because every peer kept when it
is pruned has a reservation of its own that counts against the node (`SpentPeers`).

Sums over a finite set have no theorem in the library that needs no operator
parameter; the first part proves what is needed (`SubsetInduction` and the sum
lemmas) from the well-foundedness of the strict subsets of a finite set.

### `HealthCheckpointProofs`

*Health:* `HealthTypeCorrect`, `HonestHealth`. What an attempt carries across its awaits is
part of the invariant: the checkpoint it is about to save does not fall behind
the previous one (`AttemptOK`), and neither memory nor disk is behind the height that was
published (`HeightsOK`). A "ready" that is published or about to be has its
evidence (`Backed`); reading refreshes the ages, so only what does not age needs
to be invariant.

*Session to a peer:* `RecoveryAnswersTrue`, `FreshSessionSpared`. A call that waits
noted how many recoveries had ended, and its own has not (`CallOK`), so whoever is
told later is told of a later end. A recovery opens its session within
`RecoveryTime` of its start and the next one starts a cooldown after that start
(`RecoveryOK`); the invariant must say both of the recovery before the running one,
whose start is no longer in the state.

### `NodeProofs`

*Downloads:* `SlotsCounted`, `SlotsSpan`. The counters equal the cardinalities of
the sets of holders, and a response that has ended has released; without the
second, `finish` and `close` could both release.

*Shutdown:* `ShutdownTypeCorrect`, `WithinUptime`. A signal that comes after the jobs
have started leaves nothing that could start a pass or let a request in
(`Stopped`), so each shutdown waits for all that still runs (`Waiting`) and Helia
stops when nothing is left (`Quiet`). A signal during the reconciliation (`early`)
escapes this, because the jobs start after it.

### Theorems and runs

These state, for every value of the constants, a property a run checks:

| Run | Theorems |
|---|---|
| `NodeLocks` | `LeaseImplementsRWLease`, `Refinement`, `EntriesExact` |
| `Lifecycle` | `TypeCorrect`, `OwnedByItsRequest`, `RepairUndisturbed`, `DurableUntilDecided`, `CollectorSparesDurable`, `AbortedTransactionsGone`, `RefusedUploadLeavesNoTrace`; `StoresAgreed` for the node of each scenario, whose instances of `NodeStores!StoresAgree` the run's `StoresAgree` joins; of `ConfirmedRightly`, its parts for the scenarios without crashes and rejected writes: `CommitsAcknowledgePinned`, `ConfirmedByDecision` |
| `StrictUpload` | `StrictQuorumOnSuccess`, `StrictDurableOnlyByDecision`, `StrictCleanRejection`, `StrictSharedStageSurvives` |
| `StrictUploadFaults` | `StrictImplementsDecision` |
| `Placement` | `LastCopySafe`, `AskedHolders`, `HandoverKeepsPlacement`; the parts that are no liveness: `SweepCoversAll` and `SweepTakesSome` (`SweepComplete`), `OnlyWholeMessages` (`ExchangeSound`) |
| `RepairCycle` | `CycleNeverDropped`, `PublishedCyclesTrue` |
| `Intake` | `AdmissionIsExact`, `CleanupSparesOthers`, `PeersPayForIntake` |
| `Peers` | `HonestHealth`; the parts of `PeersServed` that are no liveness: `RecoveryAnswersTrue`, `FreshSessionSpared` |
| `Node` | `SlotsCounted`, `WithinUptime` |

The others (exclusion and queue order of the lease, `CidMutualExclusion`,
`SlotsSpan`, `TransferBounded`, the type invariants) are consequences of the same
invariants, or a part of a run's property.

### Only model-checked

* All liveness: temporal properties under fairness are out of the prover's reach.
* In `FileLifecycle`: what the scenarios *crash* and *faults* show of
  `ConfirmedOnlyByDecision` and of the collector under rejected writes. The theorems
  assume fewer faults there: some rejected writes and some crashes break each of
  these properties, and which ones is what the scenarios list.
* `CollectionPlan`.

## 5. Not modelled

* HTTP routing, request validation, CORS, API keys, rate limits and error bodies:
  functions of one request without state of their own.
* Configuration (`config.ts`, `storage/config.ts`): checks at startup. What they
  guarantee appears as the assumptions on the constants (low below high
  watermark, a positive number of copies, a quorum).
* Logging, OpenTelemetry, library set-up and the disk-usage scan's I/O.
* Helia, libp2p, multer and bitswap, except for what the code relies on; what is
  modelled of them is marked external in `PROJECT.json`.
* Validation of foreign records in the registry, iteration over it, origin checks
  of transactions, the cap of 10,000 abort markers, the wider spread of cached
  copies, byte counts of parts.
* A release cut off after its unpin (`storage/lifecycle.ts`) leaves a record that
  the guard rail reports for an operator, and a rollback whose own write fails
  (`storage/rollback.ts`) leaves its record visible on purpose. No document
  promises more of either, so there is no property about them.

## 6. Plan

1. `FileLifecycle`: what a restart may confirm, as the scenario *crash* shows it: the
   invariant needs to follow the pin-intent markers.
