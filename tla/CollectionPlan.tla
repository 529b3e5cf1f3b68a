--------------------------- MODULE CollectionPlan ---------------------------
(***************************************************************************)
(* What one pass of the collector frees: planGarbageCollection and the     *)
(* part of runGarbageCollection (storage/gc.ts) that carries it out, on    *)
(* the measurement of storage/metrics.ts.                                  *)
(*                                                                         *)
(* FileLifecycle lets a plan evict any temporary files and follows the     *)
(* steps of a pass; here a pass is one step and the arithmetic is exact.   *)
(* A file is a set of blocks of one unit each, and two files may share     *)
(* blocks: the records count them once per file, the disk once.            *)
(***************************************************************************)
EXTENDS Integers, FiniteSets, FiniteSetsExt, Sequences, SequencesExt

CONSTANTS Files, Blocks,
          Dag,            \* the blocks of each file
          High, Low,      \* watermarks, in units
          Volume, Reserve,\* size of the filesystem, diskReserveBytes
          MaxOther,       \* bound: units other programs take
          MaxEvents,      \* bound: steps of the environment
          SlowMeasure     \* the world may move between measuring and planning

PlanAssumption ==
  /\ Dag \in [Files -> SUBSET Blocks \ {{}}]
  /\ {High, Low, Volume, Reserve, MaxOther, MaxEvents} \subseteq Nat
  /\ Low < High
  /\ SlowMeasure \in BOOLEAN

VARIABLES phase,    \* of each file's record, with "none" for no record
          age,      \* the files with a record, oldest first
          disk,     \* blocks in the blockstore
          other,    \* units of the volume used by other programs
          measured, \* the measurement of the pass that is running
          events    \* steps the environment has made

vars == <<phase, age, disk, other, measured, events>>

\* "inflight": its upload is not settled.  "staged": a live replica stage.
\* "overdue": its TTL has passed.  "expired": released by an earlier pass.
\* "handed": confirmed, but its copy was handed over.
Phases == {"none", "inflight", "temporary", "staged", "overdue", "expired",
           "confirmed", "handed"}

Unmeasured == [known |-> FALSE, blockstoreBytes |-> 0, reclaimableBytes |-> 0,
               availableBytes |-> 0]

Init == /\ phase = [f \in Files |-> "none"]
        /\ age = <<>>
        /\ disk = {}
        /\ other = 0
        /\ measured = Unmeasured
        /\ events = 0

-----------------------------------------------------------------------------
(* Pins, records and the measurement *)

In(names) == {f \in Files : phase[f] \in names}

Pinned == In({"inflight", "temporary", "staged", "overdue", "confirmed"})

blocksOf(F) == UNION {Dag[f] : f \in F}

protectedStorageBytes(f) == Cardinality(Dag[f])
bytesOf(F) == MapThenSumSet(protectedStorageBytes, F)

used == Cardinality(disk)
availableBytes == Volume - other - used

\* Mutant: released files and cached blocks are not reported as reclaimable.
nothingReclaimable == 0

reclaimable == LET rest == used - bytesOf(Pinned) IN IF rest > 0 THEN rest ELSE 0

refreshStorageMetrics ==
  [known |-> TRUE, blockstoreBytes |-> used, reclaimableBytes |-> reclaimable,
   availableBytes |-> availableBytes]

\* The figures a plan is made from.
metrics == IF SlowMeasure THEN measured ELSE refreshStorageMetrics

-----------------------------------------------------------------------------
(* planGarbageCollection *)

expired == In({"overdue", "expired"})

\* Unconfirmed, not expired, of no strict upload in progress and settled.
alive == SelectSeq(age, LAMBDA f : phase[f] = "temporary")

overWatermark == metrics.blockstoreBytes > High
underReserve == metrics.availableBytes < Reserve
shouldCollect == overWatermark \/ underReserve

\* Mutant: only the watermark selects files.
noReserveTarget == 0

\* Reserve * 1.25, rounded up, must be free again.
reserveTarget ==
  IF underReserve THEN (5 * Reserve + 3) \div 4 - metrics.availableBytes ELSE 0

\* Bytes left when the n oldest are evicted.
estimatedBytesAfter(n) ==
  metrics.blockstoreBytes - Min({metrics.blockstoreBytes, metrics.reclaimableBytes})
    - bytesOf(expired \cap Pinned) - bytesOf({alive[i] : i \in 1..n})

stillShort(n) ==
  \/ overWatermark /\ estimatedBytesAfter(n) > Low
  \/ metrics.blockstoreBytes - estimatedBytesAfter(n) < reserveTarget

\* How many of the oldest go: as few as relieve the pressure, or all.
evictions == LET enough == {n \in 0..Len(alive) : ~stillShort(n)}
             IN IF enough = {} THEN Len(alive) ELSE Min(enough)

evicted == IF shouldCollect THEN {alive[i] : i \in 1..evictions} ELSE {}

-----------------------------------------------------------------------------
(* The collector *)

forget(F) == age' = SelectSeq(age, LAMBDA f : f \notin F)

\* collectStorage measures.
Measure ==
  /\ SlowMeasure /\ ~measured.known
  /\ measured' = refreshStorageMetrics
  /\ UNCHANGED <<phase, age, disk, other, events>>

ready == measured.known \/ ~SlowMeasure

\* There is room: files lose their pin, blocks stay and serve reads.
ReleaseOnly ==
  /\ ready /\ ~shouldCollect
  /\ phase' = [f \in Files |-> IF f \in expired THEN "expired" ELSE phase[f]]
  /\ measured' = Unmeasured
  /\ UNCHANGED <<age, disk, other, events>>

\* Every unpinned block is deleted, then the released records are.
Delete(released) ==
  /\ disk' = disk \cap blocksOf(Pinned \ released)
  /\ phase' = [f \in Files |-> IF f \in released THEN "none" ELSE phase[f]]
  /\ forget(released)
  /\ measured' = Unmeasured
  /\ UNCHANGED <<other, events>>

Collect == ready /\ shouldCollect /\ Delete(expired \cup evicted)

\* An operator asks for a collection whatever the pressure.
CollectForced ==
  /\ ready /\ ~shouldCollect
  /\ events < MaxEvents
  /\ disk' = disk \cap blocksOf(Pinned \ expired)
  /\ phase' = [f \in Files |-> IF f \in expired THEN "none" ELSE phase[f]]
  /\ forget(expired)
  /\ measured' = Unmeasured
  /\ events' = events + 1
  /\ UNCHANGED other

\* Helia could not delete some block: the records stay for the next pass.
CollectPartly ==
  /\ ready /\ shouldCollect
  /\ events < MaxEvents
  /\ LET released == expired \cup evicted
         unpinned == disk \ blocksOf(Pinned \ released)
     IN /\ \E b \in unpinned : disk' = (disk \ unpinned) \cup {b}
        /\ phase' = [f \in Files |-> IF f \in released THEN "expired" ELSE phase[f]]
  /\ measured' = Unmeasured
  /\ events' = events + 1
  /\ UNCHANGED <<age, other>>

-----------------------------------------------------------------------------
(* Everything else that changes records, blocks or free space *)

happens == events < MaxEvents /\ events' = events + 1

\* A client's upload, or a copy prepared for a peer's strict upload.
Add(f, as) ==
  /\ happens
  /\ phase[f] = "none"
  /\ availableBytes >= Reserve + Cardinality(Dag[f] \ disk)
  /\ phase' = [phase EXCEPT ![f] = as]
  /\ age' = Append(age, f)
  /\ disk' = disk \cup Dag[f]
  /\ UNCHANGED <<other, measured>>

Become(f, from, to) ==
  /\ phase[f] = from
  /\ phase' = [phase EXCEPT ![f] = to]
  /\ UNCHANGED <<age, disk, other, measured>>

\* The handler of an upload ends.
Settle(f) == Become(f, "inflight", "temporary") /\ UNCHANGED events

Change(f) ==
  /\ happens
  /\ \/ Become(f, "temporary", "confirmed") \/ Become(f, "staged", "confirmed")
     \/ Become(f, "temporary", "overdue") \/ Become(f, "staged", "overdue")
     \/ Become(f, "confirmed", "handed")

\* A read fetches a block of a handed-over file and leaves it in the cache.
Fetch(f) ==
  /\ happens
  /\ phase[f] = "handed"
  /\ availableBytes > 0
  /\ \E b \in Dag[f] \ disk : disk' = disk \cup {b}
  /\ UNCHANGED <<phase, age, other, measured>>

\* Other programs use the same volume.
OthersTake ==
  /\ happens
  /\ other < MaxOther /\ availableBytes > 0
  /\ other' = other + 1
  /\ UNCHANGED <<phase, age, disk, measured>>

Next ==
  \/ Measure \/ ReleaseOnly \/ Collect \/ CollectForced \/ CollectPartly \/ OthersTake
  \/ \E f \in Files : \/ Add(f, "inflight") \/ Add(f, "staged")
                      \/ Settle(f) \/ Change(f) \/ Fetch(f)

\* The collector runs on a schedule and handlers end.
Fairness == /\ WF_vars(Measure) /\ WF_vars(Collect) /\ WF_vars(ReleaseOnly)
            /\ \A f \in Files : WF_vars(Settle(f))

Spec == Init /\ [][Next]_vars /\ Fairness

-----------------------------------------------------------------------------
(* Properties *)

\* What the pressure of this state asks to be freed, in real units on disk.
relievedBy(D) ==
  /\ used > High => Cardinality(D) <= Low
  /\ availableBytes < Reserve =>
       4 * (Volume - other - Cardinality(D)) >= 5 * Reserve

Evicted == {f \in Files : phase[f] \in {"temporary", "inflight"}
                            /\ phase'[f] \in {"none", "expired"}}

\* The file evicted last.
youngest == Last(SelectSeq(age, LAMBDA f : f \in Evicted))

\* gc.ts 120-148: nobody loses a live upload for nothing.  Had the last of the
\* evicted files been kept, the blocks really left on disk would not have
\* relieved the pressure; nothing is evicted when the files that expire anyway
\* are enough, or without pressure.
EvictionNeeded ==
  Evicted # {} =>
    ~relievedBy(disk \cap blocksOf((Pinned \ (expired \cup Evicted)) \cup {youngest}))
EvictsNoMoreThanNeeded == [][EvictionNeeded]_vars

\* gc.ts 126-148: a pass that deletes what it released leaves the blockstore
\* at the low watermark, or the reserve and its margin free, unless no settled
\* temporary upload is left.
EvictionRelieves == Collect => relievedBy(disk') \/ In({"temporary"})' = {}
EvictsEnough == [][EvictionRelieves]_vars

\* gc.ts 131-137: no upload is evicted while an older one may be and stays.
EvictedInOrder ==
  \A i, j \in 1..Len(age) :
    i < j /\ age[j] \in Evicted /\ phase[age[i]] = "temporary" => age[i] \in Evicted
OldestFirst == [][EvictedInOrder]_vars

\* gc.ts 30-32 and 73: a live upload is only given up once it has settled and
\* a live stage never is, however short space is.
OwnedKept ==
  \A f \in In({"inflight", "staged", "confirmed"}) : phase'[f] \notin {"none", "expired"}
OwnedFilesKept == [][OwnedKept]_vars

Pressure == used > High \/ availableBytes < Reserve

\* gc.ts 119-128 and 463-468: when space is short, sooner or later it is not,
\* or nothing is left that the collector may delete or release; estimates that
\* were wrong and deletions that failed only cost another pass.
PressureEnds ==
  Pressure ~> \/ ~Pressure
              \/ /\ In({"inflight", "temporary", "overdue", "expired"}) = {}
                 /\ disk = blocksOf(Pinned)

\* gc.ts 92-95, the comment: "Count that space before selecting a live
\* temporary upload, or the planner evicts protected content to solve pressure
\* that the existing cache alone would have relieved".
CacheFirst == [][Evicted # {} => ~relievedBy(disk \cap blocksOf(Pinned))]_vars
=============================================================================
