------------------------------- MODULE MCNode -------------------------------
(***************************************************************************)
(* Work on one node that runs beside the requests and must come to an end: *)
(* downloads, the collector with its plan and its wait for the lease, and  *)
(* startup and shutdown.  They share no state; each behaviour is of one of *)
(* them, the others stay in their initial states.                          *)
(***************************************************************************)
EXTENDS Downloads, NodeShutdown, Integers, TLC

CONSTANTS r1, r2, r3, c1, c2,                \* downloads and their clients
          f1, f2, f3, b1, b2, b3, b4,        \* files and blocks
          u1, u2, collect, repair, plain, int, term

VARIABLES part,  \* the component that moves
          \* CollectionPlan
          filePhase, age, disk, other, measured, events,
          \* UploadAdmission
          upload, declared, open, released, lease, claim, written, reading,
          uploading, copying, claimed, free, gc, stale

TwoAndOne == r1 :> c1 @@ r2 :> c1 @@ r3 :> c2

\* Three files without a block in common, measured and planned in one step.
Plan == INSTANCE CollectionPlan WITH
  Files <- {f1, f2, f3}, Blocks <- {b1, b2, b3, b4},
  Dag <- f1 :> {b1} @@ f2 :> {b2} @@ f3 :> {b3, b4},
  High <- 2, Low <- 1, Volume <- 6, Reserve <- 2, MaxOther <- 2, MaxEvents <- 7,
  SlowMeasure <- FALSE, phase <- filePhase

\* f1 and f2 have the same content, f3 is part of it, and the world moves between
\* measuring and planning.
Shared == INSTANCE CollectionPlan WITH
  Files <- {f1, f2, f3}, Blocks <- {b1, b2, b3},
  Dag <- f1 :> {b1, b2} @@ f2 :> {b1, b2} @@ f3 :> {b2, b3},
  High <- 2, Low <- 1, Volume <- 5, Reserve <- 2, MaxOther <- 2, MaxEvents <- 6,
  SlowMeasure <- TRUE, phase <- filePhase

\* Uploads that keep the collector waiting.
Uploads == INSTANCE UploadAdmission WITH
  Uploads <- {u1, u2}, Copies <- {}, MaxUploads <- 1, MaxCopies <- 1,
  MaxRequest <- 2, CopyClaim <- 2, Capacity <- 4, Reserve <- 1,
  pc <- upload, measured <- reading

ASSUME Plan!PlanAssumption /\ Shared!PlanAssumption /\ Uploads!BoundAssumption

plan    == <<filePhase, age, disk, other, measured, events>>
uploads == <<upload, declared, open, released, lease, claim, written, reading,
             uploading, copying, claimed, free, gc, stale>>
all     == <<part, vars, shutdownVars, plan, uploads>>

NodeInit == /\ part \in {"downloads", "plan", "shared", "uploads", "shutdown"}
            /\ Init /\ Plan!Init /\ Uploads!Init /\ ShutdownInit

NodeNext ==
  /\ UNCHANGED part
  /\ \/ part = "downloads" /\ Next /\ UNCHANGED <<plan, uploads, shutdownVars>>
     \/ part = "plan" /\ Plan!Next /\ UNCHANGED <<vars, uploads, shutdownVars>>
     \/ part = "shared" /\ Shared!Next /\ UNCHANGED <<vars, uploads, shutdownVars>>
     \/ part = "uploads" /\ Uploads!Next /\ UNCHANGED <<vars, plan, shutdownVars>>
     \/ part = "shutdown" /\ ShutdownNext /\ UNCHANGED <<vars, plan, uploads>>

NodeSpec == NodeInit /\ [][NodeNext]_all

-----------------------------------------------------------------------------
\* timedStream.ts, downloadResponse.ts, downloadAdmission.ts: a slot is held for the
\* whole response and not longer; a response that ends like a success carries the
\* whole file; nothing is fetched for a client that has left; and, with timers
\* that fire and clients that read or leave, every download ends, although peers
\* stall in the middle of a file.
DownloadsSound ==
  /\ [](SlotSpansResponse /\ CompleteOrBroken)
  /\ NoFetchForTheDeparted
  /\ part = "downloads" /\ NodeFairness /\ ClientFairness => DownloadEnds

\* gc.ts 30-32, 73 and 119-148: nobody loses a live upload for nothing, had the
\* last of the evicted files been kept, the pressure would have stayed; a pass
\* that deletes what it released relieves it, unless no settled temporary upload
\* is left; none is evicted while an older one may be and stays; and an upload
\* under way or a live stage never is, however short space is.
EvictionJust ==
  [][/\ part = "plan" => /\ Plan!EvictionNeeded /\ Plan!EvictionRelieves
                         /\ Plan!EvictedInOrder /\ Plan!OwnedKept
     /\ part = "shared" => Shared!EvictedInOrder /\ Shared!OwnedKept]_all

\* operationLock.ts, uploadAdmission.ts, gc.ts, with handlers that end and
\* collections that go on: a collection that asked for the lease gets it, wherever
\* clients hang up; and when space is short, sooner or later it is not, or nothing
\* is left that the collector may delete, although files share blocks and
\* estimates are wrong.
CollectorWorks ==
  /\ part = "uploads" /\ Uploads!Fairness => Uploads!CollectorServed
  /\ part = "shared" /\ Shared!Fairness => Shared!PressureEnds

\* index.ts: a node whose reconciliation failed still gets its collector, and a
\* signal ends the process, whatever hangs.
StartsAndStops ==
  part = "shutdown" /\ ShutdownFairness => JobsStart /\ ShutdownEnds
=============================================================================
