---------------------------- MODULE MeteredIntake ----------------------------
(***************************************************************************)
(* One transfer of a copy from a peer: the meter of storage/meter.ts under *)
(* the reader that cacheFileLocally of storage/service.ts drains.          *)
(*                                                                         *)
(* A few blocks are read at a time.  A block is stored before the meter    *)
(* can count it, so the limit is noticed late; when one read fails the     *)
(* transfer, the others are not cancelled.  Sizes are units of a block.    *)
(***************************************************************************)
EXTENDS Naturals, FiniteSets

CONSTANTS Readers,    \* INTAKE_READ_CONCURRENCY of them
          MaxBlock,   \* MAX_BLOCK_BYTES
          Limit       \* limitBytes of the transfer

IntakeAssumption ==
  /\ IsFiniteSet(Readers) /\ Readers # {}
  /\ MaxBlock \in Nat \ {0} /\ Limit \in Nat

\* INTAKE_OVERSHOOT_BYTES: what is claimed on disk and reserved on top.
Overshoot == Cardinality(Readers) * MaxBlock

VARIABLES phase,     \* of the transfer
          read,      \* what each reader waits for
          size,      \* of the block each reader holds
          arrived,   \* bytes that came in and are on disk
          progress,  \* bytes the meter has counted
          charged    \* what the peer's budget was settled with

meterVars == <<phase, read, size, arrived, progress, charged>>

MeterInit == /\ phase = "running"
             /\ read = [i \in Readers |-> "idle"]
             /\ size = [i \in Readers |-> 0]
             /\ arrived = 0 /\ progress = 0 /\ charged = 0

-----------------------------------------------------------------------------
\* The exporter asks for another block of the DAG.
Ask(i) ==
  /\ phase = "running" /\ read[i] = "idle"
  /\ read' = [read EXCEPT ![i] = "asked"]
  /\ UNCHANGED <<phase, size, arrived, progress, charged>>

\* The block is fetched, or found on disk, whole.
Arrive(i, s) ==
  /\ read[i] = "asked"
  /\ read' = [read EXCEPT ![i] = "stored"]
  /\ size' = [size EXCEPT ![i] = s]
  /\ arrived' = arrived + s
  /\ UNCHANGED <<phase, progress, charged>>

\* The meter counts it, and fails the transfer over the limit.
Count(i) ==
  /\ read[i] = "stored"
  /\ read' = [read EXCEPT ![i] = "idle"]
  /\ size' = [size EXCEPT ![i] = 0]
  /\ progress' = progress + size[i]
  /\ phase' = IF phase = "running" /\ progress' > Limit THEN "failed" ELSE phase
  /\ UNCHANGED <<arrived, charged>>

\* The whole DAG has been read.
Drained ==
  /\ phase = "running" /\ \A i \in Readers : read[i] = "idle"
  /\ phase' = "drained"
  /\ UNCHANGED <<read, size, arrived, progress, charged>>

\* A block cannot be had, or the time of the transfer is up.
FailTransfer ==
  /\ phase = "running"
  /\ phase' = "failed"
  /\ UNCHANGED <<read, size, arrived, progress, charged>>

\* A read that nobody waits for any more ends without its block.
GiveUp(i) ==
  /\ phase # "running" /\ read[i] = "asked"
  /\ read' = [read EXCEPT ![i] = "idle"]
  /\ UNCHANGED <<phase, size, arrived, progress, charged>>

\* The finally of cacheFileLocally: the claim on disk space, the slot and the
\* rest of the reservation go back.
Settle ==
  /\ phase \in {"drained", "failed"}
  /\ phase' = "settled"
  /\ charged' = progress
  /\ UNCHANGED <<read, size, arrived, progress>>

MeterNext == \/ Drained \/ FailTransfer \/ Settle
             \/ \E i \in Readers : \/ Ask(i) \/ Count(i) \/ GiveUp(i)
                                   \/ \E s \in 1..MaxBlock : Arrive(i, s)

MeterSpec == MeterInit /\ [][MeterNext]_meterVars

-----------------------------------------------------------------------------
(* Properties *)

\* meter.ts 34-43 and 62-65: what arrives never exceeds the limit by more than
\* the reads in flight, so the space claimed for the transfer was enough.
OvershootBounded == arrived <= Limit + Overshoot

\* service.ts 885-892: a transfer costs its peer what arrived for it, up to
\* the reads that were in flight when it ended; an aborted one is not free.
PaidUpToInFlight ==
  phase = "settled" => arrived <= charged + Overshoot

\* service.ts 890: the budget is settled with "What actually crossed the
\* network, finished or not".
ChargedIsWhatArrived == phase = "settled" => charged = arrived
=============================================================================
