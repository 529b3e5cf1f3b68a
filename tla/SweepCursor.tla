----------------------------- MODULE SweepCursor -----------------------------
(***************************************************************************)
(* The position of the handover sweep: nextSweepBatch of storage/sweep.ts  *)
(* and its call in demoteReleasableCopies.                                 *)
(*                                                                         *)
(* Each pass looks at the next few candidates in CID order and remembers   *)
(* the last one.  Candidates come and go between the passes, that last one *)
(* included; a dry run must not take the batch it shows.  CIDs are         *)
(* numbered by their place in the order.                                   *)
(***************************************************************************)
EXTENDS Naturals, FiniteSets, FiniteSetsExt

CONSTANTS Cids,        \* positive numbers
          Size,        \* SWEEP_BATCHES.demote
          MaxRestarts  \* bound: restarts of the process

SweepAssumption == Cids \subseteq Nat \ {0} /\ IsFiniteSet(Cids) /\ Size \in Nat \ {0}

Start == 0   \* no cursor

VARIABLES candidates,  \* settled files held here
          cursor,      \* CID the last pass stopped at, or Start
          due,         \* history: candidates since the cycle began, not looked at yet
          batch,       \* history: what the last real pass took
          restarts

sweepVars == <<candidates, cursor, due, batch, restarts>>

SweepInit == /\ candidates \in SUBSET Cids
             /\ cursor = Start /\ due = candidates /\ batch = {} /\ restarts = 0

\* Where a pass resumes, also when the record of the cursor has gone.
After(from) == {c \in candidates : c > from}

sweepBatch(from) == {c \in After(from) : Cardinality({d \in After(from) : d < c}) < Size}

\* An empty batch with candidates left starts a new cycle.
Selected ==
  LET from == IF After(cursor) = {} THEN Start ELSE cursor
  IN [records |-> sweepBatch(from), rest |-> After(from)]

completed == Selected.rest \subseteq Selected.records

\* Mutant: a dry run moves the position as well.
DryRunAdvances == /\ cursor' = IF completed THEN Start ELSE Max(Selected.records)
                  /\ UNCHANGED <<candidates, due, batch, restarts>>

\* A dry run reports the batch without taking it.
DryRun == UNCHANGED sweepVars

Pass ==
  /\ batch' = Selected.records
  /\ cursor' = IF completed THEN Start ELSE Max(Selected.records)
  /\ due' = IF completed THEN candidates
            ELSE (IF After(cursor) = {} THEN candidates ELSE due) \ Selected.records
  /\ UNCHANGED <<candidates, restarts>>

\* Files settle here, and leave by a handover, a release or an upload that
\* makes them busy.
Appear(c) == /\ c \notin candidates
             /\ candidates' = candidates \cup {c}
             /\ UNCHANGED <<cursor, due, batch, restarts>>

Vanish(c) == /\ c \in candidates
             /\ candidates' = candidates \ {c} /\ due' = due \ {c}
             /\ UNCHANGED <<cursor, batch, restarts>>

\* The position is kept in memory only.
Restart == /\ restarts < MaxRestarts
           /\ restarts' = restarts + 1
           /\ cursor' = Start /\ due' = candidates
           /\ UNCHANGED <<candidates, batch>>

SweepNext == \/ Pass \/ DryRun \/ Restart
             \/ \E c \in Cids : Appear(c) \/ Vanish(c)

\* The collector is scheduled; files settle and leave as they like.
SweepFairness == WF_sweepVars(Pass)

SweepSpec == SweepInit /\ [][SweepNext]_sweepVars /\ SweepFairness

-----------------------------------------------------------------------------
\* A cycle that completes has looked at every file that was there when it
\* began and stayed, although the cursor is only a position and files come
\* and go on both sides of it.
CycleCovers == [][Pass /\ (completed \/ After(cursor) = {}) => due \subseteq batch']_sweepVars

\* A file that stays is looked at again and again by real passes, whatever
\* comes and goes around it and however often an operator previews.
EveryFileVisited ==
  \A c \in Cids : <>[](c \in candidates) => []<>(c \in batch)

\* A pass takes something whenever there is something to take.
NoEmptyPass == [][batch' # batch /\ batch' = {} => candidates = {}]_sweepVars
=============================================================================
