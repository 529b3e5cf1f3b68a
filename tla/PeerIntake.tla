----------------------------- MODULE PeerIntake -----------------------------
(***************************************************************************)
(* What a peer may make this node pull in: the budgets that reservations   *)
(* are charged to (IntakeBudget) and the transfer that a reservation is    *)
(* made for (MeteredIntake), as cacheFileLocallyUnderLock of               *)
(* storage/service.ts puts them together.  The reservation is the limit    *)
(* of the transfer and its overshoot; the budget is settled with what the  *)
(* meter has counted.  Apart from that the two share no state.             *)
(***************************************************************************)
EXTENDS IntakeBudget, MeteredIntake

PeerIntakeInit == BudgetInit /\ MeterInit

PeerIntakeNext == \/ BudgetNext /\ UNCHANGED meterVars
                  \/ MeterNext /\ UNCHANGED budgetVars

PeerIntakeSpec == PeerIntakeInit /\ [][PeerIntakeNext]_<<budgetVars, meterVars>>

-----------------------------------------------------------------------------
\* service.ts 879: what a transfer is settled with was reserved for it, so a
\* settlement gives something back and never asks for more.
SettledWithinReservation == charged <= Limit + Overshoot

\* intakeBudget.ts, meter.ts, service.ts, cacheFileLocally: what peers make this
\* node pull in is limited and paid for.  In every trailing window no peer and no
\* set of peers gets more than its budget, only what was spent within a window and
\* a bucket counts, and the map stays bounded however many identities come by.
\* What one transfer brings exceeds its limit, and what it costs falls short of
\* it, by no more than the reads in flight; an aborted transfer is not free.
IntakePaid == /\ SpendBounded /\ OnlyRecentSpendCounts /\ MapBounded
              /\ OvershootBounded /\ PaidUpToInFlight /\ SettledWithinReservation
=============================================================================
