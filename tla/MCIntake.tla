------------------------------ MODULE MCIntake ------------------------------
(***************************************************************************)
(* What comes into a node and what it may cost: slots, disk space and the  *)
(* lease (UploadAdmission), the blocks of concurrent imports               *)
(* (BlockSessions), the budgets of peers and the meter of one transfer     *)
(* (PeerIntake).  They share no state; each behaviour is of one of them,   *)
(* the others stay in their initial states.                                *)
(***************************************************************************)
EXTENDS UploadAdmission, BlockSessions, PeerIntake, Integers, TLC

CONSTANTS u1, u2, k1, s1, s2, b1, b2, p1, p2, p3, total, i1, i2, i3

VARIABLE part

\* A second upload finds the only slot taken.
Crowded == INSTANCE UploadAdmission WITH MaxUploads <- 1

\* Uploads of the same two blocks, of one block twice, or of one and the other.
Overlapping == [{s1, s2} -> {1 :> b1 @@ 2 :> b1, 1 :> b1 @@ 2 :> b2}]

ASSUME /\ BoundAssumption /\ Crowded!BoundAssumption /\ SessionAssumption
       /\ WindowAssumption /\ IntakeAssumption

intakeVars == <<part, vars, sessionVars, budgetVars, meterVars>>

IntakeInit ==
  /\ part \in {"admission", "crowded", "blocks", "budget", "meter"}
  /\ Init /\ PeerIntakeInit /\ SessionsInit
  /\ Stored \subseteq {b2}
  /\ part # "blocks" => BlockOf = [s \in Sessions |-> [i \in Puts |-> b1]] /\ Stored = {}

IntakeNext ==
  /\ UNCHANGED part
  /\ \/ part = "admission" /\ Next /\ UNCHANGED <<sessionVars, budgetVars, meterVars>>
     \/ part = "crowded" /\ Crowded!Next /\ UNCHANGED <<sessionVars, budgetVars, meterVars>>
     \/ part = "blocks" /\ SessionsNext /\ UNCHANGED <<vars, budgetVars, meterVars>>
     \/ part = "budget" /\ BudgetNext /\ UNCHANGED <<vars, sessionVars, meterVars>>
     \/ part = "meter" /\ MeterNext /\ UNCHANGED <<vars, sessionVars, budgetVars>>

IntakeSpec == IntakeInit /\ [][IntakeNext]_intakeVars
=============================================================================
