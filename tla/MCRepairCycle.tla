---------------------------- MODULE MCRepairCycle ----------------------------
(***************************************************************************)
(* Two instances of RepairCycle.  In one the datastore fails and two       *)
(* records come and go, so that the failure budget runs out; in the other  *)
(* it works and there are three records, so that the catch-up rounds do.   *)
(* Both at once are beyond model checking.                                 *)
(***************************************************************************)
EXTENDS RepairCycle

VARIABLE scenario

FewRecords == {1, 2}

MCInit == /\ scenario \in {"faults", "rounds"} /\ Init
          /\ scenario = "faults" => cand \subseteq FewRecords

MCNext == /\ Next /\ UNCHANGED scenario
          /\ scenario = "faults" => cand' \subseteq FewRecords
          /\ scenario = "rounds" => faults' = 0

MCSpec == MCInit /\ [][MCNext]_<<vars, scenario>> /\ Fairness
=============================================================================
