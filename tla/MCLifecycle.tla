---------------------------- MODULE MCLifecycle ----------------------------
(***************************************************************************)
(* Instances of FileLifecycle for its safety properties.  All faults, all  *)
(* jobs and all calls at once are beyond model checking; each scenario has *)
(* those that one question is about, and the contents and uploads it       *)
(* needs.  The constants of FileLifecycle itself cover all of them, so     *)
(* that a property of any such node is checked in every scenario.          *)
(***************************************************************************)
EXTENDS FileLifecycle, TLC

CONSTANTS c1, c2, r1, r2, t1, t2, t3

VARIABLE scenario

\* Two uploads of one content and everything that may meet them.
Uploads == INSTANCE NodeStores WITH
  Txs <- {}, Rejected <- {}, Legacy <- {},
  ConfirmationRequired <- FALSE, Strict <- TRUE,
  Calls <- {"confirm", "release", "store", "adopt", "disconnect"},
  Jobs <- {"gc", "repair"}, FaultyWrites <- {}, MaxFaults <- 0, MaxCrashes <- 0

\* Two uploads that may both bring both contents.
MultiFile == INSTANCE NodeStores WITH
  Txs <- {}, Rejected <- {}, Legacy <- {},
  ConfirmationRequired <- FALSE, Strict <- TRUE, Calls <- {"release"},
  Jobs <- {"gc"}, FaultyWrites <- {}, MaxFaults <- 0, MaxCrashes <- 0

\* Strict uploads of other nodes that prepare one content here.
Stages == INSTANCE NodeStores WITH
  Txs <- {t1, t2, t3}, Rejected <- {t2, t3},
  Legacy <- {}, ConfirmationRequired <- FALSE, Strict <- TRUE,
  Calls <- {"confirm", "release", "store", "adopt"},
  Jobs <- {"gc", "repair"}, FaultyWrites <- {}, MaxFaults <- 0, MaxCrashes <- 0

\* Crashes, restarts and a rejected release, with confirmation required.
Crash == INSTANCE NodeStores WITH
  Txs <- {}, Rejected <- {}, Legacy <- {},
  ConfirmationRequired <- TRUE, Strict <- FALSE, Calls <- {"confirm", "release"},
  Jobs <- {"gc", "repair"}, FaultyWrites <- {"release"}, MaxFaults <- 1,
  MaxCrashes <- 2

\* The datastore rejects one write of any kind but those of an undo and of the
\* removal of a stage by the collector.
Faults == INSTANCE NodeStores WITH
  Txs <- {t1, t2}, Rejected <- {t2}, Legacy <- {c1},
  ConfirmationRequired <- FALSE, Strict <- TRUE,
  Calls <- {"confirm", "release", "store", "adopt"}, Jobs <- {"gc", "repair"},
  FaultyWrites <- {"confirm", "store", "stage", "admit", "guard", "demote",
                   "gcRelease", "finalize", "settle"},
  MaxFaults <- 1, MaxCrashes <- 0

ASSUME /\ ConfigAssumption
       /\ Uploads!ConfigAssumption /\ MultiFile!ConfigAssumption
       /\ Stages!ConfigAssumption /\ Crash!ConfigAssumption /\ Faults!ConfigAssumption

In(s) == scenario = s

\* The contents that ever come here, and the uploads that are ever sent.
Contents == IF In("multi-file") THEN {c1, c2} ELSE {c1}
Uploaders == CASE In("stages") -> {} [] In("faults") -> {r1} [] OTHER -> {r1, r2}

OnlyThese == /\ blocks \subseteq Contents /\ aborted \subseteq Contents \X Txs
             /\ \A r \in Requests \ Uploaders : pc[r] = "idle"

ScenarioInit == \/ In("uploads") /\ Uploads!Init
                \/ In("multi-file") /\ MultiFile!Init
                \/ In("stages") /\ Stages!Init
                \/ In("crash") /\ Crash!Init
                \/ In("faults") /\ Faults!Init

ScenarioNext == /\ \/ In("uploads") /\ Uploads!Next
                   \/ In("multi-file") /\ MultiFile!Next
                   \/ In("stages") /\ Stages!Next
                   \/ In("crash") /\ Crash!Next
                   \/ In("faults") /\ Faults!Next
                /\ UNCHANGED scenario
                /\ OnlyThese'

Scenarios == ScenarioInit /\ [][ScenarioNext]_<<scenario, vars>>

\* Requests are interchangeable, and so are contents where there are two.
Symmetry == Permutations({r1, r2}) \cup Permutations({c1, c2})

-----------------------------------------------------------------------------
\* lifecycle.ts, rollback.ts, replicaStage.ts, gc.ts, uploadSession.ts: the three
\* stores agree, as far as NodeStores promises it of the node of each scenario.
StoresAgree ==
  /\ In("uploads") => Uploads!StoresAgree
  /\ In("multi-file") => MultiFile!StoresAgree
  /\ In("stages") => Stages!StoresAgree
  /\ In("crash") => Crash!StoresAgree
  /\ In("faults") => Faults!StoresAgree

\* backfill.ts, pin intents; replicaStage.ts, commit: content becomes confirmed by a
\* decision only, never by an upload that a crash interrupted, and the commit that
\* confirms a prepared copy acknowledges one that still has its pin.  The scenario
\* with crashes has one content: the refused retry of an interrupted upload of two
\* contents drops the marker of the first (README, further counterexamples).
ConfirmedRightly ==
  [][/\ In("uploads") => Uploads!ConfirmedDecided
     /\ In("multi-file") => MultiFile!ConfirmedDecided
     /\ In("stages") => Stages!ConfirmedDecided /\ CommittedPinned
     /\ In("crash") => Crash!ConfirmedDecided
     /\ In("faults") => Faults!ConfirmedDecided /\ CommittedPinned]_vars
=============================================================================
