----------------------------- MODULE NodeStores -----------------------------
(***************************************************************************)
(* What the three stores of a node - registry records, pins and blocks -   *)
(* promise each other whenever nobody holds the lock of a content, and on  *)
(* which nodes: rejected writes, crashes, pins older than the registry and *)
(* clients that hang up each cost one of the promises.                     *)
(***************************************************************************)
EXTENDS FileLifecycle

\* No write fails, the process does not die, and no pin is older than the registry.
Undisturbed == MaxFaults = 0 /\ MaxCrashes = 0 /\ Legacy = {}

\* The catch blocks that put a pin back where the blocks may be gone by then, or
\* that a second rejected write leaves half done.
Unrestored == {"undo", "abort", "rescue", "release", "gcStage", "baseline"}

\* Writes may fail but for those, and pins may be older than the registry if no
\* collection is asked for before they are recorded.
Tolerable ==
  /\ MaxCrashes = 0
  /\ Legacy = {} \/ "collect" \notin Calls
  /\ MaxFaults = 0 \/ (FaultyWrites \cap Unrestored = {} /\ "disconnect" \notin Calls)

\* lifecycle.ts, rollback.ts, replicaStage.ts, gc.ts, uploadSession.ts: the three
\* stores agree.  While no write fails and the node stays up, a pin belongs to a
\* record that says so.  Whenever nobody holds the CID's lock, a record that says
\* "held here" is backed by a pin, also after a rejected write.  Neither Helia's
\* collection nor the cleanup of a refused upload deletes blocks under a pin;
\* clients stay connected for this part, the cleanup after a disconnect is the
\* subject of BlockSessions.
StoresAgree ==
  /\ Undisturbed => NoOrphanPin
  /\ Tolerable => Protected
  /\ "disconnect" \notin Calls => PinnedIsStored
=============================================================================
