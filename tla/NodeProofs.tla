----------------------------- MODULE NodeProofs -----------------------------
(***************************************************************************)
(* Proofs about work that must come to an end, for any number of requests, *)
(* clients and signals.  Downloads: slots are held exactly as long as the  *)
(* response is open, and the limiter and the per-client map count them.    *)
(* NodeShutdown: repair and checkpoints keep to the time in which a node   *)
(* has reconciled its registry and Helia is up.                            *)
(***************************************************************************)
EXTENDS Downloads, NodeShutdown, FiniteSetTheorems, TLAPS

-----------------------------------------------------------------------------
(* Downloads *)

of(c) == {r \in held : ClientOf[r] = c}

\* The counters are those of a finite set of requests.
Counted ==
  /\ held \in SUBSET Requests /\ IsFiniteSet(held)
  /\ active = Cardinality(held)
  /\ heldPerClient = [c \in Clients |-> Cardinality(of(c))]

\* A response exists once its request was admitted.
Responses ==
  /\ res \in [Requests -> {"none", "open", "ended", "finished", "closed"}]
  /\ \A r \in Requests : pc[r] = "idle" => res[r] = "none"
  /\ pc \in [Requests -> {"idle", "refused", "prepare", "stat", "found", "stream", "done"}]

Inv == Counted /\ Responses /\ SlotSpansResponse

LEMMA OfFinite ==
  ASSUME Counted, NEW c
  PROVE  IsFiniteSet(of(c)) /\ Cardinality(of(c)) \in Nat
<1>1. of(c) \subseteq held  BY DEF of
<1> QED  BY <1>1, FS_Subset, FS_CardinalityType DEF Counted

\* Counters at zero would stay there; a request that holds is counted.
LEMMA ReleaseCounted ==
  ASSUME Counted, NEW r \in Requests, release(r)
  PROVE  Counted' /\ held' = held \ {r}
<1>1. CASE r \notin held
  <2>1. UNCHANGED slots /\ held' = held \ {r}  BY <1>1 DEF release, slots
  <2> QED  BY <2>1 DEF Counted, of, slots
<1>2. CASE r \in held
  <2>0. /\ held' = held \ {r}
        /\ active' = IF active > 0 THEN active - 1 ELSE 0
        /\ heldPerClient' = [heldPerClient EXCEPT ![ClientOf[r]] = IF @ > 1 THEN @ - 1 ELSE 0]
    BY <1>2 DEF release
  <2>1. held' \in SUBSET Requests /\ IsFiniteSet(held')
    BY <2>0, FS_RemoveElement DEF Counted
  <2>2. active' = Cardinality(held')
    <3>1. Cardinality(held \ {r}) = Cardinality(held) - 1
      BY <1>2, FS_RemoveElement DEF Counted
    <3>2. Cardinality(held) \in Nat /\ Cardinality(held \ {r}) \in Nat
      BY <2>0, <2>1, FS_CardinalityType DEF Counted
    <3> QED  BY <2>0, <3>1, <3>2 DEF Counted
  <2>3. heldPerClient' = [c \in Clients |-> Cardinality(of(c)')]
    <3> DEFINE k == ClientOf[r]
    <3>1. k \in Clients  BY DownloadAssumption
    <3>2. ASSUME NEW c \in Clients \ {k} PROVE heldPerClient'[c] = Cardinality(of(c)')
      <4>1. of(c)' = of(c)  BY <2>0 DEF of
      <4> QED  BY <4>1, <2>0 DEF Counted
    <3>3. heldPerClient'[k] = Cardinality(of(k)')
      <4>1. of(k)' = of(k) \ {r} /\ r \in of(k)  BY <1>2, <2>0 DEF of
      <4>2. Cardinality(of(k) \ {r}) = Cardinality(of(k)) - 1
        BY <4>1, OfFinite, FS_RemoveElement
      <4>3. IsFiniteSet(of(k) \ {r})  BY OfFinite, FS_RemoveElement
      <4>4. Cardinality(of(k) \ {r}) \in Nat  BY <4>3, FS_CardinalityType
      <4>5. heldPerClient[k] = Cardinality(of(k)) /\ Cardinality(of(k)) \in Nat
        BY <3>1, OfFinite DEF Counted
      <4>6. heldPerClient'[k] = IF heldPerClient[k] > 1 THEN heldPerClient[k] - 1 ELSE 0
        BY <2>0, <3>1 DEF Counted
      <4>7. heldPerClient'[k] = heldPerClient[k] - 1
        BY <4>2, <4>4, <4>5, <4>6
      <4> QED  BY <4>1, <4>2, <4>5, <4>7
    <3>4. heldPerClient' = [c \in Clients |-> heldPerClient'[c]]  BY <2>0 DEF Counted
    <3> QED  BY <3>2, <3>3, <3>4
  <2> QED  BY <2>0, <2>1, <2>2, <2>3 DEF Counted
<1> QED  BY <1>1, <1>2

LEMMA AdmitCounted ==
  ASSUME Inv, NEW r \in Requests, Admit(r)
  PROVE  Counted' /\ held' = held \cup {r}
<1>0. /\ held' = held \cup {r}
      /\ active' = active + 1
      /\ heldPerClient' = [heldPerClient EXCEPT ![ClientOf[r]] = @ + 1]
  BY DEF Admit
<1>1. r \notin held  BY DEF Inv, Admit, Responses, SlotSpansResponse
<1>2. held' \in SUBSET Requests /\ IsFiniteSet(held')
  BY <1>0, FS_AddElement DEF Inv, Counted
<1>3. active' = Cardinality(held')  BY <1>0, <1>1, FS_AddElement DEF Inv, Counted
<1>4. heldPerClient' = [c \in Clients |-> Cardinality(of(c)')]
  <2> DEFINE k == ClientOf[r]
  <2>1. k \in Clients  BY DownloadAssumption
  <2>2. ASSUME NEW c \in Clients \ {k} PROVE heldPerClient'[c] = Cardinality(of(c)')
    <3>1. of(c)' = of(c)  BY <1>0 DEF of
    <3> QED  BY <3>1, <1>0 DEF Inv, Counted
  <2>3. heldPerClient'[k] = Cardinality(of(k)')
    <3>1. of(k)' = of(k) \cup {r} /\ r \notin of(k)  BY <1>0, <1>1 DEF of
    <3>2. Cardinality(of(k) \cup {r}) = Cardinality(of(k)) + 1
      BY <3>1, OfFinite, FS_AddElement DEF Inv
    <3> QED  BY <3>1, <3>2, <2>1, <1>0 DEF Inv, Counted
  <2>4. heldPerClient' = [c \in Clients |-> heldPerClient'[c]]  BY <1>0 DEF Inv, Counted
  <2> QED  BY <2>2, <2>3, <2>4
<1> QED  BY <1>0, <1>2, <1>3, <1>4 DEF Counted

LEMMA InitInv == Init => Inv
<1> SUFFICES ASSUME Init PROVE Inv  OBVIOUS
<1>1. \A c \in Clients : of(c) = {}  BY DEF Init, of
<1>2. IsFiniteSet({}) /\ Cardinality({}) = 0  BY FS_EmptySet
<1> QED  BY <1>1, <1>2 DEF Init, Inv, Counted, Responses, SlotSpansResponse

\* Only admission, the end of a response and a torn stream move a slot.
LEMMA StepInv == Inv /\ [Next]_vars => Inv'
<1> SUFFICES ASSUME Inv, [Next]_vars PROVE Inv'  OBVIOUS
<1>1. ASSUME UNCHANGED <<res, held, active, heldPerClient>>, Responses' PROVE Inv'
  BY <1>1 DEF Inv, Counted, of, SlotSpansResponse
<1>2. CASE UNCHANGED vars  BY <1>1, <1>2 DEF vars, Inv, Responses
<1>3. ASSUME NEW r \in Requests, Admit(r) PROVE Inv'
  <2>1. Counted' /\ held' = held \cup {r}  BY <1>3, AdmitCounted
  <2>2. Responses'  BY <1>3 DEF Admit, Inv, Responses
  <2>3. SlotSpansResponse'  BY <1>3, <2>1 DEF Admit, Inv, Responses, SlotSpansResponse
  <2> QED  BY <2>1, <2>2, <2>3 DEF Inv
<1>4. ASSUME NEW r \in Requests, Refuse(r) PROVE Inv'
  BY <1>1, <1>4 DEF Refuse, slots, Inv, Responses
<1>5. ASSUME NEW r \in Requests, Prepared(r) PROVE Inv'
  BY <1>1, <1>5 DEF Prepared, slots, Inv, Responses
<1>6. ASSUME NEW r \in Requests, StatFound(r) PROVE Inv'
  BY <1>1, <1>6 DEF StatFound, slots, Inv, Responses
<1>7. ASSUME NEW r \in Requests, OpenStream(r) PROVE Inv'
  BY <1>1, <1>7 DEF OpenStream, slots, Inv, Responses
<1>8. ASSUME NEW r \in Requests, Chunk(r) \/ Read(r) \/ Timeout(r) PROVE Inv'
  BY <1>1, <1>8 DEF Chunk, Read, Timeout, slots, Inv, Responses
\* An ended response still holds its slot.
<1>9. ASSUME NEW r \in Requests, NEW what, endWith(r, what), UNCHANGED slots,
             \/ pc' = pc
             \/ pc' = [pc EXCEPT ![r] = "done"]
      PROVE  Inv'
  <2>1. Counted'  BY <1>9 DEF Inv, Counted, of, slots
  <2>2. Responses'  BY <1>9 DEF endWith, Inv, Responses
  <2>3. SlotSpansResponse'
    BY <1>9 DEF endWith, slots, Inv, Responses, SlotSpansResponse
  <2> QED  BY <2>1, <2>2, <2>3 DEF Inv
<1>10. ASSUME NEW r \in Requests, StatFails(r) \/ NotModified(r) \/ StreamEnds(r) PROVE Inv'
  BY <1>9, <1>10 DEF StatFails, NotModified, StreamEnds
\* A response that closes or finishes gives its slot back.
<1>11. ASSUME NEW r \in Requests, NEW end \in {"finished", "closed"}, release(r),
              pc' = pc, res' = [res EXCEPT ![r] = end],
              res[r] # "none"
       PROVE  Inv'
  <2>1. Counted' /\ held' = held \ {r}  BY <1>11, ReleaseCounted DEF Inv
  <2>2. Responses'  BY <1>11 DEF Inv, Responses
  <2>3. SlotSpansResponse'  BY <1>11, <2>1 DEF Inv, Responses, SlotSpansResponse
  <2> QED  BY <2>1, <2>2, <2>3 DEF Inv
<1>12. ASSUME NEW r \in Requests, StreamFails(r) PROVE Inv'
  <2>1. CASE sent[r] > 0 /\ res[r] = "open" /\ res' = [res EXCEPT ![r] = "closed"] /\ release(r)
    BY <1>11, <1>12, <2>1 DEF StreamFails
  <2>2. CASE endWith(r, "error") /\ UNCHANGED slots
    BY <1>9, <1>12, <2>2 DEF StreamFails
  <2> QED  BY <1>12, <2>1, <2>2 DEF StreamFails
<1>13. ASSUME NEW r \in Requests, Finish(r) PROVE Inv'
  BY <1>11, <1>13 DEF Finish
<1>14. ASSUME NEW r \in Requests, Close(r) PROVE Inv'
  BY <1>11, <1>14 DEF Close
<1> QED
  BY <1>2, <1>3, <1>4, <1>5, <1>6, <1>7, <1>8, <1>10, <1>12, <1>13, <1>14 DEF Next

LEMMA SpecInv == Spec => []Inv
BY InitInv, StepInv, PTL DEF Spec

\* downloadAdmission.ts 31-33: the limiter and the per-client map agree with
\* the downloads that run, for any number of clients and requests.
THEOREM SlotsCounted == Spec => []SlotsMatch
<1>1. Inv => SlotsMatch  BY DEF Inv, Counted, SlotsMatch, of
<1> QED  BY <1>1, SpecInv, PTL

\* docs/storage-lifecycle.md, "Download admission": a slot is held for the
\* whole response, and given back with it.
THEOREM SlotsSpan == Spec => []SlotSpansResponse
<1>1. Inv => SlotSpansResponse  BY DEF Inv
<1> QED  BY <1>1, SpecInv, PTL

-----------------------------------------------------------------------------
(* Shutdown *)

Connections == {"none", "open", "answered", "cut"}

ShutdownTypeOK ==
  /\ recon \in {"pending", "done", "failed"}
  /\ jobs \in BOOLEAN
  /\ cron \subseteq {"gc", "repair"}
  /\ passes \subseteq Passes
  /\ stopped \in BOOLEAN /\ continuation \in BOOLEAN
  /\ stopping \in BOOLEAN /\ rerunRequested \in BOOLEAN
  /\ conn \in [AllRequests -> Connections]
  /\ server \in {"listening", "closing", "closed"}
  /\ phase \in [Signals -> {"none", "closing", "helia"}]
  /\ waits \in [Signals -> SUBSET Passes]
  /\ timers \subseteq {"idle", "force"}
  /\ helia \in {"up", "stopping", "down"}
  /\ exit \in {"none", "clean", "forced"} /\ early \in BOOLEAN

\* What Helia's stop waits for.
Awaited == passes \cap {"repair", "checkpoint"}

Signalled == \E s \in Signals : phase[s] # "none"

\* Until startLifecycleJobs has run nothing starts repair.
BeforeJobs == ~jobs => stopped /\ ~continuation /\ "repair" \notin cron \cup passes

\* A signal that comes after the jobs have started leaves nothing that could
\* start a pass or a checkpoint, and no door for another request.
Stopped == Signalled =>
  /\ jobs /\ stopped /\ ~continuation /\ "repair" \notin cron
  /\ stopping /\ ~rerunRequested
  /\ server # "listening"

\* Each shutdown waits for all that still runs, and goes on when it is done.
Waiting == \A s \in Signals :
  /\ phase[s] = "closing" => Awaited \subseteq waits[s]
  /\ phase[s] = "helia" => helia # "up"

Closed == server = "closed" => \A r \in AllRequests : conn[r] # "open"

Quiet == helia # "up" => Signalled /\ server = "closed" /\ Awaited = {}

Base == ShutdownTypeOK /\ BeforeJobs /\ (jobs => recon # "pending") /\ Closed
Orderly  == ~early => Stopped /\ Waiting /\ Quiet

IInv == Base /\ Orderly

\* All steps but those of a shutdown.
Work == \/ Reconciled \/ startLifecycleJobs
        \/ CollectTick \/ RepairTick \/ Continue \/ CheckpointTick
        \/ RepairEnds \/ CollectEnds \/ CheckpointEnds
        \/ \E r \in CollectRequests : RequestCollection(r)
        \/ \E r \in RepairRequests : RequestRepair(r)
        \/ \E r \in PlainRequests : Request(r) \/ Answer(r)
        \/ CloseIdle \/ ServerCloses \/ ForceExit

-----------------------------------------------------------------------------
LEMMA Initially == ShutdownInit => IInv
<1> SUFFICES ASSUME ShutdownInit PROVE IInv
  OBVIOUS
<1>1. ShutdownTypeOK
  BY DEF ShutdownInit, ShutdownTypeOK, Passes, Connections
<1>2. BeforeJobs /\ (jobs => recon # "pending")
  BY DEF ShutdownInit, BeforeJobs
<1>3. ~Signalled
  BY DEF ShutdownInit, Signalled
<1>4. Stopped /\ Waiting /\ Closed /\ Quiet
  BY <1>3 DEF ShutdownInit, Stopped, Waiting, Closed, Quiet
<1> QED
  BY <1>1, <1>2, <1>4 DEF IInv, Base, Orderly

LEMMA NextSplit ==
  ASSUME [ShutdownNext]_shutdownVars
  PROVE  \/ UNCHANGED shutdownVars \/ Work
         \/ \E s \in Signals : Shutdown(s) \/ StopHelia(s) \/ Exit(s)
BY DEF ShutdownNext, Work

LEMMA TypeStep == ShutdownTypeOK /\ [ShutdownNext]_shutdownVars => ShutdownTypeOK'
<1> SUFFICES ASSUME ShutdownTypeOK, [ShutdownNext]_shutdownVars PROVE ShutdownTypeOK'
  OBVIOUS
<1>0. /\ {"gc", "repair", "checkpoint"} \subseteq Passes
      /\ \A p \in Passes : passes \cup {p} \subseteq Passes /\ passes \ {p} \subseteq Passes
      /\ \A p : [s \in Signals |-> waits[s] \ {p}] \in [Signals -> SUBSET Passes]
  BY DEF ShutdownTypeOK, Passes
<1>1. CASE UNCHANGED shutdownVars
  BY <1>1 DEF ShutdownTypeOK, shutdownVars, driver, health, down
<1>2. CASE Reconciled
  <2>1. passes' \subseteq Passes /\ rerunRequested' \in BOOLEAN
    BY <1>0, <1>2 DEF Reconciled, scheduleCheckpoint, ShutdownTypeOK
  <2> QED
    BY <1>2, <2>1 DEF Reconciled, ShutdownTypeOK, driver, down
<1>3. CASE startLifecycleJobs
  BY <1>3 DEF startLifecycleJobs, ShutdownTypeOK, Passes, driver, health, down
<1>4. CASE CollectTick
  BY <1>4 DEF CollectTick, ShutdownTypeOK, Passes, driver, health, down
<1>5. CASE RepairTick
  BY <1>5 DEF RepairTick, ShutdownTypeOK, Passes, driver, health, down
<1>6. CASE Continue
  BY <1>6 DEF Continue, ShutdownTypeOK, Passes, driver, health, down
<1>7. CASE CheckpointTick
  <2>1. passes' \subseteq Passes /\ rerunRequested' \in BOOLEAN
    BY <1>0, <1>7 DEF CheckpointTick, scheduleCheckpoint, ShutdownTypeOK
  <2> QED
    BY <1>7, <2>1 DEF CheckpointTick, ShutdownTypeOK, driver, down
<1>8. CASE RepairEnds
  <2>1. conn' \in [AllRequests -> Connections]
    BY <1>8 DEF RepairEnds, ShutdownTypeOK, Connections
  <2>2. waits' \in [Signals -> SUBSET Passes] /\ passes' \subseteq Passes
    BY <1>0, <1>8 DEF RepairEnds
  <2>3. continuation' \in BOOLEAN
    BY <1>8 DEF RepairEnds, ShutdownTypeOK
  <2> QED
    BY <1>8, <2>1, <2>2, <2>3 DEF RepairEnds, ShutdownTypeOK, health
<1>9. CASE CollectEnds
  BY <1>9 DEF CollectEnds, ShutdownTypeOK, Connections, driver, health, down
<1>10. CASE CheckpointEnds
  BY <1>10 DEF CheckpointEnds, ShutdownTypeOK, Connections, driver, health, down
<1>11. CASE \E r \in CollectRequests : RequestCollection(r)
  BY <1>11 DEF RequestCollection, Free, ShutdownTypeOK, Passes, Connections, AllRequests, driver, health, down
<1>12. CASE \E r \in RepairRequests : RequestRepair(r)
  <2>1. conn' \in [AllRequests -> Connections]
    BY <1>12 DEF RequestRepair, ShutdownTypeOK, Connections
  <2>2. passes' \subseteq Passes
    BY <1>0, <1>12 DEF RequestRepair, ShutdownTypeOK
  <2> QED
    BY <1>12, <2>1, <2>2 DEF RequestRepair, ShutdownTypeOK, driver, health, down
<1>13. CASE \E r \in PlainRequests : Request(r)
  BY <1>13 DEF Request, Free, ShutdownTypeOK, Connections, AllRequests, driver, health, down
<1>14. CASE \E r \in PlainRequests : Answer(r)
  BY <1>14 DEF Answer, ShutdownTypeOK, Connections, AllRequests, driver, health, down
<1>15. CASE CloseIdle
  BY <1>15 DEF CloseIdle, ShutdownTypeOK, Connections, driver, health, down
<1>16. CASE ServerCloses
  BY <1>16 DEF ServerCloses, ShutdownTypeOK, Connections, driver, health, down
<1>17. CASE ForceExit
  BY <1>17 DEF ForceExit, ShutdownTypeOK, driver, health, down
<1>18. CASE \E s \in Signals : Shutdown(s)
  <2>1. PICK s \in Signals : Shutdown(s)
    BY <1>18
  <2>2. phase' = [phase EXCEPT ![s] = "closing"] /\ waits' = [waits EXCEPT ![s] = Awaited]
    BY <2>1 DEF Shutdown, Awaited
  <2>3. phase' \in [Signals -> {"none", "closing", "helia"}]
    BY <2>2 DEF ShutdownTypeOK
  <2>4. Awaited \in SUBSET Passes
    BY DEF ShutdownTypeOK, Awaited
  <2>5. waits' \in [Signals -> SUBSET Passes]
    BY <2>2, <2>4 DEF ShutdownTypeOK
  <2> QED
    BY <2>1, <2>3, <2>5 DEF Shutdown, ShutdownTypeOK
<1>19. CASE \E s \in Signals : StopHelia(s)
  BY <1>19 DEF StopHelia, ShutdownTypeOK, driver, health, down
<1>20. CASE \E s \in Signals : Exit(s)
  BY <1>20 DEF Exit, ShutdownTypeOK, driver, health, down
<1> QED
  BY <1>1, <1>2, <1>3, <1>4, <1>5, <1>6, <1>7, <1>8, <1>9, <1>10, <1>11, <1>12, <1>13, <1>14, <1>15, <1>16, <1>17, <1>18, <1>19, <1>20, NextSplit DEF Work

\* No repair before the jobs start, no open connection once the server is closed.
LEMMA BaseStep == Base /\ [ShutdownNext]_shutdownVars => Base'
<1> SUFFICES ASSUME Base, [ShutdownNext]_shutdownVars
             PROVE  BeforeJobs' /\ (jobs' => recon' # "pending") /\ Closed'
  BY TypeStep DEF Base
<1>1. CASE UNCHANGED shutdownVars
  BY <1>1 DEF Base, BeforeJobs, Closed, shutdownVars, driver, health, down
<1>2. CASE Reconciled
  BY <1>2 DEF Reconciled, scheduleCheckpoint, Base, ShutdownTypeOK, BeforeJobs, Closed, AllRequests, driver, health, down
<1>3. CASE startLifecycleJobs
  BY <1>3 DEF startLifecycleJobs, Base, ShutdownTypeOK, BeforeJobs, Closed, AllRequests, driver, health, down
<1>4. CASE CollectTick
  BY <1>4 DEF CollectTick, Base, ShutdownTypeOK, BeforeJobs, Closed, AllRequests, driver, health, down
<1>5. CASE RepairTick
  BY <1>5 DEF RepairTick, Base, ShutdownTypeOK, BeforeJobs, Closed, AllRequests, driver, health, down
<1>6. CASE Continue
  BY <1>6 DEF Continue, Base, ShutdownTypeOK, BeforeJobs, Closed, AllRequests, driver, health, down
<1>7. CASE CheckpointTick
  BY <1>7 DEF CheckpointTick, scheduleCheckpoint, Base, ShutdownTypeOK, BeforeJobs, Closed, AllRequests, driver, health, down
<1>8. CASE RepairEnds
  BY <1>8 DEF RepairEnds, Base, ShutdownTypeOK, BeforeJobs, Closed, AllRequests, driver, health, down
<1>9. CASE CollectEnds
  BY <1>9 DEF CollectEnds, Base, ShutdownTypeOK, BeforeJobs, Closed, AllRequests, driver, health, down
<1>10. CASE CheckpointEnds
  BY <1>10 DEF CheckpointEnds, Base, ShutdownTypeOK, BeforeJobs, Closed, AllRequests, driver, health, down
<1>11. CASE \E r \in CollectRequests : RequestCollection(r)
  BY <1>11 DEF RequestCollection, Free, Base, ShutdownTypeOK, BeforeJobs, Closed, AllRequests, driver, health, down
<1>12. CASE \E r \in RepairRequests : RequestRepair(r)
  BY <1>12 DEF RequestRepair, Free, Base, ShutdownTypeOK, BeforeJobs, Closed, AllRequests, driver, health, down
<1>13. CASE \E r \in PlainRequests : Request(r)
  BY <1>13 DEF Request, Free, Base, ShutdownTypeOK, BeforeJobs, Closed, AllRequests, driver, health, down
<1>14. CASE \E r \in PlainRequests : Answer(r)
  BY <1>14 DEF Answer, Base, ShutdownTypeOK, BeforeJobs, Closed, AllRequests, driver, health, down
<1>15. CASE CloseIdle
  BY <1>15 DEF CloseIdle, Base, ShutdownTypeOK, BeforeJobs, Closed, AllRequests, driver, health, down
<1>16. CASE ServerCloses
  BY <1>16 DEF ServerCloses, Base, ShutdownTypeOK, BeforeJobs, Closed, AllRequests, driver, health, down
<1>17. CASE ForceExit
  BY <1>17 DEF ForceExit, Base, ShutdownTypeOK, BeforeJobs, Closed, AllRequests, driver, health, down
<1>18. CASE \E s \in Signals : Shutdown(s)
  BY <1>18 DEF Shutdown, Base, ShutdownTypeOK, BeforeJobs, Closed, AllRequests, driver, health, down
<1>19. CASE \E s \in Signals : StopHelia(s)
  BY <1>19 DEF StopHelia, Base, ShutdownTypeOK, BeforeJobs, Closed, AllRequests, driver, health, down
<1>20. CASE \E s \in Signals : Exit(s)
  BY <1>20 DEF Exit, Base, ShutdownTypeOK, BeforeJobs, Closed, AllRequests, driver, health, down
<1> QED
  BY <1>1, <1>2, <1>3, <1>4, <1>5, <1>6, <1>7, <1>8, <1>9, <1>10, <1>11, <1>12, <1>13, <1>14, <1>15, <1>16, <1>17, <1>18, <1>19, <1>20, NextSplit DEF Work

\* Once a signal has arrived, work only ends.
LEMMA WorkOnlyEnds ==
  ASSUME Base, Stopped, Signalled, Work
  PROVE  /\ Awaited' \subseteq Awaited
         /\ \A s \in Signals : Awaited \subseteq waits[s] => Awaited' \subseteq waits'[s]
         /\ UNCHANGED <<jobs, stopped, continuation, stopping, cron, phase, helia>>
         /\ ~rerunRequested'
         /\ server' = server \/ (server = "closing" /\ server' = "closed")
<1>0. /\ jobs /\ recon # "pending" /\ stopped /\ ~continuation /\ "repair" \notin cron
      /\ stopping /\ ~rerunRequested /\ server # "listening"
  BY DEF Base, Stopped
<1>1. CASE Reconciled
  BY <1>1, <1>0 DEF Reconciled, scheduleCheckpoint, ShutdownTypeOK, Base, Awaited, driver, health, down
<1>2. CASE startLifecycleJobs
  BY <1>2, <1>0 DEF startLifecycleJobs, ShutdownTypeOK, Base, Awaited, driver, health, down
<1>3. CASE CollectTick
  BY <1>3, <1>0 DEF CollectTick, ShutdownTypeOK, Base, Awaited, driver, health, down
<1>4. CASE RepairTick
  BY <1>4, <1>0 DEF RepairTick, ShutdownTypeOK, Base, Awaited, driver, health, down
<1>5. CASE Continue
  BY <1>5, <1>0 DEF Continue, ShutdownTypeOK, Base, Awaited, driver, health, down
<1>6. CASE CheckpointTick
  BY <1>6, <1>0 DEF CheckpointTick, scheduleCheckpoint, ShutdownTypeOK, Base, Awaited, driver, health, down
<1>7. CASE RepairEnds
  BY <1>7, <1>0 DEF RepairEnds, ShutdownTypeOK, Base, Awaited, driver, health, down
<1>8. CASE CollectEnds
  BY <1>8, <1>0 DEF CollectEnds, ShutdownTypeOK, Base, Awaited, driver, health, down
<1>9. CASE CheckpointEnds
  BY <1>9, <1>0 DEF CheckpointEnds, ShutdownTypeOK, Base, Awaited, driver, health, down
<1>10. CASE \E r \in CollectRequests : RequestCollection(r)
  BY <1>10, <1>0 DEF RequestCollection, Free, ShutdownTypeOK, Base, Awaited, driver, health, down
<1>11. CASE \E r \in RepairRequests : RequestRepair(r)
  BY <1>11, <1>0 DEF RequestRepair, Free, ShutdownTypeOK, Base, Awaited, driver, health, down
<1>12. CASE \E r \in PlainRequests : Request(r)
  BY <1>12, <1>0 DEF Request, Free, ShutdownTypeOK, Base, Awaited, driver, health, down
<1>13. CASE \E r \in PlainRequests : Answer(r)
  BY <1>13, <1>0 DEF Answer, ShutdownTypeOK, Base, Awaited, driver, health, down
<1>14. CASE CloseIdle
  BY <1>14, <1>0 DEF CloseIdle, ShutdownTypeOK, Base, Awaited, driver, health, down
<1>15. CASE ServerCloses
  BY <1>15, <1>0 DEF ServerCloses, ShutdownTypeOK, Base, Awaited, driver, health, down
<1>16. CASE ForceExit
  BY <1>16, <1>0 DEF ForceExit, ShutdownTypeOK, Base, Awaited, driver, health, down
<1> QED
  BY <1>1, <1>2, <1>3, <1>4, <1>5, <1>6, <1>7, <1>8, <1>9, <1>10, <1>11, <1>12, <1>13, <1>14, <1>15, <1>16 DEF Work

\* Only a signal before the jobs makes a shutdown an early one.
LEMMA EarlyMarked ==
  ASSUME Base, [ShutdownNext]_shutdownVars, ~early'
  PROVE  ~early /\ \A s \in Signals : Shutdown(s) => jobs
<1>1. CASE UNCHANGED shutdownVars \/ Work
  <2>1. early' = early
    BY <1>1 DEF Work, Reconciled, startLifecycleJobs, CollectTick, RepairTick, Continue,
      CheckpointTick, RepairEnds, CollectEnds, CheckpointEnds, RequestCollection, RequestRepair,
      Request, Answer, CloseIdle, ServerCloses, ForceExit, shutdownVars, down
  <2>2. \A s \in Signals : Shutdown(s) => jobs
    BY DEF Shutdown
  <2> QED
    BY <2>1, <2>2
<1>2. ASSUME NEW s \in Signals, Shutdown(s)
      PROVE  ~early /\ jobs
  <2>1. early' = (early \/ ~jobs)
    BY <1>2 DEF Shutdown
  <2> QED
    BY <2>1
<1>3. CASE \E s \in Signals : StopHelia(s) \/ Exit(s)
  <2>1. early' = early
    BY <1>3 DEF StopHelia, Exit
  <2> QED
    BY <2>1, <1>2
<1>4. CASE \E s \in Signals : Shutdown(s)
  BY <1>2, <1>4
<1> QED
  BY <1>1, <1>3, <1>4, NextSplit

LEMMA OrderlyStep == IInv /\ [ShutdownNext]_shutdownVars => Orderly'
<1> SUFFICES ASSUME IInv, [ShutdownNext]_shutdownVars, ~early'
             PROVE  Stopped' /\ Waiting' /\ Quiet'
  BY DEF Orderly
<1>0. /\ Base /\ ShutdownTypeOK /\ Stopped /\ Waiting /\ Quiet
      /\ \A s \in Signals : Shutdown(s) => jobs
  <2>1. Base
    BY DEF IInv
  <2>2. ~early /\ \A s \in Signals : Shutdown(s) => jobs
    BY <2>1, EarlyMarked
  <2> QED
    BY <2>1, <2>2 DEF IInv, Base, Orderly
<1>1. CASE UNCHANGED shutdownVars
  BY <1>0, <1>1 DEF Stopped, Waiting, Quiet, Signalled, Awaited, shutdownVars, driver, health, down
<1>2. CASE Work /\ Signalled
  <2>1. /\ Awaited' \subseteq Awaited
        /\ \A s \in Signals : Awaited \subseteq waits[s] => Awaited' \subseteq waits'[s]
        /\ UNCHANGED <<jobs, stopped, continuation, stopping, cron, phase, helia>>
        /\ ~rerunRequested'
        /\ server' = server \/ (server = "closing" /\ server' = "closed")
    BY <1>0, <1>2, WorkOnlyEnds
  <2>2. Signalled'
    BY <1>2, <2>1 DEF Signalled
  <2>3. Stopped'
    BY <1>0, <1>2, <2>1 DEF Stopped
  <2>4. Waiting'
    BY <1>0, <2>1 DEF Waiting
  <2>5. Quiet'
    BY <1>0, <2>1, <2>2 DEF Quiet
  <2> QED
    BY <2>3, <2>4, <2>5
<1>3. CASE Work /\ ~Signalled
  <2>1. UNCHANGED <<phase, helia>>
    BY <1>3 DEF Work, Reconciled, startLifecycleJobs, CollectTick, RepairTick, Continue,
      CheckpointTick, RepairEnds, CollectEnds, CheckpointEnds, RequestCollection, RequestRepair,
      Request, Answer, CloseIdle, ServerCloses, ForceExit, down
  <2>2. ~Signalled'
    BY <1>3, <2>1 DEF Signalled
  <2> QED
    BY <1>0, <1>3, <2>1, <2>2 DEF Stopped, Waiting, Quiet, Signalled
<1>4. ASSUME NEW s \in Signals, Shutdown(s) PROVE Stopped' /\ Waiting' /\ Quiet'
  <2>1. /\ jobs /\ phase' = [phase EXCEPT ![s] = "closing"] /\ phase[s] = "none"
        /\ waits' = [waits EXCEPT ![s] = Awaited]
        /\ UNCHANGED <<jobs, passes, helia>>
    BY <1>0, <1>4 DEF Shutdown, Awaited
  <2>2. Stopped'
    BY <1>0, <1>4, <2>1 DEF Shutdown, Stopped, ShutdownTypeOK
  <2>3. Awaited' = Awaited
    BY <2>1 DEF Awaited
  <2>4. \A t \in Signals : t # s => phase'[t] = phase[t] /\ waits'[t] = waits[t]
    BY <1>0, <2>1 DEF ShutdownTypeOK
  <2>5. phase'[s] = "closing" /\ waits'[s] = Awaited
    BY <1>0, <2>1 DEF ShutdownTypeOK
  <2>6. Waiting'
    BY <1>0, <2>1, <2>3, <2>4, <2>5 DEF Waiting
  <2>7. Signalled'
    BY <2>5 DEF Signalled
  <2>8. Quiet'
    BY <1>0, <1>4, <2>1, <2>3, <2>7 DEF Quiet, Shutdown
  <2> QED
    BY <2>2, <2>6, <2>8
<1>5. ASSUME NEW s \in Signals, StopHelia(s) PROVE Stopped' /\ Waiting' /\ Quiet'
  <2>1. /\ phase[s] = "closing" /\ server = "closed" /\ waits[s] = {}
        /\ phase' = [phase EXCEPT ![s] = "helia"]
        /\ helia' = IF helia = "up" THEN "stopping" ELSE helia
        /\ UNCHANGED <<jobs, cron, passes, stopped, continuation, stopping, rerunRequested,
                       server, waits>>
    BY <1>5 DEF StopHelia, driver, health
  <2>2. Signalled /\ Awaited = {}
    BY <1>0, <2>1 DEF Signalled, Waiting
  <2>3. Awaited' = Awaited
    BY <2>1 DEF Awaited
  <2>4. phase'[s] = "helia" /\ \A t \in Signals : t # s => phase'[t] = phase[t]
    BY <1>0, <2>1 DEF ShutdownTypeOK
  <2>5. Signalled'
    BY <2>4 DEF Signalled
  <2>6. Stopped'
    BY <1>0, <2>1, <2>2 DEF Stopped
  <2>7. Waiting' /\ Quiet'
    BY <1>0, <2>1, <2>2, <2>3, <2>4, <2>5 DEF Waiting, Quiet
  <2> QED
    BY <2>6, <2>7
<1>6. ASSUME NEW s \in Signals, Exit(s) PROVE Stopped' /\ Waiting' /\ Quiet'
  <2>1. /\ phase[s] = "helia" /\ helia' = "down"
        /\ UNCHANGED <<jobs, cron, passes, stopped, continuation, stopping, rerunRequested,
                       server, phase, waits>>
    BY <1>6 DEF Exit, driver, health
  <2>2. helia # "up"
    BY <1>0, <2>1 DEF Waiting
  <2> QED
    BY <1>0, <2>1, <2>2 DEF Stopped, Waiting, Quiet, Signalled, Awaited
<1> QED
  BY <1>1, <1>2, <1>3, <1>4, <1>5, <1>6, NextSplit

LEMMA Inductive == IInv /\ [ShutdownNext]_shutdownVars => IInv'
BY BaseStep, OrderlyStep DEF IInv

-----------------------------------------------------------------------------
\* index.ts: the state of starting and stopping always has its type.
THEOREM ShutdownTypeCorrect == ShutdownSpec => []ShutdownTypeOK
<1>1. ShutdownInit => IInv
  BY Initially
<1>2. IInv /\ [ShutdownNext]_shutdownVars => IInv'
  BY Inductive
<1>3. IInv => ShutdownTypeOK
  BY DEF IInv, Base
<1> QED
  BY <1>1, <1>2, <1>3, PTL DEF ShutdownSpec

\* index.ts, replication.cron.ts: no repair pass runs before the registry is
\* reconciled, by schedule or by request; and, when no signal comes before the
\* jobs have started, Helia is stopped only after the repair pass, the
\* checkpoint and every request with an open connection have ended, for any
\* number of requests and of signals that cross.
THEOREM WithinUptime == ShutdownSpec => []PassesWithinUptime
<1>1. ShutdownInit => IInv
  BY Initially
<1>2. IInv /\ [ShutdownNext]_shutdownVars => IInv'
  BY Inductive
<1>3. IInv => RepairAfterReconciliation
  BY DEF IInv, Base, BeforeJobs, RepairAfterReconciliation
<1>4. IInv /\ ~early => QuietBeforeHelia
  BY DEF IInv, Base, Orderly, Quiet, Closed, Awaited, QuietBeforeHelia
<1>5. IInv => PassesWithinUptime
  BY <1>3, <1>4 DEF PassesWithinUptime
<1> QED
  BY <1>1, <1>2, <1>5, PTL DEF ShutdownSpec
=============================================================================
