---------------------------- MODULE BlockSessions ----------------------------
(***************************************************************************)
(* The blocks of running uploads: storage/uploadSession.ts under           *)
(* utils/unixfs-multer.storage.ts and api/uploadRoute.ts.                  *)
(*                                                                         *)
(* Uploads import blocks at the same time, and their contents overlap.     *)
(* Each session remembers which blocks it wrote first, all of them count   *)
(* the blocks they are busy with, and a session that fails deletes what is *)
(* its own and nobody else's.  An import has several puts in flight, and   *)
(* a put that has been asked for goes on when the client has gone.         *)
(*                                                                         *)
(* The shared lease keeps the collector away from all this                 *)
(* (UploadAdmission); records are FileLifecycle's.                         *)
(***************************************************************************)
EXTENDS Integers, FiniteSets, Functions

CONSTANTS Sessions, Puts, Blocks,
          Contents,    \* what clients may upload: the block of each put of each session
          None,
          SlowDelete   \* others may move on while a block is deleted

SessionAssumption ==
  /\ IsFiniteSet(Sessions) /\ Contents \subseteq [Sessions -> [Puts -> Blocks]]
  /\ None \notin Blocks /\ SlowDelete \in BOOLEAN

VARIABLES BlockOf,   \* BlockOf[s][i]: the block of the i-th put of s, never changed
          Stored,    \* blocks of older content, unpinned, never changed
          overtaken, \* history: content was pinned while a cleanup was deciding
          disk,      \* blocks in the blockstore
          pinned,    \* DAGs with a pin
          inFlight,  \* inFlightBlocks, 0 for no entry
          handler,   \* where the request is
          session,   \* "open", "claimed" or "settled"
          put,       \* progress of each put
          existed,   \* per session: puts that found their block
          touched, created,  \* of the RecordingBlockstore
          createdPin,        \* the handler's pinFile made the pin
          releasable, seen,  \* per cleanup: its snapshot, blocks dealt with
          check, delete      \* per cleanup: the block it asks about, or deletes

store   == <<disk, pinned, inFlight>>
request == <<handler, session, createdPin>>
import  == <<put, existed, touched, created>>
cleanup == <<releasable, seen, check, delete>>
inputs  == <<BlockOf, Stored>>
sessionVars == <<inputs, overtaken, store, request, import, cleanup>>

Dag(s) == Range(BlockOf[s])

perSession(x) == [s \in Sessions |-> x]

SessionsInit ==
  /\ BlockOf \in Contents /\ Stored \in SUBSET Blocks /\ overtaken = FALSE
  /\ disk = Stored /\ pinned = {} /\ inFlight = [b \in Blocks |-> 0]
  /\ handler = perSession("idle") /\ session = perSession("open")
  /\ createdPin = perSession(FALSE)
  /\ put = perSession([i \in Puts |-> "none"])
  /\ existed = perSession({}) /\ touched = perSession({}) /\ created = perSession({})
  /\ releasable = perSession({}) /\ seen = perSession({})
  /\ check = perSession(None) /\ delete = perSession(None)

-----------------------------------------------------------------------------
\* RecordingBlockstore.put awaits has ...
AskHas(s, i) ==
  /\ handler[s] \in {"idle", "importing"} /\ session[s] = "open" /\ put[s][i] = "none"
  /\ handler' = [handler EXCEPT ![s] = "importing"]
  /\ put' = [put EXCEPT ![s][i] = "asked"]
  /\ existed' = [existed EXCEPT ![s] = IF BlockOf[s][i] \in disk THEN @ \cup {i} ELSE @]
  /\ UNCHANGED <<overtaken, store, session, createdPin, touched, created, cleanup>>

\* ... counts the block once per session ...
retainBlock(s, b) ==
  inFlight' = [inFlight EXCEPT ![b] = IF b \in touched[s] THEN @ ELSE @ + 1]

\* ... and asks the blockstore to store it.  No step looks whether the session
\* has been settled meanwhile.
Retain(s, i) ==
  /\ put[s][i] = "asked"
  /\ put' = [put EXCEPT ![s][i] = "storing"]
  /\ retainBlock(s, BlockOf[s][i])
  /\ touched' = [touched EXCEPT ![s] = @ \cup {BlockOf[s][i]}]
  /\ UNCHANGED <<overtaken, disk, pinned, request, existed, created, cleanup>>

firstWrite(s, i) == i \notin existed[s]

PutEnds(s, i) ==
  /\ put[s][i] = "storing"
  /\ put' = [put EXCEPT ![s][i] = "done"]
  /\ disk' = disk \cup {BlockOf[s][i]}
  /\ created' = [created EXCEPT ![s] = IF firstWrite(s, i) THEN @ \cup {BlockOf[s][i]} ELSE @]
  /\ UNCHANGED <<overtaken, pinned, inFlight, request, existed, touched, cleanup>>

-----------------------------------------------------------------------------
\* releaseAll: references go back; what nobody else holds may be deleted.
releaseAll(s) ==
  /\ inFlight' = [b \in Blocks |-> IF b \in touched[s] THEN inFlight[b] - 1 ELSE inFlight[b]]
  /\ touched' = [touched EXCEPT ![s] = {}]

zeroed(s) == {b \in touched[s] : inFlight[b] = 1}

settle(s) ==
  /\ session' = [session EXCEPT ![s] = "settled"]
  /\ releaseAll(s)
  /\ releasable' = [releasable EXCEPT ![s] = zeroed(s)]

unclaimed(s) == session[s] = "open"

\* "close", or a part that fails: multer's _removeFile or the error path.
Disconnect(s) ==
  /\ handler[s] # "idle" /\ unclaimed(s)
  /\ settle(s)
  /\ handler' = IF handler[s] = "importing" THEN [handler EXCEPT ![s] = "done"] ELSE handler
  /\ UNCHANGED <<overtaken, disk, pinned, createdPin, put, existed, created, seen, check,
                 delete>>

\* The parser is done; the route handler takes the session over.
Claim(s) ==
  /\ handler[s] = "importing" /\ session[s] = "open"
  /\ \A i \in Puts : put[s][i] = "done"
  /\ handler' = [handler EXCEPT ![s] = "handling"]
  /\ session' = [session EXCEPT ![s] = "claimed"]
  /\ UNCHANGED <<overtaken, store, createdPin, import, cleanup>>

\* Pins of one DAG change under its CID's lock, which a handler keeps until it
\* has committed or restored what it found.
unlocked(d) == \A t \in Sessions : handler[t] = "pinned" => Dag(t) # d

pin(d) == /\ pinned' = pinned \cup {d}
          /\ overtaken' = (overtaken \/ \E t \in Sessions : check[t] \in d \/ delete[t] \in d)

\* pinFile walks the DAG.
Pin(s) ==
  /\ handler[s] = "handling" /\ Dag(s) \subseteq disk /\ unlocked(Dag(s))
  /\ handler' = [handler EXCEPT ![s] = "pinned"]
  /\ createdPin' = [createdPin EXCEPT ![s] = Dag(s) \notin pinned]
  /\ pin(Dag(s))
  /\ UNCHANGED <<disk, inFlight, session, import, cleanup>>

\* The records are written: commit.
CommitBlocks(s) ==
  /\ handler[s] = "pinned" /\ session[s] = "claimed"
  /\ session' = [session EXCEPT ![s] = "settled"]
  /\ releaseAll(s)
  /\ handler' = [handler EXCEPT ![s] = "done"]
  /\ UNCHANGED <<overtaken, disk, pinned, createdPin, put, existed, created, cleanup>>

\* The handler fails, before or after its pin: it restores the baseline and
\* cleans up itself.
Fail(s) ==
  /\ handler[s] \in {"handling", "pinned"} /\ session[s] = "claimed"
  /\ pinned' = IF createdPin[s] THEN pinned \ {Dag(s)} ELSE pinned
  /\ settle(s)
  /\ handler' = [handler EXCEPT ![s] = "done"]
  /\ UNCHANGED <<overtaken, disk, createdPin, put, existed, created, seen, check, delete>>

\* Another intake (an incoming copy, a client's registration) pins the same
\* content; it imports nothing through a session.
IntakePin(d) ==
  /\ d \subseteq disk /\ d \notin pinned /\ unlocked(d)
  /\ pin(d)
  /\ UNCHANGED <<disk, inFlight, request, import, cleanup>>

-----------------------------------------------------------------------------
isPinned(b) == \E d \in pinned : b \in d

idleCleanup(s) == session[s] = "settled" /\ check[s] = None /\ delete[s] = None

\* cleanup: the loop over `created`, which still grows while puts end, asks
\* whether the next block is pinned ...
CheckPin(s, b) ==
  /\ idleCleanup(s) /\ b \in (created[s] \cap releasable[s]) \ seen[s]
  /\ seen' = [seen EXCEPT ![s] = @ \cup {b}]
  /\ check' = [check EXCEPT ![s] = IF isPinned(b) THEN None ELSE b]
  /\ UNCHANGED <<overtaken, store, request, import, releasable, delete>>

\* Mutant: the references are not looked at again.
DeleteAnyway(b) == TRUE

mayDelete(b) == inFlight[b] = 0

\* ... then whether another upload has taken it up meanwhile ...
Recheck(s) ==
  /\ check[s] # None
  /\ delete' = [delete EXCEPT ![s] = IF mayDelete(check[s]) THEN check[s] ELSE None]
  /\ check' = [check EXCEPT ![s] = None]
  /\ UNCHANGED <<overtaken, store, request, import, releasable, seen>>

\* ... and deletes it.
DeleteBlock(s) ==
  /\ delete[s] # None
  /\ disk' = disk \ {delete[s]}
  /\ delete' = [delete EXCEPT ![s] = None]
  /\ UNCHANGED <<overtaken, pinned, inFlight, request, import, releasable, seen, check>>

-----------------------------------------------------------------------------
\* Without SlowDelete nobody else moves while a block is deleted.
othersMayMove == SlowDelete \/ \A s \in Sessions : delete[s] = None

SessionsNext ==
  /\ UNCHANGED inputs
  /\ \E s \in Sessions :
       \/ Recheck(s) /\ othersMayMove
       \/ DeleteBlock(s)
       \/ /\ othersMayMove
          /\ \/ \E i \in Puts : AskHas(s, i) \/ Retain(s, i) \/ PutEnds(s, i)
             \/ \E b \in Blocks : CheckPin(s, b)
             \/ Disconnect(s) \/ Claim(s) \/ Pin(s) \/ CommitBlocks(s) \/ Fail(s)
             \/ IntakePin(Dag(s))

SessionsSpec == SessionsInit /\ [][SessionsNext]_sessionVars

-----------------------------------------------------------------------------
\* What a live import has stored and what a handler is about to pin stays on
\* disk, whatever the cleanup of another session with the same blocks does
\* (put retains before it stores, cleanup looks again before it deletes).
LiveBlocksKept ==
  /\ \A s \in Sessions, i \in Puts :
       session[s] = "open" /\ put[s][i] = "done" => BlockOf[s][i] \in disk
  /\ \A s \in Sessions : handler[s] \in {"handling", "pinned"} => Dag(s) \subseteq disk

\* inFlightBlocks counts every block once for each session that has it, also
\* when puts of one block overlap, end late or belong to a settled session.
ReferencesCounted ==
  \A b \in Blocks : inFlight[b] = Cardinality({s \in Sessions : b \in touched[s]})

\* Older content is no upload's to delete, although uploads contain it (put
\* asks has before it records a block as created).
OlderContentStays == Stored \subseteq disk

\* Content that has a pin keeps its blocks, also when an upload of the same
\* content fails and cleans up, unless it was pinned between the question
\* whether a block is and the deletion of that block (cleanup).
DurableKept == ~overtaken => \A d \in pinned : d \subseteq disk

\* uploadSession.ts: the cleanup of an upload takes its own blocks and no others.
\* What a live import has stored, what a handler is about to pin and what was
\* there before stays on disk, and a block is counted once for each session that
\* has it, also when puts of one block overlap or end late; content that has a
\* pin keeps its blocks, unless a cleanup was overtaken.
CleanupSpares == /\ ~SlowDelete => LiveBlocksKept
                 /\ OlderContentStays /\ ReferencesCounted /\ DurableKept

\* A settled session holds no references (inFlightBlockCount).
ReferencesReturned == \A s \in Sessions : session[s] = "settled" => touched[s] = {}
=============================================================================
