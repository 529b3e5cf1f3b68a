-------------------------- MODULE UploadAdmission --------------------------
(***************************************************************************)
(* Admission of uploads and of incoming copies: middleware/                *)
(* uploadAdmission.ts, storage/limits.ts, storage/reservation.ts and       *)
(* pullUnderIntakeLimits of storage/service.ts.                            *)
(*                                                                         *)
(* An upload takes a slot, waits for the shared storage lease, measures    *)
(* free space, claims the bytes it may write and opens a session.  The     *)
(* client may hang up at any of these awaits and during the upload; then   *)
(* `close` gives back whatever was taken so far, and the continuation that *)
(* wakes up later must not take anything again.  A copy asked for by a     *)
(* peer measures and claims in the same way.                               *)
(*                                                                         *)
(* Disk space is counted in units.  The answer of statfs may be used after *)
(* other requests have moved on; `stale` remembers that one was, and was   *)
(* too large by then.                                                      *)
(***************************************************************************)
EXTENDS Naturals, FiniteSets, FiniteSetsExt

CONSTANTS Uploads, Copies,
          MaxUploads, MaxCopies,   \* sizes of uploadLimiter and incomingCopyLimiter
          MaxRequest,              \* maxRequestSizeBytes
          CopyClaim,               \* limit of a copy plus INTAKE_OVERSHOOT_BYTES
          Capacity, Reserve        \* free space at the start, diskReserveBytes

BoundAssumption ==
  /\ {MaxUploads, MaxCopies, MaxRequest, CopyClaim} \subseteq Nat \ {0}
  /\ {Capacity, Reserve} \subseteq Nat
  /\ IsFiniteSet(Uploads) /\ IsFiniteSet(Copies)
  /\ Uploads \cap Copies = {}

Work == Uploads \cup Copies

VARIABLES pc,        \* where the handler of each request or copy is
          declared,  \* bytes to claim: Content-Length, or the limit if chunked
          open,      \* the response has not been closed
          released,  \* release() has run
          lease,     \* holders of the shared storage lease
          claim,     \* bytes promised to each
          written,   \* bytes each has written so far
          measured,  \* the free-space reading each uses
          uploading, copying,  \* counters of the two limiters
          claimed,   \* bytes promised to work in progress
          free,      \* free bytes on the filesystem
          gc,        \* the collector: "idle", "waiting" or "collecting"
          stale      \* history: a claim used a reading that was too large

vars == <<pc, declared, open, released, lease, claim, written, measured,
          uploading, copying, claimed, free, gc, stale>>

Init == /\ pc = [w \in Work |-> "idle"]
        /\ declared = [w \in Work |-> 0]
        /\ open = [w \in Work |-> FALSE]
        /\ released = [w \in Work |-> FALSE]
        /\ lease = {}
        /\ claim = [w \in Work |-> 0]
        /\ written = [w \in Work |-> 0]
        /\ measured = [w \in Work |-> 0]
        /\ uploading = 0 /\ copying = 0 /\ claimed = 0
        /\ free = Capacity
        /\ gc = "idle" /\ stale = FALSE

-----------------------------------------------------------------------------
(* reservation.ts and limits.ts *)

\* claimSpace: what is promised already is no longer free.
fits(bytes, available) == available >= claimed + Reserve + bytes

\* Two promises back at once never take the sum below zero.
unclaim(bytes) == IF claimed > bytes THEN claimed - bytes ELSE 0

\* release() of an upload: claim and slot go back once.  The lease goes back
\* with them only if no session owns it (or the session has settled).
giveBack(u, hasSession) ==
  /\ released' = [released EXCEPT ![u] = TRUE]
  /\ IF released[u]
       THEN UNCHANGED <<claimed, claim, uploading, lease>>
       ELSE /\ claimed' = unclaim(claim[u])
            /\ claim' = [claim EXCEPT ![u] = 0]
            /\ uploading' = uploading - 1
            /\ lease' = IF hasSession THEN lease ELSE lease \ {u}

-----------------------------------------------------------------------------
(* Uploads *)

\* tryAcquire, the close listener and the check of the declared size; a
\* request that is refused (429, 413) is answered at once.
Admit(u, bytes) ==
  /\ pc[u] = "idle"
  /\ declared' = [declared EXCEPT ![u] = bytes]
  /\ \/ /\ uploading < MaxUploads /\ bytes <= MaxRequest
        /\ pc' = [pc EXCEPT ![u] = "lease"]
        /\ open' = [open EXCEPT ![u] = TRUE]
        /\ uploading' = uploading + 1
        /\ UNCHANGED released
     \/ /\ uploading >= MaxUploads \/ bytes > MaxRequest
        /\ pc' = [pc EXCEPT ![u] = "done"]
        /\ released' = [released EXCEPT ![u] = TRUE]
        /\ UNCHANGED <<open, uploading>>
  /\ UNCHANGED <<lease, claim, written, measured, copying, claimed, free, gc, stale>>

\* acquireShared resolves; a client that left meanwhile gets nothing.
LeaseGranted(u) ==
  /\ pc[u] = "lease" /\ gc = "idle"
  /\ \/ released[u] /\ pc' = [pc EXCEPT ![u] = "done"] /\ UNCHANGED lease
     \/ ~released[u] /\ pc' = [pc EXCEPT ![u] = "measure"] /\ lease' = lease \cup {u}
  /\ UNCHANGED <<declared, open, released, claim, written, measured, uploading,
                 copying, claimed, free, gc, stale>>

\* statfs reads the filesystem.
Measure(w) ==
  /\ pc[w] = "measure"
  /\ pc' = [pc EXCEPT ![w] = "measured"]
  /\ measured' = [measured EXCEPT ![w] = free]
  /\ UNCHANGED <<declared, open, released, lease, claim, written, uploading, copying,
                 claimed, free, gc, stale>>

\* claimSpace with the reading of statfs: the bytes are promised.
promise(w, bytes) ==
  /\ pc[w] = "measured" /\ fits(bytes, measured[w])
  /\ claimed' = claimed + bytes
  /\ claim' = [claim EXCEPT ![w] = bytes]
  /\ measured' = [measured EXCEPT ![w] = 0]
  /\ stale' = (stale \/ measured[w] > free)
  /\ pc' = [pc EXCEPT ![w] = "session"]

\* Mutant: nobody looks whether the client is still there after statfs.
ClaimForTheDeparted(u) ==
  /\ promise(u, declared[u])
  /\ UNCHANGED <<declared, open, released, lease, written, uploading, copying, free, gc>>

\* The upload is admitted: bytes are promised and the session owns the lease.
OpenSession(u) ==
  /\ ~released[u] /\ promise(u, declared[u])
  /\ UNCHANGED <<declared, open, released, lease, written, uploading, copying, free, gc>>

\* No room (507), the client has left meanwhile, or statfs failed.
RefuseUpload(u) ==
  /\ pc[u] \in {"measure", "measured"}
  /\ pc' = [pc EXCEPT ![u] = "done"]
  /\ giveBack(u, FALSE)
  /\ measured' = [measured EXCEPT ![u] = 0]
  /\ UNCHANGED <<declared, open, written, copying, free, gc, stale>>

\* The parser imports blocks, up to the request's size budget.
WriteUpload(u) ==
  /\ pc[u] = "session" /\ open[u]
  /\ written[u] < declared[u] /\ free > 0
  /\ written' = [written EXCEPT ![u] = @ + 1]
  /\ free' = free - 1
  /\ UNCHANGED <<pc, declared, open, released, lease, claim, measured, uploading, copying,
                 claimed, gc, stale>>

\* The route handler takes the session over; a disconnect no longer cleans up.
ClaimSession(u) ==
  /\ pc[u] = "session" /\ open[u]
  /\ pc' = [pc EXCEPT ![u] = "claimed"]
  /\ UNCHANGED <<declared, open, released, lease, claim, written, measured, uploading,
                 copying, claimed, free, gc, stale>>

\* commit(): the blocks are pinned and stay; the lease goes back.
Commit(u) ==
  /\ pc[u] = "claimed"
  /\ pc' = [pc EXCEPT ![u] = "done"]
  /\ lease' = lease \ {u}
  /\ written' = [written EXCEPT ![u] = 0]
  /\ UNCHANGED <<declared, open, released, claim, measured, uploading, copying, claimed,
                 free, gc, stale>>

\* The handler or the parser fails, or the response of an unclaimed session
\* has closed: cleanup() starts.
BeginCleanup(u) ==
  /\ pc[u] \in {"session", "claimed"}
  /\ pc' = [pc EXCEPT ![u] = "cleaning"]
  /\ UNCHANGED <<declared, open, released, lease, claim, written, measured, uploading,
                 copying, claimed, free, gc, stale>>

\* cleanup() has deleted the session's blocks: the session settles.
EndCleanup(u) ==
  /\ pc[u] = "cleaning"
  /\ pc' = [pc EXCEPT ![u] = "done"]
  /\ free' = free + written[u]
  /\ written' = [written EXCEPT ![u] = 0]
  /\ lease' = lease \ {u}
  /\ UNCHANGED <<declared, open, released, claim, measured, uploading, copying, claimed,
                 gc, stale>>

\* The response closes: it was sent, or the client hung up.  A session whose
\* cleanup has begun is settled already, so its lease is released here too.
Close(u) ==
  /\ open[u]
  /\ open' = [open EXCEPT ![u] = FALSE]
  /\ giveBack(u, pc[u] \in {"session", "claimed"})
  /\ UNCHANGED <<pc, declared, written, measured, copying, free, gc, stale>>

\* The next request of the same client.
Again(u) ==
  /\ pc[u] = "done" /\ ~open[u]
  /\ pc' = [pc EXCEPT ![u] = "idle"]
  /\ released' = [released EXCEPT ![u] = FALSE]
  /\ declared' = [declared EXCEPT ![u] = 0]
  /\ UNCHANGED <<open, lease, measured, written, claim, uploading, copying, claimed, free,
                 gc, stale>>

-----------------------------------------------------------------------------
(* Copies for peers: pullUnderIntakeLimits, called under the shared lease *)

StartCopy(k) ==
  /\ pc[k] = "idle" /\ gc = "idle"
  /\ copying < MaxCopies
  /\ copying' = copying + 1
  /\ pc' = [pc EXCEPT ![k] = "measure"]
  /\ lease' = lease \cup {k}
  /\ UNCHANGED <<declared, open, released, claim, written, measured, uploading, claimed,
                 free, gc, stale>>

ClaimCopy(k) ==
  /\ promise(k, CopyClaim)
  /\ UNCHANGED <<declared, open, released, lease, written, uploading, copying, free, gc>>

\* The meter stops the walk at the limit plus the reads in flight.
WriteCopy(k) ==
  /\ pc[k] = "session"
  /\ written[k] < CopyClaim /\ free > 0
  /\ written' = [written EXCEPT ![k] = @ + 1]
  /\ free' = free - 1
  /\ UNCHANGED <<pc, declared, open, released, lease, claim, measured, uploading, copying,
                 claimed, gc, stale>>

\* The finally block: no room, a failed transfer or a complete one.
EndCopy(k) ==
  /\ pc[k] \in {"measure", "measured", "session"}
  /\ pc' = [pc EXCEPT ![k] = "done"]
  /\ claimed' = unclaim(claim[k])
  /\ claim' = [claim EXCEPT ![k] = 0]
  /\ copying' = copying - 1
  /\ lease' = lease \ {k}
  /\ measured' = [measured EXCEPT ![k] = 0]
  /\ written' = [written EXCEPT ![k] = 0]
  /\ UNCHANGED <<declared, open, released, uploading, free, gc, stale>>

-----------------------------------------------------------------------------
\* A collection asks for the exclusive lease, gets it and ends; the lease
\* itself is StorageOperationLock's.
AskLease  == gc = "idle" /\ gc' = "waiting"
Collect   == gc = "waiting" /\ lease = {} /\ gc' = "collecting"
EndCollect == gc = "collecting" /\ gc' = "idle"
GcStep == /\ AskLease \/ Collect \/ EndCollect
          /\ UNCHANGED <<pc, declared, open, released, lease, claim, written, measured,
                         uploading, copying, claimed, free, stale>>

HandlerStep(u) == \/ LeaseGranted(u) \/ Measure(u) \/ OpenSession(u) \/ RefuseUpload(u)
                  \/ Commit(u) \/ BeginCleanup(u) \/ EndCleanup(u)

Next == \/ \E u \in Uploads :
             \/ \E bytes \in 1..(MaxRequest + 1) : Admit(u, bytes)
             \/ HandlerStep(u) \/ WriteUpload(u) \/ ClaimSession(u) \/ Close(u) \/ Again(u)
        \/ \E k \in Copies :
             StartCopy(k) \/ Measure(k) \/ ClaimCopy(k) \/ WriteCopy(k) \/ EndCopy(k)
        \/ GcStep

\* Awaited calls return, handlers and copies end (both have timeouts), every
\* response closes in the end, and so does a collection.
Fairness == /\ \A u \in Uploads : WF_vars(HandlerStep(u)) /\ WF_vars(Close(u))
            /\ \A k \in Copies : WF_vars(EndCopy(k))
            /\ WF_vars(gc # "idle" /\ GcStep)

Spec == Init /\ [][Next]_vars /\ Fairness

-----------------------------------------------------------------------------
\* A response that has closed and whose handler has nothing left to do holds
\* no slot, no claim and no lease, at whichever await the client hung up; the
\* counters are what the requests at work hold.
NothingLeaks ==
  /\ \A u \in Uploads : pc[u] = "done" /\ ~open[u] => claim[u] = 0 /\ u \notin lease
  /\ uploading = Cardinality({u \in Uploads : pc[u] # "idle" /\ ~released[u]})
  /\ copying = Cardinality({k \in Copies : pc[k] \notin {"idle", "done"}})
  /\ claimed = MapThenSumSet(LAMBDA w : claim[w], Work)

\* While an upload may still be committed, no collection runs: not between the
\* import of its blocks and their pin, also when the client has hung up.
SessionExcludesCollection ==
  gc = "collecting" => \A w \in Work : pc[w] \notin {"session", "claimed"}

\* What uploadAdmission.ts:84 says of the lease: "An admitted session owns this
\* lease until it has committed or finished cleanup".
LeaseUntilCleaned == \A u \in Uploads : pc[u] = "cleaning" => u \in lease

\* Uploads and copies together never bring free space below the reserve, or
\* further below it than it was, unless a reading had become stale.
ReserveKept == stale \/ free >= Reserve \/ free >= Capacity

\* uploadAdmission.ts, limits.ts, reservation.ts: a request holds what it needs as
\* long as it needs it.  No collection runs between the import of an upload's
\* blocks and their pin; a closed response whose handler has nothing left to do
\* holds no slot, no claim and no lease, at whichever await the client hung up;
\* and uploads and copies together keep out of the disk reserve.
AdmissionExact == NothingLeaks /\ SessionExcludesCollection /\ ReserveKept

\* A collection that asked for the lease gets it, however many requests keep
\* coming and wherever their clients hang up.
CollectorServed == gc = "waiting" ~> gc = "collecting"
=============================================================================
