----------------------- MODULE StorageOperationLock -----------------------
(***************************************************************************)
(* The process-wide reader/writer lease of src/storage/operationLock.ts.   *)
(* Uploads, copies and pins hold it shared from their first block write to *)
(* their pin; Helia's block deletion holds it exclusively.  Everything     *)
(* here runs on one event loop, so each method is one step; what can       *)
(* interleave are the clients' calls.                                      *)
(*                                                                         *)
(* A client is a request or a job.  `lease` is the lease object it was     *)
(* given last; release() may be called on it any number of times, which    *)
(* the upload session and the response's close handler really do.          *)
(***************************************************************************)
EXTENDS Naturals, Sequences, FiniteSets

CONSTANTS Clients

ASSUME ClientsFinite == IsFiniteSet(Clients)

Modes == {"shared", "exclusive"}

VARIABLES readers,   \* number of shared leases out
          writer,    \* whether the exclusive lease is out
          waiters,   \* queued requests, oldest first
          lease      \* per client: its last lease object

vars == <<readers, writer, waiters, lease>>

Waiter == [client : Clients, mode : Modes]

\* A lease object is a mode plus its `released` flag; a queued client's
\* promise has not resolved, so it holds the object of "none" meanwhile.
LeaseObject == [mode : Modes \cup {"none"}, released : BOOLEAN]
NoLease     == [mode |-> "none", released |-> TRUE]
Held(m)     == [mode |-> m, released |-> FALSE]

\* Counter, flag, queue and lease objects are well formed; in particular a
\* repeated release never takes `readers` below zero.
TypeOK == /\ readers \in Nat
          /\ writer \in BOOLEAN
          /\ waiters \in Seq(Waiter)
          /\ lease \in [Clients -> LeaseObject]

Waiting(c)  == \E i \in 1..Len(waiters) : waiters[i].client = c
Holds(c, m) == lease[c].mode = m /\ ~lease[c].released
Holders(m)  == {c \in Clients : Holds(c, m)}
Holding     == Holders("shared") \cup Holders("exclusive")

Init == /\ readers = 0
        /\ writer = FALSE
        /\ waiters = <<>>
        /\ lease = [c \in Clients |-> NoLease]

\* A client asks for a lease only when it neither waits for one nor holds
\* one: refuseReentry() throws on the second request of one operation.
MayAsk(c) == lease[c].released /\ ~Waiting(c)

\* Joining the queue discards the client's previous lease object.
Enqueue(c, m) == /\ waiters' = Append(waiters, [client |-> c, mode |-> m])
                 /\ lease' = [lease EXCEPT ![c] = NoLease]
                 /\ UNCHANGED <<readers, writer>>

AcquireShared(c) ==
  /\ MayAsk(c)
  /\ \/ /\ ~writer /\ waiters = <<>>
        /\ readers' = readers + 1
        /\ lease' = [lease EXCEPT ![c] = Held("shared")]
        /\ UNCHANGED <<writer, waiters>>
     \/ /\ writer \/ waiters # <<>>
        /\ Enqueue(c, "shared")

\* Mutant: the collector does not wait for the readers that are out.
AcquireExclusiveOverReaders(c) ==
  /\ MayAsk(c)
  /\ \/ /\ ~writer /\ waiters = <<>>
        /\ writer' = TRUE
        /\ lease' = [lease EXCEPT ![c] = Held("exclusive")]
        /\ UNCHANGED <<readers, waiters>>
     \/ (writer \/ waiters # <<>>) /\ Enqueue(c, "exclusive")

AcquireExclusive(c) ==
  /\ MayAsk(c)
  /\ \/ /\ ~writer /\ readers = 0 /\ waiters = <<>>
        /\ writer' = TRUE
        /\ lease' = [lease EXCEPT ![c] = Held("exclusive")]
        /\ UNCHANGED <<readers, waiters>>
     \/ /\ writer \/ readers # 0 \/ waiters # <<>>
        /\ Enqueue(c, "exclusive")

-----------------------------------------------------------------------------
(***************************************************************************)
(* drain() after a release.  `left` and `busy` are readers and writer once *)
(* the lease is given back, `rest` the lease objects.                      *)
(***************************************************************************)

\* Mutant: the loop skips exclusive requests instead of stopping at one.
AllShared(ws) == {i \in 1..Len(ws) : ws[i].mode = "shared"}

\* The queue positions the while loop reaches: everything before the first
\* exclusive request.
LeadingShared(ws) == {i \in 1..Len(ws) : \A j \in 1..i : ws[j].mode = "shared"}

Granted(ws, rest) ==
  [c \in Clients |-> IF \E i \in LeadingShared(ws) : ws[i].client = c
                       THEN Held("shared") ELSE rest[c]]

Drain(left, busy, rest) ==
  \/ /\ busy \/ left > 0 \/ waiters = <<>>
     /\ readers' = left /\ writer' = busy /\ lease' = rest
     /\ UNCHANGED waiters
  \/ /\ ~busy /\ left = 0 /\ waiters # <<>>
     /\ waiters[1].mode = "exclusive"
     /\ readers' = left
     /\ writer' = TRUE
     /\ waiters' = Tail(waiters)
     /\ lease' = [rest EXCEPT ![waiters[1].client] = Held("exclusive")]
  \/ /\ ~busy /\ left = 0 /\ waiters # <<>>
     /\ waiters[1].mode = "shared"
     /\ LET n == Cardinality(LeadingShared(waiters)) IN
          /\ readers' = left + n
          /\ waiters' = SubSeq(waiters, n + 1, Len(waiters))
     /\ writer' = busy
     /\ lease' = Granted(waiters, rest)

\* Math.max(0, readers - 1) for a shared lease.
Decrement(n) == IF n = 0 THEN 0 ELSE n - 1

\* The first release() of a lease object.
ReleaseOnce(c) ==
  /\ lease[c].mode # "none" /\ ~lease[c].released
  /\ LET shared == lease[c].mode = "shared" IN
       Drain(IF shared THEN Decrement(readers) ELSE readers,
             IF shared THEN writer ELSE FALSE,
             [lease EXCEPT ![c].released = TRUE])

\* Mutants: the `released` flag is not looked at; nor is the counter clamped.
ReleaseTwice(c) ==
  /\ lease[c].mode = "shared" /\ lease[c].released
  /\ Drain(Decrement(readers), writer, lease)
ReleaseBelowZero(c) ==
  /\ lease[c].mode = "shared" /\ lease[c].released
  /\ Drain(readers - 1, writer, lease)

\* A second release() of the same object returns at once.
ReleaseAgain(c) ==
  /\ lease[c].mode # "none" /\ lease[c].released
  /\ UNCHANGED vars

Next == \E c \in Clients :
          AcquireShared(c) \/ AcquireExclusive(c) \/ ReleaseOnce(c) \/ ReleaseAgain(c)

\* Every holder releases: withShared/withExclusive do it in `finally`, the
\* upload session in onSettle.  Nothing makes a client ask.
Fairness == \A c \in Clients : WF_vars(ReleaseOnce(c))

Spec == Init /\ [][Next]_vars /\ Fairness

-----------------------------------------------------------------------------
(* Properties *)

\* The counters the code decides from agree with the leases really out, and
\* a collector never overlaps an upload, a copy or another collector
\* (readers, writer of StorageOperationLock).
MutualExclusion ==
  /\ readers = Cardinality(Holders("shared"))
  /\ writer <=> Holders("exclusive") # {}
  /\ \A c, d \in Holders("exclusive") : c = d
  /\ writer => Holders("shared") = {}

\* No lost wake-up: whenever somebody is queued, somebody still holds the
\* lease, so a release that will drain the queue is still to come.
NoLostWakeup == waiters # <<>> => writer \/ readers > 0

\* A client that is not queued never overtakes one that is, and a queued one
\* is granted only together with, or after, everybody ahead of it ("a waiting
\* collector blocks later readers").
NoBarging ==
  [][\A c \in Clients :
       c \notin Holding /\ c \in Holding'
         => \/ waiters = <<>>
            \/ \E i \in 1..Len(waiters) :
                 /\ waiters[i].client = c
                 /\ \A j \in 1..i : waiters[j].client \in Holding'
    ]_vars

\* Every queued upload and every queued collection is eventually granted,
\* although readers keep arriving.
EveryWaiterServed ==
  \A c \in Clients : Waiting(c) ~> c \in Holding

\* The queue implements the abstract reader/writer lease.
Lease == INSTANCE RWLease WITH sharing <- Holders("shared"),
                               collecting <- Holders("exclusive")
ImplementsRWLease == Lease!Spec
=============================================================================
