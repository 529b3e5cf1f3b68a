------------------------------ MODULE CidLocks ------------------------------
(***************************************************************************)
(* The per-CID queues of src/storage/registry.ts: FileRegistry.exclusive   *)
(* and withExclusiveCids.                                                  *)
(*                                                                         *)
(* The code keeps no queue as data.  `queued` maps a CID to the promise    *)
(* its last caller settles, and every caller chains its work on the        *)
(* promise it finds there.  So the model has, per CID, the operation whose *)
(* promise is the tail, and, per waiting operation, the one it is chained  *)
(* on.  A promise that has resolved already is no predecessor at all.      *)
(*                                                                         *)
(* CIDs are numbered by their place in lexical order.  Single-CID mutators *)
(* (createIfAbsent, transition, remove, setReplicas) are requests for one. *)
(***************************************************************************)
EXTENDS Naturals, FiniteSets

CONSTANTS Ops,   \* requests and jobs that change records
          Cids,  \* contents, numbered in lexical order
          None

ASSUME CidsAssumption == IsFiniteSet(Cids) /\ Cids \subseteq Nat
ASSUME NoneAssumption == None \notin Ops

VARIABLES queued,   \* per CID: the operation whose promise is the tail
          after,    \* per operation: the one whose promise it is chained on
          todo,     \* per operation: CIDs still to lock, the current one included
          holding,  \* per operation: CIDs locked
          pc

lockVars == <<queued, after, todo, holding, pc>>

Pcs == {"idle", "waiting", "working", "releasing"}

\* Entries, chains and sets of locks are well formed.
LocksTypeOK == /\ queued \in [Cids -> Ops \cup {None}]
               /\ after \in [Ops -> Ops \cup {None}]
               /\ todo \in [Ops -> SUBSET Cids]
               /\ holding \in [Ops -> SUBSET Cids]
               /\ pc \in [Ops -> Pcs]

LocksInit == /\ queued = [c \in Cids |-> None]
             /\ after = [o \in Ops |-> None]
             /\ todo = [o \in Ops |-> {}]
             /\ holding = [o \in Ops |-> {}]
             /\ pc = [o \in Ops |-> "idle"]

First(c, S) == c \in S /\ \A d \in S : c <= d
Last(c, S)  == c \in S /\ \A d \in S : d <= c

\* The CID an operation queues for next: the duplicates are gone, the rest
\* is sorted.
Ordered(o, c, S) == First(c, S)

Waits(o, c) == pc[o] = "waiting" /\ Ordered(o, c, todo[o])
Involved(o, c) == c \in holding[o] \/ Waits(o, c)

\* exclusive() for the next of S, up to its await: chain on the tail and
\* become the tail.
QueueFor(o, S) == \E c \in S : /\ Ordered(o, c, S)
                               /\ after' = [after EXCEPT ![o] = queued[c]]
                               /\ queued' = [queued EXCEPT ![c] = o]

Request(o, S) ==
  /\ pc[o] = "idle" /\ S # {}
  /\ todo' = [todo EXCEPT ![o] = S]
  /\ pc' = [pc EXCEPT ![o] = "waiting"]
  /\ QueueFor(o, S)
  /\ UNCHANGED holding

\* Mutant: the work starts with the first lock instead of the last one.
AcquireFirst(o) ==
  /\ pc[o] = "waiting" /\ after[o] = None
  /\ holding' = [holding EXCEPT ![o] = @ \cup todo[o]]
  /\ todo' = [todo EXCEPT ![o] = {}]
  /\ pc' = [pc EXCEPT ![o] = "working"]
  /\ UNCHANGED <<queued, after>>

\* The predecessor has settled: the lock is held, and in the same turn the
\* operation queues for the next CID or, with none left, starts its work.
Acquire(o) ==
  \E c \in todo[o] :
    LET rest == todo[o] \ {c} IN
    /\ Waits(o, c) /\ after[o] = None
    /\ holding' = [holding EXCEPT ![o] = @ \cup {c}]
    /\ todo' = [todo EXCEPT ![o] = rest]
    /\ \/ /\ rest = {}
          /\ pc' = [pc EXCEPT ![o] = "working"]
          /\ UNCHANGED <<queued, after>>
       \/ rest # {} /\ QueueFor(o, rest) /\ UNCHANGED pc

\* The work calls a public mutator on a CID it has locked already: exclusive
\* throws "Deadlock avoided", and the work fails with it.
Reenter(o, c) ==
  /\ pc[o] = "working" /\ c \in holding[o]
  /\ pc' = [pc EXCEPT ![o] = "releasing"]
  /\ UNCHANGED <<queued, after, todo, holding>>

\* Mutant: the entry is never deleted.
ReleaseKeeps(o) ==
  \E c \in holding[o] :
    /\ pc[o] \in {"working", "releasing"} /\ Last(c, holding[o])
    /\ holding' = [holding EXCEPT ![o] = @ \ {c}]
    /\ after' = [p \in Ops |-> IF Waits(p, c) /\ after[p] = o THEN None ELSE after[p]]
    /\ pc' = [pc EXCEPT ![o] = IF holding[o] = {c} THEN "idle" ELSE "releasing"]
    /\ UNCHANGED <<queued, todo>>

\* The work has returned or thrown (`then(work, work)` treats both alike).
\* The nested calls return innermost first: each lets its successor run and
\* deletes the entry if it is still the tail.
Release(o) ==
  \E c \in holding[o] :
    /\ pc[o] \in {"working", "releasing"} /\ Last(c, holding[o])
    /\ holding' = [holding EXCEPT ![o] = @ \ {c}]
    /\ after' = [p \in Ops |-> IF Waits(p, c) /\ after[p] = o THEN None ELSE after[p]]
    /\ pc' = [pc EXCEPT ![o] = IF holding[o] = {c} THEN "idle" ELSE "releasing"]
    /\ queued' = [queued EXCEPT ![c] = IF @ = o THEN None ELSE @]
    /\ UNCHANGED todo

LocksNext == \E o \in Ops :
               \/ \E S \in SUBSET Cids : Request(o, S)
               \/ Acquire(o)
               \/ \E c \in Cids : Reenter(o, c)
               \/ Release(o)

\* Resolved promises run their continuations, and work under a lock ends.
LocksFairness == \A o \in Ops : WF_lockVars(Acquire(o)) /\ WF_lockVars(Release(o))

LocksSpec == LocksInit /\ [][LocksNext]_lockVars /\ LocksFairness

-----------------------------------------------------------------------------
\* No two operations hold the lock of one CID, although a releasing holder
\* deletes the map entry that its successors were chained on.
Exclusive == \A o, p \in Ops : o # p => holding[o] \cap holding[p] = {}

\* The map has an entry exactly for the CIDs somebody holds or waits for:
\* it neither grows with every CID ever touched nor loses a busy one.
EntriesMatchUse ==
  \A c \in Cids : (queued[c] # None) <=> (\E o \in Ops : Involved(o, c))

\* No operations wait for each other in a circle, although each may hold some
\* of its locks while it queues for the next, and although the work inside
\* may call a locking mutator by mistake.
NoWaitCycle ==
  \A S \in (SUBSET Ops) \ {{}} :
    \E o \in S : ~(pc[o] = "waiting" /\ after[o] \in S)

\* Every request gets all the locks it asked for and gives them back,
\* however often the others ask for the same contents.
EveryRequestServed ==
  \A o \in Ops : pc[o] = "waiting" ~> pc[o] = "idle"

Mutex == INSTANCE CidMutex
           WITH owned <- [o \in Ops |-> IF pc[o] = "working" THEN holding[o] ELSE {}]

\* Seen by the work that runs inside, the queues behave like one atomic
\* acquisition of all CIDs.
ImplementsMutex == Mutex!Spec
=============================================================================
