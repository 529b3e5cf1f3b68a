-------------------------- MODULE NodeLocksProofs ---------------------------
(***************************************************************************)
(* Proofs about the two locks of a node, the storage operation lease and   *)
(* the per-CID queues, for any clients, operations and contents.           *)
(***************************************************************************)
EXTENDS StorageOperationLock, CidLocks, Integers, FiniteSetTheorems, SequenceTheorems, TLAPS

(***************************************************************************)
(* The reader/writer lease is safe for every finite set of clients: the    *)
(* counters agree with the leases out, a collector is alone, nobody is     *)
(* queued behind a free lease, the queue is never overtaken, and the whole *)
(* implements RWLease.                                                     *)
(***************************************************************************)

\* The invariant for a counter, a flag and lease objects of their own: a
\* release passes drain() the values it has just computed.
Out(l, m) == {c \in Clients : l[c].mode = m /\ ~l[c].released}

Consistent(n, w, l) ==
  /\ n = Cardinality(Out(l, "shared"))
  /\ w <=> Out(l, "exclusive") # {}
  /\ \A c, d \in Out(l, "exclusive") : c = d
  /\ w => Out(l, "shared") = {}

\* Nobody is queued twice, and nobody who is queued holds a lease.
Queued(q, l) ==
  /\ \A i, j \in 1..Len(q) : q[i].client = q[j].client => i = j
  /\ \A i \in 1..Len(q) : l[q[i].client] = NoLease

\* The strengthening of MutualExclusion and NoLostWakeup that every step
\* preserves.
IInv == /\ TypeOK
        /\ Consistent(readers, writer, lease)
        /\ Queued(waiters, lease)
        /\ NoLostWakeup

-----------------------------------------------------------------------------
\* The while loop of drain() takes a prefix of the queue, which is not empty
\* when the oldest request is a shared one.
LEMMA LeadingSharedIsPrefix ==
  ASSUME NEW ws \in Seq(Waiter)
  PROVE  \E n \in 0..Len(ws) : /\ LeadingShared(ws) = 1..n
                               /\ Cardinality(LeadingShared(ws)) = n
                               /\ ws # <<>> /\ ws[1].mode = "shared" => n > 0
<1> DEFINE E == {i \in 1..Len(ws) : ws[i].mode # "shared"}
<1>1. Len(ws) \in Nat
  OBVIOUS
<1>2. \E n \in 0..Len(ws) : /\ \A i \in 1..n : i \notin E
                            /\ n < Len(ws) => n + 1 \in E
  <2>1. CASE E = {}
    BY <1>1, <2>1
  <2>2. CASE E # {}
    <3>1. E \subseteq Nat
      BY <1>1
    <3>2. PICK m \in E : \A k \in E : ~(<<k, m>> \in OpToRel(<, Nat))
      BY <2>2, <3>1, WFMin, NatLessThanWellFounded
    <3>3. \A k \in E : ~(k < m)
      BY <3>1, <3>2 DEF OpToRel
    <3>4. m \in 1..Len(ws)
      OBVIOUS
    <3>5. m - 1 \in 0..Len(ws) /\ (m - 1) + 1 = m
      BY <1>1, <3>4
    <3>6. \A i \in 1..(m - 1) : i < m
      BY <1>1, <3>4
    <3> QED BY <3>3, <3>5, <3>6
  <2> QED BY <2>1, <2>2
<1>3. PICK n \in 0..Len(ws) : /\ \A i \in 1..n : i \notin E
                              /\ n < Len(ws) => n + 1 \in E
  BY <1>2
<1>4. LeadingShared(ws) = 1..n
  BY <1>1, <1>3 DEF LeadingShared
<1>5. Cardinality(1..n) = n
  BY <1>1, FS_Interval
<1>6. ws # <<>> /\ ws[1].mode = "shared" => n > 0
  <2> SUFFICES ASSUME ws # <<>>, ws[1].mode = "shared", n = 0 PROVE FALSE
    BY <1>1
  <2>1. Len(ws) > 0
    BY EmptySeq, <1>1
  <2> QED BY <1>3, <2>1
<1> QED BY <1>4, <1>5, <1>6

\* Sequences of lease requests: what Append, Tail and SubSeq return.
LEMMA QueueSteps ==
  ASSUME NEW q \in Seq(Waiter)
  PROVE  /\ \A w \in Waiter :
              /\ Append(q, w) \in Seq(Waiter) /\ Len(Append(q, w)) = Len(q) + 1
              /\ \A i \in 1..Len(q) : Append(q, w)[i] = q[i]
              /\ Append(q, w)[Len(q) + 1] = w
         /\ \A n \in 0..Len(q) :
              /\ SubSeq(q, n + 1, Len(q)) \in Seq(Waiter)
              /\ Len(SubSeq(q, n + 1, Len(q))) = Len(q) - n
              /\ \A i \in 1..(Len(q) - n) : SubSeq(q, n + 1, Len(q))[i] = q[n + i]
<1>1. Len(q) \in Nat
  OBVIOUS
<1>2. ASSUME NEW n \in 0..Len(q)
      PROVE  /\ SubSeq(q, n + 1, Len(q)) \in Seq(Waiter)
             /\ Len(SubSeq(q, n + 1, Len(q))) = Len(q) - n
             /\ \A i \in 1..(Len(q) - n) : SubSeq(q, n + 1, Len(q))[i] = q[n + i]
  <2>1. \A i \in (n + 1)..Len(q) : q[i] \in Waiter
    BY <1>1
  <2>2. n + 1 \in Int /\ Len(q) \in Int
    BY <1>1
  <2>3. /\ SubSeq(q, n + 1, Len(q)) \in Seq(Waiter)
        /\ Len(SubSeq(q, n + 1, Len(q))) =
             IF n + 1 <= Len(q) THEN Len(q) - (n + 1) + 1 ELSE 0
        /\ \A i \in 1..(Len(q) - (n + 1) + 1) :
              SubSeq(q, n + 1, Len(q))[i] = q[(n + 1) + i - 1]
    BY <2>1, <2>2, SubSeqProperties
  <2> QED BY <1>1, <2>3
<1> QED BY <1>2, AppendProperties

-----------------------------------------------------------------------------
LEMMA InitIInv == Init => IInv
<1> SUFFICES ASSUME Init PROVE IInv
  OBVIOUS
<1>1. TypeOK
  <2>1. waiters \in Seq(Waiter)
    BY EmptySeq DEF Init
  <2>2. lease \in [Clients -> LeaseObject]
    BY DEF Init, LeaseObject, NoLease
  <2> QED BY <2>1, <2>2 DEF Init, TypeOK
<1>2. \A m : Out(lease, m) = {}
  BY DEF Init, Out, NoLease
<1>3. Consistent(readers, writer, lease)
  BY <1>2, FS_EmptySet DEF Init, Consistent
<1>4. Queued(waiters, lease)
  BY DEF Init, Queued
<1> QED BY <1>1, <1>3, <1>4 DEF IInv, NoLostWakeup, Init

\* Joining the queue.
LEMMA EnqueueKeepsIInv ==
  ASSUME IInv, NEW c \in Clients, NEW m \in Modes, MayAsk(c), Enqueue(c, m),
         writer \/ readers # 0 \/ waiters # <<>>
  PROVE  IInv'
<1> DEFINE w == [client |-> c, mode |-> m]
<1> USE DEF IInv
<1>1. w \in Waiter
  BY DEF Waiter
<1>2. /\ waiters' = Append(waiters, w)
      /\ lease' = [lease EXCEPT ![c] = NoLease]
      /\ readers' = readers /\ writer' = writer
  BY DEF Enqueue
<1>3. TypeOK'
  BY <1>1, <1>2, QueueSteps DEF TypeOK, NoLease, LeaseObject, Modes
<1>4. \A k \in Modes : Out(lease', k) = Out(lease, k)
  BY <1>2 DEF Out, MayAsk, TypeOK, NoLease, Modes
<1>5. Consistent(readers, writer, lease)'
  BY <1>2, <1>4 DEF Consistent, Modes
<1>6. Queued(waiters, lease)'
  <2>1. Len(waiters) \in Nat /\ waiters \in Seq(Waiter)
    BY DEF TypeOK
  <2>2. \A i \in 1..Len(waiters) : waiters[i].client \in Clients /\ waiters[i].client # c
    <3>1. \A i \in 1..Len(waiters) : waiters[i] \in Waiter
      BY <2>1
    <3> QED BY <3>1 DEF MayAsk, Waiting, Waiter
  <2>3. /\ Len(waiters') = Len(waiters) + 1
        /\ \A i \in 1..Len(waiters) : waiters'[i] = waiters[i]
        /\ waiters'[Len(waiters) + 1].client = c
    BY <1>1, <1>2, <2>1, QueueSteps
  <2>4. \A i \in 1..Len(waiters') : i \in 1..Len(waiters) \/ i = Len(waiters) + 1
    BY <2>1, <2>3
  <2>5. \A i \in 1..Len(waiters') : lease'[waiters'[i].client] = NoLease
    BY <1>2, <2>2, <2>3, <2>4 DEF TypeOK, Queued
  <2>6. \A i, j \in 1..Len(waiters') : waiters'[i].client = waiters'[j].client => i = j
    BY <2>2, <2>3, <2>4 DEF Queued
  <2> QED BY <2>5, <2>6 DEF Queued
<1>7. NoLostWakeup'
  BY <1>2 DEF NoLostWakeup, TypeOK
<1> QED BY <1>3, <1>5, <1>6, <1>7

\* A client gets a lease from the free or the shared state.
LEMMA GrantKeepsConsistent ==
  ASSUME TypeOK, NEW l \in [Clients -> LeaseObject], NEW n, NEW w \in BOOLEAN,
         Consistent(n, w, l), ~w, NEW c \in Clients, c \notin Out(l, "shared")
  PROVE  /\ Consistent(n + 1, FALSE, [l EXCEPT ![c] = Held("shared")])
         /\ n = 0 => Consistent(0, TRUE, [l EXCEPT ![c] = Held("exclusive")])
<1> DEFINE ls == [l EXCEPT ![c] = Held("shared")]
           lx == [l EXCEPT ![c] = Held("exclusive")]
<1>1. IsFiniteSet(Out(l, "shared"))
  BY ClientsFinite, FS_Subset DEF Out
<1>2. Out(l, "exclusive") = {}
  BY DEF Consistent
<1>3. Out(ls, "shared") = Out(l, "shared") \cup {c} /\ Out(ls, "exclusive") = {}
  BY <1>2 DEF Out, Held
<1>4. Cardinality(Out(l, "shared") \cup {c}) = Cardinality(Out(l, "shared")) + 1
  BY <1>1, FS_AddElement
<1>5. Consistent(n + 1, FALSE, ls)
  BY <1>3, <1>4 DEF Consistent
<1>6. ASSUME n = 0 PROVE Consistent(0, TRUE, lx)
  <2>1. Out(l, "shared") = {}
    BY <1>1, <1>6, FS_EmptySet DEF Consistent
  <2>2. Out(lx, "exclusive") = {c} /\ Out(lx, "shared") = {}
    BY <1>2, <2>1 DEF Out, Held
  <2> QED BY <2>2, FS_EmptySet DEF Consistent
<1> QED BY <1>5, <1>6

\* drain(), started with consistent values and a queue of idle clients.
LEMMA DrainKeepsIInv ==
  ASSUME TypeOK, NEW left \in Nat, NEW busy \in BOOLEAN,
         NEW rest \in [Clients -> LeaseObject],
         Consistent(left, busy, rest), Queued(waiters, rest),
         Drain(left, busy, rest)
  PROVE  IInv'
<1>1. Len(waiters) \in Nat /\ waiters \in Seq(Waiter)
  BY DEF TypeOK
<1>2. \A i \in 1..Len(waiters) : waiters[i].client \in Clients
  <2>1. \A i \in 1..Len(waiters) : waiters[i] \in Waiter
    BY <1>1
  <2> QED BY <2>1 DEF Waiter
<1>3. \A i \in 1..Len(waiters), m \in Modes : waiters[i].client \notin Out(rest, m)
  BY DEF Queued, Out, NoLease
<1>4. CASE busy \/ left > 0 \/ waiters = <<>>
  <2>1. readers' = left /\ writer' = busy /\ lease' = rest /\ waiters' = waiters
    BY <1>4 DEF Drain
  <2> QED BY <1>4, <2>1 DEF IInv, TypeOK, NoLostWakeup
<1>5. CASE ~busy /\ left = 0 /\ waiters # <<>> /\ waiters[1].mode = "exclusive"
  <2> DEFINE c == waiters[1].client
  <2>1. /\ readers' = 0 /\ writer' = TRUE /\ waiters' = Tail(waiters)
        /\ lease' = [rest EXCEPT ![c] = Held("exclusive")]
    BY <1>5 DEF Drain
  <2>2. 1 \in 1..Len(waiters)
    BY <1>1, <1>5, EmptySeq
  <2>3. c \in Clients /\ c \notin Out(rest, "shared")
    BY <1>2, <1>3, <2>2 DEF Modes
  <2>4. Consistent(readers, writer, lease)'
    BY <1>5, <2>1, <2>3, GrantKeepsConsistent
  <2>5. /\ waiters' \in Seq(Waiter) /\ Len(waiters') = Len(waiters) - 1
        /\ \A i \in 1..Len(waiters') : waiters'[i] = waiters[i + 1]
    BY <1>1, <1>5, <2>1, HeadTailProperties
  <2>6. TypeOK'
    BY <2>1, <2>3, <2>5 DEF TypeOK, Held, LeaseObject, Modes
  <2>7. \A i \in 1..Len(waiters') : i + 1 \in 1..Len(waiters) /\ i + 1 # 1
    BY <1>1, <2>5
  <2>8. \A i \in 1..Len(waiters') : waiters'[i].client # c
    BY <2>2, <2>5, <2>7 DEF Queued
  <2>9. Queued(waiters, lease)'
    <3>1. \A i \in 1..Len(waiters') : lease'[waiters'[i].client] = NoLease
      BY <1>2, <2>1, <2>5, <2>7, <2>8 DEF Queued
    <3>2. \A i, j \in 1..Len(waiters') : waiters'[i].client = waiters'[j].client => i = j
      <4> TAKE i, j \in 1..Len(waiters')
      <4> HAVE waiters'[i].client = waiters'[j].client
      <4>1. i + 1 = j + 1
        BY <2>5, <2>7 DEF Queued
      <4> QED BY <4>1, <1>1, <2>5
    <3> QED BY <3>1, <3>2 DEF Queued
  <2> QED BY <2>1, <2>4, <2>6, <2>9 DEF IInv, NoLostWakeup
<1>6. CASE ~busy /\ left = 0 /\ waiters # <<>> /\ waiters[1].mode = "shared"
  <2>1. PICK n \in 0..Len(waiters) : /\ LeadingShared(waiters) = 1..n
                                     /\ Cardinality(LeadingShared(waiters)) = n
                                     /\ n > 0
    BY <1>1, <1>6, LeadingSharedIsPrefix
  <2>2. /\ readers' = n /\ writer' = FALSE
        /\ waiters' = SubSeq(waiters, n + 1, Len(waiters))
        /\ lease' = Granted(waiters, rest)
    BY <1>6, <2>1, SMTT(20) DEF Drain, Modes
  <2> DEFINE G == {waiters[i].client : i \in 1..n}
  <2>3. 1..n \subseteq 1..Len(waiters) /\ n \in Nat
    BY <1>1
  <2>4. G \subseteq Clients
    BY <1>2, <2>3
  <2>5. /\ \A c \in G : lease'[c] = Held("shared")
        /\ \A c \in Clients \ G : lease'[c] = rest[c]
    BY <2>1, <2>2, <2>4 DEF Granted
  <2>6. Out(rest, "shared") = {} /\ Out(rest, "exclusive") = {}
    <3>1. IsFiniteSet(Out(rest, "shared"))
      BY ClientsFinite, FS_Subset DEF Out
    <3> QED BY <1>6, <3>1, FS_EmptySet DEF Consistent
  <2>7. Out(lease', "shared") = G /\ Out(lease', "exclusive") = {}
    BY <2>4, <2>5, <2>6 DEF Out, Held
  <2>8. Cardinality(G) = n
    <3> DEFINE f == [i \in 1..n |-> waiters[i].client]
    <3>1. f \in [1..n -> G] /\ \A g \in G : \E i \in 1..n : f[i] = g
      OBVIOUS
    <3>2. \A i, j \in 1..n : f[i] = f[j] => i = j
      BY <2>3 DEF Queued
    <3>3. f \in Bijection(1..n, G)
      BY <3>1, <3>2 DEF Bijection, Injection, Surjection, IsInjective
    <3>4. ExistsBijection(1..n, G)
      BY <3>3 DEF ExistsBijection
    <3> QED BY <2>3, <3>4, FS_CountingElements
  <2>9. Consistent(readers, writer, lease)'
    BY <2>2, <2>7, <2>8 DEF Consistent
  <2>10. /\ waiters' \in Seq(Waiter) /\ Len(waiters') = Len(waiters) - n
         /\ \A i \in 1..Len(waiters') : waiters'[i] = waiters[n + i]
    BY <1>1, <2>2, QueueSteps
  <2>11. lease' \in [Clients -> LeaseObject]
    BY <2>2 DEF Granted, Held, LeaseObject, Modes
  <2>12. TypeOK'
    BY <2>2, <2>3, <2>10, <2>11 DEF TypeOK
  <2>13. \A i \in 1..Len(waiters') : n + i \in 1..Len(waiters) /\ n + i \notin 1..n
    BY <1>1, <2>3, <2>10
  <2>14. \A i \in 1..Len(waiters') : waiters'[i].client \in Clients \ G
    <3> TAKE i \in 1..Len(waiters')
    <3>1. \A k \in 1..n : waiters[k].client # waiters[n + i].client
      BY <2>3, <2>13 DEF Queued
    <3> QED BY <1>2, <2>10, <2>13, <3>1
  <2>15. Queued(waiters, lease)'
    <3>1. \A i \in 1..Len(waiters') : lease'[waiters'[i].client] = NoLease
      <4> TAKE i \in 1..Len(waiters')
      <4>1. rest[waiters[n + i].client] = NoLease
        BY <2>13, Zenon DEF Queued
      <4>2. waiters'[i].client = waiters[n + i].client
        BY <2>10
      <4>3. lease'[waiters'[i].client] = rest[waiters'[i].client]
        BY <2>5, <2>14, Zenon
      <4> QED BY <4>1, <4>2, <4>3
    <3>2. \A i, j \in 1..Len(waiters') : waiters'[i].client = waiters'[j].client => i = j
      <4> TAKE i, j \in 1..Len(waiters')
      <4> HAVE waiters'[i].client = waiters'[j].client
      <4>1. /\ n + i \in 1..Len(waiters) /\ n + j \in 1..Len(waiters)
            /\ waiters[n + i].client = waiters[n + j].client
        BY <2>10, <2>13
      <4>2. n + i = n + j
        BY <4>1 DEF Queued
      <4> QED BY <4>2, <1>1, <2>3, <2>10
    <3> QED BY <3>1, <3>2 DEF Queued
  <2> QED BY <2>1, <2>2, <2>9, <2>12, <2>15 DEF IInv, NoLostWakeup
<1>7. waiters = <<>> \/ waiters[1].mode = "shared" \/ waiters[1].mode = "exclusive"
  <2>1. waiters # <<>> => waiters[1] \in Waiter
    BY <1>1, EmptySeq
  <2> QED BY <2>1 DEF Waiter, Modes
<1>8. left = 0 \/ left > 0
  OBVIOUS
<1> QED BY <1>4, <1>5, <1>6, <1>7, <1>8, Zenon

\* The first release() of a lease object hands drain() consistent values.
LEMMA ReleaseIsDrain ==
  ASSUME IInv, NEW c \in Clients, ReleaseOnce(c)
  PROVE  \E left \in Nat, busy \in BOOLEAN, rest \in [Clients -> LeaseObject] :
           /\ Consistent(left, busy, rest) /\ Queued(waiters, rest)
           /\ Drain(left, busy, rest)
           /\ \A m \in Modes : Out(rest, m) = Out(lease, m) \ {c}
           /\ \E m \in Modes : c \in Out(lease, m)
<1> DEFINE shared == lease[c].mode = "shared"
           left == IF shared THEN Decrement(readers) ELSE readers
           busy == IF shared THEN writer ELSE FALSE
           rest == [lease EXCEPT ![c].released = TRUE]
<1> USE DEF IInv
<1>1. Drain(left, busy, rest) /\ lease[c].mode # "none" /\ ~lease[c].released
  BY DEF ReleaseOnce
<1>2. /\ lease[c] \in LeaseObject /\ lease \in [Clients -> LeaseObject]
      /\ readers \in Nat /\ writer \in BOOLEAN
  BY DEF TypeOK
<1>3. lease[c].mode \in Modes
  BY <1>1, <1>2 DEF LeaseObject
<1>4. rest \in [Clients -> LeaseObject]
  BY <1>2 DEF LeaseObject
<1>5. c \in Out(lease, lease[c].mode)
  BY <1>1 DEF Out
<1>6. \A m \in Modes : Out(rest, m) = Out(lease, m) \ {c}
  BY <1>2 DEF Out, LeaseObject
<1>7. Queued(waiters, rest)
  <2>1. \A i \in 1..Len(waiters) : waiters[i].client # c
    BY <1>1 DEF Queued, NoLease
  <2> QED BY <1>2, <2>1 DEF Queued
<1>8. IsFiniteSet(Out(lease, "shared"))
  BY ClientsFinite, FS_Subset DEF Out
<1>9. left \in Nat /\ busy \in BOOLEAN /\ Consistent(left, busy, rest)
  <2>1. CASE shared
    <3>1. c \in Out(lease, "shared")
      BY <1>5, <2>1
    <3>2. Cardinality(Out(rest, "shared")) = readers - 1
      BY <1>6, <1>8, <3>1, FS_RemoveElement DEF Consistent, Modes
    <3>3. readers # 0
      BY <1>8, <3>1, FS_EmptySet DEF Consistent
    <3>4. left = readers - 1 /\ left \in Nat /\ busy = writer
      BY <1>2, <2>1, <3>3 DEF Decrement
    <3>5. ~writer /\ Out(rest, "exclusive") = {}
      BY <1>6, <3>1 DEF Consistent, Modes
    <3> QED BY <1>2, <3>2, <3>4, <3>5 DEF Consistent
  <2>2. CASE ~shared
    <3>1. c \in Out(lease, "exclusive")
      BY <1>3, <1>5, <2>2 DEF Modes
    <3>2. writer /\ Out(lease, "shared") = {} /\ Out(lease, "exclusive") = {c}
      BY <3>1 DEF Consistent
    <3>3. Out(rest, "shared") = {} /\ Out(rest, "exclusive") = {}
      BY <1>6, <3>2 DEF Modes
    <3>4. left = readers /\ busy = FALSE /\ left = Cardinality(Out(rest, "shared"))
      BY <2>2, <3>2, <3>3 DEF Consistent
    <3> QED BY <1>2, <3>3, <3>4 DEF Consistent
  <2> QED BY <2>1, <2>2
<1> QED BY <1>1, <1>3, <1>4, <1>5, <1>6, <1>7, <1>9

LEMMA StepKeepsIInv == IInv /\ [Next]_vars => IInv'
<1> SUFFICES ASSUME IInv, [Next]_vars PROVE IInv'
  OBVIOUS
<1>1. ASSUME NEW c \in Clients, AcquireShared(c) PROVE IInv'
  <2>1. CASE ~writer /\ waiters = <<>>
    <3>1. /\ readers' = readers + 1 /\ writer' = writer /\ waiters' = <<>>
          /\ lease' = [lease EXCEPT ![c] = Held("shared")]
      BY <1>1, <2>1 DEF AcquireShared
    <3>2. c \notin Out(lease, "shared")
      BY <1>1 DEF AcquireShared, MayAsk, Out
    <3>3. Consistent(readers, writer, lease)'
      <4>1. writer' = FALSE
        BY <2>1, <3>1 DEF IInv, TypeOK
      <4>2. Consistent(readers + 1, FALSE, [lease EXCEPT ![c] = Held("shared")])
        BY <2>1, <3>2, GrantKeepsConsistent DEF IInv, TypeOK
      <4> QED BY <3>1, <4>1, <4>2
    <3>4. TypeOK'
      BY <2>1, <3>1 DEF IInv, TypeOK, Held, LeaseObject, Modes
    <3>5. Queued(waiters, lease)' /\ NoLostWakeup'
      BY <3>1 DEF Queued, NoLostWakeup
    <3> QED BY <3>3, <3>4, <3>5 DEF IInv
  <2>2. CASE writer \/ waiters # <<>>
    <3>1. MayAsk(c) /\ Enqueue(c, "shared")
      BY <1>1, <2>2 DEF AcquireShared
    <3> QED BY <2>2, <3>1, EnqueueKeepsIInv DEF Modes
  <2> QED BY <2>1, <2>2
<1>2. ASSUME NEW c \in Clients, AcquireExclusive(c) PROVE IInv'
  <2>1. CASE ~writer /\ readers = 0 /\ waiters = <<>>
    <3>1. /\ readers' = readers /\ writer' = TRUE /\ waiters' = <<>>
          /\ lease' = [lease EXCEPT ![c] = Held("exclusive")]
      BY <1>2, <2>1 DEF AcquireExclusive
    <3>2. c \notin Out(lease, "shared")
      BY <1>2 DEF AcquireExclusive, MayAsk, Out
    <3>3. Consistent(readers, writer, lease)'
      BY <2>1, <3>1, <3>2, GrantKeepsConsistent DEF IInv, TypeOK
    <3>4. TypeOK'
      BY <2>1, <3>1 DEF IInv, TypeOK, Held, LeaseObject, Modes
    <3>5. Queued(waiters, lease)' /\ NoLostWakeup'
      BY <3>1 DEF Queued, NoLostWakeup
    <3> QED BY <3>3, <3>4, <3>5 DEF IInv
  <2>2. CASE writer \/ readers # 0 \/ waiters # <<>>
    <3>1. MayAsk(c) /\ Enqueue(c, "exclusive")
      BY <1>2, <2>2 DEF AcquireExclusive
    <3> QED BY <2>2, <3>1, EnqueueKeepsIInv DEF Modes
  <2> QED BY <2>1, <2>2
<1>3. ASSUME NEW c \in Clients, ReleaseOnce(c) PROVE IInv'
  <2>1. PICK left \in Nat, busy \in BOOLEAN, rest \in [Clients -> LeaseObject] :
          Consistent(left, busy, rest) /\ Queued(waiters, rest) /\ Drain(left, busy, rest)
    BY <1>3, ReleaseIsDrain
  <2> QED BY <2>1, DrainKeepsIInv DEF IInv
<1>4. CASE UNCHANGED vars
  BY <1>4 DEF vars, IInv, TypeOK, Consistent, Out, Queued, NoLostWakeup
<1> QED BY <1>1, <1>2, <1>3, <1>4 DEF Next, ReleaseAgain

\* For every finite set of clients the counters stay in their types.
THEOREM LeaseTypeCorrect == Spec => []TypeOK
<1>1. IInv => TypeOK
  BY DEF IInv
<1> QED BY <1>1, InitIInv, StepKeepsIInv, PTL DEF Spec

\* A collection never overlaps an upload, a copy or another collection, and
\* readers/writer count exactly the leases that are out.
THEOREM LeaseMutualExclusion == Spec => []MutualExclusion
<1>1. IInv => MutualExclusion
  BY DEF IInv, MutualExclusion, Consistent, Out, Holders, Holds
<1> QED BY <1>1, InitIInv, StepKeepsIInv, PTL DEF Spec

\* A queued request always has a release ahead of it that will drain it.
THEOREM LeaseNoLostWakeup == Spec => []NoLostWakeup
<1>1. IInv => NoLostWakeup
  BY DEF IInv
<1> QED BY <1>1, InitIInv, StepKeepsIInv, PTL DEF Spec

-----------------------------------------------------------------------------
\* Whom a drain() lets in: nobody, the collector at the head of the queue, or
\* the readers that lead it.
LEMMA DrainOutcome ==
  ASSUME TypeOK, NEW left \in Nat, NEW busy \in BOOLEAN,
         NEW rest \in [Clients -> LeaseObject],
         Consistent(left, busy, rest), Drain(left, busy, rest)
  PROVE  \/ \A m \in Modes : Out(lease', m) = Out(rest, m)
         \/ /\ \A m \in Modes : Out(rest, m) = {}
            /\ 1 \in 1..Len(waiters) /\ waiters[1].client \in Clients
            /\ Out(lease', "exclusive") = {waiters[1].client}
            /\ Out(lease', "shared") = {}
         \/ /\ \A m \in Modes : Out(rest, m) = {}
            /\ Out(lease', "exclusive") = {}
            /\ \E n \in 1..Len(waiters) :
                 Out(lease', "shared") = {waiters[i].client : i \in 1..n}
<1>1. Len(waiters) \in Nat /\ waiters \in Seq(Waiter)
  BY DEF TypeOK
<1>2. \A i \in 1..Len(waiters) : waiters[i].client \in Clients
  <2>1. \A i \in 1..Len(waiters) : waiters[i] \in Waiter
    BY <1>1
  <2> QED BY <2>1 DEF Waiter
<1>3. ASSUME left = 0, ~busy PROVE \A m \in Modes : Out(rest, m) = {}
  <2>1. IsFiniteSet(Out(rest, "shared"))
    BY ClientsFinite, FS_Subset DEF Out
  <2> QED BY <1>3, <2>1, FS_EmptySet DEF Consistent, Modes
<1>4. CASE busy \/ left > 0 \/ waiters = <<>>
  <2>1. lease' = rest
    BY <1>4 DEF Drain
  <2> QED BY <2>1
<1>5. CASE ~busy /\ left = 0 /\ waiters # <<>> /\ waiters[1].mode = "exclusive"
  <2>1. 1 \in 1..Len(waiters)
    BY <1>1, <1>5, EmptySeq
  <2>2. lease' = [rest EXCEPT ![waiters[1].client] = Held("exclusive")]
    BY <1>5 DEF Drain
  <2>3. \A m \in Modes : Out(rest, m) = {}
    BY <1>3, <1>5
  <2>4. Out(lease', "exclusive") = {waiters[1].client} /\ Out(lease', "shared") = {}
    BY <1>2, <2>1, <2>2, <2>3 DEF Out, Held, Modes
  <2> QED BY <1>2, <2>1, <2>3, <2>4
<1>6. CASE ~busy /\ left = 0 /\ waiters # <<>> /\ waiters[1].mode = "shared"
  <2>1. PICK n \in 0..Len(waiters) : LeadingShared(waiters) = 1..n /\ n > 0
    BY <1>1, <1>6, LeadingSharedIsPrefix
  <2>2. lease' = Granted(waiters, rest)
    BY <1>6 DEF Drain
  <2>3. \A m \in Modes : Out(rest, m) = {}
    BY <1>3, <1>6
  <2>4. n \in 1..Len(waiters) /\ 1..n \subseteq 1..Len(waiters)
    BY <1>1, <2>1
  <2> DEFINE G == {waiters[i].client : i \in 1..n}
  <2>5. G \subseteq Clients
    BY <1>2, <2>4
  <2>6. /\ \A c \in G : lease'[c] = Held("shared")
        /\ \A c \in Clients \ G : lease'[c] = rest[c]
    BY <2>1, <2>2, <2>5 DEF Granted
  <2>7. Out(lease', "shared") = G /\ Out(lease', "exclusive") = {}
    BY <2>3, <2>5, <2>6 DEF Out, Held, Modes
  <2> QED BY <2>3, <2>4, <2>7
<1>7. waiters = <<>> \/ waiters[1].mode = "shared" \/ waiters[1].mode = "exclusive"
  <2>1. waiters # <<>> => waiters[1] \in Waiter
    BY <1>1, EmptySeq
  <2> QED BY <2>1 DEF Waiter, Modes
<1>8. left = 0 \/ left > 0
  OBVIOUS
<1> QED BY <1>4, <1>5, <1>6, <1>7, <1>8, Zenon

\* What every step does to the sets of holders.
LEMMA HoldersAfterStep ==
  ASSUME IInv, NEW c \in Clients,
         AcquireShared(c) \/ AcquireExclusive(c) \/ ReleaseAgain(c)
  PROVE  \/ \A m \in Modes : Out(lease', m) = Out(lease, m)
         \/ /\ waiters = <<>> /\ Out(lease, "exclusive") = {}
            /\ Out(lease', "shared") = Out(lease, "shared") \cup {c}
            /\ Out(lease', "exclusive") = {}
         \/ /\ waiters = <<>> /\ \A m \in Modes : Out(lease, m) = {}
            /\ Out(lease', "exclusive") = {c} /\ Out(lease', "shared") = {}
<1>1. lease \in [Clients -> LeaseObject] /\ Consistent(readers, writer, lease)
  BY DEF IInv, TypeOK
<1>2. ASSUME NEW m \in Modes, MayAsk(c), Enqueue(c, m)
      PROVE  \A k \in Modes : Out(lease', k) = Out(lease, k)
  BY <1>1, <1>2 DEF Enqueue, MayAsk, Out, NoLease, Modes
<1>3. CASE AcquireShared(c) /\ ~writer /\ waiters = <<>>
  <2>1. lease' = [lease EXCEPT ![c] = Held("shared")]
    BY <1>3 DEF AcquireShared
  <2>2. Out(lease, "exclusive") = {}
    BY <1>1, <1>3 DEF Consistent
  <2>3. /\ Out(lease', "shared") = Out(lease, "shared") \cup {c}
        /\ Out(lease', "exclusive") = {}
    BY <1>1, <2>1, <2>2 DEF Out, Held
  <2> QED BY <1>3, <2>2, <2>3
<1>4. CASE AcquireExclusive(c) /\ ~writer /\ readers = 0 /\ waiters = <<>>
  <2>1. lease' = [lease EXCEPT ![c] = Held("exclusive")]
    BY <1>4 DEF AcquireExclusive
  <2>2. IsFiniteSet(Out(lease, "shared"))
    BY ClientsFinite, FS_Subset DEF Out
  <2>3. \A m \in Modes : Out(lease, m) = {}
    BY <1>1, <1>4, <2>2, FS_EmptySet DEF Consistent, Modes
  <2>4. Out(lease', "exclusive") = {c} /\ Out(lease', "shared") = {}
    BY <1>1, <2>1, <2>3 DEF Out, Held, Modes
  <2> QED BY <1>4, <2>3, <2>4
<1>5. CASE ReleaseAgain(c)
  BY <1>5 DEF ReleaseAgain, vars
<1> QED BY <1>2, <1>3, <1>4, <1>5 DEF AcquireShared, AcquireExclusive, Modes

\* Nobody overtakes the queue: a new holder found it empty, or was in it with
\* everybody ahead of it granted too.
THEOREM LeaseNoBarging == Spec => NoBarging
<1> DEFINE Fair == \A c \in Clients :
             c \notin Holding /\ c \in Holding'
               => \/ waiters = <<>>
                  \/ \E i \in 1..Len(waiters) :
                       /\ waiters[i].client = c
                       /\ \A j \in 1..i : waiters[j].client \in Holding'
<1>1. Holding = Out(lease, "shared") \cup Out(lease, "exclusive")
  BY DEF Holding, Holders, Holds, Out
<1>2. Holding' = Out(lease', "shared") \cup Out(lease', "exclusive")
  BY DEF Holding, Holders, Holds, Out
<1>3. ASSUME IInv, Next PROVE Fair
  <2>1. PICK a \in Clients : \/ AcquireShared(a) \/ AcquireExclusive(a) \/ ReleaseAgain(a)
                            \/ ReleaseOnce(a)
    BY <1>3 DEF Next
  <2>2. CASE AcquireShared(a) \/ AcquireExclusive(a) \/ ReleaseAgain(a)
    BY <1>1, <1>2, <1>3, <2>2, HoldersAfterStep DEF Modes
  <2>3. CASE ReleaseOnce(a)
    <3>1. PICK left \in Nat, busy \in BOOLEAN, rest \in [Clients -> LeaseObject] :
            /\ Consistent(left, busy, rest) /\ Drain(left, busy, rest)
            /\ \A m \in Modes : Out(rest, m) = Out(lease, m) \ {a}
      BY <1>3, <2>3, ReleaseIsDrain
    <3>2. Len(waiters) \in Nat
      BY <1>3 DEF IInv, TypeOK
    <3>3. CASE \A m \in Modes : Out(lease', m) = Out(rest, m)
      BY <1>1, <1>2, <3>1, <3>3 DEF Modes
    <3>4. CASE /\ 1 \in 1..Len(waiters) /\ Out(lease', "shared") = {}
               /\ Out(lease', "exclusive") = {waiters[1].client}
      BY <1>2, <3>2, <3>4
    <3>5. ASSUME NEW n \in 1..Len(waiters), Out(lease', "exclusive") = {},
                 Out(lease', "shared") = {waiters[i].client : i \in 1..n}
          PROVE  Fair
      <4> SUFFICES ASSUME NEW c \in Holding'
                   PROVE  \E i \in 1..Len(waiters) :
                            /\ waiters[i].client = c
                            /\ \A j \in 1..i : waiters[j].client \in Holding'
        OBVIOUS
      <4>1. PICK i \in 1..n : waiters[i].client = c
        BY <1>2, <3>5
      <4>2. i \in 1..Len(waiters) /\ \A j \in 1..i : j \in 1..n
        BY <3>2
      <4> QED BY <1>2, <3>5, <4>1, <4>2
    <3> QED BY <1>3, <3>1, <3>3, <3>4, <3>5, DrainOutcome DEF IInv
  <2> QED BY <2>1, <2>2, <2>3
<1>4. ASSUME UNCHANGED vars PROVE Fair
  BY <1>1, <1>2, <1>4 DEF vars
<1>5. IInv /\ [Next]_vars => [Fair]_vars
  BY <1>3, <1>4
<1> QED BY <1>5, InitIInv, StepKeepsIInv, PTL DEF Spec, NoBarging

\* The queue implements the lease its clients rely on: every step admits
\* readers, admits one collector, lets a holder leave, or changes nothing.
THEOREM LeaseImplementsRWLease == Spec => ImplementsRWLease
<1>1. \A m : Holders(m) = Out(lease, m)
  BY DEF Holders, Holds, Out
<1>2. \A m : Holders(m)' = Out(lease', m)
  BY DEF Holders, Holds, Out
<1>3. Init => Lease!Init
  BY DEF Init, Lease!Init, Holders, Holds, NoLease
<1>4. ASSUME IInv, Next PROVE [Lease!Next]_(Lease!vars)
  <2>1. PICK a \in Clients : \/ AcquireShared(a) \/ AcquireExclusive(a) \/ ReleaseAgain(a)
                            \/ ReleaseOnce(a)
    BY <1>4 DEF Next
  <2>2. CASE AcquireShared(a) \/ AcquireExclusive(a) \/ ReleaseAgain(a)
    <3>1. CASE \A m \in Modes : Out(lease', m) = Out(lease, m)
      BY <1>1, <1>2, <3>1 DEF Lease!vars, Modes
    <3>2. CASE /\ Out(lease, "exclusive") = {} /\ Out(lease', "exclusive") = {}
               /\ Out(lease', "shared") = Out(lease, "shared") \cup {a}
      <4>1. {a} \in (SUBSET Clients) \ {{}}
        OBVIOUS
      <4>2. Lease!Admit
        BY <1>1, <1>2, <3>2, <4>1 DEF Lease!Admit
      <4> QED BY <4>2 DEF Lease!Next
    <3>3. CASE /\ \A m \in Modes : Out(lease, m) = {}
               /\ Out(lease', "exclusive") = {a} /\ Out(lease', "shared") = {}
      <4>1. Lease!Seize
        BY <1>1, <1>2, <3>3 DEF Lease!Seize, Modes
      <4> QED BY <4>1 DEF Lease!Next
    <3> QED BY <1>4, <2>2, <3>1, <3>2, <3>3, HoldersAfterStep
  <2>3. CASE ReleaseOnce(a)
    <3>1. PICK left \in Nat, busy \in BOOLEAN, rest \in [Clients -> LeaseObject] :
            /\ Consistent(left, busy, rest) /\ Drain(left, busy, rest)
            /\ \A m \in Modes : Out(rest, m) = Out(lease, m) \ {a}
            /\ \E m \in Modes : a \in Out(lease, m)
      BY <1>4, <2>3, ReleaseIsDrain
    <3>2. /\ a \in Holders("shared") \cup Holders("exclusive")
          /\ Out(rest, "shared") = Holders("shared") \ {a}
          /\ Out(rest, "exclusive") = Holders("exclusive") \ {a}
      BY <1>1, <3>1 DEF Modes
    <3>3. CASE \A m \in Modes : Out(lease', m) = Out(rest, m)
      BY <1>2, <3>2, <3>3 DEF Lease!Leave, Lease!Next, Modes
    <3>4. CASE /\ \A m \in Modes : Out(rest, m) = {}
               /\ waiters[1].client \in Clients /\ Out(lease', "shared") = {}
               /\ Out(lease', "exclusive") = {waiters[1].client}
      BY <1>2, <3>2, <3>4 DEF Lease!Leave, Lease!Next, Modes
    <3>5. ASSUME NEW n \in 1..Len(waiters), \A m \in Modes : Out(rest, m) = {},
                 Out(lease', "exclusive") = {},
                 Out(lease', "shared") = {waiters[i].client : i \in 1..n}
          PROVE  Lease!Next
      <4>1. 1 \in 1..n
        BY <1>4 DEF IInv, TypeOK
      <4>2. Out(lease', "shared") \in (SUBSET Clients) \ {{}}
        <5>1. Out(lease', "shared") \subseteq Clients
          BY DEF Out
        <5>2. waiters[1].client \in Out(lease', "shared")
          BY <3>5, <4>1
        <5> QED BY <5>1, <5>2
      <4> QED BY <1>2, <3>2, <3>5, <4>2 DEF Lease!Leave, Lease!Next, Modes
    <3> QED BY <1>4, <3>1, <3>3, <3>4, <3>5, DrainOutcome DEF IInv
  <2> QED BY <2>1, <2>2, <2>3
<1>5. ASSUME UNCHANGED vars PROVE UNCHANGED Lease!vars
  BY <1>1, <1>2, <1>5 DEF vars, Lease!vars
<1>6. IInv /\ [Next]_vars => [Lease!Next]_(Lease!vars)
  BY <1>4, <1>5
<1> QED BY <1>3, <1>6, InitIInv, StepKeepsIInv, PTL DEF Spec, ImplementsRWLease, Lease!Spec

-----------------------------------------------------------------------------
(***************************************************************************)
(* The per-CID queues.                                                     *)
(*                                                                         *)
(* No variable holds a queue: `queued` names the last operation and `after`*)
(* chains each waiter to its predecessor.  The invariant says that, CID by *)
(* CID, the operations involved can be numbered so that chains go down by  *)
(* one, the tail has the highest number, and whoever may run has the       *)
(* lowest one.  Two locks held at once would need that number twice.       *)
(***************************************************************************)

\* Operations that hold the lock of a CID, or may take it at once.
Front(o, c) == c \in holding[o] \/ (Waits(o, c) /\ after[o] = None)

\* pos numbers the operations involved in c in the order of the queue.
Line(c, pos) ==
  /\ \A o, p \in Ops : Involved(o, c) /\ Involved(p, c) /\ pos[o] = pos[p] => o = p
  /\ \A o \in Ops : Waits(o, c) /\ after[o] # None =>
       Involved(after[o], c) /\ pos[o] = pos[after[o]] + 1
  /\ \A o, p \in Ops : Front(o, c) /\ Involved(p, c) => pos[o] <= pos[p]
  /\ queued[c] = None => \A o \in Ops : ~Involved(o, c)
  /\ queued[c] # None => /\ Involved(queued[c], c)
                         /\ \A o \in Ops : Involved(o, c) => pos[o] <= pos[queued[c]]

Lines == \A c \in Cids : \E pos \in [Ops -> Nat] : Line(c, pos)

\* What an operation holds and wants, by where it is.
Shape ==
  \A o \in Ops : /\ pc[o] = "idle" => holding[o] = {}
                 /\ pc[o] \in {"working", "releasing"} => holding[o] # {}
                 /\ holding[o] \cap todo[o] = {}

Inv == LocksTypeOK /\ Shape /\ Lines

-----------------------------------------------------------------------------
\* An operation queues for one CID at a time.
LEMMA OneAtATime ==
  ASSUME LocksTypeOK, NEW o \in Ops, NEW c \in Cids, NEW d \in Cids, NEW S \in SUBSET Cids,
         Ordered(o, c, S), Ordered(o, d, S)
  PROVE  c = d
BY CidsAssumption DEF Ordered, First

\* A queue nobody joins or leaves stays in line, also when its first waiter
\* takes the lock.
LEMMA Untouched ==
  ASSUME NEW c \in Cids, NEW pos \in [Ops -> Nat], LocksTypeOK, Line(c, pos),
         queued'[c] = queued[c],
         \A o \in Ops : /\ Involved(o, c)' <=> Involved(o, c)
                        /\ Front(o, c)' <=> Front(o, c)
                        /\ Waits(o, c)' => Waits(o, c) /\ after'[o] = after[o]
  PROVE  Line(c, pos)'
<1>1. \A o \in Ops : Waits(o, c) /\ after[o] # None => after[o] \in Ops  BY DEF LocksTypeOK
<1>2. queued[c] # None => queued[c] \in Ops  BY DEF LocksTypeOK
<1>3. \A o \in Ops : Waits(o, c)' /\ after'[o] # None =>
         Involved(after[o], c)' /\ pos[o] = pos[after'[o]] + 1
  BY <1>1 DEF Line
<1>4. queued'[c] # None => /\ Involved(queued[c], c)'
                           /\ \A o \in Ops : Involved(o, c)' => pos[o] <= pos[queued'[c]]
  BY <1>2 DEF Line
<1>5. /\ \A o, p \in Ops : Involved(o, c)' /\ Involved(p, c)' /\ pos[o] = pos[p] => o = p
      /\ \A o, p \in Ops : Front(o, c)' /\ Involved(p, c)' => pos[o] <= pos[p]
      /\ queued'[c] = None => \A o \in Ops : ~Involved(o, c)'
  BY DEF Line
<1> QED  BY <1>3, <1>4, <1>5 DEF Line

\* An operation that joins a queue becomes its tail.
LEMMA Joins ==
  ASSUME NEW c \in Cids, NEW pos \in [Ops -> Nat], LocksTypeOK, Line(c, pos),
         NEW o \in Ops, ~Involved(o, c), c \notin holding'[o], Waits(o, c)',
         queued'[c] = o, after'[o] = queued[c],
         \A p \in Ops \ {o} : /\ (c \in holding'[p]) <=> (c \in holding[p])
                              /\ Waits(p, c)' <=> Waits(p, c)
                              /\ after'[p] = after[p]
  PROVE  \E new \in [Ops -> Nat] : Line(c, new)'
<1>0. queued[c] # None => queued[c] \in Ops  BY DEF LocksTypeOK
<1>1. PICK next \in Nat : next = IF queued[c] = None THEN 0 ELSE pos[queued[c]] + 1
  BY <1>0
<1>n. PICK new \in [Ops -> Nat] : new = [pos EXCEPT ![o] = next]  OBVIOUS
<1>2. \A p \in Ops \ {o} : (Involved(p, c)' <=> Involved(p, c)) /\ (Front(p, c)' <=> Front(p, c))
  BY DEF Involved, Front
<1>3. \A p \in Ops \ {o} : Involved(p, c) => pos[p] < next
  BY <1>0, <1>1 DEF Line
<1>4. Involved(o, c)' /\ new[o] = next /\ \A p \in Ops \ {o} : new[p] = pos[p]
  BY <1>n DEF Involved
<1>5. Front(o, c)' => \A p \in Ops \ {o} : ~Involved(p, c)
  BY NoneAssumption DEF Front, Line
<1>6. \A p, q \in Ops : Involved(p, c)' /\ Involved(q, c)' /\ new[p] = new[q] => p = q
  <2> SUFFICES ASSUME NEW p \in Ops, NEW q \in Ops, Involved(p, c)', Involved(q, c)',
                      new[p] = new[q], p # q
               PROVE  FALSE
    OBVIOUS
  <2>1. CASE p = o
    <3>1. Involved(q, c) /\ pos[q] < next /\ pos[q] \in Nat  BY <2>1, <1>2, <1>3
    <3> QED  BY <2>1, <3>1, <1>1, <1>4
  <2>2. CASE q = o
    <3>1. Involved(p, c) /\ pos[p] < next /\ pos[p] \in Nat  BY <2>2, <1>2, <1>3
    <3> QED  BY <2>2, <3>1, <1>1, <1>4
  <2>3. CASE p # o /\ q # o  BY <2>3, <1>2, <1>4 DEF Line
  <2> QED  BY <2>1, <2>2, <2>3
<1>7. \A p \in Ops : Waits(p, c)' /\ after'[p] # None =>
        Involved(after[p], c)' /\ new[p] = new[after'[p]] + 1
  <2> SUFFICES ASSUME NEW p \in Ops, Waits(p, c)', after'[p] # None
               PROVE  Involved(after[p], c)' /\ new[p] = new[after'[p]] + 1
    OBVIOUS
  <2>1. CASE p = o
    <3>1. PICK t \in Ops : t = queued[c]  BY <2>1, <1>0
    <3>2. t # None /\ Involved(t, c) /\ t # o  BY <3>1, <2>1 DEF Line
    <3>3. Involved(t, c)'  BY <3>2, <1>2
    <3>4. next = pos[t] + 1 /\ new[t] = pos[t]  BY <3>1, <3>2, <1>1, <1>4
    <3> QED  BY <2>1, <3>1, <3>3, <3>4, <1>4
  <2>2. CASE p # o
    <3>1. Waits(p, c) /\ after'[p] = after[p] /\ after[p] # None  BY <2>2
    <3>2. PICK t \in Ops : t = after[p]  BY <3>1 DEF LocksTypeOK
    <3>3. Involved(t, c) /\ pos[p] = pos[t] + 1  BY <3>1, <3>2 DEF Line
    <3>4. t # o  BY <3>3
    <3>5. Involved(t, c)' /\ new[p] = pos[p] /\ new[t] = pos[t]
      BY <2>2, <3>3, <3>4, <1>2, <1>4
    <3> QED  BY <3>1, <3>2, <3>3, <3>5
  <2> QED  BY <2>1, <2>2
<1>8. \A p, q \in Ops : Front(p, c)' /\ Involved(q, c)' => new[p] <= new[q]
  <2> SUFFICES ASSUME NEW p \in Ops, NEW q \in Ops, Front(p, c)', Involved(q, c)'
               PROVE  new[p] <= new[q]
    OBVIOUS
  <2>0. \A x \in Ops : new[x] \in Nat  BY <1>1
  <2>1. CASE p = o /\ q = o  BY <2>0, <2>1
  <2>2. CASE p = o /\ q # o  BY <2>2, <1>2, <1>5
  <2>3. CASE p # o /\ q = o
    <3>1. Involved(p, c)  BY <2>3, <1>2 DEF Front, Involved
    <3>2. pos[p] < next /\ new[p] = pos[p] /\ new[q] = next  BY <2>3, <3>1, <1>3, <1>4
    <3> QED  BY <3>2, <2>0, <1>1
  <2>4. CASE p # o /\ q # o  BY <2>4, <1>2, <1>4 DEF Line
  <2> QED  BY <2>1, <2>2, <2>3, <2>4
<1>9. /\ queued'[c] # None /\ Involved(queued[c], c)'
      /\ \A p \in Ops : Involved(p, c)' => new[p] <= new[queued'[c]]
  <2>1. queued'[c] # None /\ Involved(queued[c], c)'  BY <1>4, NoneAssumption
  <2>2. ASSUME NEW p \in Ops, Involved(p, c)' PROVE new[p] <= new[o]
    <3>0. new[p] \in Nat /\ new[o] = next  BY <1>1, <1>4
    <3>1. CASE p = o  BY <3>0, <3>1
    <3>2. CASE p # o
      <4>1. pos[p] < next /\ new[p] = pos[p]  BY <3>2, <2>2, <1>2, <1>3, <1>4
      <4> QED  BY <4>1, <3>0, <1>1
    <3> QED  BY <3>1, <3>2
  <2> QED  BY <2>1, <2>2
<1>10. Line(c, new)'  BY <1>6, <1>7, <1>8, <1>9 DEF Line
<1> QED  BY <1>10

\* The holder leaves: its successor, one place behind, may run, and the entry
\* goes only if nobody is left.
LEMMA Leaves ==
  ASSUME NEW c \in Cids, NEW pos \in [Ops -> Nat], LocksTypeOK, Line(c, pos),
         NEW o \in Ops, c \in holding[o], ~Involved(o, c)',
         queued'[c] = IF queued[c] = o THEN None ELSE queued[c],
         \A p \in Ops \ {o} : /\ (c \in holding'[p]) <=> (c \in holding[p])
                              /\ Waits(p, c)' <=> Waits(p, c)
                              /\ after'[p] = IF Waits(p, c) /\ after[p] = o THEN None ELSE after[p]
  PROVE  Line(c, pos)'
<1>1. \A p \in Ops \ {o} : Involved(p, c)' <=> Involved(p, c)  BY DEF Involved
<1>2. Front(o, c) /\ Involved(o, c)  BY DEF Front, Involved
<1>3. \A p \in Ops \ {o} : Involved(p, c) => pos[p] > pos[o]
  <2> SUFFICES ASSUME NEW p \in Ops \ {o}, Involved(p, c) PROVE pos[p] > pos[o]
    OBVIOUS
  <2>1. pos[o] <= pos[p] /\ pos[o] # pos[p]  BY <1>2 DEF Line
  <2> QED  BY <2>1
<1>4. \A p \in Ops : Waits(p, c)' /\ after'[p] # None =>
        Involved(after[p], c)' /\ pos[p] = pos[after'[p]] + 1
  <2> SUFFICES ASSUME NEW p \in Ops, Waits(p, c)', after'[p] # None
               PROVE  Involved(after[p], c)' /\ pos[p] = pos[after'[p]] + 1
    OBVIOUS
  <2>1. p # o  BY DEF Involved
  <2>2. Waits(p, c) /\ after'[p] = after[p] /\ after[p] # o /\ after[p] # None  BY <2>1
  <2>3. Involved(after[p], c) /\ pos[p] = pos[after[p]] + 1 /\ after[p] \in Ops
    BY <2>2 DEF Line, LocksTypeOK
  <2> QED  BY <2>2, <2>3, <1>1
<1>5. \A p, q \in Ops : Front(p, c)' /\ Involved(q, c)' => pos[p] <= pos[q]
  <2> SUFFICES ASSUME NEW p \in Ops, NEW q \in Ops, Front(p, c)', Involved(q, c)'
               PROVE  pos[p] <= pos[q]
    OBVIOUS
  <2>1. p # o /\ q # o  BY DEF Front, Involved
  <2>2. Involved(q, c) /\ Involved(p, c)  BY <2>1, <1>1 DEF Front, Involved
  <2>3. CASE c \in holding'[p]  BY <2>1, <2>2, <2>3 DEF Front, Line
  <2>4. CASE Waits(p, c)' /\ after'[p] = None
    <3>1. Waits(p, c)  BY <2>1, <2>4
    <3>2. CASE after[p] = o
      <4>1. pos[p] = pos[o] + 1  BY <3>1, <3>2, NoneAssumption DEF Line
      <4>2. pos[q] > pos[o]  BY <2>1, <2>2, <1>3
      <4> QED  BY <4>1, <4>2
    <3>3. CASE after[p] # o
      <4>1. after[p] = None  BY <2>1, <2>4, <3>3
      <4> QED  BY <4>1, <3>1, <2>2 DEF Front, Line
    <3> QED  BY <3>2, <3>3
  <2> QED  BY <2>3, <2>4 DEF Front
<1>6. queued'[c] = None => \A p \in Ops : ~Involved(p, c)'
  <2> SUFFICES ASSUME queued'[c] = None, NEW p \in Ops, Involved(p, c)' PROVE FALSE
    OBVIOUS
  <2>1. p # o /\ Involved(p, c)  BY <1>1
  <2>2. CASE queued[c] = o
    <3>1. pos[p] <= pos[o]  BY <2>1, <2>2, NoneAssumption DEF Line
    <3> QED  BY <3>1, <2>1, <1>3
  <2>3. CASE queued[c] # o  BY <2>1, <2>3 DEF Line
  <2> QED  BY <2>2, <2>3
<1>7. queued'[c] # None => /\ Involved(queued[c], c)'
                           /\ \A p \in Ops : Involved(p, c)' => pos[p] <= pos[queued'[c]]
  <2> SUFFICES ASSUME queued'[c] # None
               PROVE  /\ Involved(queued[c], c)'
                      /\ \A p \in Ops : Involved(p, c)' => pos[p] <= pos[queued'[c]]
    OBVIOUS
  <2>1. queued'[c] = queued[c] /\ queued[c] # o /\ queued[c] \in Ops  BY DEF LocksTypeOK
  <2> QED  BY <2>1, <1>1 DEF Line
<1>8. \A p, q \in Ops : Involved(p, c)' /\ Involved(q, c)' /\ pos[p] = pos[q] => p = q
  BY <1>1 DEF Line
<1> QED  BY <1>4, <1>5, <1>6, <1>7, <1>8 DEF Line

-----------------------------------------------------------------------------
LEMMA InitInv == LocksInit => Inv
<1> SUFFICES ASSUME LocksInit PROVE Inv  OBVIOUS
<1>1. LocksTypeOK  BY DEF LocksInit, LocksTypeOK, Pcs
<1>2. Shape  BY DEF LocksInit, Shape
<1>3. ASSUME NEW c \in Cids PROVE \E pos \in [Ops -> Nat] : Line(c, pos)
  <2>1. PICK pos \in [Ops -> Nat] : pos = [o \in Ops |-> 0]  OBVIOUS
  <2>2. \A o \in Ops : ~Involved(o, c)  BY DEF LocksInit, Involved, Waits
  <2>3. \A o \in Ops : ~Front(o, c) /\ ~Waits(o, c)  BY <2>2 DEF Front, Involved
  <2>4. Line(c, pos)  BY <2>2, <2>3 DEF LocksInit, Line
  <2> QED  BY <2>4
<1> QED  BY <1>1, <1>2, <1>3 DEF Inv, Lines

\* Requests and releases keep the variables well formed.
LEMMA StepTypeOK == LocksTypeOK /\ [LocksNext]_lockVars => LocksTypeOK'
<1> SUFFICES ASSUME LocksTypeOK, [LocksNext]_lockVars PROVE LocksTypeOK'  OBVIOUS
<1> USE DEF LocksTypeOK, Pcs
<1>1. ASSUME NEW o \in Ops, NEW S \in SUBSET Cids, Request(o, S) PROVE LocksTypeOK'
  BY <1>1 DEF Request, QueueFor
<1>2. ASSUME NEW o \in Ops, Acquire(o) PROVE LocksTypeOK'
  <2> PICK c \in todo[o] : Acquire(o)!(c)  BY <1>2 DEF Acquire
  <2>1. c \in Cids /\ todo[o] \ {c} \in SUBSET Cids  OBVIOUS
  <2> QED  BY <2>1 DEF QueueFor
<1>3. ASSUME NEW o \in Ops, NEW c \in Cids, Reenter(o, c) PROVE LocksTypeOK'
  BY <1>3 DEF Reenter
<1>4. ASSUME NEW o \in Ops, Release(o) PROVE LocksTypeOK'
  BY <1>4 DEF Release
<1>5. CASE UNCHANGED lockVars  BY <1>5 DEF lockVars
<1> QED  BY <1>1, <1>2, <1>3, <1>4, <1>5 DEF LocksNext

\* Whoever holds a lock works or waits for another one.
LEMMA StepShape == LocksTypeOK /\ Shape /\ [LocksNext]_lockVars => Shape'
<1> SUFFICES ASSUME LocksTypeOK, Shape, [LocksNext]_lockVars PROVE Shape'  OBVIOUS
<1> USE DEF LocksTypeOK, Pcs, Shape
<1>1. ASSUME NEW o \in Ops, NEW S \in SUBSET Cids, Request(o, S) PROVE Shape'
  BY <1>1 DEF Request
<1>2. ASSUME NEW o \in Ops, Acquire(o) PROVE Shape'
  <2> PICK c \in todo[o] : Acquire(o)!(c)  BY <1>2 DEF Acquire
  <2>1. pc[o] = "waiting"  BY DEF Waits
  <2> QED  BY <2>1
<1>3. ASSUME NEW o \in Ops, NEW c \in Cids, Reenter(o, c) PROVE Shape'
  BY <1>3 DEF Reenter
<1>4. ASSUME NEW o \in Ops, Release(o) PROVE Shape'
  BY <1>4 DEF Release
<1>5. CASE UNCHANGED lockVars  BY <1>5 DEF lockVars
<1> QED  BY <1>1, <1>2, <1>3, <1>4, <1>5 DEF LocksNext

\* Each step of the locks keeps every queue in line.
LEMMA StepLines == Inv /\ [LocksNext]_lockVars => Lines'
<1> SUFFICES ASSUME Inv, [LocksNext]_lockVars, NEW d \in Cids
             PROVE  \E new \in [Ops -> Nat] : Line(d, new)'
  BY DEF Lines
<1> USE DEF Inv
<1>0. LocksTypeOK /\ LocksTypeOK' /\ Shape  BY StepTypeOK
<1> PICK pos \in [Ops -> Nat] : Line(d, pos)  BY DEF Lines
<1>1. ASSUME NEW o \in Ops, NEW S \in SUBSET Cids, Request(o, S)
      PROVE  \E new \in [Ops -> Nat] : Line(d, new)'
  <2> PICK c \in S : /\ Ordered(o, c, S)
                     /\ after' = [after EXCEPT ![o] = queued[c]]
                     /\ queued' = [queued EXCEPT ![c] = o]
    BY <1>1 DEF Request, QueueFor
  <2>1. /\ pc[o] = "idle" /\ holding[o] = {} /\ holding' = holding
        /\ pc'[o] = "waiting" /\ todo'[o] = S
        /\ \A p \in Ops \ {o} : pc'[p] = pc[p] /\ todo'[p] = todo[p] /\ after'[p] = after[p]
    BY <1>0, <1>1 DEF Request, LocksTypeOK, Shape
  <2>2. \A p \in Ops \ {o} : Waits(p, d)' <=> Waits(p, d)  BY <2>1 DEF Waits, Ordered
  <2>3. ~Waits(o, d) /\ (Waits(o, d)' <=> Ordered(o, d, S))  BY <2>1 DEF Waits, Ordered
  <2>4. CASE d = c
    <3>1. ~Involved(o, d) /\ d \notin holding'[o] /\ Waits(o, d)'
      BY <2>1, <2>3, <2>4 DEF Involved
    <3>2. queued'[d] = o /\ after'[o] = queued[d]  BY <1>0, <2>4 DEF LocksTypeOK
    <3> QED  BY <1>0, <2>1, <2>2, <3>1, <3>2, Joins
  <2>5. CASE d # c
    <3>1. ~Ordered(o, d, S)  BY <1>0, <2>5, OneAtATime
    <3>2. queued'[d] = queued[d]  BY <1>0, <2>5 DEF LocksTypeOK
    <3>3. \A p \in Ops : (Waits(p, d)' <=> Waits(p, d)) /\ (Waits(p, d) => after'[p] = after[p])
      BY <2>1, <2>2, <2>3, <3>1
    <3>4. \A p \in Ops : (Involved(p, d)' <=> Involved(p, d)) /\ (Front(p, d)' <=> Front(p, d))
      BY <2>1, <3>3 DEF Involved, Front
    <3>5. Line(d, pos)'  BY <1>0, <3>2, <3>3, <3>4, Untouched
    <3> QED  BY <3>5
  <2> QED  BY <2>4, <2>5
<1>2. ASSUME NEW o \in Ops, Acquire(o)
      PROVE  \E new \in [Ops -> Nat] : Line(d, new)'
  <2> PICK c \in todo[o] : Acquire(o)!(c)  BY <1>2 DEF Acquire
  <2> DEFINE rest == todo[o] \ {c}
  <2>0. c \in Cids /\ todo[o] \in SUBSET Cids  BY <1>0 DEF LocksTypeOK
  <2>1. /\ pc[o] = "waiting" /\ Ordered(o, c, todo[o]) /\ after[o] = None
        /\ holding'[o] = holding[o] \cup {c} /\ todo'[o] = rest
        /\ \A p \in Ops \ {o} : holding'[p] = holding[p] /\ todo'[p] = todo[p]
    BY <1>0, <2>0 DEF Waits, LocksTypeOK
  <2>2. Waits(o, d) <=> d = c
    BY <1>0, <2>0, <2>1, OneAtATime DEF Waits
  <2>3. CASE rest = {}
    <3>1. queued' = queued /\ after' = after /\ pc'[o] = "working"
      BY <1>0, <2>3 DEF LocksTypeOK
    <3>2. \A p \in Ops \ {o} : (Waits(p, d)' <=> Waits(p, d))
      BY <1>0, <2>1, <2>3 DEF Waits, Ordered, LocksTypeOK
    <3>3. ~Waits(o, d)'  BY <3>1 DEF Waits
    <3>4. \A p \in Ops : (Involved(p, d)' <=> Involved(p, d)) /\ (Front(p, d)' <=> Front(p, d))
      BY <2>1, <2>2, <3>1, <3>2, <3>3 DEF Involved, Front
    <3>5. Line(d, pos)'  BY <1>0, <3>1, <3>2, <3>3, <3>4, Untouched
    <3> QED  BY <3>5
  <2>4. CASE rest # {}
    <3> PICK e \in rest : /\ Ordered(o, e, rest)
                          /\ after' = [after EXCEPT ![o] = queued[e]]
                          /\ queued' = [queued EXCEPT ![e] = o]
      BY <2>4 DEF QueueFor
    <3>0. e \in Cids /\ e # c /\ e \notin holding[o] /\ rest \in SUBSET Cids
      BY <1>0, <2>0 DEF Shape
    <3>1. /\ pc' = pc
          /\ \A p \in Ops \ {o} : after'[p] = after[p]
      BY <1>0, <2>4 DEF LocksTypeOK
    <3>2. \A p \in Ops \ {o} : (Waits(p, d)' <=> Waits(p, d))
      BY <2>1, <3>1 DEF Waits, Ordered
    <3>3. Waits(o, d)' <=> d = e
      BY <1>0, <2>1, <3>0, <3>1, OneAtATime DEF Waits, Ordered
    <3>4. CASE d = e
      <4>1. ~Involved(o, d) /\ d \notin holding'[o] /\ Waits(o, d)'
        BY <2>1, <2>2, <3>0, <3>3, <3>4 DEF Involved
      <4>2. queued'[d] = o /\ after'[o] = queued[d]  BY <1>0, <3>4 DEF LocksTypeOK
      <4> QED  BY <1>0, <2>1, <3>1, <3>2, <4>1, <4>2, Joins
    <3>5. CASE d # e
      <4>1. queued'[d] = queued[d]  BY <1>0, <3>5 DEF LocksTypeOK
      <4>2. ~Waits(o, d)'  BY <3>3, <3>5
      <4>3. \A p \in Ops : /\ Involved(p, d)' <=> Involved(p, d)
                           /\ Front(p, d)' <=> Front(p, d)
                           /\ Waits(p, d)' => Waits(p, d) /\ after'[p] = after[p]
        BY <2>1, <2>2, <3>1, <3>2, <4>2 DEF Involved, Front
      <4>4. Line(d, pos)'  BY <1>0, <4>1, <4>3, Untouched
      <4> QED  BY <4>4
    <3> QED  BY <3>4, <3>5
  <2> QED  BY <2>3, <2>4
<1>3. ASSUME NEW o \in Ops, NEW c \in Cids, Reenter(o, c)
      PROVE  \E new \in [Ops -> Nat] : Line(d, new)'
  <2>1. queued' = queued /\ after' = after /\ todo' = todo /\ holding' = holding
    BY <1>3 DEF Reenter
  <2>2. \A p \in Ops : Waits(p, d)' <=> Waits(p, d)
    BY <1>0, <1>3, <2>1 DEF Reenter, Waits, Ordered, LocksTypeOK
  <2>3. \A p \in Ops : (Involved(p, d)' <=> Involved(p, d)) /\ (Front(p, d)' <=> Front(p, d))
    BY <2>1, <2>2 DEF Involved, Front
  <2>4. Line(d, pos)'  BY <1>0, <2>1, <2>2, <2>3, Untouched
  <2> QED  BY <2>4
<1>4. ASSUME NEW o \in Ops, Release(o)
      PROVE  \E new \in [Ops -> Nat] : Line(d, new)'
  <2> PICK c \in holding[o] : Release(o)!(c)  BY <1>4 DEF Release
  <2>0. c \in Cids  BY <1>0 DEF LocksTypeOK
  <2>1. /\ pc[o] \in {"working", "releasing"} /\ pc'[o] # "waiting" /\ todo' = todo
        /\ holding'[o] = holding[o] \ {c}
        /\ \A p \in Ops \ {o} : holding'[p] = holding[p] /\ pc'[p] = pc[p]
        /\ \A p \in Ops : after'[p] = IF Waits(p, c) /\ after[p] = o THEN None ELSE after[p]
        /\ queued' = [queued EXCEPT ![c] = IF queued[c] = o THEN None ELSE queued[c]]
    BY <1>0 DEF LocksTypeOK, Pcs
  <2>2. ~Waits(o, d) /\ ~Waits(o, d)'  BY <2>1 DEF Waits
  <2>3. \A p \in Ops \ {o} : Waits(p, d)' <=> Waits(p, d)  BY <2>1 DEF Waits, Ordered
  <2>4. CASE d = c
    <3>1. d \in holding[o] /\ ~Involved(o, d)'  BY <2>1, <2>2, <2>4 DEF Involved
    <3>2. queued'[d] = IF queued[d] = o THEN None ELSE queued[d]
      BY <1>0, <2>1, <2>4 DEF LocksTypeOK
    <3>3. \A p \in Ops \ {o} :
             /\ (d \in holding'[p]) <=> (d \in holding[p])
             /\ Waits(p, d)' <=> Waits(p, d)
             /\ after'[p] = IF Waits(p, d) /\ after[p] = o THEN None ELSE after[p]
      BY <2>1, <2>3, <2>4
    <3>4. Line(d, pos)'  BY <1>0, <3>1, <3>2, <3>3, Leaves
    <3> QED  BY <3>4
  <2>5. CASE d # c
    <3>1. queued'[d] = queued[d]  BY <1>0, <2>1, <2>5 DEF LocksTypeOK
    <3>2. \A p \in Ops : todo[p] \in SUBSET Cids  BY <1>0 DEF LocksTypeOK
    <3>3. ASSUME NEW p \in Ops, Waits(p, d) PROVE after'[p] = after[p]
      <4>1. ~Waits(p, c)  BY <1>0, <2>0, <2>5, <3>2, <3>3, OneAtATime DEF Waits
      <4> QED  BY <4>1, <2>1
    <3>4. \A p \in Ops : /\ Involved(p, d)' <=> Involved(p, d)
                         /\ Front(p, d)' <=> Front(p, d)
                         /\ Waits(p, d)' => Waits(p, d) /\ after'[p] = after[p]
      BY <2>1, <2>2, <2>3, <2>5, <3>3 DEF Involved, Front
    <3>5. Line(d, pos)'  BY <1>0, <3>1, <3>4, Untouched
    <3> QED  BY <3>5
  <2> QED  BY <2>4, <2>5
<1>5. CASE UNCHANGED lockVars
  <2>1. Line(d, pos)'  BY <1>5 DEF lockVars, Line, Involved, Front, Waits, Ordered
  <2> QED  BY <2>1
<1> QED  BY <1>1, <1>2, <1>3, <1>4, <1>5 DEF LocksNext

LEMMA Invariance == LocksSpec => []Inv
<1>1. Inv /\ [LocksNext]_lockVars => Inv'  BY StepTypeOK, StepShape, StepLines DEF Inv
<1> QED  BY <1>1, InitInv, PTL DEF LocksSpec

-----------------------------------------------------------------------------
\* The variables of the lock queues keep their types.
THEOREM TypeCorrect == LocksSpec => []LocksTypeOK
<1> QED  BY Invariance, PTL DEF Inv

\* Two holders of one lock would both be first in line.
LEMMA InvExclusive == Inv => Exclusive
<1> SUFFICES ASSUME Inv, NEW o \in Ops, NEW p \in Ops, o # p,
                    NEW c \in holding[o], c \in holding[p]
             PROVE  FALSE
  BY DEF Exclusive
<1>1. c \in Cids  BY DEF Inv, LocksTypeOK
<1>2. PICK pos \in [Ops -> Nat] : Line(c, pos)  BY <1>1 DEF Inv, Lines
<1>3. Front(o, c) /\ Front(p, c) /\ Involved(o, c) /\ Involved(p, c)  BY DEF Front, Involved
<1>4. pos[o] <= pos[p] /\ pos[p] <= pos[o]  BY <1>2, <1>3 DEF Line
<1>5. pos[o] = pos[p]  BY <1>4
<1> QED  BY <1>2, <1>3, <1>5 DEF Line

\* No two operations hold the lock of one CID (FileRegistry.exclusive), for
\* any number of requests and files.
THEOREM CidMutualExclusion == LocksSpec => []Exclusive
<1> QED  BY InvExclusive, Invariance, PTL

\* The map of FileRegistry.exclusive has an entry exactly for the CIDs that
\* are held or waited for: it does not grow with the files ever touched.
THEOREM EntriesExact == LocksSpec => []EntriesMatchUse
<1>1. Inv => EntriesMatchUse
  <2> SUFFICES ASSUME Inv, NEW c \in Cids
               PROVE  (queued[c] # None) <=> (\E o \in Ops : Involved(o, c))
    BY DEF EntriesMatchUse
  <2>1. PICK pos \in [Ops -> Nat] : Line(c, pos)  BY DEF Inv, Lines
  <2>2. queued[c] # None => queued[c] \in Ops  BY DEF Inv, LocksTypeOK
  <2> QED  BY <2>1, <2>2 DEF Line
<1> QED  BY <1>1, Invariance, PTL

-----------------------------------------------------------------------------
\* The step of CidMutex that a step of the queues implements: the last lock
\* takes all of them, the end of the work drops them, the rest is invisible.
LEMMA StepRefines ==
  ASSUME Inv, Inv', [LocksNext]_lockVars
  PROVE  [Mutex!Next]_([o \in Ops |-> IF pc[o] = "working" THEN holding[o] ELSE {}])
<1> DEFINE owned == [o \in Ops |-> IF pc[o] = "working" THEN holding[o] ELSE {}]
<1>0. Exclusive'  BY InvExclusive, PTL
<1> USE DEF Inv, LocksTypeOK, Pcs
<1>1. ASSUME NEW o \in Ops, NEW S \in SUBSET Cids, Request(o, S) PROVE owned' = owned
  BY <1>1 DEF Request
<1>2. ASSUME NEW o \in Ops, Acquire(o) PROVE owned' = owned \/ Mutex!Take(o)
  <2> PICK c \in todo[o] : Acquire(o)!(c)  BY <1>2 DEF Acquire
  <2>1. pc[o] = "waiting"  BY DEF Waits
  <2>2. CASE todo[o] \ {c} = {}
    <3>1. pc' = [pc EXCEPT ![o] = "working"]  BY <2>2
    <3>2. holding' = [holding EXCEPT ![o] = holding[o] \cup {c}]  OBVIOUS
    <3>3. owned[o] = {} /\ owned' = [owned EXCEPT ![o] = holding'[o]]
      BY <2>1, <3>1, <3>2
    <3>4. holding'[o] \in (SUBSET Cids) \ {{}}  BY <3>2
    <3>5. \A p \in Ops : owned[p] \cap holding'[o] = {}
      <4> SUFFICES ASSUME NEW p \in Ops, p # o, pc[p] = "working" PROVE holding[p] \cap holding'[o] = {}
        BY <2>1
      <4>1. holding'[p] = holding[p]  BY <3>2
      <4> QED  BY <4>1, <1>0 DEF Exclusive
    <3> QED  BY <3>3, <3>4, <3>5 DEF Mutex!Take
  <2>3. CASE todo[o] \ {c} # {}
    <3>1. pc' = pc /\ \A p \in Ops \ {o} : holding'[p] = holding[p]  BY <2>3
    <3> QED  BY <2>1, <3>1
  <2> QED  BY <2>2, <2>3
<1>3. ASSUME NEW o \in Ops, NEW c \in Cids, Reenter(o, c) PROVE Mutex!Drop(o)
  <2>1. /\ pc[o] = "working" /\ holding[o] # {} /\ holding' = holding
        /\ pc' = [pc EXCEPT ![o] = "releasing"]
    BY <1>3 DEF Reenter
  <2>2. owned[o] # {} /\ owned' = [owned EXCEPT ![o] = {}]  BY <2>1
  <2> QED  BY <2>2 DEF Mutex!Drop
<1>4. ASSUME NEW o \in Ops, Release(o) PROVE owned' = owned \/ Mutex!Drop(o)
  <2> PICK c \in holding[o] : Release(o)!(c)  BY <1>4 DEF Release
  <2>1. /\ pc'[o] # "working"
        /\ \A p \in Ops \ {o} : pc'[p] = pc[p] /\ holding'[p] = holding[p]
    OBVIOUS
  <2>2. CASE pc[o] = "working"
    <3>1. owned[o] # {} /\ owned' = [owned EXCEPT ![o] = {}]  BY <2>1, <2>2
    <3> QED  BY <3>1 DEF Mutex!Drop
  <2>3. CASE pc[o] # "working"  BY <2>1, <2>3
  <2> QED  BY <2>2, <2>3
<1>5. CASE UNCHANGED lockVars  BY <1>5 DEF lockVars
<1>6. ASSUME LocksNext PROVE Mutex!Next \/ owned' = owned
  <2> PICK o \in Ops : \/ \E S \in SUBSET Cids : Request(o, S)
                       \/ Acquire(o)
                       \/ \E c \in Cids : Reenter(o, c)
                       \/ Release(o)
    BY <1>6 DEF LocksNext
  <2> HIDE DEF owned
  <2>1. CASE \E S \in SUBSET Cids : Request(o, S)  BY <2>1, <1>1, Zenon
  <2>2. CASE Acquire(o)  BY <2>2, <1>2, Zenon DEF Mutex!Next
  <2>3. CASE \E c \in Cids : Reenter(o, c)  BY <2>3, <1>3, Zenon DEF Mutex!Next
  <2>4. CASE Release(o)  BY <2>4, <1>4, Zenon DEF Mutex!Next
  <2> QED  BY <2>1, <2>2, <2>3, <2>4
<1> QED  BY <1>5, <1>6

\* Seen by the work inside (createIfAbsent, transition, remove and the
\* callers of withExclusiveCids), the queues are one atomic acquisition of
\* all CIDs, for any number of requests and files.
THEOREM Refinement == LocksSpec => ImplementsMutex
<1>1. LocksInit => Mutex!Init  BY DEF LocksInit, Mutex!Init
<1>2. Inv /\ Inv' /\ [LocksNext]_lockVars
        => [Mutex!Next]_([o \in Ops |-> IF pc[o] = "working" THEN holding[o] ELSE {}])
  BY StepRefines
<1> QED  BY <1>1, <1>2, Invariance, PTL DEF LocksSpec, ImplementsMutex, Mutex!Spec

=============================================================================
