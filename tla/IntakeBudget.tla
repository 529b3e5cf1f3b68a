---------------------------- MODULE IntakeBudget ----------------------------
(***************************************************************************)
(* storage/intakeBudget.ts: what peers may have this node pull in over a   *)
(* rolling window, counted in buckets of Bucket time units.                *)
(*                                                                         *)
(* A reservation charges the most a copy can cost to the bucket of the     *)
(* moment, of its peer and of the node; when the transfer ends it is       *)
(* settled to what really crossed the network, possibly after the bucket   *)
(* has left the window.  The clock does not go back here.                  *)
(***************************************************************************)
EXTENDS Naturals, Sequences, FiniteSets, FiniteSetsExt

CONSTANTS Peers, Total,                    \* Total names the node-wide spend
          Window, Bucket,                  \* INTAKE_WINDOW_MS, BUCKET_MS
          PerPeerBytes, PerPeerRequests, TotalBytes, TotalRequests,
          MaxCost,                         \* bound: the largest reservation
          MaxTime, MaxReservations         \* bounds of the checked instance

WindowAssumption ==
  /\ {Window, PerPeerBytes, PerPeerRequests, TotalBytes, TotalRequests} \subseteq Nat
  /\ {MaxCost, MaxTime, MaxReservations} \subseteq Nat
  /\ Bucket \in Nat \ {0} /\ Window % Bucket = 0
  /\ Total \notin Peers

Spenders == Peers \cup {Total}

startedAt(t) == (t \div Bucket) * Bucket
Starts == {startedAt(t) : t \in 0..MaxTime}

VARIABLES now,
          bytes, requests,  \* per spender and bucket start
          perPeer,          \* the peers with an entry in the map
          log               \* reservations made, with what they cost so far

budgetVars == <<now, bytes, requests, perPeer, log>>

BudgetInit == /\ now = 0
              /\ bytes = [x \in Spenders |-> [s \in Starts |-> 0]]
              /\ requests = [x \in Spenders |-> [s \in Starts |-> 0]]
              /\ perPeer = {}
              /\ log = << >>

-----------------------------------------------------------------------------
\* Mutant: a bucket expires when its start is a window old.
InWindowByStart(s) == s + Window > now

\* live: a bucket counts until its end is a window old.
InWindow(s) == s + Bucket + Window > now

totalBytes(x)    == MapThenSumSet(LAMBDA s : bytes[x][s], {s \in Starts : InWindow(s)})
totalRequests(x) == MapThenSumSet(LAMBDA s : requests[x][s], {s \in Starts : InWindow(s)})

spent(p) == \E s \in Starts : InWindow(s) /\ requests[p][s] > 0

Covers(p, max) == /\ totalBytes(p) + max <= PerPeerBytes
                  /\ totalRequests(p) < PerPeerRequests
                  /\ totalBytes(Total) + max <= TotalBytes
                  /\ totalRequests(Total) < TotalRequests

\* The entries kept after p has reserved.
pruned(p) == LET known == perPeer \cup {p}
             IN  IF Cardinality(known) > TotalRequests
                   THEN {q \in known : q = p \/ spent(q)}
                   ELSE known

\* reserveIntake, when the budgets cover it; otherwise nothing changes.
reserveIntake(p, max) ==
  /\ Len(log) < MaxReservations
  /\ Covers(p, max)
  /\ LET s == startedAt(now)
     IN  /\ bytes' = [bytes EXCEPT ![p][s] = @ + max, ![Total][s] = @ + max]
         /\ requests' = [requests EXCEPT ![p][s] = @ + 1, ![Total][s] = @ + 1]
  /\ perPeer' = pruned(p)
  /\ log' = Append(log, [peer |-> p, time |-> now, max |-> max, cost |-> max,
                         settled |-> FALSE])
  /\ UNCHANGED now

\* The transfer of reservation i has ended after `used` bytes.  cacheFileLocally
\* reserves the limit and its overshoot, so used is at most max.
settleIntake(i, used) ==
  LET r == log[i]
      s == startedAt(r.time)
  IN  /\ ~r.settled
      /\ bytes' = [bytes EXCEPT ![r.peer][s] = @ - (r.max - used),
                                ![Total][s]  = @ - (r.max - used)]
      /\ log' = [log EXCEPT ![i].cost = used, ![i].settled = TRUE]
      /\ UNCHANGED <<now, requests, perPeer>>

Advance == /\ now < MaxTime
           /\ now' = now + 1
           /\ UNCHANGED <<bytes, requests, perPeer, log>>

BudgetNext == \/ \E p \in Peers, max \in 1..MaxCost : reserveIntake(p, max)
              \/ \E i \in DOMAIN log : \E used \in 0..log[i].max : settleIntake(i, used)
              \/ Advance

BudgetSpec == BudgetInit /\ [][BudgetNext]_budgetVars

-----------------------------------------------------------------------------
\* What the reservations made in the last `span` time units cost, by all peers
\* of a set; counting a running transfer at its reservation.
Recent(ps, span) == {i \in DOMAIN log : log[i].peer \in ps /\ log[i].time + span > now}
cost == [i \in DOMAIN log |-> log[i].cost]
Cost(S) == MapThenSumSet(LAMBDA i : cost[i], S)

\* In every trailing window, at every moment, no peer and no set of peers has
\* the node pull in more than its budget: neither across a bucket boundary nor
\* by refunds of transfers that end late.
SpendBounded ==
  /\ \A p \in Peers : /\ Cost(Recent({p}, Window)) <= PerPeerBytes
                      /\ Cardinality(Recent({p}, Window)) <= PerPeerRequests
  /\ Cost(Recent(Peers, Window)) <= TotalBytes
  /\ Cardinality(Recent(Peers, Window)) <= TotalRequests

\* The other side: what counts against a budget was really spent within a
\* window and a bucket, so unused reservations and old spending hold nobody up.
OnlyRecentSpendCounts ==
  /\ \A p \in Peers : totalBytes(p) <= Cost(Recent({p}, Window + Bucket))
  /\ totalBytes(Total) <= Cost(Recent(Peers, Window + Bucket))

\* However many identities come by, the map has at most TotalRequests entries.
MapBounded == Cardinality(perPeer) <= TotalRequests
=============================================================================
