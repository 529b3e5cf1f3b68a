----------------------------- MODULE MCPlacement -----------------------------
(***************************************************************************)
(* Where the copies of a file are: handovers between four nodes, whom a    *)
(* reader asks, the sweep that finds handover candidates on one node, and  *)
(* the exchange of one message of the replication protocol.  They share no *)
(* state; each behaviour is of one of them, the others stay in one of      *)
(* their initial states.                                                   *)
(***************************************************************************)
EXTENDS Handover, Retrieval, SweepCursor, FramedExchange, TLC

CONSTANTS n1, n2, n3, n4

VARIABLE part  \* the component that moves

ASSUME TiersShrink /\ OneNodeList /\ SweepAssumption /\ FrameAssumption

\* One node list everywhere, as the documentation asks for.
SameView == [n \in Nodes |-> Nodes]

Scores == [n \in Nodes |-> CASE n = n1 -> 1 [] n = n2 -> 2 [] n = n3 -> 3 [] OTHER -> 4]

\* The age tiers of the default placement, with fewer copies.
ThreeThenTwo == [a \in 0..MaxTime |-> IF a = 0 THEN 3 ELSE 2]

all == <<part, vars, retrievalVars, sweepVars, exchangeVars>>

PlacementInit ==
  /\ part \in {"handover", "retrieval", "sweep", "exchange"}
  /\ Init /\ (part # "handover" => record[n1] = "held")
  /\ RetrievalInit /\ (part # "retrieval" => network = {1} /\ wanted = 1)
  /\ SweepInit /\ (part # "sweep" => candidates = {})
  /\ ExchangeInit

PlacementNext ==
  /\ UNCHANGED part
  /\ \/ part = "handover" /\ Next /\ UNCHANGED <<retrievalVars, sweepVars, exchangeVars>>
     \/ part = "retrieval" /\ RetrievalNext /\ UNCHANGED <<vars, sweepVars, exchangeVars>>
     \/ part = "sweep" /\ SweepNext /\ UNCHANGED <<vars, retrievalVars, exchangeVars>>
     \/ part = "exchange" /\ ExchangeNext /\ UNCHANGED <<vars, retrievalVars, sweepVars>>

PlacementSpec == PlacementInit /\ [][PlacementNext]_all

-----------------------------------------------------------------------------
\* service.ts 947-1065 and 1121-1142, under the fairness of the repair passes: the
\* file gets to the nodes the policy names and stays there, if it is not lost
\* altogether; and when the last holder has lost its disk, a node that released
\* the file and still has the blocks takes it back, unless a collection was faster.
PolicyIsReached ==
  /\ part = "handover" /\ Fairness => PolicyReached
  /\ part = "handover" /\ Fairness => OrphanRescued

\* sweep.ts 42-115: a cycle that completes has looked at every file that was there
\* when it began and stayed; a pass takes something whenever there is something
\* to take; and, with passes going on for ever, a file that stays is looked at
\* again and again, whatever comes and goes and however often an operator previews.
SweepComplete ==
  /\ CycleCovers
  /\ NoEmptyPass
  /\ part = "sweep" /\ SweepFairness => EveryFileVisited

\* replicationProtocol.ts: a message is acted on, and a reply believed, only when
\* all of it is there, wherever the chunks were cut; a caller that falls silent
\* does not keep the stream open on the server; a call ends although no timer
\* fires and no side sees the other close.
ExchangeSound ==
  /\ []WholeMessages
  /\ part = "exchange" /\ ExchangeFairness /\ Timer => ReaderReleased
  /\ part = "exchange" /\ ExchangeFairness => NoMutualWait
=============================================================================
