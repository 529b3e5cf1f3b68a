-------------------------- MODULE UploadDecision --------------------------
(***************************************************************************)
(* What a strict upload (replication.requireQuorumOnUpload) promises its   *)
(* client, whatever the network does: the source decides once to keep or   *)
(* to restore its own copy, peers make copies permanent only for an upload *)
(* that was kept, 200 is answered only while a quorum of copies is         *)
(* permanent, and 503 only if the source restored what it had.             *)
(***************************************************************************)
CONSTANTS Txs, Peers, Holders,
          satisfied(_)  \* whether these replicas and the source are a quorum

VARIABLES local,    \* per upload: the source's own copy
          durable,  \* peers with a permanent copy
          http      \* per upload: the answer the client got

vars == <<local, durable, http>>

Init == /\ local = [t \in Txs |-> "admitted"]
        /\ durable = Holders
        /\ http = [t \in Txs |-> "none"]

\* The source makes its copy permanent, with or without an answer yet.
Keep(t) ==
  /\ local[t] = "admitted"
  /\ local' = [local EXCEPT ![t] = "kept"]
  /\ \/ UNCHANGED http
     \/ http[t] = "none" /\ http' = [http EXCEPT ![t] = "500"]
  /\ UNCHANGED durable

\* The source restores what it had and answers.
Restore(t) ==
  /\ local[t] = "admitted" /\ http[t] = "none"
  /\ local' = [local EXCEPT ![t] = "restored"]
  /\ http' \in {[http EXCEPT ![t] = a] : a \in {"500", "503"}}
  /\ UNCHANGED durable

\* A peer makes its copy permanent.
Replicate(p) ==
  /\ \E t \in Txs : local[t] = "kept"
  /\ durable' = durable \cup {p}
  /\ UNCHANGED <<local, http>>

Succeed(t) ==
  /\ local[t] = "kept" /\ http[t] = "none"
  /\ satisfied(durable)
  /\ http' = [http EXCEPT ![t] = "200"]
  /\ UNCHANGED <<local, durable>>

Fail(t) ==
  /\ local[t] = "kept" /\ http[t] = "none"
  /\ http' = [http EXCEPT ![t] = "500"]
  /\ UNCHANGED <<local, durable>>

Next == \/ \E t \in Txs : Keep(t) \/ Restore(t) \/ Succeed(t) \/ Fail(t)
        \/ \E p \in Peers : Replicate(p)

Spec == Init /\ [][Next]_vars
=============================================================================
