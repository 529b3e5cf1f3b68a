------------------------------ MODULE Downloads ------------------------------
(***************************************************************************)
(* Downloads: middleware/downloadAdmission.ts, the GET handler of          *)
(* api/file.ts, utils/downloadResponse.ts and utils/timedStream.ts.        *)
(*                                                                         *)
(* A request takes a slot of the node and one of its client's share.  The  *)
(* handler dials holders, asks for the size of the file and pipes a stream *)
(* of chunks into the response.  Peers may stall or fail, the client may   *)
(* stop reading or leave, and timers may fire, at every await.             *)
(***************************************************************************)
EXTENDS Naturals, FiniteSets

CONSTANTS Requests, Clients,
          ClientOf,       \* the address each request comes from
          MaxDownloads,   \* size of downloadLimiter
          MaxPerClient,   \* maxConcurrentDownloadsPerClient
          Chunks          \* length of every file

ASSUME DownloadAssumption ==
  /\ ClientOf \in [Requests -> Clients]
  /\ {MaxDownloads, MaxPerClient, Chunks} \subseteq Nat \ {0}

VARIABLES pc,            \* where the handler of each request is
          res,           \* the response
          body,          \* what it was ended with
          stream,        \* "waiting" for a peer, "suspended" until it is read
          sent,          \* chunks written to the response
          aborted,       \* the stream's signal has fired
          held,          \* requests whose release() has not run
          active,        \* the limiter's counter
          heldPerClient  \* the admission's map, 0 for no entry

vars == <<pc, res, body, stream, sent, aborted, held, active, heldPerClient>>
slots == <<held, active, heldPerClient>>

Init == /\ pc = [r \in Requests |-> "idle"]
        /\ res = [r \in Requests |-> "none"]
        /\ body = [r \in Requests |-> "none"]
        /\ stream = [r \in Requests |-> "none"]
        /\ sent = [r \in Requests |-> 0]
        /\ aborted = [r \in Requests |-> FALSE]
        /\ held = {} /\ active = 0
        /\ heldPerClient = [c \in Clients |-> 0]

-----------------------------------------------------------------------------
(* Admission *)

\* Mutant: both events of a response give the slot back.
releaseTwice(r) ==
  /\ held' = held \ {r}
  /\ active' = IF active > 0 THEN active - 1 ELSE 0
  /\ heldPerClient' = [heldPerClient EXCEPT ![ClientOf[r]] = IF @ > 1 THEN @ - 1 ELSE 0]

\* release(), once: a client without downloads has no entry.
release(r) ==
  IF r \notin held THEN UNCHANGED slots
  ELSE /\ held' = held \ {r}
       /\ active' = IF active > 0 THEN active - 1 ELSE 0
       /\ heldPerClient' = [heldPerClient EXCEPT ![ClientOf[r]] = IF @ > 1 THEN @ - 1 ELSE 0]

admissible(r) == heldPerClient[ClientOf[r]] < MaxPerClient /\ active < MaxDownloads

\* admitDownload; who is refused (429) holds nothing.
Admit(r) ==
  /\ pc[r] = "idle" /\ admissible(r)
  /\ pc' = [pc EXCEPT ![r] = "prepare"]
  /\ res' = [res EXCEPT ![r] = "open"]
  /\ held' = held \cup {r}
  /\ active' = active + 1
  /\ heldPerClient' = [heldPerClient EXCEPT ![ClientOf[r]] = @ + 1]
  /\ UNCHANGED <<body, stream, sent, aborted>>

Refuse(r) ==
  /\ pc[r] = "idle" /\ ~admissible(r)
  /\ pc' = [pc EXCEPT ![r] = "refused"]
  /\ UNCHANGED <<res, body, stream, sent, aborted, slots>>

-----------------------------------------------------------------------------
(* The handler *)

\* res.end(): a response whose client has left takes nothing any more.
endWith(r, what) ==
  IF res[r] = "open"
    THEN /\ res' = [res EXCEPT ![r] = "ended"]
         /\ body' = [body EXCEPT ![r] = what]
    ELSE UNCHANGED <<res, body>>

\* prepareFileRetrieval: a local block, or dials that ended one way or other.
Prepared(r) ==
  /\ pc[r] = "prepare"
  /\ pc' = [pc EXCEPT ![r] = "stat"]
  /\ UNCHANGED <<res, body, stream, sent, aborted, slots>>

\* getFileStats answers; its signal is that of the request.
StatFound(r) ==
  /\ pc[r] = "stat" /\ res[r] = "open"
  /\ pc' = [pc EXCEPT ![r] = "found"]
  /\ UNCHANGED <<res, body, stream, sent, aborted, slots>>

\* Not found in time, or the client has left.
StatFails(r) ==
  /\ pc[r] = "stat"
  /\ pc' = [pc EXCEPT ![r] = "done"]
  /\ endWith(r, "error")
  /\ UNCHANGED <<stream, sent, aborted, slots>>

\* The client has this version: 304.
NotModified(r) ==
  /\ pc[r] = "found"
  /\ pc' = [pc EXCEPT ![r] = "done"]
  /\ endWith(r, "304")
  /\ UNCHANGED <<stream, sent, aborted, slots>>

\* Mutant: only a signal that fires later stops the stream.
OpenStreamUnaware(r) ==
  /\ pc[r] = "found"
  /\ pc' = [pc EXCEPT ![r] = "stream"]
  /\ stream' = [stream EXCEPT ![r] = "waiting"]
  /\ UNCHANGED <<res, body, sent, aborted, slots>>

\* downloadFile and sendDownloadStream.  The client may have left after the
\* answer of stat: then the signal has fired before the stream exists.
OpenStream(r) ==
  /\ pc[r] = "found"
  /\ pc' = [pc EXCEPT ![r] = "stream"]
  /\ stream' = [stream EXCEPT ![r] = "waiting"]
  /\ aborted' = [aborted EXCEPT ![r] = res[r] = "closed"]
  /\ UNCHANGED <<res, body, sent, slots>>

-----------------------------------------------------------------------------
(* The stream *)

\* The next chunk arrives; the generator waits until it is asked for more.
Chunk(r) ==
  /\ stream[r] = "waiting" /\ ~aborted[r] /\ sent[r] < Chunks
  /\ stream' = [stream EXCEPT ![r] = "suspended"]
  /\ UNCHANGED <<pc, res, body, sent, aborted, slots>>

\* The response has room for it: the client reads.
Read(r) ==
  /\ stream[r] = "suspended" /\ res[r] = "open"
  /\ stream' = [stream EXCEPT ![r] = "waiting"]
  /\ sent' = [sent EXCEPT ![r] = @ + 1]
  /\ UNCHANGED <<pc, res, body, aborted, slots>>

\* All chunks are written: pipe ends the response.
StreamEnds(r) ==
  /\ stream[r] = "waiting" /\ sent[r] = Chunks
  /\ stream' = [stream EXCEPT ![r] = "over"]
  /\ endWith(r, "file")
  /\ UNCHANGED <<pc, sent, aborted, slots>>

\* The idle timer or the deadline of the transfer: the source's signal fires.
\* A generator that is suspended does not notice.
Timeout(r) ==
  /\ stream[r] \in {"waiting", "suspended"}
  /\ ~aborted[r]
  /\ aborted' = [aborted EXCEPT ![r] = TRUE]
  /\ UNCHANGED <<pc, res, body, stream, sent, slots>>

\* The source throws: a peer failed, or the signal has fired.  Before the
\* first byte the client gets an error; later the connection is destroyed.
StreamFails(r) ==
  /\ stream[r] = "waiting"
  /\ stream' = [stream EXCEPT ![r] = "over"]
  /\ \/ /\ sent[r] > 0 /\ res[r] = "open"
        /\ res' = [res EXCEPT ![r] = "closed"]
        /\ release(r)
        /\ UNCHANGED body
     \/ /\ sent[r] = 0 \/ res[r] # "open"
        /\ endWith(r, "error")
        /\ UNCHANGED slots
  /\ UNCHANGED <<pc, sent, aborted>>

-----------------------------------------------------------------------------
(* The response *)

\* Everything is handed to the network: "finish".
Finish(r) ==
  /\ res[r] = "ended"
  /\ res' = [res EXCEPT ![r] = "finished"]
  /\ release(r)
  /\ UNCHANGED <<pc, body, stream, sent, aborted>>

\* The connection closes, after the end or because the client leaves.  An
\* unfinished stream is destroyed; a handler before that has its signal only.
Close(r) ==
  /\ res[r] \in {"open", "ended", "finished"}
  /\ res' = [res EXCEPT ![r] = "closed"]
  /\ IF res[r] = "open" /\ stream[r] # "none"
       THEN /\ aborted' = [aborted EXCEPT ![r] = TRUE]
            /\ stream' = [stream EXCEPT ![r] = "over"]
       ELSE UNCHANGED <<aborted, stream>>
  /\ release(r)
  /\ UNCHANGED <<pc, body, sent>>

Next ==
  \E r \in Requests :
    \/ Admit(r) \/ Refuse(r) \/ Prepared(r) \/ StatFound(r) \/ StatFails(r)
    \/ NotModified(r) \/ OpenStream(r) \/ Chunk(r) \/ Read(r) \/ StreamEnds(r)
    \/ Timeout(r) \/ StreamFails(r) \/ Finish(r) \/ Close(r)

\* What the node does by itself; peers and clients owe nothing.  A source whose
\* signal has fired rejects.
NodeFairness ==
  \A r \in Requests :
    /\ WF_vars(Prepared(r)) /\ WF_vars(StatFails(r) \/ StatFound(r))
    /\ WF_vars(OpenStream(r) \/ NotModified(r))
    /\ WF_vars(StreamEnds(r) \/ (aborted[r] /\ StreamFails(r)))
    /\ WF_vars(Timeout(r))

\* A client that is there goes on reading.
ClientFairness == \A r \in Requests : WF_vars(Read(r)) /\ WF_vars(Finish(r))

Spec == Init /\ [][Next]_vars /\ NodeFairness
FairSpec == Spec /\ ClientFairness

-----------------------------------------------------------------------------
(* Properties *)

TypeOK ==
  /\ pc \in [Requests -> {"idle", "refused", "prepare", "stat", "found", "stream", "done"}]
  /\ res \in [Requests -> {"none", "open", "ended", "finished", "closed"}]
  /\ body \in [Requests -> {"none", "file", "error", "304"}]
  /\ stream \in [Requests -> {"none", "waiting", "suspended", "over"}]
  /\ sent \in [Requests -> 0..Chunks]
  /\ aborted \in [Requests -> BOOLEAN]
  /\ held \subseteq Requests
  /\ active \in 0..MaxDownloads
  /\ heldPerClient \in [Clients -> 0..MaxPerClient]

\* downloadAdmission.ts 31-33 and 51-68: whatever the order of "finish",
\* "close" and errors, limiter and map agree with the downloads that run.
SlotsMatch ==
  /\ active = Cardinality(held)
  /\ \A c \in Clients : heldPerClient[c] = Cardinality({r \in held : ClientOf[r] = c})

\* downloadAdmission.ts 67-68: "A slot is held for the whole response"
\* (docs/storage-lifecycle.md), and not longer.
SlotSpansResponse == held = {r \in Requests : res[r] \in {"open", "ended"}}

\* downloadResponse.ts 58-69: a response that ends like a success carries the
\* whole file; an error message never follows bytes of the file.
CompleteOrBroken ==
  \A r \in Requests : /\ body[r] = "file" => sent[r] = Chunks
                      /\ body[r] \in {"error", "304"} => sent[r] = 0

\* timedStream.ts 40-45 and api/file.ts 104-109: once the client has left, at
\* whatever await, no further chunk of the file is fetched for it.
NoFetchForTheDeparted ==
  [][\A r \in Requests : Chunk(r) => res[r] = "open"]_vars

\* timedStream.ts 18-19: peers that stall in the middle of a file do not hold
\* a slot for ever; the download ends if the client reads or leaves.
DownloadEnds == \A r \in Requests : r \in held ~> r \notin held

\* timedStream.ts 16: "Create a readable whose deadline covers the complete
\* iteration".
DeadlineCoversIteration == \A r \in Requests : aborted[r] ~> stream[r] = "over"
=============================================================================
