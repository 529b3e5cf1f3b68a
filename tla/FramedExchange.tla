--------------------------- MODULE FramedExchange ---------------------------
(***************************************************************************)
(* One request and its reply on a libp2p stream: readMessage, respond and  *)
(* call of storage/replicationProtocol.ts.  health/protocol.ts reads and   *)
(* writes in the same way.                                                 *)
(*                                                                         *)
(* A message is a length prefix and that many bytes.  The stream delivers  *)
(* them in chunks of any size, and it may never deliver the end of the     *)
(* other side's writing.  A caller that is not this program (Foreign) may  *)
(* announce too much or stop in the middle.  Bytes are counted, not named; *)
(* what the handlers do is the subject of StrictUpload and FileLifecycle.  *)
(***************************************************************************)
EXTENDS Naturals

CONSTANTS Prefix,      \* LENGTH_PREFIX_BYTES
          MaxMessage,  \* MAX_MESSAGE_BYTES
          Excess       \* bound: bytes beyond the limit a foreign caller sends

FrameAssumption == {Prefix, MaxMessage} \subseteq Nat \ {0} /\ Excess \in Nat

VARIABLES client,    \* "idle", "waiting", "foreign", "answered" or "failed"
          server,    \* "idle", "reading", "working", "answered", "closed" or "failed"
          aborted,   \* the caller has aborted the stream
          up, down,  \* per direction: length announced, bytes sent and received
          acted      \* the handler has run to its end

exchangeVars == <<client, server, aborted, up, down, acted>>

Frames(lengths, sizes) == [announced : lengths, sent : sizes, got : {0}]
Nothing == [announced |-> 0, sent |-> 0, got |-> 0]
Bytes == 0..(Prefix + MaxMessage + Excess)

ExchangeInit == /\ client = "idle" /\ server = "idle" /\ aborted = FALSE /\ acted = FALSE
                /\ up = Nothing /\ down = Nothing

\* What readMessage makes of the bytes it has.
Read(f) == IF f.got > MaxMessage + Prefix THEN "too large"
           ELSE IF f.got < Prefix THEN "more"
           ELSE IF f.announced > MaxMessage THEN "too large"
           ELSE IF f.got >= Prefix + f.announced THEN "complete" ELSE "more"

-----------------------------------------------------------------------------
\* call(): dial and send.
Call(l) == /\ client = "idle"
           /\ client' = "waiting" /\ server' = "reading"
           /\ up' = [announced |-> l, sent |-> Prefix + l, got |-> 0]
           /\ UNCHANGED <<aborted, down, acted>>

\* Anybody may open a stream and send what he likes.
Foreign(f) == /\ client = "idle"
              /\ client' = "foreign" /\ server' = "reading"
              /\ up' = f
              /\ UNCHANGED <<aborted, down, acted>>

\* Mutant: a message is complete when its sender has closed the stream.
ReceiveToEnd(n) ==
  /\ server = "reading" /\ ~aborted /\ up.got + n <= up.sent
  /\ up' = [up EXCEPT !.got = @ + n]
  /\ \/ Read(up') = "too large" /\ server' = "failed"
     \/ Read(up') # "too large" /\ UNCHANGED server
  /\ UNCHANGED <<client, aborted, down, acted>>

\* A chunk of n bytes reaches the server.  The end of the stream is not
\* waited for.
ReceiveRequest(n) ==
  /\ server = "reading" /\ ~aborted /\ up.got + n <= up.sent
  /\ up' = [up EXCEPT !.got = @ + n]
  /\ LET read == Read(up') IN
     \/ read = "complete" /\ server' = "working"
     \/ read = "complete" /\ client = "foreign" /\ server' = "failed"  \* parseRequest throws
     \/ read = "too large" /\ server' = "failed"
     \/ read = "more" /\ UNCHANGED server
  /\ UNCHANGED <<client, aborted, down, acted>>

\* A caller that closes, or whose connection breaks, in the middle.
RequestEnds == /\ server = "reading" /\ aborted
               /\ server' = "failed"
               /\ UNCHANGED <<client, aborted, up, down, acted>>

\* AbortSignal.timeout(requestTimeoutMs), around the whole of readMessage.
ServerTimeout == /\ server = "reading"
                 /\ server' = "failed"
                 /\ UNCHANGED <<client, aborted, up, down, acted>>

\* The handler ends, with a result or an error.  A send on an aborted stream
\* throws, and the stream is aborted from this side too.
Respond(l) == /\ server = "working"
              /\ acted' = TRUE
              /\ \/ /\ ~aborted
                    /\ server' = "answered"
                    /\ down' = [announced |-> l, sent |-> Prefix + l, got |-> 0]
                 \/ aborted /\ server' = "failed" /\ UNCHANGED down
              /\ UNCHANGED <<client, aborted, up>>

\* stream.close() after the reply; the caller may never see it.
ServerCloses == /\ server = "answered"
                /\ server' = "closed"
                /\ UNCHANGED <<client, aborted, up, down, acted>>

ReceiveReply(n) ==
  /\ client = "waiting" /\ down.got + n <= down.sent
  /\ down' = [down EXCEPT !.got = @ + n]
  /\ LET read == Read(down') IN
     \/ read = "complete" /\ client' = "answered"
     \/ read # "complete" /\ UNCHANGED client
  /\ UNCHANGED <<server, aborted, up, acted>>

\* The server gave up: the caller's stream is aborted.
CallFails == /\ client = "waiting" /\ server = "failed"
             /\ client' = "failed"
             /\ UNCHANGED <<server, aborted, up, down, acted>>

\* The caller's own signal aborts the stream; the handler does not hear of it.
CallTimeout == /\ client = "waiting"
               /\ client' = "failed" /\ aborted' = TRUE
               /\ UNCHANGED <<server, up, down, acted>>

\* A foreign caller goes away.
ForeignLeaves == /\ client = "foreign" /\ ~aborted
                 /\ aborted' = TRUE
                 /\ UNCHANGED <<client, server, up, down, acted>>

ExchangeNext == \/ \E l \in 1..MaxMessage : Call(l) \/ Respond(l)
                \/ \E f \in Frames(1..(MaxMessage + Excess), Bytes) : Foreign(f)
                \/ \E n \in Bytes \ {0} : ReceiveRequest(n) \/ ReceiveReply(n)
                \/ RequestEnds \/ ServerTimeout \/ ServerCloses
                \/ CallFails \/ CallTimeout \/ ForeignLeaves

\* What was sent arrives while both sides hold the stream, and handlers end.  The
\* caller's timer need not fire, and neither side ever sees the end of the stream.
ExchangeFairness ==
  /\ WF_exchangeVars(\E n \in Bytes \ {0} : ReceiveRequest(n))
  /\ WF_exchangeVars(\E n \in Bytes \ {0} : ReceiveReply(n))
  /\ WF_exchangeVars(\E l \in 1..MaxMessage : Respond(l))
  /\ WF_exchangeVars(CallFails) /\ WF_exchangeVars(RequestEnds)

\* The server's idle timer fires.
Timer == WF_exchangeVars(ServerTimeout)

ExchangeSpec == ExchangeInit /\ [][ExchangeNext]_exchangeVars /\ ExchangeFairness /\ Timer

-----------------------------------------------------------------------------
\* A message is acted on, and a reply believed, only when all of it is there,
\* wherever the chunks were cut.
WholeMessages ==
  /\ server \in {"working", "answered", "closed"} => up.got >= Prefix + up.announced
  /\ client = "answered" => acted /\ down.got = down.sent

\* A call is answered or fails although its own timer never fires and no end
\* of stream is seen: nobody waits for the other to close.
NoMutualWait == client = "waiting" ~> client # "waiting"

\* A stream on which a caller sends part of a message and falls silent does
\* not stay open on the server.
ReaderReleased == server = "reading" ~> server # "reading"
=============================================================================
