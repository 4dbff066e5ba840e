------------------------------ MODULE V1Engine ------------------------------
(***************************************************************************)
(* One http::v1::engine between an application and a peer.                 *)
(*                                                                         *)
(* As a client the engine pipelines requests; as a server it gets requests *)
(* that may be pipelined.  The peer sends well-formed messages, one line   *)
(* the engine cannot parse, and may hang up at any point, also in the      *)
(* middle of a message.                                                    *)
(***************************************************************************)
EXTENDS V1Core

CONSTANTS
  Roles,        \* the values of connection_role the run starts from
  Requests,     \* what the application (client) or the peer (server) may ask
  Responses,    \* what the peer (client) or the application (server) may answer
  BodyMax       \* units of body the application sends in one message

ASSUME RoleAssumption == Roles \subseteq {"client", "server"}
ASSUME BodyAssumption == BodyMax \in Nat

\* How the application describes a message (length is -1 when it gives no
\* Content-Length) and what the peer puts on the wire for it.
MessageSet == [bodyless : BOOLEAN, length : {-1} \union Nat, end : BOOLEAN, close : BOOLEAN,
               interim : BOOLEAN, expect : BOOLEAN, framing : Framings, n : Nat]

ASSUME MessagesAssumption == Requests \subseteq MessageSet /\ Responses \subseteq MessageSet

\* No interim response announces a request, and no body follows one whose
\* headers give it neither a length nor chunks.
ASSUME RequestsAssumption == \A m \in Requests : ~m.interim /\ (m.framing = "none" => m.n = 0)

VARIABLES
  engine,     \* the engine's members, see V1Core
  wire,       \* items of the peer that were not read yet
  messages,   \* how many messages the peer has sent
  last,       \* the peer has said that it will send no more
  sent,       \* the items the transport took, all of them
  local,      \* what the application has done on each stream
  accepted,   \* units of body that send_data accepted on each stream
  heard       \* the last kind of event drained, per stream and for 0

vars == <<engine, wire, messages, last, sent, local, accepted, heard>>

Init ==
  /\ engine \in {NewEngine(role, cb) : role \in Roles, cb \in BOOLEAN}
  /\ wire = <<>>
  /\ messages = 0
  /\ last = FALSE
  /\ sent = <<>>
  /\ local = [s \in Streams |-> "none"]
  /\ accepted = [s \in Streams |-> 0]
  /\ heard = [s \in Streams \union {0} |-> "nothing"]

\* Everything the engine ever wrote.
Output == sent \o engine.pending_out

----------------------------------------------------------------------------
(* The application.                                                        *)

Open ==
  /\ engine.role = "client"
  /\ engine.next_stream_id \in Streams
  /\ engine' = OpenStream(engine)
  /\ local' = [local EXCEPT ![engine.next_stream_id] = "open"]
  /\ UNCHANGED <<wire, messages, last, sent, accepted, heard>>

\* After the headers the application still has to send a body, whose length
\* the headers gave or not, or is done.
AfterHeaders(end, length) ==
  IF end THEN "done" ELSE IF length >= 0 THEN "length" ELSE "chunked"

SendRequest(s, m) ==
  /\ local[s] = "open"
  /\ engine' = SendRequestHeaders(engine, s, m.bodyless, m.length, m.close, m.end)
  /\ local' = [local EXCEPT ![s] = AfterHeaders(m.end, m.length)]
  /\ UNCHANGED <<wire, messages, last, sent, accepted, heard>>

\* The response may be sent before the request body was read, and even before
\* the headers event was drained.
SendResponse(s, m) ==
  /\ engine.role = "server"
  /\ local[s] = "none"
  /\ heard[s] # "nothing"
  /\ engine' = SendResponseHeaders(engine, s, m.bodyless, m.length, m.close, m.end)
  /\ local' = [local EXCEPT ![s] = AfterHeaders(m.end, m.length)]
  /\ UNCHANGED <<wire, messages, last, sent, accepted, heard>>

\* A body whose length the headers gave is as long as they said (BodyMax).
SendBody(s, n, end) ==
  LET got == Accepted(engine, s, n) IN
  /\ local[s] \in {"length", "chunked"}
  /\ n > 0 \/ end
  /\ accepted[s] + n <= BodyMax
  /\ local[s] = "length" /\ end => accepted[s] + n = BodyMax
  /\ engine' = SendData(engine, s, n, end)
  /\ accepted' = [accepted EXCEPT ![s] = @ + got]
  /\ local' = IF end /\ got = n THEN [local EXCEPT ![s] = "done"] ELSE local
  /\ UNCHANGED <<wire, messages, last, sent, heard>>

DrainEvent ==
  /\ engine.event_queue # <<>>
  /\ engine' = NextEvent(engine)
  /\ heard' = [heard EXCEPT ![Head(engine.event_queue).stream] = Head(engine.event_queue).type]
  /\ UNCHANGED <<wire, messages, last, sent, local, accepted>>

----------------------------------------------------------------------------
(* The transport and the peer.                                             *)

Transmit(k) ==
  /\ engine' = OutputEnd(engine, k)
  /\ sent' = sent \o SubSeq(engine.pending_out, 1, k)
  /\ UNCHANGED <<wire, messages, last, local, accepted, heard>>

\* One item at a time; a longer read is several of these steps in a row.
Receive ==
  /\ wire # <<>>
  /\ ~engine.eof_seen
  /\ engine' = InputEnd(engine, <<Head(wire)>>)
  /\ wire' = Tail(wire)
  /\ UNCHANGED <<messages, last, sent, local, accepted, heard>>

HangUp ==
  /\ ~engine.eof_seen
  /\ engine' = Eof(engine)
  /\ wire' = <<>>
  /\ last' = TRUE
  /\ UNCHANGED <<messages, sent, local, accepted, heard>>

Payload(s, framing, n) ==
  IF framing = "chunked"
  THEN (IF n > 0 THEN <<Size(s, n)>> \o Units(s, n) \o <<Crlf(s)>> ELSE <<>>)
         \o <<Size(s, 0), Crlf(s)>>
  ELSE Units(s, n)

Message(s, m, hasBody) ==
  (IF m.interim THEN <<Item("interim", s, 0), Fields(s, "none", 0, FALSE)>> ELSE <<>>)
    \o <<Start(s, m.bodyless), [Fields(s, m.framing, m.n, m.close) EXCEPT !.expect = m.expect]>>
    \o (IF hasBody THEN Payload(s, m.framing, m.n) ELSE <<>>)

\* Where the n-th request that the peer can see starts.
Starts(items) == {i \in DOMAIN items : items[i].type = "start"}
Seen(n) == {i \in Starts(sent) : Cardinality(Starts(sent) \intersect 1 .. i) = n}

PeerSends(items, final) ==
  /\ ~last
  /\ wire' = wire \o items
  /\ messages' = messages + 1
  /\ last' = final
  /\ UNCHANGED <<engine, sent, local, accepted, heard>>

\* The peer of a client answers requests in order, as soon as it saw the
\* start line; a response without a length ends when the peer hangs up.
PeerResponds(m) ==
  /\ engine.role = "client"
  /\ \E i \in Seen(messages + 1) :
       LET hasBody == ~(sent[i].bodyless \/ m.bodyless)
       IN PeerSends(Message(sent[i].stream, m, hasBody), m.close \/ (m.framing = "none" /\ hasBody))

\* The peer of a server does not wait for responses.
PeerRequests(m) ==
  LET s == 2 * messages + 1 IN
  /\ engine.role = "server"
  /\ s \in Streams
  /\ PeerSends(Message(s, m, TRUE), m.close)

PeerFails ==
  /\ ~last
  /\ wire' = Append(wire, Item("overlong", 0, 0))
  /\ messages' = messages + 1
  /\ last' = TRUE
  /\ UNCHANGED <<engine, sent, local, accepted, heard>>

----------------------------------------------------------------------------
Application ==
  \/ Open
  \/ \E s \in Streams : \/ \E m \in Requests : SendRequest(s, m)
                        \/ \E m \in Responses : SendResponse(s, m)
                        \/ \E n \in 0 .. BodyMax, end \in BOOLEAN : SendBody(s, n, end)
  \/ DrainEvent

Transport ==
  \/ \E k \in 1 .. Len(engine.pending_out) : Transmit(k)
  \/ Receive
  \/ HangUp

Peer ==
  \/ \E m \in Responses : PeerResponds(m)
  \/ \E m \in Requests : PeerRequests(m)
  \/ PeerFails

Next == Application \/ Transport \/ Peer

Spec == Init /\ [][Next]_vars

----------------------------------------------------------------------------
\* streams_ and stream_order_ hold the same streams, and active_stream_ is
\* one of them or 0: complete_exchange and flush_pending look an id up in one
\* that they took from another, without asking whether it is there.
TypeOK ==
  /\ engine.state \in ParseStates
  /\ engine.body_remaining \in Nat
  /\ engine.active_stream \in Streams \union {0}
  /\ \A s \in Streams : engine.streams[s].present <=> Contains(engine.stream_order, s)
  /\ engine.active_stream # 0 => engine.streams[engine.active_stream].present
  /\ local \in [Streams -> {"none", "open", "length", "chunked", "done"}]

\* What a peer sends about one message is reported on the stream of that
\* message: responses are demuxed in request order, and what is left of a
\* request that was answered early is never read as the next one.
AnswersMatch ==
  \A i \in DOMAIN engine.event_queue :
    engine.event_queue[i].of = engine.event_queue[i].stream

\* A stream's events come in order: (new_stream,) headers, data, and one
\* stream_closed that nothing follows; goaway comes at most once.
Follows(type, before) ==
  CASE type = "new_stream"       -> before = "nothing" /\ engine.role = "server"
    [] type = "headers"          -> before = IF engine.role = "server" THEN "new_stream" ELSE "nothing"
    [] type = "data"             -> before \in {"headers", "data"}
    [] type = "stream_closed"    -> before \in {"headers", "data"}
    [] type = "goaway"           -> before # "goaway"
    [] type = "connection_error" -> before = "nothing"

EventsInOrder ==
  [][engine.event_queue # <<>> /\ engine'.event_queue = Tail(engine.event_queue) =>
       LET e == Head(engine.event_queue) IN Follows(e.type, heard[e.stream])]_vars

\* When the connection is done it is over: no stream is heard of again, and a
\* client puts nothing more on the wire, whatever was staged.
SilentWhenDone ==
  [][engine.connection_done =>
       /\ \A i \in Len(engine.event_queue) + 1 .. Len(engine'.event_queue) :
            engine'.event_queue[i].type = "goaway"
       /\ engine.role = "client" => Len(Output') = Len(Output)]_vars

\* "The server parses one request at a time and waits for the response before
\* parsing the next."  It waits for nothing else: input is left unparsed only
\* while a request is open, so the response that ends one, which may be the
\* last call ever made, has parsed what the peer pipelined behind it.
OneRequestAtATime ==
  LET open == {s \in Streams : engine.streams[s].present} IN
  engine.role = "server" =>
    /\ \A s, t \in open : s = t
    /\ engine.input # <<>> /\ ~engine.connection_done => open # {}

\* "Requests go on the wire in open order", responses in request order, and
\* nothing of a message follows the start of a later one.
InOrderOnTheWire ==
  \A i, j \in DOMAIN Output : i <= j => Output[i].stream <= Output[j].stream

\* "Requests on a connection are serial": a request starts only after the
\* whole of the one before it.
Ended(s) ==
  \/ \E i \in DOMAIN Output : Output[i] = Crlf(s) /\ Output[i - 1] = Size(s, 0)
  \/ \E i \in DOMAIN Output :
       /\ Output[i].type = "fields" /\ Output[i].stream = s /\ Output[i].framing # "chunked"
       /\ Output[i].n = accepted[s]

RequestsAreSerial ==
  engine.role = "client" =>
    \A i, j \in DOMAIN Output :
      Output[i].type = "start" /\ Output[j].type = "start" /\ i < j => Ended(Output[i].stream)
=============================================================================
