------------------------------- MODULE V1Core -------------------------------
(***************************************************************************)
(* The calls of http::v1::engine as functions from an engine to an engine. *)
(*                                                                         *)
(* The wire is a sequence of items, the units the parser works in: a start *)
(* line, the rest of a header block, one unit of body, a chunk-size line,  *)
(* an empty line.  Every item names the stream whose message it belongs    *)
(* to; the engine never looks at that name, the properties do.             *)
(***************************************************************************)
EXTENDS Integers, SequencesExt

CONSTANT Streams    \* the stream identifiers the run uses

ASSUME StreamsAssumption == Streams \subseteq Nat \ {0}

----------------------------------------------------------------------------
(* Items and events.                                                       *)

ItemTypes == {"start", "interim", "fields", "body", "size", "crlf", "overlong"}

\* framing of the body that a header block announces; "bad" is a Content-Length
\* that is no number.
Framings == {"none", "length", "chunked", "bad"}

Item(type, s, n) ==
  [type |-> type, stream |-> s, n |-> n, bodyless |-> FALSE, framing |-> "none", close |-> FALSE,
   expect |-> FALSE]

\* bodyless: a HEAD request, a response with a status that has no body.
Start(s, bodyless) == [Item("start", s, 0) EXCEPT !.bodyless = bodyless]
Fields(s, framing, n, close) == [Item("fields", s, n) EXCEPT !.framing = framing, !.close = close]
Body(s)     == Item("body", s, 0)
Size(s, n)  == Item("size", s, n)
Crlf(s)     == Item("crlf", s, 0)

Event(type, s, of) == [type |-> type, stream |-> s, of |-> of]

----------------------------------------------------------------------------
(* The engine.                                                             *)

\* streams_ is a map; a stream that is not in it is Absent.  (finished is not
\* kept: the stream is erased in the call that sets it.)
Absent == [present |-> FALSE, bodyless |-> FALSE, head |-> <<>>, body_staged |-> <<>>,
           head_sent |-> FALSE, chunked |-> FALSE, no_body |-> FALSE,
           request_body_done |-> FALSE, request_complete |-> FALSE, close_after |-> FALSE]

Present == [Absent EXCEPT !.present = TRUE]

ParseStates == {"start_line", "skip_interim", "headers", "body_length", "chunk_size", "chunk_data",
                "chunk_crlf", "chunk_trailer", "body_until_close", "awaiting_response", "done"}

NewEngine(role, cb) ==
  [role            |-> role,
   state           |-> "start_line",
   input           |-> <<>>,
   pending_out     |-> <<>>,
   output_ready_cb |-> cb,
   had_output      |-> FALSE,
   streams         |-> [s \in Streams |-> Absent],
   stream_order    |-> <<>>,
   next_stream_id  |-> 1,
   active_stream   |-> 0,
   bodyless        |-> FALSE,
   body_remaining  |-> 0,
   connection_done |-> FALSE,
   goaway_sent     |-> FALSE,
   eof_seen        |-> FALSE,
   event_queue     |-> <<>>]

Emit(e, event) == [e EXCEPT !.event_queue = Append(@, event)]

\* append_pending, followed by the callback even when there is nothing to append.
AppendPending(e, items) ==
  [e EXCEPT !.pending_out = @ \o items,
            !.had_output = @ \/ e.output_ready_cb]

OutputEnd(e, k) ==
  [e EXCEPT !.pending_out = SubSeq(@, k + 1, Len(@)),
            !.had_output = @ /\ k < Len(e.pending_out)]

NextEvent(e) == [e EXCEPT !.event_queue = Tail(@)]

----------------------------------------------------------------------------
(* The end of an exchange, and of the connection.                          *)

MarkConnectionDone(e) ==
  LET done == [e EXCEPT !.connection_done = TRUE, !.state = "done", !.active_stream = 0,
                        !.goaway_sent = TRUE]
  IN IF e.goaway_sent THEN done ELSE Emit(done, Event("goaway", 0, 0))

ConnectionError(e) ==
  IF e.connection_done
  THEN e
  ELSE Emit([e EXCEPT !.connection_done = TRUE, !.state = "done", !.active_stream = 0],
            Event("connection_error", 0, 0))

\* Mutant: a staged head is flushed although the connection is done.
FlushPendingWhenDone(e) ==
  LET id   == Head(e.stream_order)
      info == e.streams[id]
  IN IF e.active_stream # 0 \/ e.stream_order = <<>> \/ info.head = <<>>
     THEN e
     ELSE [AppendPending(e, info.head \o info.body_staged) EXCEPT
             !.streams[id] = [info EXCEPT !.head = <<>>, !.body_staged = <<>>, !.head_sent = TRUE],
             !.active_stream = id]

\* Mutant: the oldest stream that has a head is flushed, not the oldest stream.
FlushPendingEager(e) ==
  LET ready == SelectSeq(e.stream_order, LAMBDA s : e.streams[s].head # <<>>)
      id    == Head(ready)
      info  == e.streams[id]
  IN IF e.active_stream # 0 \/ e.connection_done \/ ready = <<>>
     THEN e
     ELSE [AppendPending(e, info.head \o info.body_staged) EXCEPT
             !.streams[id] = [info EXCEPT !.head = <<>>, !.body_staged = <<>>, !.head_sent = TRUE],
             !.active_stream = id,
             !.state = "start_line"]

\* Requests go on the wire in the order their streams were opened: only the
\* oldest stream may be flushed, and only when no exchange is in flight.
FlushPending(e) ==
  LET id   == Head(e.stream_order)
      info == e.streams[id]
  IN IF e.active_stream # 0 \/ e.connection_done \/ e.stream_order = <<>> \/ info.head = <<>>
     THEN e
     ELSE [AppendPending(AppendPending(e, info.head), info.body_staged) EXCEPT
             !.streams[id] = [info EXCEPT !.head = <<>>, !.body_staged = <<>>, !.head_sent = TRUE],
             !.active_stream = id,
             !.state = "start_line"]

\* Mutant: the stream is left in stream_order_.
EraseFromMap(e, s) ==
  [e EXCEPT !.streams[s] = Absent, !.active_stream = IF @ = s THEN 0 ELSE @]

Erase(e, s) ==
  [e EXCEPT !.streams[s] = Absent,
            !.stream_order = RemoveFirst(@, s),
            !.active_stream = IF @ = s THEN 0 ELSE @]

CompleteExchange(e, s) ==
  LET erased == Erase(Emit(e, Event("stream_closed", s, s)), s)
  IN IF e.streams[s].close_after \/ e.connection_done
     THEN MarkConnectionDone(erased)
     ELSE FlushPending([erased EXCEPT !.state = "start_line"])

\* Mutant: the parser stays in the body.
CompleteRequestStays(e, s) ==
  [Emit(e, Event("stream_closed", s, s)) EXCEPT !.streams[s].request_body_done = TRUE]

CompleteRequest(e, s) ==
  [Emit(e, Event("stream_closed", s, s)) EXCEPT
     !.streams[s].request_body_done = TRUE,
     !.state = "awaiting_response"]

FinishMessage(e) ==
  IF e.role = "client" THEN CompleteExchange(e, e.active_stream)
                       ELSE CompleteRequest(e, e.active_stream)

----------------------------------------------------------------------------
(* The parser.                                                             *)

ParseStartLine(e, it) ==
  IF e.role = "client"
  THEN IF it.type = "interim"
       THEN [e EXCEPT !.state = "skip_interim"]
       ELSE [e EXCEPT !.state = "headers", !.bodyless = it.bodyless]
  ELSE LET id == e.next_stream_id
       IN Emit([e EXCEPT !.next_stream_id = @ + 2,
                         !.streams[id] = [Present EXCEPT !.bodyless = it.bodyless],
                         !.stream_order = Append(@, id),
                         !.active_stream = id,
                         !.state = "headers"],
               Event("new_stream", id, it.stream))

\* A request that announces a body may want to be told to go on.
SendContinue(e, it) ==
  IF e.role = "server" /\ it.expect
  THEN AppendPending(e, <<Item("interim", e.active_stream, 0), Fields(e.active_stream, "none", 0, FALSE)>>)
  ELSE e

HandleHeadersComplete(e, it) ==
  LET s       == e.active_stream
      info    == e.streams[s]
      noticed == Emit([e EXCEPT !.streams[s].close_after = @ \/ it.close],
                      Event("headers", s, it.stream))
  IN CASE e.role = "client" /\ (info.bodyless \/ e.bodyless) -> FinishMessage(noticed)
       [] e.role = "client" /\ ~(info.bodyless \/ e.bodyless) /\ it.framing = "none" ->
            [noticed EXCEPT !.state = "body_until_close"]
       [] e.role = "server" /\ it.framing = "none" -> FinishMessage(noticed)
       [] OTHER ->
            CASE it.framing = "chunked" -> SendContinue([noticed EXCEPT !.state = "chunk_size"], it)
              [] it.framing = "bad"     -> ConnectionError(noticed)
              [] it.framing = "length"  ->
                   IF it.n = 0
                   THEN FinishMessage([noticed EXCEPT !.body_remaining = 0])
                   ELSE SendContinue([noticed EXCEPT !.state = "body_length",
                                                     !.body_remaining = it.n], it)

EmitData(e, it) == Emit([e EXCEPT !.body_remaining = @ - 1], Event("data", e.active_stream, it.stream))

LineStates == ParseStates \ {"body_length", "chunk_data", "body_until_close", "awaiting_response", "done"}

Unsolicited(e) == e.state = "start_line" /\ e.role = "client" /\ e.active_stream = 0

\* One turn of the loop of parse_available.  A line that cannot be parsed
\* fails like one that is too long for the buffer.
ParseItem(e, it) ==
  CASE e.state = "awaiting_response" -> [e EXCEPT !.input = Append(@, it)]
    [] e.state = "done" -> e
    [] Unsolicited(e) -> ConnectionError(e)
    [] ~Unsolicited(e) /\ e.state \in LineStates /\ it.type = "overlong" -> ConnectionError(e)
    [] OTHER ->
         CASE e.state = "start_line"       -> ParseStartLine(e, it)
           [] e.state = "skip_interim"     -> [e EXCEPT !.state = "start_line"]
           [] e.state = "headers"          -> HandleHeadersComplete(e, it)
           [] e.state = "body_length"      -> IF e.body_remaining = 1
                                              THEN FinishMessage(EmitData(e, it))
                                              ELSE EmitData(e, it)
           [] e.state = "chunk_size"       -> [e EXCEPT !.body_remaining = it.n,
                                                        !.state = IF it.n = 0 THEN "chunk_trailer"
                                                                              ELSE "chunk_data"]
           [] e.state = "chunk_data"       -> [EmitData(e, it) EXCEPT
                                                 !.state = IF e.body_remaining = 1 THEN "chunk_crlf"
                                                                                   ELSE @]
           [] e.state = "chunk_crlf"       -> [e EXCEPT !.state = "chunk_size"]
           [] e.state = "chunk_trailer"    -> FinishMessage(e)
           [] e.state = "body_until_close" -> Emit(e, Event("data", e.active_stream, it.stream))

ParseAvailable(e) == FoldLeft(ParseItem, [e EXCEPT !.input = <<>>], e.input)

InputEnd(e, items) == ParseAvailable([e EXCEPT !.input = @ \o items])

Eof(e) ==
  LET seen == [e EXCEPT !.eof_seen = TRUE] IN
  CASE e.eof_seen \/ e.state = "done" -> seen
    [] ~e.eof_seen /\ e.state = "body_until_close" ->
         CompleteExchange([seen EXCEPT !.connection_done = TRUE], e.active_stream)
    [] ~e.eof_seen /\ e.state = "start_line" ->
         IF e.role = "client" /\ e.active_stream # 0 THEN ConnectionError(seen)
                                                     ELSE MarkConnectionDone(seen)
    [] OTHER -> ConnectionError(seen)

----------------------------------------------------------------------------
(* Calls of the application.                                               *)

OpenStream(e) ==
  [e EXCEPT !.next_stream_id = @ + 2,
            !.streams[e.next_stream_id] = Present,
            !.stream_order = Append(@, e.next_stream_id)]

\* length: the caller's Content-Length, or -1 when it gives none.
SendFraming(length, end) ==
  IF length >= 0 THEN "length" ELSE IF end THEN "none" ELSE "chunked"

SendRequestHeaders(e, s, bodyless, length, close, end) ==
  LET info    == e.streams[s]
      framing == SendFraming(length, end)
      head    == <<Start(s, bodyless), Fields(s, framing, IF length >= 0 THEN length ELSE 0, close)>>
  IN IF ~info.present \/ info.head_sent
     THEN e
     ELSE FlushPending([e EXCEPT !.streams[s] = [info EXCEPT !.bodyless = bodyless,
                                                             !.head = head,
                                                             !.chunked = @ \/ framing = "chunked",
                                                             !.close_after = close,
                                                             !.request_complete = @ \/ end]])

\* Mutant: the connection is kept although request body is left to read.
CompleteResponseKeepsAlive(e, s) ==
  LET erased == [Erase(e, s) EXCEPT !.active_stream = 0]
  IN IF e.streams[s].close_after \/ e.connection_done
     THEN MarkConnectionDone(erased)
     ELSE ParseAvailable([erased EXCEPT !.state = "start_line"])

\* Mutant: what is buffered waits for the next read.
CompleteResponseWaits(e, s) ==
  LET erased == [Erase(e, s) EXCEPT !.active_stream = 0]
  IN IF e.streams[s].close_after \/ ~e.streams[s].request_body_done \/ e.connection_done
     THEN MarkConnectionDone(erased)
     ELSE [erased EXCEPT !.state = "start_line"]

\* A response whose request body was not fully read closes the connection;
\* otherwise the next request, which may already be buffered, is parsed.
CompleteResponse(e, s) ==
  LET erased == [Erase(e, s) EXCEPT !.active_stream = 0]
  IN IF e.streams[s].close_after \/ ~e.streams[s].request_body_done \/ e.connection_done
     THEN MarkConnectionDone(erased)
     ELSE ParseAvailable([erased EXCEPT !.state = "start_line"])

SendResponseHeaders(e, s, bodyless, length, close, end) ==
  LET info    == e.streams[s]
      closes  == info.close_after \/ close
      no_body == info.bodyless \/ bodyless
      framing == IF no_body /\ length < 0 THEN "none" ELSE SendFraming(length, end)
      head    == <<Start(s, bodyless), Fields(s, framing, IF length >= 0 THEN length ELSE 0, closes)>>
      sent    == [AppendPending(e, head) EXCEPT
                    !.streams[s] = [info EXCEPT !.close_after = closes,
                                                !.no_body = no_body,
                                                !.chunked = @ \/ framing = "chunked",
                                                !.head_sent = TRUE]]
  IN IF ~info.present \/ info.head_sent
     THEN e
     ELSE IF end THEN CompleteResponse(sent, s) ELSE sent

\* The guard of send_data: it returns 0 for these, whatever it is offered.
Refuses(e, s) ==
  \/ ~e.streams[s].present
  \/ e.streams[s].request_complete
  \/ ~e.streams[s].head_sent

Units(s, n) == [i \in 1 .. n |-> Body(s)]

Framed(e, s, n, end) ==
  IF e.streams[s].chunked
  THEN (IF n > 0 THEN <<Size(s, n)>> \o Units(s, n) \o <<Crlf(s)>> ELSE <<>>)
         \o (IF end THEN <<Size(s, 0), Crlf(s)>> ELSE <<>>)
  ELSE Units(s, n)

\* The return value of send_data.
Accepted(e, s, n) == IF Refuses(e, s) \/ e.streams[s].no_body THEN 0 ELSE n

SendData(e, s, n, end) ==
  LET framed  == Framed(e, s, n, end)
      written == IF e.streams[s].no_body THEN e
                 ELSE IF e.active_stream = s THEN AppendPending(e, framed)
                 ELSE [e EXCEPT !.streams[s].body_staged = @ \o framed]
  IN IF Refuses(e, s) THEN e
     ELSE IF end /\ e.role = "server" THEN CompleteResponse(written, s)
     ELSE [written EXCEPT !.streams[s].request_complete = end]
=============================================================================
