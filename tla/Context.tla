------------------------------ MODULE Context ------------------------------
(***************************************************************************)
(* The application side of an HTTP/2 connection: stream.cpp, the contexts  *)
(* that keep a map of streams, and the coroutine adapter of coro.h, on the *)
(* engine and before the peer of H2Engine.                                 *)
(*                                                                         *)
(* A client is a set of coroutines, one per request, resumed from inside   *)
(* request_registry::dispatch; a server is an event loop that gets its     *)
(* handle at the headers event and answers when it likes.  A call that     *)
(* makes several engine calls is split into steps, and stack holds what    *)
(* has not returned: nothing but the innermost call goes on, except the    *)
(* transport, which may take output from within the output callback.       *)
(***************************************************************************)
EXTENDS H2Engine

CONSTANT BodySizes    \* request body lengths

ASSUME BodyAssumption == BodySizes \subseteq Nat

\* A header block holds a pseudo-header field at least, so it is not empty.
ASSUME BlockAssumption == \A f \in PeerFrames : f.type = "headers" => f.len > 0

VARIABLES
  object,     \* stream_state of each stream; handles share it with the map
  streams,    \* keys of context_base::streams_
  handles,    \* streams whose handle the server got by get_stream
  entries,    \* keys of request_registry::entries_
  request,    \* response_state of each stream, and its coroutine
  stack,      \* calls that have not returned, innermost first
  told        \* streams whose stream_closed or stream_reset was returned

appVars == <<object, streams, handles, entries, request, stack, told>>
allVars == <<vars, appVars>>

StreamStates == {"absent", "idle", "open", "half_closed_local", "half_closed_remote", "closed"}
Objects == [state : StreamStates, headers_sent : BOOLEAN]
NewObject == [state |-> "idle", headers_sent |-> FALSE]

\* retries: try_send_remaining is stored; continuation: it is set, and never
\* cleared; task: the coroutine, which calls execute, awaits the response, and
\* ends when it has it.
Requests ==
  [body : Nat, send_offset : Nat, retries : BOOLEAN, completed : BOOLEAN,
   continuation : BOOLEAN,
   task : {"none", "executed", "suspended", "finished"}, resumptions : 0 .. 2]
NewRequest(n) ==
  [body |-> n, send_offset |-> 0, retries |-> FALSE, completed |-> FALSE,
   continuation |-> FALSE, task |-> "executed", resumptions |-> 0]
NoRequest == [NewRequest(0) EXCEPT !.task = "none"]

Sending(s) == [call |-> "try_send_remaining", stream |-> s]
Resuming(s) == [call |-> "resume", stream |-> s]
Calls == {Sending(s) : s \in Streams} \union {Resuming(s) : s \in Streams}

InnermostIs(call) == stack # <<>> /\ Head(stack) = call

\* Code of the application runs: the event loop, or a resumed coroutine.
AppRuns == stack # <<>> => Head(stack).call = "resume"

AppInit ==
  /\ Init
  /\ object = [s \in Streams |-> [state |-> "absent", headers_sent |-> FALSE]]
  /\ streams = {}
  /\ handles = {}
  /\ entries = {}
  /\ request = [s \in Streams |-> NoRequest]
  /\ stack = <<>>
  /\ told = {}

----------------------------------------------------------------------------
(* stream: the state follows what was sent, whatever it was before.        *)

AfterHeaders(end) ==
  [state |-> IF end THEN "half_closed_local" ELSE "open", headers_sent |-> TRUE]

\* Mutant: the state changes although the windows cut the body short.
AfterDataAlways(o, sent, size, end) == IF end THEN [o EXCEPT !.state = "half_closed_local"] ELSE o

\* send_data moves the state only if END_STREAM was sent, that is if all was.
AfterData(o, sent, size, end) ==
  IF end /\ sent = size THEN [o EXCEPT !.state = "half_closed_local"] ELSE o

----------------------------------------------------------------------------
(* context_base: what next_event does with an event before it returns it.  *)

\* Mutant: the end of both sides is taken for the end of one.
AfterCloseHalf(o) ==
  [o EXCEPT !.state = IF @ = "open" \/ @ = "half_closed_local" THEN "half_closed_remote"
                                                               ELSE "closed"]

AfterClose(o) ==
  [o EXCEPT !.state = IF @ = "open" THEN "half_closed_remote" ELSE "closed"]

\* Mutant: the default of on_new_stream_event, which does nothing.
ObserveIgnoringNew(e) ==
  /\ object' = IF e.type = "stream_closed" /\ e.stream \in streams
               THEN [object EXCEPT ![e.stream] = AfterClose(@)] ELSE object
  /\ streams' = IF e.type = "stream_reset" THEN streams \ {e.stream} ELSE streams

Observe(e) ==
  CASE e.type = "new_stream" ->
         /\ object' = [object EXCEPT ![e.stream] = NewObject]
         /\ streams' = streams \union {e.stream}
    [] e.type = "stream_closed" /\ e.stream \in streams ->
         /\ object' = [object EXCEPT ![e.stream] = AfterClose(@)]
         /\ streams' = IF object'[e.stream].state = "closed" THEN streams \ {e.stream} ELSE streams
    [] e.type = "stream_reset" ->
         /\ streams' = streams \ {e.stream}
         /\ UNCHANGED object
    [] OTHER -> UNCHANGED <<object, streams>>

----------------------------------------------------------------------------
(* request_registry::dispatch.                                             *)

Ends(e) == e.type \in {"stream_closed", "stream_reset"}

\* Mutant: a reset ends the request but resumes nobody.
ResumesOnClose(e) == e.type = "stream_closed" /\ request[e.stream].continuation

\* The coroutine is resumed before its entry is erased.
Resumes(e) == Ends(e) /\ request[e.stream].continuation

Dispatch(e) ==
  IF e.stream \notin entries THEN UNCHANGED <<entries, request, stack>>
  ELSE
  /\ request' = IF Ends(e)
                THEN [request EXCEPT ![e.stream].completed = TRUE,
                                     ![e.stream].task = IF Resumes(e) THEN "finished" ELSE @,
                                     ![e.stream].resumptions = Least(2, IF Resumes(e) THEN @ + 1
                                                                                      ELSE @)]
                ELSE request
  /\ entries' = IF Ends(e) /\ ~Resumes(e) THEN entries \ {e.stream} ELSE entries
  /\ stack' = CASE Resumes(e) -> <<Resuming(e.stream)>>
                [] /\ e.type = "stream_window_available" /\ request[e.stream].retries
                   /\ request[e.stream].send_offset < request[e.stream].body
                     -> <<Sending(e.stream)>>
                [] OTHER -> <<>>

----------------------------------------------------------------------------
(* Calls of the client.                                                    *)

\* client_context::open_stream
OpenRequest ==
  LET s == engine.next_stream_id IN
  /\ AppRuns
  /\ Open
  /\ object' = [object EXCEPT ![s] = NewObject]
  /\ streams' = streams \union {s}
  /\ UNCHANGED <<handles, entries, request, stack, told>>

\* request_handle::execute up to try_send_remaining
Execute(s, n) ==
  /\ AppRuns
  /\ engine.role = "client"
  /\ request[s].task = "none"
  /\ SendHeaders(s, n = 0)
  /\ object' = [object EXCEPT ![s] = AfterHeaders(n = 0)]
  /\ entries' = entries \union {s}
  /\ request' = [request EXCEPT ![s] = NewRequest(n)]
  /\ stack' = IF n > 0 THEN <<Sending(s)>> \o stack ELSE stack
  /\ UNCHANGED <<streams, handles, told>>

\* Mutant: it is stored only if nothing could be sent.
RetriesIfBlocked(sent, rest) == sent = 0

\* try_send_remaining is stored for the wakeup if the body was cut short.
Retries(sent, rest) == sent < rest

TrySendRemaining(s) ==
  LET rest == request[s].body - request[s].send_offset
      sent == Accepted(engine, s, rest)
  IN
  /\ InnermostIs(Sending(s))
  /\ SendBody(s, rest, TRUE)
  /\ object' = [object EXCEPT ![s] = AfterData(@, sent, rest, TRUE)]
  /\ request' = [request EXCEPT ![s].send_offset = @ + sent,
                                ![s].retries = @ \/ Retries(sent, rest)]
  /\ stack' = Tail(stack)
  /\ UNCHANGED <<streams, handles, entries, told>>

\* co_await: ready at once if the response is already there.
Await(s) ==
  /\ AppRuns
  /\ request[s].task = "executed"
  /\ request' = [request EXCEPT ![s].task = IF request[s].completed THEN "finished" ELSE "suspended",
                                ![s].continuation = ~request[s].completed]
  /\ UNCHANGED <<vars, object, streams, handles, entries, stack, told>>

\* Mutant: the entry is not erased.
EntriesKept(s) == entries

\* The code erases the iterator it found before it resumed the coroutine.  Here
\* the entry goes by its key: that a rehash of entries_ by a request which the
\* coroutine registers invalidates the iterator is not modelled.
EntriesAfter(s) == entries \ {s}

\* The resumed coroutine suspends again or ends: dispatch goes on.
Return(s) ==
  /\ InnermostIs(Resuming(s))
  /\ entries' = EntriesAfter(s)
  /\ stack' = Tail(stack)
  /\ UNCHANGED <<vars, object, streams, handles, request, told>>

----------------------------------------------------------------------------
(* Calls of the server, and of the event loop.                             *)

Respond(s, end) ==
  /\ s \in handles
  /\ SendHeaders(s, end)
  /\ object' = [object EXCEPT ![s] = AfterHeaders(end)]
  /\ UNCHANGED <<streams, handles, entries, request, stack, told>>

RespondBody(s, n, end) ==
  /\ s \in handles
  /\ SendBody(s, n, end)
  /\ object' = [object EXCEPT ![s] = AfterData(@, Accepted(engine, s, n), n, end)]
  /\ UNCHANGED <<streams, handles, entries, request, stack, told>>

\* next_event and, in a client, dispatch.
Pump ==
  LET e == Head(engine.event_queue) IN
  /\ stack = <<>>
  /\ DrainEvent
  /\ Observe(e)
  /\ Dispatch(e)
  /\ handles' = IF engine.role = "server" /\ e.type = "headers" /\ e.stream \in streams
                THEN handles \union {e.stream} ELSE handles
  /\ told' = IF Ends(e) THEN told \union {e.stream} ELSE told

\* As H2Engine, but no read ends inside a payload with END_STREAM.
Traffic ==
  /\ \/ stack = <<>> /\ Transport
     \/ \E k \in 1 .. Len(engine.pending_out) : Transmit(k)
  /\ frame.end => payload_bytes_read' = 0
  /\ UNCHANGED appVars

----------------------------------------------------------------------------
Calling ==
  \/ \E s \in Streams : TrySendRemaining(s) \/ Await(s) \/ Return(s)
  \/ Pump

AppNext ==
  \/ OpenRequest
  \/ \E s \in Streams, n \in BodySizes : Execute(s, n)
  \/ \E s \in Streams, end \in BOOLEAN : Respond(s, end)
  \/ \E s \in Streams, n \in SendSizes, end \in BOOLEAN : RespondBody(s, n, end)
  \/ Calling
  \/ Traffic

AppSpec == AppInit /\ [][AppNext]_allVars

\* Calls return, coroutines await what they started, the loop drains events,
\* and the transport takes output (a call waits for room in this model only).
FairSpec ==
  /\ AppSpec
  /\ WF_allVars(Calling)
  /\ WF_allVars(\E k \in 1 .. Len(engine.pending_out) : Transmit(k) /\ UNCHANGED appVars)

----------------------------------------------------------------------------
\* Every member stays in its type, no body is sent past its end, and the maps
\* hold only streams that were created and requests that were executed.
AppTypeOK ==
  /\ object \in [Streams -> Objects]
  /\ \A s \in streams \union handles : object[s].state # "absent"
  /\ \A s \in entries : request[s].task # "none"
  /\ request \in [Streams -> Requests]
  /\ \A s \in Streams : request[s].send_offset <= request[s].body
  /\ stack \in Seq(Calls)
  /\ told \subseteq Streams

\* A request body never gets stuck: while it is not sent and both windows are
\* open, the stream_window_available that will call try_send_remaining is in
\* the queue, or the call is in progress.  Other requests, sent by coroutines
\* resumed in between, may use up the shared window first.
NoStuckBody ==
  \A s \in entries \ forgotten :
    request[s].send_offset < request[s].body /\ Sendable(s) =>
      \/ \E i \in DOMAIN stack : stack[i] = Sending(s)
      \/ WakeupQueued(s) /\ request[s].retries

\* A request completes once all of its response was dispatched: nothing that
\* belongs to it is still in the queue.
CompletedIsWhole ==
  \A s \in Streams : request[s].completed =>
    \A i \in DOMAIN engine.event_queue :
      engine.event_queue[i].stream = s => engine.event_queue[i].type \notin {"headers", "data"}

\* No coroutine is resumed twice, even if several chunks of RST_STREAM end its
\* stream several times.
ResumedOnce == \A s \in Streams : request[s].resumptions <= 1

\* The event that is next finds its stream.  Content is never of a stream that
\* get_stream does not know, for which it returns an empty handle; any other
\* event of a stream only if that stream's end was returned before it.  So no
\* event comes before the new_stream of its stream was returned.
EventsFindTheirStream ==
  LET e == Head(engine.event_queue) IN
  engine.event_queue # <<>> /\ e.type # "new_stream" /\ e.stream # 0 =>
    \/ e.stream \in streams
    \/ e.type \notin {"headers", "data"} /\ e.stream \in told

\* The state of a handle agrees with what was written and with what was
\* returned: headers and END_STREAM as far as the state says, the end of the
\* remote side if the state says so, and a stream of the map whose end was
\* returned is half closed.  (It is half_closed_local if its local side ended
\* second, when send_data overwrites half_closed_remote.)
StateMatchesWire ==
  \A s \in Streams :
    /\ object[s].state = "idle" => local[s] = "open"
    /\ object[s].state \in {"open", "half_closed_remote"} => local[s] = "headers"
    /\ object[s].state = "half_closed_local" => local[s] = "done"
    /\ object[s].state \in {"half_closed_remote", "closed"} => s \in told
    /\ s \in streams \intersect told =>
         object[s].state \in {"half_closed_remote", "half_closed_local"}

\* A stream whose local side ended first is forgotten when its stream_closed
\* is returned, and a reset stream at once.
Returned(type, s) ==
  engine.event_queue # <<>> /\ Head(engine.event_queue) = Event(type, s, 0) /\ DrainEvent

EndsForgotten ==
  [][\A s \in Streams :
       (Returned("stream_closed", s) /\ local[s] = "done") \/ Returned("stream_reset", s)
         => s \notin streams']_allVars

\* "Erase from streams_ if fully closed": a stream that both sides ended, or
\* that was reset, is not in the map.
ForgetsEnded == \A s \in told : local[s] = "done" => s \notin streams

\* Once the end of its response is queued a suspended coroutine is resumed.
EndQueued(s) == \E i \in DOMAIN engine.event_queue :
                  Ends(engine.event_queue[i]) /\ engine.event_queue[i].stream = s

AwaiterResumed ==
  \A s \in Streams : request[s].task = "suspended" /\ EndQueued(s) ~> request[s].task = "finished"
=============================================================================
