------------------------------- MODULE H2Link -------------------------------
(***************************************************************************)
(* A client engine and a server engine connected by a byte stream.         *)
(*                                                                         *)
(* Each request and each response has a body.  The applications behave as  *)
(* the coroutine adapter does: offer the whole rest of the body with       *)
(* END_STREAM, and when send_data takes less, offer what is left after the *)
(* next stream_window_available.  The transport moves frames in order from *)
(* one engine's pending_out to the other's parser.                         *)
(***************************************************************************)
EXTENDS H2Core, SequencesExt

CONSTANTS
  Bodies,       \* <<request, response>> body lengths a stream may have
  LocalSizes,   \* <<client, server>> arguments of set_initial_window_size
  SplitEnd      \* whether a read may cut HEADERS, or DATA with END_STREAM

ASSUME BodiesAssumption == Bodies \subseteq Nat \X Nat /\ IsFiniteSet(Bodies)
ASSUME LinkAssumption ==
  LocalSizes \subseteq Nat \X Nat /\ SplitEnd \in BOOLEAN

VARIABLES
  engine,               \* the two engines, by role
  frame,                \* header of the frame each engine's parser is in
  payload_bytes_read,   \* how much of its payload was handled
  body,                 \* the <<request, response>> lengths of each stream
  phase,                \* what each application is doing on each stream
  accepted,             \* body bytes each side's send_data accepted
  delivered,            \* body bytes each application received
  closed                \* streams each application saw closed

vars == <<engine, frame, payload_bytes_read, body, phase, accepted, delivered, closed>>

Sides == {"client", "server"}
Peer(x) == IF x = "client" THEN "server" ELSE "client"

BodyOf(x, s) == IF x = "client" THEN body[s][1] ELSE body[s][2]

Configured(x, size) == SetInitialWindowSize(NewEngine(x, FALSE), size)

Init ==
  /\ engine \in {[client |-> Configured("client", sizes[1]),
                 server |-> Configured("server", sizes[2])] : sizes \in LocalSizes}
  /\ frame = [x \in Sides |-> NoFrame]
  /\ payload_bytes_read = [x \in Sides |-> 0]
  /\ body \in [Streams -> Bodies]
  /\ phase = [x \in Sides |-> [s \in Streams |-> "none"]]
  /\ accepted = [x \in Sides |-> [s \in Streams |-> 0]]
  /\ delivered = [x \in Sides |-> [s \in Streams |-> 0]]
  /\ closed = [x \in Sides |-> {}]

----------------------------------------------------------------------------
(* The applications.                                                       *)

Open ==
  LET c == engine["client"] IN
  /\ c.next_stream_id \in Streams
  /\ engine' = [engine EXCEPT !["client"] = OpenStream(@)]
  /\ phase' = [phase EXCEPT !["client"][c.next_stream_id] = "open"]
  /\ UNCHANGED <<frame, payload_bytes_read, body, accepted, delivered, closed>>

SendHeaders(x, s) ==
  /\ phase[x][s] = "open"
  /\ engine' = [engine EXCEPT ![x] = SendHeadersFrame(@, s, BodyOf(x, s) = 0)]
  /\ phase' = [phase EXCEPT ![x][s] = IF BodyOf(x, s) = 0 THEN "done" ELSE "sending"]
  /\ UNCHANGED <<frame, payload_bytes_read, body, accepted, delivered, closed>>

SendBody(x, s) ==
  LET rest == BodyOf(x, s) - accepted[x][s]
      sent == Accepted(engine[x], s, rest)
  IN /\ phase[x][s] = "sending"
     /\ engine' = [engine EXCEPT ![x] = SendData(@, s, rest, TRUE)]
     /\ accepted' = [accepted EXCEPT ![x][s] = @ + sent]
     /\ phase' = [phase EXCEPT ![x][s] = IF sent = rest THEN "done" ELSE "waiting"]
     /\ UNCHANGED <<frame, payload_bytes_read, body, delivered, closed>>

\* A server may answer as soon as it hears of the request.
Answers(x, e) == x = "server" /\ e.type = "new_stream" /\ phase[x][e.stream] = "none"

HandleEvent(x) ==
  LET e == Head(engine[x].event_queue) IN
  /\ engine[x].event_queue # <<>>
  /\ engine' = [engine EXCEPT ![x] = NextEvent(@)]
  /\ delivered' = IF e.type = "data"
                  THEN [delivered EXCEPT ![x][e.stream] = @ + e.len] ELSE delivered
  /\ closed' = IF e.type = "stream_closed"
               THEN [closed EXCEPT ![x] = @ \union {e.stream}] ELSE closed
  /\ phase' = IF Answers(x, e)
              THEN [phase EXCEPT ![x][e.stream] = "open"]
              ELSE IF e.type = "stream_window_available" /\ phase[x][e.stream] = "waiting"
              THEN [phase EXCEPT ![x][e.stream] = "sending"]
              ELSE phase
  /\ UNCHANGED <<frame, payload_bytes_read, body, accepted>>

----------------------------------------------------------------------------
(* The transport.                                                          *)

\* The next frame, or chunk of one, is handled once the events of the last were
\* drained.  One input_end handles all that a read holds before the application
\* sees an event: those reads differ from the ones here in when the application
\* hears of what it holds, and draining an event makes no call of the engine.
Ready(x) == engine[x].event_queue = <<>>

Incoming(x) == engine[Peer(x)].pending_out

ReadPreface ==
  /\ engine["server"].state = "awaiting_preface"
  /\ Incoming("server") # <<>>
  /\ engine' = [client |-> OutputEnd(engine["client"], 1),
                server |-> ReceivePreface(engine["server"], TRUE)]
  /\ UNCHANGED <<frame, payload_bytes_read, body, phase, accepted, delivered, closed>>

ReadFrameHeader(x) ==
  LET f == Head(Incoming(x)) IN
  /\ engine[x].state # "awaiting_preface"
  /\ Ready(x)
  /\ frame[x] = NoFrame
  /\ Incoming(x) # <<>>
  /\ engine' = [engine EXCEPT ![x] = HandleFrameHeader(@, f), ![Peer(x)] = OutputEnd(@, 1)]
  /\ frame' = [frame EXCEPT ![x] = IF f.len = 0 THEN NoFrame ELSE f]
  /\ UNCHANGED <<payload_bytes_read, body, phase, accepted, delivered, closed>>

MaySplit(f) == ~WaitsForAll(f) /\ ((f.type = "data" /\ ~f.end) \/ SplitEnd)

ReadPayload(x, n, q) ==
  LET whole == payload_bytes_read[x] + n = frame[x].len IN
  /\ frame[x] # NoFrame
  /\ Ready(x)
  /\ whole \/ MaySplit(frame[x])
  /\ engine' = [engine EXCEPT ![x] = HandlePayloadChunk(@, frame[x], n, q)]
  /\ frame' = IF whole THEN [frame EXCEPT ![x] = NoFrame] ELSE frame
  /\ payload_bytes_read' = [payload_bytes_read EXCEPT ![x] = IF whole THEN 0 ELSE @ + n]
  /\ UNCHANGED <<body, phase, accepted, delivered, closed>>

ReadSome(x) ==
  \E n \in 1 .. frame[x].len - payload_bytes_read[x] :
    \E q \in IterationOrders(Woken(engine[x], frame[x])) : ReadPayload(x, n, q)

----------------------------------------------------------------------------
Applications ==
  \/ \E x \in Sides, s \in Streams : SendHeaders(x, s) \/ SendBody(x, s)
  \/ \E x \in Sides : HandleEvent(x)

Transport ==
  \/ ReadPreface
  \/ \E x \in Sides : ReadFrameHeader(x) \/ ReadSome(x)

Next == Open \/ Applications \/ Transport

\* The applications go on with what they started, and the transport delivers;
\* opening a stream is the client's choice.  No step can be undone, so being
\* fair to each group of actions is being fair to each action in it.
Fairness == WF_vars(Applications) /\ WF_vars(Transport)

Spec == Init /\ [][Next]_vars
FairSpec == Spec /\ Fairness

----------------------------------------------------------------------------
\* Every member stays in its type, a read never passes the end of its frame,
\* and no application sends or receives more than the body of the exchange.
TypeOK ==
  /\ frame \in [Sides -> FrameSet]
  /\ \A x \in Sides : payload_bytes_read[x] \in 0 .. frame[x].len
  /\ \A x \in Sides, s \in Streams :
       /\ engine[x].flow[s] \in StreamState
       /\ phase[x][s] \in {"none", "open", "sending", "waiting", "done"}
       /\ accepted[x][s] \in 0 .. BodyOf(x, s)
       /\ delivered[x][s] \in 0 .. BodyOf(Peer(x), s)
  /\ closed \in [Sides -> SUBSET Streams]

\* What is on its way to x: what is left of the frame its parser is in, and
\* the frames that it has not seen.
OnWay(x) ==
  (IF frame[x] = NoFrame THEN <<>>
   ELSE <<[frame[x] EXCEPT !.len = @ - payload_bytes_read[x]]>>) \o Incoming(x)

\* The DATA bytes and the credit that a frame carries for stream s or, with
\* s = 0, for the connection.
DataOf(f, s) == IF f.type = "data" /\ s \in {0, f.stream} THEN f.len ELSE 0
CreditOf(f, s) == IF f.type = "window_update" /\ f.stream = s THEN f.val ELSE 0

Total(q) == FoldLeft(LAMBDA sum, n : sum + n, 0, q)
DataOnWay(x, s) == Total([i \in DOMAIN OnWay(x) |-> DataOf(OnWay(x)[i], s)])
CreditOnWay(x, s) == Total([i \in DOMAIN OnWay(x) |-> CreditOf(OnWay(x)[i], s)])

SettingsSent(e) == e.state \notin {"idle", "awaiting_preface"}

\* The two ends of a window never drift apart: what a receiver still expects
\* is what the sender may still send, plus the DATA and the WINDOW_UPDATEs on
\* the way, plus what SETTINGS not yet applied will add.  Streams the sender
\* has finished are left out: their flow state may already be erased.
ConnectionWindowsAgree(x) ==
  engine[x].connection_recv_window =
    engine[Peer(x)].connection_send_window + DataOnWay(x, 0) + CreditOnWay(Peer(x), 0)
      + IF SettingsSent(engine[x]) THEN 0 ELSE ConnectionBonus(engine[x])

StreamWindowsAgree(x, s) ==
  phase[Peer(x)][s] # "done" =>
    StreamEntry(engine[x], s).recv_window =
      StreamSendWindow(engine[Peer(x)], s) + DataOnWay(x, s) + CreditOnWay(Peer(x), s)
        + engine[x].initial_window_size - engine[Peer(x)].peer_initial_window_size

WindowsAgree ==
  \A x \in Sides : ConnectionWindowsAgree(x) /\ \A s \in Streams : StreamWindowsAgree(x, s)

\* Two engines that both follow the code never accuse each other: no
\* FLOW_CONTROL_ERROR, and no other connection error.
NoConnectionError ==
  \A x \in Sides : \A i \in DOMAIN engine[x].event_queue :
    engine[x].event_queue[i].type # "connection_error"

\* When an application is told a stream is closed it has the whole body.
ClosedMeansComplete ==
  \A x \in Sides : \A s \in closed[x] : delivered[x][s] = BodyOf(Peer(x), s)

\* Every exchange that is started completes on both sides: neither the
\* windows, nor the wakeups, nor the half-window threshold of the
\* WINDOW_UPDATEs can leave the two ends waiting for each other.
Complete(x, s) == s \in closed[x] /\ delivered[x][s] = BodyOf(Peer(x), s)

ExchangesComplete ==
  \A s \in Streams : phase["client"][s] # "none" ~> \A x \in Sides : Complete(x, s)

\* The connected engines implement Exchange: bytes arrive as accepted, and
\* stream_closed comes once, after the last of them.
Promise ==
  INSTANCE Exchange WITH
    Directions <- Sides \X Streams,
    MaxBody    <- Max({b[1] : b \in Bodies} \union {b[2] : b \in Bodies}),
    accepted   <- [d \in Sides \X Streams |-> accepted[d[1]][d[2]]],
    finished   <- [d \in Sides \X Streams |-> phase[d[1]][d[2]] = "done"],
    delivered  <- [d \in Sides \X Streams |-> delivered[Peer(d[1])][d[2]]],
    closed     <- [d \in Sides \X Streams |-> d[2] \in closed[Peer(d[1])]]

ImplementsExchange == Promise!Spec
=============================================================================
