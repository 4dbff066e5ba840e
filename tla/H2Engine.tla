------------------------------ MODULE H2Engine ------------------------------
(***************************************************************************)
(* One http::v2::engine between an application and a peer.                 *)
(*                                                                         *)
(* The application opens streams, sends and drains events; the transport   *)
(* takes output and delivers input, cutting a payload wherever a read      *)
(* ends; the peer sends any frame of PeerFrames, and may overrun the       *)
(* windows it was given.                                                   *)
(***************************************************************************)
EXTENDS H2Core

CONSTANTS
  Roles,          \* the values of connection_role the run starts from
  LocalSizes,     \* arguments of set_initial_window_size
  SendSizes,      \* body lengths passed to send_data
  PeerFrames,     \* frames the peer may send
  Goaways,        \* whether the application may call send_goaway
  EventBound,     \* no input is taken while this many events wait
  OutBound,       \* no call or input is made while this many frames wait
  WindowBound     \* the peer raises no send window above this

ASSUME RoleAssumption == Roles \subseteq {"client", "server"}
ASSUME SizesAssumption == LocalSizes \subseteq Nat /\ SendSizes \subseteq Nat

\* The peer keeps to the streams and flags of each frame type; the engine
\* does not check them.
ASSUME PeerAssumption ==
  \A f \in PeerFrames :
    /\ f \in FrameSet
    /\ f.type \in {"data", "headers", "rst_stream"} => f.stream \in Streams
    /\ f.end => f.type \in {"data", "headers"}
    /\ f.type = "goaway" => f.val \in 0 .. 2

VARIABLES
  engine,               \* the engine's members, see H2Core
  frame,                \* frame_parser: header of the frame being read
  payload_bytes_read,   \* frame_parser: how much of its payload was handled
  local,                \* what the application sent on each stream
  blocked,              \* streams whose last send_data was cut short
  credit,               \* what the peer's frames allow to be sent, per stream and on 0
  ended,                \* streams the peer ended or reset
  forgotten,            \* streams whose flow state was erased at END_STREAM
  failed                \* a connection_error was reported, or input_end threw

vars == <<engine, frame, payload_bytes_read, local, blocked, credit, ended, forgotten, failed>>

Init ==
  /\ engine \in {NewEngine(role, cb) : role \in Roles, cb \in BOOLEAN}
  /\ frame = NoFrame
  /\ payload_bytes_read = 0
  /\ local = [s \in Streams |-> "none"]
  /\ blocked = {}
  /\ credit = [s \in Streams \union {0} |-> Window]
  /\ ended = {}
  /\ forgotten = {}
  /\ failed = FALSE

Room == Len(engine.pending_out) < OutBound

----------------------------------------------------------------------------
(* The application.                                                        *)

\* "Must be called before open_stream()"; a second call is not modelled.
SetWindow(size) ==
  /\ engine.state \in {"idle", "awaiting_preface"}
  /\ engine.local_settings = <<>>
  /\ engine' = SetInitialWindowSize(engine, size)
  /\ UNCHANGED <<frame, payload_bytes_read, local, blocked, credit, ended, forgotten, failed>>

Open ==
  /\ engine.role = "client"
  /\ engine.next_stream_id \in Streams
  /\ Room
  /\ engine' = OpenStream(engine)
  /\ local' = [local EXCEPT ![engine.next_stream_id] = "open"]
  /\ UNCHANGED <<frame, payload_bytes_read, blocked, credit, ended, forgotten, failed>>

\* Request headers on an opened stream, response headers on one the client opened.
SendHeaders(s, end) ==
  /\ local[s] = "open"
  /\ Room
  /\ engine' = SendHeadersFrame(engine, s, end)
  /\ local' = [local EXCEPT ![s] = IF end THEN "done" ELSE "headers"]
  /\ UNCHANGED <<frame, payload_bytes_read, blocked, credit, ended, forgotten, failed>>

SendBody(s, n, end) ==
  LET sent  == Accepted(engine, s, n)
      whole == sent = n
  IN
  /\ local[s] = "headers"
  /\ Room
  /\ engine' = SendData(engine, s, n, end)
  /\ blocked' = IF whole THEN blocked \ {s} ELSE blocked \union {s}
  /\ local' = [local EXCEPT ![s] = IF whole /\ end THEN "done" ELSE @]
  /\ credit' = [credit EXCEPT ![s] = @ - sent, ![0] = @ - sent]
  /\ UNCHANGED <<frame, payload_bytes_read, ended, forgotten, failed>>

CloseConnection ==
  /\ Goaways
  /\ engine.state \in {"preface_sent", "ready"}
  /\ Room
  /\ engine' = SendGoaway(engine)
  /\ UNCHANGED <<frame, payload_bytes_read, local, blocked, credit, ended, forgotten, failed>>

DrainEvent ==
  /\ engine.event_queue # <<>>
  /\ engine' = NextEvent(engine)
  /\ LET e == Head(engine.event_queue) IN
       /\ blocked' = IF e.type = "stream_window_available" THEN blocked \ {e.stream} ELSE blocked
       /\ local' = IF e.type = "new_stream" THEN [local EXCEPT ![e.stream] = "open"] ELSE local
  /\ UNCHANGED <<frame, payload_bytes_read, credit, ended, forgotten, failed>>

----------------------------------------------------------------------------
(* The transport.                                                          *)

Transmit(k) ==
  /\ engine' = OutputEnd(engine, k)
  /\ UNCHANGED <<frame, payload_bytes_read, local, blocked, credit, ended, forgotten, failed>>

InputOpen ==
  /\ ~failed
  /\ Room
  /\ Len(engine.event_queue) < EventBound

Preface(valid) ==
  /\ engine.role = "server"
  /\ engine.state = "awaiting_preface"
  /\ InputOpen
  /\ engine' = ReceivePreface(engine, valid)
  /\ failed' = (engine'.state = "awaiting_preface")
  /\ UNCHANGED <<frame, payload_bytes_read, local, blocked, credit, ended, forgotten>>

Closes(f) == f.end \/ f.type = "rst_stream"

\* The peer opens a stream with HEADERS, answers only requests that were
\* made, and sends nothing but credit on a stream it ended.
PeerMaySend(f) ==
  /\ f.type \in {"data", "headers", "rst_stream"} => f.stream \notin ended
  /\ f.stream # 0 /\ f.type # "headers" => local[f.stream] # "none" \/ engine.flow[f.stream].known
  /\ engine.role = "client" /\ f.stream # 0 => local[f.stream] \in {"headers", "done"}
  /\ f.type = "window_update" =>
       f.val + (IF f.stream = 0 THEN engine.connection_send_window
                                ELSE StreamSendWindow(engine, f.stream)) <= WindowBound

\* input_end asks for nothing but the client's preface: a client reads frames
\* before it opened a stream, and so before it wrote its own preface.
ReadFrameHeader(f) ==
  /\ engine.state # "awaiting_preface"
  /\ frame = NoFrame
  /\ InputOpen
  /\ PeerMaySend(f)
  /\ engine' = HandleFrameHeader(engine, f)
  /\ frame' = IF f.len = 0 THEN NoFrame ELSE f
  /\ payload_bytes_read' = 0
  /\ ended' = IF Closes(f) /\ f.len = 0 THEN ended \union {f.stream} ELSE ended
  /\ UNCHANGED <<local, blocked, credit, forgotten, failed>>

\* What a peer that counts as RFC 7540 6.9 says has granted once f is handled.
Granted(f) ==
  CASE f.type = "window_update" -> [credit EXCEPT ![f.stream] = @ + f.val]
    [] f.type = "settings" -> [s \in Streams \union {0} |->
                                 IF s = 0 THEN credit[0]
                                 ELSE credit[s] + f.val - engine.peer_initial_window_size]
    [] OTHER -> credit

\* A chunk of the frame's payload.
ReadPayload(n, q) ==
  LET whole == payload_bytes_read + n = frame.len IN
  /\ frame # NoFrame
  /\ InputOpen
  /\ WaitsForAll(frame) => n = frame.len
  /\ engine' = HandlePayloadChunk(engine, frame, n, q)
  /\ frame' = IF whole THEN NoFrame ELSE frame
  /\ payload_bytes_read' = IF whole THEN 0 ELSE payload_bytes_read + n
  /\ ended' = IF Closes(frame) THEN ended \union {frame.stream} ELSE ended
  /\ forgotten' = IF frame.type = "data" /\ frame.end THEN forgotten \union {frame.stream} ELSE forgotten
  /\ credit' = Granted(frame)
  /\ failed' = \E i \in Len(engine.event_queue) + 1 .. Len(engine'.event_queue) :
                  engine'.event_queue[i].type = "connection_error"
  /\ UNCHANGED <<local, blocked>>

\* A chunk that ends inside a header field cannot be decoded: the exception
\* leaves input_end with the stream announced and the payload unread, and the
\* transport gives the connection up.
DecodeThrows ==
  /\ frame.type = "headers"
  /\ InputOpen
  /\ engine' = Announce(engine, frame.stream)
  /\ failed' = TRUE
  /\ UNCHANGED <<frame, payload_bytes_read, local, blocked, credit, ended, forgotten>>

----------------------------------------------------------------------------
Application ==
  \/ \E size \in LocalSizes : SetWindow(size)
  \/ Open
  \/ \E s \in Streams, end \in BOOLEAN : SendHeaders(s, end)
  \/ \E s \in Streams, n \in SendSizes, end \in BOOLEAN : SendBody(s, n, end)
  \/ CloseConnection
  \/ DrainEvent

Transport ==
  \/ \E k \in 1 .. Len(engine.pending_out) : Transmit(k)
  \/ \E valid \in BOOLEAN : Preface(valid)
  \/ \E f \in PeerFrames : ReadFrameHeader(f)
  \/ \E n \in 1 .. frame.len - payload_bytes_read :
       \E q \in IterationOrders(Woken(engine, frame)) : ReadPayload(n, q)
  \/ DecodeThrows

Next == Application \/ Transport

Spec == Init /\ [][Next]_vars

----------------------------------------------------------------------------
\* Every member stays in its type: no counter wraps below zero and no frame
\* or event names a stream that does not exist.
TypeOK ==
  /\ engine \in EngineSet
  /\ frame \in PeerFrames \union {NoFrame}
  /\ payload_bytes_read \in Nat
  /\ local \in [Streams -> {"none", "open", "headers", "done"}]
  /\ blocked \subseteq Streams
  /\ credit \in [Streams \union {0} -> Int]
  /\ ended \subseteq Streams
  /\ forgotten \subseteq Streams
  /\ failed \in BOOLEAN

\* Until the peer breaks the protocol, no credit is lost: what the peer may
\* still send plus what it sent and was not credited for is all it was ever
\* granted, on the connection and on each stream (update_flow_control).
CreditConserved == ~failed => Credited(engine)

\* The peer is never left without credit: whatever it did so far, it may send
\* at least half a window more, on the connection and on any stream, without
\* waiting for anything (the threshold of update_flow_control).
PeerNeverStarved ==
  ~failed =>
    /\ 2 * engine.connection_recv_window >= engine.initial_window_size
    /\ \A s \in Tracked(engine) : 2 * engine.flow[s].recv_window >= engine.initial_window_size

\* The engine never sends more than the peer granted: DATA leaves only while
\* it fits the windows the peer counts, whatever order of SETTINGS,
\* WINDOW_UPDATE and DATA led there.  Holds on the connection, and on streams
\* the peer has not ended with a DATA frame.
Overruns(s) == credit'[s] < credit[s] /\ frame' = frame /\ credit'[s] < 0

NeverOverruns == [][\A s \in {0} \union (Streams \ forgotten) : ~Overruns(s)]_vars

\* The same on every stream.
NeverOverrunsAnyStream == [][\A s \in {0} \union Streams : ~Overruns(s)]_vars

\* An application that stopped because send_data took less than it offered is
\* told when it can go on: while both windows of the stream are open, its
\* stream_window_available is in the queue.
Sendable(s) == engine.connection_send_window > 0 /\ StreamSendWindow(engine, s) > 0

WakeupQueued(s) ==
  \E i \in DOMAIN engine.event_queue :
    /\ engine.event_queue[i].type = "stream_window_available"
    /\ engine.event_queue[i].stream = s

NoLostWakeup == \A s \in blocked \ forgotten : Sendable(s) => WakeupQueued(s)

\* A transport that waits for the callback finds every frame: when output
\* other than a GOAWAY waits, the callback has fired since the buffer was
\* last empty.
NoStrandedOutput ==
  engine.output_ready_cb /\ (\E i \in DOMAIN engine.pending_out : engine.pending_out[i].type # "goaway")
    => engine.had_output

\* The callback does not fire while it is still armed: not again before
\* output_end drained the buffer.
NoStaleSignal == engine.had_output => engine.pending_out # <<>>

\* The application hears of a stream once, before anything else about it,
\* and never of a stream it opened itself.
Announces(s) == \E i \in DOMAIN engine.event_queue : engine.event_queue[i] = Event("new_stream", s, 0)

NewStreamOnce ==
  \A s \in Streams :
    Announces(s) =>
      /\ local[s] = "none"
      /\ \A i \in DOMAIN engine.event_queue :
           engine.event_queue[i].stream = s =>
             \E j \in 1 .. i : engine.event_queue[j] = Event("new_stream", s, 0)
=============================================================================
