------------------------------- MODULE H2Core -------------------------------
(***************************************************************************)
(* The calls of http::v2::engine as functions from an engine to an engine. *)
(*                                                                         *)
(* The engine performs no I/O and has no threads: every call runs to its   *)
(* end before the next one starts.  An engine is therefore a record with   *)
(* one field per data member and a call is an operator that returns the    *)
(* record the call leaves behind; H2Engine drives one engine against an    *)
(* arbitrary peer and H2Link connects two of them.                         *)
(*                                                                         *)
(* Data is abstracted: a payload is its length, a header block is two      *)
(* units long so that a read can cut it, and a frame is one record         *)
(* whatever its encoding.                                                  *)
(***************************************************************************)
EXTENDS Integers, Sequences, FiniteSets

CONSTANTS
  Streams,    \* the stream identifiers the run uses
  Window,     \* default_initial_window_size_ (65535 in the code)
  MaxFrame    \* max_frame_size of send_data (16384 in the code)

ASSUME StreamsAssumption == IsFiniteSet(Streams) /\ 0 \notin Streams
ASSUME WindowAssumption == Window \in Nat \ {0}
ASSUME MaxFrameAssumption == MaxFrame \in Nat \ {0}

Least(a, b) == IF a <= b THEN a ELSE b
Greatest(a, b) == IF a >= b THEN a ELSE b

----------------------------------------------------------------------------
(* Frames and events.                                                      *)

FrameTypes == {"preface", "data", "headers", "rst_stream", "settings", "settings_ack",
               "goaway", "window_update"}

\* stream 0 is the connection; val is the increment of a WINDOW_UPDATE, the
\* INITIAL_WINDOW_SIZE of a SETTINGS frame, the validity of a GOAWAY.
Frame(type, s, len, end, val) ==
  [type |-> type, stream |-> s, len |-> len, end |-> end, val |-> val]

FrameSet == [type : FrameTypes \union {"none"}, stream : Streams \union {0}, len : Nat,
             end : BOOLEAN, val : Nat]

\* No frame is being read.
NoFrame == Frame("none", 0, 0, FALSE, 0)

Data(s, n, end)      == Frame("data", s, n, end, 0)
Headers(s, end)      == Frame("headers", s, 2, end, 0)
WindowUpdate(s, inc) == Frame("window_update", s, 1, FALSE, inc)
SettingsAck          == Frame("settings_ack", 0, 0, FALSE, 0)
Goaway(val)          == Frame("goaway", 0, 1, FALSE, val)

\* A SETTINGS frame with no entry has no payload; it is sent when
\* set_initial_window_size was never called.
Settings(setting) ==
  Frame("settings", 0, Len(setting), FALSE, IF setting = <<>> THEN 0 ELSE setting[1])

EventTypes == {"headers", "data", "stream_closed", "stream_reset", "connection_error", "goaway",
               "new_stream", "stream_window_available", "connection_window_available"}

Event(type, s, len) == [type |-> type, stream |-> s, len |-> len]

EventSet == [type : EventTypes, stream : Streams \union {0}, len : Nat]

----------------------------------------------------------------------------
(* The engine.                                                             *)

\* stream_flow_states_ is a map; a stream that is not in it is Untracked.
Untracked == [tracked |-> FALSE, known |-> FALSE, send_window |-> 0, recv_window |-> 0,
              consumed_bytes |-> 0]

StreamState == [tracked : BOOLEAN, known : BOOLEAN, send_window : Int, recv_window : Int,
                consumed_bytes : Nat]

EngineStates == {"idle", "preface_sent", "awaiting_preface", "ready"}

EngineSet ==
  [role : {"client", "server"}, state : EngineStates, bad_preface : BOOLEAN,
   next_stream_id : Nat, output_ready_cb : BOOLEAN, had_output : BOOLEAN,
   pending_out : Seq(FrameSet), event_queue : Seq(EventSet), local_settings : Seq(Nat),
   initial_window_size : Nat, connection_consumed : Nat, connection_recv_window : Int,
   connection_send_window : Int, peer_initial_window_size : Nat, goaway_received : BOOLEAN,
   flow : [Streams -> StreamState]]

NewEngine(role, cb) ==
  [role                     |-> role,
   state                    |-> IF role = "server" THEN "awaiting_preface" ELSE "idle",
   bad_preface              |-> FALSE,
   next_stream_id           |-> IF role = "server" THEN 2 ELSE 1,
   output_ready_cb          |-> cb,
   had_output               |-> FALSE,
   pending_out              |-> <<>>,
   event_queue              |-> <<>>,
   local_settings           |-> <<>>,
   initial_window_size      |-> Window,
   connection_consumed      |-> 0,
   connection_recv_window   |-> Window,
   connection_send_window   |-> Window,
   peer_initial_window_size |-> Window,
   goaway_received          |-> FALSE,
   flow                     |-> [s \in Streams |-> Untracked]]

\* maybe_invoke_output_ready after appending frames to pending_out_.
Write(e, frames) ==
  [e EXCEPT !.pending_out = @ \o frames,
            !.had_output = @ \/ e.output_ready_cb]

Emit(e, events) == [e EXCEPT !.event_queue = @ \o events]

\* Mutant: the window given to set_initial_window_size is not used for streams.
StreamEntryDefault(e, s) ==
  IF e.flow[s].tracked
  THEN e.flow[s]
  ELSE [Untracked EXCEPT !.tracked = TRUE,
                         !.send_window = e.peer_initial_window_size,
                         !.recv_window = Window]

StreamEntry(e, s) ==
  IF e.flow[s].tracked
  THEN e.flow[s]
  ELSE [Untracked EXCEPT !.tracked = TRUE,
                         !.send_window = e.peer_initial_window_size,
                         !.recv_window = e.initial_window_size]

GetOrInit(e, s) == [e EXCEPT !.flow[s] = StreamEntry(e, s)]

StreamSendWindow(e, s) ==
  IF e.flow[s].tracked THEN e.flow[s].send_window ELSE e.peer_initial_window_size

Tracked(e) == {s \in Streams : e.flow[s].tracked}

\* Every order in which a walk over the hash map may visit a set of streams.
IterationOrders(S) ==
  {q \in [1 .. Cardinality(S) -> S] : \A i, j \in DOMAIN q : q[i] = q[j] => i = j}

WindowAvailable(q) == [i \in 1 .. Len(q) |-> Event("stream_window_available", q[i], 0)]

----------------------------------------------------------------------------
(* Calls of the application.                                               *)

\* Extra credit a window above the default gives the whole connection.
ConnectionBonus(e) == Greatest(e.initial_window_size - Window, 0)

SetInitialWindowSize(e, size) ==
  [e EXCEPT !.initial_window_size = size,
            !.local_settings = Append(@, size),
            !.connection_recv_window = @ + Greatest(size - Window, 0)]

\* Mutant: the connection is not told of the larger window.
WriteSettingsOnly(e) == Write(e, <<Settings(e.local_settings)>>)

WriteSettings(e) ==
  Write(e, <<Settings(e.local_settings)>> \o
           IF ConnectionBonus(e) > 0 THEN <<WindowUpdate(0, ConnectionBonus(e))>> ELSE <<>>)

WritePreface(e) == Write(e, <<Frame("preface", 0, 0, FALSE, 0)>>)

\* Opens e.next_stream_id.
OpenStream(e) ==
  LET opened == IF e.role = "client" /\ e.state = "idle"
                THEN [WriteSettings(WritePreface(e)) EXCEPT !.state = "preface_sent"]
                ELSE e
      id     == e.next_stream_id
  IN [opened EXCEPT !.next_stream_id = @ + 2,
                    !.flow[id] = [StreamEntry(opened, id) EXCEPT
                                    !.known = TRUE,
                                    !.send_window = opened.peer_initial_window_size]]

SendHeadersFrame(e, s, end) == Write(e, <<Headers(s, end)>>)

\* Mutant: what the caller has is not a limit.
AcceptedAll(e, s, n) ==
  Greatest(0, Least(e.connection_send_window, StreamSendWindow(e, s)))

\* The return value of send_data: how much of n bytes is accepted.
Accepted(e, s, n) ==
  Greatest(0, Least(n, Least(e.connection_send_window, StreamSendWindow(e, s))))

\* Mutant: off by one in the length of the last frame.
DataFramesShort(s, n, end) ==
  LET count == (n + MaxFrame - 1) \div MaxFrame
  IN [i \in 1 .. count |-> Data(s, Least(MaxFrame, n - i * MaxFrame), end /\ i = count)]

DataFrames(s, n, end) ==
  LET count == (n + MaxFrame - 1) \div MaxFrame
  IN [i \in 1 .. count |->
        Data(s, Least(MaxFrame, n - (i - 1) * MaxFrame), end /\ i = count)]

\* Mutant: END_STREAM goes out although the windows cut the body short.
SendDataEndsEarly(e, s, n, end) ==
  LET sent == Accepted(e, s, n)
      out  == Write(e, DataFrames(s, sent, end))
  IN IF sent = 0
     THEN IF n = 0 /\ end THEN Write(e, <<Data(s, 0, TRUE)>>) ELSE e
     ELSE [GetOrInit(out, s) EXCEPT !.connection_send_window = @ - sent,
                                    !.flow[s].send_window = @ - sent]

SendData(e, s, n, end) ==
  LET sent == Accepted(e, s, n)
      out  == Write(e, DataFrames(s, sent, end /\ sent = n))
  IN IF n = 0
     THEN IF end THEN Write(e, <<Data(s, 0, TRUE)>>) ELSE e
     ELSE IF sent = 0
     THEN e
     ELSE [GetOrInit(out, s) EXCEPT !.connection_send_window = @ - sent,
                                    !.flow[s].send_window = @ - sent]

\* The frame is queued like any other, but nothing calls maybe_invoke_output_ready.
SendGoaway(e) == [e EXCEPT !.pending_out = Append(@, Goaway(1))]

NextEvent(e) == [e EXCEPT !.event_queue = Tail(@)]

\* Mutant: the callback is never armed again.
OutputEndStillSignalled(e, k) == [e EXCEPT !.pending_out = SubSeq(@, k + 1, Len(@))]

\* The transport took k frames; had_output_ is re-armed when nothing is left.
OutputEnd(e, k) ==
  [e EXCEPT !.pending_out = SubSeq(@, k + 1, Len(@)),
            !.had_output = @ /\ k < Len(e.pending_out)]

----------------------------------------------------------------------------
(* Frames from the peer: input_end, through the frame parser.              *)

\* input_end while the preface is awaited: invalid bytes are kept in the
\* buffer, so each later call finds and reports them again.
ReceivePreface(e, valid) ==
  IF valid /\ ~e.bad_preface
  THEN [WriteSettings(e) EXCEPT !.state = "ready"]
  ELSE Emit([e EXCEPT !.bad_preface = TRUE], <<Event("connection_error", 0, 0)>>)

\* Mutant: the SETTINGS ACK is queued without maybe_invoke_output_ready.
HandleFrameHeaderSilent(e, f) ==
  IF f.type = "settings" THEN [e EXCEPT !.pending_out = Append(@, SettingsAck)]
  ELSE IF f.end /\ f.len = 0 /\ f.type \in {"data", "headers"}
  THEN Emit(e, <<Event("stream_closed", f.stream, 0)>>)
  ELSE e

HandleFrameHeader(e, f) ==
  IF f.type = "settings" THEN Write(e, <<SettingsAck>>)
  ELSE IF f.end /\ f.len = 0 /\ f.type \in {"data", "headers"}
  THEN Emit(e, <<Event("stream_closed", f.stream, 0)>>)
  ELSE e

\* Mutant: credit is only returned when the whole window is used up.
ThresholdFull(e) == e.initial_window_size

Threshold(e) == e.initial_window_size \div 2

\* Mutant: the credit is announced to the peer but not counted.
CreditConnectionUncounted(e, n) ==
  LET consumed == e.connection_consumed + n
  IN IF consumed >= Threshold(e)
     THEN Write([e EXCEPT !.connection_consumed = 0], <<WindowUpdate(0, consumed)>>)
     ELSE [e EXCEPT !.connection_consumed = consumed]

CreditConnection(e, n) ==
  LET consumed == e.connection_consumed + n
  IN IF consumed >= Threshold(e)
     THEN Write([e EXCEPT !.connection_recv_window = @ + consumed, !.connection_consumed = 0],
                <<WindowUpdate(0, consumed)>>)
     ELSE [e EXCEPT !.connection_consumed = consumed]

CreditStream(e, s, n) ==
  LET consumed == e.flow[s].consumed_bytes + n
  IN IF consumed >= Threshold(e)
     THEN Write([e EXCEPT !.flow[s].recv_window = @ + consumed, !.flow[s].consumed_bytes = 0],
                <<WindowUpdate(s, consumed)>>)
     ELSE [e EXCEPT !.flow[s].consumed_bytes = consumed]

ReceiveBytes(e, s, n) ==
  [GetOrInit(e, s) EXCEPT !.connection_recv_window = @ - n, !.flow[s].recv_window = @ - n]

UpdateFlowControl(e, s, n) ==
  LET received == ReceiveBytes(e, s, n)
  IN IF received.connection_recv_window < 0 \/ received.flow[s].recv_window < 0
     THEN Emit(received, <<Event("connection_error", 0, 0)>>)
     ELSE CreditStream(CreditConnection(received, n), s, n)

\* Mutant: the stream is closed before its data is handed over.
ReceiveDataClosedFirst(e, f, n) ==
  LET closed    == IF f.end THEN Emit(e, <<Event("stream_closed", f.stream, 0)>>) ELSE e
      accounted == UpdateFlowControl(Emit(closed, <<Event("data", f.stream, n)>>), f.stream, n)
  IN IF f.end THEN [accounted EXCEPT !.flow[f.stream] = Untracked] ELSE accounted

\* One chunk of a DATA payload.  The END_STREAM branch runs for every chunk
\* of a frame that carries the flag, not only for the last.
ReceiveData(e, f, n) ==
  LET accounted == UpdateFlowControl(Emit(e, <<Event("data", f.stream, n)>>), f.stream, n)
  IN IF f.end
     THEN Emit([accounted EXCEPT !.flow[f.stream] = Untracked],
               <<Event("stream_closed", f.stream, 0)>>)
     ELSE accounted

\* Mutant: the stream is not marked as known.
ReceiveHeadersForgetful(e, f) ==
  LET isNew == e.role = "server" /\ ~StreamEntry(e, f.stream).known
  IN Emit(GetOrInit(e, f.stream),
          (IF isNew THEN <<Event("new_stream", f.stream, 0)>> ELSE <<>>)
            \o <<Event("headers", f.stream, 0)>>
            \o (IF f.end THEN <<Event("stream_closed", f.stream, 0)>> ELSE <<>>))

\* The first HEADERS of a stream announce it to a server.
Announce(e, s) ==
  LET isNew == e.role = "server" /\ ~StreamEntry(e, s).known
  IN Emit([GetOrInit(e, s) EXCEPT !.flow[s].known = @ \/ isNew],
          IF isNew THEN <<Event("new_stream", s, 0)>> ELSE <<>>)

\* One chunk of a header block.  Each chunk is decoded as if it were the whole
\* block, and END_STREAM is acted on once per chunk.
ReceiveHeaders(e, f) ==
  Emit(Announce(e, f.stream),
       <<Event("headers", f.stream, 0)>>
         \o IF f.end THEN <<Event("stream_closed", f.stream, 0)>> ELSE <<>>)

\* Mutant: a window of exactly 0 does not count as closed.
WokenByConnectionMissed(e, inc) ==
  {s \in Tracked(e) : e.flow[s].send_window > 0
                      /\ e.connection_send_window < 0 /\ e.connection_send_window + inc > 0}

\* Streams that one frame wakes: those whose notify_* call queues an event.
ConnectionOpened(e, inc) == e.connection_send_window <= 0 /\ e.connection_send_window + inc > 0

WokenByConnection(e, inc) ==
  {s \in Tracked(e) : e.flow[s].send_window > 0 /\ ConnectionOpened(e, inc)}

WokenByStream(e, s, inc) ==
  {t \in {s} : /\ e.connection_send_window > 0
               /\ StreamEntry(e, t).send_window <= 0
               /\ StreamEntry(e, t).send_window + inc > 0}

\* Mutant: a window of exactly 0 does not count as blocked.
WokenBySettingsFromNegative(e, size) ==
  {s \in Tracked(e) : /\ e.connection_send_window > 0
                      /\ e.flow[s].send_window < 0
                      /\ e.flow[s].send_window + size - e.peer_initial_window_size > 0}

WokenBySettings(e, size) ==
  {s \in Tracked(e) : /\ e.connection_send_window > 0
                      /\ e.flow[s].send_window <= 0
                      /\ e.flow[s].send_window + size - e.peer_initial_window_size > 0}

Woken(e, f) ==
  CASE f.type = "window_update" /\ f.stream = 0 -> WokenByConnection(e, f.val)
    [] f.type = "window_update" /\ f.stream # 0 -> WokenByStream(e, f.stream, f.val)
    [] f.type = "settings"                      -> WokenBySettings(e, f.val)
    [] OTHER                                    -> {}

\* q is the order in which the woken streams are visited.  A payload shorter
\* than 4 bytes has no effect, as a frame of another type has none.
HandleWindowUpdate(e, f, q) ==
  IF f.val = 0
  THEN Emit(e, <<Event("connection_error", 0, 0)>>)
  ELSE IF f.stream = 0
  THEN Emit([e EXCEPT !.connection_send_window = @ + f.val],
            (IF ConnectionOpened(e, f.val)
             THEN <<Event("connection_window_available", 0, 0)>>
             ELSE <<>>)
              \o WindowAvailable(q))
  ELSE Emit([GetOrInit(e, f.stream) EXCEPT !.flow[f.stream].send_window = @ + f.val],
            WindowAvailable(q))

\* Mutant: the windows of the streams that exist are not adjusted.
ApplyPeerInitialWindowSizeLate(e, size, q) ==
  Emit([e EXCEPT !.peer_initial_window_size = size], WindowAvailable(q))

ApplyPeerInitialWindowSize(e, size, q) ==
  Emit([e EXCEPT !.peer_initial_window_size = size,
                 !.flow = [s \in Streams |->
                             IF e.flow[s].tracked
                             THEN [e.flow[s] EXCEPT
                                     !.send_window = @ + size - e.peer_initial_window_size]
                             ELSE e.flow[s]]],
       WindowAvailable(q))

\* val: 0 shorter than 8 bytes (ignored), 1 well formed, 2 reserved bit set.
HandleGoaway(e, f) ==
  CASE f.val = 0 -> e
    [] f.val = 1 -> Emit([e EXCEPT !.goaway_received = TRUE], <<Event("goaway", 0, 0)>>)
    [] f.val = 2 -> Emit(e, <<Event("connection_error", 0, 0)>>)

\* SETTINGS, GOAWAY and WINDOW_UPDATE are only handled once the whole payload
\* is buffered; of other frames each chunk is handled as it comes.
WaitsForAll(f) == f.type \in {"settings", "goaway", "window_update"}

\* n bytes of the payload of f; if f is a frame that waits, n is f.len.  A
\* SETTINGS frame holds one INITIAL_WINDOW_SIZE and no other entry that counts:
\* the code's loop applies several one after the other, as several frames do.
HandlePayloadChunk(e, f, n, q) ==
  CASE f.type = "data"          -> ReceiveData(e, f, n)
    [] f.type = "headers"       -> ReceiveHeaders(e, f)
    [] f.type = "rst_stream"    -> Emit(e, <<Event("stream_reset", f.stream, 0)>>)
    [] f.type = "settings"      -> ApplyPeerInitialWindowSize(e, f.val, q)
    [] f.type = "goaway"        -> HandleGoaway(e, f)
    [] f.type = "window_update" -> HandleWindowUpdate(e, f, q)
    [] OTHER                    -> e

----------------------------------------------------------------------------
(* What update_flow_control has to keep.                                   *)

\* The window of the connection, and of a stream, plus what was consumed and
\* not yet credited is all that was ever granted; less than a threshold waits.
ConnectionCredit(e) ==
  /\ e.connection_recv_window + e.connection_consumed = Window + ConnectionBonus(e)
  /\ e.connection_consumed < Greatest(1, Threshold(e))

StreamCredit(e, s) ==
  e.flow[s].tracked =>
    /\ e.flow[s].recv_window + e.flow[s].consumed_bytes = e.initial_window_size
    /\ e.flow[s].consumed_bytes < Greatest(1, Threshold(e))

Credited(e) == ConnectionCredit(e) /\ \A s \in Streams : StreamCredit(e, s)
=============================================================================
