---------------------------- MODULE H2CoreProofs ----------------------------
(***************************************************************************)
(* Lemmas about the calls of H2Core: each maps an engine to an engine, and *)
(* none but the receipt of DATA touches the credit given to the peer; what *)
(* each does to the send windows, to the entries of stream_flow_states_, to*)
(* the event queue, to the output and to the signal that output waits.     *)
(***************************************************************************)
EXTENDS H2Core, FiniteSetTheorems, SequenceTheorems, FunctionTheorems, TLAPS

----------------------------------------------------------------------------
(* Members of an engine, and updates of them.                              *)

\* The type of each member of an engine.
LEMMA MemberTypes ==
  ASSUME NEW e \in EngineSet
  PROVE  /\ e.pending_out \in Seq(FrameSet) /\ e.event_queue \in Seq(EventSet)
         /\ e.local_settings \in Seq(Nat)
         /\ e.had_output \in BOOLEAN /\ e.output_ready_cb \in BOOLEAN
         /\ e.next_stream_id \in Nat /\ e.initial_window_size \in Nat
         /\ e.connection_consumed \in Nat /\ e.peer_initial_window_size \in Nat
         /\ e.connection_recv_window \in Int /\ e.connection_send_window \in Int
         /\ e.flow \in [Streams -> StreamState]
  BY DEF EngineSet

\* The type of each member of a stream_flow_state.
LEMMA FlowTypes ==
  ASSUME NEW e \in EngineSet, NEW s \in Streams
  PROVE  /\ e.flow[s] \in StreamState
         /\ e.flow[s].tracked \in BOOLEAN /\ e.flow[s].known \in BOOLEAN
         /\ e.flow[s].send_window \in Int /\ e.flow[s].recv_window \in Int
         /\ e.flow[s].consumed_bytes \in Nat
  BY MemberTypes DEF StreamState

\* The send side of a flow state can change without its receive side.
LEMMA SetSendSide ==
  ASSUME NEW x \in StreamState, NEW b \in BOOLEAN, NEW w \in Int
  PROVE  /\ [x EXCEPT !.known = b, !.send_window = w] \in StreamState
         /\ [x EXCEPT !.known = b, !.send_window = w].tracked = x.tracked
         /\ [x EXCEPT !.known = b, !.send_window = w].recv_window = x.recv_window
         /\ [x EXCEPT !.known = b, !.send_window = w].consumed_bytes = x.consumed_bytes
  BY DEF StreamState

\* An engine whose event queue is replaced is an engine.
LEMMA SetQueue ==
  ASSUME NEW e \in EngineSet, NEW q \in Seq(EventSet)
  PROVE  [e EXCEPT !.event_queue = q] \in EngineSet
  BY DEF EngineSet

\* An engine whose output buffer is replaced is an engine.
LEMMA SetOutput ==
  ASSUME NEW e \in EngineSet, NEW q \in Seq(FrameSet), NEW b \in BOOLEAN
  PROVE  [e EXCEPT !.pending_out = q, !.had_output = b] \in EngineSet
  BY DEF EngineSet

\* An engine with one stream's flow state replaced is an engine.
LEMMA SetFlow ==
  ASSUME NEW e \in EngineSet, NEW s \in Streams, NEW x \in StreamState
  PROVE  [e EXCEPT !.flow[s] = x] \in EngineSet
  BY DEF EngineSet

\* An engine that opened a stream is an engine.
LEMMA SetNextAndFlow ==
  ASSUME NEW e \in EngineSet, NEW n \in Nat, NEW s \in Streams, NEW x \in StreamState
  PROVE  [e EXCEPT !.next_stream_id = n, !.flow[s] = x] \in EngineSet
  BY DEF EngineSet

----------------------------------------------------------------------------
(* Frames and events.                                                      *)

\* Every frame the engine builds is a frame.
LEMMA FrameTypesOK ==
  ASSUME NEW s \in Streams \union {0}, NEW n \in Nat, NEW end \in BOOLEAN, NEW x \in Nat,
         NEW t \in FrameTypes \union {"none"}
  PROVE  Frame(t, s, n, end, x) \in FrameSet
  BY DEF Frame, FrameSet

\* Every event the engine builds is an event.
LEMMA EventTypesOK ==
  ASSUME NEW t \in EventTypes, NEW s \in Streams \union {0}, NEW n \in Nat
  PROVE  Event(t, s, n) \in EventSet
  BY DEF Event, EventSet

\* A single frame is a sequence of frames.
LEMMA OneFrame ==
  ASSUME NEW f \in FrameSet
  PROVE  <<f>> \in Seq(FrameSet)
  OBVIOUS

\* A single event is a sequence of events.
LEMMA OneEvent ==
  ASSUME NEW ev \in EventSet
  PROVE  <<ev>> \in Seq(EventSet)
  OBVIOUS

\* std::min and std::max return one of their arguments, and bound both.
LEMMA LeastGreatest ==
  ASSUME NEW a \in Int, NEW b \in Int
  PROVE  /\ Least(a, b) \in {a, b} /\ Least(a, b) <= a /\ Least(a, b) <= b
         /\ Greatest(a, b) \in {a, b} /\ Greatest(a, b) >= a /\ Greatest(a, b) >= b
  BY DEF Least, Greatest

\* Cutting n bytes into frames leaves no frame with a negative length.
LEMMA DataFramesType ==
  ASSUME NEW s \in Streams, NEW n \in Nat, NEW end \in BOOLEAN
  PROVE  DataFrames(s, n, end) \in Seq(FrameSet)
<1> DEFINE count == (n + MaxFrame - 1) \div MaxFrame
<1>1. count \in Nat /\ MaxFrame * count <= n + MaxFrame - 1
  BY MaxFrameAssumption
<1>2. ASSUME NEW i \in 1 .. count
      PROVE  Data(s, Least(MaxFrame, n - (i - 1) * MaxFrame), end /\ i = count) \in FrameSet
  <2>1. MaxFrame * i <= MaxFrame * count
    BY <1>1, MaxFrameAssumption
  <2>2. n - (i - 1) * MaxFrame \in Nat
    BY <1>1, <2>1, MaxFrameAssumption
  <2>3. Least(MaxFrame, n - (i - 1) * MaxFrame) \in Nat
    BY <2>2, LeastGreatest, MaxFrameAssumption
  <2>4. (end /\ i = count) \in BOOLEAN
    OBVIOUS
  <2> QED  BY <2>3, <2>4, FrameTypesOK DEF Data, FrameTypes
<1> QED  BY <1>1, <1>2 DEF DataFrames

\* Whatever order the hash map is walked in, it yields a sequence of streams.
LEMMA IterationOrdersType ==
  ASSUME NEW S \in SUBSET Streams, NEW q \in IterationOrders(S)
  PROVE  q \in Seq(Streams) /\ WindowAvailable(q) \in Seq(EventSet)
<1>1. Cardinality(S) \in Nat
  BY StreamsAssumption, FS_Subset, FS_CardinalityType
<1>2. q \in [1 .. Cardinality(S) -> Streams]
  BY DEF IterationOrders
<1>3. q \in Seq(Streams) /\ Len(q) \in Nat
  BY <1>1, <1>2
<1>4. \A i \in 1 .. Len(q) : Event("stream_window_available", q[i], 0) \in EventSet
  BY <1>3, EventTypesOK DEF EventTypes
<1> QED  BY <1>3, <1>4 DEF WindowAvailable

----------------------------------------------------------------------------
(* The calls, by type and by what they leave alone.                        *)

\* f differs from e in neither the role nor any credit given to the peer,
\* except that flow states may be created or forgotten.
KeepsCredit(e, f) ==
  /\ f.role = e.role
  /\ f.connection_recv_window = e.connection_recv_window
  /\ f.connection_consumed = e.connection_consumed
  /\ f.initial_window_size = e.initial_window_size
  /\ \A s \in Streams :
       \/ ~f.flow[s].tracked
       \/ f.flow[s].recv_window = e.initial_window_size /\ f.flow[s].consumed_bytes = 0
       \/ /\ e.flow[s].tracked
          /\ f.flow[s].recv_window = e.flow[s].recv_window
          /\ f.flow[s].consumed_bytes = e.flow[s].consumed_bytes

\* Setup(e): the application may still call set_initial_window_size.
Setup(e) == e.state \in {"idle", "awaiting_preface"}

\* Two calls that keep the credit keep it together.
LEMMA KeepsCreditTransitive ==
  ASSUME NEW e \in EngineSet, NEW f \in EngineSet, NEW g \in EngineSet,
         KeepsCredit(e, f), KeepsCredit(f, g)
  PROVE  KeepsCredit(e, g)
  BY DEF KeepsCredit

\* Queueing output touches the output buffer only.
LEMMA WriteLemma ==
  ASSUME NEW e \in EngineSet, NEW frames \in Seq(FrameSet)
  PROVE  /\ Write(e, frames) \in EngineSet
         /\ KeepsCredit(e, Write(e, frames))
         /\ Write(e, frames).state = e.state
         /\ Write(e, frames).flow = e.flow
         /\ Write(e, frames).event_queue = e.event_queue
         /\ Write(e, frames).next_stream_id = e.next_stream_id
         /\ Write(e, frames).peer_initial_window_size = e.peer_initial_window_size
         /\ Write(e, frames).connection_send_window = e.connection_send_window
<1>1. e.pending_out \o frames \in Seq(FrameSet)
  BY MemberTypes
<1>2. (e.had_output \/ e.output_ready_cb) \in BOOLEAN
  OBVIOUS
<1>3. Write(e, frames) \in EngineSet
  BY <1>1, <1>2, SetOutput DEF Write
<1> QED  BY <1>3, FlowTypes DEF Write, KeepsCredit, EngineSet

\* Queueing events touches the event queue only.
LEMMA EmitLemma ==
  ASSUME NEW e \in EngineSet, NEW events \in Seq(EventSet)
  PROVE  /\ Emit(e, events) \in EngineSet
         /\ KeepsCredit(e, Emit(e, events))
         /\ Emit(e, events).state = e.state
         /\ Emit(e, events).flow = e.flow
         /\ Emit(e, events).event_queue = e.event_queue \o events
<1>1. e.event_queue \o events \in Seq(EventSet)
  BY MemberTypes
<1>2. Emit(e, events) \in EngineSet
  BY <1>1, SetQueue DEF Emit
<1>3. Emit(e, events).flow = e.flow /\ Emit(e, events).event_queue = e.event_queue \o events
  BY DEF Emit, EngineSet
<1>4. KeepsCredit(e, Emit(e, events)) /\ Emit(e, events).state = e.state
  BY DEF Emit, KeepsCredit, EngineSet
<1> QED  BY <1>2, <1>3, <1>4

\* The same for a single event.
LEMMA EmitOne ==
  ASSUME NEW e \in EngineSet, NEW ev \in EventSet
  PROVE  /\ Emit(e, <<ev>>) \in EngineSet
         /\ KeepsCredit(e, Emit(e, <<ev>>))
         /\ Emit(e, <<ev>>).state = e.state
<1>1. <<ev>> \in Seq(EventSet)
  BY OneEvent
<1> QED  BY <1>1, EmitLemma

\* A stream without flow state starts with the whole window and nothing consumed.
LEMMA StreamEntryLemma ==
  ASSUME NEW e \in EngineSet, NEW s \in Streams
  PROVE  /\ StreamEntry(e, s) \in StreamState
         /\ StreamEntry(e, s).tracked
         /\ e.flow[s].tracked => StreamEntry(e, s) = e.flow[s]
         /\ ~e.flow[s].tracked => /\ StreamEntry(e, s).recv_window = e.initial_window_size
                                  /\ StreamEntry(e, s).consumed_bytes = 0
<1>1. CASE e.flow[s].tracked
  BY <1>1, FlowTypes DEF StreamEntry
<1>2. CASE ~e.flow[s].tracked
  <2> DEFINE fresh == [Untracked EXCEPT !.tracked = TRUE,
                                        !.send_window = e.peer_initial_window_size,
                                        !.recv_window = e.initial_window_size]
  <2>1. StreamEntry(e, s) = fresh
    BY <1>2 DEF StreamEntry
  <2>2. e.peer_initial_window_size \in Int /\ e.initial_window_size \in Int
    BY MemberTypes
  <2>3. /\ fresh \in StreamState /\ fresh.tracked
        /\ fresh.recv_window = e.initial_window_size /\ fresh.consumed_bytes = 0
    BY <2>2 DEF Untracked, StreamState
  <2> QED  BY <1>2, <2>1, <2>3
<1> QED  BY <1>1, <1>2

\* A flow state that is created or whose send side changes.
LEMMA FlowLemma ==
  ASSUME NEW e \in EngineSet, NEW s \in Streams, NEW x \in StreamState,
         \/ ~x.tracked
         \/ /\ x.recv_window = StreamEntry(e, s).recv_window
            /\ x.consumed_bytes = StreamEntry(e, s).consumed_bytes
  PROVE  /\ [e EXCEPT !.flow[s] = x] \in EngineSet
         /\ KeepsCredit(e, [e EXCEPT !.flow[s] = x])
<1>1. [e EXCEPT !.flow[s] = x] \in EngineSet
  BY SetFlow
<1>2. ASSUME NEW t \in Streams
      PROVE  [e EXCEPT !.flow[s] = x].flow[t] = IF t = s THEN x ELSE e.flow[t]
  BY DEF EngineSet
<1>3. \A t \in Streams :
        \/ ~[e EXCEPT !.flow[s] = x].flow[t].tracked
        \/ /\ [e EXCEPT !.flow[s] = x].flow[t].recv_window = e.initial_window_size
           /\ [e EXCEPT !.flow[s] = x].flow[t].consumed_bytes = 0
        \/ /\ e.flow[t].tracked
           /\ [e EXCEPT !.flow[s] = x].flow[t].recv_window = e.flow[t].recv_window
           /\ [e EXCEPT !.flow[s] = x].flow[t].consumed_bytes = e.flow[t].consumed_bytes
  BY <1>2, StreamEntryLemma, FlowTypes
<1> QED  BY <1>1, <1>3 DEF KeepsCredit, EngineSet

\* get_or_init_stream_flow_state creates one flow state and changes no other.
LEMMA GetOrInitLemma ==
  ASSUME NEW e \in EngineSet, NEW s \in Streams
  PROVE  /\ GetOrInit(e, s) \in EngineSet
         /\ KeepsCredit(e, GetOrInit(e, s))
         /\ GetOrInit(e, s).state = e.state
         /\ GetOrInit(e, s).flow[s] = StreamEntry(e, s)
         /\ \A t \in Streams \ {s} : GetOrInit(e, s).flow[t] = e.flow[t]
<1>1. GetOrInit(e, s) \in EngineSet /\ KeepsCredit(e, GetOrInit(e, s))
  BY StreamEntryLemma, FlowLemma DEF GetOrInit
<1> QED  BY <1>1 DEF GetOrInit, EngineSet

----------------------------------------------------------------------------
(* Calls of the application.                                               *)

\* The SETTINGS frame the engine writes is a frame.
LEMMA SettingsType ==
  ASSUME NEW setting \in Seq(Nat)
  PROVE  Settings(setting) \in FrameSet
<1>1. (IF setting = <<>> THEN 0 ELSE setting[1]) \in Nat
  OBVIOUS
<1>2. Len(setting) \in Nat /\ "settings" \in FrameTypes
  BY DEF FrameTypes
<1> QED  BY <1>1, <1>2, FrameTypesOK DEF Settings

\* write_settings announces the windows without changing them.
LEMMA WriteSettingsLemma ==
  ASSUME NEW e \in EngineSet
  PROVE  /\ WriteSettings(e) \in EngineSet
         /\ KeepsCredit(e, WriteSettings(e))
         /\ WriteSettings(e).state = e.state
         /\ WriteSettings(e).event_queue = e.event_queue
         /\ WriteSettings(e).flow = e.flow
         /\ WriteSettings(e).next_stream_id = e.next_stream_id
         /\ WriteSettings(e).peer_initial_window_size = e.peer_initial_window_size
<1>1. ConnectionBonus(e) \in Nat
  BY MemberTypes, WindowAssumption, LeastGreatest DEF ConnectionBonus
<1>2. WindowUpdate(0, ConnectionBonus(e)) \in FrameSet
  BY <1>1, FrameTypesOK DEF WindowUpdate, FrameTypes
<1>3. Settings(e.local_settings) \in FrameSet
  BY MemberTypes, SettingsType
<1>4. <<Settings(e.local_settings)>> \o
        (IF ConnectionBonus(e) > 0 THEN <<WindowUpdate(0, ConnectionBonus(e))>> ELSE <<>>)
        \in Seq(FrameSet)
  BY <1>2, <1>3
<1> QED  BY <1>4, WriteLemma DEF WriteSettings

\* A change of state_ touches nothing else.
LEMMA SetState ==
  ASSUME NEW e \in EngineSet, NEW x \in EngineStates
  PROVE  /\ [e EXCEPT !.state = x] \in EngineSet
         /\ KeepsCredit(e, [e EXCEPT !.state = x])
         /\ [e EXCEPT !.state = x].state = x
         /\ [e EXCEPT !.state = x].event_queue = e.event_queue
         /\ [e EXCEPT !.state = x].flow = e.flow
         /\ [e EXCEPT !.state = x].next_stream_id = e.next_stream_id
         /\ [e EXCEPT !.state = x].peer_initial_window_size = e.peer_initial_window_size
<1>1. [e EXCEPT !.state = x] \in EngineSet
  BY DEF EngineSet
<1>2. /\ [e EXCEPT !.state = x].state = x
      /\ [e EXCEPT !.state = x].event_queue = e.event_queue
      /\ [e EXCEPT !.state = x].flow = e.flow
      /\ [e EXCEPT !.state = x].next_stream_id = e.next_stream_id
      /\ [e EXCEPT !.state = x].peer_initial_window_size = e.peer_initial_window_size
  BY DEF EngineSet
<1> QED  BY <1>1, <1>2 DEF KeepsCredit, EngineSet

\* The first stream a client opens starts the connection.
LEMMA OpenStreamLemma ==
  ASSUME NEW e \in EngineSet, e.next_stream_id \in Streams
  PROVE  /\ OpenStream(e) \in EngineSet
         /\ KeepsCredit(e, OpenStream(e))
         /\ OpenStream(e).state = IF e.role = "client" /\ e.state = "idle" THEN "preface_sent"
                                                                           ELSE e.state
<1> DEFINE started == [WriteSettings(WritePreface(e)) EXCEPT !.state = "preface_sent"]
           opened  == IF e.role = "client" /\ e.state = "idle" THEN started ELSE e
           id      == e.next_stream_id
           x       == [StreamEntry(opened, id) EXCEPT !.known = TRUE,
                                                      !.send_window = opened.peer_initial_window_size]
           g       == [opened EXCEPT !.next_stream_id = @ + 2, !.flow[id] = x]
<1>1. Frame("preface", 0, 0, FALSE, 0) \in FrameSet
  BY FrameTypesOK DEF FrameTypes
<1>2. WritePreface(e) \in EngineSet /\ KeepsCredit(e, WritePreface(e))
  BY <1>1, OneFrame, WriteLemma DEF WritePreface
<1>3. WriteSettings(WritePreface(e)) \in EngineSet /\ KeepsCredit(e, WriteSettings(WritePreface(e)))
  BY <1>2, WriteSettingsLemma, KeepsCreditTransitive
<1>4. started \in EngineSet /\ KeepsCredit(e, started) /\ started.state = "preface_sent"
  BY <1>2, <1>3, SetState, KeepsCreditTransitive DEF EngineStates
<1>5. KeepsCredit(e, e)
  BY DEF KeepsCredit
<1>6. opened \in EngineSet /\ KeepsCredit(e, opened)
  BY <1>4, <1>5
<1> HIDE DEF opened
<1>7. StreamEntry(opened, id) \in StreamState /\ opened.peer_initial_window_size \in Int
  BY <1>6, MemberTypes, StreamEntryLemma
<1>8. /\ x \in StreamState
      /\ x.recv_window = StreamEntry(opened, id).recv_window
      /\ x.consumed_bytes = StreamEntry(opened, id).consumed_bytes
  BY <1>7, SetSendSide
<1> DEFINE f == [opened EXCEPT !.flow[id] = x]
<1> HIDE DEF x
<1>9. f \in EngineSet /\ KeepsCredit(opened, f)
  BY <1>6, <1>8, FlowLemma
<1>10. g \in EngineSet
  <2>1. opened.next_stream_id + 2 \in Nat /\ id \in Streams
    BY <1>6, MemberTypes
  <2> QED  BY <1>6, <1>8, <2>1, SetNextAndFlow
<1>11. /\ g.state = opened.state /\ g.role = f.role /\ g.flow = f.flow
       /\ g.connection_recv_window = f.connection_recv_window
       /\ g.connection_consumed = f.connection_consumed
       /\ g.initial_window_size = f.initial_window_size
  BY <1>6 DEF EngineSet
<1>12. KeepsCredit(opened, g)
  BY <1>9, <1>11 DEF KeepsCredit
<1>13. KeepsCredit(e, g)
  BY <1>6, <1>10, <1>12, KeepsCreditTransitive
<1>14. OpenStream(e) = g
  BY DEF OpenStream, opened, x
<1> QED  BY <1>4, <1>10, <1>11, <1>13, <1>14 DEF opened

\* send_headers_frame queues one frame.
LEMMA SendHeadersLemma ==
  ASSUME NEW e \in EngineSet, NEW s \in Streams, NEW end \in BOOLEAN
  PROVE  /\ SendHeadersFrame(e, s, end) \in EngineSet
         /\ KeepsCredit(e, SendHeadersFrame(e, s, end))
         /\ SendHeadersFrame(e, s, end).state = e.state
<1>1. Headers(s, end) \in FrameSet
  BY FrameTypesOK DEF Headers, FrameTypes
<1> QED  BY <1>1, OneFrame, WriteLemma DEF SendHeadersFrame

\* send_data accepts no more than it was given, and never a negative amount.
LEMMA AcceptedType ==
  ASSUME NEW e \in EngineSet, NEW s \in Streams, NEW n \in Nat
  PROVE  Accepted(e, s, n) \in Nat /\ Accepted(e, s, n) <= n
<1>1. StreamSendWindow(e, s) \in Int /\ e.connection_send_window \in Int
  BY MemberTypes, FlowTypes DEF StreamSendWindow
<1>2. Least(e.connection_send_window, StreamSendWindow(e, s)) \in Int
  BY <1>1, LeastGreatest
<1> DEFINE m == Least(n, Least(e.connection_send_window, StreamSendWindow(e, s)))
<1>3. m \in Int /\ m <= n
  BY <1>2, LeastGreatest
<1>4. Greatest(0, m) \in Nat /\ Greatest(0, m) <= n
  BY <1>3, LeastGreatest
<1> QED  BY <1>4 DEF Accepted

Spend(e, s, v, w) == [e EXCEPT !.connection_send_window = v, !.flow[s].send_window = w]

\* What send_data takes from the send windows is no credit of the peer.
LEMMA SpendLemma ==
  ASSUME NEW e \in EngineSet, NEW s \in Streams, NEW v \in Int, NEW w \in Int
  PROVE  /\ Spend(e, s, v, w) \in EngineSet
         /\ KeepsCredit(e, Spend(e, s, v, w))
         /\ Spend(e, s, v, w).state = e.state
<1> DEFINE x == [e.flow[s] EXCEPT !.send_window = w]
           g == [e EXCEPT !.connection_send_window = v, !.flow[s] = x]
<1>1. /\ x \in StreamState /\ x.tracked = e.flow[s].tracked
      /\ x.recv_window = e.flow[s].recv_window /\ x.consumed_bytes = e.flow[s].consumed_bytes
  BY FlowTypes DEF StreamState
<1>2. Spend(e, s, v, w) = g
  BY DEF Spend
<1> HIDE DEF x
<1>3. g \in EngineSet
  BY <1>1 DEF EngineSet
<1>4. /\ g.state = e.state /\ g.role = e.role
      /\ g.connection_recv_window = e.connection_recv_window
      /\ g.connection_consumed = e.connection_consumed
      /\ g.initial_window_size = e.initial_window_size
  BY DEF EngineSet
<1>5. \A t \in Streams : g.flow[t] = IF t = s THEN x ELSE e.flow[t]
  BY DEF EngineSet
<1>6. KeepsCredit(e, g)
  BY <1>1, <1>4, <1>5, FlowTypes DEF KeepsCredit
<1> QED  BY <1>2, <1>3, <1>4, <1>6

\* send_data changes the send windows and the output buffer only.
LEMMA SendDataLemma ==
  ASSUME NEW e \in EngineSet, NEW s \in Streams, NEW n \in Nat, NEW end \in BOOLEAN
  PROVE  /\ SendData(e, s, n, end) \in EngineSet
         /\ KeepsCredit(e, SendData(e, s, n, end))
         /\ SendData(e, s, n, end).state = e.state
<1> DEFINE sent == Accepted(e, s, n)
           all  == end /\ sent = n
           out  == Write(e, DataFrames(s, sent, all))
           g    == GetOrInit(out, s)
           h    == [g EXCEPT !.connection_send_window = @ - sent, !.flow[s].send_window = @ - sent]
<1>1. sent \in Nat
  BY AcceptedType
<1>2. all \in BOOLEAN
  OBVIOUS
<1>3. Data(s, 0, TRUE) \in FrameSet
  BY FrameTypesOK DEF Data, FrameTypes
<1>4. KeepsCredit(e, e)
  BY DEF KeepsCredit
<1>5. CASE n = 0
  BY <1>3, <1>4, <1>5, OneFrame, WriteLemma DEF SendData
<1>6. CASE n # 0 /\ sent = 0
  BY <1>4, <1>6 DEF SendData
<1>7. CASE n # 0 /\ sent # 0
  <2> HIDE DEF sent, all
  <2>1. DataFrames(s, sent, all) \in Seq(FrameSet)
    BY <1>1, <1>2, DataFramesType
  <2>2. out \in EngineSet /\ KeepsCredit(e, out) /\ out.state = e.state
    BY <2>1, WriteLemma
  <2> HIDE DEF out
  <2>3. g \in EngineSet /\ KeepsCredit(e, g) /\ g.state = e.state
    BY <2>2, GetOrInitLemma, KeepsCreditTransitive
  <2> HIDE DEF g
  <2>4. g.connection_send_window - sent \in Int /\ g.flow[s].send_window - sent \in Int
    BY <1>1, <2>3, MemberTypes, FlowTypes
  <2>5. h \in EngineSet /\ KeepsCredit(g, h) /\ h.state = g.state
    <3> DEFINE v == g.connection_send_window - sent
               w == g.flow[s].send_window - sent
    <3>1. h = Spend(g, s, v, w)
      BY DEF Spend
    <3>2. v \in Int /\ w \in Int
      BY <2>4
    <3> HIDE DEF v, w, h
    <3> QED  BY <2>3, <3>1, <3>2, SpendLemma
  <2>6. KeepsCredit(e, h)
    BY <2>3, <2>5, KeepsCreditTransitive
  <2>7. SendData(e, s, n, end) = h
    BY <1>7 DEF SendData, sent, all, out, g
  <2> QED  BY <2>3, <2>5, <2>6, <2>7
<1> QED  BY <1>5, <1>6, <1>7

\* send_goaway queues one frame.
LEMMA SendGoawayLemma ==
  ASSUME NEW e \in EngineSet
  PROVE  /\ SendGoaway(e) \in EngineSet
         /\ KeepsCredit(e, SendGoaway(e))
         /\ SendGoaway(e).state = e.state
<1>1. Goaway(1) \in FrameSet
  BY FrameTypesOK DEF Goaway, FrameTypes
<1>2. Append(e.pending_out, Goaway(1)) \in Seq(FrameSet)
  BY <1>1, MemberTypes
<1>3. SendGoaway(e) \in EngineSet
  BY <1>2 DEF SendGoaway, EngineSet
<1> QED  BY <1>3, FlowTypes DEF SendGoaway, KeepsCredit, EngineSet

\* next_event takes the first event and changes nothing else.
LEMMA NextEventLemma ==
  ASSUME NEW e \in EngineSet, e.event_queue # <<>>
  PROVE  /\ NextEvent(e) \in EngineSet
         /\ KeepsCredit(e, NextEvent(e))
         /\ NextEvent(e).state = e.state
         /\ NextEvent(e).flow = e.flow
         /\ NextEvent(e).local_settings = e.local_settings
         /\ NextEvent(e).event_queue = Tail(e.event_queue)
<1>1. Tail(e.event_queue) \in Seq(EventSet)
  BY MemberTypes
<1>2. NextEvent(e) \in EngineSet
  BY <1>1, SetQueue DEF NextEvent
<1>3. /\ NextEvent(e).state = e.state /\ NextEvent(e).flow = e.flow
      /\ NextEvent(e).local_settings = e.local_settings
      /\ NextEvent(e).event_queue = Tail(e.event_queue)
  BY DEF NextEvent, EngineSet
<1> QED  BY <1>2, <1>3, FlowTypes DEF NextEvent, KeepsCredit, EngineSet

\* output_end drops output and changes nothing else but had_output_.
LEMMA OutputEndLemma ==
  ASSUME NEW e \in EngineSet, NEW k \in 1 .. Len(e.pending_out)
  PROVE  /\ OutputEnd(e, k) \in EngineSet
         /\ KeepsCredit(e, OutputEnd(e, k))
         /\ OutputEnd(e, k).state = e.state
         /\ OutputEnd(e, k).flow = e.flow
         /\ OutputEnd(e, k).local_settings = e.local_settings
         /\ OutputEnd(e, k).event_queue = e.event_queue
<1>1. SubSeq(e.pending_out, k + 1, Len(e.pending_out)) \in Seq(FrameSet)
  BY MemberTypes
<1>2. (e.had_output /\ k < Len(e.pending_out)) \in BOOLEAN
  OBVIOUS
<1>3. OutputEnd(e, k) \in EngineSet
  BY <1>1, <1>2, SetOutput DEF OutputEnd
<1>4. /\ OutputEnd(e, k).state = e.state /\ OutputEnd(e, k).flow = e.flow
      /\ OutputEnd(e, k).local_settings = e.local_settings
      /\ OutputEnd(e, k).event_queue = e.event_queue
  BY DEF OutputEnd, EngineSet
<1> QED  BY <1>3, <1>4, FlowTypes DEF OutputEnd, KeepsCredit, EngineSet

----------------------------------------------------------------------------
(* Frames from the peer, DATA excepted.                                    *)

\* A change of one stream's flow state that leaves its receive side alone.
ReplaceFlow(e, s, x) == [e EXCEPT !.flow[s] = x]

\* Replacing a flow state by one with the same receive side, or none, keeps the credit.
LEMMA ReplaceFlowLemma ==
  ASSUME NEW e \in EngineSet, NEW s \in Streams, NEW x \in StreamState,
         \/ ~x.tracked
         \/ /\ x.recv_window = e.flow[s].recv_window
            /\ x.consumed_bytes = e.flow[s].consumed_bytes
            /\ e.flow[s].tracked
  PROVE  /\ ReplaceFlow(e, s, x) \in EngineSet
         /\ KeepsCredit(e, ReplaceFlow(e, s, x))
         /\ ReplaceFlow(e, s, x).state = e.state
         /\ ReplaceFlow(e, s, x).event_queue = e.event_queue
<1>1. ReplaceFlow(e, s, x) \in EngineSet /\ KeepsCredit(e, ReplaceFlow(e, s, x))
  BY FlowLemma, StreamEntryLemma DEF ReplaceFlow
<1> QED  BY <1>1 DEF ReplaceFlow, EngineSet

\* The preface makes a server ready, or is refused with a connection_error.
LEMMA ReceivePrefaceLemma ==
  ASSUME NEW e \in EngineSet, NEW valid \in BOOLEAN
  PROVE  /\ ReceivePreface(e, valid) \in EngineSet
         /\ KeepsCredit(e, ReceivePreface(e, valid))
         /\ \/ ReceivePreface(e, valid).state = "ready"
            \/ /\ ReceivePreface(e, valid).state = e.state
               /\ ReceivePreface(e, valid).flow = e.flow
               /\ ReceivePreface(e, valid).local_settings = e.local_settings
               /\ ReceivePreface(e, valid).event_queue
                    = Append(e.event_queue, Event("connection_error", 0, 0))
<1> DEFINE ready == [WriteSettings(e) EXCEPT !.state = "ready"]
           bad   == [e EXCEPT !.bad_preface = TRUE]
           error == Event("connection_error", 0, 0)
<1>1. ready \in EngineSet /\ KeepsCredit(e, ready) /\ ready.state = "ready"
  <2>1. WriteSettings(e) \in EngineSet /\ KeepsCredit(e, WriteSettings(e))
    BY WriteSettingsLemma
  <2> QED  BY <2>1, SetState, KeepsCreditTransitive DEF EngineStates
<1>2. error \in EventSet
  BY EventTypesOK DEF EventTypes
<1>3. /\ bad \in EngineSet /\ bad.state = e.state /\ bad.flow = e.flow
      /\ bad.event_queue = e.event_queue /\ bad.local_settings = e.local_settings
  BY DEF EngineSet
<1>4. KeepsCredit(e, bad)
  BY FlowTypes DEF KeepsCredit, EngineSet
<1> HIDE DEF bad
<1>5. /\ Emit(bad, <<error>>) \in EngineSet /\ KeepsCredit(e, Emit(bad, <<error>>))
      /\ Emit(bad, <<error>>).state = e.state /\ Emit(bad, <<error>>).flow = e.flow
      /\ Emit(bad, <<error>>).event_queue = e.event_queue \o <<error>>
  BY <1>2, <1>3, <1>4, OneEvent, EmitLemma, KeepsCreditTransitive
<1>6. Emit(bad, <<error>>).local_settings = e.local_settings
  BY <1>3 DEF Emit, EngineSet
<1>7. e.event_queue \o <<error>> = Append(e.event_queue, error)
  BY <1>2, MemberTypes
<1> QED  BY <1>1, <1>5, <1>6, <1>7 DEF ReceivePreface, bad

\* A frame header queues a SETTINGS ACK or closes a stream.
LEMMA HandleFrameHeaderLemma ==
  ASSUME NEW e \in EngineSet, NEW f \in FrameSet
  PROVE  /\ HandleFrameHeader(e, f) \in EngineSet
         /\ KeepsCredit(e, HandleFrameHeader(e, f))
         /\ HandleFrameHeader(e, f).state = e.state
<1>1. SettingsAck \in FrameSet
  BY FrameTypesOK DEF SettingsAck, FrameTypes
<1>2. Event("stream_closed", f.stream, 0) \in EventSet
  BY EventTypesOK DEF EventTypes, FrameSet
<1>3. KeepsCredit(e, e)
  BY DEF KeepsCredit
<1> QED  BY <1>1, <1>2, <1>3, OneFrame, OneEvent, WriteLemma, EmitLemma DEF HandleFrameHeader

\* Announcing a stream creates its flow state and queues an event.
LEMMA AnnounceLemma ==
  ASSUME NEW e \in EngineSet, NEW s \in Streams
  PROVE  /\ Announce(e, s) \in EngineSet
         /\ KeepsCredit(e, Announce(e, s))
         /\ Announce(e, s).state = e.state
<1> DEFINE isNew  == e.role = "server" /\ ~StreamEntry(e, s).known
           g      == GetOrInit(e, s)
           x      == [g.flow[s] EXCEPT !.known = @ \/ isNew]
           opened == [g EXCEPT !.flow[s].known = @ \/ isNew]
           events == IF isNew THEN <<Event("new_stream", s, 0)>> ELSE <<>>
<1>1. events \in Seq(EventSet)
  <2>1. Event("new_stream", s, 0) \in EventSet
    BY EventTypesOK DEF EventTypes
  <2> QED  BY <2>1
<1>2. /\ g \in EngineSet /\ KeepsCredit(e, g) /\ g.state = e.state /\ g.flow[s].tracked
  BY GetOrInitLemma, StreamEntryLemma
<1>3. /\ x \in StreamState /\ x.recv_window = g.flow[s].recv_window
      /\ x.consumed_bytes = g.flow[s].consumed_bytes
  <2>1. (g.flow[s].known \/ isNew) \in BOOLEAN
    OBVIOUS
  <2> DEFINE b == g.flow[s].known \/ isNew
             y == g.flow[s]
  <2>2. y \in StreamState
    BY <1>2, FlowTypes
  <2>3. x = [y EXCEPT !.known = b]
    OBVIOUS
  <2> HIDE DEF b, y, x
  <2>4. x \in StreamState /\ x.recv_window = y.recv_window /\ x.consumed_bytes = y.consumed_bytes
    BY <2>1, <2>2, <2>3 DEF StreamState, b
  <2> QED  BY <2>4 DEF y
<1>4. opened = ReplaceFlow(g, s, x)
  BY DEF ReplaceFlow
<1>5. Announce(e, s) = Emit(opened, events)
  BY DEF Announce
<1> HIDE DEF x, g, opened, isNew, events
<1>6. opened \in EngineSet /\ KeepsCredit(e, opened) /\ opened.state = e.state
  BY <1>2, <1>3, <1>4, ReplaceFlowLemma, KeepsCreditTransitive
<1> QED  BY <1>1, <1>5, <1>6, EmitLemma, KeepsCreditTransitive

\* HEADERS announce the stream and queue events.
LEMMA ReceiveHeadersLemma ==
  ASSUME NEW e \in EngineSet, NEW f \in FrameSet, f.stream \in Streams
  PROVE  /\ ReceiveHeaders(e, f) \in EngineSet
         /\ KeepsCredit(e, ReceiveHeaders(e, f))
         /\ ReceiveHeaders(e, f).state = e.state
<1> DEFINE g      == Announce(e, f.stream)
           events == <<Event("headers", f.stream, 0)>>
                       \o IF f.end THEN <<Event("stream_closed", f.stream, 0)>> ELSE <<>>
<1>1. events \in Seq(EventSet)
  <2>1. /\ Event("headers", f.stream, 0) \in EventSet
        /\ Event("stream_closed", f.stream, 0) \in EventSet
    BY EventTypesOK DEF EventTypes
  <2> QED  BY <2>1
<1>2. g \in EngineSet /\ KeepsCredit(e, g) /\ g.state = e.state
  BY AnnounceLemma
<1>3. ReceiveHeaders(e, f) = Emit(g, events)
  BY DEF ReceiveHeaders
<1> HIDE DEF events, g
<1> QED  BY <1>1, <1>2, <1>3, EmitLemma, KeepsCreditTransitive

\* The streams a frame wakes are streams, so the order it wakes them in is one too.
LEMMA WokenType ==
  ASSUME NEW e \in EngineSet, NEW f \in FrameSet
  PROVE  Woken(e, f) \in SUBSET Streams
<1>1. f.type = "window_update" /\ f.stream # 0 => f.stream \in Streams
  BY DEF FrameSet
<1> QED
  BY <1>1 DEF Woken, WokenByConnection, WokenByStream, WokenBySettings, Tracked

\* WINDOW_UPDATE changes send windows and queues events.
LEMMA HandleWindowUpdateLemma ==
  ASSUME NEW e \in EngineSet, NEW f \in FrameSet, f.type = "window_update",
         NEW q \in IterationOrders(Woken(e, f))
  PROVE  /\ HandleWindowUpdate(e, f, q) \in EngineSet
         /\ KeepsCredit(e, HandleWindowUpdate(e, f, q))
         /\ HandleWindowUpdate(e, f, q).state = e.state
<1>1. WindowAvailable(q) \in Seq(EventSet)
  BY WokenType, IterationOrdersType
<1>2. f.val \in Nat /\ f.stream \in Streams \union {0}
  BY DEF FrameSet
<1>3. CASE f.val = 0
  <2>1. Event("connection_error", 0, 0) \in EventSet
    BY EventTypesOK DEF EventTypes
  <2> QED  BY <1>3, <2>1, OneEvent, EmitLemma DEF HandleWindowUpdate
<1>4. CASE f.val # 0 /\ f.stream = 0
  <2> DEFINE v      == e.connection_send_window + f.val
             opened == [e EXCEPT !.connection_send_window = v]
             events == (IF ConnectionOpened(e, f.val)
                        THEN <<Event("connection_window_available", 0, 0)>>
                        ELSE <<>>) \o WindowAvailable(q)
  <2>1. v \in Int
    BY <1>2, MemberTypes
  <2> HIDE DEF v
  <2>2. opened \in EngineSet /\ opened.state = e.state
    BY <2>1 DEF EngineSet
  <2>3. KeepsCredit(e, opened)
    BY FlowTypes DEF KeepsCredit, EngineSet
  <2>4. Event("connection_window_available", 0, 0) \in EventSet
    BY EventTypesOK DEF EventTypes
  <2>5. events \in Seq(EventSet)
    BY <1>1, <2>4
  <2> HIDE DEF events, opened
  <2>6. /\ Emit(opened, events) \in EngineSet /\ KeepsCredit(e, Emit(opened, events))
        /\ Emit(opened, events).state = e.state
    BY <2>2, <2>3, <2>5, EmitLemma, KeepsCreditTransitive
  <2> QED  BY <1>4, <2>6 DEF HandleWindowUpdate, opened, events, v
<1>5. CASE f.val # 0 /\ f.stream # 0
  <2> DEFINE g == GetOrInit(e, f.stream)
             y == g.flow[f.stream]
             w == y.send_window + f.val
             x == [y EXCEPT !.send_window = w]
             h == [g EXCEPT !.flow[f.stream].send_window = @ + f.val]
  <2>1. f.stream \in Streams
    BY <1>2, <1>5
  <2>2. /\ g \in EngineSet /\ KeepsCredit(e, g) /\ g.state = e.state /\ y.tracked
    BY <2>1, GetOrInitLemma, StreamEntryLemma
  <2>3. h = ReplaceFlow(g, f.stream, x)
    BY DEF ReplaceFlow
  <2>4. y \in StreamState /\ w \in Int
    BY <1>2, <2>1, <2>2, FlowTypes
  <2> HIDE DEF g, y, w, h
  <2>5. x \in StreamState /\ x.recv_window = y.recv_window /\ x.consumed_bytes = y.consumed_bytes
    BY <2>4 DEF StreamState
  <2> HIDE DEF x
  <2>6. h \in EngineSet /\ KeepsCredit(e, h) /\ h.state = e.state
    BY <2>1, <2>2, <2>3, <2>5, ReplaceFlowLemma, KeepsCreditTransitive DEF y
  <2>7. /\ Emit(h, WindowAvailable(q)) \in EngineSet /\ KeepsCredit(e, Emit(h, WindowAvailable(q)))
        /\ Emit(h, WindowAvailable(q)).state = e.state
    BY <1>1, <2>6, EmitLemma, KeepsCreditTransitive
  <2>8. HandleWindowUpdate(e, f, q) = Emit(h, WindowAvailable(q))
    BY <1>5 DEF HandleWindowUpdate, h, g
  <2> QED  BY <2>7, <2>8
<1> QED  BY <1>3, <1>4, <1>5

\* A new INITIAL_WINDOW_SIZE moves send windows only.
LEMMA ApplyPeerInitialWindowSizeLemma ==
  ASSUME NEW e \in EngineSet, NEW size \in Nat, NEW q, WindowAvailable(q) \in Seq(EventSet)
  PROVE  /\ ApplyPeerInitialWindowSize(e, size, q) \in EngineSet
         /\ KeepsCredit(e, ApplyPeerInitialWindowSize(e, size, q))
         /\ ApplyPeerInitialWindowSize(e, size, q).state = e.state
<1> DEFINE moved(s) == [e.flow[s] EXCEPT !.send_window = @ + size - e.peer_initial_window_size]
           flow     == [s \in Streams |-> IF e.flow[s].tracked THEN moved(s) ELSE e.flow[s]]
           g        == [e EXCEPT !.peer_initial_window_size = size, !.flow = flow]
<1>1. ASSUME NEW s \in Streams
      PROVE  /\ moved(s) \in StreamState
             /\ moved(s).recv_window = e.flow[s].recv_window
             /\ moved(s).consumed_bytes = e.flow[s].consumed_bytes
  <2> DEFINE w == e.flow[s].send_window + size - e.peer_initial_window_size
  <2>1. w \in Int /\ e.flow[s] \in StreamState
    BY FlowTypes, MemberTypes
  <2> HIDE DEF w
  <2>2. /\ [e.flow[s] EXCEPT !.send_window = w] \in StreamState
        /\ [e.flow[s] EXCEPT !.send_window = w].recv_window = e.flow[s].recv_window
        /\ [e.flow[s] EXCEPT !.send_window = w].consumed_bytes = e.flow[s].consumed_bytes
    BY <2>1 DEF StreamState
  <2> QED  BY <2>2 DEF w
<1> HIDE DEF moved
<1>2. flow \in [Streams -> StreamState]
  BY <1>1, FlowTypes
<1>3. \A s \in Streams : flow[s] = IF e.flow[s].tracked THEN moved(s) ELSE e.flow[s]
  OBVIOUS
<1> HIDE DEF flow
<1>4. g \in EngineSet /\ g.state = e.state
  BY <1>2 DEF EngineSet
<1>5. KeepsCredit(e, g)
  BY <1>1, <1>3, FlowTypes DEF KeepsCredit, EngineSet
<1> HIDE DEF g
<1>6. /\ Emit(g, WindowAvailable(q)) \in EngineSet /\ KeepsCredit(e, Emit(g, WindowAvailable(q)))
      /\ Emit(g, WindowAvailable(q)).state = e.state
  BY <1>4, <1>5, EmitLemma, KeepsCreditTransitive
<1>7. ApplyPeerInitialWindowSize(e, size, q) = Emit(g, WindowAvailable(q))
  BY DEF ApplyPeerInitialWindowSize, g, flow, moved
<1> QED  BY <1>6, <1>7

\* GOAWAY is remembered or refused, and queues an event.
LEMMA HandleGoawayLemma ==
  ASSUME NEW e \in EngineSet, NEW f \in FrameSet, f.val \in 0 .. 2
  PROVE  /\ HandleGoaway(e, f) \in EngineSet
         /\ KeepsCredit(e, HandleGoaway(e, f))
         /\ HandleGoaway(e, f).state = e.state
<1>1. Event("goaway", 0, 0) \in EventSet /\ Event("connection_error", 0, 0) \in EventSet
  BY EventTypesOK DEF EventTypes
<1> DEFINE g == [e EXCEPT !.goaway_received = TRUE]
<1>2. g \in EngineSet /\ g.state = e.state
  BY DEF EngineSet
<1>3. KeepsCredit(e, g)
  BY FlowTypes DEF KeepsCredit, EngineSet
<1> HIDE DEF g
<1>4. CASE f.val = 0
  BY <1>4 DEF HandleGoaway, KeepsCredit
<1>5. CASE f.val = 1
  <2>1. HandleGoaway(e, f) = Emit(g, <<Event("goaway", 0, 0)>>)
    BY <1>5 DEF HandleGoaway, g
  <2>2. /\ HandleGoaway(e, f) \in EngineSet /\ KeepsCredit(g, HandleGoaway(e, f))
        /\ HandleGoaway(e, f).state = g.state
    BY <1>1, <1>2, <2>1, EmitOne
  <2> QED  BY <1>2, <1>3, <2>2, KeepsCreditTransitive
<1>6. CASE f.val = 2
  <2>1. HandleGoaway(e, f) = Emit(e, <<Event("connection_error", 0, 0)>>)
    BY <1>6 DEF HandleGoaway
  <2> QED  BY <1>1, <2>1, EmitOne
<1> QED  BY <1>4, <1>5, <1>6

----------------------------------------------------------------------------
(* DATA.                                                                   *)

\* The threshold of update_flow_control is at most half a window.
LEMMA ThresholdType ==
  ASSUME NEW e \in EngineSet
  PROVE  Threshold(e) \in Nat /\ 2 * Threshold(e) <= e.initial_window_size
  BY MemberTypes DEF Threshold

\* f differs from e in no member that receiving DATA on s cannot change.
SameBut(e, f, s) ==
  /\ f.role = e.role /\ f.state = e.state
  /\ f.initial_window_size = e.initial_window_size
  /\ \A t \in Streams \ {s} : f.flow[t] = e.flow[t]

\* n bytes of DATA are taken from the windows of the connection and the stream.
LEMMA ReceiveBytesLemma ==
  ASSUME NEW e \in EngineSet, NEW s \in Streams, NEW n \in Nat
  PROVE  LET f == ReceiveBytes(e, s, n) IN
         /\ f \in EngineSet
         /\ SameBut(e, f, s)
         /\ f.connection_consumed = e.connection_consumed
         /\ f.connection_recv_window = e.connection_recv_window - n
         /\ f.flow[s].tracked
         /\ f.flow[s].recv_window = StreamEntry(e, s).recv_window - n
         /\ f.flow[s].consumed_bytes = StreamEntry(e, s).consumed_bytes
<1> DEFINE g == GetOrInit(e, s)
           y == g.flow[s]
           v == g.connection_recv_window - n
           w == y.recv_window - n
           x == [y EXCEPT !.recv_window = w]
           f == [g EXCEPT !.connection_recv_window = @ - n, !.flow[s].recv_window = @ - n]
           h == [g EXCEPT !.connection_recv_window = v, !.flow[s] = x]
<1>1. /\ g \in EngineSet /\ KeepsCredit(e, g) /\ g.state = e.state /\ y = StreamEntry(e, s)
      /\ \A t \in Streams \ {s} : g.flow[t] = e.flow[t]
  BY GetOrInitLemma
<1>2. y \in StreamState /\ y.tracked
  BY <1>1, StreamEntryLemma
<1>3. v \in Int /\ w \in Int
  BY <1>1, <1>2, MemberTypes, FlowTypes
<1>4. ReceiveBytes(e, s, n) = f /\ f = h
  BY DEF ReceiveBytes
<1> HIDE DEF f, g, y, v, w
<1>5. /\ x \in StreamState /\ x.tracked /\ x.recv_window = w
      /\ x.consumed_bytes = y.consumed_bytes
  BY <1>2, <1>3 DEF StreamState
<1> HIDE DEF x
<1>6. h \in EngineSet
  BY <1>1, <1>3, <1>5 DEF EngineSet
<1>7. /\ h.role = g.role /\ h.state = g.state /\ h.initial_window_size = g.initial_window_size
      /\ h.connection_consumed = g.connection_consumed /\ h.connection_recv_window = v
      /\ h.flow[s] = x /\ \A t \in Streams \ {s} : h.flow[t] = g.flow[t]
  BY <1>1 DEF EngineSet
<1> HIDE DEF h
<1>8. w = StreamEntry(e, s).recv_window - n /\ v = e.connection_recv_window - n
  BY <1>1 DEF w, v, KeepsCredit
<1> QED  BY <1>1, <1>4, <1>5, <1>6, <1>7, <1>8 DEF SameBut, KeepsCredit

\* Either the bytes are added to those consumed, or all are credited at once.
LEMMA CreditConnectionLemma ==
  ASSUME NEW e \in EngineSet, NEW s \in Streams, NEW n \in Nat
  PROVE  LET f == CreditConnection(e, n)
             consumed == e.connection_consumed + n
         IN
         /\ f \in EngineSet
         /\ SameBut(e, f, s) /\ f.flow[s] = e.flow[s]
         /\ \/ /\ consumed < Threshold(e)
               /\ f.connection_consumed = consumed
               /\ f.connection_recv_window = e.connection_recv_window
            \/ /\ f.connection_consumed = 0
               /\ f.connection_recv_window = e.connection_recv_window + consumed
<1> DEFINE consumed == e.connection_consumed + n
           v        == e.connection_recv_window + consumed
           g        == [e EXCEPT !.connection_recv_window = v, !.connection_consumed = 0]
           h        == [e EXCEPT !.connection_consumed = consumed]
<1>1. consumed \in Nat /\ v \in Int
  BY MemberTypes
<1> HIDE DEF consumed, v
<1>2. CASE consumed >= Threshold(e)
  <2>1. WindowUpdate(0, consumed) \in FrameSet
    BY <1>1, FrameTypesOK DEF WindowUpdate, FrameTypes
  <2>2. /\ g \in EngineSet /\ g.role = e.role /\ g.state = e.state /\ g.flow = e.flow
        /\ g.initial_window_size = e.initial_window_size
        /\ g.connection_consumed = 0 /\ g.connection_recv_window = v
    BY <1>1 DEF EngineSet
  <2>3. CreditConnection(e, n) = Write(g, <<WindowUpdate(0, consumed)>>)
    BY <1>2 DEF CreditConnection, consumed, v
  <2> HIDE DEF g
  <2>4. LET f == Write(g, <<WindowUpdate(0, consumed)>>) IN
          f \in EngineSet /\ KeepsCredit(g, f) /\ f.state = g.state /\ f.flow = g.flow
    BY <2>1, <2>2, OneFrame, WriteLemma
  <2> QED  BY <2>2, <2>3, <2>4 DEF SameBut, KeepsCredit, v, consumed
<1>3. CASE ~(consumed >= Threshold(e))
  <2>1. CreditConnection(e, n) = h
    BY <1>3 DEF CreditConnection, consumed
  <2>2. /\ h \in EngineSet /\ h.role = e.role /\ h.state = e.state /\ h.flow = e.flow
        /\ h.initial_window_size = e.initial_window_size
        /\ h.connection_consumed = consumed
        /\ h.connection_recv_window = e.connection_recv_window
    BY <1>1 DEF EngineSet
  <2> HIDE DEF h
  <2>3. consumed < Threshold(e)
    BY <1>1, <1>3, ThresholdType
  <2> QED  BY <2>1, <2>2, <2>3 DEF SameBut, consumed
<1> QED  BY <1>2, <1>3

\* The same for the window of the stream.
LEMMA CreditStreamLemma ==
  ASSUME NEW e \in EngineSet, NEW s \in Streams, NEW n \in Nat, e.flow[s].tracked
  PROVE  LET f == CreditStream(e, s, n)
             consumed == e.flow[s].consumed_bytes + n
         IN
         /\ f \in EngineSet
         /\ SameBut(e, f, s)
         /\ f.connection_consumed = e.connection_consumed
         /\ f.connection_recv_window = e.connection_recv_window
         /\ f.flow[s].tracked
         /\ \/ /\ consumed < Threshold(e)
               /\ f.flow[s].consumed_bytes = consumed
               /\ f.flow[s].recv_window = e.flow[s].recv_window
            \/ /\ f.flow[s].consumed_bytes = 0
               /\ f.flow[s].recv_window = e.flow[s].recv_window + consumed
<1> DEFINE y        == e.flow[s]
           consumed == y.consumed_bytes + n
           v        == y.recv_window + consumed
           credited == [y EXCEPT !.recv_window = v, !.consumed_bytes = 0]
           kept     == [y EXCEPT !.consumed_bytes = consumed]
           g        == ReplaceFlow(e, s, credited)
           h        == ReplaceFlow(e, s, kept)
<1>1. y \in StreamState /\ consumed \in Nat /\ v \in Int
  BY FlowTypes
<1>2. ASSUME NEW x \in StreamState
      PROVE  LET r == ReplaceFlow(e, s, x) IN
             /\ r \in EngineSet /\ r.role = e.role /\ r.state = e.state /\ r.flow[s] = x
             /\ r.initial_window_size = e.initial_window_size
             /\ r.connection_consumed = e.connection_consumed
             /\ r.connection_recv_window = e.connection_recv_window
             /\ \A t \in Streams \ {s} : r.flow[t] = e.flow[t]
  <2>1. ReplaceFlow(e, s, x) \in EngineSet
    BY SetFlow DEF ReplaceFlow
  <2> QED  BY <2>1 DEF ReplaceFlow, EngineSet
<1>3. CASE consumed >= Threshold(e)
  <2>1. CreditStream(e, s, n) = Write(g, <<WindowUpdate(s, consumed)>>)
    BY <1>3 DEF CreditStream, ReplaceFlow
  <2> HIDE DEF y, consumed, v
  <2>2. /\ credited \in StreamState /\ credited.tracked = y.tracked
        /\ credited.recv_window = v /\ credited.consumed_bytes = 0
    BY <1>1 DEF StreamState
  <2>3. WindowUpdate(s, consumed) \in FrameSet
    BY <1>1, FrameTypesOK DEF WindowUpdate, FrameTypes
  <2> HIDE DEF credited
  <2>4. /\ g \in EngineSet /\ SameBut(e, g, s) /\ g.flow[s] = credited
        /\ g.connection_consumed = e.connection_consumed
        /\ g.connection_recv_window = e.connection_recv_window
    BY <1>2, <2>2 DEF SameBut
  <2> HIDE DEF g
  <2>5. LET f == Write(g, <<WindowUpdate(s, consumed)>>) IN
          f \in EngineSet /\ KeepsCredit(g, f) /\ f.state = g.state /\ f.flow = g.flow
    BY <2>3, <2>4, OneFrame, WriteLemma
  <2>6. LET f == CreditStream(e, s, n) IN
          /\ f \in EngineSet /\ f.flow[s] = credited
          /\ f.connection_consumed = e.connection_consumed
          /\ f.connection_recv_window = e.connection_recv_window
    BY <2>1, <2>4, <2>5 DEF KeepsCredit
  <2>7. SameBut(e, CreditStream(e, s, n), s)
    BY <2>1, <2>4, <2>5 DEF SameBut, KeepsCredit
  <2>8. v = e.flow[s].recv_window + consumed /\ y.tracked
    BY DEF v, y
  <2> QED  BY <2>2, <2>6, <2>7, <2>8 DEF consumed, y
<1>4. CASE ~(consumed >= Threshold(e))
  <2>1. CreditStream(e, s, n) = h
    BY <1>4 DEF CreditStream, ReplaceFlow
  <2> HIDE DEF y, consumed, v
  <2>2. /\ kept \in StreamState /\ kept.tracked = y.tracked
        /\ kept.recv_window = y.recv_window /\ kept.consumed_bytes = consumed
    BY <1>1 DEF StreamState
  <2> HIDE DEF kept
  <2>3. consumed < Threshold(e)
    BY <1>1, <1>4, ThresholdType
  <2>4. /\ h \in EngineSet /\ SameBut(e, h, s) /\ h.flow[s] = kept
        /\ h.connection_consumed = e.connection_consumed
        /\ h.connection_recv_window = e.connection_recv_window
    BY <1>2, <2>2 DEF SameBut
  <2>5. y.tracked /\ y.recv_window = e.flow[s].recv_window
    BY DEF y
  <2> HIDE DEF h
  <2> QED  BY <2>1, <2>2, <2>3, <2>4, <2>5 DEF consumed, y
<1> QED  BY <1>3, <1>4
----------------------------------------------------------------------------
(* What a call can change.                                                 *)

\* The connection's part of what decides how much may be sent is the same.
SameConnection(e, f) ==
  /\ f.role = e.role
  /\ f.next_stream_id = e.next_stream_id
  /\ f.connection_send_window = e.connection_send_window
  /\ f.peer_initial_window_size = e.peer_initial_window_size

\* The flow state of t is the same.
SameStream(e, f, t) ==
  /\ StreamSendWindow(f, t) = StreamSendWindow(e, t)
  /\ f.flow[t].tracked = e.flow[t].tracked
  /\ f.flow[t].known = e.flow[t].known

\* s has a flow state, with the send window it had or would have been given.
Entered(e, f, s) ==
  /\ StreamSendWindow(f, s) = StreamSendWindow(e, s)
  /\ f.flow[s].tracked
  /\ f.flow[s].known = (e.flow[s].tracked /\ e.flow[s].known)

\* A call on stream s that sends nothing and opens nothing.
KeepsSending(e, f, s) ==
  /\ SameConnection(e, f)
  /\ Entered(e, f, s)
  /\ \A t \in Streams \ {s} : SameStream(e, f, t)

\* A call that touches no flow state.
SameSending(e, f) == SameConnection(e, f) /\ f.flow = e.flow

\* f's queue is e's and then events of streams in S, none of them new_stream.
Adds(e, f, S) ==
  /\ Len(e.event_queue) <= Len(f.event_queue)
  /\ \A i \in 1 .. Len(e.event_queue) : f.event_queue[i] = e.event_queue[i]
  /\ \A i \in Len(e.event_queue) + 1 .. Len(f.event_queue) :
       f.event_queue[i].type # "new_stream" /\ f.event_queue[i].stream \in S

SameOutput(e, f) ==
  /\ f.pending_out = e.pending_out
  /\ f.had_output = e.had_output
  /\ f.output_ready_cb = e.output_ready_cb

\* The callback fired if output other than a GOAWAY waits, and is armed if none does.
Signalled(e) ==
  /\ e.output_ready_cb /\ (\E i \in DOMAIN e.pending_out : e.pending_out[i].type # "goaway")
       => e.had_output
  /\ e.had_output => e.pending_out # <<>>

\* The flow states decide the send windows.
LEMMA SameSendingStreams ==
  ASSUME NEW e, NEW f, SameSending(e, f)
  PROVE  /\ SameConnection(e, f)
         /\ \A t \in Streams : SameStream(e, f, t)
  BY DEF SameSending, SameConnection, SameStream, StreamSendWindow

\* Calls on one stream that follow each other.
LEMMA KeepsSendingTransitive ==
  ASSUME NEW e, NEW f, NEW g, NEW s \in Streams,
         KeepsSending(e, f, s), KeepsSending(f, g, s)
  PROVE  KeepsSending(e, g, s)
  BY DEF KeepsSending, SameConnection, Entered, SameStream

\* A call that touches no flow state before or after a call on one stream.
LEMMA KeepsSendingSame ==
  ASSUME NEW e, NEW f, NEW g, NEW s \in Streams,
         \/ KeepsSending(e, f, s) /\ SameSending(f, g)
         \/ SameSending(e, f) /\ KeepsSending(f, g, s)
  PROVE  KeepsSending(e, g, s)
<1>1. CASE KeepsSending(e, f, s) /\ SameSending(f, g)
  <2>1. SameConnection(f, g) /\ \A t \in Streams : SameStream(f, g, t)
    BY <1>1, SameSendingStreams
  <2> QED  BY <1>1, <2>1 DEF KeepsSending, SameConnection, Entered, SameStream
<1>2. CASE SameSending(e, f) /\ KeepsSending(f, g, s)
  <2>1. SameConnection(e, f) /\ \A t \in Streams : SameStream(e, f, t)
    BY <1>2, SameSendingStreams
  <2> QED  BY <1>2, <2>1 DEF KeepsSending, SameConnection, Entered, SameStream
<1> QED  BY <1>1, <1>2

\* Events that are queued after each other.
LEMMA AddsTransitive ==
  ASSUME NEW e \in EngineSet, NEW f \in EngineSet, NEW g \in EngineSet, NEW S,
         Adds(e, f, S), Adds(f, g, S)
  PROVE  Adds(e, g, S)
<1>1. Len(e.event_queue) \in Nat /\ Len(f.event_queue) \in Nat /\ Len(g.event_queue) \in Nat
  BY MemberTypes
<1> QED  BY <1>1 DEF Adds

\* A queue that is left alone gains nothing.
LEMMA AddsNothing ==
  ASSUME NEW e \in EngineSet, NEW f, f.event_queue = e.event_queue, NEW S
  PROVE  Adds(e, f, S)
<1>1. Len(e.event_queue) \in Nat
  BY MemberTypes
<1> QED  BY <1>1 DEF Adds

----------------------------------------------------------------------------
(* Output and events.                                                      *)

\* Output that is queued with the callback invoked is signalled.
LEMMA WriteEffect ==
  ASSUME NEW e \in EngineSet, NEW frames \in Seq(FrameSet)
  PROVE  /\ SameSending(e, Write(e, frames))
         /\ Write(e, frames).event_queue = e.event_queue
         /\ Write(e, frames).pending_out = e.pending_out \o frames
         /\ Write(e, frames).had_output = (e.had_output \/ e.output_ready_cb)
         /\ Write(e, frames).output_ready_cb = e.output_ready_cb
  BY WriteLemma DEF Write, SameSending, SameConnection, EngineSet, KeepsCredit

LEMMA WriteSignals ==
  ASSUME NEW e \in EngineSet, NEW frames \in Seq(FrameSet), frames # <<>>, Signalled(e)
  PROVE  Signalled(Write(e, frames))
<1>1. e.pending_out \in Seq(FrameSet)
  BY MemberTypes
<1>2. Write(e, frames).pending_out # <<>>
  BY <1>1, WriteEffect
<1>3. CASE e.output_ready_cb
  BY <1>2, <1>3, WriteEffect DEF Signalled
<1>4. CASE ~e.output_ready_cb
  BY <1>2, <1>4, WriteEffect DEF Signalled
<1> QED  BY <1>3, <1>4

\* A call that leaves the output alone leaves its signal alone.
LEMMA SameOutputSignals ==
  ASSUME NEW e, NEW f, SameOutput(e, f), Signalled(e)
  PROVE  Signalled(f)
  BY DEF SameOutput, Signalled

\* Events touch neither windows nor output.
LEMMA EmitEffect ==
  ASSUME NEW e \in EngineSet, NEW events \in Seq(EventSet)
  PROVE  /\ SameSending(e, Emit(e, events))
         /\ SameOutput(e, Emit(e, events))
         /\ Emit(e, events).event_queue = e.event_queue \o events
  BY EmitLemma DEF Emit, SameSending, SameConnection, SameOutput, EngineSet

LEMMA EmitAdds ==
  ASSUME NEW e \in EngineSet, NEW events \in Seq(EventSet), NEW S,
         \A i \in 1 .. Len(events) : events[i].type # "new_stream" /\ events[i].stream \in S
  PROVE  Adds(e, Emit(e, events), S)
<1>1. Emit(e, events).event_queue = e.event_queue \o events
  BY EmitLemma
<1>2. e.event_queue \in Seq(EventSet)
  BY MemberTypes
<1> QED  BY <1>1, <1>2 DEF Adds

\* The same for a single event.
LEMMA EmitOneAdds ==
  ASSUME NEW e \in EngineSet, NEW ev \in EventSet, NEW S, ev.type # "new_stream", ev.stream \in S
  PROVE  Adds(e, Emit(e, <<ev>>), S)
<1>1. <<ev>> \in Seq(EventSet)
  BY OneEvent
<1>2. \A i \in 1 .. Len(<<ev>>) : <<ev>>[i].type # "new_stream" /\ <<ev>>[i].stream \in S
  OBVIOUS
<1> QED  BY <1>1, <1>2, EmitAdds

----------------------------------------------------------------------------
(* Flow states.                                                            *)

\* get_or_init_stream_flow_state gives a stream the window it is counted with anyway.
LEMMA GetOrInitEffect ==
  ASSUME NEW e \in EngineSet, NEW s \in Streams
  PROVE  /\ KeepsSending(e, GetOrInit(e, s), s)
         /\ SameOutput(e, GetOrInit(e, s))
         /\ GetOrInit(e, s).event_queue = e.event_queue
<1> DEFINE g == GetOrInit(e, s)
<1>1. SameConnection(e, g) /\ SameOutput(e, g) /\ g.event_queue = e.event_queue
  BY DEF GetOrInit, SameConnection, SameOutput, EngineSet
<1>2. g.flow[s] = StreamEntry(e, s) /\ \A t \in Streams \ {s} : g.flow[t] = e.flow[t]
  BY GetOrInitLemma
<1> HIDE DEF g
<1>3. /\ StreamEntry(e, s).tracked
      /\ StreamEntry(e, s).send_window = StreamSendWindow(e, s)
      /\ StreamEntry(e, s).known = (e.flow[s].tracked /\ e.flow[s].known)
  <2>1. CASE e.flow[s].tracked
    BY <2>1, FlowTypes DEF StreamEntry, StreamSendWindow
  <2>2. CASE ~e.flow[s].tracked
    BY <2>2 DEF StreamEntry, StreamSendWindow, Untracked
  <2> QED  BY <2>1, <2>2
<1>4. Entered(e, g, s)
  BY <1>2, <1>3 DEF Entered, StreamSendWindow
<1>5. \A t \in Streams \ {s} : SameStream(e, g, t)
  BY <1>1, <1>2 DEF SameStream, StreamSendWindow, SameConnection
<1> QED  BY <1>1, <1>4, <1>5 DEF KeepsSending, g

\* Replacing one flow state changes no other member.
LEMMA ReplaceFlowEffect ==
  ASSUME NEW e \in EngineSet, NEW s \in Streams, NEW x \in StreamState
  PROVE  LET f == ReplaceFlow(e, s, x) IN
         /\ f \in EngineSet
         /\ SameConnection(e, f) /\ SameOutput(e, f) /\ f.event_queue = e.event_queue
         /\ f.flow[s] = x
         /\ \A t \in Streams \ {s} : f.flow[t] = e.flow[t] /\ SameStream(e, f, t)
<1> DEFINE f == ReplaceFlow(e, s, x)
<1>1. f \in EngineSet
  BY SetFlow DEF ReplaceFlow
<1>2. /\ SameConnection(e, f) /\ SameOutput(e, f) /\ f.event_queue = e.event_queue
      /\ f.flow[s] = x /\ \A t \in Streams \ {s} : f.flow[t] = e.flow[t]
  BY DEF ReplaceFlow, SameConnection, SameOutput, EngineSet
<1> HIDE DEF f
<1>3. \A t \in Streams \ {s} : SameStream(e, f, t)
  BY <1>2 DEF SameStream, StreamSendWindow, SameConnection
<1> QED  BY <1>1, <1>2, <1>3 DEF f

\* A change of the receive side of a flow state is none of the send side.
LEMMA ReceiveSideEffect ==
  ASSUME NEW e \in EngineSet, NEW s \in Streams, NEW x \in StreamState, e.flow[s].tracked,
         x.tracked, x.known = e.flow[s].known, x.send_window = e.flow[s].send_window
  PROVE  KeepsSending(e, ReplaceFlow(e, s, x), s)
<1> DEFINE f == ReplaceFlow(e, s, x)
<1>1. /\ SameConnection(e, f) /\ f.flow[s] = x
      /\ \A t \in Streams \ {s} : SameStream(e, f, t)
  BY ReplaceFlowEffect
<1> HIDE DEF f
<1>2. Entered(e, f, s)
  BY <1>1, FlowTypes DEF Entered, StreamSendWindow
<1> QED  BY <1>1, <1>2 DEF KeepsSending, f

----------------------------------------------------------------------------
(* Calls of the application.                                               *)

\* set_initial_window_size changes receive windows only.
LEMMA SetInitialWindowSizeEffect ==
  ASSUME NEW e \in EngineSet, NEW size \in Nat
  PROVE  LET f == SetInitialWindowSize(e, size) IN
         SameSending(e, f) /\ SameOutput(e, f) /\ f.event_queue = e.event_queue
  BY DEF SetInitialWindowSize, SameSending, SameConnection, SameOutput, EngineSet

\* write_settings queues output and has it signalled.
LEMMA WriteSettingsEffect ==
  ASSUME NEW e \in EngineSet, Signalled(e)
  PROVE  /\ SameSending(e, WriteSettings(e))
         /\ WriteSettings(e).event_queue = e.event_queue
         /\ Signalled(WriteSettings(e))
<1> DEFINE frames == <<Settings(e.local_settings)>> \o
                       (IF ConnectionBonus(e) > 0 THEN <<WindowUpdate(0, ConnectionBonus(e))>>
                                                  ELSE <<>>)
<1>1. ConnectionBonus(e) \in Nat
  BY MemberTypes, WindowAssumption, LeastGreatest DEF ConnectionBonus
<1>2. WindowUpdate(0, ConnectionBonus(e)) \in FrameSet
  BY <1>1, FrameTypesOK DEF WindowUpdate, FrameTypes
<1>3. Settings(e.local_settings) \in FrameSet
  BY MemberTypes, SettingsType
<1>4. frames \in Seq(FrameSet) /\ frames # <<>>
  BY <1>2, <1>3
<1>5. WriteSettings(e) = Write(e, frames)
  BY DEF WriteSettings
<1> HIDE DEF frames
<1> QED  BY <1>4, <1>5, WriteEffect, WriteSignals

\* open_stream gives the stream its window and takes the next identifier.
LEMMA OpenStreamEffect ==
  ASSUME NEW e \in EngineSet, e.next_stream_id \in Streams, Signalled(e)
  PROVE  LET f  == OpenStream(e)
             id == e.next_stream_id
         IN
         /\ f.role = e.role
         /\ f.next_stream_id = e.next_stream_id + 2
         /\ f.connection_send_window = e.connection_send_window
         /\ f.peer_initial_window_size = e.peer_initial_window_size
         /\ f.flow[id].tracked /\ StreamSendWindow(f, id) = e.peer_initial_window_size
         /\ \A t \in Streams \ {id} : SameStream(e, f, t)
         /\ f.event_queue = e.event_queue
         /\ Signalled(f)
<1> DEFINE preface == <<Frame("preface", 0, 0, FALSE, 0)>>
           p       == WritePreface(e)
           w       == WriteSettings(p)
           started == [w EXCEPT !.state = "preface_sent"]
           opened  == IF e.role = "client" /\ e.state = "idle" THEN started ELSE e
           id      == e.next_stream_id
           x       == [StreamEntry(opened, id) EXCEPT !.known = TRUE,
                                                      !.send_window = opened.peer_initial_window_size]
           g       == [opened EXCEPT !.next_stream_id = @ + 2, !.flow[id] = x]
<1>1. preface \in Seq(FrameSet) /\ preface # <<>>
  BY FrameTypesOK, OneFrame DEF FrameTypes
<1>2. p \in EngineSet /\ SameSending(e, p) /\ p.event_queue = e.event_queue /\ Signalled(p)
  BY <1>1, WriteLemma, WriteEffect, WriteSignals DEF WritePreface
<1> HIDE DEF p
<1>3. w \in EngineSet /\ SameSending(p, w) /\ w.event_queue = e.event_queue /\ Signalled(w)
  BY <1>2, WriteSettingsLemma, WriteSettingsEffect
<1> HIDE DEF w
<1>4. /\ started \in EngineSet /\ SameSending(w, started) /\ SameOutput(w, started)
      /\ started.event_queue = w.event_queue
  <2>1. started \in EngineSet /\ started.event_queue = w.event_queue
    BY <1>3, SetState DEF EngineStates
  <2>2. SameSending(w, started) /\ SameOutput(w, started)
    BY <1>3 DEF SameSending, SameConnection, SameOutput, EngineSet
  <2> QED  BY <2>1, <2>2
<1>5. /\ opened \in EngineSet /\ SameSending(e, opened) /\ opened.event_queue = e.event_queue
      /\ Signalled(opened)
  <2>1. Signalled(started)
    BY <1>3, <1>4, SameOutputSignals
  <2> HIDE DEF started
  <2>2. SameSending(e, started)
    BY <1>2, <1>3, <1>4 DEF SameSending, SameConnection
  <2> QED  BY <1>2, <1>3, <1>4, <2>1, <2>2 DEF SameSending, SameConnection
<1> HIDE DEF opened
<1>6. x \in StreamState /\ x.tracked /\ x.send_window = opened.peer_initial_window_size
  <2>1. /\ StreamEntry(opened, id) \in StreamState /\ StreamEntry(opened, id).tracked
        /\ opened.peer_initial_window_size \in Int
    BY <1>5, MemberTypes, StreamEntryLemma
  <2> HIDE DEF id
  <2> QED  BY <2>1 DEF StreamState
<1> HIDE DEF x
<1>7. /\ g.role = opened.role /\ g.next_stream_id = opened.next_stream_id + 2
      /\ g.connection_send_window = opened.connection_send_window
      /\ g.peer_initial_window_size = opened.peer_initial_window_size
      /\ g.event_queue = opened.event_queue /\ SameOutput(opened, g)
      /\ g.flow[id] = x /\ \A t \in Streams \ {id} : g.flow[t] = opened.flow[t]
  BY <1>5 DEF EngineSet, SameOutput
<1>8. OpenStream(e) = g
  BY DEF OpenStream, opened, started, w, p, x
<1> HIDE DEF g
<1>9. Signalled(g)
  BY <1>5, <1>7, SameOutputSignals
<1>10. /\ g.flow[id].tracked /\ StreamSendWindow(g, id) = e.peer_initial_window_size
       /\ \A t \in Streams \ {id} : SameStream(e, g, t)
  BY <1>5, <1>6, <1>7 DEF SameSending, SameConnection, SameStream, StreamSendWindow
<1> QED  BY <1>5, <1>7, <1>8, <1>9, <1>10 DEF SameSending, SameConnection

\* Headers are queued and signalled.
LEMMA SendHeadersEffect ==
  ASSUME NEW e \in EngineSet, NEW s \in Streams, NEW end \in BOOLEAN, Signalled(e)
  PROVE  LET f == SendHeadersFrame(e, s, end) IN
         SameSending(e, f) /\ f.event_queue = e.event_queue /\ Signalled(f)
<1>1. <<Headers(s, end)>> \in Seq(FrameSet) /\ <<Headers(s, end)>> # <<>>
  BY FrameTypesOK, OneFrame DEF Headers, FrameTypes
<1> QED  BY <1>1, WriteEffect, WriteSignals DEF SendHeadersFrame

\* At least one byte makes at least one frame.
LEMMA DataFramesNonEmpty ==
  ASSUME NEW s \in Streams, NEW n \in Nat \ {0}, NEW end \in BOOLEAN
  PROVE  DataFrames(s, n, end) # <<>>
<1> DEFINE count == (n + MaxFrame - 1) \div MaxFrame
<1>1. count \in Int /\ n + MaxFrame - 1 < MaxFrame * (count + 1)
  BY MaxFrameAssumption
<1>2. count >= 1
  <2>1. MaxFrame <= n + MaxFrame - 1
    BY MaxFrameAssumption
  <2>2. MaxFrame * 1 < MaxFrame * (count + 1)
    BY <1>1, <2>1, MaxFrameAssumption
  <2> QED  BY <1>1, <2>2, MaxFrameAssumption
<1> HIDE DEF count
<1>3. 1 \in 1 .. count
  BY <1>1, <1>2
<1>4. DOMAIN DataFrames(s, n, end) = 1 .. count
  BY DEF DataFrames, count
<1>5. DOMAIN <<>> = {}
  OBVIOUS
<1> QED  BY <1>3, <1>4, <1>5

\* f is e after n bytes of DATA were sent on s.
Spent(e, f, s, n) ==
  /\ f.role = e.role
  /\ f.next_stream_id = e.next_stream_id
  /\ f.peer_initial_window_size = e.peer_initial_window_size
  /\ f.connection_send_window = e.connection_send_window - n
  /\ StreamSendWindow(f, s) = StreamSendWindow(e, s) - n
  /\ e.flow[s].tracked => f.flow[s].tracked
  /\ f.flow[s].known = (e.flow[s].tracked /\ e.flow[s].known) \/ f.flow[s] = e.flow[s]
  /\ \A t \in Streams \ {s} : SameStream(e, f, t)

\* send_data takes what it accepts from both windows and queues it, signalled.
LEMMA SendDataEffect ==
  ASSUME NEW e \in EngineSet, NEW s \in Streams, NEW n \in Nat, NEW end \in BOOLEAN, Signalled(e)
  PROVE  LET f == SendData(e, s, n, end) IN
         /\ Spent(e, f, s, Accepted(e, s, n))
         /\ f.event_queue = e.event_queue
         /\ Signalled(f)
<1> DEFINE sent == Accepted(e, s, n)
           all  == end /\ sent = n
           out  == Write(e, DataFrames(s, sent, all))
           g    == GetOrInit(out, s)
           h    == [g EXCEPT !.connection_send_window = @ - sent, !.flow[s].send_window = @ - sent]
           f    == SendData(e, s, n, end)
<1>1. sent \in Nat /\ sent <= n
  BY AcceptedType
<1>2. StreamSendWindow(e, s) \in Int /\ e.connection_send_window \in Int
  BY MemberTypes, FlowTypes DEF StreamSendWindow
<1>3. ASSUME NEW x, SameSending(e, x), sent = 0
      PROVE  Spent(e, x, s, sent)
  <2> HIDE DEF sent
  <2>1. SameConnection(e, x) /\ \A t \in Streams : SameStream(e, x, t)
    BY <1>3, SameSendingStreams
  <2>2. x.flow[s] = e.flow[s]
    BY <1>3 DEF SameSending
  <2> QED  BY <1>2, <1>3, <2>1, <2>2 DEF Spent, SameConnection, SameStream
<1>4. CASE sent = 0 /\ f = e
  BY <1>3, <1>4 DEF SameSending, SameConnection
<1>5. CASE sent = 0 /\ f = Write(e, <<Data(s, 0, TRUE)>>)
  <2>1. <<Data(s, 0, TRUE)>> \in Seq(FrameSet) /\ <<Data(s, 0, TRUE)>> # <<>>
    BY FrameTypesOK, OneFrame DEF Data, FrameTypes
  <2>2. /\ SameSending(e, Write(e, <<Data(s, 0, TRUE)>>))
        /\ Write(e, <<Data(s, 0, TRUE)>>).event_queue = e.event_queue
        /\ Signalled(Write(e, <<Data(s, 0, TRUE)>>))
    BY <2>1, WriteEffect, WriteSignals
  <2> QED  BY <1>3, <1>5, <2>2
<1>6. CASE sent # 0 /\ f = h
  <2>1. all \in BOOLEAN
    OBVIOUS
  <2> HIDE DEF sent, all, f
  <2>2. DataFrames(s, sent, all) \in Seq(FrameSet) /\ DataFrames(s, sent, all) # <<>>
    BY <1>1, <1>6, <2>1, DataFramesType, DataFramesNonEmpty
  <2>3. out \in EngineSet /\ SameSending(e, out) /\ out.event_queue = e.event_queue /\ Signalled(out)
    BY <2>2, WriteLemma, WriteEffect, WriteSignals
  <2> HIDE DEF out
  <2>4. /\ g \in EngineSet /\ KeepsSending(out, g, s) /\ SameOutput(out, g)
        /\ g.event_queue = e.event_queue
    BY <2>3, GetOrInitLemma, GetOrInitEffect
  <2> HIDE DEF g
  <2>5. KeepsSending(e, g, s)
    BY <2>3, <2>4, KeepsSendingSame
  <2> DEFINE x == [g.flow[s] EXCEPT !.send_window = @ - sent]
  <2>6. /\ h.role = g.role /\ h.next_stream_id = g.next_stream_id
        /\ h.peer_initial_window_size = g.peer_initial_window_size
        /\ h.connection_send_window = g.connection_send_window - sent
        /\ h.event_queue = g.event_queue /\ SameOutput(g, h)
        /\ h.flow[s] = x /\ \A t \in Streams \ {s} : h.flow[t] = g.flow[t]
    BY <2>4 DEF EngineSet, SameOutput
  <2>7. /\ x.send_window = g.flow[s].send_window - sent
        /\ x.tracked = g.flow[s].tracked /\ x.known = g.flow[s].known
    BY <2>4, FlowTypes DEF StreamState
  <2> HIDE DEF h, x
  <2>8. Signalled(h)
    BY <2>3, <2>4, <2>6, SameOutputSignals
  <2>9. /\ h.flow[s].tracked /\ StreamSendWindow(h, s) = StreamSendWindow(e, s) - sent
        /\ h.flow[s].known = (e.flow[s].tracked /\ e.flow[s].known)
    BY <2>5, <2>6, <2>7 DEF StreamSendWindow, KeepsSending, Entered
  <2>10. \A t \in Streams \ {s} : SameStream(e, h, t)
    BY <2>5, <2>6 DEF StreamSendWindow, KeepsSending, SameStream, SameConnection
  <2>11. Spent(e, h, s, sent)
    BY <2>5, <2>6, <2>9, <2>10 DEF Spent, KeepsSending, SameConnection
  <2> QED  BY <1>6, <2>4, <2>6, <2>8, <2>11 DEF f, sent
<1>7. (sent = 0 /\ (f = e \/ f = Write(e, <<Data(s, 0, TRUE)>>))) \/ (sent # 0 /\ f = h)
  BY <1>1 DEF SendData
<1> QED  BY <1>4, <1>5, <1>6, <1>7

\* send_goaway queues a GOAWAY, which is not signalled.
LEMMA SendGoawayEffect ==
  ASSUME NEW e \in EngineSet, Signalled(e)
  PROVE  LET f == SendGoaway(e) IN
         SameSending(e, f) /\ f.event_queue = e.event_queue /\ Signalled(f)
<1> DEFINE f == SendGoaway(e)
<1>1. /\ SameSending(e, f) /\ f.event_queue = e.event_queue
      /\ f.pending_out = Append(e.pending_out, Goaway(1))
      /\ f.had_output = e.had_output /\ f.output_ready_cb = e.output_ready_cb
  BY DEF SendGoaway, SameSending, SameConnection, EngineSet
<1> HIDE DEF f
<1>2. Goaway(1) \in FrameSet /\ Goaway(1).type = "goaway"
  BY FrameTypesOK DEF Goaway, FrameTypes, Frame
<1>3. e.pending_out \in Seq(FrameSet)
  BY MemberTypes
<1>4. f.pending_out # <<>>
  BY <1>1, <1>2, <1>3
<1>5. ASSUME NEW i \in DOMAIN f.pending_out, f.pending_out[i].type # "goaway"
      PROVE  i \in DOMAIN e.pending_out /\ e.pending_out[i].type # "goaway"
  BY <1>1, <1>2, <1>3, <1>5
<1>6. Signalled(f)
  BY <1>1, <1>4, <1>5 DEF Signalled
<1> QED  BY <1>1, <1>6 DEF f

\* next_event takes an event.
LEMMA NextEventEffect ==
  ASSUME NEW e \in EngineSet, e.event_queue # <<>>
  PROVE  SameSending(e, NextEvent(e)) /\ SameOutput(e, NextEvent(e))
  BY DEF NextEvent, SameSending, SameConnection, SameOutput, EngineSet

\* The transport re-arms the callback exactly when it took everything.
LEMMA OutputEndEffect ==
  ASSUME NEW e \in EngineSet, NEW k \in 1 .. Len(e.pending_out), Signalled(e)
  PROVE  LET f == OutputEnd(e, k) IN
         SameSending(e, f) /\ f.event_queue = e.event_queue /\ Signalled(f)
<1> DEFINE f == OutputEnd(e, k)
<1>1. /\ SameSending(e, f) /\ f.event_queue = e.event_queue
      /\ f.pending_out = SubSeq(e.pending_out, k + 1, Len(e.pending_out))
      /\ f.had_output = (e.had_output /\ k < Len(e.pending_out))
      /\ f.output_ready_cb = e.output_ready_cb
  BY DEF OutputEnd, SameSending, SameConnection, EngineSet
<1> HIDE DEF f
<1>2. e.pending_out \in Seq(FrameSet) /\ Len(e.pending_out) \in Nat
  BY MemberTypes
<1>3. /\ Len(f.pending_out) = Len(e.pending_out) - k
      /\ f.pending_out \in Seq(FrameSet)
      /\ \A i \in 1 .. Len(e.pending_out) - k : f.pending_out[i] = e.pending_out[k + i]
  BY <1>1, <1>2
<1>4. k \in Nat /\ Len(f.pending_out) \in Nat /\ e.had_output \in BOOLEAN
  BY <1>2, <1>3, MemberTypes
<1>5. f.had_output => e.had_output /\ f.pending_out # <<>>
  <2>1. ASSUME f.had_output PROVE k < Len(e.pending_out) /\ e.had_output
    BY <1>1, <2>1
  <2>2. ASSUME f.had_output PROVE Len(f.pending_out) > 0
    BY <1>2, <1>3, <1>4, <2>1, <2>2
  <2> QED  BY <2>1, <2>2
<1>6. ASSUME NEW i \in DOMAIN f.pending_out
      PROVE  /\ k < Len(e.pending_out)
             /\ k + i \in DOMAIN e.pending_out /\ f.pending_out[i] = e.pending_out[k + i]
  <2>1. i \in 1 .. Len(e.pending_out) - k
    BY <1>3
  <2> QED  BY <1>2, <1>3, <1>4, <2>1
<1>7. Signalled(f)
  <2>1. ASSUME f.output_ready_cb, NEW i \in DOMAIN f.pending_out, f.pending_out[i].type # "goaway"
        PROVE  f.had_output
    <3>1. e.had_output
      BY <1>1, <1>6, <2>1 DEF Signalled
    <3> QED  BY <1>1, <1>6, <3>1
  <2> QED  BY <1>5, <2>1 DEF Signalled
<1> QED  BY <1>1, <1>7 DEF f

----------------------------------------------------------------------------
(* Frames from the peer.                                                   *)

\* The preface changes no window; a bad one is reported for stream 0.
LEMMA ReceivePrefaceEffect ==
  ASSUME NEW e \in EngineSet, NEW valid \in BOOLEAN, Signalled(e)
  PROVE  LET f == ReceivePreface(e, valid) IN
         SameSending(e, f) /\ Adds(e, f, {0}) /\ Signalled(f)
<1> DEFINE w     == WriteSettings(e)
           ready == [w EXCEPT !.state = "ready"]
           bad   == [e EXCEPT !.bad_preface = TRUE]
           error == Event("connection_error", 0, 0)
<1>1. SameSending(e, ready) /\ ready.event_queue = e.event_queue /\ Signalled(ready)
  <2>1. w \in EngineSet /\ SameSending(e, w) /\ w.event_queue = e.event_queue /\ Signalled(w)
    BY WriteSettingsLemma, WriteSettingsEffect
  <2> HIDE DEF w
  <2>2. SameSending(w, ready) /\ SameOutput(w, ready) /\ ready.event_queue = w.event_queue
    BY <2>1 DEF SameSending, SameConnection, SameOutput, EngineSet
  <2> HIDE DEF ready
  <2>3. Signalled(ready)
    BY <2>1, <2>2, SameOutputSignals
  <2> QED  BY <2>1, <2>2, <2>3 DEF SameSending, SameConnection
<1>2. SameSending(e, Emit(bad, <<error>>)) /\ Adds(e, Emit(bad, <<error>>), {0})
      /\ Signalled(Emit(bad, <<error>>))
  <2>1. error \in EventSet /\ error.type # "new_stream" /\ error.stream \in {0}
    BY EventTypesOK DEF EventTypes, Event
  <2>2. bad \in EngineSet /\ SameSending(e, bad) /\ SameOutput(e, bad)
        /\ bad.event_queue = e.event_queue
    BY DEF SameSending, SameConnection, SameOutput, EngineSet
  <2> HIDE DEF bad, error
  <2>3. <<error>> \in Seq(EventSet)
    BY <2>1, OneEvent
  <2> DEFINE g == Emit(bad, <<error>>)
  <2>4. g \in EngineSet /\ SameSending(bad, g) /\ SameOutput(bad, g) /\ Adds(bad, g, {0})
    BY <2>1, <2>2, <2>3, EmitLemma, EmitEffect, EmitOneAdds
  <2> HIDE DEF g
  <2>5. Signalled(g)
    BY <2>2, <2>4, SameOutputSignals
  <2>6. SameSending(e, g) /\ Adds(e, g, {0})
    BY <2>2, <2>4 DEF SameSending, SameConnection, Adds
  <2> QED  BY <2>5, <2>6 DEF g
<1>3. ReceivePreface(e, valid) \in {ready, Emit(bad, <<error>>)}
  BY DEF ReceivePreface
<1> HIDE DEF ready
<1>4. Adds(e, ready, {0})
  BY <1>1, AddsNothing
<1> QED  BY <1>1, <1>2, <1>3, <1>4

\* A frame header changes no window, and may end the stream it names.
LEMMA HandleFrameHeaderEffect ==
  ASSUME NEW e \in EngineSet, NEW f \in FrameSet, Signalled(e)
  PROVE  LET g == HandleFrameHeader(e, f) IN
         SameSending(e, g) /\ Signalled(g) /\ Adds(e, g, {f.stream})
         /\ (g.event_queue # e.event_queue => f.len = 0 /\ f.end)
<1> DEFINE closed == Event("stream_closed", f.stream, 0)
<1>1. SettingsAck \in FrameSet
  BY FrameTypesOK DEF SettingsAck, FrameTypes
<1>2. closed \in EventSet /\ closed.type # "new_stream" /\ closed.stream \in {f.stream}
  BY EventTypesOK DEF EventTypes, FrameSet, Event
<1> HIDE DEF closed
<1>3. LET g == Write(e, <<SettingsAck>>) IN
      SameSending(e, g) /\ Signalled(g) /\ g.event_queue = e.event_queue
  <2>1. <<SettingsAck>> \in Seq(FrameSet) /\ <<SettingsAck>> # <<>>
    BY <1>1, OneFrame
  <2> QED  BY <2>1, WriteEffect, WriteSignals
<1>4. LET g == Emit(e, <<closed>>) IN
      SameSending(e, g) /\ Signalled(g) /\ Adds(e, g, {f.stream})
  BY <1>2, OneEvent, EmitEffect, EmitOneAdds, SameOutputSignals
<1>5. SameSending(e, e)
  BY DEF SameSending, SameConnection
<1>6. \/ HandleFrameHeader(e, f) = e
      \/ HandleFrameHeader(e, f) = Write(e, <<SettingsAck>>)
      \/ HandleFrameHeader(e, f) = Emit(e, <<closed>>) /\ f.len = 0 /\ f.end
  BY DEF HandleFrameHeader, closed
<1>7. Adds(e, e, {f.stream}) /\ Adds(e, Write(e, <<SettingsAck>>), {f.stream})
  BY <1>3, AddsNothing
<1> QED  BY <1>3, <1>4, <1>5, <1>6, <1>7

\* The server announces s with its next HEADERS.
Unannounced(e, s) == e.role = "server" /\ ~(e.flow[s].tracked /\ e.flow[s].known)

\* A stream is announced if it was not, and known from then on.
LEMMA AnnounceEffect ==
  ASSUME NEW e \in EngineSet, NEW s \in Streams
  PROVE  LET f == Announce(e, s) IN
         /\ SameConnection(e, f) /\ SameOutput(e, f)
         /\ \A t \in Streams \ {s} : SameStream(e, f, t)
         /\ StreamSendWindow(f, s) = StreamSendWindow(e, s)
         /\ f.flow[s].tracked
         /\ e.role = "server" \/ (e.flow[s].tracked /\ e.flow[s].known) => f.flow[s].known
         /\ f.event_queue = IF Unannounced(e, s)
                            THEN Append(e.event_queue, Event("new_stream", s, 0))
                            ELSE e.event_queue
<1> DEFINE isNew  == e.role = "server" /\ ~StreamEntry(e, s).known
           g      == GetOrInit(e, s)
           x      == [g.flow[s] EXCEPT !.known = @ \/ isNew]
           opened == [g EXCEPT !.flow[s].known = @ \/ isNew]
           new    == Event("new_stream", s, 0)
           events == IF isNew THEN <<new>> ELSE <<>>
           f      == Emit(opened, events)
<1>1. new \in EventSet
  BY EventTypesOK DEF EventTypes
<1> HIDE DEF new
<1>2. events \in Seq(EventSet)
  BY <1>1
<1>3. /\ g \in EngineSet /\ KeepsSending(e, g, s) /\ SameOutput(e, g)
      /\ g.event_queue = e.event_queue /\ g.flow[s] = StreamEntry(e, s)
  BY GetOrInitLemma, GetOrInitEffect
<1>4. isNew = Unannounced(e, s)
  BY <1>3 DEF Unannounced, KeepsSending, Entered
<1>5. g.flow[s].known \/ isNew \/ e.role # "server"
  BY <1>3
<1>6. opened = ReplaceFlow(g, s, x)
  BY DEF ReplaceFlow
<1>7. Announce(e, s) = f
  BY DEF Announce, new
<1> HIDE DEF g, isNew
<1> DEFINE b == g.flow[s].known \/ isNew
<1>8. /\ x \in StreamState /\ x.tracked = g.flow[s].tracked
      /\ x.send_window = g.flow[s].send_window /\ x.known = b
  <2>1. g.flow[s] \in StreamState /\ b \in BOOLEAN
    BY <1>3, FlowTypes
  <2>2. x = [g.flow[s] EXCEPT !.known = b]
    OBVIOUS
  <2> HIDE DEF x, b
  <2> QED  BY <2>1, <2>2 DEF StreamState
<1> HIDE DEF x, opened
<1>9. /\ opened \in EngineSet /\ SameConnection(g, opened) /\ SameOutput(g, opened)
      /\ opened.event_queue = g.event_queue /\ opened.flow[s] = x
      /\ \A t \in Streams \ {s} : SameStream(g, opened, t)
  BY <1>3, <1>6, <1>8, ReplaceFlowEffect
<1> HIDE DEF events
<1>10. /\ SameSending(opened, f) /\ SameOutput(opened, f)
       /\ f.event_queue = opened.event_queue \o events
  BY <1>2, <1>9, EmitEffect
<1> HIDE DEF f
<1>11. SameConnection(e, f) /\ SameOutput(e, f)
  BY <1>3, <1>9, <1>10 DEF KeepsSending, SameConnection, SameOutput, SameSending
<1>12. \A t \in Streams \ {s} : SameStream(e, f, t)
  BY <1>3, <1>9, <1>10, SameSendingStreams DEF KeepsSending, SameStream
<1>13. /\ StreamSendWindow(f, s) = StreamSendWindow(e, s) /\ f.flow[s].tracked
       /\ e.role = "server" \/ (e.flow[s].tracked /\ e.flow[s].known) => f.flow[s].known
  <2>1. f.flow[s] = x /\ g.flow[s].tracked /\ StreamSendWindow(g, s) = StreamSendWindow(e, s)
    BY <1>3, <1>9, <1>10 DEF KeepsSending, Entered, SameSending
  <2>2. f.flow[s].tracked /\ StreamSendWindow(f, s) = StreamSendWindow(e, s)
    BY <1>8, <2>1 DEF StreamSendWindow
  <2>3. f.flow[s].known = b
    BY <1>8, <2>1
  <2>4. e.flow[s].tracked /\ e.flow[s].known => g.flow[s].known
    BY <1>3 DEF KeepsSending, Entered
  <2> QED  BY <1>5, <2>2, <2>3, <2>4 DEF b
<1>14. f.event_queue = IF Unannounced(e, s) THEN Append(e.event_queue, new) ELSE e.event_queue
  <2>1. e.event_queue \in Seq(EventSet)
    BY MemberTypes
  <2>2. f.event_queue = e.event_queue \o events
    BY <1>3, <1>9, <1>10
  <2>3. CASE isNew
    BY <1>1, <1>4, <2>1, <2>2, <2>3 DEF events
  <2>4. CASE ~isNew
    BY <1>4, <2>1, <2>2, <2>4 DEF events
  <2> QED  BY <2>3, <2>4
<1> QED  BY <1>7, <1>11, <1>12, <1>13, <1>14 DEF new

\* After the announcement HEADERS queue events of their stream only.
LEMMA ReceiveHeadersEffect ==
  ASSUME NEW e \in EngineSet, NEW f \in FrameSet, f.stream \in Streams
  PROVE  LET a == Announce(e, f.stream)
             g == ReceiveHeaders(e, f)
         IN
         SameSending(a, g) /\ SameOutput(a, g) /\ Adds(a, g, {f.stream})
<1> DEFINE a      == Announce(e, f.stream)
           h      == Event("headers", f.stream, 0)
           c      == Event("stream_closed", f.stream, 0)
           events == <<h>> \o IF f.end THEN <<c>> ELSE <<>>
<1>1. /\ h \in EventSet /\ h.type # "new_stream" /\ h.stream \in {f.stream}
      /\ c \in EventSet /\ c.type # "new_stream" /\ c.stream \in {f.stream}
  BY EventTypesOK DEF EventTypes, Event
<1>2. a \in EngineSet
  BY AnnounceLemma
<1>3. ReceiveHeaders(e, f) = Emit(a, events)
  BY DEF ReceiveHeaders
<1> HIDE DEF h, c, a
<1>4. /\ events \in Seq(EventSet)
      /\ \A i \in 1 .. Len(events) : events[i].type # "new_stream" /\ events[i].stream \in {f.stream}
  <2>1. CASE f.end
    BY <1>1, <2>1
  <2>2. CASE ~f.end
    BY <1>1, <2>2
  <2> QED  BY <2>1, <2>2
<1> HIDE DEF events
<1> QED  BY <1>2, <1>3, <1>4, EmitEffect, EmitAdds DEF a

----------------------------------------------------------------------------
(* DATA.                                                                   *)

\* What is taken from the receive windows is not taken from the send windows.
LEMMA ReceiveBytesEffect ==
  ASSUME NEW e \in EngineSet, NEW s \in Streams, NEW n \in Nat
  PROVE  LET f == ReceiveBytes(e, s, n) IN
         KeepsSending(e, f, s) /\ SameOutput(e, f) /\ f.event_queue = e.event_queue
<1> DEFINE g == GetOrInit(e, s)
           y == g.flow[s]
           v == g.connection_recv_window - n
           w == y.recv_window - n
           x == [y EXCEPT !.recv_window = w]
           c == [g EXCEPT !.connection_recv_window = v]
           f == ReplaceFlow(c, s, x)
<1>1. /\ g \in EngineSet /\ KeepsSending(e, g, s) /\ SameOutput(e, g)
      /\ g.event_queue = e.event_queue /\ y.tracked
  BY GetOrInitLemma, GetOrInitEffect, StreamEntryLemma
<1>2. ReceiveBytes(e, s, n) = f
  BY DEF ReceiveBytes, ReplaceFlow
<1>3. y \in StreamState /\ v \in Int /\ w \in Int
  BY <1>1, MemberTypes, FlowTypes
<1> HIDE DEF g, v, w
<1>4. /\ c \in EngineSet /\ SameSending(g, c) /\ SameOutput(g, c)
      /\ c.event_queue = g.event_queue
  BY <1>1, <1>3 DEF EngineSet, SameSending, SameConnection, SameOutput
<1> HIDE DEF c
<1>5. c.flow[s] = y
  BY <1>4 DEF SameSending
<1> HIDE DEF y
<1>6. /\ x \in StreamState /\ x.tracked /\ x.known = y.known /\ x.send_window = y.send_window
  BY <1>1, <1>3 DEF StreamState
<1> HIDE DEF x
<1>7. KeepsSending(c, f, s)
  BY <1>1, <1>4, <1>5, <1>6, ReceiveSideEffect
<1>8. SameOutput(c, f) /\ f.event_queue = c.event_queue
  BY <1>4, <1>6, ReplaceFlowEffect
<1> HIDE DEF f
<1>9. KeepsSending(e, f, s)
  BY <1>1, <1>4, <1>7, KeepsSendingSame, KeepsSendingTransitive
<1> QED  BY <1>1, <1>2, <1>4, <1>8, <1>9 DEF SameOutput

\* Credit for the connection is queued and signalled, or kept for later.
LEMMA CreditConnectionEffect ==
  ASSUME NEW e \in EngineSet, NEW n \in Nat, Signalled(e)
  PROVE  LET f == CreditConnection(e, n) IN
         SameSending(e, f) /\ f.event_queue = e.event_queue /\ Signalled(f)
<1> DEFINE consumed == e.connection_consumed + n
           v        == e.connection_recv_window + consumed
           g        == [e EXCEPT !.connection_recv_window = v, !.connection_consumed = 0]
           h        == [e EXCEPT !.connection_consumed = consumed]
           frames   == <<WindowUpdate(0, consumed)>>
<1>1. consumed \in Nat /\ v \in Int
  BY MemberTypes
<1>2. CreditConnection(e, n) = Write(g, frames) \/ CreditConnection(e, n) = h
  BY DEF CreditConnection
<1> HIDE DEF consumed, v
<1>3. frames \in Seq(FrameSet) /\ frames # <<>>
  BY <1>1, FrameTypesOK, OneFrame DEF WindowUpdate, FrameTypes
<1>4. /\ g \in EngineSet /\ SameSending(e, g) /\ SameOutput(e, g)
      /\ g.event_queue = e.event_queue
  BY <1>1 DEF EngineSet, SameSending, SameConnection, SameOutput
<1>5. SameSending(e, h) /\ SameOutput(e, h) /\ h.event_queue = e.event_queue
  BY <1>1 DEF EngineSet, SameSending, SameConnection, SameOutput
<1> HIDE DEF g, h, frames
<1>6. /\ SameSending(g, Write(g, frames)) /\ Write(g, frames).event_queue = g.event_queue
      /\ Signalled(Write(g, frames))
  BY <1>3, <1>4, WriteEffect, WriteSignals, SameOutputSignals
<1>7. SameSending(e, Write(g, frames)) /\ Write(g, frames).event_queue = e.event_queue
  BY <1>4, <1>6 DEF SameSending, SameConnection
<1> QED  BY <1>2, <1>5, <1>6, <1>7, SameOutputSignals

\* The same for a stream.
LEMMA CreditStreamEffect ==
  ASSUME NEW e \in EngineSet, NEW s \in Streams, NEW n \in Nat, e.flow[s].tracked, Signalled(e)
  PROVE  LET f == CreditStream(e, s, n) IN
         KeepsSending(e, f, s) /\ f.event_queue = e.event_queue /\ Signalled(f)
<1> DEFINE y        == e.flow[s]
           consumed == y.consumed_bytes + n
           v        == y.recv_window + consumed
           credited == [y EXCEPT !.recv_window = v, !.consumed_bytes = 0]
           kept     == [y EXCEPT !.consumed_bytes = consumed]
           g        == ReplaceFlow(e, s, credited)
           h        == ReplaceFlow(e, s, kept)
           frames   == <<WindowUpdate(s, consumed)>>
<1>1. y \in StreamState /\ consumed \in Nat /\ v \in Int
  BY FlowTypes
<1>2. CreditStream(e, s, n) = Write(g, frames) \/ CreditStream(e, s, n) = h
  BY DEF CreditStream, ReplaceFlow
<1>3. y = e.flow[s]
  OBVIOUS
<1> HIDE DEF y, consumed, v
<1>4. frames \in Seq(FrameSet) /\ frames # <<>>
  BY <1>1, FrameTypesOK, OneFrame DEF WindowUpdate, FrameTypes
<1>5. /\ credited \in StreamState /\ credited.tracked = y.tracked
      /\ credited.known = y.known /\ credited.send_window = y.send_window
  BY <1>1 DEF StreamState
<1>6. /\ kept \in StreamState /\ kept.tracked = y.tracked
      /\ kept.known = y.known /\ kept.send_window = y.send_window
  BY <1>1 DEF StreamState
<1> HIDE DEF credited, kept, frames
<1>7. /\ g \in EngineSet /\ KeepsSending(e, g, s) /\ SameOutput(e, g)
      /\ g.event_queue = e.event_queue
  BY <1>3, <1>5, ReceiveSideEffect, ReplaceFlowEffect
<1>8. KeepsSending(e, h, s) /\ SameOutput(e, h) /\ h.event_queue = e.event_queue
  BY <1>3, <1>6, ReceiveSideEffect, ReplaceFlowEffect
<1> HIDE DEF g, h
<1>9. /\ SameSending(g, Write(g, frames)) /\ Write(g, frames).event_queue = g.event_queue
      /\ Signalled(Write(g, frames))
  BY <1>4, <1>7, WriteEffect, WriteSignals, SameOutputSignals
<1>10. KeepsSending(e, Write(g, frames), s)
  BY <1>7, <1>9, KeepsSendingSame
<1> QED  BY <1>2, <1>7, <1>8, <1>9, <1>10, SameOutputSignals

\* update_flow_control touches no send window, and complains of the connection only.
LEMMA UpdateFlowControlEffect ==
  ASSUME NEW e \in EngineSet, NEW s \in Streams, NEW n \in Nat, Signalled(e)
  PROVE  LET f == UpdateFlowControl(e, s, n) IN
         f \in EngineSet /\ KeepsSending(e, f, s) /\ Adds(e, f, {0}) /\ Signalled(f)
<1> DEFINE r     == ReceiveBytes(e, s, n)
           error == Event("connection_error", 0, 0)
           c     == CreditConnection(r, n)
           f     == CreditStream(c, s, n)
           g     == Emit(r, <<error>>)
<1>1. /\ r \in EngineSet /\ KeepsSending(e, r, s) /\ r.event_queue = e.event_queue
      /\ Signalled(r) /\ r.flow[s].tracked
  BY ReceiveBytesLemma, ReceiveBytesEffect, SameOutputSignals
<1>2. error \in EventSet /\ error.type # "new_stream" /\ error.stream \in {0}
  BY EventTypesOK DEF EventTypes, Event
<1>3. UpdateFlowControl(e, s, n) = g \/ UpdateFlowControl(e, s, n) = f
  BY DEF UpdateFlowControl
<1> HIDE DEF r, error
<1>4. g \in EngineSet /\ SameSending(r, g) /\ SameOutput(r, g) /\ Adds(r, g, {0})
  BY <1>1, <1>2, OneEvent, EmitLemma, EmitEffect, EmitOneAdds
<1>5. /\ c \in EngineSet /\ SameSending(r, c) /\ c.event_queue = r.event_queue /\ Signalled(c)
      /\ c.flow[s] = r.flow[s]
  BY <1>1, CreditConnectionLemma, CreditConnectionEffect
<1> HIDE DEF c
<1>6. f \in EngineSet /\ KeepsSending(c, f, s) /\ f.event_queue = c.event_queue /\ Signalled(f)
  BY <1>1, <1>5, CreditStreamLemma, CreditStreamEffect
<1> HIDE DEF f, g
<1>7. KeepsSending(e, g, s) /\ Adds(e, g, {0}) /\ Signalled(g)
  BY <1>1, <1>4, KeepsSendingSame, SameOutputSignals DEF Adds
<1>8. KeepsSending(e, f, s)
  BY <1>1, <1>5, <1>6, KeepsSendingSame, KeepsSendingTransitive
<1>9. Adds(e, f, {0})
  BY <1>1, <1>5, <1>6, AddsNothing
<1> QED  BY <1>3, <1>4, <1>6, <1>7, <1>8, <1>9

\* DATA touches no send window but that of a stream it ends, which is forgotten.
LEMMA ReceiveDataEffect ==
  ASSUME NEW e \in EngineSet, NEW f \in FrameSet, f.stream \in Streams, NEW n \in Nat, Signalled(e)
  PROVE  LET g == ReceiveData(e, f, n)
             s == f.stream
         IN
         /\ SameConnection(e, g)
         /\ \A t \in Streams \ {s} : SameStream(e, g, t)
         /\ IF f.end THEN ~g.flow[s].tracked /\ ~g.flow[s].known ELSE Entered(e, g, s)
         /\ Adds(e, g, {s, 0})
         /\ Signalled(g)
<1> DEFINE s      == f.stream
           data   == Event("data", s, n)
           closed == Event("stream_closed", s, 0)
           d      == Emit(e, <<data>>)
           a      == UpdateFlowControl(d, s, n)
           b      == ReplaceFlow(a, s, Untracked)
           g      == Emit(b, <<closed>>)
<1>1. /\ data \in EventSet /\ data.type # "new_stream" /\ data.stream = s
      /\ closed \in EventSet /\ closed.type # "new_stream" /\ closed.stream = s
  BY EventTypesOK DEF EventTypes, Event
<1>2. Untracked \in StreamState /\ ~Untracked.tracked /\ ~Untracked.known
  BY DEF Untracked, StreamState
<1>3. ReceiveData(e, f, n) = IF f.end THEN g ELSE a
  BY DEF ReceiveData, ReplaceFlow
<1> HIDE DEF data, closed
<1>4. d \in EngineSet /\ SameSending(e, d) /\ Adds(e, d, {s, 0}) /\ Signalled(d)
  BY <1>1, OneEvent, EmitLemma, EmitEffect, EmitOneAdds, SameOutputSignals
<1> HIDE DEF d
<1>5. a \in EngineSet /\ KeepsSending(d, a, s) /\ Adds(d, a, {0}) /\ Signalled(a)
  BY <1>4, UpdateFlowControlEffect
<1> HIDE DEF a
<1>6. KeepsSending(e, a, s)
  BY <1>4, <1>5, KeepsSendingSame
<1>7. Adds(e, a, {s, 0})
  <2>1. Adds(d, a, {s, 0})
    BY <1>5 DEF Adds
  <2> QED  BY <1>4, <1>5, <2>1, AddsTransitive
<1>8. /\ b \in EngineSet /\ SameConnection(a, b) /\ SameOutput(a, b)
      /\ b.event_queue = a.event_queue /\ b.flow[s] = Untracked
      /\ \A t \in Streams \ {s} : SameStream(a, b, t)
  BY <1>2, <1>5, ReplaceFlowEffect
<1> HIDE DEF b
<1>9. g \in EngineSet /\ SameSending(b, g) /\ SameOutput(b, g) /\ Adds(b, g, {s, 0})
  BY <1>1, <1>8, OneEvent, EmitLemma, EmitEffect, EmitOneAdds
<1> HIDE DEF g
<1>10. SameConnection(e, g)
  BY <1>6, <1>8, <1>9 DEF KeepsSending, SameConnection, SameSending
<1>11. \A t \in Streams \ {s} : SameStream(e, g, t)
  BY <1>6, <1>8, <1>9, SameSendingStreams DEF KeepsSending, SameStream
<1>12. ~g.flow[s].tracked /\ ~g.flow[s].known
  BY <1>2, <1>8, <1>9 DEF SameSending
<1>13. Signalled(g)
  BY <1>5, <1>8, <1>9, SameOutputSignals
<1>14. Adds(e, g, {s, 0})
  <2>1. Adds(a, b, {s, 0})
    BY <1>5, <1>8, AddsNothing
  <2> QED  BY <1>5, <1>7, <1>8, <1>9, <2>1, AddsTransitive
<1> QED  BY <1>3, <1>5, <1>6, <1>7, <1>10, <1>11, <1>12, <1>13, <1>14 DEF KeepsSending

----------------------------------------------------------------------------
(* Wakeups.                                                                *)

\* g's queue gained a stream_window_available of every stream of S.
Wakes(e, g, S) ==
  \A s \in S : \E i \in Len(e.event_queue) + 1 .. Len(g.event_queue) :
    g.event_queue[i].type = "stream_window_available" /\ g.event_queue[i].stream = s

\* A walk over the hash map visits every stream of the set.
LEMMA IterationOrdersCover ==
  ASSUME NEW S \in SUBSET Streams, NEW q \in IterationOrders(S)
  PROVE  \A s \in S : \E i \in 1 .. Len(q) : q[i] = s
<1> DEFINE n == Cardinality(S)
<1>1. IsFiniteSet(S) /\ n \in Nat
  BY StreamsAssumption, FS_Subset, FS_CardinalityType
<1>2. q \in [1 .. n -> S] /\ \A i, j \in 1 .. n : q[i] = q[j] => i = j
  BY DEF IterationOrders
<1> HIDE DEF n
<1>3. q \in Injection(1 .. n, S)
  BY <1>2, Fun_IsInj
<1>4. Cardinality(1 .. n) = n
  BY <1>1, FS_Interval
<1>5. q \in Surjection(1 .. n, S)
  BY <1>1, <1>3, <1>4, FS_Injection DEF n
<1>6. \A s \in S : \E i \in 1 .. n : q[i] = s
  BY <1>5 DEF Surjection
<1>7. Len(q) = n
  BY <1>1, <1>2
<1> QED  BY <1>6, <1>7

\* So every stream of the set is woken, and no other.
LEMMA WindowAvailableWakes ==
  ASSUME NEW e \in EngineSet, NEW S \in SUBSET Streams, NEW q \in IterationOrders(S),
         NEW events \in Seq(EventSet), NEW T,
         \A i \in 1 .. Len(events) : events[i].type # "new_stream" /\ events[i].stream \in T
  PROVE  LET g == Emit(e, events \o WindowAvailable(q)) IN
         Wakes(e, g, S) /\ Adds(e, g, S \union T)
<1> DEFINE w   == WindowAvailable(q)
           all == events \o w
           g   == Emit(e, all)
<1>1. q \in Seq(Streams) /\ w \in Seq(EventSet)
  BY IterationOrdersType
<1>2. /\ Len(w) = Len(q) /\ Len(q) \in Nat
      /\ \A i \in 1 .. Len(q) : w[i].type = "stream_window_available" /\ w[i].stream = q[i]
  BY <1>1 DEF WindowAvailable, Event
<1>3. \A i \in 1 .. Len(q) : q[i] \in S
  <2>1. Cardinality(S) \in Nat /\ q \in [1 .. Cardinality(S) -> S]
    BY StreamsAssumption, FS_Subset, FS_CardinalityType DEF IterationOrders
  <2> QED  BY <2>1
<1> HIDE DEF w
<1>4. all \in Seq(EventSet) /\ e.event_queue \in Seq(EventSet)
  BY <1>1, MemberTypes
<1>5. /\ Len(events) \in Nat /\ Len(all) = Len(events) + Len(w)
      /\ \A i \in 1 .. Len(events) : all[i] = events[i]
      /\ \A i \in 1 .. Len(w) : all[Len(events) + i] = w[i]
  BY <1>1
<1>6. \A i \in Len(events) + 1 .. Len(all) : i - Len(events) \in 1 .. Len(w) /\ all[i] = w[i - Len(events)]
  BY <1>1, <1>2, <1>5
<1>7. \A i \in 1 .. Len(all) : all[i].type # "new_stream" /\ all[i].stream \in S \union T
  <2> TAKE i \in 1 .. Len(all)
  <2>1. CASE i \in 1 .. Len(events)
    BY <1>5, <2>1
  <2>2. CASE i \in Len(events) + 1 .. Len(all)
    BY <1>2, <1>3, <1>6, <2>2
  <2> QED  BY <1>5, <2>1, <2>2
<1> HIDE DEF all
<1>8. Adds(e, g, S \union T)
  BY <1>4, <1>7, EmitAdds
<1>9. /\ Len(e.event_queue) \in Nat /\ Len(g.event_queue) = Len(e.event_queue) + Len(all)
      /\ \A i \in 1 .. Len(all) : g.event_queue[Len(e.event_queue) + i] = all[i]
  <2>1. g.event_queue = e.event_queue \o all
    BY <1>4, EmitLemma
  <2> HIDE DEF g
  <2> QED  BY <1>4, <2>1
<1> HIDE DEF g
<1>10. ASSUME NEW s \in S
       PROVE  \E i \in Len(e.event_queue) + 1 .. Len(g.event_queue) :
                /\ g.event_queue[i].type = "stream_window_available"
                /\ g.event_queue[i].stream = s
  <2>1. PICK i \in 1 .. Len(q) : q[i] = s
    BY IterationOrdersCover
  <2> DEFINE k == Len(events) + i
             j == Len(e.event_queue) + k
  <2>2. k \in 1 .. Len(all) /\ all[k] = w[i]
    BY <1>2, <1>5
  <2>3. j \in Len(e.event_queue) + 1 .. Len(g.event_queue) /\ g.event_queue[j] = all[k]
    <3>1. g.event_queue[Len(e.event_queue) + k] = all[k]
      BY <1>9, <2>2
    <3> HIDE DEF k
    <3> QED  BY <1>9, <2>2, <3>1
  <2>4. g.event_queue[j].type = "stream_window_available" /\ g.event_queue[j].stream = s
    BY <1>2, <2>1, <2>2, <2>3
  <2> QED  BY <2>3, <2>4
<1>11. Wakes(e, g, S)
  BY <1>10 DEF Wakes
<1> QED  BY <1>8, <1>11 DEF g, all, w

\* A queue that gains no new_stream, for streams in more than one set.
LEMMA AddsMore ==
  ASSUME NEW e, NEW g, NEW S, NEW T, S \subseteq T, Adds(e, g, S)
  PROVE  Adds(e, g, T)
  BY DEF Adds

\* The flow state of t outlives the call, and is known if it was.
KeepsEntry(e, g, t) ==
  /\ e.flow[t].tracked => g.flow[t].tracked
  /\ e.flow[t].tracked /\ e.flow[t].known => g.flow[t].known
  /\ (e.flow[t].known => e.flow[t].tracked) => (g.flow[t].known => g.flow[t].tracked)

\* g has the flow states of e, and may have gained those of S.
KeepsEntries(e, g, S) ==
  \A t \in Streams : KeepsEntry(e, g, t) /\ (g.flow[t].tracked => e.flow[t].tracked \/ t \in S)

LEMMA SameSendingKeeps ==
  ASSUME NEW e \in EngineSet, NEW g, SameSending(e, g), NEW S
  PROVE  KeepsEntries(e, g, S)
  BY DEF SameSending, KeepsEntries, KeepsEntry

LEMMA KeepsSendingKeeps ==
  ASSUME NEW e \in EngineSet, NEW g \in EngineSet, NEW s \in Streams, KeepsSending(e, g, s)
  PROVE  KeepsEntries(e, g, {s})
  BY FlowTypes DEF KeepsSending, SameStream, Entered, KeepsEntries, KeepsEntry

\* s may be sent on.
MaySend(e, s) == e.connection_send_window > 0 /\ StreamSendWindow(e, s) > 0

\* Every stream that may be sent on in g and could not in e is one of S.
Raises(e, g, S) ==
  \A t \in Tracked(e) : MaySend(g, t) => MaySend(e, t) \/ t \in S

\* WINDOW_UPDATE raises one window, and wakes the streams it opens.
LEMMA HandleWindowUpdateEffect ==
  ASSUME NEW e \in EngineSet, NEW f \in FrameSet, f.type = "window_update",
         NEW q \in IterationOrders(Woken(e, f)), Signalled(e)
  PROVE  LET g == HandleWindowUpdate(e, f, q) IN
         /\ g.role = e.role /\ g.next_stream_id = e.next_stream_id
         /\ g.peer_initial_window_size = e.peer_initial_window_size
         /\ IF f.stream = 0 THEN g.connection_send_window = e.connection_send_window + f.val
                            ELSE g.connection_send_window = e.connection_send_window
         /\ \A t \in Streams : IF t = f.stream
                               THEN StreamSendWindow(g, t) = StreamSendWindow(e, t) + f.val
                               ELSE StreamSendWindow(g, t) = StreamSendWindow(e, t)
         /\ KeepsEntries(e, g, {f.stream})
         /\ Adds(e, g, Woken(e, f) \union {0})
         /\ f.val # 0 => Wakes(e, g, Woken(e, f))
         /\ Raises(e, g, IF f.val = 0 THEN {} ELSE Woken(e, f))
         /\ Signalled(g)
<1> DEFINE g == HandleWindowUpdate(e, f, q)
           W == Woken(e, f)
<1>1. f.val \in Nat /\ f.stream \in Streams \union {0} /\ W \in SUBSET Streams /\ 0 \notin Streams
  BY WokenType, StreamsAssumption DEF FrameSet
<1>2. /\ e.connection_send_window \in Int
      /\ \A t \in Streams : StreamSendWindow(e, t) \in Int
  BY MemberTypes, FlowTypes DEF StreamSendWindow
<1>3. CASE f.val = 0
  <2> DEFINE error == Event("connection_error", 0, 0)
  <2>1. error \in EventSet /\ error.type # "new_stream" /\ error.stream \in W \union {0}
    BY EventTypesOK DEF EventTypes, Event
  <2>2. g = Emit(e, <<error>>)
    BY <1>3 DEF HandleWindowUpdate
  <2> HIDE DEF error, W
  <2>3. SameSending(e, g) /\ SameOutput(e, g) /\ Adds(e, g, W \union {0})
    BY <2>1, <2>2, OneEvent, EmitEffect, EmitOneAdds
  <2> HIDE DEF g
  <2>4. \A t \in Streams : StreamSendWindow(g, t) = StreamSendWindow(e, t)
    BY <2>3, SameSendingStreams DEF SameStream
  <2>5. \A t \in Streams : StreamSendWindow(e, t) + f.val = StreamSendWindow(e, t)
    BY <1>2, <1>3
  <2>6. e.connection_send_window + f.val = e.connection_send_window
    BY <1>2, <1>3
  <2>7. Raises(e, g, {})
    BY <2>3, <2>4 DEF Raises, MaySend, SameSending, SameConnection, Tracked
  <2>8. KeepsEntries(e, g, {f.stream}) /\ Signalled(g) /\ SameConnection(e, g)
    BY <2>3, SameSendingKeeps, SameOutputSignals DEF SameSending
  <2> QED  BY <1>3, <2>3, <2>4, <2>5, <2>6, <2>7, <2>8 DEF SameConnection, W, g
<1>4. CASE f.val # 0 /\ f.stream = 0
  <2> DEFINE v      == e.connection_send_window + f.val
             opened == [e EXCEPT !.connection_send_window = v]
             ready  == Event("connection_window_available", 0, 0)
             events == IF ConnectionOpened(e, f.val) THEN <<ready>> ELSE <<>>
  <2>1. /\ opened \in EngineSet /\ opened.event_queue = e.event_queue
        /\ SameOutput(e, opened) /\ opened.flow = e.flow
        /\ opened.role = e.role /\ opened.next_stream_id = e.next_stream_id
        /\ opened.peer_initial_window_size = e.peer_initial_window_size
        /\ opened.connection_send_window = v
    <3>1. v \in Int
      BY <1>1, <1>2
    <3> HIDE DEF v
    <3> QED  BY <3>1 DEF EngineSet, SameOutput
  <2>2. ready \in EventSet /\ ready.type # "new_stream" /\ ready.stream \in {0}
    BY EventTypesOK DEF EventTypes, Event
  <2>3. g = Emit(opened, events \o WindowAvailable(q))
    BY <1>4 DEF HandleWindowUpdate
  <2>4. W = WokenByConnection(e, f.val)
    BY <1>4 DEF Woken
  <2> HIDE DEF ready
  <2>5. events \in Seq(EventSet)
    BY <2>2
  <2>6. \A i \in 1 .. Len(events) : events[i].type # "new_stream" /\ events[i].stream \in {0}
    BY <2>2
  <2> HIDE DEF events, opened, W
  <2>7. Wakes(opened, g, W) /\ Adds(opened, g, W \union {0})
    <3>1. LET k == Emit(opened, events \o WindowAvailable(q)) IN
          Wakes(opened, k, W) /\ Adds(opened, k, W \union {0})
      <4>1. W \in SUBSET Streams /\ q \in IterationOrders(W)
        BY <1>1 DEF W
      <4> HIDE DEF g
      <4> QED  BY <2>1, <2>5, <2>6, <4>1, WindowAvailableWakes
    <3> QED  BY <2>3, <3>1
  <2>8. Wakes(e, g, W) /\ Adds(e, g, W \union {0})
    BY <2>1, <2>7 DEF Wakes, Adds
  <2>9. events \o WindowAvailable(q) \in Seq(EventSet)
    BY <1>1, <2>5, IterationOrdersType DEF W
  <2>10. SameSending(opened, g) /\ SameOutput(opened, g)
    BY <2>1, <2>3, <2>9, EmitEffect
  <2> HIDE DEF g
  <2>11. /\ g.role = e.role /\ g.next_stream_id = e.next_stream_id
         /\ g.peer_initial_window_size = e.peer_initial_window_size
         /\ g.connection_send_window = v /\ g.flow = e.flow
    BY <2>1, <2>10 DEF SameSending, SameConnection
  <2>12. \A t \in Streams : StreamSendWindow(g, t) = StreamSendWindow(e, t)
    BY <2>11 DEF StreamSendWindow
  <2>13. KeepsEntries(e, g, {f.stream})
    BY <2>11 DEF KeepsEntries, KeepsEntry
  <2>14. Signalled(g)
    BY <2>1, <2>10, SameOutputSignals
  <2>15. Raises(e, g, W)
    <3> SUFFICES ASSUME NEW t \in Tracked(e), MaySend(g, t), ~MaySend(e, t)
                 PROVE  t \in W
      BY DEF Raises
    <3>1. t \in Streams /\ e.flow[t].tracked /\ StreamSendWindow(e, t) = e.flow[t].send_window
      BY DEF Tracked, StreamSendWindow
    <3>2. e.flow[t].send_window > 0 /\ v > 0 /\ ~(e.connection_send_window > 0)
      BY <2>11, <2>12, <3>1 DEF MaySend
    <3>3. ConnectionOpened(e, f.val)
      BY <1>2, <3>2 DEF ConnectionOpened
    <3> QED  BY <2>4, <3>2, <3>3 DEF WokenByConnection
  <2>16. \A t \in Streams : t # f.stream
    BY <1>1, <1>4
  <2> QED  BY <1>4, <2>8, <2>11, <2>12, <2>13, <2>14, <2>15, <2>16 DEF W, g
<1>5. CASE f.val # 0 /\ f.stream # 0
  <2> DEFINE s == f.stream
             c == GetOrInit(e, s)
             y == c.flow[s]
             w == y.send_window + f.val
             x == [y EXCEPT !.send_window = w]
             h == ReplaceFlow(c, s, x)
  <2>1. s \in Streams
    BY <1>1, <1>5
  <2>2. g = Emit(h, WindowAvailable(q))
    BY <1>5 DEF HandleWindowUpdate, ReplaceFlow
  <2>3. W = WokenByStream(e, s, f.val)
    BY <1>5 DEF Woken
  <2>4. /\ c \in EngineSet /\ KeepsSending(e, c, s) /\ SameOutput(e, c)
        /\ c.event_queue = e.event_queue
        /\ y = StreamEntry(e, s) /\ y \in StreamState /\ y.tracked
    BY <2>1, GetOrInitLemma, GetOrInitEffect, StreamEntryLemma
  <2> HIDE DEF c, W
  <2>5. x \in StreamState /\ x.tracked /\ x.known = y.known /\ x.send_window = w
    <3>1. w \in Int
      BY <1>1, <2>4 DEF StreamState
    <3> HIDE DEF w
    <3> QED  BY <2>4, <3>1 DEF StreamState
  <2>6. /\ h \in EngineSet /\ SameConnection(c, h) /\ SameOutput(c, h)
        /\ h.event_queue = c.event_queue /\ h.flow[s] = x
        /\ \A t \in Streams \ {s} : SameStream(c, h, t)
    <3> HIDE DEF x, y, g
    <3> QED  BY <2>1, <2>4, <2>5, ReplaceFlowEffect
  <2>7. StreamSendWindow(e, s) = y.send_window /\ y.known = (e.flow[s].tracked /\ e.flow[s].known)
    BY <2>4 DEF KeepsSending, Entered, StreamSendWindow
  <2> HIDE DEF h, x, y
  <2>8. WindowAvailable(q) \in Seq(EventSet)
    BY <1>1, IterationOrdersType DEF W
  <2>9. SameSending(h, g) /\ SameOutput(h, g)
    BY <2>2, <2>6, <2>8, EmitEffect
  <2>10. Wakes(h, g, W) /\ Adds(h, g, W \union {0})
    <3> DEFINE none == <<>>
    <3>1. none \in Seq(EventSet)
      OBVIOUS
    <3>2. \A i \in 1 .. Len(none) : none[i].type # "new_stream" /\ none[i].stream \in {0}
      OBVIOUS
    <3>3. none \o WindowAvailable(q) = WindowAvailable(q)
      BY <2>8
    <3> HIDE DEF none
    <3>4. LET k == Emit(h, none \o WindowAvailable(q)) IN Wakes(h, k, W) /\ Adds(h, k, W \union {0})
      BY <1>1, <2>6, <3>1, <3>2, WindowAvailableWakes DEF W
    <3> QED  BY <2>2, <3>3, <3>4
  <2> HIDE DEF g
  <2>11. Wakes(e, g, W) /\ Adds(e, g, W \union {0})
    BY <2>4, <2>6, <2>10 DEF Wakes, Adds
  <2>12. SameConnection(e, g)
    BY <2>4, <2>6, <2>9 DEF KeepsSending, SameConnection, SameSending
  <2>13. \A t \in Streams \ {s} : SameStream(e, g, t)
    BY <2>4, <2>6, <2>9, SameSendingStreams DEF KeepsSending, SameStream
  <2>14. /\ g.flow[s].tracked /\ StreamSendWindow(g, s) = StreamSendWindow(e, s) + f.val
         /\ g.flow[s].known = (e.flow[s].tracked /\ e.flow[s].known)
    BY <2>5, <2>6, <2>7, <2>9 DEF SameSending, StreamSendWindow, w
  <2>15. KeepsEntries(e, g, {s})
    <3>1. KeepsEntry(e, g, s)
      BY <2>14 DEF KeepsEntry
    <3>2. \A t \in Streams \ {s} : KeepsEntry(e, g, t) /\ g.flow[t].tracked = e.flow[t].tracked
      BY <2>13 DEF KeepsEntry, SameStream
    <3> QED  BY <3>1, <3>2 DEF KeepsEntries
  <2>16. Signalled(g)
    BY <2>4, <2>6, <2>9, SameOutputSignals
  <2>17. Raises(e, g, W)
    <3> SUFFICES ASSUME NEW t \in Tracked(e), MaySend(g, t), ~MaySend(e, t)
                 PROVE  t \in W
      BY DEF Raises
    <3>1. t \in Streams /\ e.connection_send_window > 0 /\ ~(StreamSendWindow(e, t) > 0)
      BY <2>12 DEF Tracked, MaySend, SameConnection
    <3>2. t = s
      BY <2>13, <3>1 DEF MaySend, SameStream
    <3>3. StreamEntry(e, s).send_window = StreamSendWindow(e, s)
      BY <2>4, <2>7
    <3>4. StreamSendWindow(e, s) + f.val > 0
      BY <2>14, <3>2 DEF MaySend
    <3>5. StreamSendWindow(e, s) <= 0
      BY <1>2, <3>1, <3>2
    <3> QED  BY <2>3, <3>1, <3>2, <3>3, <3>4, <3>5 DEF WokenByStream
  <2>18. \A t \in Streams : t # s => StreamSendWindow(g, t) = StreamSendWindow(e, t)
    BY <2>13 DEF SameStream
  <2> QED  BY <1>5, <2>11, <2>12, <2>14, <2>15, <2>16, <2>17, <2>18 DEF W, g, SameConnection
<1> QED  BY <1>3, <1>4, <1>5

\* A new INITIAL_WINDOW_SIZE moves every send window by the difference, and
\* wakes the streams it opens.
LEMMA ApplyPeerInitialWindowSizeEffect ==
  ASSUME NEW e \in EngineSet, NEW size \in Nat, NEW q \in IterationOrders(WokenBySettings(e, size)),
         Signalled(e)
  PROVE  LET g == ApplyPeerInitialWindowSize(e, size, q)
             W == WokenBySettings(e, size)
         IN
         /\ g.role = e.role /\ g.next_stream_id = e.next_stream_id
         /\ g.connection_send_window = e.connection_send_window
         /\ \A t \in Streams : StreamSendWindow(g, t)
                                 = StreamSendWindow(e, t) + size - e.peer_initial_window_size
         /\ KeepsEntries(e, g, {})
         /\ Adds(e, g, W)
         /\ Wakes(e, g, W)
         /\ Raises(e, g, W)
         /\ Signalled(g)
<1> DEFINE W        == WokenBySettings(e, size)
           old      == e.peer_initial_window_size
           moved(t) == [e.flow[t] EXCEPT !.send_window = @ + size - old]
           flow     == [t \in Streams |-> IF e.flow[t].tracked THEN moved(t) ELSE e.flow[t]]
           m        == [e EXCEPT !.peer_initial_window_size = size, !.flow = flow]
           g        == ApplyPeerInitialWindowSize(e, size, q)
<1>1. W \in SUBSET Streams /\ old \in Int
  BY MemberTypes DEF WokenBySettings, Tracked
<1>2. g = Emit(m, WindowAvailable(q))
  BY DEF ApplyPeerInitialWindowSize
<1>3. ASSUME NEW t \in Streams
      PROVE  /\ moved(t) \in StreamState
             /\ moved(t).tracked = e.flow[t].tracked /\ moved(t).known = e.flow[t].known
             /\ moved(t).send_window = e.flow[t].send_window + size - old
  <2> DEFINE w == e.flow[t].send_window + size - old
  <2>1. w \in Int /\ e.flow[t] \in StreamState
    BY <1>1, FlowTypes
  <2> HIDE DEF w
  <2>2. LET x == [e.flow[t] EXCEPT !.send_window = w] IN
        x \in StreamState /\ x.tracked = e.flow[t].tracked /\ x.known = e.flow[t].known
        /\ x.send_window = w
    BY <2>1 DEF StreamState
  <2> QED  BY <2>2 DEF w
<1> HIDE DEF moved
<1>4. \A t \in Streams : e.flow[t] \in StreamState
  BY FlowTypes
<1>5. flow \in [Streams -> StreamState]
  BY <1>3, <1>4
<1>6. \A t \in Streams : flow[t] = IF e.flow[t].tracked THEN moved(t) ELSE e.flow[t]
  OBVIOUS
<1> HIDE DEF flow
<1>7. /\ m \in EngineSet /\ m.flow = flow /\ m.role = e.role
      /\ m.next_stream_id = e.next_stream_id
      /\ m.connection_send_window = e.connection_send_window
      /\ m.peer_initial_window_size = size
      /\ m.event_queue = e.event_queue /\ SameOutput(e, m)
  BY <1>5 DEF EngineSet, SameOutput
<1> HIDE DEF m, g
<1>8. WindowAvailable(q) \in Seq(EventSet)
  BY <1>1, IterationOrdersType
<1>9. SameSending(m, g) /\ SameOutput(m, g)
  BY <1>2, <1>7, <1>8, EmitEffect
<1>10. Wakes(m, g, W) /\ Adds(m, g, W)
  <2> DEFINE none == <<>>
  <2>1. none \in Seq(EventSet)
    OBVIOUS
  <2>2. \A i \in 1 .. Len(none) : none[i].type # "new_stream" /\ none[i].stream \in {}
    OBVIOUS
  <2>3. none \o WindowAvailable(q) = WindowAvailable(q)
    BY <1>8
  <2> HIDE DEF none
  <2>4. LET k == Emit(m, none \o WindowAvailable(q)) IN Wakes(m, k, W) /\ Adds(m, k, W \union {})
    <3> HIDE DEF W
    <3> QED  BY <1>1, <1>7, <2>1, <2>2, WindowAvailableWakes DEF W
  <2>5. W \union {} = W
    OBVIOUS
  <2> QED  BY <1>2, <2>3, <2>4, <2>5
<1>11. Wakes(e, g, W) /\ Adds(e, g, W)
  BY <1>7, <1>10 DEF Wakes, Adds
<1>12. /\ g.role = e.role /\ g.next_stream_id = e.next_stream_id
       /\ g.connection_send_window = e.connection_send_window
       /\ g.peer_initial_window_size = size /\ g.flow = flow
  BY <1>7, <1>9 DEF SameSending, SameConnection
<1>13. \A t \in Streams : g.flow[t].tracked = e.flow[t].tracked /\ g.flow[t].known = e.flow[t].known
  BY <1>3, <1>6, <1>12
<1>14. ASSUME NEW t \in Streams
       PROVE  StreamSendWindow(g, t) = StreamSendWindow(e, t) + size - old
  <2>1. CASE e.flow[t].tracked
    BY <1>3, <1>6, <1>12, <1>13, <2>1 DEF StreamSendWindow
  <2>2. CASE ~e.flow[t].tracked
    <3>1. StreamSendWindow(g, t) = size /\ StreamSendWindow(e, t) = old
      BY <1>12, <1>13, <2>2 DEF StreamSendWindow
    <3>2. size = old + size - old
      BY <1>1
    <3> QED  BY <3>1, <3>2
  <2> QED  BY <2>1, <2>2
<1>15. KeepsEntries(e, g, {})
  BY <1>13 DEF KeepsEntries, KeepsEntry
<1>16. Signalled(g)
  BY <1>7, <1>9, SameOutputSignals
<1>17. Raises(e, g, W)
  <2> SUFFICES ASSUME NEW t \in Tracked(e), MaySend(g, t), ~MaySend(e, t)
               PROVE  t \in W
    BY DEF Raises
  <2>1. t \in Streams /\ e.flow[t].tracked /\ StreamSendWindow(e, t) = e.flow[t].send_window
    BY DEF Tracked, StreamSendWindow
  <2>2. e.connection_send_window > 0 /\ ~(e.flow[t].send_window > 0)
    BY <1>12, <2>1 DEF MaySend
  <2>3. e.flow[t].send_window <= 0
    BY <2>1, <2>2, FlowTypes
  <2>4. e.flow[t].send_window + size - old > 0
    BY <1>14, <2>1 DEF MaySend
  <2> QED  BY <2>2, <2>3, <2>4 DEF WokenBySettings
<1> QED  BY <1>11, <1>12, <1>14, <1>15, <1>16, <1>17 DEF g, W, old

\* GOAWAY moves no window and is reported for stream 0.
LEMMA HandleGoawayEffect ==
  ASSUME NEW e \in EngineSet, NEW f \in FrameSet, f.val \in 0 .. 2, Signalled(e)
  PROVE  LET g == HandleGoaway(e, f) IN
         SameSending(e, g) /\ Adds(e, g, {0}) /\ Signalled(g)
<1> DEFINE r      == [e EXCEPT !.goaway_received = TRUE]
           goaway == Event("goaway", 0, 0)
           error  == Event("connection_error", 0, 0)
           a      == Emit(r, <<goaway>>)
           b      == Emit(e, <<error>>)
<1>1. /\ goaway \in EventSet /\ goaway.type # "new_stream" /\ goaway.stream \in {0}
      /\ error \in EventSet /\ error.type # "new_stream" /\ error.stream \in {0}
  BY EventTypesOK DEF EventTypes, Event
<1>2. HandleGoaway(e, f) = e \/ HandleGoaway(e, f) = a \/ HandleGoaway(e, f) = b
  BY DEF HandleGoaway
<1>3. r \in EngineSet /\ SameSending(e, r) /\ SameOutput(e, r) /\ r.event_queue = e.event_queue
  BY DEF EngineSet, SameSending, SameConnection, SameOutput
<1> HIDE DEF r, goaway, error
<1>4. SameSending(r, a) /\ SameOutput(r, a) /\ Adds(r, a, {0})
  BY <1>1, <1>3, OneEvent, EmitEffect, EmitOneAdds
<1>5. SameSending(e, b) /\ SameOutput(e, b) /\ Adds(e, b, {0})
  BY <1>1, OneEvent, EmitEffect, EmitOneAdds
<1> HIDE DEF a, b
<1>6. SameSending(e, a) /\ Adds(e, a, {0}) /\ Signalled(a)
  BY <1>3, <1>4, SameOutputSignals DEF SameSending, SameConnection, Adds
<1>7. SameSending(e, e) /\ Adds(e, e, {0})
  BY AddsNothing DEF SameSending, SameConnection
<1> QED  BY <1>2, <1>5, <1>6, <1>7, SameOutputSignals

\* RST_STREAM is reported for its stream.
LEMMA ResetEffect ==
  ASSUME NEW e \in EngineSet, NEW s \in Streams, Signalled(e)
  PROVE  LET g == Emit(e, <<Event("stream_reset", s, 0)>>) IN
         SameSending(e, g) /\ Adds(e, g, {s}) /\ Signalled(g)
<1> DEFINE reset == Event("stream_reset", s, 0)
<1>1. reset \in EventSet /\ reset.type # "new_stream" /\ reset.stream \in {s}
  BY EventTypesOK DEF EventTypes, Event
<1> HIDE DEF reset
<1>2. LET g == Emit(e, <<reset>>) IN SameSending(e, g) /\ SameOutput(e, g) /\ Adds(e, g, {s})
  BY <1>1, OneEvent, EmitEffect, EmitOneAdds
<1>3. Signalled(Emit(e, <<reset>>))
  BY <1>2, SameOutputSignals
<1> QED  BY <1>2, <1>3 DEF reset

\* A body that is cut short used up a window.
LEMMA CutShort ==
  ASSUME NEW e \in EngineSet, NEW s \in Streams, NEW n \in Nat, Accepted(e, s, n) # n
  PROVE  \/ e.connection_send_window - Accepted(e, s, n) <= 0
         \/ StreamSendWindow(e, s) - Accepted(e, s, n) <= 0
<1> DEFINE c == e.connection_send_window
           w == StreamSendWindow(e, s)
<1>1. c \in Int /\ w \in Int
  BY MemberTypes, FlowTypes DEF StreamSendWindow
<1> QED  BY <1>1 DEF Accepted, Least, Greatest

\* What send_data accepts fits both windows, if it accepts anything.
LEMMA AcceptedFits ==
  ASSUME NEW e \in EngineSet, NEW s \in Streams, NEW n \in Nat, Accepted(e, s, n) > 0
  PROVE  /\ e.connection_send_window - Accepted(e, s, n) >= 0
         /\ StreamSendWindow(e, s) - Accepted(e, s, n) >= 0
<1> DEFINE c == e.connection_send_window
           w == StreamSendWindow(e, s)
<1>1. c \in Int /\ w \in Int
  BY MemberTypes, FlowTypes DEF StreamSendWindow
<1> QED  BY <1>1 DEF Accepted, Least, Greatest

----------------------------------------------------------------------------
(* The event queue.                                                        *)

\* g's queue holds a connection_error that e's did not.
Complains(e, g) ==
  \E i \in Len(e.event_queue) + 1 .. Len(g.event_queue) :
    g.event_queue[i].type = "connection_error"

\* g's queue starts with e's.
Lengthens(e, g) ==
  /\ Len(e.event_queue) <= Len(g.event_queue)
  /\ \A i \in 1 .. Len(e.event_queue) : g.event_queue[i] = e.event_queue[i]

\* Emitting events changes nothing that was queued before.
LEMMA EmitLengthens ==
  ASSUME NEW e \in EngineSet, NEW events \in Seq(EventSet)
  PROVE  Lengthens(e, Emit(e, events))
<1>1. Emit(e, events).event_queue = e.event_queue \o events
  BY EmitLemma
<1>2. e.event_queue \in Seq(EventSet)
  BY MemberTypes
<1> QED  BY <1>1, <1>2 DEF Lengthens

\* An error that is emitted is in the queue.
LEMMA EmitComplains ==
  ASSUME NEW e \in EngineSet
  PROVE  Complains(e, Emit(e, <<Event("connection_error", 0, 0)>>))
<1> DEFINE error == Event("connection_error", 0, 0)
<1>1. error \in EventSet /\ error.type = "connection_error"
  BY EventTypesOK DEF EventTypes, Event
<1> HIDE DEF error
<1>2. Emit(e, <<error>>).event_queue = e.event_queue \o <<error>>
  BY <1>1, OneEvent, EmitLemma
<1>3. e.event_queue \in Seq(EventSet)
  BY MemberTypes
<1>4. /\ Len(e.event_queue \o <<error>>) = Len(e.event_queue) + 1
      /\ (e.event_queue \o <<error>>)[Len(e.event_queue) + 1] = error
      /\ Len(e.event_queue) \in Nat
  BY <1>1, <1>3
<1>5. Complains(e, Emit(e, <<error>>))
  BY <1>1, <1>2, <1>4 DEF Complains
<1> QED  BY <1>5 DEF error

\* An error stays in the queue whatever is emitted before or after it.
LEMMA ComplainsOnce ==
  ASSUME NEW d \in EngineSet, NEW e \in EngineSet, NEW f \in EngineSet, NEW g \in EngineSet,
         Lengthens(d, e), Complains(e, f), Lengthens(f, g)
  PROVE  Complains(d, g)
<1>1. /\ Len(d.event_queue) \in Nat /\ Len(e.event_queue) \in Nat
      /\ Len(f.event_queue) \in Nat /\ Len(g.event_queue) \in Nat
  BY MemberTypes
<1>2. PICK i \in Len(e.event_queue) + 1 .. Len(f.event_queue) :
             f.event_queue[i].type = "connection_error"
  BY DEF Complains
<1>3. /\ i \in Len(d.event_queue) + 1 .. Len(g.event_queue)
      /\ g.event_queue[i] = f.event_queue[i]
  BY <1>1, <1>2 DEF Lengthens
<1> QED  BY <1>2, <1>3 DEF Complains

----------------------------------------------------------------------------
(* Credit.                                                                 *)

\* A call that keeps the credit keeps it conserved.
LEMMA KeepsCredited ==
  ASSUME NEW e \in EngineSet, NEW f \in EngineSet, KeepsCredit(e, f), Credited(e)
  PROVE  Credited(f)
<1>1. Threshold(f) = Threshold(e) /\ ConnectionBonus(f) = ConnectionBonus(e)
  BY DEF KeepsCredit, Threshold, ConnectionBonus
<1>2. ConnectionCredit(f)
  BY <1>1 DEF KeepsCredit, Credited, ConnectionCredit
<1>3. 0 < Greatest(1, Threshold(e))
  BY ThresholdType, LeastGreatest
<1>4. ASSUME NEW s \in Streams, f.flow[s].tracked
      PROVE  StreamCredit(f, s)
  <2>1. CASE f.flow[s].recv_window = e.initial_window_size /\ f.flow[s].consumed_bytes = 0
    BY <1>1, <1>3, <2>1, MemberTypes DEF StreamCredit, KeepsCredit
  <2>2. CASE /\ e.flow[s].tracked
             /\ f.flow[s].recv_window = e.flow[s].recv_window
             /\ f.flow[s].consumed_bytes = e.flow[s].consumed_bytes
    BY <1>1, <2>2 DEF StreamCredit, KeepsCredit, Credited
  <2> QED  BY <1>4, <2>1, <2>2 DEF KeepsCredit
<1>5. \A s \in Streams : StreamCredit(f, s)
  BY <1>4 DEF StreamCredit
<1> QED  BY <1>2, <1>5 DEF Credited

\* update_flow_control conserves the credit, or queues a connection_error.
LEMMA UpdateFlowControlLemma ==
  ASSUME NEW e \in EngineSet, NEW s \in Streams, NEW n \in Nat
  PROVE  LET f == UpdateFlowControl(e, s, n) IN
         /\ f \in EngineSet
         /\ f.role = e.role /\ f.state = e.state
         /\ \/ Credited(e) => Credited(f)
            \/ Complains(e, f)
<1> DEFINE r     == ReceiveBytes(e, s, n)
           error == Event("connection_error", 0, 0)
           c     == CreditConnection(r, n)
           f     == CreditStream(c, s, n)
<1>1. /\ r \in EngineSet /\ SameBut(e, r, s) /\ r.event_queue = e.event_queue
      /\ r.connection_consumed = e.connection_consumed
      /\ r.connection_recv_window = e.connection_recv_window - n
      /\ r.flow[s].tracked
      /\ r.flow[s].recv_window = StreamEntry(e, s).recv_window - n
      /\ r.flow[s].consumed_bytes = StreamEntry(e, s).consumed_bytes
  <2>1. r.event_queue = e.event_queue
    BY DEF ReceiveBytes, GetOrInit, EngineSet
  <2> HIDE DEF r
  <2> QED  BY <2>1, ReceiveBytesLemma DEF r
<1>2. CASE r.connection_recv_window < 0 \/ r.flow[s].recv_window < 0
  <2>1. UpdateFlowControl(e, s, n) = Emit(r, <<error>>)
    BY <1>2 DEF UpdateFlowControl
  <2>2. error \in EventSet
    BY EventTypesOK DEF EventTypes
  <2> HIDE DEF r
  <2>3. Complains(r, Emit(r, <<error>>))
    BY <1>1, EmitComplains
  <2>4. Complains(e, Emit(r, <<error>>))
    BY <1>1, <2>3 DEF Complains
  <2> HIDE DEF error
  <2>5. /\ Emit(r, <<error>>) \in EngineSet /\ KeepsCredit(r, Emit(r, <<error>>))
        /\ Emit(r, <<error>>).state = r.state
    BY <1>1, <2>2, EmitOne
  <2> QED  BY <1>1, <2>1, <2>4, <2>5 DEF KeepsCredit, SameBut
<1>3. CASE ~(r.connection_recv_window < 0 \/ r.flow[s].recv_window < 0)
  <2>1. UpdateFlowControl(e, s, n) = f
    BY <1>3 DEF UpdateFlowControl
  <2> HIDE DEF r
  <2>2. /\ c \in EngineSet /\ SameBut(r, c, s) /\ c.flow[s] = r.flow[s]
        /\ \/ /\ r.connection_consumed + n < Threshold(r)
              /\ c.connection_consumed = r.connection_consumed + n
              /\ c.connection_recv_window = r.connection_recv_window
           \/ /\ c.connection_consumed = 0
              /\ c.connection_recv_window
                   = r.connection_recv_window + (r.connection_consumed + n)
    <3>1. r \in EngineSet
      BY <1>1
    <3> QED  BY <3>1, CreditConnectionLemma
  <2> HIDE DEF c
  <2>3. /\ f \in EngineSet /\ SameBut(c, f, s) /\ f.flow[s].tracked
        /\ f.connection_consumed = c.connection_consumed
        /\ f.connection_recv_window = c.connection_recv_window
        /\ \/ /\ c.flow[s].consumed_bytes + n < Threshold(c)
              /\ f.flow[s].consumed_bytes = c.flow[s].consumed_bytes + n
              /\ f.flow[s].recv_window = c.flow[s].recv_window
           \/ /\ f.flow[s].consumed_bytes = 0
              /\ f.flow[s].recv_window
                   = c.flow[s].recv_window + (c.flow[s].consumed_bytes + n)
    <3>1. c.flow[s].tracked
      BY <1>1, <2>2
    <3> QED  BY <2>2, <3>1, CreditStreamLemma
  <2> HIDE DEF f
  <2>4. /\ f.role = e.role /\ f.state = e.state
        /\ f.initial_window_size = e.initial_window_size
        /\ \A t \in Streams \ {s} : f.flow[t] = e.flow[t]
        /\ c.initial_window_size = e.initial_window_size
        /\ r.initial_window_size = e.initial_window_size
    BY <1>1, <2>2, <2>3 DEF SameBut
  <2>5. /\ Threshold(f) = Threshold(e) /\ Threshold(c) = Threshold(e)
        /\ Threshold(r) = Threshold(e) /\ ConnectionBonus(f) = ConnectionBonus(e)
    BY <2>4 DEF Threshold, ConnectionBonus
  <2>6. /\ Greatest(1, Threshold(e)) >= 1
        /\ Greatest(1, Threshold(e)) >= Threshold(e)
        /\ Greatest(1, Threshold(e)) \in Int /\ Threshold(e) \in Int
    BY ThresholdType, LeastGreatest
  <2>7. ASSUME Credited(e)
        PROVE  Credited(f)
    <3>1. ConnectionCredit(f)
      <4>1. f.connection_recv_window + f.connection_consumed
              = e.connection_recv_window + e.connection_consumed
        BY <1>1, <2>2, <2>3, MemberTypes
      <4>2. f.connection_consumed < Greatest(1, Threshold(e))
        BY <1>1, <2>2, <2>3, <2>5, <2>6, MemberTypes
      <4> QED  BY <2>5, <2>7, <4>1, <4>2 DEF Credited, ConnectionCredit
    <3>2. StreamCredit(f, s)
      <4>1. StreamEntry(e, s).recv_window + StreamEntry(e, s).consumed_bytes
              = e.initial_window_size
        BY <2>7, StreamEntryLemma, MemberTypes DEF Credited, StreamCredit
      <4>2. /\ StreamEntry(e, s).recv_window \in Int
            /\ StreamEntry(e, s).consumed_bytes \in Nat
        BY StreamEntryLemma DEF StreamState
      <4>3. /\ c.flow[s].recv_window = StreamEntry(e, s).recv_window - n
            /\ c.flow[s].consumed_bytes = StreamEntry(e, s).consumed_bytes
        BY <1>1, <2>2
      <4>4. f.flow[s].recv_window + f.flow[s].consumed_bytes = e.initial_window_size
        BY <2>3, <4>1, <4>2, <4>3, MemberTypes
      <4>5. f.flow[s].consumed_bytes < Greatest(1, Threshold(e))
        BY <2>3, <2>5, <2>6, <4>2, <4>3
      <4> QED  BY <2>4, <2>5, <4>4, <4>5 DEF StreamCredit
    <3>3. ASSUME NEW t \in Streams \ {s}
          PROVE  StreamCredit(f, t)
      BY <2>4, <2>5, <2>7 DEF Credited, StreamCredit
    <3> QED  BY <3>1, <3>2, <3>3 DEF Credited
  <2> QED  BY <2>1, <2>3, <2>4, <2>7
<1> QED  BY <1>2, <1>3

\* DATA keeps the credit conserved, or the peer is accused.
LEMMA ReceiveDataLemma ==
  ASSUME NEW e \in EngineSet, NEW f \in FrameSet, f.stream \in Streams, NEW n \in Nat
  PROVE  LET g == ReceiveData(e, f, n) IN
         /\ g \in EngineSet
         /\ g.role = e.role /\ g.state = e.state
         /\ (Credited(e) => Credited(g)) \/ Complains(e, g)
<1> DEFINE s      == f.stream
           data   == Event("data", s, n)
           closed == Event("stream_closed", s, 0)
           d      == Emit(e, <<data>>)
           a      == UpdateFlowControl(d, s, n)
           b      == ReplaceFlow(a, s, Untracked)
           g      == Emit(b, <<closed>>)
<1>1. data \in EventSet /\ closed \in EventSet
  BY EventTypesOK DEF EventTypes
<1>2. <<data>> \in Seq(EventSet) /\ <<closed>> \in Seq(EventSet)
  BY <1>1, OneEvent
<1>3. Untracked \in StreamState /\ ~Untracked.tracked
  BY DEF Untracked, StreamState
<1> HIDE DEF data, closed
<1>4. /\ d \in EngineSet /\ d.role = e.role /\ d.state = e.state
      /\ Credited(e) => Credited(d)
      /\ Lengthens(e, d)
  <2>1. d \in EngineSet /\ KeepsCredit(e, d) /\ d.state = e.state /\ Lengthens(e, d)
    BY <1>2, EmitLemma, EmitLengthens
  <2> HIDE DEF d
  <2>2. Credited(e) => Credited(d)
    BY <2>1, KeepsCredited
  <2> QED  BY <2>1, <2>2 DEF KeepsCredit
<1> HIDE DEF d
<1>5. /\ a \in EngineSet /\ a.role = e.role /\ a.state = e.state
      /\ (Credited(d) => Credited(a)) \/ Complains(d, a)
  BY <1>4, UpdateFlowControlLemma
<1>6. CASE ~f.end
  <2>1. ReceiveData(e, f, n) = a
    BY <1>6 DEF ReceiveData, d, data
  <2> HIDE DEF a
  <2>2. Lengthens(a, a)
    BY <1>5, MemberTypes DEF Lengthens
  <2>3. Complains(d, a) => Complains(e, a)
    BY <1>4, <1>5, <2>2, ComplainsOnce
  <2> QED  BY <1>4, <1>5, <2>1, <2>3
<1>7. CASE f.end
  <2>1. ReceiveData(e, f, n) = g
    BY <1>7 DEF ReceiveData, d, data, closed, ReplaceFlow
  <2> HIDE DEF a
  <2>2. /\ b \in EngineSet /\ KeepsCredit(a, b) /\ b.state = a.state
        /\ b.event_queue = a.event_queue
    BY <1>3, <1>5, ReplaceFlowLemma
  <2> HIDE DEF b
  <2>3. g \in EngineSet /\ KeepsCredit(b, g) /\ g.state = b.state /\ Lengthens(b, g)
    BY <1>2, <2>2, EmitLemma, EmitLengthens
  <2> HIDE DEF g
  <2>4. g.role = e.role /\ g.state = e.state
    BY <1>5, <2>2, <2>3 DEF KeepsCredit
  <2>5. Credited(a) => Credited(g)
    BY <1>5, <2>2, <2>3, KeepsCredited
  <2>6. Lengthens(a, g)
    BY <2>2, <2>3 DEF Lengthens
  <2>7. Complains(d, a) => Complains(e, g)
    BY <1>4, <1>5, <2>3, <2>6, ComplainsOnce
  <2> QED  BY <1>4, <1>5, <2>1, <2>3, <2>4, <2>5, <2>7
<1> QED  BY <1>6, <1>7

\* A chunk that is not DATA moves no receive window and counts no byte.
LEMMA OtherPayloadLemma ==
  ASSUME NEW e \in EngineSet, NEW f \in FrameSet, NEW n \in Nat,
         NEW q \in IterationOrders(Woken(e, f)), f.type # "data",
         f.type \in {"headers", "rst_stream"} => f.stream \in Streams,
         f.type = "goaway" => f.val \in 0 .. 2
  PROVE  LET g == HandlePayloadChunk(e, f, n, q) IN
         g \in EngineSet /\ KeepsCredit(e, g) /\ g.state = e.state
<1> DEFINE g == HandlePayloadChunk(e, f, n, q)
<1>1. f.val \in Nat /\ f.stream \in Streams \union {0}
  BY DEF FrameSet
<1>2. CASE f.type = "headers"
  BY <1>1, <1>2, ReceiveHeadersLemma DEF HandlePayloadChunk
<1>3. CASE f.type = "rst_stream"
  <2>1. Event("stream_reset", f.stream, 0) \in EventSet
    BY <1>1, EventTypesOK DEF EventTypes
  <2>2. g = Emit(e, <<Event("stream_reset", f.stream, 0)>>)
    BY <1>3 DEF HandlePayloadChunk
  <2> QED  BY <2>1, <2>2, EmitOne
<1>4. CASE f.type = "settings"
  <2>1. WindowAvailable(q) \in Seq(EventSet)
    BY <1>1, WokenType, IterationOrdersType
  <2>2. g = ApplyPeerInitialWindowSize(e, f.val, q)
    BY <1>4 DEF HandlePayloadChunk
  <2> QED  BY <1>1, <2>1, <2>2, ApplyPeerInitialWindowSizeLemma
<1>5. CASE f.type = "goaway"
  BY <1>1, <1>5, HandleGoawayLemma DEF HandlePayloadChunk
<1>6. CASE f.type = "window_update"
  BY <1>1, <1>6, HandleWindowUpdateLemma DEF HandlePayloadChunk
<1>7. CASE f.type \notin {"headers", "rst_stream", "settings", "goaway", "window_update"}
  <2>1. g = e
    BY <1>7 DEF HandlePayloadChunk
  <2> QED  BY <2>1 DEF KeepsCredit
<1> QED  BY <1>2, <1>3, <1>4, <1>5, <1>6, <1>7

----------------------------------------------------------------------------
(* What the calls of an engine write, report and leave alone.              *)

StreamRecv(e, s) == StreamEntry(e, s).recv_window

\* What never changes once the connection is set up.
Settled(e, f) ==
  /\ f.role = e.role
  /\ f.bad_preface = e.bad_preface
  /\ f.local_settings = e.local_settings
  /\ f.initial_window_size = e.initial_window_size

Running(e, f) ==
  /\ Settled(e, f)
  /\ f.state = e.state
  /\ f.next_stream_id = e.next_stream_id

SameCredit(e, f) ==
  /\ f.connection_recv_window = e.connection_recv_window
  /\ f.connection_send_window = e.connection_send_window
  /\ f.peer_initial_window_size = e.peer_initial_window_size

SameFlow(e, f, t) ==
  /\ StreamSendWindow(f, t) = StreamSendWindow(e, t)
  /\ StreamRecv(f, t) = StreamRecv(e, t)

SameFlows(e, f, S) == \A t \in S : SameFlow(e, f, t)

\* Only streams of S can have got a flow state.
Enters(e, f, S) == \A t \in Streams : f.flow[t].tracked => e.flow[t].tracked \/ t \in S

\* No window is touched.
KeepsWindows(e, f) == Running(e, f) /\ SameCredit(e, f) /\ SameFlows(e, f, Streams)

\* The call wrote frames and queued events.
Says(e, f, out, events) ==
  /\ f \in EngineSet /\ out \in Seq(FrameSet) /\ events \in Seq(EventSet)
  /\ f.pending_out = e.pending_out \o out
  /\ f.event_queue = e.event_queue \o events

\* A window is a number.
LEMMA WindowTypes ==
  ASSUME NEW e \in EngineSet, NEW s \in Streams
  PROVE  StreamRecv(e, s) \in Int /\ StreamSendWindow(e, s) \in Int
<1>1. StreamEntry(e, s) \in StreamState
  BY StreamEntryLemma
<1>2. StreamRecv(e, s) \in Int
  BY <1>1 DEF StreamRecv, StreamState
<1> QED  BY <1>2, MemberTypes, FlowTypes DEF StreamSendWindow

\* The same flow states are the same windows.
LEMMA SameFlowState ==
  ASSUME NEW e, NEW f, f.initial_window_size = e.initial_window_size,
         f.peer_initial_window_size = e.peer_initial_window_size,
         NEW t, f.flow[t] = e.flow[t]
  PROVE  SameFlow(e, f, t)
  BY DEF SameFlow, StreamSendWindow, StreamRecv, StreamEntry

\* Two quiet changes make a quiet one.
LEMMA QuietTransitive ==
  ASSUME NEW e, NEW f, NEW g, KeepsWindows(e, f), KeepsWindows(f, g)
  PROVE  KeepsWindows(e, g)
  BY DEF KeepsWindows, Running, Settled, SameCredit, SameFlows, SameFlow

\* Concatenation is associative, in the form used below.
LEMMA Regroup ==
  ASSUME NEW S, NEW u \in Seq(S), NEW v \in Seq(S), NEW w \in Seq(S)
  PROVE  (u \o v) \o w = u \o (v \o w)
  BY ConcatAssociative

\* Two calls, one after the other.
LEMMA SaysTransitive ==
  ASSUME NEW e \in EngineSet, NEW f, NEW g, NEW o1, NEW v1, NEW o2, NEW v2,
         Says(e, f, o1, v1), Says(f, g, o2, v2)
  PROVE  Says(e, g, o1 \o o2, v1 \o v2)
<1>1. e.pending_out \in Seq(FrameSet) /\ e.event_queue \in Seq(EventSet)
  BY MemberTypes
<1>2. /\ o1 \in Seq(FrameSet) /\ o2 \in Seq(FrameSet)
      /\ v1 \in Seq(EventSet) /\ v2 \in Seq(EventSet)
  BY DEF Says
<1>3. o1 \o o2 \in Seq(FrameSet) /\ v1 \o v2 \in Seq(EventSet)
  BY <1>2, ConcatProperties
<1> DEFINE a == e.pending_out
           b == e.event_queue
<1>4. (a \o o1) \o o2 = a \o (o1 \o o2)
  <2>1. a \in Seq(FrameSet)
    BY <1>1
  <2> HIDE DEF a
  <2> QED  BY <1>2, <2>1, Regroup, SMTT(30)
<1>5. (b \o v1) \o v2 = b \o (v1 \o v2)
  <2>1. b \in Seq(EventSet)
    BY <1>1
  <2> HIDE DEF b
  <2> QED  BY <1>2, <2>1, Regroup, SMTT(30)
<1> QED  BY <1>3, <1>4, <1>5 DEF Says

\* Writing a frame says that frame.
LEMMA WriteSays ==
  ASSUME NEW e \in EngineSet, NEW frames \in Seq(FrameSet)
  PROVE  LET f == Write(e, frames) IN
         Says(e, f, frames, <<>>) /\ KeepsWindows(e, f) /\ f.flow = e.flow
<1> DEFINE f == Write(e, frames)
<1>1. f \in EngineSet
  BY WriteLemma
<1>2. /\ Running(e, f) /\ SameCredit(e, f) /\ f.flow = e.flow
      /\ f.pending_out = e.pending_out \o frames /\ f.event_queue = e.event_queue
  BY DEF Write, EngineSet, Running, Settled, SameCredit
<1> HIDE DEF f
<1>3. e.event_queue \o <<>> = e.event_queue
  BY MemberTypes, ConcatEmptySeq
<1>4. SameFlows(e, f, Streams)
  BY <1>2, SameFlowState DEF SameFlows, Running, Settled, SameCredit
<1>5. Says(e, f, frames, <<>>)
  BY <1>1, <1>2, <1>3, EmptySeq DEF Says
<1> QED  BY <1>2, <1>4, <1>5 DEF KeepsWindows, f

\* Queueing an event says that event.
LEMMA EmitSays ==
  ASSUME NEW e \in EngineSet, NEW events \in Seq(EventSet)
  PROVE  LET f == Emit(e, events) IN
         Says(e, f, <<>>, events) /\ KeepsWindows(e, f) /\ f.flow = e.flow
<1> DEFINE f == Emit(e, events)
<1>1. f \in EngineSet
  BY EmitLemma
<1>2. /\ Running(e, f) /\ SameCredit(e, f) /\ f.flow = e.flow
      /\ f.pending_out = e.pending_out /\ f.event_queue = e.event_queue \o events
  BY DEF Emit, EngineSet, Running, Settled, SameCredit
<1> HIDE DEF f
<1>3. e.pending_out \o <<>> = e.pending_out
  BY MemberTypes, ConcatEmptySeq
<1>4. SameFlows(e, f, Streams)
  BY <1>2, SameFlowState DEF SameFlows, Running, Settled, SameCredit
<1>5. Says(e, f, <<>>, events)
  BY <1>1, <1>2, <1>3, EmptySeq DEF Says
<1> QED  BY <1>2, <1>4, <1>5 DEF KeepsWindows, f

\* The flow state of one stream is replaced.
LEMMA ReplaceSays ==
  ASSUME NEW e \in EngineSet, NEW s \in Streams, NEW x \in StreamState
  PROVE  LET f == ReplaceFlow(e, s, x) IN
         /\ Says(e, f, <<>>, <<>>)
         /\ Running(e, f) /\ SameCredit(e, f) /\ SameFlows(e, f, Streams \ {s})
         /\ f.flow[s] = x /\ \A t \in Streams \ {s} : f.flow[t] = e.flow[t]
<1> DEFINE f == ReplaceFlow(e, s, x)
<1>1. f \in EngineSet
  BY SetFlow DEF ReplaceFlow
<1>2. /\ Running(e, f) /\ SameCredit(e, f)
      /\ f.flow[s] = x /\ \A t \in Streams \ {s} : f.flow[t] = e.flow[t]
      /\ f.pending_out = e.pending_out /\ f.event_queue = e.event_queue
  BY DEF ReplaceFlow, EngineSet, Running, Settled, SameCredit
<1> HIDE DEF f
<1>3. e.pending_out \o <<>> = e.pending_out /\ e.event_queue \o <<>> = e.event_queue
  BY MemberTypes, ConcatEmptySeq
<1>4. SameFlows(e, f, Streams \ {s})
  BY <1>2, SameFlowState DEF SameFlows, Running, Settled, SameCredit
<1>5. Says(e, f, <<>>, <<>>)
  BY <1>1, <1>2, <1>3, EmptySeq DEF Says
<1> QED  BY <1>2, <1>4, <1>5 DEF f

\* Creating the entry of a stream says nothing and moves no window.
LEMMA GetOrInitSays ==
  ASSUME NEW e \in EngineSet, NEW s \in Streams
  PROVE  LET f == GetOrInit(e, s) IN
         /\ Says(e, f, <<>>, <<>>) /\ KeepsWindows(e, f)
         /\ Enters(e, f, {s}) /\ f.flow[s] = StreamEntry(e, s)
<1> DEFINE f == GetOrInit(e, s)
           x == StreamEntry(e, s)
<1>1. /\ x \in StreamState /\ x.tracked
      /\ x.send_window = StreamSendWindow(e, s)
  <2>1. x \in StreamState /\ x.tracked
    BY StreamEntryLemma
  <2>2. x.send_window = StreamSendWindow(e, s)
    BY SMTT(30) DEF StreamEntry, StreamSendWindow, Untracked
  <2> QED  BY <2>1, <2>2
<1>2. f = ReplaceFlow(e, s, x)
  BY DEF GetOrInit, ReplaceFlow
<1> HIDE DEF f
<1>3. /\ Says(e, f, <<>>, <<>>)
      /\ Running(e, f) /\ SameCredit(e, f) /\ SameFlows(e, f, Streams \ {s})
      /\ f.flow[s] = x /\ \A t \in Streams \ {s} : f.flow[t] = e.flow[t]
  <2>1. e \in EngineSet /\ s \in Streams /\ x \in StreamState
    BY <1>1
  <2> HIDE DEF x
  <2> PICK g : g = ReplaceFlow(e, s, x)
    OBVIOUS
  <2>2. /\ Says(e, g, <<>>, <<>>)
        /\ Running(e, g) /\ SameCredit(e, g) /\ SameFlows(e, g, Streams \ {s})
        /\ g.flow[s] = x /\ \A t \in Streams \ {s} : g.flow[t] = e.flow[t]
    BY ZenonT(40), <2>1, ReplaceSays
  <2>3. f = g
    BY <1>2
  <2> QED  BY <2>2, <2>3
<1>4. SameFlow(e, f, s)
  <2>1. StreamSendWindow(f, s) = StreamSendWindow(e, s)
    BY <1>1, <1>3 DEF StreamSendWindow
  <2>2. StreamRecv(f, s) = StreamRecv(e, s)
    BY <1>1, <1>3 DEF StreamRecv, StreamEntry
  <2> QED  BY <2>1, <2>2 DEF SameFlow
<1>5. SameFlows(e, f, Streams) /\ Enters(e, f, {s})
  BY <1>3, <1>4 DEF SameFlows, Enters
<1> QED  BY <1>3, <1>5 DEF KeepsWindows, f

\* What write_settings writes.
Hello(e) ==
  <<Settings(e.local_settings)>> \o
    IF ConnectionBonus(e) > 0 THEN <<WindowUpdate(0, ConnectionBonus(e))>> ELSE <<>>

\* The greeting of an engine: its SETTINGS, and the bonus of the connection.
LEMMA WriteSettingsSays ==
  ASSUME NEW e \in EngineSet
  PROVE  LET f == WriteSettings(e) IN
         Says(e, f, Hello(e), <<>>) /\ KeepsWindows(e, f) /\ f.flow = e.flow
<1>1. ConnectionBonus(e) \in Nat
  BY MemberTypes, WindowAssumption, LeastGreatest DEF ConnectionBonus
<1>2. WindowUpdate(0, ConnectionBonus(e)) \in FrameSet
  BY <1>1, FrameTypesOK DEF WindowUpdate, FrameTypes
<1>3. Settings(e.local_settings) \in FrameSet
  BY MemberTypes, SettingsType
<1>4. Hello(e) \in Seq(FrameSet)
  BY <1>2, <1>3 DEF Hello
<1>5. WriteSettings(e) = Write(e, Hello(e))
  BY DEF WriteSettings, Hello
<1> QED  BY <1>4, <1>5, WriteSays

\* The first call of open_stream writes the preface and the settings.
PrefaceFrame == Frame("preface", 0, 0, FALSE, 0)

Greeting(e) == IF e.state = "idle" THEN <<PrefaceFrame>> \o Hello(e) ELSE <<>>

\* Opening a stream says the greeting, once.
LEMMA OpenStreamSays ==
  ASSUME NEW e \in EngineSet, e.next_stream_id \in Streams, e.role = "client",
         ~e.flow[e.next_stream_id].tracked
  PROVE  LET f == OpenStream(e) IN
         /\ Says(e, f, Greeting(e), <<>>)
         /\ Settled(e, f) /\ SameCredit(e, f) /\ SameFlows(e, f, Streams)
         /\ Enters(e, f, {e.next_stream_id})
         /\ f.next_stream_id = e.next_stream_id + 2
         /\ f.state = IF e.state = "idle" THEN "preface_sent" ELSE e.state
<1> DEFINE p       == WritePreface(e)
           w       == WriteSettings(p)
           started == [w EXCEPT !.state = "preface_sent"]
           opened  == IF e.state = "idle" THEN started ELSE e
           id      == e.next_stream_id
           x       == [StreamEntry(opened, id) EXCEPT !.known = TRUE,
                                                      !.send_window = opened.peer_initial_window_size]
           n       == opened.next_stream_id + 2
           g       == [opened EXCEPT !.next_stream_id = n, !.flow[id] = x]
<1>1. <<PrefaceFrame>> \in Seq(FrameSet)
  BY FrameTypesOK, OneFrame DEF FrameTypes, PrefaceFrame
<1>2. Says(e, p, <<PrefaceFrame>>, <<>>) /\ KeepsWindows(e, p) /\ p.flow = e.flow
  BY <1>1, WriteSays DEF WritePreface, PrefaceFrame
<1>3. p \in EngineSet
  BY <1>2 DEF Says
<1> HIDE DEF p
<1>4. Hello(p) = Hello(e)
  BY <1>2 DEF Hello, ConnectionBonus, KeepsWindows, Running, Settled
<1>5. Says(p, w, Hello(e), <<>>) /\ KeepsWindows(p, w) /\ w.flow = p.flow
  BY <1>3, <1>4, WriteSettingsSays
<1> HIDE DEF w
<1>6. /\ Says(e, w, <<PrefaceFrame>> \o Hello(e), <<>> \o <<>>)
      /\ KeepsWindows(e, w) /\ w.flow = e.flow /\ w \in EngineSet
  <2>1. w \in EngineSet
    BY <1>5 DEF Says
  <2>2. Says(e, w, <<PrefaceFrame>> \o Hello(e), <<>> \o <<>>)
    BY <1>2, <1>5, SaysTransitive
  <2>3. KeepsWindows(e, w)
    BY <1>2, <1>5, QuietTransitive
  <2> QED  BY <1>2, <1>5, <2>1, <2>2, <2>3
<1>7. <<>> \o <<>> = <<>>
  OBVIOUS
<1>8. /\ started \in EngineSet /\ Settled(w, started) /\ SameCredit(w, started)
      /\ started.flow = w.flow /\ started.next_stream_id = w.next_stream_id
      /\ started.pending_out = w.pending_out /\ started.event_queue = w.event_queue
      /\ started.state = "preface_sent"
  BY <1>6 DEF EngineSet, EngineStates, Settled, SameCredit
<1> HIDE DEF started
<1>9. /\ Says(e, opened, Greeting(e), <<>>) /\ Settled(e, opened) /\ SameCredit(e, opened)
      /\ opened.flow = e.flow /\ opened.next_stream_id = e.next_stream_id
      /\ opened.state = IF e.state = "idle" THEN "preface_sent" ELSE e.state
  <2>1. CASE e.state = "idle"
    BY <1>6, <1>7, <1>8, <2>1 DEF Says, Greeting, KeepsWindows, Running, Settled, SameCredit
  <2>2. CASE e.state # "idle"
    <3>1. e.pending_out \o <<>> = e.pending_out /\ e.event_queue \o <<>> = e.event_queue
      BY MemberTypes, ConcatEmptySeq
    <3> QED  BY <2>2, <3>1, EmptySeq DEF Says, Greeting, Settled, SameCredit
  <2> QED  BY <2>1, <2>2
<1> HIDE DEF opened
<1>10. opened \in EngineSet
  BY <1>9 DEF Says
<1>11. /\ x \in StreamState /\ x.tracked /\ x.send_window = opened.peer_initial_window_size
       /\ x.recv_window = StreamEntry(opened, id).recv_window
  <2>1. /\ StreamEntry(opened, id) \in StreamState /\ StreamEntry(opened, id).tracked
        /\ opened.peer_initial_window_size \in Int
    BY <1>10, MemberTypes, StreamEntryLemma
  <2> HIDE DEF id
  <2> QED  BY <2>1 DEF StreamState
<1> HIDE DEF x
<1>12. n \in Nat /\ n = e.next_stream_id + 2
  BY <1>9, <1>10, MemberTypes
<1> HIDE DEF n
<1>13. /\ g \in EngineSet /\ Settled(opened, g) /\ SameCredit(opened, g)
       /\ g.state = opened.state /\ g.next_stream_id = n
       /\ g.pending_out = opened.pending_out /\ g.event_queue = opened.event_queue
       /\ g.flow[id] = x /\ \A t \in Streams \ {id} : g.flow[t] = opened.flow[t]
  BY <1>10, <1>11, <1>12 DEF EngineSet, Settled, SameCredit
<1>14. OpenStream(e) = g
  BY DEF OpenStream, opened, started, w, p, x, n
<1> HIDE DEF g
<1>15. SameFlow(e, g, id)
  <2>1. ~opened.flow[id].tracked
    BY <1>9
  <2>2. StreamSendWindow(g, id) = StreamSendWindow(e, id)
    BY <1>9, <1>11, <1>13 DEF StreamSendWindow, SameCredit
  <2>3. StreamRecv(g, id) = StreamRecv(e, id)
    BY <1>9, <1>11, <1>13 DEF StreamRecv, StreamEntry, SameCredit, Settled
  <2> QED  BY <2>2, <2>3 DEF SameFlow
<1>16. \A t \in Streams \ {id} : SameFlow(e, g, t)
  <2>1. /\ g.initial_window_size = e.initial_window_size
        /\ g.peer_initial_window_size = e.peer_initial_window_size
    BY <1>9, <1>13 DEF Settled, SameCredit
  <2> QED  BY <1>9, <1>13, <2>1, SameFlowState
<1>17. SameFlows(e, g, Streams) /\ Enters(e, g, {id})
  BY <1>9, <1>13, <1>15, <1>16 DEF SameFlows, Enters
<1>18. Says(e, g, Greeting(e), <<>>)
  BY <1>9, <1>13 DEF Says
<1>19. Settled(e, g) /\ SameCredit(e, g)
  BY <1>9, <1>13 DEF Settled, SameCredit
<1> QED  BY <1>9, <1>12, <1>13, <1>14, <1>17, <1>18, <1>19

\* send_headers_frame writes its frame.
LEMMA SendHeadersSays ==
  ASSUME NEW e \in EngineSet, NEW s \in Streams, NEW end \in BOOLEAN
  PROVE  LET f == SendHeadersFrame(e, s, end) IN
         Says(e, f, <<Headers(s, end)>>, <<>>) /\ KeepsWindows(e, f) /\ f.flow = e.flow
<1>1. <<Headers(s, end)>> \in Seq(FrameSet)
  BY FrameTypesOK, OneFrame DEF Headers, FrameTypes
<1> QED  BY <1>1, WriteSays DEF SendHeadersFrame

\* next_event takes the first event.
LEMMA NextEventSays ==
  ASSUME NEW e \in EngineSet, e.event_queue # <<>>
  PROVE  LET f == NextEvent(e) IN
         /\ f \in EngineSet /\ KeepsWindows(e, f) /\ f.flow = e.flow
         /\ f.pending_out = e.pending_out
         /\ f.event_queue = Tail(e.event_queue)
<1> DEFINE f == NextEvent(e)
<1>1. f \in EngineSet /\ f.event_queue = Tail(e.event_queue)
  BY NextEventLemma
<1>2. /\ Running(e, f) /\ SameCredit(e, f) /\ f.flow = e.flow
      /\ f.pending_out = e.pending_out
  BY DEF NextEvent, EngineSet, Running, Settled, SameCredit
<1> HIDE DEF f
<1>3. SameFlows(e, f, Streams)
  BY <1>2, SameFlowState DEF SameFlows, Running, Settled, SameCredit
<1> QED  BY <1>1, <1>2, <1>3 DEF KeepsWindows, f

\* g is e after the transport took its first frame.
Taken(e, g) ==
  /\ g \in EngineSet /\ KeepsWindows(e, g) /\ g.flow = e.flow
  /\ g.event_queue = e.event_queue
  /\ g.pending_out = Tail(e.pending_out)

\* Draining output takes frames from its front and moves no window.
LEMMA OutputEndSays ==
  ASSUME NEW e \in EngineSet, e.pending_out # <<>>
  PROVE  Taken(e, OutputEnd(e, 1))
<1> DEFINE f == OutputEnd(e, 1)
           p == e.pending_out
<1>1. p \in Seq(FrameSet)
  BY MemberTypes
<1>2. 1 \in 1 .. Len(p) /\ SubSeq(p, 1 + 1, Len(p)) = Tail(p)
  <2>1. p # <<>>
    OBVIOUS
  <2> HIDE DEF p
  <2> QED  BY <1>1, <2>1
<1>3. f \in EngineSet /\ f.event_queue = e.event_queue /\ f.flow = e.flow
  BY <1>2, OutputEndLemma
<1>4. Running(e, f) /\ SameCredit(e, f) /\ f.pending_out = SubSeq(p, 1 + 1, Len(p))
  BY DEF OutputEnd, EngineSet, Running, Settled, SameCredit
<1> HIDE DEF f
<1>5. SameFlows(e, f, Streams)
  BY <1>3, <1>4, SameFlowState DEF SameFlows, Running, Settled, SameCredit
<1> QED  BY <1>2, <1>3, <1>4, <1>5 DEF KeepsWindows, Taken, f

\* The preface has the server write its settings.
LEMMA ReceivePrefaceSays ==
  ASSUME NEW e \in EngineSet, ~e.bad_preface
  PROVE  LET f == ReceivePreface(e, TRUE) IN
         /\ Says(e, f, Hello(e), <<>>)
         /\ Settled(e, f) /\ SameCredit(e, f) /\ SameFlows(e, f, Streams) /\ f.flow = e.flow
         /\ f.next_stream_id = e.next_stream_id /\ f.state = "ready"
<1> DEFINE w == WriteSettings(e)
           f == [w EXCEPT !.state = "ready"]
<1>1. Says(e, w, Hello(e), <<>>) /\ KeepsWindows(e, w) /\ w.flow = e.flow /\ w \in EngineSet
  BY WriteSettingsSays DEF Says
<1>2. ReceivePreface(e, TRUE) = f
  BY DEF ReceivePreface
<1> HIDE DEF w
<1>3. /\ f \in EngineSet /\ Settled(w, f) /\ SameCredit(w, f)
      /\ f.flow = w.flow /\ f.next_stream_id = w.next_stream_id
      /\ f.pending_out = w.pending_out /\ f.event_queue = w.event_queue
      /\ f.state = "ready"
  BY <1>1 DEF EngineSet, EngineStates, Settled, SameCredit
<1> HIDE DEF f
<1>4. Settled(e, f) /\ SameCredit(e, f) /\ f.flow = e.flow
  BY <1>1, <1>3 DEF KeepsWindows, Running, Settled, SameCredit
<1>5. SameFlows(e, f, Streams)
  BY <1>4, SameFlowState DEF SameFlows, Settled, SameCredit
<1>6. Says(e, f, Hello(e), <<>>)
  BY <1>1, <1>3 DEF Says
<1>7. f.next_stream_id = e.next_stream_id
  BY <1>1, <1>3 DEF KeepsWindows, Running
<1> QED  BY <1>2, <1>3, <1>4, <1>5, <1>6, <1>7

\* Nothing said.
LEMMA SilentSays ==
  ASSUME NEW e \in EngineSet
  PROVE  Says(e, e, <<>>, <<>>) /\ KeepsWindows(e, e)
<1>1. e.pending_out \o <<>> = e.pending_out /\ e.event_queue \o <<>> = e.event_queue
  BY MemberTypes, ConcatEmptySeq
<1>2. Says(e, e, <<>>, <<>>)
  BY <1>1, EmptySeq DEF Says
<1>3. KeepsWindows(e, e)
  BY DEF KeepsWindows, Running, Settled, SameCredit, SameFlows, SameFlow
<1> QED  BY <1>2, <1>3

\* The header of a frame with a payload, or without END_STREAM, is answered if
\* it is that of SETTINGS.
Answer(f) == IF f.type = "settings" THEN <<SettingsAck>> ELSE <<>>

\* A frame header says at most an acknowledgement, before the payload is there.
LEMMA FrameHeaderSays ==
  ASSUME NEW e \in EngineSet, NEW f \in FrameSet, f.end => f.len # 0
  PROVE  LET g == HandleFrameHeader(e, f) IN
         Says(e, g, Answer(f), <<>>) /\ KeepsWindows(e, g) /\ g.flow = e.flow
<1>1. <<SettingsAck>> \in Seq(FrameSet)
  BY FrameTypesOK, OneFrame DEF SettingsAck, FrameTypes
<1>2. CASE f.type = "settings"
  BY <1>1, <1>2, WriteSays DEF HandleFrameHeader, Answer
<1>3. CASE f.type # "settings"
  <2>1. HandleFrameHeader(e, f) = e /\ Answer(f) = <<>>
    BY <1>3 DEF HandleFrameHeader, Answer
  <2> QED  BY <2>1, SilentSays
<1> QED  BY <1>2, <1>3
=============================================================================
