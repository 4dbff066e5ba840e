--------------------------- MODULE H2EngineProofs ---------------------------
(***************************************************************************)
(* For every number of streams, window, frame size, peer and application:  *)
(* the engine keeps its types, loses no credit and never starves the peer; *)
(* it sends no more than it was granted, loses no wakeup, signals its      *)
(* output and announces each stream once.                                  *)
(***************************************************************************)
EXTENDS H2Engine, H2CoreProofs

----------------------------------------------------------------------------
(* Credit.                                                                 *)

\* No frame of the peer loses credit unless it breaks the protocol.
LEMMA HandlePayloadChunkLemma ==
  ASSUME NEW e \in EngineSet, NEW f \in PeerFrames, NEW n \in Nat,
         NEW q \in IterationOrders(Woken(e, f))
  PROVE  LET g == HandlePayloadChunk(e, f, n, q) IN
         /\ g \in EngineSet
         /\ g.role = e.role /\ g.state = e.state
         /\ (Credited(e) => Credited(g)) \/ Complains(e, g)
<1> DEFINE g == HandlePayloadChunk(e, f, n, q)
<1>1. /\ f \in FrameSet
      /\ f.type \in {"data", "headers", "rst_stream"} => f.stream \in Streams
      /\ f.type = "goaway" => f.val \in 0 .. 2
  BY PeerAssumption
<1>2. CASE f.type = "data"
  <2>1. g = ReceiveData(e, f, n)
    BY <1>2 DEF HandlePayloadChunk
  <2> QED  BY <1>1, <1>2, <2>1, ReceiveDataLemma
<1>3. CASE f.type # "data"
  <2> HIDE DEF g
  <2>1. g \in EngineSet /\ KeepsCredit(e, g) /\ g.state = e.state
    BY <1>1, <1>3, OtherPayloadLemma DEF g
  <2>2. Credited(e) => Credited(g)
    BY <2>1, KeepsCredited
  <2> QED  BY <2>1, <2>2 DEF KeepsCredit, g
<1> QED  BY <1>2, <1>3

----------------------------------------------------------------------------
(* The inductive invariant.                                                *)

\* Each initial state of the engine belongs to one role.
RolesOK ==
  /\ engine.state = "idle" => engine.role = "client"
  /\ engine.state = "awaiting_preface" => engine.role = "server"

\* As long as set_initial_window_size may be called nothing depends on the
\* window: what a client reads before it opens a stream is about the
\* connection, no stream is tracked, none can be announced, no DATA was
\* counted.  Without this the call could not be shown to conserve the credit.
SetupOK ==
  Setup(engine) =>
    /\ frame.stream = 0
    /\ \A s \in Streams : local[s] = "none" /\ ~engine.flow[s].tracked
    /\ engine.connection_consumed = 0
    /\ \A i \in DOMAIN engine.event_queue : engine.event_queue[i].type # "new_stream"
    /\ engine.local_settings = <<>> => engine.initial_window_size = Window

IInv == TypeOK /\ RolesOK /\ SetupOK /\ CreditConserved

\* A call after the connection was set up that keeps the credit, or a failure.
LEMMA QuietStep ==
  ASSUME IInv, ~Setup(engine), engine' \in EngineSet,
         engine'.role = engine.role, engine'.state = engine.state,
         ~failed' => (~failed /\ (Credited(engine) => Credited(engine')))
  PROVE  RolesOK' /\ SetupOK' /\ CreditConserved'
<1>1. RolesOK'
  BY DEF IInv, RolesOK
<1>2. SetupOK'
  BY DEF Setup, SetupOK
<1>3. CreditConserved'
  BY DEF IInv, CreditConserved
<1> QED  BY <1>1, <1>2, <1>3

\* The initial states satisfy the invariant.
LEMMA InitIInv == Init => IInv
<1> SUFFICES ASSUME Init PROVE IInv
  OBVIOUS
<1>1. PICK role \in {"client", "server"}, cb \in BOOLEAN : engine = NewEngine(role, cb)
  BY RoleAssumption DEF Init
<1>2. Untracked \in StreamState /\ ~Untracked.tracked
  BY DEF Untracked, StreamState
<1>3. engine \in EngineSet
  BY <1>1, <1>2, WindowAssumption DEF NewEngine, EngineSet, EngineStates
<1>4. /\ engine.event_queue = <<>> /\ engine.initial_window_size = Window
      /\ engine.connection_consumed = 0 /\ engine.connection_recv_window = Window
      /\ \A s \in Streams : engine.flow[s] = Untracked
      /\ engine.role = role
      /\ engine.state = IF role = "server" THEN "awaiting_preface" ELSE "idle"
  BY <1>1 DEF NewEngine
<1>5. TypeOK
  <2>1. /\ frame = NoFrame /\ payload_bytes_read = 0 /\ blocked = {} /\ ended = {}
        /\ forgotten = {} /\ failed = FALSE /\ local = [s \in Streams |-> "none"]
        /\ credit = [s \in Streams \union {0} |-> Window]
    BY DEF Init
  <2>2. credit \in [Streams \union {0} -> Int]
    BY <2>1, WindowAssumption
  <2> QED  BY <1>3, <2>1, <2>2 DEF TypeOK
<1>6. RolesOK /\ SetupOK
  BY <1>2, <1>4 DEF RolesOK, SetupOK, Init, NoFrame, Frame
<1>7. ConnectionCredit(engine)
  <2>1. ConnectionBonus(engine) = 0
    BY <1>4, WindowAssumption DEF ConnectionBonus, Greatest
  <2>2. Greatest(1, Threshold(engine)) \in Nat /\ Greatest(1, Threshold(engine)) >= 1
    BY <1>3, ThresholdType, LeastGreatest
  <2>3. engine.connection_consumed = 0 /\ engine.connection_recv_window = Window
    BY <1>4
  <2> QED  BY <2>1, <2>2, <2>3, WindowAssumption DEF ConnectionCredit
<1>8. CreditConserved
  BY <1>2, <1>4, <1>7 DEF CreditConserved, Credited, StreamCredit
<1> QED  BY <1>5, <1>6, <1>8 DEF IInv

\* The window may be set before anything was counted against it.
LEMMA SetWindowIInv ==
  ASSUME IInv, NEW size \in LocalSizes, SetWindow(size)
  PROVE  IInv'
<1> DEFINE e     == engine
           extra == Greatest(size - Window, 0)
<1>1. e \in EngineSet /\ size \in Nat /\ size - Window \in Int
  BY SizesAssumption, WindowAssumption DEF IInv, TypeOK
<1>2. extra \in Nat
  BY <1>1, LeastGreatest
<1>3. /\ Setup(e) /\ e.local_settings = <<>> /\ engine' = SetInitialWindowSize(e, size)
      /\ UNCHANGED <<frame, payload_bytes_read, local, blocked, credit, ended, forgotten, failed>>
  BY DEF SetWindow, Setup
<1>4. /\ frame.stream = 0 /\ \A s \in Streams : local[s] = "none" /\ ~e.flow[s].tracked
      /\ e.connection_consumed = 0 /\ e.initial_window_size = Window
      /\ \A i \in DOMAIN e.event_queue : e.event_queue[i].type # "new_stream"
  BY <1>3 DEF IInv, SetupOK
<1>5. Append(e.local_settings, size) \in Seq(Nat) /\ Append(e.local_settings, size) # <<>>
  <2>1. e.local_settings = <<>>
    BY <1>3
  <2> QED  BY <1>1, <2>1
<1>6. /\ engine' \in EngineSet
      /\ engine'.role = e.role /\ engine'.state = e.state /\ engine'.flow = e.flow
      /\ engine'.event_queue = e.event_queue /\ engine'.connection_consumed = 0
      /\ engine'.initial_window_size = size
      /\ engine'.connection_recv_window = e.connection_recv_window + extra
      /\ engine'.local_settings # <<>>
  <2> DEFINE w == e.connection_recv_window + extra
             q == Append(e.local_settings, size)
  <2>1. w \in Int /\ q \in Seq(Nat)
    BY <1>1, <1>2, <1>5, MemberTypes
  <2>2. engine' = [e EXCEPT !.initial_window_size = size, !.local_settings = q,
                            !.connection_recv_window = w]
    BY <1>3 DEF SetInitialWindowSize
  <2>3. q # <<>>
    BY <1>5
  <2> HIDE DEF w, q
  <2>4. engine' \in EngineSet
    BY <1>1, <2>1, <2>2 DEF EngineSet
  <2>5. engine'.connection_recv_window = w /\ engine'.local_settings = q
    BY <1>1, <2>2 DEF EngineSet
  <2> QED  BY <1>1, <1>4, <2>2, <2>3, <2>4, <2>5 DEF EngineSet, w
<1>7. TypeOK'
  BY <1>3, <1>6 DEF IInv, TypeOK
<1>8. RolesOK' /\ SetupOK'
  BY <1>3, <1>4, <1>6 DEF IInv, RolesOK, SetupOK
<1>9. ASSUME ~failed' PROVE Credited(engine')
  <2>1. ConnectionCredit(e)
    BY <1>3, <1>9 DEF IInv, CreditConserved, Credited
  <2>2. ConnectionBonus(e) = 0
    BY <1>4, WindowAssumption DEF ConnectionBonus, Greatest
  <2>3. e.connection_recv_window = Window
    BY <1>1, <1>4, <2>1, <2>2, MemberTypes, WindowAssumption DEF ConnectionCredit
  <2>4. ConnectionBonus(engine') = extra
    BY <1>6 DEF ConnectionBonus
  <2>5. 0 < Greatest(1, Threshold(engine'))
    <3>1. Threshold(engine') \in Int
      BY <1>6, ThresholdType
    <3> QED  BY <3>1, LeastGreatest
  <2>6. ConnectionCredit(engine')
    BY <1>2, <1>6, <2>3, <2>4, <2>5, WindowAssumption DEF ConnectionCredit
  <2> QED  BY <1>4, <1>6, <2>6 DEF Credited, StreamCredit
<1> QED  BY <1>7, <1>8, <1>9 DEF IInv, CreditConserved

\* The credit stays conserved through a call that keeps it.
LEMMA CreditStep ==
  ASSUME IInv, engine' \in EngineSet, KeepsCredit(engine, engine'), ~failed' => ~failed
  PROVE  CreditConserved'
<1>1. engine \in EngineSet /\ (~failed => Credited(engine))
  BY DEF IInv, TypeOK, CreditConserved
<1>2. Credited(engine) => Credited(engine')
  BY <1>1, KeepsCredited
<1> QED  BY <1>1, <1>2 DEF CreditConserved

\* A call of the application or the transport on an engine that is set up.
LEMMA KeepStep ==
  ASSUME IInv, ~Setup(engine), engine' \in EngineSet, KeepsCredit(engine, engine'),
         engine'.state = engine.state, ~failed' => ~failed
  PROVE  RolesOK' /\ SetupOK' /\ CreditConserved'
<1>1. CreditConserved'
  BY CreditStep
<1>2. RolesOK'
  BY DEF IInv, RolesOK, KeepsCredit
<1>3. SetupOK'
  BY DEF Setup, SetupOK
<1> QED  BY <1>1, <1>2, <1>3

\* The first stream ends the time in which the window may be set.
LEMMA OpenIInv ==
  ASSUME IInv, Open
  PROVE  IInv'
<1>1. /\ engine \in EngineSet /\ engine.role = "client" /\ engine.next_stream_id \in Streams
      /\ engine' = OpenStream(engine)
      /\ local' = [local EXCEPT ![engine.next_stream_id] = "open"]
      /\ UNCHANGED <<frame, payload_bytes_read, blocked, credit, ended, forgotten, failed>>
  BY DEF Open, IInv, TypeOK
<1>2. /\ engine' \in EngineSet /\ KeepsCredit(engine, engine')
      /\ engine'.state = IF engine.role = "client" /\ engine.state = "idle" THEN "preface_sent"
                                                                            ELSE engine.state
  BY <1>1, OpenStreamLemma
<1>3. TypeOK'
  BY <1>1, <1>2 DEF IInv, TypeOK
<1>4. engine'.role = "client" /\ ~Setup(engine')
  BY <1>1, <1>2 DEF KeepsCredit, Setup, IInv, RolesOK
<1>5. RolesOK' /\ SetupOK'
  BY <1>4 DEF RolesOK, SetupOK, Setup
<1>6. CreditConserved'
  BY <1>1, <1>2, CreditStep
<1> QED  BY <1>3, <1>5, <1>6 DEF IInv

\* The calls of the application on a stream: no stream is open during setup.
LEMMA SendHeadersIInv ==
  ASSUME IInv, NEW s \in Streams, NEW end \in BOOLEAN, SendHeaders(s, end)
  PROVE  IInv'
<1>1. /\ engine \in EngineSet /\ local[s] = "open" /\ engine' = SendHeadersFrame(engine, s, end)
      /\ local' = [local EXCEPT ![s] = IF end THEN "done" ELSE "headers"]
      /\ UNCHANGED <<frame, payload_bytes_read, blocked, credit, ended, forgotten, failed>>
  BY DEF SendHeaders, IInv, TypeOK
<1>2. engine' \in EngineSet /\ KeepsCredit(engine, engine') /\ engine'.state = engine.state
  BY <1>1, SendHeadersLemma
<1>3. TypeOK'
  BY <1>1, <1>2 DEF IInv, TypeOK
<1>4. ~Setup(engine)
  BY <1>1 DEF IInv, SetupOK
<1>5. RolesOK' /\ SetupOK' /\ CreditConserved'
  BY <1>1, <1>2, <1>4, KeepStep
<1> QED  BY <1>3, <1>5 DEF IInv

\* The same for send_data, however much of the body it accepts.
LEMMA SendBodyIInv ==
  ASSUME IInv, NEW s \in Streams, NEW n \in Nat, NEW end \in BOOLEAN, SendBody(s, n, end)
  PROVE  IInv'
<1> DEFINE sent == Accepted(engine, s, n)
<1>1. /\ engine \in EngineSet /\ n \in Nat /\ local[s] = "headers"
      /\ engine' = SendData(engine, s, n, end)
      /\ blocked' = IF sent = n THEN blocked \ {s} ELSE blocked \union {s}
      /\ local' = [local EXCEPT ![s] = IF sent = n /\ end THEN "done" ELSE @]
      /\ credit' = [credit EXCEPT ![s] = @ - sent, ![0] = @ - sent]
      /\ UNCHANGED <<frame, payload_bytes_read, ended, forgotten, failed>>
  BY DEF SendBody, IInv, TypeOK
<1>2. engine' \in EngineSet /\ KeepsCredit(engine, engine') /\ engine'.state = engine.state
  BY <1>1, SendDataLemma
<1>3. sent \in Nat
  BY <1>1, AcceptedType
<1> HIDE DEF sent
<1>4. credit' \in [Streams \union {0} -> Int]
  BY <1>1, <1>3 DEF IInv, TypeOK
<1>5. TypeOK'
  BY <1>1, <1>2, <1>4 DEF IInv, TypeOK
<1>6. ~Setup(engine)
  BY <1>1 DEF IInv, SetupOK
<1>7. RolesOK' /\ SetupOK' /\ CreditConserved'
  BY <1>1, <1>2, <1>6, KeepStep
<1> QED  BY <1>5, <1>7 DEF IInv

\* send_goaway is called on a connection that was set up.
LEMMA CloseConnectionIInv ==
  ASSUME IInv, CloseConnection
  PROVE  IInv'
<1>1. /\ engine \in EngineSet /\ ~Setup(engine) /\ engine' = SendGoaway(engine)
      /\ UNCHANGED <<frame, payload_bytes_read, local, blocked, credit, ended, forgotten, failed>>
  BY DEF CloseConnection, IInv, TypeOK, Setup
<1>2. engine' \in EngineSet /\ KeepsCredit(engine, engine') /\ engine'.state = engine.state
  BY <1>1, SendGoawayLemma
<1>3. TypeOK'
  BY <1>1, <1>2 DEF IInv, TypeOK
<1>4. RolesOK' /\ SetupOK' /\ CreditConserved'
  BY <1>1, <1>2, KeepStep
<1> QED  BY <1>3, <1>4 DEF IInv

\* Draining the queue during setup announces no stream.
LEMMA DrainEventIInv ==
  ASSUME IInv, DrainEvent
  PROVE  IInv'
<1> DEFINE ev == Head(engine.event_queue)
<1>1. /\ engine \in EngineSet /\ engine.event_queue # <<>> /\ engine' = NextEvent(engine)
      /\ blocked' = IF ev.type = "stream_window_available" THEN blocked \ {ev.stream} ELSE blocked
      /\ local' = IF ev.type = "new_stream" THEN [local EXCEPT ![ev.stream] = "open"] ELSE local
      /\ UNCHANGED <<frame, payload_bytes_read, credit, ended, forgotten, failed>>
  BY DEF DrainEvent, IInv, TypeOK
<1>2. /\ engine' \in EngineSet /\ KeepsCredit(engine, engine')
      /\ engine'.state = engine.state /\ engine'.flow = engine.flow
      /\ engine'.local_settings = engine.local_settings
      /\ engine'.event_queue = Tail(engine.event_queue)
  BY <1>1, NextEventLemma
<1>3. TypeOK'
  BY <1>1, <1>2 DEF IInv, TypeOK
<1>4. RolesOK'
  BY <1>2 DEF IInv, RolesOK, KeepsCredit
<1>5. ASSUME Setup(engine')
      PROVE  /\ frame'.stream = 0
             /\ \A s \in Streams : local'[s] = "none" /\ ~engine'.flow[s].tracked
             /\ engine'.connection_consumed = 0
             /\ \A i \in DOMAIN engine'.event_queue : engine'.event_queue[i].type # "new_stream"
             /\ engine'.local_settings = <<>> => engine'.initial_window_size = Window
  <2>1. Setup(engine)
    BY <1>2, <1>5 DEF Setup
  <2>2. /\ frame.stream = 0 /\ \A s \in Streams : local[s] = "none" /\ ~engine.flow[s].tracked
        /\ engine.connection_consumed = 0
        /\ \A i \in DOMAIN engine.event_queue : engine.event_queue[i].type # "new_stream"
        /\ engine.local_settings = <<>> => engine.initial_window_size = Window
    BY <2>1 DEF IInv, SetupOK
  <2>3. engine.event_queue \in Seq(EventSet)
    BY <1>1, MemberTypes
  <2>4. ev.type # "new_stream"
    BY <1>1, <2>2, <2>3
  <2>5. \A i \in DOMAIN Tail(engine.event_queue) :
          Tail(engine.event_queue)[i].type # "new_stream"
    BY <1>1, <2>2, <2>3
  <2> QED  BY <1>1, <1>2, <2>2, <2>4, <2>5 DEF KeepsCredit
<1>6. SetupOK'
  BY <1>5 DEF SetupOK
<1>7. CreditConserved'
  BY <1>1, <1>2, CreditStep
<1> QED  BY <1>3, <1>4, <1>6, <1>7 DEF IInv

\* Output that leaves changes no window.
LEMMA TransmitIInv ==
  ASSUME IInv, NEW k \in 1 .. Len(engine.pending_out), Transmit(k)
  PROVE  IInv'
<1>1. /\ engine \in EngineSet /\ engine' = OutputEnd(engine, k)
      /\ UNCHANGED <<frame, payload_bytes_read, local, blocked, credit, ended, forgotten, failed>>
  BY DEF Transmit, IInv, TypeOK
<1>2. /\ engine' \in EngineSet /\ KeepsCredit(engine, engine')
      /\ engine'.state = engine.state /\ engine'.flow = engine.flow
      /\ engine'.local_settings = engine.local_settings
      /\ engine'.event_queue = engine.event_queue
  BY <1>1, OutputEndLemma
<1>3. TypeOK'
  BY <1>1, <1>2 DEF IInv, TypeOK
<1>4. RolesOK'
  BY <1>2 DEF IInv, RolesOK, KeepsCredit
<1>5. SetupOK'
  BY <1>1, <1>2 DEF IInv, SetupOK, Setup, KeepsCredit
<1>6. CreditConserved'
  BY <1>1, <1>2, CreditStep
<1> QED  BY <1>3, <1>4, <1>5, <1>6 DEF IInv

\* The preface ends the setup of a server, or it is refused and reported.
LEMMA PrefaceIInv ==
  ASSUME IInv, NEW valid \in BOOLEAN, Preface(valid)
  PROVE  IInv'
<1> DEFINE error == Event("connection_error", 0, 0)
<1>1. /\ engine \in EngineSet /\ engine.role = "server" /\ engine.state = "awaiting_preface"
      /\ ~failed /\ engine' = ReceivePreface(engine, valid)
      /\ failed' = (engine'.state = "awaiting_preface")
      /\ UNCHANGED <<frame, payload_bytes_read, local, blocked, credit, ended, forgotten>>
  BY DEF Preface, InputOpen, IInv, TypeOK
<1>2. /\ engine' \in EngineSet /\ KeepsCredit(engine, engine')
      /\ \/ engine'.state = "ready"
         \/ /\ engine'.state = engine.state /\ engine'.flow = engine.flow
            /\ engine'.local_settings = engine.local_settings
            /\ engine'.event_queue = Append(engine.event_queue, error)
  BY <1>1, ReceivePrefaceLemma
<1>3. TypeOK'
  BY <1>1, <1>2 DEF IInv, TypeOK
<1>4. engine'.role = "server" /\ engine'.state # "idle"
  BY <1>1, <1>2 DEF KeepsCredit
<1>5. RolesOK'
  BY <1>4 DEF RolesOK
<1>6. SetupOK'
  <2>1. CASE engine'.state = "ready"
    BY <2>1 DEF SetupOK, Setup
  <2>2. CASE /\ engine'.state = engine.state /\ engine'.flow = engine.flow
             /\ engine'.local_settings = engine.local_settings
             /\ engine'.event_queue = Append(engine.event_queue, error)
    <3>1. /\ frame.stream = 0 /\ \A s \in Streams : local[s] = "none" /\ ~engine.flow[s].tracked
          /\ engine.connection_consumed = 0
          /\ \A i \in DOMAIN engine.event_queue : engine.event_queue[i].type # "new_stream"
          /\ engine.local_settings = <<>> => engine.initial_window_size = Window
      BY <1>1 DEF IInv, SetupOK, Setup
    <3>2. engine.event_queue \in Seq(EventSet)
      BY <1>1, MemberTypes
    <3>3. error.type = "connection_error"
      BY DEF Event
    <3> HIDE DEF error
    <3>4. \A i \in DOMAIN Append(engine.event_queue, error) :
            Append(engine.event_queue, error)[i].type # "new_stream"
      BY <3>1, <3>2, <3>3
    <3> QED  BY <1>1, <1>2, <2>2, <3>1, <3>4 DEF SetupOK, KeepsCredit
  <2> QED  BY <1>2, <2>1, <2>2
<1>7. CreditConserved'
  BY <1>1, <1>2, CreditStep
<1> QED  BY <1>3, <1>5, <1>6, <1>7 DEF IInv

\* A frame that closes a stream names one.
LEMMA ClosingFrame ==
  ASSUME NEW f \in PeerFrames, Closes(f)
  PROVE  f.stream \in Streams
  BY PeerAssumption DEF Closes

\* What is read about the connection tracks no stream and announces none.
Settles(e, g) ==
  /\ \A s \in Streams : g.flow[s].tracked = e.flow[s].tracked
  /\ g.local_settings = e.local_settings
  /\ \A i \in DOMAIN g.event_queue :
       g.event_queue[i].type = "new_stream" =>
         i \in DOMAIN e.event_queue /\ g.event_queue[i] = e.event_queue[i]

LEMMA EmitSettles ==
  ASSUME NEW e \in EngineSet, NEW m \in EngineSet, NEW events \in Seq(EventSet),
         \A s \in Streams : m.flow[s].tracked = e.flow[s].tracked,
         m.local_settings = e.local_settings, m.event_queue = e.event_queue,
         \A i \in 1 .. Len(events) : events[i].type # "new_stream"
  PROVE  Settles(e, Emit(m, events))
<1>1. /\ Emit(m, events).flow = m.flow
      /\ Emit(m, events).event_queue = e.event_queue \o events
  BY EmitLemma
<1>2. Emit(m, events).local_settings = m.local_settings
  BY DEF Emit, EngineSet
<1>3. e.event_queue \in Seq(EventSet)
  BY MemberTypes
<1>4. ASSUME NEW i \in DOMAIN (e.event_queue \o events),
             (e.event_queue \o events)[i].type = "new_stream"
      PROVE  i \in DOMAIN e.event_queue /\ (e.event_queue \o events)[i] = e.event_queue[i]
  <2>1. CASE i <= Len(e.event_queue)
    BY <1>3, <2>1
  <2>2. CASE i > Len(e.event_queue)
    <3>1. /\ i - Len(e.event_queue) \in 1 .. Len(events)
          /\ (e.event_queue \o events)[i] = events[i - Len(e.event_queue)]
      BY <1>3, <2>2
    <3> QED  BY <1>4, <3>1
  <2> QED  BY <1>3, <2>1, <2>2
<1> QED  BY <1>1, <1>2, <1>4 DEF Settles

LEMMA EmitOneSettles ==
  ASSUME NEW e \in EngineSet, NEW m \in EngineSet, NEW ev \in EventSet,
         \A s \in Streams : m.flow[s].tracked = e.flow[s].tracked,
         m.local_settings = e.local_settings, m.event_queue = e.event_queue,
         ev.type # "new_stream"
  PROVE  Settles(e, Emit(m, <<ev>>))
<1>1. \A i \in 1 .. Len(<<ev>>) : <<ev>>[i].type # "new_stream"
  OBVIOUS
<1> QED  BY <1>1, OneEvent, EmitSettles

LEMMA ConnectionPayloadSettles ==
  ASSUME NEW e \in EngineSet, NEW f \in PeerFrames, f.stream = 0, NEW n \in Nat,
         NEW q \in IterationOrders(Woken(e, f))
  PROVE  Settles(e, HandlePayloadChunk(e, f, n, q))
<1> DEFINE g     == HandlePayloadChunk(e, f, n, q)
           wakes == WindowAvailable(q)
           error == Event("connection_error", 0, 0)
<1>1. /\ f \in FrameSet /\ f.val \in Nat /\ f.type \notin {"data", "headers", "rst_stream"}
      /\ f.type = "goaway" => f.val \in 0 .. 2
  BY PeerAssumption, StreamsAssumption DEF FrameSet
<1>2. q \in Seq(Streams) /\ wakes \in Seq(EventSet)
  <2>1. Woken(e, f) \in SUBSET Streams
    BY <1>1, WokenType
  <2> QED  BY <2>1, IterationOrdersType
<1>3. \A i \in 1 .. Len(wakes) : wakes[i].type # "new_stream"
  BY <1>2 DEF WindowAvailable, Event
<1>4. /\ error \in EventSet /\ error.type # "new_stream"
      /\ Event("goaway", 0, 0) \in EventSet /\ Event("goaway", 0, 0).type # "new_stream"
      /\ Event("connection_window_available", 0, 0) \in EventSet
      /\ Event("connection_window_available", 0, 0).type # "new_stream"
  BY EventTypesOK DEF EventTypes, Event
<1> HIDE DEF wakes, error
<1>5. Settles(e, Emit(e, <<error>>))
  BY <1>4, EmitOneSettles
<1>6. CASE f.type = "settings"
  <2> DEFINE moved == [s \in Streams |->
                         IF e.flow[s].tracked
                         THEN [e.flow[s] EXCEPT
                                 !.send_window = @ + f.val - e.peer_initial_window_size]
                         ELSE e.flow[s]]
             m     == [e EXCEPT !.peer_initial_window_size = f.val, !.flow = moved]
  <2>1. g = Emit(m, wakes)
    BY <1>6 DEF HandlePayloadChunk, ApplyPeerInitialWindowSize, wakes
  <2>2. /\ moved \in [Streams -> StreamState]
        /\ \A s \in Streams : moved[s].tracked = e.flow[s].tracked
    <3>1. ASSUME NEW s \in Streams
          PROVE  moved[s] \in StreamState /\ moved[s].tracked = e.flow[s].tracked
      <4>1. e.flow[s] \in StreamState /\ e.flow[s].send_window \in Int
        BY FlowTypes
      <4>2. e.flow[s].send_window + f.val - e.peer_initial_window_size \in Int
        BY <1>1, <4>1, MemberTypes
      <4> QED  BY <4>1, <4>2 DEF StreamState
    <3>2. moved = [s \in Streams |-> moved[s]]
      OBVIOUS
    <3> HIDE DEF moved
    <3> QED  BY <3>1, <3>2
  <2> HIDE DEF moved
  <2>3. /\ m \in EngineSet /\ m.flow = moved /\ m.local_settings = e.local_settings
        /\ m.event_queue = e.event_queue
    BY <1>1, <2>2 DEF EngineSet
  <2> HIDE DEF m
  <2> QED  BY <1>2, <1>3, <2>1, <2>2, <2>3, EmitSettles
<1>7. CASE f.type = "goaway"
  <2> DEFINE m == [e EXCEPT !.goaway_received = TRUE]
  <2>1. /\ m \in EngineSet /\ m.flow = e.flow /\ m.local_settings = e.local_settings
        /\ m.event_queue = e.event_queue
    BY DEF EngineSet
  <2>2. g \in {e, Emit(m, <<Event("goaway", 0, 0)>>), Emit(e, <<error>>)}
    BY <1>1, <1>7 DEF HandlePayloadChunk, HandleGoaway, error
  <2> HIDE DEF m
  <2>3. Settles(e, Emit(m, <<Event("goaway", 0, 0)>>))
    BY <1>4, <2>1, EmitOneSettles
  <2> QED  BY <1>5, <2>2, <2>3 DEF Settles
<1>8. CASE f.type = "window_update"
  <2> DEFINE m      == [e EXCEPT !.connection_send_window = @ + f.val]
             w      == e.connection_send_window + f.val
             opened == <<Event("connection_window_available", 0, 0)>>
             first  == IF ConnectionOpened(e, f.val) THEN opened ELSE <<>>
  <2>1. /\ m \in EngineSet /\ m.flow = e.flow /\ m.local_settings = e.local_settings
        /\ m.event_queue = e.event_queue
    <3>1. w \in Int /\ m = [e EXCEPT !.connection_send_window = w]
      BY <1>1, MemberTypes DEF EngineSet
    <3> HIDE DEF m, w
    <3> QED  BY <3>1 DEF EngineSet
  <2>2. g \in {Emit(e, <<error>>), Emit(m, first \o wakes)}
    BY <1>8 DEF HandlePayloadChunk, HandleWindowUpdate, error, wakes
  <2>3. first \in Seq(EventSet) /\ \A i \in 1 .. Len(first) : first[i].type # "new_stream"
    BY <1>4
  <2> HIDE DEF m, first
  <2>4. /\ first \o wakes \in Seq(EventSet)
        /\ \A i \in 1 .. Len(first \o wakes) : (first \o wakes)[i].type # "new_stream"
    BY <1>2, <1>3, <2>3
  <2>5. Settles(e, Emit(m, first \o wakes))
    BY <2>1, <2>4, EmitSettles
  <2> QED  BY <1>5, <2>2, <2>5
<1>9. CASE f.type \notin {"settings", "goaway", "window_update"}
  <2>1. g = e
    BY <1>1, <1>9 DEF HandlePayloadChunk
  <2> QED  BY <2>1 DEF Settles
<1> QED  BY <1>6, <1>7, <1>8, <1>9

\* The steps of an engine that is not set up yet, if they settle.
LEMMA SettledStep ==
  ASSUME IInv, Setup(engine), engine' \in EngineSet, Settles(engine, engine'),
         engine'.connection_consumed = engine.connection_consumed,
         engine'.initial_window_size = engine.initial_window_size,
         frame'.stream = 0, local' = local
  PROVE  SetupOK'
<1>1. /\ \A s \in Streams : local[s] = "none" /\ ~engine.flow[s].tracked
      /\ engine.connection_consumed = 0
      /\ \A i \in DOMAIN engine.event_queue : engine.event_queue[i].type # "new_stream"
      /\ engine.local_settings = <<>> => engine.initial_window_size = Window
  BY DEF IInv, SetupOK
<1> QED  BY <1>1 DEF SetupOK, Settles

\* What a client may be sent before it opens a stream is about the connection.
LEMMA NothingOpened ==
  ASSUME IInv, Setup(engine), NEW f \in PeerFrames, ReadFrameHeader(f)
  PROVE  f.stream = 0
<1>1. engine.role = "client" /\ \A s \in Streams : local[s] = "none"
  BY DEF IInv, SetupOK, RolesOK, Setup, ReadFrameHeader
<1>2. f.stream \in Streams \union {0}
  BY PeerAssumption DEF FrameSet
<1> QED  BY <1>1, <1>2 DEF ReadFrameHeader, PeerMaySend

\* The header of a frame, of the connection if the setup is not over.
LEMMA ReadFrameHeaderIInv ==
  ASSUME IInv, NEW f \in PeerFrames, ReadFrameHeader(f)
  PROVE  IInv'
<1>1. /\ engine \in EngineSet /\ engine' = HandleFrameHeader(engine, f)
      /\ frame' = IF f.len = 0 THEN NoFrame ELSE f
      /\ payload_bytes_read' = 0
      /\ ended' = IF Closes(f) /\ f.len = 0 THEN ended \union {f.stream} ELSE ended
      /\ UNCHANGED <<local, blocked, credit, forgotten, failed>>
  BY DEF ReadFrameHeader, IInv, TypeOK
<1>2. f \in FrameSet
  BY PeerAssumption
<1>3. engine' \in EngineSet /\ KeepsCredit(engine, engine') /\ engine'.state = engine.state
  BY <1>1, <1>2, HandleFrameHeaderLemma
<1>4. TypeOK'
  BY <1>1, <1>3, ClosingFrame DEF IInv, TypeOK
<1>5. CASE ~Setup(engine)
  <2>1. RolesOK' /\ SetupOK' /\ CreditConserved'
    BY <1>1, <1>3, <1>5, KeepStep
  <2> QED  BY <1>4, <2>1 DEF IInv
<1>6. CASE Setup(engine)
  <2>1. f.stream = 0 /\ NoFrame.stream = 0
    BY <1>6, NothingOpened DEF NoFrame, Frame
  <2>2. ~f.end
    BY <2>1, PeerAssumption, StreamsAssumption
  <2>3. engine' \in {engine, Write(engine, <<SettingsAck>>)}
    BY <1>1, <2>2 DEF HandleFrameHeader
  <2>4. SettingsAck \in FrameSet
    BY FrameTypesOK DEF SettingsAck, FrameTypes
  <2>5. Settles(engine, engine')
    <3>1. <<SettingsAck>> \in Seq(FrameSet) /\ engine.event_queue \in Seq(EventSet)
      BY <1>1, <2>4, OneFrame, MemberTypes
    <3>2. /\ Write(engine, <<SettingsAck>>).flow = engine.flow
          /\ Write(engine, <<SettingsAck>>).local_settings = engine.local_settings
          /\ Write(engine, <<SettingsAck>>).event_queue = engine.event_queue
      BY <1>1, <3>1 DEF Write, EngineSet
    <3> QED  BY <2>3, <3>1, <3>2 DEF Settles
  <2>6. SetupOK'
    BY <1>1, <1>3, <1>6, <2>1, <2>5, SettledStep DEF KeepsCredit
  <2>7. RolesOK' /\ CreditConserved'
    BY <1>1, <1>3, CreditStep DEF IInv, RolesOK, KeepsCredit
  <2> QED  BY <1>4, <2>6, <2>7 DEF IInv
<1> QED  BY <1>5, <1>6

\* Credit is counted in integers.
LEMMA GrantedType ==
  ASSUME IInv, NEW f \in PeerFrames
  PROVE  Granted(f) \in [Streams \union {0} -> Int]
<1>1. f.val \in Nat /\ f.stream \in Streams \union {0}
  BY PeerAssumption DEF FrameSet
<1>2. credit \in [Streams \union {0} -> Int] /\ engine.peer_initial_window_size \in Nat
  BY MemberTypes DEF IInv, TypeOK
<1> QED  BY <1>1, <1>2 DEF Granted

\* A chunk of payload conserves the credit or fails the connection.
LEMMA ReadPayloadIInv ==
  ASSUME IInv, NEW n \in Nat, NEW q \in IterationOrders(Woken(engine, frame)), ReadPayload(n, q)
  PROVE  IInv'
<1> DEFINE whole == payload_bytes_read + n = frame.len
<1>1. /\ engine \in EngineSet /\ frame # NoFrame /\ ~failed
      /\ engine' = HandlePayloadChunk(engine, frame, n, q)
      /\ frame' = IF whole THEN NoFrame ELSE frame
      /\ payload_bytes_read' = IF whole THEN 0 ELSE payload_bytes_read + n
      /\ ended' = IF Closes(frame) THEN ended \union {frame.stream} ELSE ended
      /\ forgotten' = IF frame.type = "data" /\ frame.end THEN forgotten \union {frame.stream}
                                                          ELSE forgotten
      /\ credit' = Granted(frame)
      /\ UNCHANGED <<local, blocked>>
  BY DEF ReadPayload, InputOpen, IInv, TypeOK
<1>2. failed' = Complains(engine, engine')
  BY DEF ReadPayload, Complains
<1>3. frame \in PeerFrames /\ payload_bytes_read \in Nat
  BY <1>1 DEF IInv, TypeOK
<1>4. /\ engine' \in EngineSet
      /\ engine'.role = engine.role /\ engine'.state = engine.state
      /\ (Credited(engine) => Credited(engine')) \/ Complains(engine, engine')
  BY <1>1, <1>3, HandlePayloadChunkLemma
<1>5. credit' \in [Streams \union {0} -> Int]
  BY <1>1, <1>3, GrantedType
<1>6. Closes(frame) => frame.stream \in Streams
  BY <1>3, ClosingFrame
<1>7. TypeOK'
  <2>1. forgotten' \subseteq Streams /\ ended' \subseteq Streams
    BY <1>1, <1>6 DEF IInv, TypeOK, Closes
  <2>2. frame' \in PeerFrames \union {NoFrame} /\ payload_bytes_read' \in Nat
    BY <1>1, <1>3
  <2>3. failed' \in BOOLEAN
    BY <1>2 DEF Complains
  <2> QED  BY <1>1, <1>4, <1>5, <2>1, <2>2, <2>3 DEF IInv, TypeOK
<1>8. CASE ~Setup(engine)
  <2>1. RolesOK' /\ SetupOK' /\ CreditConserved'
    BY <1>1, <1>2, <1>4, <1>8, QuietStep
  <2> QED  BY <1>7, <2>1 DEF IInv
<1>9. CASE Setup(engine)
  <2>1. frame.stream = 0 /\ NoFrame.stream = 0
    BY <1>9 DEF IInv, SetupOK, NoFrame, Frame
  <2>2. Settles(engine, engine')
    BY <1>1, <1>3, <2>1, ConnectionPayloadSettles
  <2>3. /\ frame \in FrameSet /\ frame.type \notin {"data", "headers", "rst_stream"}
        /\ frame.type = "goaway" => frame.val \in 0 .. 2
    BY <1>3, <2>1, PeerAssumption, StreamsAssumption
  <2>4. KeepsCredit(engine, engine')
    BY <1>1, <2>3, OtherPayloadLemma
  <2>5. SetupOK'
    BY <1>1, <1>4, <1>9, <2>1, <2>2, <2>4, SettledStep DEF KeepsCredit
  <2>6. RolesOK' /\ CreditConserved'
    BY <1>1, <1>4, <2>4, CreditStep DEF IInv, RolesOK
  <2> QED  BY <1>7, <2>5, <2>6 DEF IInv
<1> QED  BY <1>8, <1>9

\* A block that cannot be decoded announces the stream at most.
LEMMA DecodeThrowsIInv ==
  ASSUME IInv, DecodeThrows
  PROVE  IInv'
<1>1. /\ engine \in EngineSet /\ frame \in PeerFrames /\ frame.type = "headers"
      /\ engine' = Announce(engine, frame.stream) /\ failed' = TRUE
      /\ UNCHANGED <<frame, payload_bytes_read, local, blocked, credit, ended, forgotten>>
  BY DEF DecodeThrows, IInv, TypeOK, NoFrame, Frame
<1>2. frame.stream \in Streams
  BY <1>1, PeerAssumption
<1>3. engine' \in EngineSet /\ KeepsCredit(engine, engine') /\ engine'.state = engine.state
  BY <1>1, <1>2, AnnounceLemma
<1>4. ~Setup(engine)
  BY <1>2, StreamsAssumption DEF IInv, SetupOK
<1>5. TypeOK'
  BY <1>1, <1>3 DEF IInv, TypeOK
<1>6. RolesOK' /\ SetupOK' /\ CreditConserved'
  BY <1>1, <1>3, <1>4, QuietStep DEF KeepsCredit
<1> QED  BY <1>5, <1>6 DEF IInv

\* Every step keeps the invariant.
LEMMA NextIInv == IInv /\ [Next]_vars => IInv'
<1> SUFFICES ASSUME IInv, [Next]_vars
             PROVE  IInv'
  OBVIOUS
<1>1. CASE \E size \in LocalSizes : SetWindow(size)
  BY <1>1, SetWindowIInv
<1>2. CASE Open
  BY <1>2, OpenIInv
<1>3. CASE \E s \in Streams, end \in BOOLEAN : SendHeaders(s, end)
  BY <1>3, SendHeadersIInv
<1>4. CASE \E s \in Streams, n \in SendSizes, end \in BOOLEAN : SendBody(s, n, end)
  BY <1>4, SendBodyIInv, SizesAssumption
<1>5. CASE CloseConnection
  BY <1>5, CloseConnectionIInv
<1>6. CASE DrainEvent
  BY <1>6, DrainEventIInv
<1>7. CASE \E k \in 1 .. Len(engine.pending_out) : Transmit(k)
  BY <1>7, TransmitIInv
<1>8. CASE \E valid \in BOOLEAN : Preface(valid)
  BY <1>8, PrefaceIInv
<1>9. CASE \E f \in PeerFrames : ReadFrameHeader(f)
  BY <1>9, ReadFrameHeaderIInv
<1>10. CASE \E n \in 1 .. frame.len - payload_bytes_read :
              \E q \in IterationOrders(Woken(engine, frame)) : ReadPayload(n, q)
  <2>1. PICK n \in 1 .. frame.len - payload_bytes_read,
             q \in IterationOrders(Woken(engine, frame)) : ReadPayload(n, q)
    BY <1>10
  <2>2. n \in Nat
    OBVIOUS
  <2> QED  BY <2>1, <2>2, ReadPayloadIInv
<1>11. CASE DecodeThrows
  BY <1>11, DecodeThrowsIInv
<1>12. CASE UNCHANGED vars
  BY <1>12 DEF vars, IInv, TypeOK, RolesOK, SetupOK, CreditConserved
<1> QED
  BY <1>1, <1>2, <1>3, <1>4, <1>5, <1>6, <1>7, <1>8, <1>9, <1>10, <1>11, <1>12
  DEF Next, Application, Transport

\* The inductive invariant holds in every reachable state.
THEOREM Invariance == Spec => []IInv
  BY InitIInv, NextIInv, PTL DEF Spec

\* The engine's members stay in their types whatever the peer sends: the
\* counters of update_flow_control never go below zero and no frame or event
\* is queued for a stream that does not exist.
THEOREM TypeCorrect == Spec => []TypeOK
<1>1. IInv => TypeOK
  BY DEF IInv
<1> QED  BY <1>1, Invariance, PTL

\* No credit is ever lost, for any windows, frames and interleaving of
\* set_initial_window_size, DATA, SETTINGS and erased streams.
THEOREM CreditIsConserved == Spec => []CreditConserved
<1>1. IInv => CreditConserved
  BY DEF IInv
<1> QED  BY <1>1, Invariance, PTL

\* The peer always has half a window left: consumed credit is below the
\* threshold, so what was not returned is less than half of what was granted.
THEOREM NeverStarved == Spec => []PeerNeverStarved
<1>1. ASSUME IInv
      PROVE  PeerNeverStarved
  <2> SUFFICES ASSUME ~failed
               PROVE  /\ 2 * engine.connection_recv_window >= engine.initial_window_size
                      /\ \A s \in Tracked(engine) :
                           2 * engine.flow[s].recv_window >= engine.initial_window_size
    BY DEF PeerNeverStarved
  <2>1. engine \in EngineSet /\ Credited(engine)
    BY <1>1 DEF IInv, TypeOK, CreditConserved
  <2>2. /\ Threshold(engine) \in Nat /\ engine.initial_window_size \in Nat
        /\ 2 * Threshold(engine) <= engine.initial_window_size
    BY <2>1, ThresholdType, MemberTypes
  <2>3. Greatest(1, Threshold(engine)) \in {1, Threshold(engine)}
    BY <2>2, LeastGreatest
  <2>4. ASSUME NEW c \in Nat, c < Greatest(1, Threshold(engine)),
               NEW w \in Int, w + c >= engine.initial_window_size
        PROVE  2 * w >= engine.initial_window_size
    <3>1. c = 0 \/ c < Threshold(engine)
      BY <2>2, <2>3, <2>4
    <3> QED  BY <2>2, <2>4, <3>1
  <2>5. 2 * engine.connection_recv_window >= engine.initial_window_size
    <3>1. Window + ConnectionBonus(engine) >= engine.initial_window_size
      BY <2>2, WindowAssumption DEF ConnectionBonus, Greatest
    <3>2. /\ engine.connection_recv_window + engine.connection_consumed
               >= engine.initial_window_size
          /\ engine.connection_consumed < Greatest(1, Threshold(engine))
      BY <2>1, <3>1 DEF Credited, ConnectionCredit
    <3> QED  BY <2>1, <2>4, <3>2, MemberTypes
  <2>6. ASSUME NEW s \in Tracked(engine)
        PROVE  2 * engine.flow[s].recv_window >= engine.initial_window_size
    <3>1. s \in Streams /\ engine.flow[s].tracked
      BY DEF Tracked
    <3>2. /\ engine.flow[s].recv_window + engine.flow[s].consumed_bytes
               >= engine.initial_window_size
          /\ engine.flow[s].consumed_bytes < Greatest(1, Threshold(engine))
      BY <2>1, <2>2, <3>1 DEF Credited, StreamCredit
    <3> QED  BY <2>1, <2>4, <3>1, <3>2, FlowTypes
  <2> QED  BY <2>5, <2>6
<1> QED  BY <1>1, Invariance, PTL
----------------------------------------------------------------------------
(* The inductive invariant.                                                *)

Queued(type, s) ==
  \E i \in DOMAIN engine.event_queue :
    engine.event_queue[i].type = type /\ engine.event_queue[i].stream = s

\* The peer did not use s yet, and may still open it.
Fresh(s) == ~engine.flow[s].known /\ s \notin ended

\* Only a stream with flow state is known.
KnownOK == \A s \in Streams : engine.flow[s].known => engine.flow[s].tracked

\* A stream the application sends on, or will hear of, has flow state unless
\* END_STREAM erased it: the walks over stream_flow_states_ that wake streams
\* and move their windows miss no other.
EntriesOK ==
  \A s \in Streams \ forgotten :
    local[s] # "none" \/ Queued("new_stream", s) => engine.flow[s].tracked

\* A client opens its streams itself, in the order of their identifiers.
ClientOK ==
  engine.role = "client" =>
    \A s \in Streams :
      /\ ~Queued("new_stream", s)
      /\ IF local[s] = "none" THEN ~engine.flow[s].tracked
                              ELSE s \in Nat /\ s < engine.next_stream_id

\* Nothing is known and nothing was said of a stream before its first HEADERS.
ServerOK ==
  engine.role = "server" =>
    \A s \in Streams :
      Fresh(s) => /\ local[s] = "none"
                  /\ ~engine.flow[s].tracked
                  /\ \A i \in DOMAIN engine.event_queue : engine.event_queue[i].stream # s

\* The frame that is read names a stream in use, unless it opens one.
FrameOK ==
  /\ engine.role = "client" /\ frame.stream # 0 => local[frame.stream] # "none"
  /\ engine.role = "server" /\ frame.type = "headers" /\ frame.stream \in ended
       => engine.flow[frame.stream].known
  /\ engine.role = "server" /\ frame.type # "headers" /\ frame.stream # 0 => ~Fresh(frame.stream)

\* The queue announces a stream once.
AnnouncedOnce ==
  \A i, j \in DOMAIN engine.event_queue :
    /\ engine.event_queue[i].type = "new_stream"
    /\ engine.event_queue[j].type = "new_stream"
    /\ engine.event_queue[i].stream = engine.event_queue[j].stream
    => i = j

\* What the engine believes it may send is what the peer granted.
CreditOK ==
  /\ credit[0] = engine.connection_send_window
  /\ \A s \in Streams \ forgotten : credit[s] = StreamSendWindow(engine, s)

\* Only a stream that is in use waits for its window.
BlockedOK == \A s \in blocked : local[s] # "none"

StreamsOK ==
  KnownOK /\ EntriesOK /\ ClientOK /\ ServerOK /\ AnnouncedOnce /\ NewStreamOnce

SendOK ==
  /\ Signalled(engine)
  /\ StreamsOK
  /\ FrameOK
  /\ CreditOK
  /\ BlockedOK
  /\ NoLostWakeup

SendInv == IInv /\ SendOK

----------------------------------------------------------------------------
(* Steps that leave a part of the invariant alone.                         *)

\* What the steps below may assume of the variables.
LEMMA EngineTypes ==
  ASSUME TypeOK
  PROVE  /\ engine \in EngineSet
         /\ engine.role \in {"client", "server"}
         /\ engine.event_queue \in Seq(EventSet)
         /\ \A s \in Streams : engine.flow[s].tracked \in BOOLEAN /\ engine.flow[s].known \in BOOLEAN
         /\ engine.connection_send_window \in Int
         /\ \A s \in Streams : StreamSendWindow(engine, s) \in Int
<1>1. engine \in EngineSet
  BY DEF TypeOK
<1>2. engine.role \in {"client", "server"}
  BY <1>1 DEF EngineSet
<1>3. engine.connection_send_window \in Int /\ engine.peer_initial_window_size \in Int
  BY <1>1, MemberTypes
<1>4. \A s \in Streams : StreamSendWindow(engine, s) \in Int
  BY <1>1, <1>3, FlowTypes DEF StreamSendWindow
<1> QED  BY <1>1, <1>2, <1>3, <1>4, MemberTypes, FlowTypes

\* The events that were queued stay, and no stream is announced.
LEMMA AddsPrefix ==
  ASSUME TypeOK, TypeOK', NEW T, Adds(engine, engine', T)
  PROVE  /\ \A i \in DOMAIN engine.event_queue :
              i \in DOMAIN engine'.event_queue /\ engine'.event_queue[i] = engine.event_queue[i]
         /\ \A i \in DOMAIN engine'.event_queue :
              \/ i \in DOMAIN engine.event_queue
              \/ /\ \A j \in DOMAIN engine.event_queue : j < i
                 /\ engine'.event_queue[i].type # "new_stream"
                 /\ engine'.event_queue[i].stream \in T
<1>1. engine.event_queue \in Seq(EventSet) /\ engine'.event_queue \in Seq(EventSet)
  BY MemberTypes DEF TypeOK
<1>2. /\ DOMAIN engine.event_queue = 1 .. Len(engine.event_queue)
      /\ DOMAIN engine'.event_queue = 1 .. Len(engine'.event_queue)
      /\ Len(engine.event_queue) \in Nat /\ Len(engine'.event_queue) \in Nat
  BY <1>1
<1> QED  BY <1>2 DEF Adds

\* A stream that is not fresh does not become fresh.
LEMMA FreshBefore ==
  ASSUME TypeOK, TypeOK', KnownOK, NEW s \in Streams, ended \subseteq ended', Fresh(s)',
         KeepsEntry(engine, engine', s) \/ s \in ended'
  PROVE  Fresh(s)
  BY DEF Fresh, KnownOK, KeepsEntry

\* A step that opens no stream, announces none, and erases the flow state of
\* streams that end only.
LEMMA QuietStreams ==
  ASSUME TypeOK, TypeOK', StreamsOK, NEW T,
         engine'.role = engine.role, engine'.next_stream_id = engine.next_stream_id,
         \A s \in Streams : (local'[s] = "none") <=> (local[s] = "none"),
         ended \subseteq ended', forgotten \subseteq forgotten',
         Adds(engine, engine', T),
         \A s \in Streams :
           \/ KeepsEntry(engine, engine', s)
           \/ s \in forgotten' /\ s \in ended' /\ ~engine'.flow[s].tracked /\ ~engine'.flow[s].known,
         \A s \in Streams :
           engine'.flow[s].tracked =>
             \/ engine.flow[s].tracked
             \/ local[s] # "none"
             \/ engine.role = "server" /\ ~Fresh(s),
         engine.role = "server" => \A s \in Streams \intersect T : ~Fresh(s)'
  PROVE  StreamsOK'
<1>1. /\ \A i \in DOMAIN engine.event_queue :
           i \in DOMAIN engine'.event_queue /\ engine'.event_queue[i] = engine.event_queue[i]
      /\ \A i \in DOMAIN engine'.event_queue :
           \/ i \in DOMAIN engine.event_queue
           \/ /\ \A j \in DOMAIN engine.event_queue : j < i
              /\ engine'.event_queue[i].type # "new_stream"
              /\ engine'.event_queue[i].stream \in T
  BY AddsPrefix
<1>2. \A s \in Streams : Queued("new_stream", s)' => Queued("new_stream", s)
  BY <1>1 DEF Queued
<1>3. \A s \in Streams : Fresh(s)' => Fresh(s)
  BY FreshBefore DEF StreamsOK
<1>4. KnownOK'
  BY DEF StreamsOK, KnownOK, KeepsEntry
<1>5. EntriesOK'
  BY <1>2 DEF StreamsOK, EntriesOK, KeepsEntry
<1>6. ClientOK'
  BY <1>2 DEF StreamsOK, ClientOK
<1>7. ServerOK'
  <2> SUFFICES ASSUME engine.role = "server", NEW s \in Streams, Fresh(s)'
               PROVE  /\ local'[s] = "none"
                      /\ ~engine'.flow[s].tracked
                      /\ \A i \in DOMAIN engine'.event_queue : engine'.event_queue[i].stream # s
    BY DEF ServerOK
  <2>1. /\ Fresh(s) /\ local[s] = "none" /\ ~engine.flow[s].tracked
        /\ \A i \in DOMAIN engine.event_queue : engine.event_queue[i].stream # s
    BY <1>3 DEF StreamsOK, ServerOK
  <2>2. s \notin T
    OBVIOUS
  <2> QED  BY <1>1, <2>1, <2>2
<1>8. AnnouncedOnce'
  <2>1. \A i \in DOMAIN engine'.event_queue :
          engine'.event_queue[i].type = "new_stream" =>
            i \in DOMAIN engine.event_queue /\ engine'.event_queue[i] = engine.event_queue[i]
    BY <1>1
  <2> QED  BY <2>1 DEF StreamsOK, AnnouncedOnce
<1>9. NewStreamOnce'
  <2> SUFFICES ASSUME NEW s \in Streams, Announces(s)'
               PROVE  /\ local'[s] = "none"
                      /\ \A i \in DOMAIN engine'.event_queue :
                           engine'.event_queue[i].stream = s =>
                             \E j \in 1 .. i : engine'.event_queue[j] = Event("new_stream", s, 0)
    BY DEF NewStreamOnce
  <2>1. PICK k \in DOMAIN engine'.event_queue : engine'.event_queue[k] = Event("new_stream", s, 0)
    BY DEF Announces
  <2>2. engine'.event_queue[k].type = "new_stream"
    BY <2>1 DEF Event
  <2>3. k \in DOMAIN engine.event_queue /\ engine.event_queue[k] = Event("new_stream", s, 0)
    BY <1>1, <2>1, <2>2
  <2>4. Announces(s)
    BY <2>3 DEF Announces
  <2>5. /\ local[s] = "none"
        /\ \A i \in DOMAIN engine.event_queue :
             engine.event_queue[i].stream = s =>
               \E j \in 1 .. i : engine.event_queue[j] = Event("new_stream", s, 0)
    BY <2>4 DEF StreamsOK, NewStreamOnce
  <2>6. /\ DOMAIN engine.event_queue = 1 .. Len(engine.event_queue)
        /\ DOMAIN engine'.event_queue = 1 .. Len(engine'.event_queue)
        /\ Len(engine.event_queue) \in Nat /\ Len(engine'.event_queue) \in Nat
    BY MemberTypes DEF TypeOK
  <2>7. ASSUME NEW i \in DOMAIN engine'.event_queue, engine'.event_queue[i].stream = s
        PROVE  \E j \in 1 .. i : engine'.event_queue[j] = Event("new_stream", s, 0)
    <3>1. CASE i \in DOMAIN engine.event_queue
      <4>1. PICK j \in 1 .. i : engine.event_queue[j] = Event("new_stream", s, 0)
        BY <1>1, <2>5, <2>7, <3>1
      <4>2. j \in DOMAIN engine.event_queue
        BY <2>6, <3>1
      <4> QED  BY <1>1, <4>1, <4>2
    <3>2. CASE i \notin DOMAIN engine.event_queue
      <4>1. k < i /\ k \in 1 .. i
        BY <1>1, <2>3, <2>6, <2>7, <3>2
      <4> QED  BY <2>1, <4>1
    <3> QED  BY <3>1, <3>2
  <2> QED  BY <2>5, <2>7
<1> QED  BY <1>4, <1>5, <1>6, <1>7, <1>8, <1>9 DEF StreamsOK

\* A step outside the reading of a frame.
LEMMA QuietFrame ==
  ASSUME TypeOK, TypeOK', KnownOK, FrameOK, engine'.role = engine.role,
         frame' = frame, ended' = ended,
         \A s \in Streams : local[s] # "none" => local'[s] # "none",
         \A s \in Streams : KeepsEntry(engine, engine', s)
  PROVE  FrameOK'
<1>1. frame.stream \in Streams \union {0}
  BY PeerAssumption DEF TypeOK, FrameSet, NoFrame, Frame
<1>2. ended \subseteq Streams
  BY DEF TypeOK
<1>3. \A s \in Streams : engine.flow[s].known => engine'.flow[s].known
  BY DEF KnownOK, KeepsEntry
<1>4. \A s \in Streams : Fresh(s)' => Fresh(s)
  BY <1>3 DEF Fresh
<1>5. engine.role = "client" /\ frame.stream # 0 => local'[frame.stream] # "none"
  BY <1>1 DEF FrameOK
<1>6. engine.role = "server" /\ frame.type = "headers" /\ frame.stream \in ended
        => engine'.flow[frame.stream].known
  BY <1>2, <1>3 DEF FrameOK
<1>7. engine.role = "server" /\ frame.type # "headers" /\ frame.stream # 0 => ~Fresh(frame.stream)'
  BY <1>1, <1>4 DEF FrameOK
<1> QED  BY <1>5, <1>6, <1>7 DEF FrameOK, Fresh

\* A step after which no stream can be sent on that could not be before,
\* unless its wakeup was queued.
LEMMA QuietWakeups ==
  ASSUME TypeOK, TypeOK', NoLostWakeup, blocked' \subseteq blocked, forgotten \subseteq forgotten',
         NEW T, Adds(engine, engine', T),
         \A s \in blocked' \ forgotten' :
           MaySend(engine', s) => MaySend(engine, s) \/ WakeupQueued(s)'
  PROVE  NoLostWakeup'
<1> SUFFICES ASSUME NEW s \in blocked' \ forgotten', Sendable(s)', ~WakeupQueued(s)'
             PROVE  FALSE
  BY DEF NoLostWakeup
<1>1. MaySend(engine, s)
  BY DEF Sendable, MaySend
<1>2. WakeupQueued(s)
  BY <1>1 DEF NoLostWakeup, Sendable, MaySend
<1> QED  BY <1>2, AddsPrefix DEF WakeupQueued

\* A woken stream has its wakeup queued.
LEMMA WokenQueued ==
  ASSUME TypeOK, TypeOK', NEW S, NEW s \in S, Wakes(engine, engine', S)
  PROVE  WakeupQueued(s)'
<1>1. PICK i \in Len(engine.event_queue) + 1 .. Len(engine'.event_queue) :
             /\ engine'.event_queue[i].type = "stream_window_available"
             /\ engine'.event_queue[i].stream = s
  BY DEF Wakes
<1>2. i \in DOMAIN engine'.event_queue
  <2>1. engine.event_queue \in Seq(EventSet) /\ engine'.event_queue \in Seq(EventSet)
    BY MemberTypes DEF TypeOK
  <2>2. Len(engine.event_queue) \in Nat /\ DOMAIN engine'.event_queue = 1 .. Len(engine'.event_queue)
    BY <2>1
  <2> QED  BY <2>2
<1> QED  BY <1>1, <1>2 DEF WakeupQueued

\* A step that touches no flow state and gains no stream.
LEMMA IdleStep ==
  ASSUME TypeOK, TypeOK', SendOK, SameSending(engine, engine'), Signalled(engine'),
         NEW T, Adds(engine, engine', T), engine.role = "server" => \A s \in Streams \intersect T : ~Fresh(s)',
         \A s \in Streams : (local'[s] = "none") <=> (local[s] = "none"),
         UNCHANGED <<frame, blocked, credit, ended, forgotten>>
  PROVE  SendOK'
<1>1. /\ engine'.role = engine.role /\ engine'.next_stream_id = engine.next_stream_id
      /\ engine'.connection_send_window = engine.connection_send_window
      /\ engine'.flow = engine.flow
  BY DEF SameSending, SameConnection
<1>2. \A s \in Streams : StreamSendWindow(engine', s) = StreamSendWindow(engine, s)
  BY SameSendingStreams DEF SameStream
<1>3. \A s \in Streams : KeepsEntry(engine, engine', s)
  BY <1>1 DEF KeepsEntry
<1>4. StreamsOK'
  BY <1>1, <1>3, QuietStreams DEF SendOK
<1>5. FrameOK'
  BY <1>1, <1>3, QuietFrame DEF SendOK, StreamsOK
<1>6. CreditOK'
  BY <1>1, <1>2 DEF SendOK, CreditOK
<1>7. BlockedOK'
  BY DEF SendOK, BlockedOK, TypeOK
<1>8. NoLostWakeup'
  <2>1. \A s \in blocked' \ forgotten' : MaySend(engine', s) => MaySend(engine, s)
    BY <1>1, <1>2 DEF MaySend, TypeOK
  <2> QED  BY <2>1, QuietWakeups DEF SendOK
<1> QED  BY <1>4, <1>5, <1>6, <1>7, <1>8 DEF SendOK

----------------------------------------------------------------------------
(* The steps of the application.                                           *)

\* The initial states satisfy the invariant.
LEMMA InitSendOK == Init => SendOK
<1> SUFFICES ASSUME Init PROVE SendOK
  OBVIOUS
<1>1. PICK role \in {"client", "server"}, cb \in BOOLEAN : engine = NewEngine(role, cb)
  BY RoleAssumption DEF Init
<1>2. /\ engine.event_queue = <<>> /\ engine.pending_out = <<>> /\ ~engine.had_output
      /\ engine.connection_send_window = Window /\ engine.peer_initial_window_size = Window
      /\ \A s \in Streams : engine.flow[s] = Untracked
  BY <1>1 DEF NewEngine
<1>3. ~Untracked.tracked /\ ~Untracked.known
  BY DEF Untracked
<1>4. /\ frame = NoFrame /\ local = [s \in Streams |-> "none"] /\ blocked = {} /\ ended = {}
      /\ credit = [s \in Streams \union {0} |-> Window]
  BY DEF Init
<1>5. DOMAIN engine.event_queue = {} /\ DOMAIN engine.pending_out = {}
  BY <1>2
<1>6. Signalled(engine)
  BY <1>2, <1>5 DEF Signalled
<1>7. \A s \in Streams : ~Queued("new_stream", s) /\ ~Announces(s)
  BY <1>5 DEF Queued, Announces
<1>8. StreamsOK
  BY <1>2, <1>3, <1>4, <1>5, <1>7
  DEF StreamsOK, KnownOK, EntriesOK, ClientOK, ServerOK, AnnouncedOnce, NewStreamOnce
<1>9. FrameOK
  BY <1>4 DEF FrameOK, NoFrame, Frame
<1>10. CreditOK
  BY <1>2, <1>3, <1>4 DEF CreditOK, StreamSendWindow
<1> QED  BY <1>4, <1>6, <1>8, <1>9, <1>10 DEF SendOK, BlockedOK, NoLostWakeup

\* set_initial_window_size touches the receive windows only.
LEMMA SetWindowSendOK ==
  ASSUME SendInv, TypeOK', NEW size \in LocalSizes, SetWindow(size)
  PROVE  SendOK'
<1>1. TypeOK /\ SendOK /\ engine \in EngineSet /\ size \in Nat
  BY SizesAssumption DEF SendInv, IInv, TypeOK
<1>2. /\ engine' = SetInitialWindowSize(engine, size)
      /\ UNCHANGED <<frame, local, blocked, credit, ended, forgotten>>
  BY DEF SetWindow
<1>3. SameSending(engine, engine') /\ Adds(engine, engine', {}) /\ Signalled(engine')
  BY <1>1, <1>2, SetInitialWindowSizeEffect, AddsNothing, SameOutputSignals DEF SendOK
<1> QED  BY <1>1, <1>2, <1>3, IdleStep

\* Headers are sent on a stream in use.
LEMMA SendHeadersSendOK ==
  ASSUME SendInv, TypeOK', NEW s \in Streams, NEW end \in BOOLEAN, SendHeaders(s, end)
  PROVE  SendOK'
<1>1. TypeOK /\ SendOK /\ engine \in EngineSet
  BY DEF SendInv, IInv, TypeOK
<1>2. /\ engine' = SendHeadersFrame(engine, s, end) /\ local[s] = "open"
      /\ local' = [local EXCEPT ![s] = IF end THEN "done" ELSE "headers"]
      /\ UNCHANGED <<frame, blocked, credit, ended, forgotten>>
  BY DEF SendHeaders
<1>3. SameSending(engine, engine') /\ Adds(engine, engine', {}) /\ Signalled(engine')
  BY <1>1, <1>2, SendHeadersEffect, AddsNothing DEF SendOK
<1>4. \A t \in Streams : (local'[t] = "none") <=> (local[t] = "none")
  BY <1>1, <1>2 DEF TypeOK
<1> QED  BY <1>1, <1>2, <1>3, <1>4, IdleStep

\* send_goaway opens and moves nothing.
LEMMA CloseConnectionSendOK ==
  ASSUME SendInv, TypeOK', CloseConnection
  PROVE  SendOK'
<1>1. TypeOK /\ SendOK /\ engine \in EngineSet
  BY DEF SendInv, IInv, TypeOK
<1>2. /\ engine' = SendGoaway(engine)
      /\ UNCHANGED <<frame, local, blocked, credit, ended, forgotten>>
  BY DEF CloseConnection
<1>3. SameSending(engine, engine') /\ Adds(engine, engine', {}) /\ Signalled(engine')
  BY <1>1, <1>2, SendGoawayEffect, AddsNothing DEF SendOK
<1> QED  BY <1>1, <1>2, <1>3, IdleStep

\* Output that leaves moves no window.
LEMMA TransmitSendOK ==
  ASSUME SendInv, TypeOK', NEW k \in 1 .. Len(engine.pending_out), Transmit(k)
  PROVE  SendOK'
<1>1. TypeOK /\ SendOK /\ engine \in EngineSet
  BY DEF SendInv, IInv, TypeOK
<1>2. /\ engine' = OutputEnd(engine, k)
      /\ UNCHANGED <<frame, local, blocked, credit, ended, forgotten>>
  BY DEF Transmit
<1>3. SameSending(engine, engine') /\ Adds(engine, engine', {}) /\ Signalled(engine')
  BY <1>1, <1>2, OutputEndEffect, AddsNothing DEF SendOK
<1> QED  BY <1>1, <1>2, <1>3, IdleStep

\* The preface is reported, if at all, for stream 0.
LEMMA PrefaceSendOK ==
  ASSUME SendInv, TypeOK', NEW valid \in BOOLEAN, Preface(valid)
  PROVE  SendOK'
<1>1. TypeOK /\ SendOK /\ engine \in EngineSet
  BY DEF SendInv, IInv, TypeOK
<1>2. /\ engine' = ReceivePreface(engine, valid)
      /\ UNCHANGED <<frame, local, blocked, credit, ended, forgotten>>
  BY DEF Preface
<1>3. SameSending(engine, engine') /\ Adds(engine, engine', {0}) /\ Signalled(engine')
  BY <1>1, <1>2, ReceivePrefaceEffect DEF SendOK
<1>4. \A s \in Streams \intersect {0} : ~Fresh(s)'
  BY StreamsAssumption
<1> QED  BY <1>1, <1>2, <1>3, <1>4, IdleStep

\* open_stream gives the stream the window it is granted, and no other's.
LEMMA OpenSendOK ==
  ASSUME SendInv, TypeOK', Open
  PROVE  SendOK'
<1> DEFINE id == engine.next_stream_id
<1>1. TypeOK /\ SendOK /\ engine \in EngineSet /\ engine.role = "client"
  BY DEF SendInv, IInv, TypeOK, Open
<1>2. /\ engine' = OpenStream(engine) /\ id \in Streams
      /\ local' = [local EXCEPT ![id] = "open"]
      /\ UNCHANGED <<frame, blocked, credit, ended, forgotten>>
  BY DEF Open
<1>3. /\ engine'.role = engine.role
      /\ engine'.next_stream_id = id + 2
      /\ engine'.connection_send_window = engine.connection_send_window
      /\ engine'.flow[id].tracked
      /\ StreamSendWindow(engine', id) = engine.peer_initial_window_size
      /\ \A t \in Streams \ {id} : SameStream(engine, engine', t)
      /\ engine'.event_queue = engine.event_queue
      /\ Signalled(engine')
  BY <1>1, <1>2, OpenStreamEffect DEF SendOK
<1>4. /\ \A s \in Streams : local'[s] = IF s = id THEN "open" ELSE local[s]
      /\ id \in Nat
  BY <1>1, <1>2, MemberTypes DEF TypeOK
<1>5. \A s \in Streams :
        /\ ~Queued("new_stream", s)
        /\ IF local[s] = "none" THEN ~engine.flow[s].tracked ELSE s \in Nat /\ s < id
  BY <1>1 DEF SendOK, StreamsOK, ClientOK
<1>6. local[id] = "none" /\ ~engine.flow[id].tracked
  BY <1>2, <1>4, <1>5
<1> HIDE DEF id
<1>7. \A s \in Streams : StreamSendWindow(engine', s) = StreamSendWindow(engine, s)
  <2>1. StreamSendWindow(engine, id) = engine.peer_initial_window_size
    BY <1>6 DEF StreamSendWindow
  <2> QED  BY <1>3, <2>1 DEF SameStream
<1>8. \A s \in Streams : ~Queued("new_stream", s)'
  BY <1>3, <1>5 DEF Queued
<1>9. KnownOK'
  BY <1>1, <1>3 DEF SendOK, StreamsOK, KnownOK, SameStream
<1>10. EntriesOK'
  BY <1>1, <1>2, <1>3, <1>4, <1>8 DEF SendOK, StreamsOK, EntriesOK, SameStream
<1>11. ClientOK'
  <2> SUFFICES ASSUME NEW s \in Streams
               PROVE  IF local'[s] = "none" THEN ~engine'.flow[s].tracked
                                            ELSE s \in Nat /\ s < id + 2
    BY <1>3, <1>8 DEF ClientOK
  <2>1. CASE s = id
    BY <1>4, <2>1
  <2>2. CASE s # id /\ local[s] = "none"
    BY <1>3, <1>4, <1>5, <2>2 DEF SameStream
  <2>3. CASE s # id /\ local[s] # "none"
    BY <1>4, <1>5, <2>3
  <2> QED  BY <2>1, <2>2, <2>3
<1>12. ServerOK'
  BY <1>1, <1>3 DEF ServerOK
<1>13. AnnouncedOnce' /\ NewStreamOnce'
  <2>1. \A s \in Streams : ~Announces(s)'
    BY <1>8 DEF Announces, Queued, Event
  <2>2. AnnouncedOnce
    BY <1>1 DEF SendOK, StreamsOK
  <2> QED  BY <1>3, <2>1, <2>2 DEF AnnouncedOnce, NewStreamOnce
<1>14. FrameOK'
  <2>1. frame.stream \in Streams \union {0}
    BY <1>1, PeerAssumption DEF TypeOK, FrameSet, NoFrame, Frame
  <2>2. frame.stream # 0 => local[frame.stream] # "none"
    BY <1>1 DEF SendOK, FrameOK
  <2> QED  BY <1>1, <1>2, <1>3, <1>4, <2>1, <2>2 DEF FrameOK
<1>15. CreditOK'
  BY <1>1, <1>2, <1>3, <1>7 DEF SendOK, CreditOK
<1>16. BlockedOK'
  BY <1>1, <1>2, <1>4 DEF SendOK, BlockedOK, TypeOK
<1>17. NoLostWakeup'
  <2>1. Adds(engine, engine', {})
    BY <1>1, <1>3, AddsNothing
  <2>2. \A s \in blocked' \ forgotten' : MaySend(engine', s) => MaySend(engine, s)
    BY <1>1, <1>2, <1>3, <1>7 DEF MaySend, TypeOK
  <2> QED  BY <1>1, <1>2, <2>1, <2>2, QuietWakeups DEF SendOK
<1> QED
  BY <1>3, <1>9, <1>10, <1>11, <1>12, <1>13, <1>14, <1>15, <1>16, <1>17 DEF SendOK, StreamsOK

\* send_data takes from both windows what it took from the credit, and a body
\* that is cut short closed one of them.
LEMMA SendBodySendOK ==
  ASSUME SendInv, TypeOK', NEW s \in Streams, NEW n \in Nat, NEW end \in BOOLEAN,
         SendBody(s, n, end)
  PROVE  SendOK'
<1> DEFINE sent == Accepted(engine, s, n)
<1>1. TypeOK /\ SendOK /\ engine \in EngineSet
  BY DEF SendInv, IInv, TypeOK
<1>2. /\ engine' = SendData(engine, s, n, end) /\ local[s] = "headers"
      /\ blocked' = IF sent = n THEN blocked \ {s} ELSE blocked \union {s}
      /\ local' = [local EXCEPT ![s] = IF sent = n /\ end THEN "done" ELSE @]
      /\ credit' = [credit EXCEPT ![s] = @ - sent, ![0] = @ - sent]
      /\ UNCHANGED <<frame, ended, forgotten>>
  BY DEF SendBody
<1>3. sent \in Nat
  BY <1>1, AcceptedType
<1>4. sent # n => \/ engine.connection_send_window - sent <= 0
                  \/ StreamSendWindow(engine, s) - sent <= 0
  BY <1>1, CutShort
<1>5. /\ Spent(engine, engine', s, sent)
      /\ engine'.event_queue = engine.event_queue
      /\ Signalled(engine')
  BY <1>1, <1>2, SendDataEffect DEF SendOK
<1> HIDE DEF sent
<1>6. /\ engine.connection_send_window \in Int
      /\ \A t \in Streams : StreamSendWindow(engine, t) \in Int
      /\ \A t \in Streams : engine.flow[t].tracked \in BOOLEAN /\ engine.flow[t].known \in BOOLEAN
  BY <1>1, EngineTypes
<1>7. /\ engine'.role = engine.role /\ engine'.next_stream_id = engine.next_stream_id
      /\ engine'.connection_send_window = engine.connection_send_window - sent
      /\ StreamSendWindow(engine', s) = StreamSendWindow(engine, s) - sent
      /\ \A t \in Streams \ {s} : SameStream(engine, engine', t)
  BY <1>5 DEF Spent
<1>8. /\ \A t \in Streams : (local'[t] = "none") <=> (local[t] = "none")
      /\ local[s] # "none"
  BY <1>1, <1>2 DEF TypeOK
<1>9. \A t \in Streams : KeepsEntry(engine, engine', t)
  <2>1. \A t \in Streams \ {s} : KeepsEntry(engine, engine', t)
    BY <1>7 DEF SameStream, KeepsEntry
  <2>2. KeepsEntry(engine, engine', s)
    <3>1. engine.flow[s].tracked => engine'.flow[s].tracked
      BY <1>5 DEF Spent
    <3>2. CASE engine'.flow[s] = engine.flow[s]
      BY <3>2 DEF KeepsEntry
    <3>3. CASE engine'.flow[s].known = (engine.flow[s].tracked /\ engine.flow[s].known)
      BY <3>1, <3>3 DEF KeepsEntry
    <3> QED  BY <1>5, <3>2, <3>3 DEF Spent
  <2> QED  BY <2>1, <2>2
<1>10. Adds(engine, engine', {})
  BY <1>1, <1>5, AddsNothing
<1>11. \A t \in Streams : engine'.flow[t].tracked => engine.flow[t].tracked \/ local[t] # "none"
  BY <1>7, <1>8 DEF SameStream
<1>12. StreamsOK'
  BY <1>1, <1>2, <1>7, <1>8, <1>9, <1>10, <1>11, QuietStreams DEF SendOK
<1>13. FrameOK'
  BY <1>1, <1>2, <1>7, <1>8, <1>9, QuietFrame DEF SendOK, StreamsOK
<1>14. CreditOK'
  <2>1. credit \in [Streams \union {0} -> Int] /\ s # 0
    BY <1>1, StreamsAssumption DEF TypeOK
  <2>2. /\ credit'[0] = credit[0] - sent /\ credit'[s] = credit[s] - sent
        /\ \A t \in Streams \ {s} : credit'[t] = credit[t]
    BY <1>2, <2>1, StreamsAssumption
  <2>3. /\ credit[0] = engine.connection_send_window
        /\ \A t \in Streams \ forgotten : credit[t] = StreamSendWindow(engine, t)
    BY <1>1 DEF SendOK, CreditOK
  <2> QED  BY <1>2, <1>7, <2>2, <2>3 DEF CreditOK, SameStream
<1>15. BlockedOK'
  <2>1. \A t \in blocked' : t = s \/ t \in blocked
    BY <1>2
  <2> QED  BY <1>1, <1>8, <2>1 DEF SendOK, BlockedOK, TypeOK
<1>16. NoLostWakeup'
  <2> SUFFICES ASSUME NEW t \in blocked' \ forgotten', Sendable(t)'
               PROVE  WakeupQueued(t)'
    BY DEF NoLostWakeup
  <2>1. t \in Streams
    BY DEF TypeOK
  <2>2. engine.connection_send_window - sent > 0 /\ StreamSendWindow(engine', t) > 0
    BY <1>7 DEF Sendable
  <2>3. CASE t = s
    <3>1. sent # n
      BY <1>2, <2>3
    <3> QED  BY <1>3, <1>4, <1>6, <1>7, <2>2, <2>3, <3>1
  <2>4. CASE t # s
    <3>1. t \in blocked \ forgotten
      BY <1>2, <2>4
    <3>2. Sendable(t)
      BY <1>3, <1>6, <1>7, <2>1, <2>2, <2>4 DEF Sendable, SameStream
    <3>3. WakeupQueued(t)
      BY <1>1, <3>1, <3>2 DEF SendOK, NoLostWakeup
    <3> QED  BY <1>5, <3>3 DEF WakeupQueued
  <2> QED  BY <2>3, <2>4
<1> QED  BY <1>5, <1>12, <1>13, <1>14, <1>15, <1>16 DEF SendOK

\* The application learns of a stream, of a window or of something else; the
\* rest of the queue moves up.
LEMMA DrainEventSendOK ==
  ASSUME SendInv, TypeOK', DrainEvent
  PROVE  SendOK'
<1> DEFINE q  == engine.event_queue
           r  == engine'.event_queue
           ev == Head(q)
<1>1. TypeOK /\ SendOK /\ engine \in EngineSet
  BY DEF SendInv, IInv, TypeOK
<1>2. /\ q # <<>> /\ engine' = NextEvent(engine)
      /\ blocked' = IF ev.type = "stream_window_available" THEN blocked \ {ev.stream} ELSE blocked
      /\ local' = IF ev.type = "new_stream" THEN [local EXCEPT ![ev.stream] = "open"] ELSE local
      /\ UNCHANGED <<frame, credit, ended, forgotten>>
  BY DEF DrainEvent
<1>3. SameSending(engine, engine') /\ SameOutput(engine, engine') /\ r = Tail(q)
  BY <1>1, <1>2, NextEventEffect, NextEventLemma
<1>4. /\ engine'.role = engine.role /\ engine'.next_stream_id = engine.next_stream_id
      /\ engine'.connection_send_window = engine.connection_send_window
      /\ engine'.flow = engine.flow
      /\ Signalled(engine')
  BY <1>1, <1>3, SameOutputSignals DEF SameSending, SameConnection, SendOK
<1>5. \A s \in Streams : StreamSendWindow(engine', s) = StreamSendWindow(engine, s)
  BY <1>3, SameSendingStreams DEF SameStream
<1>6. q \in Seq(EventSet)
  BY <1>1, MemberTypes
<1>7. /\ Len(q) \in Nat /\ Len(q) >= 1 /\ DOMAIN q = 1 .. Len(q) /\ ev = q[1]
      /\ DOMAIN r = 1 .. Len(q) - 1
      /\ \A i \in 1 .. Len(q) - 1 : r[i] = q[i + 1]
  BY <1>2, <1>3, <1>6
<1> HIDE DEF q, r, ev
<1>8. \A i \in DOMAIN r : i + 1 \in DOMAIN q /\ i + 1 # 1 /\ r[i] = q[i + 1]
  BY <1>7
<1>9. 1 \in DOMAIN q /\ \A i \in DOMAIN q : i # 1 => i - 1 \in DOMAIN r /\ r[i - 1] = q[i]
  <2>1. ASSUME NEW i \in DOMAIN q, i # 1
        PROVE  i - 1 \in DOMAIN r /\ r[i - 1] = q[i]
    <3>1. i - 1 \in 1 .. Len(q) - 1 /\ (i - 1) + 1 = i
      BY <1>7, <2>1
    <3> QED  BY <1>7, <3>1
  <2> QED  BY <1>7, <2>1
<1>10. \A s \in Streams : local'[s] = IF ev.type = "new_stream" /\ s = ev.stream THEN "open"
                                                                                ELSE local[s]
  BY <1>1, <1>2 DEF TypeOK
<1>11. \A s \in Streams : Queued("new_stream", s)' => Queued("new_stream", s)
  BY <1>8 DEF Queued, q, r
<1>12. \A s \in Streams : ev.type = "new_stream" /\ s = ev.stream => Queued("new_stream", s)
  BY <1>7, <1>9 DEF Queued, q
<1>13. \A s \in Streams : local'[s] # "none" => local[s] # "none" \/ Queued("new_stream", s)
  BY <1>10, <1>12
<1>14. StreamsOK
  BY <1>1 DEF SendOK
<1>15. KnownOK' /\ EntriesOK'
  BY <1>2, <1>4, <1>11, <1>13, <1>14 DEF StreamsOK, KnownOK, EntriesOK
<1>16. ClientOK'
  <2> SUFFICES ASSUME engine.role = "client", NEW s \in Streams
               PROVE  /\ ~Queued("new_stream", s)'
                      /\ IF local'[s] = "none" THEN ~engine'.flow[s].tracked
                                               ELSE s \in Nat /\ s < engine'.next_stream_id
    BY <1>4 DEF ClientOK
  <2>1. ~Queued("new_stream", s)
    BY <1>14 DEF StreamsOK, ClientOK
  <2>2. local'[s] = local[s]
    BY <1>10, <1>12, <2>1
  <2> QED  BY <1>4, <1>11, <1>14, <2>1, <2>2 DEF StreamsOK, ClientOK
<1>17. ServerOK'
  <2> SUFFICES ASSUME engine.role = "server", NEW s \in Streams, Fresh(s)
               PROVE  /\ local'[s] = "none"
                      /\ ~engine'.flow[s].tracked
                      /\ \A i \in DOMAIN r : r[i].stream # s
    BY <1>2, <1>4 DEF ServerOK, Fresh, r
  <2>1. /\ local[s] = "none" /\ ~engine.flow[s].tracked
        /\ \A i \in DOMAIN q : q[i].stream # s
    BY <1>14 DEF StreamsOK, ServerOK, q
  <2> QED  BY <1>4, <1>7, <1>8, <1>9, <1>10, <2>1
<1>18. AnnouncedOnce'
  <2> SUFFICES ASSUME NEW i \in DOMAIN r, NEW j \in DOMAIN r, r[i].type = "new_stream",
                      r[j].type = "new_stream", r[i].stream = r[j].stream
               PROVE  i = j
    BY DEF AnnouncedOnce, r
  <2>1. i + 1 = j + 1
    BY <1>8, <1>14 DEF StreamsOK, AnnouncedOnce, q
  <2> QED  BY <1>7, <2>1
<1>19. NewStreamOnce'
  <2> SUFFICES ASSUME NEW s \in Streams, Announces(s)'
               PROVE  /\ local'[s] = "none"
                      /\ \A i \in DOMAIN r : r[i].stream = s =>
                           \E j \in 1 .. i : r[j] = Event("new_stream", s, 0)
    BY DEF NewStreamOnce, r
  <2> DEFINE new == Event("new_stream", s, 0)
  <2>1. new.type = "new_stream" /\ new.stream = s
    BY DEF Event
  <2> HIDE DEF new
  <2>2. PICK k \in DOMAIN r : r[k] = new
    BY DEF Announces, r, new
  <2>3. Announces(s)
    BY <1>8, <2>2 DEF Announces, q, new
  <2>4. /\ local[s] = "none"
        /\ \A i \in DOMAIN q : q[i].stream = s => \E j \in 1 .. i : q[j] = new
    BY <1>14, <2>3 DEF StreamsOK, NewStreamOnce, q, new
  <2>5. q[1].type = "new_stream" => q[1].stream # s
    <3> SUFFICES ASSUME q[1].type = "new_stream", q[1].stream = s PROVE FALSE
      OBVIOUS
    <3>1. k + 1 = 1
      BY <1>8, <1>9, <1>14, <2>1, <2>2 DEF StreamsOK, AnnouncedOnce, q
    <3> QED  BY <1>8, <2>2, <3>1
  <2>6. local'[s] = "none"
    BY <1>7, <1>10, <2>4, <2>5
  <2>7. ASSUME NEW i \in DOMAIN r, r[i].stream = s
        PROVE  \E j \in 1 .. i : r[j] = new
    <3>1. PICK j \in 1 .. i + 1 : q[j] = new
      BY <1>8, <2>4, <2>7
    <3>2. i \in Nat /\ i >= 1 /\ i + 1 \in 1 .. Len(q)
      BY <1>7
    <3>3. j \in DOMAIN q
      BY <1>7, <3>2
    <3>4. j # 1
      BY <2>1, <2>5, <3>1
    <3>5. r[j - 1] = new
      BY <1>9, <3>1, <3>3, <3>4
    <3>6. j - 1 \in 1 .. i
      BY <3>2, <3>4
    <3> QED  BY <3>5, <3>6
  <2> QED  BY <2>6, <2>7 DEF new
<1>20. FrameOK'
  <2>1. \A s \in Streams : KeepsEntry(engine, engine', s)
    BY <1>4 DEF KeepsEntry
  <2>2. \A s \in Streams : local[s] # "none" => local'[s] # "none"
    BY <1>10
  <2> QED  BY <1>1, <1>2, <1>4, <1>14, <2>1, <2>2, QuietFrame DEF SendOK, StreamsOK
<1>21. CreditOK'
  BY <1>1, <1>2, <1>4, <1>5 DEF SendOK, CreditOK
<1>22. BlockedOK'
  BY <1>1, <1>2, <1>10 DEF SendOK, BlockedOK, TypeOK
<1>23. NoLostWakeup'
  <2> SUFFICES ASSUME NEW s \in blocked' \ forgotten', Sendable(s)'
               PROVE  WakeupQueued(s)'
    BY DEF NoLostWakeup
  <2>1. s \in Streams /\ s \in blocked \ forgotten
    BY <1>1, <1>2 DEF TypeOK
  <2>2. Sendable(s)
    BY <1>4, <1>5, <2>1 DEF Sendable
  <2>3. PICK i \in DOMAIN q : q[i].type = "stream_window_available" /\ q[i].stream = s
    BY <1>1, <2>1, <2>2 DEF SendOK, NoLostWakeup, WakeupQueued, q
  <2>4. i # 1
    BY <1>2, <1>7, <2>3
  <2>5. i - 1 \in DOMAIN r /\ r[i - 1] = q[i]
    BY <1>9, <2>4
  <2> QED  BY <2>3, <2>5 DEF WakeupQueued, r
<1> QED  BY <1>4, <1>15, <1>16, <1>17, <1>18, <1>19, <1>20, <1>21, <1>22, <1>23 DEF SendOK, StreamsOK

----------------------------------------------------------------------------
(* The steps of the transport.                                             *)

\* A header may close the stream it names; the frame that is read from then
\* on is one the peer may send.
LEMMA ReadFrameHeaderSendOK ==
  ASSUME SendInv, TypeOK', NEW f \in PeerFrames, ReadFrameHeader(f)
  PROVE  SendOK'
<1>1. TypeOK /\ SendOK /\ engine \in EngineSet /\ f \in FrameSet
  BY PeerAssumption DEF SendInv, IInv, TypeOK
<1>2. /\ frame = NoFrame /\ PeerMaySend(f)
      /\ engine' = HandleFrameHeader(engine, f)
      /\ frame' = IF f.len = 0 THEN NoFrame ELSE f
      /\ ended' = IF Closes(f) /\ f.len = 0 THEN ended \union {f.stream} ELSE ended
      /\ UNCHANGED <<local, blocked, credit, forgotten>>
  BY DEF ReadFrameHeader
<1>3. /\ SameSending(engine, engine') /\ Signalled(engine') /\ Adds(engine, engine', {f.stream})
      /\ engine'.event_queue # engine.event_queue => f.len = 0 /\ f.end
  BY <1>1, <1>2, HandleFrameHeaderEffect DEF SendOK
<1>4. /\ engine'.role = engine.role /\ engine'.next_stream_id = engine.next_stream_id
      /\ engine'.connection_send_window = engine.connection_send_window
      /\ engine'.flow = engine.flow
  BY <1>3 DEF SameSending, SameConnection
<1>5. \A s \in Streams : StreamSendWindow(engine', s) = StreamSendWindow(engine, s)
  BY <1>3, SameSendingStreams DEF SameStream
<1>6. \A s \in Streams : KeepsEntry(engine, engine', s)
  BY <1>4 DEF KeepsEntry
<1>7. ended \subseteq ended'
  BY <1>2
<1>8. f.stream \in Streams \union {0}
  BY <1>1 DEF FrameSet
<1>9. StreamsOK'
  <2>1. CASE engine'.event_queue = engine.event_queue
    <3>1. Adds(engine, engine', {})
      BY <1>1, <2>1, AddsNothing
    <3> QED  BY <1>1, <1>2, <1>4, <1>6, <1>7, <3>1, QuietStreams DEF SendOK
  <2>2. CASE engine'.event_queue # engine.event_queue
    <3>1. f.stream \in ended'
      BY <1>2, <1>3, <2>2 DEF Closes
    <3>2. \A s \in Streams \intersect {f.stream} : ~Fresh(s)'
      BY <3>1 DEF Fresh
    <3> QED  BY <1>1, <1>2, <1>3, <1>4, <1>6, <1>7, <3>2, QuietStreams DEF SendOK
  <2> QED  BY <2>1, <2>2
<1>10. FrameOK'
  <2>1. CASE f.len = 0
    BY <1>2, <2>1 DEF FrameOK, NoFrame, Frame
  <2>2. CASE f.len # 0
    <3>1. frame' = f /\ ended' = ended
      BY <1>2, <2>2
    <3>2. engine.role = "client" /\ f.stream # 0 => local[f.stream] # "none"
      BY <1>2 DEF PeerMaySend
    <3>3. f.type = "headers" => f.stream \notin ended
      BY <1>2 DEF PeerMaySend
    <3>4. engine.role = "server" /\ f.type # "headers" /\ f.stream # 0 => ~Fresh(f.stream)
      <4> SUFFICES ASSUME engine.role = "server", f.type # "headers", f.stream # 0
                   PROVE  ~Fresh(f.stream)
        OBVIOUS
      <4>1. local[f.stream] # "none" \/ engine.flow[f.stream].known
        BY <1>2 DEF PeerMaySend
      <4> QED  BY <1>1, <1>8, <4>1 DEF SendOK, StreamsOK, ServerOK, Fresh
    <3> QED  BY <1>2, <1>4, <3>1, <3>2, <3>3, <3>4 DEF FrameOK, Fresh
  <2> QED  BY <2>1, <2>2
<1>11. CreditOK'
  BY <1>1, <1>2, <1>4, <1>5 DEF SendOK, CreditOK
<1>12. BlockedOK'
  BY <1>1, <1>2 DEF SendOK, BlockedOK
<1>13. NoLostWakeup'
  <2>1. \A s \in blocked' \ forgotten' : MaySend(engine', s) => MaySend(engine, s)
    BY <1>1, <1>2, <1>4, <1>5 DEF MaySend, TypeOK
  <2> QED  BY <1>1, <1>2, <1>3, <2>1, QuietWakeups DEF SendOK
<1> QED  BY <1>3, <1>9, <1>10, <1>11, <1>12, <1>13 DEF SendOK

\* What ReadPayload changes outside the engine.
PayloadRead(whole) ==
  /\ frame' = IF whole THEN NoFrame ELSE frame
  /\ ended' = IF Closes(frame) THEN ended \union {frame.stream} ELSE ended
  /\ forgotten' = IF frame.type = "data" /\ frame.end THEN forgotten \union {frame.stream} ELSE forgotten
  /\ credit' = Granted(frame)
  /\ UNCHANGED <<local, blocked>>

\* The frame that is read stays one of a stream in use.
LEMMA PayloadFrame ==
  ASSUME TypeOK, TypeOK', KnownOK, FrameOK, NEW whole \in BOOLEAN, PayloadRead(whole),
         engine'.role = engine.role,
         \A s \in Streams : KeepsEntry(engine, engine', s) \/ s \in ended',
         engine.role = "server" /\ frame.type = "headers" => engine'.flow[frame.stream].known
  PROVE  FrameOK'
<1>1. CASE whole
  BY <1>1 DEF PayloadRead, FrameOK, NoFrame, Frame
<1>2. CASE ~whole
  <2>1. frame' = frame /\ local' = local /\ ended \subseteq ended'
    BY <1>2 DEF PayloadRead
  <2>2. frame.stream \in Streams \union {0}
    BY PeerAssumption DEF TypeOK, FrameSet, NoFrame, Frame
  <2>3. \A s \in Streams : Fresh(s)' => Fresh(s)
    BY <2>1, FreshBefore
  <2>4. engine.role = "server" /\ frame.type # "headers" /\ frame.stream # 0 => ~Fresh(frame.stream)'
    BY <2>1, <2>2, <2>3 DEF FrameOK
  <2> QED  BY <2>1, <2>4 DEF FrameOK, Fresh
<1> QED  BY <1>1, <1>2

\* A frame of the connection, or of a stream in use, that ends no stream with DATA.
LEMMA CreditFrame ==
  ASSUME TypeOK, TypeOK', SendOK, NEW whole \in BOOLEAN, PayloadRead(whole),
         frame.type # "headers", ~(frame.type = "data" /\ frame.end),
         engine'.role = engine.role, engine'.next_stream_id = engine.next_stream_id,
         Signalled(engine'), KeepsEntries(engine, engine', {frame.stream}),
         NEW T, Adds(engine, engine', T),
         engine.role = "server" => \A s \in Streams \intersect T : ~Fresh(s)',
         CreditOK',
         \A s \in blocked' \ forgotten' :
           MaySend(engine', s) => MaySend(engine, s) \/ WakeupQueued(s)'
  PROVE  SendOK'
<1>1. /\ local' = local /\ blocked' = blocked /\ forgotten' = forgotten /\ ended \subseteq ended'
  BY DEF PayloadRead
<1>2. \A s \in Streams : KeepsEntry(engine, engine', s)
  BY DEF KeepsEntries
<1>3. \A s \in Streams :
        engine'.flow[s].tracked =>
          engine.flow[s].tracked \/ local[s] # "none" \/ (engine.role = "server" /\ ~Fresh(s))
  <2> SUFFICES ASSUME NEW s \in Streams, engine'.flow[s].tracked, ~engine.flow[s].tracked
               PROVE  local[s] # "none" \/ (engine.role = "server" /\ ~Fresh(s))
    OBVIOUS
  <2>1. s = frame.stream /\ s # 0
    BY StreamsAssumption DEF KeepsEntries
  <2>2. engine.role \in {"client", "server"}
    BY EngineTypes
  <2> QED  BY <2>1, <2>2 DEF SendOK, FrameOK
<1>4. StreamsOK'
  BY <1>1, <1>2, <1>3, QuietStreams DEF SendOK
<1>5. FrameOK'
  BY <1>2, PayloadFrame DEF SendOK, StreamsOK
<1>6. BlockedOK'
  BY <1>1 DEF SendOK, BlockedOK
<1>7. NoLostWakeup'
  BY <1>1, QuietWakeups DEF SendOK
<1> QED  BY <1>4, <1>5, <1>6, <1>7 DEF SendOK

\* A frame that gives no credit leaves what is granted as it was.
LEMMA GrantsNothing ==
  ASSUME TypeOK, CreditOK, NEW whole, PayloadRead(whole), frame.type \notin {"window_update", "settings"},
         engine'.connection_send_window = engine.connection_send_window,
         \A s \in Streams \ forgotten' : StreamSendWindow(engine', s) = StreamSendWindow(engine, s)
  PROVE  CreditOK'
<1>1. credit' = credit /\ forgotten \subseteq forgotten'
  BY DEF PayloadRead, Granted
<1> QED  BY <1>1 DEF CreditOK

\* A frame that moves no window, of a stream that the peer used before.
LEMMA QuietPayload ==
  ASSUME TypeOK, TypeOK', SendOK, NEW whole \in BOOLEAN, PayloadRead(whole),
         frame.type \notin {"headers", "window_update", "settings"},
         ~(frame.type = "data" /\ frame.end),
         engine'.role = engine.role, engine'.next_stream_id = engine.next_stream_id,
         engine'.connection_send_window = engine.connection_send_window,
         \A s \in Streams : StreamSendWindow(engine', s) = StreamSendWindow(engine, s),
         KeepsEntries(engine, engine', {frame.stream}), Signalled(engine'),
         Adds(engine, engine', {frame.stream, 0})
  PROVE  SendOK'
<1>1. ended \subseteq ended' /\ frame.stream \in Streams \union {0}
  BY PeerAssumption DEF PayloadRead, TypeOK, FrameSet, NoFrame, Frame
<1>2. \A s \in Streams : Fresh(s)' => Fresh(s)
  BY <1>1, FreshBefore DEF SendOK, StreamsOK, KeepsEntries
<1>3. engine.role = "server" => \A s \in Streams \intersect {frame.stream, 0} : ~Fresh(s)'
  BY <1>2, StreamsAssumption DEF SendOK, FrameOK
<1>4. CreditOK'
  BY GrantsNothing DEF SendOK
<1>5. \A s \in blocked' \ forgotten' : MaySend(engine', s) => MaySend(engine, s)
  BY DEF MaySend, TypeOK
<1> QED  BY <1>3, <1>4, <1>5, CreditFrame

\* DATA that does not end its stream.
LEMMA DataPayload ==
  ASSUME SendInv, TypeOK', NEW n \in Nat, NEW whole \in BOOLEAN, PayloadRead(whole),
         frame \in PeerFrames, frame.type = "data", ~frame.end,
         engine' = ReceiveData(engine, frame, n)
  PROVE  SendOK'
<1> DEFINE s == frame.stream
<1>1. TypeOK /\ SendOK /\ engine \in EngineSet /\ frame \in FrameSet /\ s \in Streams
  BY PeerAssumption DEF SendInv, IInv, TypeOK
<1>2. /\ SameConnection(engine, engine')
      /\ \A t \in Streams \ {s} : SameStream(engine, engine', t)
      /\ Entered(engine, engine', s)
      /\ Adds(engine, engine', {s, 0})
      /\ Signalled(engine')
  BY <1>1, ReceiveDataEffect DEF SendOK
<1>3. KeepsSending(engine, engine', s)
  BY <1>2 DEF KeepsSending
<1>4. KeepsEntries(engine, engine', {s})
  BY <1>1, <1>3, KeepsSendingKeeps DEF TypeOK
<1>5. \A t \in Streams : StreamSendWindow(engine', t) = StreamSendWindow(engine, t)
  BY <1>2 DEF SameStream, Entered
<1> QED  BY <1>1, <1>2, <1>4, <1>5, QuietPayload DEF SameConnection

\* DATA that ends its stream: the flow state is erased and the stream forgotten.
LEMMA LastDataPayload ==
  ASSUME SendInv, TypeOK', NEW n \in Nat, NEW whole \in BOOLEAN, PayloadRead(whole),
         frame \in PeerFrames, frame.type = "data", frame.end,
         engine' = ReceiveData(engine, frame, n)
  PROVE  SendOK'
<1> DEFINE s == frame.stream
<1>1. TypeOK /\ SendOK /\ engine \in EngineSet /\ frame \in FrameSet /\ s \in Streams
  BY PeerAssumption DEF SendInv, IInv, TypeOK
<1>2. /\ SameConnection(engine, engine')
      /\ \A t \in Streams \ {s} : SameStream(engine, engine', t)
      /\ ~engine'.flow[s].tracked /\ ~engine'.flow[s].known
      /\ Adds(engine, engine', {s, 0})
      /\ Signalled(engine')
  BY <1>1, ReceiveDataEffect DEF SendOK
<1>3. /\ s \in ended' /\ s \in forgotten' /\ ended \subseteq ended' /\ forgotten \subseteq forgotten'
      /\ local' = local /\ blocked' = blocked
  BY DEF PayloadRead, Closes
<1>4. \A t \in Streams \ {s} : KeepsEntry(engine, engine', t)
  BY <1>2 DEF SameStream, KeepsEntry
<1>5. \A t \in Streams : engine'.flow[t].tracked => engine.flow[t].tracked
  BY <1>2 DEF SameStream
<1>6. \A t \in Streams \ forgotten' : StreamSendWindow(engine', t) = StreamSendWindow(engine, t)
  BY <1>2, <1>3 DEF SameStream
<1>7. \A t \in Streams \intersect {s, 0} : ~Fresh(t)'
  BY <1>3, StreamsAssumption DEF Fresh
<1>8. /\ engine'.role = engine.role /\ engine'.next_stream_id = engine.next_stream_id
      /\ engine'.connection_send_window = engine.connection_send_window
  BY <1>2 DEF SameConnection
<1> HIDE DEF s
<1>9. \A t \in Streams : \/ KeepsEntry(engine, engine', t)
                         \/ /\ t \in forgotten' /\ t \in ended'
                            /\ ~engine'.flow[t].tracked /\ ~engine'.flow[t].known
  BY <1>2, <1>3, <1>4
<1>10. StreamsOK'
  BY <1>1, <1>2, <1>3, <1>5, <1>7, <1>8, <1>9, QuietStreams DEF SendOK
<1>11. FrameOK'
  BY <1>1, <1>8, <1>9, PayloadFrame DEF SendOK, StreamsOK
<1>12. CreditOK'
  BY <1>1, <1>6, <1>8, GrantsNothing DEF SendOK
<1>13. BlockedOK'
  BY <1>1, <1>3 DEF SendOK, BlockedOK
<1>14. NoLostWakeup'
  <2>1. \A t \in blocked' \ forgotten' : MaySend(engine', t) => MaySend(engine, t)
    BY <1>1, <1>3, <1>6, <1>8 DEF MaySend, TypeOK
  <2> QED  BY <1>1, <1>2, <1>3, <2>1, QuietWakeups DEF SendOK
<1> QED  BY <1>2, <1>10, <1>11, <1>12, <1>13, <1>14 DEF SendOK

\* RST_STREAM, GOAWAY and the frames the engine ignores.
LEMMA OtherPayload ==
  ASSUME SendInv, TypeOK', NEW whole \in BOOLEAN, PayloadRead(whole),
         frame \in PeerFrames, frame.type \notin {"data", "headers", "settings", "window_update"},
         NEW n, NEW q, engine' = HandlePayloadChunk(engine, frame, n, q)
  PROVE  SendOK'
<1>1. /\ TypeOK /\ SendOK /\ engine \in EngineSet /\ frame \in FrameSet
      /\ frame.type = "rst_stream" => frame.stream \in Streams
      /\ frame.type = "goaway" => frame.val \in 0 .. 2
  BY PeerAssumption DEF SendInv, IInv, TypeOK
<1>2. SameSending(engine, engine') /\ Signalled(engine') /\ Adds(engine, engine', {frame.stream, 0})
  <2>1. CASE frame.type = "rst_stream"
    <3>1. engine' = Emit(engine, <<Event("stream_reset", frame.stream, 0)>>)
      BY <2>1 DEF HandlePayloadChunk
    <3>2. SameSending(engine, engine') /\ Signalled(engine') /\ Adds(engine, engine', {frame.stream})
      BY <1>1, <2>1, <3>1, ResetEffect DEF SendOK
    <3> QED  BY <3>2, AddsMore
  <2>2. CASE frame.type = "goaway"
    <3>1. engine' = HandleGoaway(engine, frame)
      BY <2>2 DEF HandlePayloadChunk
    <3>2. SameSending(engine, engine') /\ Signalled(engine') /\ Adds(engine, engine', {0})
      BY <1>1, <2>2, <3>1, HandleGoawayEffect DEF SendOK
    <3> QED  BY <3>2, AddsMore
  <2>3. CASE frame.type \notin {"rst_stream", "goaway"}
    <3>1. engine' = engine
      BY <2>3 DEF HandlePayloadChunk
    <3> QED  BY <1>1, <3>1, AddsNothing DEF SendOK, SameSending, SameConnection
  <2> QED  BY <2>1, <2>2, <2>3
<1>3. KeepsEntries(engine, engine', {frame.stream})
  BY <1>1, <1>2, SameSendingKeeps
<1>4. \A s \in Streams : StreamSendWindow(engine', s) = StreamSendWindow(engine, s)
  BY <1>2, SameSendingStreams DEF SameStream
<1> QED  BY <1>1, <1>2, <1>3, <1>4, QuietPayload DEF SameSending, SameConnection

\* A stream that gains its window has its wakeup queued.
LEMMA RaisedWoken ==
  ASSUME TypeOK, TypeOK', StreamsOK, BlockedOK, NEW S, Raises(engine, engine', S),
         Wakes(engine, engine', S), blocked' = blocked, forgotten' = forgotten
  PROVE  \A s \in blocked' \ forgotten' :
           MaySend(engine', s) => MaySend(engine, s) \/ WakeupQueued(s)'
<1> SUFFICES ASSUME NEW s \in blocked \ forgotten, MaySend(engine', s), ~MaySend(engine, s)
             PROVE  WakeupQueued(s)'
  OBVIOUS
<1>1. s \in Tracked(engine)
  BY DEF TypeOK, StreamsOK, EntriesOK, BlockedOK, Tracked
<1>2. s \in S
  BY <1>1 DEF Raises
<1> QED  BY <1>2, WokenQueued

\* WINDOW_UPDATE raises the window it names and what is granted alike.
LEMMA WindowUpdatePayload ==
  ASSUME SendInv, TypeOK', NEW whole \in BOOLEAN, PayloadRead(whole),
         frame \in PeerFrames, frame.type = "window_update",
         NEW q \in IterationOrders(Woken(engine, frame)),
         engine' = HandleWindowUpdate(engine, frame, q)
  PROVE  SendOK'
<1> DEFINE W == Woken(engine, frame)
           S == IF frame.val = 0 THEN {} ELSE W
<1>1. /\ TypeOK /\ SendOK /\ engine \in EngineSet /\ frame \in FrameSet
      /\ frame.val \in Nat /\ frame.stream \in Streams \union {0} /\ 0 \notin Streams
  BY PeerAssumption, StreamsAssumption DEF SendInv, IInv, TypeOK, FrameSet
<1>2. /\ engine'.role = engine.role /\ engine'.next_stream_id = engine.next_stream_id
      /\ IF frame.stream = 0
         THEN engine'.connection_send_window = engine.connection_send_window + frame.val
         ELSE engine'.connection_send_window = engine.connection_send_window
      /\ \A t \in Streams : IF t = frame.stream
                            THEN StreamSendWindow(engine', t) = StreamSendWindow(engine, t) + frame.val
                            ELSE StreamSendWindow(engine', t) = StreamSendWindow(engine, t)
      /\ KeepsEntries(engine, engine', {frame.stream})
      /\ Adds(engine, engine', W \union {0})
      /\ frame.val # 0 => Wakes(engine, engine', W)
      /\ Raises(engine, engine', S)
      /\ Signalled(engine')
  BY <1>1, HandleWindowUpdateEffect DEF SendOK
<1>3. credit' = [credit EXCEPT ![frame.stream] = @ + frame.val]
  BY DEF PayloadRead, Granted
<1>4. CreditOK'
  <2>1. credit \in [Streams \union {0} -> Int]
    BY <1>1 DEF TypeOK
  <2>2. /\ credit[0] = engine.connection_send_window
        /\ \A t \in Streams \ forgotten : credit[t] = StreamSendWindow(engine, t)
    BY <1>1 DEF SendOK, CreditOK
  <2>3. forgotten' = forgotten
    BY DEF PayloadRead
  <2>4. \A t \in Streams \union {0} :
          credit'[t] = IF t = frame.stream THEN credit[t] + frame.val ELSE credit[t]
    BY <1>3, <2>1
  <2> QED  BY <1>1, <1>2, <2>2, <2>3, <2>4 DEF CreditOK
<1>5. \A t \in W : engine.flow[t].tracked \/ t = frame.stream
  BY DEF Woken, WokenByConnection, WokenByStream, WokenBySettings, Tracked
<1>6. ended \subseteq ended' /\ forgotten' = forgotten /\ blocked' = blocked
  BY DEF PayloadRead
<1>7. engine.role = "server" => \A t \in Streams \intersect (W \union {0}) : ~Fresh(t)'
  <2> SUFFICES ASSUME engine.role = "server", NEW t \in Streams, t \in W, Fresh(t)'
               PROVE  FALSE
    BY <1>1
  <2>1. Fresh(t)
    BY <1>1, <1>2, <1>6, FreshBefore DEF SendOK, StreamsOK, KeepsEntries
  <2>2. ~engine.flow[t].tracked
    BY <1>1, <2>1 DEF SendOK, StreamsOK, ServerOK
  <2>3. t = frame.stream
    BY <1>5, <2>2
  <2> QED  BY <1>1, <2>1, <2>3 DEF SendOK, FrameOK
<1>8. Wakes(engine, engine', S)
  BY <1>2 DEF Wakes
<1>9. \A t \in blocked' \ forgotten' :
        MaySend(engine', t) => MaySend(engine, t) \/ WakeupQueued(t)'
  BY <1>1, <1>2, <1>6, <1>8, RaisedWoken DEF SendOK
<1> HIDE DEF W, S
<1> QED  BY <1>1, <1>2, <1>4, <1>7, <1>9, CreditFrame

\* SETTINGS move every window and what is granted alike.
LEMMA SettingsPayload ==
  ASSUME SendInv, TypeOK', NEW whole \in BOOLEAN, PayloadRead(whole),
         frame \in PeerFrames, frame.type = "settings",
         NEW q \in IterationOrders(Woken(engine, frame)),
         engine' = ApplyPeerInitialWindowSize(engine, frame.val, q)
  PROVE  SendOK'
<1> DEFINE W == WokenBySettings(engine, frame.val)
<1>1. /\ TypeOK /\ SendOK /\ engine \in EngineSet /\ frame \in FrameSet
      /\ frame.val \in Nat /\ 0 \notin Streams
  BY PeerAssumption, StreamsAssumption DEF SendInv, IInv, TypeOK, FrameSet
<1>2. Woken(engine, frame) = W
  BY DEF Woken
<1>3. /\ engine'.role = engine.role /\ engine'.next_stream_id = engine.next_stream_id
      /\ engine'.connection_send_window = engine.connection_send_window
      /\ \A t \in Streams : StreamSendWindow(engine', t)
           = StreamSendWindow(engine, t) + frame.val - engine.peer_initial_window_size
      /\ KeepsEntries(engine, engine', {})
      /\ Adds(engine, engine', W) /\ Wakes(engine, engine', W) /\ Raises(engine, engine', W)
      /\ Signalled(engine')
  BY <1>1, <1>2, ApplyPeerInitialWindowSizeEffect DEF SendOK
<1>4. ended \subseteq ended' /\ forgotten' = forgotten /\ blocked' = blocked
  BY DEF PayloadRead
<1>5. CreditOK'
  <2>1. credit' = [s \in Streams \union {0} |->
                     IF s = 0 THEN credit[0]
                     ELSE credit[s] + frame.val - engine.peer_initial_window_size]
    BY DEF PayloadRead, Granted
  <2>2. /\ credit[0] = engine.connection_send_window
        /\ \A t \in Streams \ forgotten : credit[t] = StreamSendWindow(engine, t)
    BY <1>1 DEF SendOK, CreditOK
  <2>3. /\ credit'[0] = credit[0]
        /\ \A t \in Streams : credit'[t] = credit[t] + frame.val - engine.peer_initial_window_size
    BY <1>1, <2>1
  <2> QED  BY <1>3, <1>4, <2>2, <2>3 DEF CreditOK
<1>6. \A t \in W : engine.flow[t].tracked
  BY DEF WokenBySettings, Tracked
<1> HIDE DEF W
<1>7. KeepsEntries(engine, engine', {frame.stream})
  BY <1>3 DEF KeepsEntries
<1>8. engine.role = "server" => \A t \in Streams \intersect W : ~Fresh(t)'
  <2> SUFFICES ASSUME engine.role = "server", NEW t \in Streams, t \in W, Fresh(t)'
               PROVE  FALSE
    OBVIOUS
  <2>1. Fresh(t)
    BY <1>1, <1>4, <1>7, FreshBefore DEF SendOK, StreamsOK, KeepsEntries
  <2> QED  BY <1>1, <1>6, <2>1 DEF SendOK, StreamsOK, ServerOK
<1>9. \A t \in blocked' \ forgotten' :
        MaySend(engine', t) => MaySend(engine, t) \/ WakeupQueued(t)'
  BY <1>1, <1>3, <1>4, RaisedWoken DEF SendOK
<1> QED  BY <1>1, <1>3, <1>5, <1>7, <1>8, <1>9, CreditFrame

\* The first HEADERS of a stream announce it before anything else is said of it.
LEMMA AnnouncedStreams ==
  ASSUME TypeOK, TypeOK', StreamsOK, NEW s \in Streams, engine.role = "server", Fresh(s),
         NEW a \in EngineSet,
         a.event_queue = Append(engine.event_queue, Event("new_stream", s, 0)),
         Adds(a, engine', {s}),
         engine'.role = engine.role,
         \A t \in Streams \ {s} : KeepsEntry(engine, engine', t)
                                  /\ engine'.flow[t].tracked = engine.flow[t].tracked,
         engine'.flow[s].tracked, engine'.flow[s].known,
         local' = local, forgotten' = forgotten, ended \subseteq ended'
  PROVE  StreamsOK'
<1> DEFINE q   == engine.event_queue
           r   == engine'.event_queue
           n   == Len(q) + 1
           new == Event("new_stream", s, 0)
<1>1. new.type = "new_stream" /\ new.stream = s /\ new \in EventSet
  BY EventTypesOK DEF EventTypes, Event
<1>2. q \in Seq(EventSet) /\ r \in Seq(EventSet)
  BY MemberTypes DEF TypeOK
<1> HIDE DEF new
<1>3. /\ Len(q) \in Nat /\ Len(r) \in Nat /\ DOMAIN q = 1 .. Len(q) /\ DOMAIN r = 1 .. Len(r)
      /\ Len(a.event_queue) = n /\ a.event_queue[n] = new
      /\ \A i \in 1 .. Len(q) : a.event_queue[i] = q[i]
  <2>1. a.event_queue = Append(q, new)
    BY DEF new
  <2> QED  BY <1>1, <1>2, <2>1
<1>4. /\ n \in DOMAIN r /\ r[n] = new
      /\ \A i \in DOMAIN q : i \in DOMAIN r /\ r[i] = q[i] /\ i < n
      /\ \A i \in DOMAIN r : \/ i \in DOMAIN q
                             \/ i = n
                             \/ n < i /\ r[i].type # "new_stream" /\ r[i].stream = s
  <2>1. /\ n <= Len(r)
        /\ \A i \in 1 .. n : r[i] = a.event_queue[i]
        /\ \A i \in n + 1 .. Len(r) : r[i].type # "new_stream" /\ r[i].stream = s
    BY <1>3 DEF Adds
  <2> HIDE DEF q, r
  <2> QED  BY <1>3, <2>1
<1>5. /\ local[s] = "none" /\ \A i \in DOMAIN q : q[i].stream # s
  BY DEF StreamsOK, ServerOK
<1> HIDE DEF q, r
<1>6. \A t \in Streams \ {s} : Fresh(t)' => Fresh(t)
  BY FreshBefore DEF StreamsOK
<1>7. \A t \in Streams \ {s} : Queued("new_stream", t)' => Queued("new_stream", t)
  BY <1>1, <1>4 DEF Queued, q, r
<1>8. KnownOK'
  BY DEF StreamsOK, KnownOK, KeepsEntry
<1>9. EntriesOK'
  BY <1>7 DEF StreamsOK, EntriesOK
<1>10. ClientOK'
  BY DEF ClientOK
<1>11. ServerOK'
  <2> SUFFICES ASSUME NEW t \in Streams, Fresh(t)'
               PROVE  /\ local'[t] = "none"
                      /\ ~engine'.flow[t].tracked
                      /\ \A i \in DOMAIN r : r[i].stream # t
    BY DEF ServerOK, r
  <2>1. t # s
    BY DEF Fresh
  <2>2. /\ local[t] = "none" /\ ~engine.flow[t].tracked
        /\ \A i \in DOMAIN q : q[i].stream # t
    BY <1>6, <2>1 DEF StreamsOK, ServerOK, q
  <2> QED  BY <1>1, <1>4, <2>1, <2>2
<1>12. AnnouncedOnce'
  <2> SUFFICES ASSUME NEW i \in DOMAIN r, NEW j \in DOMAIN r, r[i].type = "new_stream",
                      r[j].type = "new_stream", r[i].stream = r[j].stream
               PROVE  i = j
    BY DEF AnnouncedOnce, r
  <2>1. CASE i = n /\ j = n
    BY <2>1
  <2>2. CASE i \in DOMAIN q /\ j \in DOMAIN q
    BY <1>4, <2>2 DEF StreamsOK, AnnouncedOnce, q
  <2>3. CASE i = n /\ j \in DOMAIN q
    BY <1>1, <1>4, <1>5, <2>3
  <2>4. CASE j = n /\ i \in DOMAIN q
    BY <1>1, <1>4, <1>5, <2>4
  <2> QED  BY <1>4, <2>1, <2>2, <2>3, <2>4
<1>13. NewStreamOnce'
  <2> SUFFICES ASSUME NEW t \in Streams, Announces(t)'
               PROVE  /\ local'[t] = "none"
                      /\ \A i \in DOMAIN r : r[i].stream = t =>
                           \E j \in 1 .. i : r[j] = Event("new_stream", t, 0)
    BY DEF NewStreamOnce, r
  <2>1. CASE t = s
    <3>1. ASSUME NEW i \in DOMAIN r, r[i].stream = s
          PROVE  n \in 1 .. i
      BY <1>3, <1>4, <1>5, <3>1
    <3> QED  BY <1>4, <1>5, <2>1, <3>1 DEF new
  <2>2. CASE t # s
    <3>1. PICK k \in DOMAIN r : r[k] = Event("new_stream", t, 0)
      BY DEF Announces, r
    <3>2. r[k].type = "new_stream" /\ r[k].stream = t
      BY <3>1 DEF Event
    <3>3. k \in DOMAIN q /\ q[k] = Event("new_stream", t, 0)
      BY <1>1, <1>4, <2>2, <3>1, <3>2
    <3>4. Announces(t)
      BY <3>3 DEF Announces, q
    <3>5. /\ local[t] = "none"
          /\ \A i \in DOMAIN q : q[i].stream = t => \E j \in 1 .. i : q[j] = Event("new_stream", t, 0)
      BY <3>4 DEF StreamsOK, NewStreamOnce, q
    <3>6. ASSUME NEW i \in DOMAIN r, r[i].stream = t
          PROVE  \E j \in 1 .. i : r[j] = Event("new_stream", t, 0)
      <4>1. i \in DOMAIN q /\ q[i].stream = t
        BY <1>1, <1>4, <2>2, <3>6
      <4>2. PICK j \in 1 .. i : q[j] = Event("new_stream", t, 0)
        BY <3>5, <4>1
      <4>3. j \in DOMAIN q
        BY <1>3, <4>1
      <4> QED  BY <1>4, <4>2, <4>3
    <3> QED  BY <3>5, <3>6
  <2> QED  BY <2>1, <2>2
<1> QED  BY <1>8, <1>9, <1>10, <1>11, <1>12, <1>13 DEF StreamsOK

\* HEADERS move no window; a server announces the stream if it is new.
LEMMA HeadersStep ==
  ASSUME TypeOK, TypeOK', SendOK, frame \in PeerFrames, frame.type = "headers",
         NEW a \in EngineSet, a = Announce(engine, frame.stream),
         SameSending(a, engine'), SameOutput(a, engine'), Adds(a, engine', {frame.stream}),
         UNCHANGED <<local, blocked, credit, forgotten>>,
         ended \subseteq ended', frame' \in {frame, NoFrame}
  PROVE  SendOK'
<1> DEFINE s == frame.stream
<1>1. engine \in EngineSet /\ s \in Streams /\ s # 0
  BY PeerAssumption, StreamsAssumption DEF TypeOK
<1>2. /\ SameConnection(engine, a) /\ SameOutput(engine, a)
      /\ \A t \in Streams \ {s} : SameStream(engine, a, t)
      /\ StreamSendWindow(a, s) = StreamSendWindow(engine, s)
      /\ a.flow[s].tracked
      /\ engine.role = "server" \/ (engine.flow[s].tracked /\ engine.flow[s].known)
           => a.flow[s].known
      /\ a.event_queue = IF Unannounced(engine, s)
                         THEN Append(engine.event_queue, Event("new_stream", s, 0))
                         ELSE engine.event_queue
  BY <1>1, AnnounceEffect
<1> HIDE DEF s
<1>3. /\ engine'.role = engine.role /\ engine'.next_stream_id = engine.next_stream_id
      /\ engine'.connection_send_window = engine.connection_send_window
      /\ engine'.flow[s].tracked
      /\ engine.role = "server" \/ (engine.flow[s].tracked /\ engine.flow[s].known)
           => engine'.flow[s].known
      /\ \A t \in Streams : StreamSendWindow(engine', t) = StreamSendWindow(engine, t)
      /\ \A t \in Streams \ {s} : SameStream(engine, engine', t)
  BY <1>1, <1>2, SameSendingStreams DEF SameSending, SameConnection, SameStream
<1>4. Signalled(engine')
  <2>1. Signalled(engine)
    BY DEF SendOK
  <2>2. Signalled(a)
    BY <1>2, <2>1, SameOutputSignals
  <2> QED  BY <2>2, SameOutputSignals
<1>5. \A t \in Streams \ {s} : KeepsEntry(engine, engine', t)
                               /\ engine'.flow[t].tracked = engine.flow[t].tracked
  BY <1>3 DEF SameStream, KeepsEntry
<1>6. StreamsOK'
  <2>1. CASE Unannounced(engine, s)
    <3>1. engine.role = "server" /\ ~engine.flow[s].known
      BY <1>1, <2>1 DEF Unannounced, SendOK, StreamsOK, KnownOK
    <3>2. s \notin ended
      BY <3>1 DEF SendOK, FrameOK, s
    <3>3. Fresh(s)
      BY <3>1, <3>2 DEF Fresh
    <3>4. a.event_queue = Append(engine.event_queue, Event("new_stream", s, 0))
      BY <1>2, <2>1
    <3>5. Adds(a, engine', {s})
      BY DEF s
    <3> QED  BY <1>1, <1>3, <1>5, <3>1, <3>3, <3>4, <3>5, AnnouncedStreams DEF SendOK
  <2>2. CASE ~Unannounced(engine, s)
    <3>1. Adds(engine, engine', {s})
      BY <1>2, <2>2 DEF Adds, s
    <3>2. engine.role \in {"client", "server"}
      BY EngineTypes
    <3>3. engine.flow[s].tracked \/ local[s] # "none"
      BY <1>1, <2>2, <3>2 DEF Unannounced, SendOK, FrameOK, s
    <3>4. engine.role = "server" => \A t \in Streams \intersect {s} : ~Fresh(t)'
      BY <1>3 DEF Fresh
    <3>5. KeepsEntry(engine, engine', s)
      BY <1>3 DEF KeepsEntry
    <3>6. \A t \in Streams : KeepsEntry(engine, engine', t)
      BY <1>5, <3>5
    <3>7. \A t \in Streams : engine'.flow[t].tracked => engine.flow[t].tracked \/ local[t] # "none"
      BY <1>5, <3>3
    <3> QED  BY <1>3, <3>1, <3>4, <3>6, <3>7, QuietStreams DEF SendOK
  <2> QED  BY <2>1, <2>2
<1>7. FrameOK'
  <2>1. CASE frame' = NoFrame
    BY <2>1 DEF FrameOK, NoFrame, Frame
  <2>2. CASE frame' = frame
    BY <1>3, <2>2 DEF SendOK, FrameOK, s
  <2> QED  BY <2>1, <2>2
<1>8. CreditOK'
  BY <1>3 DEF SendOK, CreditOK
<1>9. BlockedOK'
  BY DEF SendOK, BlockedOK
<1>10. NoLostWakeup'
  <2> SUFFICES ASSUME NEW t \in blocked \ forgotten, Sendable(t)'
               PROVE  WakeupQueued(t)'
    BY DEF NoLostWakeup
  <2>1. WakeupQueued(t)
    BY <1>3 DEF SendOK, NoLostWakeup, Sendable, TypeOK
  <2>2. engine.event_queue \in Seq(EventSet) /\ engine'.event_queue \in Seq(EventSet)
        /\ a.event_queue \in Seq(EventSet)
    BY MemberTypes DEF TypeOK
  <2>3. PICK i \in DOMAIN engine.event_queue :
               /\ engine.event_queue[i].type = "stream_window_available"
               /\ engine.event_queue[i].stream = t
    BY <2>1 DEF WakeupQueued
  <2>4. i \in 1 .. Len(a.event_queue) /\ a.event_queue[i] = engine.event_queue[i]
    BY <1>1, <1>2, <2>2, <2>3, EventTypesOK DEF EventTypes
  <2>5. i \in DOMAIN engine'.event_queue /\ engine'.event_queue[i] = engine.event_queue[i]
    BY <2>2, <2>4 DEF Adds
  <2> QED  BY <2>3, <2>5 DEF WakeupQueued
<1> QED  BY <1>4, <1>6, <1>7, <1>8, <1>9, <1>10 DEF SendOK

\* A chunk of a header block: the announcement, and then the stream's events.
LEMMA HeadersPayload ==
  ASSUME SendInv, TypeOK', NEW whole \in BOOLEAN, PayloadRead(whole),
         frame \in PeerFrames, frame.type = "headers",
         engine' = ReceiveHeaders(engine, frame)
  PROVE  SendOK'
<1> DEFINE a == Announce(engine, frame.stream)
<1>1. TypeOK /\ SendOK /\ engine \in EngineSet /\ frame \in FrameSet /\ frame.stream \in Streams
  BY PeerAssumption DEF SendInv, IInv, TypeOK
<1>2. a \in EngineSet
  BY <1>1, AnnounceLemma
<1>3. SameSending(a, engine') /\ SameOutput(a, engine') /\ Adds(a, engine', {frame.stream})
  BY <1>1, ReceiveHeadersEffect
<1>4. /\ UNCHANGED <<local, blocked, credit, forgotten>>
      /\ ended \subseteq ended' /\ frame' \in {frame, NoFrame}
  BY DEF PayloadRead, Granted
<1> QED  BY <1>1, <1>2, <1>3, <1>4, HeadersStep

\* A chunk of payload, of whatever frame.
LEMMA ReadPayloadSendOK ==
  ASSUME SendInv, TypeOK', NEW n \in Nat, NEW q \in IterationOrders(Woken(engine, frame)),
         ReadPayload(n, q)
  PROVE  SendOK'
<1> DEFINE whole == payload_bytes_read + n = frame.len
<1>1. /\ frame # NoFrame /\ engine' = HandlePayloadChunk(engine, frame, n, q)
      /\ PayloadRead(whole)
  BY DEF ReadPayload, PayloadRead
<1>2. frame \in PeerFrames
  BY <1>1 DEF SendInv, IInv, TypeOK
<1>3. whole \in BOOLEAN
  OBVIOUS
<1> HIDE DEF whole
<1>4. CASE frame.type = "data"
  <2>1. engine' = ReceiveData(engine, frame, n)
    BY <1>1, <1>4 DEF HandlePayloadChunk
  <2> QED  BY <1>1, <1>2, <1>3, <1>4, <2>1, DataPayload, LastDataPayload
<1>5. CASE frame.type = "headers"
  <2>1. engine' = ReceiveHeaders(engine, frame)
    BY <1>1, <1>5 DEF HandlePayloadChunk
  <2> QED  BY <1>1, <1>2, <1>3, <1>5, <2>1, HeadersPayload
<1>6. CASE frame.type = "settings"
  <2>1. engine' = ApplyPeerInitialWindowSize(engine, frame.val, q)
    BY <1>1, <1>6 DEF HandlePayloadChunk
  <2> QED  BY <1>1, <1>2, <1>3, <1>6, <2>1, SettingsPayload
<1>7. CASE frame.type = "window_update"
  <2>1. engine' = HandleWindowUpdate(engine, frame, q)
    BY <1>1, <1>7 DEF HandlePayloadChunk
  <2> QED  BY <1>1, <1>2, <1>3, <1>7, <2>1, WindowUpdatePayload
<1>8. CASE frame.type \notin {"data", "headers", "settings", "window_update"}
  BY <1>1, <1>2, <1>3, <1>8, OtherPayload
<1> QED  BY <1>4, <1>5, <1>6, <1>7, <1>8

\* A block that cannot be decoded still announces its stream.
LEMMA DecodeThrowsSendOK ==
  ASSUME SendInv, TypeOK', DecodeThrows
  PROVE  SendOK'
<1>1. /\ TypeOK /\ SendOK /\ frame.type = "headers" /\ engine' = Announce(engine, frame.stream)
      /\ UNCHANGED <<frame, local, blocked, credit, ended, forgotten>>
  BY DEF DecodeThrows, SendInv, IInv
<1>2. frame \in PeerFrames
  BY <1>1 DEF TypeOK, NoFrame, Frame
<1>3. engine' \in EngineSet
  BY DEF TypeOK
<1>4. SameSending(engine', engine') /\ SameOutput(engine', engine')
  BY DEF SameSending, SameConnection, SameOutput
<1>5. Adds(engine', engine', {frame.stream})
  BY <1>3, AddsNothing
<1> QED  BY <1>1, <1>2, <1>3, <1>4, <1>5, HeadersStep

----------------------------------------------------------------------------
(* The theorems.                                                           *)

\* Every step keeps the invariant.
LEMMA NextSendInv == SendInv /\ [Next]_vars => SendInv'
<1> SUFFICES ASSUME SendInv, [Next]_vars
             PROVE  SendInv'
  OBVIOUS
<1>1. IInv'
  BY NextIInv DEF SendInv
<1>2. TypeOK'
  BY <1>1 DEF IInv
<1>3. CASE \E size \in LocalSizes : SetWindow(size)
  BY <1>1, <1>2, <1>3, SetWindowSendOK DEF SendInv
<1>4. CASE Open
  BY <1>1, <1>2, <1>4, OpenSendOK DEF SendInv
<1>5. CASE \E s \in Streams, end \in BOOLEAN : SendHeaders(s, end)
  BY <1>1, <1>2, <1>5, SendHeadersSendOK DEF SendInv
<1>6. CASE \E s \in Streams, n \in SendSizes, end \in BOOLEAN : SendBody(s, n, end)
  BY <1>1, <1>2, <1>6, SendBodySendOK, SizesAssumption DEF SendInv
<1>7. CASE CloseConnection
  BY <1>1, <1>2, <1>7, CloseConnectionSendOK DEF SendInv
<1>8. CASE DrainEvent
  BY <1>1, <1>2, <1>8, DrainEventSendOK DEF SendInv
<1>9. CASE \E k \in 1 .. Len(engine.pending_out) : Transmit(k)
  BY <1>1, <1>2, <1>9, TransmitSendOK DEF SendInv
<1>10. CASE \E valid \in BOOLEAN : Preface(valid)
  BY <1>1, <1>2, <1>10, PrefaceSendOK DEF SendInv
<1>11. CASE \E f \in PeerFrames : ReadFrameHeader(f)
  BY <1>1, <1>2, <1>11, ReadFrameHeaderSendOK DEF SendInv
<1>12. CASE \E n \in 1 .. frame.len - payload_bytes_read :
              \E q \in IterationOrders(Woken(engine, frame)) : ReadPayload(n, q)
  <2>1. PICK n \in 1 .. frame.len - payload_bytes_read,
             q \in IterationOrders(Woken(engine, frame)) : ReadPayload(n, q)
    BY <1>12
  <2>2. n \in Nat
    OBVIOUS
  <2>3. SendOK'
    BY <1>2, <2>1, <2>2, ReadPayloadSendOK
  <2> QED  BY <1>1, <2>3 DEF SendInv
<1>13. CASE DecodeThrows
  BY <1>1, <1>2, <1>13, DecodeThrowsSendOK DEF SendInv
<1>14. CASE UNCHANGED vars
  <2>1. /\ engine' = engine /\ frame' = frame /\ local' = local /\ blocked' = blocked
        /\ credit' = credit /\ ended' = ended /\ forgotten' = forgotten
    BY <1>14 DEF vars
  <2>2. SendOK
    BY DEF SendInv
  <2> QED  BY <1>1, <2>1, <2>2
       DEF SendInv, SendOK, StreamsOK, KnownOK, EntriesOK, ClientOK, ServerOK, AnnouncedOnce,
           NewStreamOnce, FrameOK, CreditOK, BlockedOK, NoLostWakeup, Fresh, Queued, Announces,
           Sendable, WakeupQueued
<1> QED
  BY <1>1, <1>3, <1>4, <1>5, <1>6, <1>7, <1>8, <1>9, <1>10, <1>11, <1>12, <1>13, <1>14
  DEF Next, Application, Transport, SendInv

\* The inductive invariant holds in every reachable state.
THEOREM SendInvariance == Spec => []SendInv
<1>1. Init => SendInv
  BY InitIInv, InitSendOK DEF SendInv
<1> QED  BY <1>1, NextSendInv, PTL DEF Spec

\* No wakeup is ever lost: whatever order SETTINGS, WINDOW_UPDATE and other
\* streams' DATA move the windows in, a sender that was cut short and may go
\* on has its stream_window_available queued.
THEOREM NoWakeupIsLost == Spec => []NoLostWakeup
<1>1. SendInv => NoLostWakeup
  BY DEF SendInv, SendOK
<1> QED  BY <1>1, SendInvariance, PTL

\* Output other than a GOAWAY never waits without the callback having fired.
THEOREM NoOutputIsStranded == Spec => []NoStrandedOutput
<1>1. SendInv => NoStrandedOutput
  BY DEF SendInv, SendOK, Signalled, NoStrandedOutput
<1> QED  BY <1>1, SendInvariance, PTL

\* The callback is armed again whenever the buffer was drained.
THEOREM NoSignalIsStale == Spec => []NoStaleSignal
<1>1. SendInv => NoStaleSignal
  BY DEF SendInv, SendOK, Signalled, NoStaleSignal
<1> QED  BY <1>1, SendInvariance, PTL

\* A stream is announced once, before its other events, however its header
\* block is cut and whenever the application drains the queue.
THEOREM StreamsAreAnnouncedOnce == Spec => []NewStreamOnce
<1>1. SendInv => NewStreamOnce
  BY DEF SendInv, SendOK, StreamsOK
<1> QED  BY <1>1, SendInvariance, PTL

\* What send_data takes from the credit of a stream fits it.
LEMMA SendBodyFits ==
  ASSUME SendInv, NEW t \in Streams, NEW n \in Nat, NEW end \in BOOLEAN, SendBody(t, n, end),
         NEW s \in {0} \union (Streams \ forgotten), credit'[s] < credit[s]
  PROVE  credit'[s] >= 0
<1> DEFINE sent == Accepted(engine, t, n)
<1>1. TypeOK /\ SendOK /\ engine \in EngineSet
  BY DEF SendInv, IInv, TypeOK
<1>2. credit \in [Streams \union {0} -> Int] /\ s \in Streams \union {0} /\ credit[s] \in Int
  BY <1>1 DEF TypeOK
<1>3. credit' = [credit EXCEPT ![t] = @ - sent, ![0] = @ - sent]
  BY DEF SendBody
<1>4. sent \in Nat
  BY <1>1, AcceptedType
<1>5. sent > 0 => /\ engine.connection_send_window - sent >= 0
                  /\ StreamSendWindow(engine, t) - sent >= 0
  BY <1>1, AcceptedFits
<1> HIDE DEF sent
<1>6. t # 0
  BY StreamsAssumption
<1>7. \/ s = t /\ credit'[s] = credit[s] - sent
      \/ s = 0 /\ credit'[s] = credit[s] - sent
      \/ credit'[s] = credit[s]
  BY <1>2, <1>3, <1>6
<1>8. s \in {0, t} /\ credit'[s] = credit[s] - sent /\ sent > 0
  BY <1>2, <1>4, <1>7
<1>9. CASE s = 0
  <2>1. credit[0] = engine.connection_send_window
    BY <1>1 DEF SendOK, CreditOK
  <2> QED  BY <1>5, <1>8, <1>9, <2>1
<1>10. CASE s = t
  <2>1. credit[t] = StreamSendWindow(engine, t)
    BY <1>1, <1>6, <1>10 DEF SendOK, CreditOK
  <2> QED  BY <1>5, <1>8, <1>10, <2>1
<1> QED  BY <1>8, <1>9, <1>10

\* Only send_data takes from what the peer granted, and what it takes fits.
LEMMA StepFits ==
  ASSUME SendInv, [Next]_vars, NEW s \in {0} \union (Streams \ forgotten), credit'[s] < credit[s],
         frame' = frame
  PROVE  credit'[s] >= 0
<1>1. TypeOK /\ SendOK /\ engine \in EngineSet
  BY DEF SendInv, IInv, TypeOK
<1>2. credit \in [Streams \union {0} -> Int] /\ s \in Streams \union {0} /\ credit[s] \in Int
  BY <1>1 DEF TypeOK
<1>3. ASSUME credit' = credit
      PROVE  FALSE
  BY <1>2, <1>3
<1>4. ASSUME NEW t \in Streams, NEW n \in SendSizes, NEW end \in BOOLEAN, SendBody(t, n, end)
      PROVE  credit'[s] >= 0
  BY <1>4, SendBodyFits, SizesAssumption
<1>5. ASSUME NEW n \in 1 .. frame.len - payload_bytes_read,
             NEW q \in IterationOrders(Woken(engine, frame)), ReadPayload(n, q)
      PROVE  FALSE
  <2>1. /\ frame # NoFrame /\ credit' = Granted(frame)
        /\ WaitsForAll(frame) => n = frame.len
        /\ payload_bytes_read + n = frame.len => frame' = NoFrame
    BY <1>5 DEF ReadPayload
  <2>2. frame \in FrameSet /\ payload_bytes_read \in Nat
    BY <1>1, <2>1, PeerAssumption DEF TypeOK
  <2>3. frame.val \in Nat /\ frame.len \in Nat
    BY <2>2 DEF FrameSet
  <2>4. CASE frame.type = "window_update"
    <3>1. credit' = [credit EXCEPT ![frame.stream] = @ + frame.val]
      BY <2>1, <2>4 DEF Granted
    <3>2. credit'[s] = credit[s] \/ credit'[s] = credit[s] + frame.val
      BY <1>2, <3>1
    <3> QED  BY <1>2, <2>3, <3>2
  <2>5. CASE frame.type = "settings"
    <3>1. n = frame.len
      BY <2>1, <2>5 DEF WaitsForAll
    <3>2. payload_bytes_read + n = frame.len
      BY <2>2, <2>3, <3>1
    <3> QED  BY <2>1, <3>2
  <2>6. CASE frame.type \notin {"window_update", "settings"}
    BY <1>3, <2>1, <2>6 DEF Granted
  <2> QED  BY <2>4, <2>5, <2>6
<1>6. CASE \E t \in Streams, n \in SendSizes, end \in BOOLEAN : SendBody(t, n, end)
  BY <1>4, <1>6
<1>7. CASE \E n \in 1 .. frame.len - payload_bytes_read :
             \E q \in IterationOrders(Woken(engine, frame)) : ReadPayload(n, q)
  BY <1>5, <1>7
<1>8. CASE \/ \E size \in LocalSizes : SetWindow(size)
           \/ Open
           \/ \E t \in Streams, end \in BOOLEAN : SendHeaders(t, end)
           \/ CloseConnection
           \/ DrainEvent
           \/ \E k \in 1 .. Len(engine.pending_out) : Transmit(k)
           \/ \E valid \in BOOLEAN : Preface(valid)
           \/ \E f \in PeerFrames : ReadFrameHeader(f)
           \/ DecodeThrows
           \/ UNCHANGED vars
  <2>1. credit' = credit
    BY <1>8
    DEF SetWindow, Open, SendHeaders, CloseConnection, DrainEvent, Transmit, Preface,
        ReadFrameHeader, DecodeThrows, vars
  <2> QED  BY <1>3, <2>1
<1> QED  BY <1>6, <1>7, <1>8 DEF Next, Application, Transport

\* The engine never sends more than the peer granted: the windows it counts
\* and the credit the peer gave agree at every step, so DATA that fits the one
\* fits the other.
THEOREM NothingOverruns == Spec => NeverOverruns
<1>1. SendInv /\ [Next]_vars => [\A s \in {0} \union (Streams \ forgotten) : ~Overruns(s)]_vars
  <2> SUFFICES ASSUME SendInv, [Next]_vars, NEW s \in {0} \union (Streams \ forgotten), Overruns(s)
               PROVE  FALSE
    OBVIOUS
  <2>1. credit'[s] < credit[s] /\ frame' = frame /\ credit'[s] < 0
    BY DEF Overruns
  <2>2. credit'[s] >= 0
    BY <2>1, StepFits
  <2>3. credit'[s] \in Int
    <3>1. TypeOK'
      BY NextIInv DEF SendInv, IInv
    <3> QED  BY <3>1 DEF TypeOK, SendInv
  <2> QED  BY <2>1, <2>2, <2>3
<1> QED  BY <1>1, SendInvariance, PTL DEF Spec, NeverOverruns
=============================================================================
