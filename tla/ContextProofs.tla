--------------------------- MODULE ContextProofs ----------------------------
(***************************************************************************)
(* For every number of streams, window, body and interleaving of           *)
(* coroutines, event loop and peer: a coroutine is resumed once, a body    *)
(* that was cut short is taken up again, and the maps of streams agree     *)
(* with what the wire and the queue still hold.                            *)
(***************************************************************************)
EXTENDS Context, H2EngineProofs

----------------------------------------------------------------------------
(* Events that calls queue.                                                *)

\* What a request or a response is made of.
Content(ev) == ev.type \in {"headers", "data"}

\* g's queue is e's and then events of E.
Brings(e, g, E) ==
  /\ Lengthens(e, g)
  /\ \A i \in Len(e.event_queue) + 1 .. Len(g.event_queue) : g.event_queue[i] \in E

\* Lengths are numbers.
LEMMA QueueLength ==
  ASSUME NEW e \in EngineSet
  PROVE  /\ Len(e.event_queue) \in Nat
         /\ DOMAIN e.event_queue = 1 .. Len(e.event_queue)
         /\ \A i \in DOMAIN e.event_queue : e.event_queue[i] \in EventSet
<1>1. e.event_queue \in Seq(EventSet)
  BY MemberTypes
<1> QED  BY <1>1

\* A queue that is left alone gains nothing.
LEMMA BringsNothing ==
  ASSUME NEW e \in EngineSet, NEW g, g.event_queue = e.event_queue, NEW E
  PROVE  Brings(e, g, E)
<1>1. Len(e.event_queue) \in Nat
  BY QueueLength
<1> QED  BY <1>1 DEF Brings, Lengthens

\* Calls that follow each other.
LEMMA BringsTransitive ==
  ASSUME NEW e \in EngineSet, NEW f \in EngineSet, NEW g \in EngineSet, NEW E,
         Brings(e, f, E), Brings(f, g, E)
  PROVE  Brings(e, g, E)
<1>1. Len(e.event_queue) \in Nat /\ Len(f.event_queue) \in Nat /\ Len(g.event_queue) \in Nat
  BY QueueLength
<1>2. Lengthens(e, g)
  BY <1>1 DEF Brings, Lengthens
<1>3. \A i \in Len(e.event_queue) + 1 .. Len(g.event_queue) :
        \/ i \in Len(e.event_queue) + 1 .. Len(f.event_queue) /\ i \in 1 .. Len(f.event_queue)
        \/ i \in Len(f.event_queue) + 1 .. Len(g.event_queue)
  BY <1>1
<1> QED  BY <1>2, <1>3 DEF Brings, Lengthens

\* The queue may be that of another engine with the same events.
LEMMA BringsFrom ==
  ASSUME NEW e, NEW f, NEW g, NEW E, f.event_queue = e.event_queue, Brings(f, g, E)
  PROVE  Brings(e, g, E)
  BY DEF Brings, Lengthens

\* Emitting queues what is emitted.
LEMMA EmitBrings ==
  ASSUME NEW e \in EngineSet, NEW events \in Seq(EventSet), NEW E,
         \A i \in 1 .. Len(events) : events[i] \in E
  PROVE  Brings(e, Emit(e, events), E)
<1>1. Emit(e, events).event_queue = e.event_queue \o events
  BY EmitLemma
<1>2. e.event_queue \in Seq(EventSet)
  BY MemberTypes
<1> QED  BY <1>1, <1>2 DEF Brings, Lengthens

\* The same for a single event.
LEMMA EmitOneBrings ==
  ASSUME NEW e \in EngineSet, NEW ev \in EventSet, NEW E, ev \in E
  PROVE  Brings(e, Emit(e, <<ev>>), E)
<1>1. <<ev>> \in Seq(EventSet)
  BY OneEvent
<1>2. \A i \in 1 .. Len(<<ev>>) : <<ev>>[i] \in E
  OBVIOUS
<1> QED  BY <1>1, <1>2, EmitBrings

----------------------------------------------------------------------------
(* Content before the end.                                                 *)

\* Events that may come before a frame's stream is said to have ended.
Opening(f) ==
  {ev \in EventSet :
     /\ ~Ends(ev)
     /\ Content(ev) => f.type \in {"headers", "data"} /\ ev.stream = f.stream
     /\ ev.type = "new_stream" => f.type = "headers" /\ ev.stream = f.stream}

\* Events that may come after its content.
Closing(f) ==
  {ev \in EventSet :
     /\ ~Content(ev)
     /\ ev.type # "new_stream"
     /\ Ends(ev) => Closes(f) /\ ev.stream = f.stream}

\* A frame queues content of its own stream, then the end of its own stream.
Arrives(e, g, f) ==
  LET new == Len(e.event_queue) + 1 .. Len(g.event_queue) IN
  /\ Lengthens(e, g)
  /\ \A i \in new :
       /\ g.event_queue[i].type = "new_stream" => f.type = "headers" /\ g.event_queue[i].stream = f.stream
       /\ Content(g.event_queue[i]) =>
            f.type \in {"headers", "data"} /\ g.event_queue[i].stream = f.stream
       /\ Ends(g.event_queue[i]) => Closes(f) /\ g.event_queue[i].stream = f.stream
  /\ \A i, j \in new : Ends(g.event_queue[i]) /\ Content(g.event_queue[j]) => j < i

\* What comes in two parts arrives in order.
LEMMA ArrivesInOrder ==
  ASSUME NEW e \in EngineSet, NEW h \in EngineSet, NEW g \in EngineSet, NEW f,
         Brings(e, h, Opening(f)), Brings(h, g, Closing(f))
  PROVE  Arrives(e, g, f)
<1>1. Len(e.event_queue) \in Nat /\ Len(h.event_queue) \in Nat /\ Len(g.event_queue) \in Nat
  BY QueueLength
<1>2. /\ Len(e.event_queue) <= Len(h.event_queue) /\ Len(h.event_queue) <= Len(g.event_queue)
      /\ \A i \in 1 .. Len(e.event_queue) : h.event_queue[i] = e.event_queue[i]
      /\ \A i \in 1 .. Len(h.event_queue) : g.event_queue[i] = h.event_queue[i]
      /\ \A i \in Len(e.event_queue) + 1 .. Len(h.event_queue) : h.event_queue[i] \in Opening(f)
      /\ \A i \in Len(h.event_queue) + 1 .. Len(g.event_queue) : g.event_queue[i] \in Closing(f)
  BY DEF Brings, Lengthens
<1>3. Lengthens(e, g)
  BY <1>1, <1>2 DEF Lengthens
<1>4. \A i \in Len(e.event_queue) + 1 .. Len(g.event_queue) :
        \/ i <= Len(h.event_queue) /\ g.event_queue[i] \in Opening(f)
        \/ i > Len(h.event_queue) /\ g.event_queue[i] \in Closing(f)
  BY <1>1, <1>2
<1>5. \A i \in Len(e.event_queue) + 1 .. Len(g.event_queue) :
        /\ g.event_queue[i].type = "new_stream" => f.type = "headers" /\ g.event_queue[i].stream = f.stream
        /\ Content(g.event_queue[i]) =>
             f.type \in {"headers", "data"} /\ g.event_queue[i].stream = f.stream
        /\ Ends(g.event_queue[i]) => Closes(f) /\ g.event_queue[i].stream = f.stream
  BY <1>4 DEF Opening, Closing
<1>6. ASSUME NEW i \in Len(e.event_queue) + 1 .. Len(g.event_queue),
             NEW j \in Len(e.event_queue) + 1 .. Len(g.event_queue),
             Ends(g.event_queue[i]), Content(g.event_queue[j])
      PROVE  j < i
  <2>1. i > Len(h.event_queue)
    BY <1>4, <1>6 DEF Opening
  <2>2. j <= Len(h.event_queue)
    BY <1>4, <1>6 DEF Closing
  <2> QED  BY <1>1, <2>1, <2>2
<1> QED  BY <1>3, <1>5, <1>6 DEF Arrives

\* What comes in one part arrives in order.
LEMMA ArrivesAtOnce ==
  ASSUME NEW e \in EngineSet, NEW g \in EngineSet, NEW f,
         Brings(e, g, Opening(f)) \/ Brings(e, g, Closing(f))
  PROVE  Arrives(e, g, f)
<1>1. Brings(e, e, Opening(f)) /\ Brings(g, g, Closing(f))
  BY BringsNothing
<1> QED  BY <1>1, ArrivesInOrder

\* Events of the connection may come at any time.
LEMMA ConnectionEvents ==
  ASSUME NEW f
  PROVE  /\ Event("connection_error", 0, 0) \in EventSet \intersect Opening(f) \intersect Closing(f)
         /\ Event("goaway", 0, 0) \in EventSet \intersect Opening(f) \intersect Closing(f)
         /\ Event("connection_window_available", 0, 0) \in EventSet \intersect Closing(f)
<1>1. /\ Event("connection_error", 0, 0) \in EventSet
      /\ Event("goaway", 0, 0) \in EventSet
      /\ Event("connection_window_available", 0, 0) \in EventSet
  BY EventTypesOK DEF EventTypes
<1>2. \A t \in {"connection_error", "goaway", "connection_window_available"} :
        Event(t, 0, 0).type = t
  BY DEF Event
<1> QED  BY <1>1, <1>2 DEF Opening, Closing, Content, Ends

----------------------------------------------------------------------------
(* The frames.                                                             *)

\* update_flow_control says nothing of any stream.
LEMMA UpdateFlowControlBrings ==
  ASSUME NEW e \in EngineSet, NEW s \in Streams, NEW n \in Nat, Signalled(e), NEW E,
         Event("connection_error", 0, 0) \in EventSet \intersect E
  PROVE  Brings(e, UpdateFlowControl(e, s, n), E)
<1> DEFINE r     == ReceiveBytes(e, s, n)
           error == Event("connection_error", 0, 0)
           c     == CreditConnection(r, n)
           f     == CreditStream(c, s, n)
           g     == Emit(r, <<error>>)
<1>1. /\ r \in EngineSet /\ r.event_queue = e.event_queue
      /\ Signalled(r) /\ r.flow[s].tracked
  BY ReceiveBytesLemma, ReceiveBytesEffect, SameOutputSignals
<1>2. UpdateFlowControl(e, s, n) = g \/ UpdateFlowControl(e, s, n) = f
  BY DEF UpdateFlowControl
<1> HIDE DEF r, error
<1>3. Brings(r, g, E)
  BY <1>1, EmitOneBrings DEF error
<1>4. /\ c \in EngineSet /\ c.event_queue = r.event_queue /\ Signalled(c) /\ c.flow[s] = r.flow[s]
  BY <1>1, CreditConnectionLemma, CreditConnectionEffect
<1> HIDE DEF c
<1>5. f \in EngineSet /\ f.event_queue = c.event_queue
  BY <1>1, <1>4, CreditStreamEffect, CreditStreamLemma
<1> HIDE DEF f, g
<1>6. Brings(e, g, E)
  BY <1>1, <1>3, BringsFrom
<1>7. Brings(e, f, E)
  BY <1>1, <1>4, <1>5, BringsNothing
<1> QED  BY <1>2, <1>6, <1>7

\* DATA queues its bytes, then the end if it carries END_STREAM.
LEMMA ReceiveDataArrives ==
  ASSUME NEW e \in EngineSet, NEW f \in FrameSet, f.stream \in Streams, f.type = "data",
         NEW n \in Nat, Signalled(e)
  PROVE  Arrives(e, ReceiveData(e, f, n), f)
<1> DEFINE s      == f.stream
           data   == Event("data", s, n)
           closed == Event("stream_closed", s, 0)
           d      == Emit(e, <<data>>)
           a      == UpdateFlowControl(d, s, n)
           b      == ReplaceFlow(a, s, Untracked)
           g      == Emit(b, <<closed>>)
<1>1. data \in EventSet /\ closed \in EventSet
  BY EventTypesOK DEF EventTypes
<1>2. data \in Opening(f)
  BY <1>1 DEF Opening, Content, Ends, Event
<1>3. f.end => closed \in Closing(f)
  BY <1>1 DEF Closing, Content, Ends, Event, Closes
<1>4. Untracked \in StreamState /\ ~Untracked.tracked
  BY DEF Untracked, StreamState
<1> HIDE DEF data, closed
<1>5. d \in EngineSet /\ Signalled(d) /\ Brings(e, d, Opening(f))
  BY <1>1, <1>2, OneEvent, EmitLemma, EmitEffect, EmitOneBrings, SameOutputSignals
<1> HIDE DEF d
<1>6. a \in EngineSet /\ Brings(d, a, Opening(f))
  BY <1>5, UpdateFlowControlEffect, UpdateFlowControlBrings, ConnectionEvents
<1> HIDE DEF a
<1>7. Brings(e, a, Opening(f))
  BY <1>5, <1>6, BringsTransitive
<1>8. b \in EngineSet /\ b.event_queue = a.event_queue
  BY <1>4, <1>6, ReplaceFlowEffect
<1> HIDE DEF b
<1>9. g \in EngineSet /\ (f.end => Brings(b, g, Closing(f)))
  BY <1>1, <1>3, <1>8, OneEvent, EmitLemma, EmitOneBrings
<1>10. ReceiveData(e, f, n) = IF f.end THEN g ELSE a
  BY DEF ReceiveData, g, b, a, d, data, closed, ReplaceFlow
<1> HIDE DEF g
<1>11. CASE f.end
  <2>1. Brings(a, g, Closing(f))
    BY <1>8, <1>9, <1>11, BringsFrom
  <2> QED  BY <1>6, <1>7, <1>9, <1>10, <1>11, <2>1, ArrivesInOrder
<1>12. CASE ~f.end
  BY <1>6, <1>7, <1>10, <1>12, ArrivesAtOnce
<1> QED  BY <1>11, <1>12

\* HEADERS announce the stream, queue its headers, then the end if they carry END_STREAM.
LEMMA AnnounceBrings ==
  ASSUME NEW e \in EngineSet, NEW f \in FrameSet, f.stream \in Streams, f.type = "headers"
  PROVE  Announce(e, f.stream) \in EngineSet /\ Brings(e, Announce(e, f.stream), Opening(f))
<1> DEFINE s == f.stream
           new == Event("new_stream", s, 0)
           a == Announce(e, s)
<1>1. new \in EventSet
  BY EventTypesOK DEF EventTypes
<1>2. new \in Opening(f)
  BY <1>1 DEF Opening, Content, Ends, Event
<1>3. a \in EngineSet
  BY AnnounceLemma
<1>4. a.event_queue = Append(e.event_queue, new) \/ a.event_queue = e.event_queue
  BY AnnounceEffect
<1> HIDE DEF new, a
<1>5. e.event_queue \in Seq(EventSet)
  BY MemberTypes
<1>6. a.event_queue = Append(e.event_queue, new) => Brings(e, a, Opening(f))
  BY <1>1, <1>2, <1>5 DEF Brings, Lengthens
<1>7. a.event_queue = e.event_queue => Brings(e, a, Opening(f))
  BY BringsNothing
<1> QED  BY <1>3, <1>4, <1>6, <1>7 DEF a

LEMMA ReceiveHeadersArrives ==
  ASSUME NEW e \in EngineSet, NEW f \in FrameSet, f.stream \in Streams, f.type = "headers"
  PROVE  Arrives(e, ReceiveHeaders(e, f), f)
<1> DEFINE s      == f.stream
           h      == Event("headers", s, 0)
           c      == Event("stream_closed", s, 0)
           a      == Announce(e, s)
           events == <<h>> \o IF f.end THEN <<c>> ELSE <<>>
           b      == Emit(a, <<h>>)
           g      == Emit(a, events)
<1>1. h \in EventSet /\ c \in EventSet
  BY EventTypesOK DEF EventTypes
<1>2. h \in Opening(f)
  BY <1>1 DEF Opening, Content, Ends, Event
<1>3. f.end => c \in Closing(f)
  BY <1>1 DEF Closing, Content, Ends, Event, Closes
<1>4. ReceiveHeaders(e, f) = g
  BY DEF ReceiveHeaders
<1> HIDE DEF h, c
<1>5. a \in EngineSet /\ Brings(e, a, Opening(f))
  BY AnnounceBrings
<1> HIDE DEF a
<1>6. /\ b \in EngineSet /\ Brings(a, b, Opening(f))
      /\ b.event_queue = a.event_queue \o <<h>>
  BY <1>1, <1>2, <1>5, OneEvent, EmitLemma, EmitOneBrings
<1>7. Brings(e, b, Opening(f))
  BY <1>5, <1>6, BringsTransitive
<1>8. events \in Seq(EventSet)
  BY <1>1
<1>9. g \in EngineSet /\ g.event_queue = a.event_queue \o events
  BY <1>5, <1>8, EmitLemma
<1> HIDE DEF b, g
<1>10. a.event_queue \in Seq(EventSet)
  BY <1>5, MemberTypes
<1>11. Brings(b, g, Closing(f))
  <2>1. CASE f.end
    <3>1. g.event_queue = b.event_queue \o <<c>>
      BY <1>1, <1>6, <1>9, <1>10, <2>1
    <3>2. b.event_queue \in Seq(EventSet)
      BY <1>6, MemberTypes
    <3> QED  BY <1>1, <1>3, <2>1, <3>1, <3>2 DEF Brings, Lengthens
  <2>2. CASE ~f.end
    <3>1. events = <<h>>
      BY <2>2
    <3> QED  BY <1>6, <1>9, <3>1, BringsNothing
  <2> QED  BY <2>1, <2>2
<1> QED  BY <1>4, <1>6, <1>7, <1>9, <1>11, ArrivesInOrder

\* Wakeups say nothing of content or end.
LEMMA WakeupsClose ==
  ASSUME NEW S \in SUBSET Streams, NEW q \in IterationOrders(S), NEW f
  PROVE  /\ WindowAvailable(q) \in Seq(EventSet)
         /\ \A i \in 1 .. Len(WindowAvailable(q)) : WindowAvailable(q)[i] \in Closing(f)
<1>1. q \in Seq(Streams) /\ WindowAvailable(q) \in Seq(EventSet)
  BY IterationOrdersType
<1>2. Len(q) \in Nat /\ DOMAIN WindowAvailable(q) = 1 .. Len(q)
  BY <1>1 DEF WindowAvailable
<1>3. DOMAIN WindowAvailable(q) = 1 .. Len(WindowAvailable(q))
  BY <1>1
<1>4. \A i \in 1 .. Len(WindowAvailable(q)) :
        WindowAvailable(q)[i] \in EventSet /\ WindowAvailable(q)[i].type = "stream_window_available"
  BY <1>1, <1>2, <1>3 DEF WindowAvailable, Event
<1> QED  BY <1>1, <1>4 DEF Closing, Content, Ends

\* WINDOW_UPDATE queues wakeups and an event of the connection.
LEMMA HandleWindowUpdateArrives ==
  ASSUME NEW e \in EngineSet, NEW f \in FrameSet, f.type = "window_update",
         NEW q \in IterationOrders(Woken(e, f))
  PROVE  Arrives(e, HandleWindowUpdate(e, f, q), f)
<1> DEFINE g     == HandleWindowUpdate(e, f, q)
           w     == WindowAvailable(q)
           error == Event("connection_error", 0, 0)
           avail == Event("connection_window_available", 0, 0)
<1>1. g \in EngineSet
  BY HandleWindowUpdateLemma
<1>2. w \in Seq(EventSet) /\ \A i \in 1 .. Len(w) : w[i] \in Closing(f)
  BY WokenType, WakeupsClose
<1>3. error \in EventSet /\ error \in Closing(f) /\ avail \in EventSet /\ avail \in Closing(f)
  BY ConnectionEvents
<1>4. f.stream \in Streams \union {0}
  BY DEF FrameSet
<1> HIDE DEF w, error, avail
<1>5. Brings(e, g, Closing(f))
  <2>1. CASE f.val = 0
    <3>1. g = Emit(e, <<error>>)
      BY <2>1 DEF HandleWindowUpdate, error
    <3> QED  BY <1>3, <3>1, EmitOneBrings
  <2>2. CASE f.val # 0 /\ f.stream = 0
    <3> DEFINE v      == e.connection_send_window + f.val
               opened == [e EXCEPT !.connection_send_window = v]
               events == (IF ConnectionOpened(e, f.val) THEN <<avail>> ELSE <<>>) \o w
    <3>1. g = Emit(opened, events)
      BY <2>2 DEF HandleWindowUpdate, avail, w
    <3>2. v \in Int
      BY MemberTypes DEF FrameSet
    <3> HIDE DEF v
    <3>3. opened \in EngineSet /\ opened.event_queue = e.event_queue
      BY <3>2 DEF EngineSet
    <3>4. events \in Seq(EventSet) /\ \A i \in 1 .. Len(events) : events[i] \in Closing(f)
      BY <1>2, <1>3
    <3> HIDE DEF opened, events
    <3>5. Brings(opened, g, Closing(f))
      BY <3>1, <3>3, <3>4, EmitBrings
    <3> QED  BY <3>3, <3>5, BringsFrom
  <2>3. CASE f.val # 0 /\ f.stream # 0
    <3> DEFINE x == GetOrInit(e, f.stream)
               y == x.flow[f.stream].send_window + f.val
               z == [x EXCEPT !.flow[f.stream].send_window = y]
    <3>1. g = Emit(z, w)
      BY <2>3 DEF HandleWindowUpdate, w
    <3>2. f.stream \in Streams
      BY <1>4, <2>3
    <3>3. x \in EngineSet /\ x.event_queue = e.event_queue
      BY <3>2, GetOrInitLemma, GetOrInitEffect
    <3>4. y \in Int
      BY <3>2, <3>3, FlowTypes DEF FrameSet
    <3> HIDE DEF x, y
    <3>5. z \in EngineSet /\ z.event_queue = e.event_queue
      <4> DEFINE u == [x.flow[f.stream] EXCEPT !.send_window = y]
      <4>1. u \in StreamState
        BY <3>2, <3>3, <3>4, FlowTypes DEF StreamState
      <4>2. z = ReplaceFlow(x, f.stream, u)
        BY DEF ReplaceFlow
      <4> HIDE DEF u, z
      <4> QED  BY <3>2, <3>3, <4>1, <4>2, ReplaceFlowEffect
    <3> HIDE DEF z
    <3>6. Brings(z, g, Closing(f))
      BY <1>2, <3>1, <3>5, EmitBrings
    <3> QED  BY <3>5, <3>6, BringsFrom
  <2> QED  BY <2>1, <2>2, <2>3
<1> QED  BY <1>1, <1>5, ArrivesAtOnce

\* SETTINGS queue wakeups.
LEMMA ApplyPeerInitialWindowSizeArrives ==
  ASSUME NEW e \in EngineSet, NEW f \in FrameSet, f.type = "settings",
         NEW q \in IterationOrders(Woken(e, f))
  PROVE  Arrives(e, ApplyPeerInitialWindowSize(e, f.val, q), f)
<1> DEFINE g == ApplyPeerInitialWindowSize(e, f.val, q)
           w == WindowAvailable(q)
<1>1. w \in Seq(EventSet) /\ \A i \in 1 .. Len(w) : w[i] \in Closing(f)
  BY WokenType, WakeupsClose
<1>2. g \in EngineSet
  BY <1>1, ApplyPeerInitialWindowSizeLemma DEF FrameSet
<1>3. g.event_queue = e.event_queue \o w
  BY DEF ApplyPeerInitialWindowSize, Emit, EngineSet
<1> HIDE DEF w, g
<1>4. e.event_queue \in Seq(EventSet)
  BY MemberTypes
<1>5. Brings(e, g, Closing(f))
  BY <1>1, <1>3, <1>4 DEF Brings, Lengthens
<1> QED  BY <1>2, <1>5, ArrivesAtOnce DEF g

\* GOAWAY queues an event of the connection.
LEMMA HandleGoawayArrives ==
  ASSUME NEW e \in EngineSet, NEW f \in FrameSet, f.val \in 0 .. 2
  PROVE  Arrives(e, HandleGoaway(e, f), f)
<1> DEFINE g      == HandleGoaway(e, f)
           r      == [e EXCEPT !.goaway_received = TRUE]
           goaway == Event("goaway", 0, 0)
           error  == Event("connection_error", 0, 0)
<1>1. goaway \in EventSet /\ goaway \in Closing(f) /\ error \in EventSet /\ error \in Closing(f)
  BY ConnectionEvents
<1>2. g \in EngineSet
  BY HandleGoawayLemma
<1>3. r \in EngineSet /\ r.event_queue = e.event_queue
  BY DEF EngineSet
<1>4. g = e \/ g = Emit(r, <<goaway>>) \/ g = Emit(e, <<error>>)
  BY DEF HandleGoaway
<1> HIDE DEF g, r, goaway, error
<1>5. Brings(e, e, Closing(f)) /\ Brings(e, Emit(e, <<error>>), Closing(f))
  BY <1>1, BringsNothing, EmitOneBrings
<1>6. Brings(e, Emit(r, <<goaway>>), Closing(f))
  BY <1>1, <1>3, EmitOneBrings, BringsFrom
<1>7. Brings(e, g, Closing(f))
  BY <1>4, <1>5, <1>6
<1> QED  BY <1>2, <1>7, ArrivesAtOnce DEF g

\* However a payload is cut, a chunk queues content before the end.
LEMMA HandlePayloadChunkArrives ==
  ASSUME NEW e \in EngineSet, NEW f \in PeerFrames, NEW n \in Nat,
         NEW q \in IterationOrders(Woken(e, f)), Signalled(e)
  PROVE  Arrives(e, HandlePayloadChunk(e, f, n, q), f)
<1>1. /\ f \in FrameSet
      /\ f.type \in {"data", "headers", "rst_stream"} => f.stream \in Streams
      /\ f.type = "goaway" => f.val \in 0 .. 2
  BY PeerAssumption
<1>2. CASE f.type = "data"
  BY <1>1, <1>2, ReceiveDataArrives DEF HandlePayloadChunk
<1>3. CASE f.type = "headers"
  BY <1>1, <1>3, ReceiveHeadersArrives DEF HandlePayloadChunk
<1>4. CASE f.type = "rst_stream"
  <2> DEFINE reset == Event("stream_reset", f.stream, 0)
  <2>1. reset \in EventSet
    BY <1>1, <1>4, EventTypesOK DEF EventTypes
  <2>2. reset \in Closing(f)
    BY <1>4, <2>1 DEF Closing, Content, Ends, Event, Closes
  <2>3. HandlePayloadChunk(e, f, n, q) = Emit(e, <<reset>>)
    BY <1>4 DEF HandlePayloadChunk
  <2> HIDE DEF reset
  <2>4. Emit(e, <<reset>>) \in EngineSet /\ Brings(e, Emit(e, <<reset>>), Closing(f))
    BY <2>1, <2>2, EmitOne, EmitOneBrings
  <2> QED  BY <2>3, <2>4, ArrivesAtOnce
<1>5. CASE f.type = "settings"
  BY <1>1, <1>5, ApplyPeerInitialWindowSizeArrives DEF HandlePayloadChunk
<1>6. CASE f.type = "goaway"
  BY <1>1, <1>6, HandleGoawayArrives DEF HandlePayloadChunk
<1>7. CASE f.type = "window_update"
  BY <1>1, <1>7, HandleWindowUpdateArrives DEF HandlePayloadChunk
<1>8. CASE f.type \notin {"data", "headers", "rst_stream", "settings", "goaway", "window_update"}
  <2>1. HandlePayloadChunk(e, f, n, q) = e
    BY <1>8 DEF HandlePayloadChunk
  <2> QED  BY <2>1, BringsNothing, ArrivesAtOnce
<1> QED  BY <1>2, <1>3, <1>4, <1>5, <1>6, <1>7, <1>8

\* A frame without payload may end its stream.
LEMMA HandleFrameHeaderArrives ==
  ASSUME NEW e \in EngineSet, NEW f \in PeerFrames
  PROVE  /\ Arrives(e, HandleFrameHeader(e, f), f)
         /\ HandleFrameHeader(e, f).event_queue # e.event_queue => f.len = 0 /\ Closes(f)
<1> DEFINE g      == HandleFrameHeader(e, f)
           closed == Event("stream_closed", f.stream, 0)
<1>1. f \in FrameSet /\ SettingsAck \in FrameSet
  BY PeerAssumption, FrameTypesOK DEF SettingsAck, FrameTypes
<1>2. g \in EngineSet
  BY <1>1, HandleFrameHeaderLemma
<1>3. CASE f.type # "settings" /\ f.end /\ f.len = 0 /\ f.type \in {"data", "headers"}
  <2>1. closed \in EventSet
    BY <1>1, EventTypesOK DEF EventTypes, FrameSet
  <2>2. closed \in Closing(f)
    BY <1>3, <2>1 DEF Closing, Content, Ends, Event, Closes
  <2>3. g = Emit(e, <<closed>>)
    BY <1>3 DEF HandleFrameHeader
  <2> HIDE DEF closed
  <2>4. Brings(e, g, Closing(f))
    BY <2>1, <2>2, <2>3, EmitOneBrings
  <2> QED  BY <1>2, <1>3, <2>4, ArrivesAtOnce DEF Closes
<1>4. CASE ~(f.type # "settings" /\ f.end /\ f.len = 0 /\ f.type \in {"data", "headers"})
  <2>1. g = Write(e, <<SettingsAck>>) \/ g = e
    BY <1>4 DEF HandleFrameHeader
  <2>2. Write(e, <<SettingsAck>>).event_queue = e.event_queue
    BY <1>1, OneFrame, WriteLemma
  <2>3. g.event_queue = e.event_queue
    BY <2>1, <2>2
  <2> QED  BY <1>2, <2>3, BringsNothing, ArrivesAtOnce
<1> QED  BY <1>3, <1>4
----------------------------------------------------------------------------
(* What the queue and the frame that is read still hold.                   *)

\* s was opened, or its first HEADERS were handled.
InUse(s) == local[s] # "none" \/ engine.flow[s].known

\* Content comes before the end of its stream, and only a stream that ended
\* has its end queued.
QueueOK ==
  /\ \A i \in DOMAIN engine.event_queue :
       Content(engine.event_queue[i]) \/ engine.event_queue[i].type = "new_stream"
         => engine.event_queue[i].stream \in Streams
  /\ \A i \in DOMAIN engine.event_queue :
       Ends(engine.event_queue[i]) => engine.event_queue[i].stream \in ended
  /\ \A i, j \in DOMAIN engine.event_queue :
       /\ Ends(engine.event_queue[i])
       /\ Content(engine.event_queue[j])
       /\ engine.event_queue[i].stream = engine.event_queue[j].stream
       => j < i

\* The peer sends no content on a stream it ended.
ReadingOK == frame.type \in {"headers", "data"} => frame.stream \notin ended

\* streams_ holds every stream in use that did not end, and every stream with
\* content in the queue, unless its new_stream is still to come.
MapOK ==
  /\ \A s \in Streams \ ended : InUse(s) => s \in streams \/ Announces(s)
  /\ \A i \in DOMAIN engine.event_queue :
       Content(engine.event_queue[i]) =>
         engine.event_queue[i].stream \in streams \/ Announces(engine.event_queue[i].stream)

\* A completed request was ended by the peer, and nothing of it is queued.
CompletedOK ==
  \A s \in Streams : request[s].completed =>
    /\ s \in ended
    /\ \A i \in DOMAIN engine.event_queue :
         Content(engine.event_queue[i]) => engine.event_queue[i].stream # s

\* Only a stream in use has a flow state, unless it ended.
LEMMA TrackedInUse ==
  ASSUME SendInv, NEW s \in Streams \ ended, engine.flow[s].tracked
  PROVE  InUse(s)
<1>1. TypeOK /\ ClientOK /\ ServerOK
  BY DEF SendInv, SendOK, StreamsOK, IInv
<1>2. engine.role \in {"client", "server"}
  BY <1>1, EngineTypes
<1> QED  BY <1>1, <1>2 DEF InUse, ClientOK, ServerOK, Fresh

\* The frame that is read belongs to a stream in use, or opens it.
LEMMA FrameInUse ==
  ASSUME SendInv, frame.stream \in Streams \ ended
  PROVE  InUse(frame.stream) \/ (frame.type = "headers" /\ Unannounced(engine, frame.stream))
<1>1. TypeOK /\ FrameOK
  BY DEF SendInv, SendOK, IInv
<1>2. engine.role \in {"client", "server"}
  BY <1>1, EngineTypes
<1>3. frame.stream # 0
  BY StreamsAssumption
<1> QED  BY <1>1, <1>2, <1>3 DEF InUse, FrameOK, Fresh, Unannounced

\* The first HEADERS of a stream are announced.
LEMMA HeadersAnnounce ==
  ASSUME NEW e \in EngineSet, NEW f \in FrameSet, f.stream \in Streams, Unannounced(e, f.stream),
         NEW g \in EngineSet, g = Announce(e, f.stream) \/ g = ReceiveHeaders(e, f)
  PROVE  \E i \in DOMAIN g.event_queue : g.event_queue[i] = Event("new_stream", f.stream, 0)
<1> DEFINE a   == Announce(e, f.stream)
           new == Event("new_stream", f.stream, 0)
<1>1. a \in EngineSet /\ a.event_queue = Append(e.event_queue, new)
  BY AnnounceLemma, AnnounceEffect
<1>2. g = a \/ Adds(a, g, {f.stream})
  BY ReceiveHeadersEffect
<1> HIDE DEF a, new
<1>3. e.event_queue \in Seq(EventSet) /\ Len(g.event_queue) \in Nat
  BY MemberTypes, QueueLength
<1> DEFINE k == Len(e.event_queue) + 1
<1>4. k \in 1 .. Len(a.event_queue) /\ a.event_queue[k] = new
  BY <1>1, <1>3
<1> HIDE DEF k
<1>5. k \in 1 .. Len(g.event_queue) /\ g.event_queue[k] = new
  <2>1. CASE g = a
    BY <2>1, <1>4
  <2>2. CASE Adds(a, g, {f.stream})
    <3>1. /\ Len(a.event_queue) \in Nat /\ Len(a.event_queue) <= Len(g.event_queue)
          /\ \A i \in 1 .. Len(a.event_queue) : g.event_queue[i] = a.event_queue[i]
      BY <1>1, <2>2, QueueLength DEF Adds
    <3> QED  BY <3>1, <1>3, <1>4
  <2> QED  BY <1>2, <2>1, <2>2
<1>6. k \in DOMAIN g.event_queue
  BY <1>5, QueueLength
<1> QED  BY <1>5, <1>6 DEF new

\* A frame gives a flow state to its own stream only.
LEMMA ChunkEnters ==
  ASSUME NEW e \in EngineSet, NEW f \in PeerFrames, NEW n \in Nat,
         NEW q \in IterationOrders(Woken(e, f)), Signalled(e),
         NEW t \in Streams, HandlePayloadChunk(e, f, n, q).flow[t].tracked
  PROVE  e.flow[t].tracked \/ t = f.stream
<1> DEFINE g == HandlePayloadChunk(e, f, n, q)
<1>1. /\ f \in FrameSet /\ f.val \in Nat
      /\ f.type \in {"data", "headers", "rst_stream"} => f.stream \in Streams
      /\ f.type = "goaway" => f.val \in 0 .. 2
  BY PeerAssumption DEF FrameSet
<1>2. CASE f.type = "data"
  <2>1. \A u \in Streams \ {f.stream} : SameStream(e, g, u)
    BY <1>1, <1>2, ReceiveDataEffect DEF HandlePayloadChunk
  <2> QED  BY <2>1 DEF SameStream
<1>3. CASE f.type = "headers"
  <2> DEFINE a == Announce(e, f.stream)
  <2>1. \A u \in Streams \ {f.stream} : SameStream(e, a, u)
    BY <1>1, <1>3, AnnounceEffect
  <2>2. SameSending(a, g)
    BY <1>1, <1>3, ReceiveHeadersEffect DEF HandlePayloadChunk
  <2> QED  BY <2>1, <2>2 DEF SameStream, SameSending
<1>4. CASE f.type = "rst_stream"
  BY <1>1, <1>4, ResetEffect DEF HandlePayloadChunk, SameSending
<1>5. CASE f.type = "settings"
  <2>1. q \in IterationOrders(WokenBySettings(e, f.val))
    BY <1>5 DEF Woken
  <2>2. KeepsEntries(e, g, {})
    BY <1>1, <1>5, <2>1, ApplyPeerInitialWindowSizeEffect DEF HandlePayloadChunk
  <2> QED  BY <2>2 DEF KeepsEntries
<1>6. CASE f.type = "goaway"
  BY <1>1, <1>6, HandleGoawayEffect DEF HandlePayloadChunk, SameSending
<1>7. CASE f.type = "window_update"
  <2>1. KeepsEntries(e, g, {f.stream})
    BY <1>1, <1>7, HandleWindowUpdateEffect DEF HandlePayloadChunk
  <2> QED  BY <2>1 DEF KeepsEntries
<1>8. CASE f.type \notin {"data", "headers", "rst_stream", "settings", "goaway", "window_update"}
  BY <1>8 DEF HandlePayloadChunk
<1> QED  BY <1>2, <1>3, <1>4, <1>5, <1>6, <1>7, <1>8

----------------------------------------------------------------------------
(* The transport.                                                          *)

\* What a step of the transport may do to the queue, and to the streams in use.
Arrived ==
  LET new == Len(engine.event_queue) + 1 .. Len(engine'.event_queue) IN
  /\ Lengthens(engine, engine')
  /\ ended \subseteq ended'
  /\ \A i \in new :
       /\ engine'.event_queue[i].type = "new_stream" => engine'.event_queue[i].stream \in Streams
       /\ Content(engine'.event_queue[i]) =>
            \E s \in Streams \ ended :
              engine'.event_queue[i].stream = s /\ (InUse(s) \/ Announces(s)')
       /\ Ends(engine'.event_queue[i]) => engine'.event_queue[i].stream \in ended'
  /\ \A i, j \in new : Ends(engine'.event_queue[i]) /\ Content(engine'.event_queue[j]) => j < i
  /\ \A s \in Streams \ ended' : InUse(s)' => InUse(s) \/ Announces(s)'
  /\ ReadingOK'

\* A step that only adds events of the connection, or none.
LEMMA ArrivedNothing ==
  ASSUME SendInv, SendInv', ReadingOK, engine'.flow = engine.flow,
         UNCHANGED <<frame, local, ended>>,
         Brings(engine, engine', {ev \in EventSet : ~Content(ev) /\ ~Ends(ev) /\ ev.type # "new_stream"})
  PROVE  Arrived
<1>1. \A i \in Len(engine.event_queue) + 1 .. Len(engine'.event_queue) :
        /\ ~Content(engine'.event_queue[i]) /\ ~Ends(engine'.event_queue[i])
        /\ engine'.event_queue[i].type # "new_stream"
  BY DEF Brings
<1>2. Lengthens(engine, engine')
  BY DEF Brings
<1>3. \A s \in Streams : InUse(s)' => InUse(s)
  BY DEF InUse
<1>4. ReadingOK'
  BY DEF ReadingOK
<1> QED  BY <1>1, <1>2, <1>3, <1>4 DEF Arrived

\* Taking output brings nothing.
LEMMA TransmitArrived ==
  ASSUME SendInv, SendInv', ReadingOK, NEW k \in 1 .. Len(engine.pending_out), Transmit(k)
  PROVE  Arrived
<1>1. engine \in EngineSet /\ Signalled(engine)
  BY DEF SendInv, SendOK, IInv, TypeOK
<1>2. engine' = OutputEnd(engine, k) /\ UNCHANGED <<frame, local, ended>>
  BY DEF Transmit
<1>3. engine'.flow = engine.flow /\ engine'.event_queue = engine.event_queue
  BY <1>1, <1>2, OutputEndEffect DEF SameSending
<1> QED  BY <1>1, <1>2, <1>3, BringsNothing, ArrivedNothing

\* A bad preface is an event of the connection.
LEMMA PrefaceArrived ==
  ASSUME SendInv, SendInv', ReadingOK, NEW valid \in BOOLEAN, Preface(valid)
  PROVE  Arrived
<1> DEFINE error == Event("connection_error", 0, 0)
           bad   == [engine EXCEPT !.bad_preface = TRUE]
           E     == {ev \in EventSet : ~Content(ev) /\ ~Ends(ev) /\ ev.type # "new_stream"}
<1>1. engine \in EngineSet /\ Signalled(engine)
  BY DEF SendInv, SendOK, IInv, TypeOK
<1>2. engine' = ReceivePreface(engine, valid) /\ UNCHANGED <<frame, local, ended>>
  BY DEF Preface
<1>3. engine'.flow = engine.flow
  BY <1>1, <1>2, ReceivePrefaceEffect DEF SameSending
<1>4. error \in EventSet /\ error \in E
  BY EventTypesOK DEF EventTypes, Event, Content, Ends
<1>5. bad \in EngineSet /\ bad.event_queue = engine.event_queue
  BY <1>1 DEF EngineSet
<1>6. \/ engine' = [WriteSettings(engine) EXCEPT !.state = "ready"]
      \/ engine' = Emit(bad, <<error>>)
  BY <1>2 DEF ReceivePreface
<1>7. [WriteSettings(engine) EXCEPT !.state = "ready"].event_queue = engine.event_queue
  <2>1. WriteSettings(engine) \in EngineSet /\ WriteSettings(engine).event_queue = engine.event_queue
    BY <1>1, WriteSettingsLemma
  <2> QED  BY <2>1 DEF EngineSet
<1> HIDE DEF error, bad, E
<1>8. Brings(engine, Emit(bad, <<error>>), E)
  BY <1>4, <1>5, EmitOneBrings, BringsFrom
<1>9. Brings(engine, engine', E)
  BY <1>1, <1>6, <1>7, <1>8, BringsNothing
<1> QED  BY <1>2, <1>3, <1>9, ArrivedNothing DEF E

\* A step that handles part of a frame.
LEMMA FrameArrived ==
  ASSUME SendInv, SendInv', ReadingOK, ReadingOK', frame # NoFrame,
         Arrives(engine, engine', frame), local' = local,
         ended \subseteq ended',
         \A i \in Len(engine.event_queue) + 1 .. Len(engine'.event_queue) :
           Ends(engine'.event_queue[i]) => engine'.event_queue[i].stream \in ended',
         \A t \in Streams : engine'.flow[t].tracked => engine.flow[t].tracked \/ t = frame.stream,
         \A s \in Streams : s = frame.stream /\ frame.type = "headers" /\ Unannounced(engine, s)
                             => Announces(s)'
  PROVE  Arrived
<1>1. TypeOK /\ KnownOK' /\ ended \subseteq Streams
  BY DEF SendInv, SendOK, StreamsOK, IInv, TypeOK
<1>2. /\ frame \in FrameSet
      /\ frame.type \in {"headers", "data"} => frame.stream \in Streams
  BY <1>1, PeerAssumption DEF TypeOK
<1>3. \A s \in Streams \ ended : s = frame.stream => InUse(s) \/ Announces(s)'
  <2> SUFFICES ASSUME NEW s \in Streams \ ended, s = frame.stream, ~InUse(s)
               PROVE  Announces(s)'
    OBVIOUS
  <2>1. frame.type = "headers" /\ Unannounced(engine, frame.stream)
    BY FrameInUse
  <2> QED  BY <2>1
<1>4. \A s \in Streams \ ended' : InUse(s)' => InUse(s) \/ Announces(s)'
  <2> SUFFICES ASSUME NEW s \in Streams \ ended', InUse(s)', ~InUse(s)
               PROVE  Announces(s)'
    OBVIOUS
  <2>1. engine'.flow[s].known
    BY DEF InUse
  <2>2. engine'.flow[s].tracked
    BY <1>1, <2>1 DEF KnownOK
  <2>3. ~engine.flow[s].tracked
    BY TrackedInUse
  <2> QED  BY <1>3, <2>2, <2>3
<1>5. \A i \in Len(engine.event_queue) + 1 .. Len(engine'.event_queue) :
        /\ engine'.event_queue[i].type = "new_stream" =>
             frame.type = "headers" /\ engine'.event_queue[i].stream = frame.stream
        /\ Content(engine'.event_queue[i]) =>
             frame.type \in {"headers", "data"} /\ engine'.event_queue[i].stream = frame.stream
        /\ Ends(engine'.event_queue[i]) => Closes(frame) /\ engine'.event_queue[i].stream = frame.stream
  BY DEF Arrives
<1>6. \A i \in Len(engine.event_queue) + 1 .. Len(engine'.event_queue) :
        /\ engine'.event_queue[i].type = "new_stream" => engine'.event_queue[i].stream \in Streams
        /\ Ends(engine'.event_queue[i]) => engine'.event_queue[i].stream \in ended'
  BY <1>2, <1>5
<1>7. \A i \in Len(engine.event_queue) + 1 .. Len(engine'.event_queue) :
        Content(engine'.event_queue[i]) =>
          \E s \in Streams \ ended :
            engine'.event_queue[i].stream = s /\ (InUse(s) \/ Announces(s)')
  <2> SUFFICES ASSUME NEW i \in Len(engine.event_queue) + 1 .. Len(engine'.event_queue),
                      Content(engine'.event_queue[i])
               PROVE  \E s \in Streams \ ended :
                        engine'.event_queue[i].stream = s /\ (InUse(s) \/ Announces(s)')
    OBVIOUS
  <2>1. engine'.event_queue[i].stream = frame.stream /\ frame.stream \in Streams \ ended
    BY <1>2, <1>5 DEF ReadingOK
  <2> QED  BY <1>3, <2>1
<1> QED  BY <1>4, <1>6, <1>7 DEF Arrived, Arrives

\* A header may end its stream; the frame it starts is not of an ended stream.
LEMMA ReadFrameHeaderArrived ==
  ASSUME SendInv, SendInv', ReadingOK, NEW f \in PeerFrames, ReadFrameHeader(f)
  PROVE  Arrived
<1>1. /\ engine \in EngineSet /\ Signalled(engine) /\ engine' \in EngineSet
  BY DEF SendInv, SendOK, IInv, TypeOK
<1>2. /\ PeerMaySend(f)
      /\ engine' = HandleFrameHeader(engine, f)
      /\ frame' = IF f.len = 0 THEN NoFrame ELSE f
      /\ ended' = IF Closes(f) /\ f.len = 0 THEN ended \union {f.stream} ELSE ended
      /\ local' = local
  BY DEF ReadFrameHeader
<1>3. f \in FrameSet
  BY PeerAssumption
<1>4. engine'.flow = engine.flow
  BY <1>1, <1>2, <1>3, HandleFrameHeaderEffect DEF SameSending
<1>5. /\ Arrives(engine, engine', f)
      /\ engine'.event_queue # engine.event_queue => f.len = 0 /\ Closes(f)
  BY <1>1, <1>2, HandleFrameHeaderArrives
<1>6. ReadingOK'
  BY <1>2 DEF ReadingOK, PeerMaySend, NoFrame, Frame
<1>7. CASE engine'.event_queue = engine.event_queue
  <2>1. Len(engine.event_queue) \in Nat
    BY <1>1, QueueLength
  <2>2. ended \subseteq ended'
    BY <1>2
  <2>3. \A s \in Streams : InUse(s)' => InUse(s)
    BY <1>2, <1>4 DEF InUse
  <2> QED  BY <1>6, <1>7, <2>1, <2>2, <2>3 DEF Arrived, Lengthens
<1>8. CASE engine'.event_queue # engine.event_queue
  <2>1. ended' = ended \union {f.stream}
    BY <1>2, <1>5, <1>8
  <2>2. \A s \in Streams : InUse(s)' => InUse(s)
    BY <1>2, <1>4 DEF InUse
  <2>3. HandleFrameHeader(engine, f) = Emit(engine, <<Event("stream_closed", f.stream, 0)>>)
    <3>1. SettingsAck \in FrameSet
      BY FrameTypesOK DEF SettingsAck, FrameTypes
    <3>2. Write(engine, <<SettingsAck>>).event_queue = engine.event_queue
      BY <1>1, <3>1, OneFrame, WriteLemma
    <3> QED  BY <1>2, <1>8, <3>2 DEF HandleFrameHeader
  <2>4. engine'.event_queue = engine.event_queue \o <<Event("stream_closed", f.stream, 0)>>
    BY <1>1, <1>2, <2>3 DEF Emit, EngineSet
  <2>5. engine.event_queue \in Seq(EventSet)
    BY <1>1, MemberTypes
  <2>6. \A i \in Len(engine.event_queue) + 1 .. Len(engine'.event_queue) :
          engine'.event_queue[i] = Event("stream_closed", f.stream, 0)
    BY <2>4, <2>5
  <2>7. \A i \in Len(engine.event_queue) + 1 .. Len(engine'.event_queue) :
          /\ engine'.event_queue[i].type # "new_stream"
          /\ ~Content(engine'.event_queue[i])
          /\ engine'.event_queue[i].stream \in ended'
    BY <2>1, <2>6 DEF Content, Event
  <2> QED  BY <1>5, <1>6, <2>1, <2>2, <2>7 DEF Arrived, Arrives
<1> QED  BY <1>7, <1>8

\* A chunk of a payload: with END_STREAM it is the whole payload.
LEMMA ReadPayloadArrived ==
  ASSUME SendInv, SendInv', ReadingOK, frame.end => payload_bytes_read' = 0,
         NEW n \in Nat \ {0}, NEW q \in IterationOrders(Woken(engine, frame)), ReadPayload(n, q)
  PROVE  Arrived
<1>1. /\ engine \in EngineSet /\ Signalled(engine) /\ engine' \in EngineSet
      /\ payload_bytes_read \in Nat
  BY DEF SendInv, SendOK, IInv, TypeOK
<1>2. /\ frame # NoFrame
      /\ engine' = HandlePayloadChunk(engine, frame, n, q)
      /\ frame' = IF payload_bytes_read + n = frame.len THEN NoFrame ELSE frame
      /\ payload_bytes_read' = IF payload_bytes_read + n = frame.len THEN 0 ELSE payload_bytes_read + n
      /\ ended' = IF Closes(frame) THEN ended \union {frame.stream} ELSE ended
      /\ local' = local
  BY DEF ReadPayload
<1>3. frame \in PeerFrames
  BY <1>2 DEF SendInv, IInv, TypeOK
<1>4. /\ frame \in FrameSet
      /\ frame.type \in {"data", "headers", "rst_stream"} => frame.stream \in Streams
  BY <1>3, PeerAssumption
<1>5. Arrives(engine, engine', frame)
  BY <1>1, <1>2, <1>3, HandlePayloadChunkArrives
<1>6. \A t \in Streams : engine'.flow[t].tracked => engine.flow[t].tracked \/ t = frame.stream
  BY <1>1, <1>2, <1>3, ChunkEnters
<1>7. ReadingOK'
  <2>1. CASE frame' = NoFrame
    BY <2>1 DEF ReadingOK, NoFrame, Frame
  <2>2. CASE frame' = frame /\ ~frame.end
    BY <1>2, <2>2 DEF ReadingOK, Closes
  <2>3. frame.end => frame' = NoFrame
    BY <1>1, <1>2
  <2> QED  BY <1>2, <2>1, <2>2, <2>3
<1>8. ASSUME NEW s \in Streams, s = frame.stream, frame.type = "headers", Unannounced(engine, s)
      PROVE  Announces(s)'
  <2>1. engine' = ReceiveHeaders(engine, frame)
    BY <1>2, <1>8 DEF HandlePayloadChunk
  <2>2. \E i \in DOMAIN engine'.event_queue :
          engine'.event_queue[i] = Event("new_stream", frame.stream, 0)
    BY <1>1, <1>4, <1>8, <2>1, HeadersAnnounce
  <2> QED  BY <1>8, <2>2 DEF Announces
<1>9. \A i \in Len(engine.event_queue) + 1 .. Len(engine'.event_queue) :
        Ends(engine'.event_queue[i]) => engine'.event_queue[i].stream \in ended'
  BY <1>2, <1>5 DEF Arrives
<1> QED  BY <1>2, <1>5, <1>6, <1>7, <1>8, <1>9, FrameArrived

\* A block that cannot be decoded announces its stream.
LEMMA DecodeThrowsArrived ==
  ASSUME SendInv, SendInv', ReadingOK, DecodeThrows
  PROVE  Arrived
<1>1. /\ engine \in EngineSet /\ Signalled(engine) /\ engine' \in EngineSet
  BY DEF SendInv, SendOK, IInv, TypeOK
<1>2. /\ frame.type = "headers" /\ engine' = Announce(engine, frame.stream)
      /\ UNCHANGED <<frame, local, ended>>
  BY DEF DecodeThrows
<1>3. frame \in PeerFrames /\ frame # NoFrame
  BY <1>2 DEF SendInv, IInv, TypeOK, NoFrame, Frame
<1>4. frame \in FrameSet /\ frame.stream \in Streams
  BY <1>2, <1>3, PeerAssumption
<1>5. Brings(engine, engine', Opening(frame))
  BY <1>1, <1>2, <1>4, AnnounceBrings
<1>6. Arrives(engine, engine', frame)
  BY <1>1, <1>5, ArrivesAtOnce
<1>7. \A t \in Streams : engine'.flow[t].tracked => engine.flow[t].tracked \/ t = frame.stream
  <2>1. \A t \in Streams \ {frame.stream} : SameStream(engine, engine', t)
    BY <1>1, <1>2, <1>4, AnnounceEffect
  <2> QED  BY <2>1 DEF SameStream
<1>8. ASSUME NEW s \in Streams, s = frame.stream, Unannounced(engine, s)
      PROVE  Announces(s)'
  <2>1. \E i \in DOMAIN engine'.event_queue :
          engine'.event_queue[i] = Event("new_stream", frame.stream, 0)
    BY <1>1, <1>2, <1>4, <1>8, HeadersAnnounce
  <2> QED  BY <1>8, <2>1 DEF Announces
<1>9. ReadingOK'
  BY <1>2 DEF ReadingOK
<1>10. \A i \in Len(engine.event_queue) + 1 .. Len(engine'.event_queue) :
         ~Ends(engine'.event_queue[i])
  BY <1>5 DEF Brings, Opening
<1> QED  BY <1>2, <1>3, <1>6, <1>7, <1>8, <1>9, <1>10, FrameArrived

\* Whatever the transport does, what arrives is in order.
LEMMA TrafficArrived ==
  ASSUME SendInv, SendInv', ReadingOK, Traffic
  PROVE  Arrived
<1>1. frame.end => payload_bytes_read' = 0
  BY DEF Traffic
<1>2. CASE \E k \in 1 .. Len(engine.pending_out) : Transmit(k)
  BY <1>2, TransmitArrived
<1>3. CASE \E valid \in BOOLEAN : Preface(valid)
  BY <1>3, PrefaceArrived
<1>4. CASE \E f \in PeerFrames : ReadFrameHeader(f)
  BY <1>4, ReadFrameHeaderArrived
<1>5. CASE \E n \in 1 .. frame.len - payload_bytes_read :
             \E q \in IterationOrders(Woken(engine, frame)) : ReadPayload(n, q)
  <2>1. PICK n \in 1 .. frame.len - payload_bytes_read,
             q \in IterationOrders(Woken(engine, frame)) : ReadPayload(n, q)
    BY <1>5
  <2>2. n \in Nat \ {0}
    OBVIOUS
  <2> QED  BY <1>1, <2>1, <2>2, ReadPayloadArrived
<1>6. CASE DecodeThrows
  BY <1>6, DecodeThrowsArrived
<1> QED  BY <1>2, <1>3, <1>4, <1>5, <1>6 DEF Traffic, Transport

\* The events that were queued are, and the others are new.
LEMMA QueuedBefore ==
  ASSUME SendInv, SendInv', Lengthens(engine, engine')
  PROVE  /\ \A i \in DOMAIN engine.event_queue :
              i \in DOMAIN engine'.event_queue /\ engine'.event_queue[i] = engine.event_queue[i]
         /\ \A j \in DOMAIN engine'.event_queue :
              \/ j \in DOMAIN engine.event_queue
              \/ /\ j \in Len(engine.event_queue) + 1 .. Len(engine'.event_queue)
                 /\ \A i \in DOMAIN engine.event_queue : i < j
         /\ \A s : Announces(s) => Announces(s)'
<1>1. engine \in EngineSet /\ engine' \in EngineSet
  BY DEF SendInv, IInv, TypeOK
<1>2. /\ DOMAIN engine.event_queue = 1 .. Len(engine.event_queue)
      /\ DOMAIN engine'.event_queue = 1 .. Len(engine'.event_queue)
      /\ Len(engine.event_queue) \in Nat /\ Len(engine'.event_queue) \in Nat
  BY <1>1, QueueLength
<1>3. \A i \in DOMAIN engine.event_queue :
        i \in DOMAIN engine'.event_queue /\ engine'.event_queue[i] = engine.event_queue[i]
  BY <1>2 DEF Lengthens
<1>4. \A j \in DOMAIN engine'.event_queue :
        \/ j \in DOMAIN engine.event_queue
        \/ /\ j \in Len(engine.event_queue) + 1 .. Len(engine'.event_queue)
           /\ \A i \in DOMAIN engine.event_queue : i < j
  BY <1>2
<1>5. \A s : Announces(s) => Announces(s)'
  BY <1>3 DEF Announces
<1> QED  BY <1>3, <1>4, <1>5

\* What arrives keeps the queue in order.
LEMMA ArrivedQueue ==
  ASSUME SendInv, SendInv', QueueOK, Arrived
  PROVE  QueueOK'
<1>1. Lengthens(engine, engine') /\ ended \subseteq ended'
  BY DEF Arrived
<1>2. /\ \A i \in DOMAIN engine.event_queue :
           i \in DOMAIN engine'.event_queue /\ engine'.event_queue[i] = engine.event_queue[i]
      /\ \A j \in DOMAIN engine'.event_queue :
           \/ j \in DOMAIN engine.event_queue
           \/ /\ j \in Len(engine.event_queue) + 1 .. Len(engine'.event_queue)
              /\ \A i \in DOMAIN engine.event_queue : i < j
  BY <1>1, QueuedBefore
<1>3. \A i \in DOMAIN engine'.event_queue :
        Content(engine'.event_queue[i]) \/ engine'.event_queue[i].type = "new_stream"
          => engine'.event_queue[i].stream \in Streams
  BY <1>2 DEF QueueOK, Arrived
<1>4. \A i \in DOMAIN engine'.event_queue :
        Ends(engine'.event_queue[i]) => engine'.event_queue[i].stream \in ended'
  BY <1>1, <1>2 DEF QueueOK, Arrived
<1>5. ASSUME NEW i \in DOMAIN engine'.event_queue, NEW j \in DOMAIN engine'.event_queue,
             Ends(engine'.event_queue[i]), Content(engine'.event_queue[j]),
             engine'.event_queue[i].stream = engine'.event_queue[j].stream
      PROVE  j < i
  <2>1. CASE i \in DOMAIN engine.event_queue /\ j \in DOMAIN engine.event_queue
    BY <1>2, <1>5, <2>1 DEF QueueOK
  <2>2. CASE i \in DOMAIN engine.event_queue /\ j \notin DOMAIN engine.event_queue
    <3>1. engine'.event_queue[j].stream \notin ended
      BY <1>2, <1>5, <2>2 DEF Arrived
    <3>2. engine'.event_queue[i].stream \in ended
      BY <1>2, <1>5, <2>2 DEF QueueOK
    <3> QED  BY <1>5, <3>1, <3>2
  <2>3. CASE i \notin DOMAIN engine.event_queue /\ j \in DOMAIN engine.event_queue
    BY <1>2, <2>3
  <2>4. CASE i \notin DOMAIN engine.event_queue /\ j \notin DOMAIN engine.event_queue
    BY <1>2, <1>5, <2>4 DEF Arrived
  <2> QED  BY <2>1, <2>2, <2>3, <2>4
<1> QED  BY <1>3, <1>4, <1>5 DEF QueueOK

\* The streams of the map that did not end stay, and what arrives belongs to one of them.
LEMMA ArrivedMap ==
  ASSUME SendInv, SendInv', MapOK, Arrived, streams' = streams
  PROVE  MapOK'
<1>1. Lengthens(engine, engine') /\ ended \subseteq ended'
  BY DEF Arrived
<1>2. /\ \A i \in DOMAIN engine.event_queue :
           i \in DOMAIN engine'.event_queue /\ engine'.event_queue[i] = engine.event_queue[i]
      /\ \A j \in DOMAIN engine'.event_queue :
           \/ j \in DOMAIN engine.event_queue
           \/ j \in Len(engine.event_queue) + 1 .. Len(engine'.event_queue)
      /\ \A s : Announces(s) => Announces(s)'
  BY <1>1, QueuedBefore
<1>3. \A s \in Streams \ ended : InUse(s) => s \in streams' \/ Announces(s)'
  BY <1>2 DEF MapOK
<1>4. \A s \in Streams \ ended' : InUse(s)' => s \in streams' \/ Announces(s)'
  BY <1>1, <1>3 DEF Arrived
<1>5. ASSUME NEW i \in DOMAIN engine'.event_queue, Content(engine'.event_queue[i]),
             NEW s, s = engine'.event_queue[i].stream
      PROVE  s \in streams' \/ Announces(s)'
  <2>1. CASE i \in DOMAIN engine.event_queue
    <3>1. s \in streams \/ Announces(s)
      BY <1>2, <1>5, <2>1 DEF MapOK
    <3> QED  BY <1>2, <3>1
  <2>2. CASE i \in Len(engine.event_queue) + 1 .. Len(engine'.event_queue)
    <3>1. s \in Streams \ ended /\ (InUse(s) \/ Announces(s)')
      BY <1>5, <2>2 DEF Arrived
    <3> QED  BY <1>3, <3>1
  <2> QED  BY <1>2, <2>1, <2>2
<1>6. \A i \in DOMAIN engine'.event_queue :
        Content(engine'.event_queue[i]) =>
          \A s : s = engine'.event_queue[i].stream => s \in streams' \/ Announces(s)'
  BY <1>5
<1> QED  BY <1>4, <1>6 DEF MapOK, Announces

\* Nothing arrives of a request that the peer ended.
LEMMA ArrivedCompleted ==
  ASSUME SendInv, SendInv', CompletedOK, Arrived, request' = request
  PROVE  CompletedOK'
<1>1. Lengthens(engine, engine') /\ ended \subseteq ended'
  BY DEF Arrived
<1>2. /\ \A i \in DOMAIN engine.event_queue : engine'.event_queue[i] = engine.event_queue[i]
      /\ \A j \in DOMAIN engine'.event_queue :
           \/ j \in DOMAIN engine.event_queue
           \/ j \in Len(engine.event_queue) + 1 .. Len(engine'.event_queue)
  BY <1>1, QueuedBefore
<1> SUFFICES ASSUME NEW s \in Streams, request[s].completed
             PROVE  /\ s \in ended'
                    /\ \A i \in DOMAIN engine'.event_queue :
                         Content(engine'.event_queue[i]) => engine'.event_queue[i].stream # s
  BY DEF CompletedOK
<1>3. /\ s \in ended
      /\ \A i \in DOMAIN engine.event_queue :
           Content(engine.event_queue[i]) => engine.event_queue[i].stream # s
  BY DEF CompletedOK
<1>4. \A i \in Len(engine.event_queue) + 1 .. Len(engine'.event_queue) :
        Content(engine'.event_queue[i]) => engine'.event_queue[i].stream # s
  BY <1>3 DEF Arrived
<1> QED  BY <1>1, <1>2, <1>3, <1>4

----------------------------------------------------------------------------
(* The inductive invariant.                                                *)

Pending(call) == \E i \in DOMAIN stack : stack[i] = call

\* Only clients make requests and only servers are given handles.
KeysOK ==
  /\ streams \subseteq Streams /\ handles \subseteq Streams /\ entries \subseteq Streams
  /\ entries # {} => engine.role = "client"
  /\ handles # {} => engine.role = "server"

\* A request whose coroutine was resumed has no entry, unless the coroutine
\* has not returned: no later event can find it.
ResumptionsOK ==
  \A s \in Streams : request[s].resumptions # 0 =>
    /\ request[s].resumptions = 1
    /\ request[s].task # "none"
    /\ s \in entries => Pending(Resuming(s))

\* The rest of a body is being sent, or its stream waits for a window and
\* try_send_remaining is stored.
UnsentOK ==
  \A s \in entries : request[s].send_offset < request[s].body =>
    Pending(Sending(s)) \/ (s \in blocked /\ request[s].retries)

\* A handle is half closed after its END_STREAM was written, and open before.
LocalStateOK ==
  \A s \in Streams :
    /\ object[s].state = "half_closed_local" => local[s] = "done"
    /\ object[s].state \in {"idle", "open"} => local[s] # "done"

ContextOK ==
  /\ AppTypeOK
  /\ KeysOK
  /\ QueueOK
  /\ ReadingOK
  /\ MapOK
  /\ CompletedOK
  /\ ResumptionsOK
  /\ UnsentOK
  /\ LocalStateOK

AppInv == SendInv /\ ContextOK

\* What AppTypeOK says of the parts of a request and of an object.
LEMMA AppTypes ==
  ASSUME AppTypeOK, NEW s \in Streams
  PROVE  /\ object[s] \in Objects /\ object[s].state \in StreamStates
         /\ request[s] \in Requests
         /\ request[s].body \in Nat /\ request[s].send_offset \in Nat
         /\ request[s].retries \in BOOLEAN /\ request[s].completed \in BOOLEAN
         /\ request[s].continuation \in BOOLEAN
         /\ request[s].task \in {"none", "executed", "suspended", "finished"}
         /\ request[s].resumptions \in 0 .. 2
         /\ request[s].send_offset <= request[s].body
<1>1. object[s] \in Objects /\ request[s] \in Requests /\ request[s].send_offset <= request[s].body
  BY DEF AppTypeOK
<1> QED  BY <1>1 DEF Objects, Requests

----------------------------------------------------------------------------
(* next_event and dispatch.                                                *)

\* What remains of the queue.
LEMMA Drained ==
  ASSUME SendInv, SendInv', DrainEvent
  PROVE  /\ 1 \in DOMAIN engine.event_queue
         /\ Head(engine.event_queue) = engine.event_queue[1]
         /\ Head(engine.event_queue) \in EventSet
         /\ DOMAIN engine.event_queue \subseteq Nat \ {0}
         /\ \A i \in DOMAIN engine'.event_queue :
              /\ i \in Nat \ {0} /\ i + 1 \in DOMAIN engine.event_queue
              /\ engine'.event_queue[i] = engine.event_queue[i + 1]
         /\ \A i \in DOMAIN engine.event_queue :
              i # 1 => /\ i - 1 \in DOMAIN engine'.event_queue
                       /\ engine'.event_queue[i - 1] = engine.event_queue[i]
         /\ engine'.flow = engine.flow /\ engine'.role = engine.role
         /\ UNCHANGED <<frame, ended, forgotten>>
<1> DEFINE q == engine.event_queue
           r == engine'.event_queue
<1>1. engine \in EngineSet /\ engine' = NextEvent(engine) /\ q # <<>>
      /\ UNCHANGED <<frame, ended, forgotten>>
  BY DEF SendInv, IInv, TypeOK, DrainEvent
<1>2. q \in Seq(EventSet)
  BY <1>1, MemberTypes
<1>3. r = Tail(q) /\ engine'.flow = engine.flow /\ engine'.role = engine.role
  BY <1>1, NextEventLemma, NextEventEffect DEF SameSending, SameConnection
<1>4. /\ Len(q) \in Nat /\ Len(q) >= 1 /\ DOMAIN q = 1 .. Len(q) /\ Head(q) = q[1]
      /\ q[1] \in EventSet
      /\ DOMAIN r = 1 .. Len(q) - 1
      /\ \A i \in 1 .. Len(q) - 1 : r[i] = q[i + 1]
  BY <1>1, <1>2, <1>3
<1> HIDE DEF q, r
<1>5. \A i \in DOMAIN r : i \in Nat \ {0} /\ i + 1 \in DOMAIN q /\ r[i] = q[i + 1]
  BY <1>4
<1>6. ASSUME NEW i \in DOMAIN q, i # 1
      PROVE  i - 1 \in DOMAIN r /\ r[i - 1] = q[i]
  <2>1. i - 1 \in 1 .. Len(q) - 1 /\ (i - 1) + 1 = i
    BY <1>4, <1>6
  <2> QED  BY <1>4, <2>1
<1>7. 1 \in DOMAIN q /\ DOMAIN q \subseteq Nat \ {0}
  BY <1>4
<1> QED  BY <1>1, <1>3, <1>4, <1>5, <1>6, <1>7 DEF q, r

\* Only the end of a stream takes it from the map.
LEMMA ObserveEffect ==
  ASSUME AppTypeOK, KeysOK, NEW e, Observe(e), e.type = "new_stream" => e.stream \in Streams
  PROVE  /\ object' \in [Streams -> Objects]
         /\ streams' \subseteq Streams
         /\ \A s \in Streams : object[s].state # "absent" => object'[s].state # "absent"
         /\ \A s \in Streams : s # e.stream => object'[s] = object[s]
         /\ \A s \in streams' : s \in streams \/ object'[s].state # "absent"
         /\ \A s : s # e.stream \/ ~Ends(e) => (s \in streams => s \in streams')
         /\ \A s \in Streams : s = e.stream =>
              CASE e.type = "new_stream" -> object'[s] = NewObject /\ s \in streams'
                [] e.type = "stream_closed" /\ s \in streams ->
                     /\ object'[s].state = IF object[s].state = "open" THEN "half_closed_remote"
                                                                       ELSE "closed"
                     /\ object'[s].state = "closed" => s \notin streams'
                [] e.type = "stream_reset" -> object'[s] = object[s] /\ s \notin streams'
                [] OTHER -> object'[s] = object[s] /\ (s \in streams' <=> s \in streams)
<1>1. object \in [Streams -> Objects] /\ streams \subseteq Streams
  BY DEF AppTypeOK, KeysOK
<1>2. CASE e.type = "new_stream"
  <2>1. /\ object' = [object EXCEPT ![e.stream] = NewObject]
        /\ streams' = streams \union {e.stream}
    BY <1>2 DEF Observe
  <2>2. NewObject \in Objects /\ NewObject.state # "absent"
    BY DEF NewObject, Objects, StreamStates
  <2>3. object' \in [Streams -> Objects]
        /\ object'[e.stream] = NewObject
        /\ \A s \in Streams : s # e.stream => object'[s] = object[s]
    BY <1>1, <1>2, <2>1, <2>2
  <2>4. ~Ends(e)
    BY <1>2 DEF Ends
  <2> QED  BY <1>1, <1>2, <2>1, <2>2, <2>3, <2>4
<1>3. CASE e.type = "stream_closed" /\ e.stream \in streams
  <2> DEFINE o == AfterClose(object[e.stream])
  <2>1. /\ object' = [object EXCEPT ![e.stream] = o]
        /\ streams' = IF object'[e.stream].state = "closed" THEN streams \ {e.stream} ELSE streams
    BY <1>3 DEF Observe
  <2>2. /\ o \in Objects
        /\ o.state = IF object[e.stream].state = "open" THEN "half_closed_remote" ELSE "closed"
    BY <1>1, <1>3 DEF AfterClose, Objects, StreamStates
  <2> HIDE DEF o
  <2>3. object' \in [Streams -> Objects]
        /\ object'[e.stream] = o
        /\ \A s \in Streams : s # e.stream => object'[s] = object[s]
    BY <1>1, <1>3, <2>1, <2>2
  <2>4. o.state # "absent"
    BY <2>2
  <2> QED  BY <1>1, <1>3, <2>1, <2>2, <2>3, <2>4 DEF Ends
<1>4. CASE e.type = "stream_reset"
  <2>1. object' = object /\ streams' = streams \ {e.stream}
    BY <1>4 DEF Observe
  <2> QED  BY <1>1, <1>4, <2>1 DEF Ends
<1>5. CASE ~(e.type = "new_stream" \/ (e.type = "stream_closed" /\ e.stream \in streams)
             \/ e.type = "stream_reset")
  <2>1. object' = object /\ streams' = streams
    BY <1>5 DEF Observe
  <2> QED  BY <1>1, <1>5, <2>1
<1> QED  BY <1>2, <1>3, <1>4, <1>5

\* An event that is drained leaves the rest in order.
LEMMA DrainQueue ==
  ASSUME SendInv, SendInv', QueueOK, ReadingOK, DrainEvent
  PROVE  QueueOK' /\ ReadingOK'
<1>1. /\ \A i \in DOMAIN engine'.event_queue :
           /\ i \in Nat \ {0} /\ i + 1 \in DOMAIN engine.event_queue
           /\ engine'.event_queue[i] = engine.event_queue[i + 1]
      /\ UNCHANGED <<frame, ended>>
  BY Drained
<1>2. ASSUME NEW i \in DOMAIN engine'.event_queue, NEW j \in DOMAIN engine'.event_queue,
             Ends(engine'.event_queue[i]), Content(engine'.event_queue[j]),
             engine'.event_queue[i].stream = engine'.event_queue[j].stream
      PROVE  j < i
  <2>1. j + 1 < i + 1
    BY <1>1, <1>2 DEF QueueOK
  <2> QED  BY <1>1, <2>1
<1>3. ReadingOK'
  BY <1>1 DEF ReadingOK
<1>4. \A i \in DOMAIN engine'.event_queue :
        /\ Content(engine'.event_queue[i]) \/ engine'.event_queue[i].type = "new_stream"
             => engine'.event_queue[i].stream \in Streams
        /\ Ends(engine'.event_queue[i]) => engine'.event_queue[i].stream \in ended'
  BY <1>1 DEF QueueOK
<1> QED  BY <1>2, <1>3, <1>4 DEF QueueOK

\* An event of a stream that is announced comes after the announcement.
LEMMA HeadAnnounces ==
  ASSUME SendInv, SendInv', DrainEvent, NEW s \in Streams, Announces(s)
  PROVE  Head(engine.event_queue) = Event("new_stream", s, 0) \/ Announces(s)'
<1>1. PICK i \in DOMAIN engine.event_queue : engine.event_queue[i] = Event("new_stream", s, 0)
  BY DEF Announces
<1>2. CASE i = 1
  BY <1>1, <1>2, Drained
<1>3. CASE i # 1
  <2>1. i - 1 \in DOMAIN engine'.event_queue /\ engine'.event_queue[i - 1] = engine.event_queue[i]
    BY <1>3, Drained
  <2> QED  BY <1>1, <2>1 DEF Announces
<1> QED  BY <1>2, <1>3

\* A stream leaves the map only after its content.
LEMMA PumpMap ==
  ASSUME SendInv, SendInv', AppTypeOK, KeysOK, QueueOK, MapOK, DrainEvent,
         Observe(Head(engine.event_queue))
  PROVE  MapOK'
<1> DEFINE e == Head(engine.event_queue)
<1>1. /\ 1 \in DOMAIN engine.event_queue /\ e = engine.event_queue[1]
      /\ \A i \in DOMAIN engine'.event_queue :
           /\ i \in Nat \ {0} /\ i + 1 \in DOMAIN engine.event_queue
           /\ engine'.event_queue[i] = engine.event_queue[i + 1]
      /\ engine'.flow = engine.flow /\ ended' = ended
  BY Drained
<1>2. e.type = "new_stream" => e.stream \in Streams
  BY <1>1 DEF QueueOK
<1>3. Ends(e) => e.stream \in ended
  BY <1>1 DEF QueueOK
<1>4. /\ \A s : s # e.stream \/ ~Ends(e) => (s \in streams => s \in streams')
      /\ e.type = "new_stream" => e.stream \in streams'
  BY <1>2, ObserveEffect
<1>5. \A s \in Streams : Announces(s) => s \in streams' \/ Announces(s)'
  <2> SUFFICES ASSUME NEW s \in Streams, Announces(s) PROVE s \in streams' \/ Announces(s)'
    OBVIOUS
  <2>1. e = Event("new_stream", s, 0) \/ Announces(s)'
    BY HeadAnnounces
  <2>2. e = Event("new_stream", s, 0) => e.type = "new_stream" /\ e.stream = s
    BY DEF Event
  <2> QED  BY <1>4, <2>1, <2>2
<1>6. local \in [Streams -> {"none", "open", "headers", "done"}]
      /\ local' = IF e.type = "new_stream" THEN [local EXCEPT ![e.stream] = "open"] ELSE local
  BY DEF DrainEvent, SendInv, IInv, TypeOK
<1> HIDE DEF e
<1>7. ASSUME NEW s \in Streams \ ended', InUse(s)'
      PROVE  s \in streams' \/ Announces(s)'
  <2>1. InUse(s) \/ s \in streams'
    BY <1>1, <1>4, <1>6, <1>7 DEF InUse
  <2>2. InUse(s) => s \in streams \/ Announces(s)
    BY <1>1, <1>7 DEF MapOK
  <2>3. s \in streams => s \in streams'
    BY <1>1, <1>3, <1>4, <1>7
  <2> QED  BY <1>5, <2>1, <2>2, <2>3
<1>8. ASSUME NEW i \in DOMAIN engine'.event_queue, Content(engine'.event_queue[i]),
             NEW s, s = engine'.event_queue[i].stream
      PROVE  s \in streams' \/ Announces(s)'
  <2>1. /\ i + 1 \in DOMAIN engine.event_queue /\ i \in Nat \ {0}
        /\ Content(engine.event_queue[i + 1]) /\ s = engine.event_queue[i + 1].stream
    BY <1>1, <1>8
  <2>2. s \in Streams /\ (s \in streams \/ Announces(s))
    BY <2>1 DEF QueueOK, MapOK
  <2>3. s # e.stream \/ ~Ends(e)
    <3> SUFFICES ASSUME s = e.stream, Ends(e) PROVE FALSE
      OBVIOUS
    <3>1. i + 1 < 1
      BY <1>1, <2>1 DEF QueueOK
    <3> QED  BY <2>1, <3>1
  <2> QED  BY <1>4, <1>5, <2>2, <2>3
<1>9. \A i \in DOMAIN engine'.event_queue :
        Content(engine'.event_queue[i]) =>
          \A s : s = engine'.event_queue[i].stream => s \in streams' \/ Announces(s)'
  BY <1>8
<1> QED  BY <1>7, <1>9 DEF MapOK, Announces

\* The request that dispatch completes.
Complete(x, t, k) == [x EXCEPT !.completed = TRUE, !.task = t, !.resumptions = k]

LEMMA CompletedRequest ==
  ASSUME NEW x \in Requests, NEW t \in {"none", "executed", "suspended", "finished"}, NEW k \in 0 .. 2
  PROVE  /\ Complete(x, t, k) \in Requests
         /\ Complete(x, t, k).body = x.body
         /\ Complete(x, t, k).send_offset = x.send_offset
         /\ Complete(x, t, k).retries = x.retries
         /\ Complete(x, t, k).completed
         /\ Complete(x, t, k).task = t
         /\ Complete(x, t, k).resumptions = k
  BY DEF Requests, Complete

\* dispatch completes the request of the event, if it ends one that has an entry.
LEMMA DispatchEffect ==
  ASSUME AppTypeOK, KeysOK, NEW e, Dispatch(e)
  PROVE  /\ request' \in [Streams -> Requests]
         /\ \A s \in Streams :
              /\ request'[s].body = request[s].body
              /\ request'[s].send_offset = request[s].send_offset
              /\ request'[s].retries = request[s].retries
              /\ IF s = e.stream /\ s \in entries /\ Ends(e)
                 THEN /\ request'[s].completed
                      /\ IF Resumes(e)
                         THEN /\ request'[s].task = "finished"
                              /\ request'[s].resumptions = Least(2, request[s].resumptions + 1)
                         ELSE /\ request'[s].task = request[s].task
                              /\ request'[s].resumptions = Least(2, request[s].resumptions)
                 ELSE request'[s] = request[s]
         /\ entries' \subseteq entries
         /\ \A s \in entries' : s \in entries /\ (s = e.stream /\ Ends(e) => Resumes(e))
<1>1. request \in [Streams -> Requests] /\ entries \subseteq Streams
  BY DEF AppTypeOK, KeysOK
<1>2. CASE e.stream \notin entries
  BY <1>1, <1>2 DEF Dispatch
<1>3. CASE e.stream \in entries /\ ~Ends(e)
  BY <1>1, <1>3 DEF Dispatch
<1>4. CASE e.stream \in entries /\ Ends(e)
  <2> DEFINE x == request[e.stream]
             t == IF Resumes(e) THEN "finished" ELSE x.task
             k == Least(2, IF Resumes(e) THEN x.resumptions + 1 ELSE x.resumptions)
             y == Complete(x, t, k)
  <2>1. x \in Requests /\ x.task \in {"none", "executed", "suspended", "finished"}
        /\ x.resumptions \in 0 .. 2
    BY <1>1, <1>4, AppTypes
  <2>2. t \in {"none", "executed", "suspended", "finished"} /\ k \in 0 .. 2
    BY <2>1 DEF Least
  <2>3. request' = [request EXCEPT ![e.stream] = y]
    BY <1>4 DEF Dispatch, Complete
  <2>4. entries' = IF ~Resumes(e) THEN entries \ {e.stream} ELSE entries
    BY <1>4 DEF Dispatch
  <2>5. /\ Resumes(e) => t = "finished" /\ k = Least(2, x.resumptions + 1)
        /\ ~Resumes(e) => t = x.task /\ k = Least(2, x.resumptions)
    OBVIOUS
  <2> HIDE DEF t, k, x
  <2>6. /\ y \in Requests
        /\ y.body = x.body /\ y.send_offset = x.send_offset /\ y.retries = x.retries
        /\ y.completed /\ y.task = t /\ y.resumptions = k
    BY <2>1, <2>2, CompletedRequest
  <2> HIDE DEF y
  <2>7. /\ request' \in [Streams -> Requests] /\ request'[e.stream] = y
        /\ \A s \in Streams : s # e.stream => request'[s] = request[s]
    BY <1>1, <1>4, <2>3, <2>6
  <2> QED  BY <1>4, <2>4, <2>5, <2>6, <2>7 DEF x
<1> QED  BY <1>2, <1>3, <1>4

\* A stack of at most one call.
LEMMA ShortStack ==
  ASSUME NEW s \in Streams
  PROVE  /\ <<>> \in Seq(Calls)
         /\ <<Resuming(s)>> \in Seq(Calls) /\ <<Sending(s)>> \in Seq(Calls)
  BY DEF Calls

LEMMA DispatchStack ==
  ASSUME KeysOK, NEW e, Dispatch(e), stack = <<>>
  PROVE  /\ stack' \in Seq(Calls)
         /\ \A s \in entries : s = e.stream =>
              /\ Resumes(e) => Pending(Resuming(s))'
              /\ e.type = "stream_window_available" /\ request[s].retries
                   /\ request[s].send_offset < request[s].body => Pending(Sending(s))'
<1>1. entries \subseteq Streams
  BY DEF KeysOK
<1>2. CASE e.stream \notin entries
  BY <1>2 DEF Dispatch, Calls
<1>3. CASE e.stream \in entries
  <2> DEFINE S == <<Sending(e.stream)>>
             R == <<Resuming(e.stream)>>
             W == /\ e.type = "stream_window_available" /\ request[e.stream].retries
                  /\ request[e.stream].send_offset < request[e.stream].body
  <2>1. stack' = CASE Resumes(e) -> R [] W -> S [] OTHER -> <<>>
    BY <1>3 DEF Dispatch
  <2>2. Resumes(e) => ~W
    BY DEF Resumes, Ends
  <2>3. W <=> (/\ e.type = "stream_window_available" /\ request[e.stream].retries
               /\ request[e.stream].send_offset < request[e.stream].body)
    OBVIOUS
  <2>4. R \in Seq(Calls) /\ S \in Seq(Calls) /\ <<>> \in Seq(Calls)
    BY <1>1, <1>3, ShortStack
  <2>5. \A c : <<c>>[1] = c /\ 1 \in DOMAIN <<c>>
    OBVIOUS
  <2> HIDE DEF W, R, S
  <2>6. stack' = R \/ stack' = S \/ stack' = <<>>
    BY <2>1
  <2>7. (Resumes(e) => stack' = R) /\ (W => stack' = S)
    BY <2>1, <2>2
  <2>8. Resumes(e) => Pending(Resuming(e.stream))'
    BY <2>5, <2>7 DEF Pending, R
  <2>9. W => Pending(Sending(e.stream))'
    BY <2>5, <2>7 DEF Pending, S
  <2> QED  BY <2>3, <2>4, <2>6, <2>8, <2>9
<1> QED  BY <1>2, <1>3

\* What next_event and dispatch do together.
Pumped(e) ==
  /\ stack = <<>>
  /\ DrainEvent
  /\ Observe(e)
  /\ Dispatch(e)
  /\ handles' = IF engine.role = "server" /\ e.type = "headers" /\ e.stream \in streams
                THEN handles \union {e.stream} ELSE handles
  /\ told' = IF Ends(e) THEN told \union {e.stream} ELSE told

LEMMA PumpTypes ==
  ASSUME SendInv, SendInv', ContextOK, NEW e, e = Head(engine.event_queue), Pumped(e)
  PROVE  AppTypeOK' /\ KeysOK'
<1>1. AppTypeOK /\ KeysOK /\ QueueOK
  BY DEF ContextOK
<1>2. 1 \in DOMAIN engine.event_queue /\ e = engine.event_queue[1] /\ engine'.role = engine.role
  BY Drained DEF Pumped
<1>3. /\ e.type = "new_stream" => e.stream \in Streams
      /\ Ends(e) => e.stream \in Streams
  BY <1>1, <1>2 DEF QueueOK, SendInv, IInv, TypeOK
<1>4. Observe(e) /\ Dispatch(e) /\ stack = <<>>
  BY DEF Pumped
<1>5. /\ object' \in [Streams -> Objects] /\ streams' \subseteq Streams
      /\ \A s \in Streams : object[s].state # "absent" => object'[s].state # "absent"
      /\ \A s \in streams' : s \in streams \/ object'[s].state # "absent"
  BY <1>1, <1>3, <1>4, ObserveEffect
<1>6. /\ request' \in [Streams -> Requests]
      /\ \A s \in Streams :
           /\ request'[s].body = request[s].body
           /\ request'[s].send_offset = request[s].send_offset
           /\ request[s].task # "none" => request'[s].task # "none"
      /\ entries' \subseteq entries
  BY <1>1, <1>4, DispatchEffect
<1>7. stack' \in Seq(Calls)
  BY <1>1, <1>4, DispatchStack
<1>8. handles' \subseteq handles \union streams
  BY DEF Pumped
<1>9. \A s \in streams' \union handles' : object'[s].state # "absent"
  BY <1>1, <1>5, <1>8 DEF AppTypeOK, KeysOK
<1>10. /\ \A s \in entries' : request'[s].task # "none"
       /\ \A s \in Streams : request'[s].send_offset <= request'[s].body
  BY <1>1, <1>6 DEF AppTypeOK, KeysOK
<1>11. told' \subseteq Streams
  BY <1>1, <1>3 DEF Pumped, AppTypeOK
<1>12. KeysOK'
  BY <1>1, <1>2, <1>5, <1>6, <1>8 DEF KeysOK, Pumped
<1> QED  BY <1>5, <1>6, <1>7, <1>9, <1>10, <1>11, <1>12 DEF AppTypeOK

LEMMA PumpCompleted ==
  ASSUME SendInv, SendInv', ContextOK, NEW e, e = Head(engine.event_queue), Pumped(e)
  PROVE  CompletedOK'
<1>1. /\ 1 \in DOMAIN engine.event_queue /\ e = engine.event_queue[1]
      /\ \A i \in DOMAIN engine'.event_queue :
           /\ i \in Nat \ {0} /\ i + 1 \in DOMAIN engine.event_queue
           /\ engine'.event_queue[i] = engine.event_queue[i + 1]
      /\ ended' = ended
  BY Drained DEF Pumped
<1> SUFFICES ASSUME NEW s \in Streams, request'[s].completed
             PROVE  /\ s \in ended
                    /\ \A i \in DOMAIN engine'.event_queue :
                         Content(engine'.event_queue[i]) => engine'.event_queue[i].stream # s
  BY <1>1 DEF CompletedOK
<1>2. request[s].completed \/ (s = e.stream /\ Ends(e))
  BY DispatchEffect DEF Pumped, ContextOK
<1>3. CASE request[s].completed
  BY <1>1, <1>3 DEF ContextOK, CompletedOK
<1>4. CASE s = e.stream /\ Ends(e)
  <2>1. s \in ended
    BY <1>1, <1>4 DEF ContextOK, QueueOK
  <2>2. ASSUME NEW i \in DOMAIN engine'.event_queue, Content(engine'.event_queue[i]),
               engine'.event_queue[i].stream = s
        PROVE  FALSE
    <3>1. i + 1 < 1
      BY <1>1, <1>4, <2>2 DEF ContextOK, QueueOK
    <3> QED  BY <1>1, <3>1
  <2> QED  BY <2>1, <2>2
<1> QED  BY <1>2, <1>3, <1>4

LEMMA PumpResumptions ==
  ASSUME SendInv, SendInv', ContextOK, NEW e, e = Head(engine.event_queue), Pumped(e)
  PROVE  ResumptionsOK'
<1> SUFFICES ASSUME NEW s \in Streams, request'[s].resumptions # 0
             PROVE  /\ request'[s].resumptions = 1
                    /\ request'[s].task # "none"
                    /\ s \in entries' => Pending(Resuming(s))'
  BY DEF ResumptionsOK
<1>1. /\ AppTypeOK /\ KeysOK /\ ResumptionsOK
      /\ Dispatch(e) /\ stack = <<>>
  BY DEF ContextOK, Pumped
<1>2. request[s].resumptions # 0 => request[s].resumptions = 1 /\ request[s].task # "none" /\ s \notin entries
  BY <1>1 DEF ResumptionsOK, Pending
<1>3. request[s].resumptions \in 0 .. 2
  BY <1>1, AppTypes
<1>4. CASE s = e.stream /\ s \in entries /\ Ends(e)
  <2>1. request[s].resumptions = 0
    BY <1>2, <1>4
  <2>2. /\ Resumes(e) => request'[s].task = "finished" /\ request'[s].resumptions = Least(2, 0 + 1)
        /\ ~Resumes(e) => request'[s].resumptions = Least(2, 0)
    BY <1>1, <1>4, <2>1, DispatchEffect
  <2>3. Resumes(e) /\ request'[s].task = "finished" /\ request'[s].resumptions = 1
    BY <2>2 DEF Least
  <2>4. Pending(Resuming(s))'
    BY <1>1, <1>4, <2>3, DispatchStack
  <2> QED  BY <2>3, <2>4
<1>5. CASE ~(s = e.stream /\ s \in entries /\ Ends(e))
  <2>1. request'[s] = request[s] /\ entries' \subseteq entries
    BY <1>1, <1>5, DispatchEffect
  <2> QED  BY <1>2, <2>1
<1> QED  BY <1>4, <1>5

LEMMA PumpUnsent ==
  ASSUME SendInv, SendInv', ContextOK, NEW e, e = Head(engine.event_queue), Pumped(e)
  PROVE  UnsentOK'
<1>1. /\ AppTypeOK /\ KeysOK /\ UnsentOK
      /\ Dispatch(e) /\ stack = <<>>
  BY DEF ContextOK, Pumped
<1>2. blocked' = IF e.type = "stream_window_available" THEN blocked \ {e.stream} ELSE blocked
  BY DEF Pumped, DrainEvent
<1> SUFFICES ASSUME NEW s \in entries', request'[s].send_offset < request'[s].body
             PROVE  Pending(Sending(s))' \/ (s \in blocked' /\ request'[s].retries)
  BY DEF UnsentOK
<1>3. /\ s \in entries /\ s \in Streams
      /\ request'[s].body = request[s].body
      /\ request'[s].send_offset = request[s].send_offset
      /\ request'[s].retries = request[s].retries
  BY <1>1, DispatchEffect DEF KeysOK
<1>4. s \in blocked /\ request[s].retries
  BY <1>1, <1>3 DEF UnsentOK, Pending
<1>5. CASE e.type = "stream_window_available" /\ s = e.stream
  BY <1>1, <1>3, <1>4, <1>5, DispatchStack
<1>6. CASE ~(e.type = "stream_window_available" /\ s = e.stream)
  BY <1>2, <1>3, <1>4, <1>6
<1> QED  BY <1>5, <1>6

LEMMA PumpState ==
  ASSUME SendInv, SendInv', ContextOK, NEW e, e = Head(engine.event_queue), Pumped(e)
  PROVE  LocalStateOK'
<1>1. AppTypeOK /\ KeysOK /\ LocalStateOK /\ Observe(e)
  BY DEF ContextOK, Pumped
<1>2. e.type = "new_stream" => e.stream \in Streams
  BY Drained DEF Pumped, ContextOK, QueueOK
<1>3. \A s \in Streams : s # e.stream => object'[s] = object[s]
  BY <1>1, <1>2, ObserveEffect
<1>4. \A s \in Streams : s = e.stream =>
        \/ e.type = "new_stream" /\ object'[s] = NewObject
        \/ e.type # "new_stream" /\ object'[s].state \in {"half_closed_remote", "closed"}
        \/ e.type # "new_stream" /\ object'[s] = object[s]
  BY <1>1, <1>2, ObserveEffect
<1>5. /\ local \in [Streams -> {"none", "open", "headers", "done"}]
      /\ local' = IF e.type = "new_stream" THEN [local EXCEPT ![e.stream] = "open"] ELSE local
  BY DEF Pumped, DrainEvent, SendInv, IInv, TypeOK
<1>6. NewObject.state = "idle"
  BY DEF NewObject
<1> QED  BY <1>1, <1>3, <1>4, <1>5, <1>6 DEF LocalStateOK

\* What is returned to the application and dispatched keeps the invariant.
LEMMA PumpContextOK ==
  ASSUME AppInv, SendInv', Pump
  PROVE  ContextOK'
<1> DEFINE e == Head(engine.event_queue)
<1>1. SendInv /\ ContextOK /\ Pumped(e)
  BY DEF AppInv, Pump, Pumped
<1>2. DrainEvent /\ Observe(e)
  BY <1>1 DEF Pumped
<1>3. QueueOK' /\ ReadingOK'
  BY <1>1, <1>2, DrainQueue DEF ContextOK
<1>4. MapOK'
  BY <1>1, <1>2, PumpMap DEF ContextOK
<1> HIDE DEF e
<1>5. AppTypeOK' /\ KeysOK' /\ CompletedOK' /\ ResumptionsOK' /\ UnsentOK' /\ LocalStateOK'
  BY <1>1, PumpTypes, PumpCompleted, PumpResumptions, PumpUnsent, PumpState DEF e
<1> QED  BY <1>3, <1>4, <1>5 DEF ContextOK

----------------------------------------------------------------------------
(* Calls of the application.                                               *)

\* A call that queues no event and reads nothing, and brings only streams of
\* the map into use.
Quiet ==
  /\ engine'.event_queue = engine.event_queue
  /\ engine'.role = engine.role
  /\ UNCHANGED <<frame, ended>>
  /\ \A s \in Streams : InUse(s)' => InUse(s) \/ s \in streams'

LEMMA QuietCall ==
  ASSUME ContextOK, Quiet, streams \subseteq streams',
         \A s \in Streams : request'[s].completed => request[s].completed
  PROVE  QueueOK' /\ ReadingOK' /\ MapOK' /\ CompletedOK'
<1>1. QueueOK /\ ReadingOK /\ MapOK /\ CompletedOK
  BY DEF ContextOK
<1>2. engine'.event_queue = engine.event_queue /\ frame' = frame /\ ended' = ended
  BY DEF Quiet
<1>3. QueueOK' /\ ReadingOK'
  BY <1>1, <1>2 DEF QueueOK, ReadingOK
<1>4. \A s : Announces(s)' <=> Announces(s)
  BY <1>2 DEF Announces
<1>5. \A s \in Streams \ ended : InUse(s)' => s \in streams' \/ Announces(s)'
  BY <1>1, <1>4 DEF MapOK, Quiet
<1>6. \A i \in DOMAIN engine.event_queue :
        Content(engine.event_queue[i]) =>
          \A s : s = engine.event_queue[i].stream => s \in streams' \/ Announces(s)'
  BY <1>1, <1>4 DEF MapOK
<1>7. MapOK'
  BY <1>2, <1>5, <1>6 DEF MapOK, Announces
<1>8. CompletedOK'
  BY <1>1, <1>2 DEF CompletedOK
<1> QED  BY <1>3, <1>7, <1>8

\* send_headers moves a stream that was opened.
LEMMA HeadersQuiet ==
  ASSUME SendInv, NEW s \in Streams, NEW end \in BOOLEAN, SendHeaders(s, end)
  PROVE  /\ Quiet
         /\ local[s] = "open"
         /\ local'[s] = IF end THEN "done" ELSE "headers"
         /\ \A t \in Streams : t # s => local'[t] = local[t]
         /\ blocked' = blocked
<1>1. engine \in EngineSet /\ Signalled(engine)
      /\ local \in [Streams -> {"none", "open", "headers", "done"}]
  BY DEF SendInv, SendOK, IInv, TypeOK
<1>2. /\ local[s] = "open" /\ engine' = SendHeadersFrame(engine, s, end)
      /\ local' = [local EXCEPT ![s] = IF end THEN "done" ELSE "headers"]
      /\ UNCHANGED <<frame, blocked, ended>>
  BY DEF SendHeaders
<1>3. engine'.flow = engine.flow /\ engine'.role = engine.role
      /\ engine'.event_queue = engine.event_queue
  BY <1>1, <1>2, SendHeadersEffect DEF SameSending, SameConnection
<1>4. /\ local'[s] = IF end THEN "done" ELSE "headers"
      /\ \A t \in Streams : t # s => local'[t] = local[t]
  BY <1>1, <1>2
<1>5. \A t \in Streams : InUse(t)' => InUse(t)
  BY <1>2, <1>3, <1>4 DEF InUse
<1> QED  BY <1>2, <1>3, <1>4, <1>5 DEF Quiet

\* send_data ends the stream only if it took everything; if not, it waits.
LEMMA BodyQuiet ==
  ASSUME SendInv, NEW s \in Streams, NEW n \in Nat, NEW end \in BOOLEAN, SendBody(s, n, end)
  PROVE  /\ Quiet
         /\ local'[s] = IF Accepted(engine, s, n) = n /\ end THEN "done" ELSE local[s]
         /\ \A t \in Streams : t # s => local'[t] = local[t]
         /\ Accepted(engine, s, n) # n => s \in blocked'
         /\ \A t \in Streams : t # s => (t \in blocked => t \in blocked')
<1>1. engine \in EngineSet /\ Signalled(engine)
      /\ local \in [Streams -> {"none", "open", "headers", "done"}]
  BY DEF SendInv, SendOK, IInv, TypeOK
<1> DEFINE sent == Accepted(engine, s, n)
<1>2. /\ local[s] = "headers" /\ engine' = SendData(engine, s, n, end)
      /\ local' = [local EXCEPT ![s] = IF sent = n /\ end THEN "done" ELSE @]
      /\ blocked' = IF sent = n THEN blocked \ {s} ELSE blocked \union {s}
      /\ UNCHANGED <<frame, ended>>
  BY DEF SendBody
<1>3. Spent(engine, engine', s, sent) /\ engine'.event_queue = engine.event_queue
  BY <1>1, <1>2, SendDataEffect
<1> HIDE DEF sent
<1>4. /\ engine'.role = engine.role
      /\ \A t \in Streams : engine'.flow[t].known => engine.flow[t].known
  <2>1. engine'.flow[s].known => engine.flow[s].known
    BY <1>3 DEF Spent
  <2>2. \A t \in Streams \ {s} : engine'.flow[t].known = engine.flow[t].known
    BY <1>3 DEF Spent, SameStream
  <2> QED  BY <1>3, <2>1, <2>2 DEF Spent
<1>5. /\ local'[s] = IF sent = n /\ end THEN "done" ELSE local[s]
      /\ \A t \in Streams : t # s => local'[t] = local[t]
  BY <1>1, <1>2
<1>6. \A t \in Streams : InUse(t)' => InUse(t)
  BY <1>2, <1>4, <1>5 DEF InUse
<1> QED  BY <1>2, <1>3, <1>4, <1>5, <1>6 DEF Quiet, sent

\* A handle's state follows what was sent.
LEMMA StateFollows ==
  ASSUME AppTypeOK, LocalStateOK, NEW s \in Streams, NEW o \in Objects,
         object' = [object EXCEPT ![s] = o],
         object[s].state # "absent" => o.state # "absent",
         \A t \in Streams : t # s => local'[t] = local[t],
         o.state = "half_closed_local" => local'[s] = "done",
         o.state \in {"idle", "open"} => local'[s] # "done"
  PROVE  /\ object' \in [Streams -> Objects]
         /\ \A t \in Streams : object[t].state # "absent" => object'[t].state # "absent"
         /\ LocalStateOK'
<1>1. object \in [Streams -> Objects]
  BY DEF AppTypeOK
<1>2. object'[s] = o /\ \A t \in Streams : t # s => object'[t] = object[t]
  BY <1>1
<1> QED  BY <1>1, <1>2 DEF LocalStateOK

\* Whatever call returns, the others are still in progress.
LEMMA TailPending ==
  ASSUME stack \in Seq(Calls), stack # <<>>, stack' = Tail(stack), NEW c, c # Head(stack), Pending(c)
  PROVE  Pending(c)'
<1>1. PICK i \in DOMAIN stack : stack[i] = c
  BY DEF Pending
<1>2. DOMAIN stack = 1 .. Len(stack) /\ Len(stack) \in Nat /\ Head(stack) = stack[1]
      /\ DOMAIN stack' = 1 .. Len(stack) - 1
      /\ \A j \in 1 .. Len(stack) - 1 : stack'[j] = stack[j + 1]
  OBVIOUS
<1>3. i - 1 \in 1 .. Len(stack) - 1 /\ (i - 1) + 1 = i
  BY <1>1, <1>2
<1>4. i - 1 \in DOMAIN stack' /\ stack'[i - 1] = c
  BY <1>1, <1>2, <1>3
<1> QED  BY <1>4 DEF Pending

LEMMA CallsDiffer ==
  ASSUME NEW s, NEW t
  PROVE  /\ Sending(s) # Resuming(t)
         /\ Sending(s) = Sending(t) => s = t
         /\ Resuming(s) = Resuming(t) => s = t
<1>1. /\ Sending(s).call = "try_send_remaining" /\ Sending(s).stream = s
      /\ Sending(t).stream = t
      /\ Resuming(t).call = "resume" /\ Resuming(t).stream = t
      /\ Resuming(s).stream = s
  BY DEF Sending, Resuming
<1> QED  BY <1>1

LEMMA OpenRequestContextOK ==
  ASSUME AppInv, SendInv', OpenRequest
  PROVE  ContextOK'
<1> DEFINE s == engine.next_stream_id
<1>1. SendInv /\ ContextOK /\ AppTypeOK /\ KeysOK /\ LocalStateOK /\ ResumptionsOK /\ UnsentOK
  BY DEF AppInv, ContextOK
<1>2. engine \in EngineSet /\ Signalled(engine)
      /\ local \in [Streams -> {"none", "open", "headers", "done"}]
  BY <1>1 DEF SendInv, SendOK, IInv, TypeOK
<1>3. /\ s \in Streams /\ engine' = OpenStream(engine)
      /\ local' = [local EXCEPT ![s] = "open"]
      /\ object' = [object EXCEPT ![s] = NewObject]
      /\ streams' = streams \union {s}
      /\ UNCHANGED <<frame, blocked, ended, handles, entries, request, stack, told>>
  BY DEF OpenRequest, Open
<1>4. /\ engine'.event_queue = engine.event_queue /\ engine'.role = engine.role
      /\ \A t \in Streams \ {s} : engine'.flow[t].known = engine.flow[t].known
  BY <1>2, <1>3, OpenStreamEffect DEF SameStream
<1> HIDE DEF s
<1>5. local'[s] = "open" /\ \A t \in Streams : t # s => local'[t] = local[t]
  BY <1>2, <1>3
<1>6. \A t \in Streams : InUse(t)' => InUse(t) \/ t \in streams'
  BY <1>3, <1>4, <1>5 DEF InUse
<1>7. QueueOK' /\ ReadingOK' /\ MapOK' /\ CompletedOK'
  <2>1. Quiet
    BY <1>3, <1>4, <1>6 DEF Quiet
  <2> QED  BY <1>1, <1>3, <2>1, QuietCall
<1>8. NewObject \in Objects /\ NewObject.state = "idle"
  BY DEF NewObject, Objects, StreamStates
<1>9. /\ object' \in [Streams -> Objects]
      /\ \A t \in Streams : object[t].state # "absent" => object'[t].state # "absent"
      /\ LocalStateOK'
  BY <1>1, <1>3, <1>5, <1>8, StateFollows
<1>10. object'[s] = NewObject
  BY <1>1, <1>3 DEF AppTypeOK
<1>11. AppTypeOK'
  BY <1>1, <1>3, <1>8, <1>9, <1>10 DEF AppTypeOK, KeysOK
<1>12. KeysOK'
  BY <1>1, <1>3, <1>4 DEF KeysOK
<1>13. ResumptionsOK' /\ UnsentOK'
  BY <1>1, <1>3 DEF ResumptionsOK, UnsentOK, Pending
<1> QED  BY <1>7, <1>9, <1>11, <1>12, <1>13 DEF ContextOK

LEMMA AfterHeadersType ==
  ASSUME NEW end \in BOOLEAN
  PROVE  /\ AfterHeaders(end) \in Objects
         /\ AfterHeaders(end).state = IF end THEN "half_closed_local" ELSE "open"
  BY DEF AfterHeaders, Objects, StreamStates

\* A call that starts goes on top of the others.
LEMMA Pushed ==
  ASSUME NEW c \in Calls, NEW q \in Seq(Calls)
  PROVE  /\ <<c>> \o q \in Seq(Calls)
         /\ 1 \in DOMAIN (<<c>> \o q) /\ (<<c>> \o q)[1] = c
         /\ \A d : (\E i \in DOMAIN q : q[i] = d)
                    => \E i \in DOMAIN (<<c>> \o q) : (<<c>> \o q)[i] = d
<1> DEFINE r == <<c>> \o q
<1>1. r \in Seq(Calls) /\ Len(r) = 1 + Len(q) /\ Len(q) \in Nat /\ r[1] = c
  OBVIOUS
<1>2. \A i \in 1 .. Len(q) : r[i + 1] = q[i]
  OBVIOUS
<1> HIDE DEF r
<1>3. DOMAIN r = 1 .. Len(q) + 1 /\ DOMAIN q = 1 .. Len(q)
  BY <1>1
<1>4. \A i \in DOMAIN q : i + 1 \in DOMAIN r /\ r[i + 1] = q[i]
  BY <1>1, <1>2, <1>3
<1>5. 1 \in DOMAIN r
  BY <1>1, <1>3
<1> QED  BY <1>1, <1>4, <1>5 DEF r

\* execute makes a request whose whole body is still to be sent.
LEMMA ExecuteContextOK ==
  ASSUME AppInv, SendInv', NEW s \in Streams, NEW n \in BodySizes, Execute(s, n)
  PROVE  ContextOK'
<1> DEFINE o == AfterHeaders(n = 0)
<1>1. SendInv /\ ContextOK /\ AppTypeOK /\ KeysOK /\ LocalStateOK /\ ResumptionsOK /\ UnsentOK
  BY DEF AppInv, ContextOK
<1>2. n \in Nat
  BY BodyAssumption
<1>3. /\ SendHeaders(s, n = 0) /\ engine.role = "client"
      /\ object' = [object EXCEPT ![s] = o]
      /\ entries' = entries \union {s}
      /\ request' = [request EXCEPT ![s] = NewRequest(n)]
      /\ stack' = IF n > 0 THEN <<Sending(s)>> \o stack ELSE stack
      /\ UNCHANGED <<streams, handles, told>>
  BY DEF Execute
<1>4. /\ Quiet
      /\ local'[s] = IF n = 0 THEN "done" ELSE "headers"
      /\ \A t \in Streams : t # s => local'[t] = local[t]
      /\ blocked' = blocked
  BY <1>1, <1>3, HeadersQuiet
<1>5. o \in Objects /\ o.state = IF n = 0 THEN "half_closed_local" ELSE "open"
  BY AfterHeadersType
<1> HIDE DEF o
<1>6. /\ object' \in [Streams -> Objects]
      /\ \A t \in Streams : object[t].state # "absent" => object'[t].state # "absent"
      /\ LocalStateOK'
  BY <1>1, <1>3, <1>4, <1>5, StateFollows
<1>7. /\ NewRequest(n) \in Requests
      /\ NewRequest(n).body = n /\ NewRequest(n).send_offset = 0
      /\ ~NewRequest(n).completed /\ NewRequest(n).task = "executed"
      /\ NewRequest(n).resumptions = 0
  BY <1>2 DEF NewRequest, Requests
<1>8. /\ request' \in [Streams -> Requests] /\ request'[s] = NewRequest(n)
      /\ \A t \in Streams : t # s => request'[t] = request[t]
  BY <1>1, <1>3, <1>7 DEF AppTypeOK
<1>9. QueueOK' /\ ReadingOK' /\ MapOK' /\ CompletedOK'
  BY <1>1, <1>3, <1>4, <1>7, <1>8, QuietCall
<1>10. /\ stack' \in Seq(Calls)
       /\ n > 0 => Pending(Sending(s))'
       /\ \A c : Pending(c) => Pending(c)'
  <2>1. stack \in Seq(Calls) /\ Sending(s) \in Calls
    BY <1>1 DEF AppTypeOK, Calls
  <2>2. CASE ~(n > 0)
    BY <1>3, <2>1, <2>2 DEF Pending
  <2>3. CASE n > 0
    <3> DEFINE c == Sending(s)
               r == <<c>> \o stack
    <3> HIDE DEF c
    <3>1. /\ r \in Seq(Calls) /\ 1 \in DOMAIN r /\ r[1] = c
          /\ \A d : (\E i \in DOMAIN stack : stack[i] = d) => \E i \in DOMAIN r : r[i] = d
      BY <2>1, Pushed DEF c
    <3>2. stack' = r
      BY <1>3, <2>3 DEF c
    <3> HIDE DEF r
    <3> QED  BY <3>1, <3>2 DEF Pending, c
  <2> QED  BY <2>2, <2>3
<1>11. AppTypeOK'
  <2>1. \A t \in entries' : request'[t].task # "none"
    BY <1>1, <1>3, <1>7, <1>8 DEF AppTypeOK, KeysOK
  <2>2. \A t \in Streams : request'[t].send_offset <= request'[t].body
    BY <1>1, <1>2, <1>7, <1>8 DEF AppTypeOK
  <2>3. \A t \in streams' \union handles' : object'[t].state # "absent"
    BY <1>1, <1>3, <1>6 DEF AppTypeOK, KeysOK
  <2> QED  BY <1>1, <1>3, <1>6, <1>8, <1>10, <2>1, <2>2, <2>3 DEF AppTypeOK
<1>12. KeysOK'
  BY <1>1, <1>3, <1>4 DEF KeysOK, Quiet
<1>13. ResumptionsOK'
  BY <1>1, <1>3, <1>7, <1>8, <1>10 DEF ResumptionsOK
<1>14. UnsentOK'
  <2>1. ASSUME NEW t \in entries', request'[t].send_offset < request'[t].body
        PROVE  Pending(Sending(t))' \/ (t \in blocked' /\ request'[t].retries)
    <3>1. CASE t = s
      BY <1>2, <1>7, <1>8, <1>10, <2>1, <3>1
    <3>2. CASE t # s
      <4>1. t \in entries /\ request'[t] = request[t]
        BY <1>1, <1>3, <1>8, <3>2 DEF KeysOK
      <4> QED  BY <1>1, <1>4, <1>10, <2>1, <4>1 DEF UnsentOK
    <3> QED  BY <3>1, <3>2
  <2> QED  BY <2>1 DEF UnsentOK
<1> QED  BY <1>6, <1>9, <1>11, <1>12, <1>13, <1>14 DEF ContextOK

\* Calls that end, and calls that only await.
LEMMA ReturnContextOK ==
  ASSUME AppInv, NEW s \in Streams, Return(s)
  PROVE  ContextOK'
<1>1. ContextOK /\ AppTypeOK /\ KeysOK /\ LocalStateOK /\ ResumptionsOK /\ UnsentOK
  BY DEF AppInv, ContextOK
<1>2. /\ stack # <<>> /\ Head(stack) = Resuming(s)
      /\ entries' = entries \ {s} /\ stack' = Tail(stack)
      /\ UNCHANGED <<engine, frame, local, blocked, ended, object, streams, handles, request, told>>
  BY DEF Return, InnermostIs, EntriesAfter, vars
<1>3. stack \in Seq(Calls) /\ stack' \in Seq(Calls)
  BY <1>1, <1>2 DEF AppTypeOK
<1>4. \A c : c # Resuming(s) /\ Pending(c) => Pending(c)'
  BY <1>2, <1>3, TailPending
<1>5. AppTypeOK' /\ KeysOK' /\ LocalStateOK'
  BY <1>1, <1>2, <1>3 DEF AppTypeOK, KeysOK, LocalStateOK
<1>6. QueueOK' /\ ReadingOK' /\ MapOK' /\ CompletedOK'
  <2>1. Quiet
    BY <1>2 DEF Quiet, InUse
  <2> QED  BY <1>1, <1>2, <2>1, QuietCall
<1>7. ResumptionsOK' /\ UnsentOK'
  BY <1>1, <1>2, <1>4, CallsDiffer DEF ResumptionsOK, UnsentOK
<1> QED  BY <1>5, <1>6, <1>7 DEF ContextOK

\* A coroutine that awaits.
Awaiting(x, t, c) == [x EXCEPT !.task = t, !.continuation = c]

LEMMA AwaitContextOK ==
  ASSUME AppInv, NEW s \in Streams, Await(s)
  PROVE  ContextOK'
<1> DEFINE x == request[s]
           t == IF x.completed THEN "finished" ELSE "suspended"
           c == ~x.completed
           y == Awaiting(x, t, c)
<1>1. ContextOK /\ AppTypeOK /\ KeysOK /\ LocalStateOK /\ ResumptionsOK /\ UnsentOK
  BY DEF AppInv, ContextOK
<1>2. /\ request' = [request EXCEPT ![s] = y]
      /\ UNCHANGED <<engine, frame, local, blocked, ended, object, streams, handles, entries, stack, told>>
  BY DEF Await, vars, Awaiting
<1>3. x \in Requests /\ t \in {"suspended", "finished"} /\ c \in BOOLEAN
  BY <1>1, AppTypes
<1> HIDE DEF t, c
<1>4. /\ y \in Requests /\ y.body = x.body /\ y.send_offset = x.send_offset
      /\ y.retries = x.retries /\ y.completed = x.completed /\ y.resumptions = x.resumptions
      /\ y.task # "none"
  BY <1>3 DEF Requests, Awaiting
<1> HIDE DEF y
<1>5. /\ request' \in [Streams -> Requests] /\ request'[s] = y
      /\ \A r \in Streams : r # s => request'[r] = request[r]
  BY <1>1, <1>2, <1>4 DEF AppTypeOK
<1>6. \A r \in Streams :
        /\ request'[r].body = request[r].body /\ request'[r].send_offset = request[r].send_offset
        /\ request'[r].retries = request[r].retries /\ request'[r].completed = request[r].completed
        /\ request'[r].resumptions = request[r].resumptions
        /\ request[r].task # "none" => request'[r].task # "none"
  BY <1>4, <1>5
<1>7. AppTypeOK' /\ KeysOK' /\ LocalStateOK'
  BY <1>1, <1>2, <1>5, <1>6 DEF AppTypeOK, KeysOK, LocalStateOK
<1>8. QueueOK' /\ ReadingOK' /\ MapOK' /\ CompletedOK'
  <2>1. Quiet
    BY <1>2 DEF Quiet, InUse
  <2> QED  BY <1>1, <1>2, <1>6, <2>1, QuietCall
<1>9. ResumptionsOK' /\ UnsentOK'
  BY <1>1, <1>2, <1>6 DEF ResumptionsOK, UnsentOK, Pending, KeysOK
<1> QED  BY <1>7, <1>8, <1>9 DEF ContextOK

\* An engine keeps its role.
LEMMA TrafficRole ==
  ASSUME SendInv, Traffic
  PROVE  engine'.role = engine.role
<1>1. engine \in EngineSet /\ Signalled(engine) /\ payload_bytes_read \in Nat
      /\ frame \in PeerFrames \union {NoFrame}
  BY DEF SendInv, SendOK, IInv, TypeOK
<1>2. ASSUME NEW k \in 1 .. Len(engine.pending_out), Transmit(k)
      PROVE  engine'.role = engine.role
  BY <1>1, <1>2, OutputEndEffect DEF Transmit, SameSending, SameConnection
<1>3. ASSUME NEW valid \in BOOLEAN, Preface(valid)
      PROVE  engine'.role = engine.role
  BY <1>1, <1>3, ReceivePrefaceEffect DEF Preface, SameSending, SameConnection
<1>4. ASSUME NEW f \in PeerFrames, ReadFrameHeader(f)
      PROVE  engine'.role = engine.role
  <2>1. f \in FrameSet
    BY PeerAssumption
  <2> QED  BY <1>1, <1>4, <2>1, HandleFrameHeaderEffect DEF ReadFrameHeader, SameSending, SameConnection
<1>5. ASSUME NEW n \in 1 .. frame.len - payload_bytes_read,
             NEW q \in IterationOrders(Woken(engine, frame)), ReadPayload(n, q)
      PROVE  engine'.role = engine.role
  <2>1. frame \in PeerFrames /\ n \in Nat
    BY <1>1, <1>5 DEF ReadPayload
  <2> QED  BY <1>1, <1>5, <2>1, HandlePayloadChunkLemma DEF ReadPayload
<1>6. ASSUME DecodeThrows
      PROVE  engine'.role = engine.role
  <2>1. engine' = Announce(engine, frame.stream) /\ frame.type = "headers"
    BY <1>6 DEF DecodeThrows
  <2>2. frame.stream \in Streams
    BY <1>1, <2>1, PeerAssumption DEF NoFrame, Frame
  <2> QED  BY <1>1, <2>1, <2>2, AnnounceEffect DEF SameConnection
<1> QED  BY <1>2, <1>3, <1>4, <1>5, <1>6 DEF Traffic, Transport

\* The handle's state after send_data.
LEMMA AfterDataType ==
  ASSUME NEW x \in Objects, NEW sent, NEW size, NEW end \in BOOLEAN
  PROVE  /\ AfterData(x, sent, size, end) \in Objects
         /\ x.state # "absent" => AfterData(x, sent, size, end).state # "absent"
         /\ AfterData(x, sent, size, end).state
              = IF end /\ sent = size THEN "half_closed_local" ELSE x.state
<1>1. [x EXCEPT !.state = "half_closed_local"] \in Objects
      /\ [x EXCEPT !.state = "half_closed_local"].state = "half_closed_local"
  BY DEF Objects, StreamStates
<1> QED  BY <1>1 DEF AfterData

\* The body of a request that was sent in part.
Continued(x, k, r) == [x EXCEPT !.send_offset = k, !.retries = r]

\* What a body that is sent does to the handle of its stream and to the queue.
LEMMA BodySent ==
  ASSUME SendInv, ContextOK, NEW s \in Streams, NEW n \in Nat, NEW end \in BOOLEAN, SendBody(s, n, end),
         object' = [object EXCEPT ![s] = AfterData(@, Accepted(engine, s, n), n, end)],
         streams' = streams, \A t \in Streams : request'[t].completed => request[t].completed
  PROVE  /\ object' \in [Streams -> Objects]
         /\ \A t \in Streams : object[t].state # "absent" => object'[t].state # "absent"
         /\ LocalStateOK'
         /\ QueueOK' /\ ReadingOK' /\ MapOK' /\ CompletedOK'
         /\ engine'.role = engine.role
<1> DEFINE sent == Accepted(engine, s, n)
           o    == AfterData(object[s], sent, n, end)
<1>1. AppTypeOK /\ LocalStateOK
  BY DEF ContextOK
<1>2. /\ Quiet
      /\ local'[s] = IF sent = n /\ end THEN "done" ELSE local[s]
      /\ \A t \in Streams : t # s => local'[t] = local[t]
  BY BodyQuiet
<1> HIDE DEF sent
<1>3. object[s] \in Objects /\ object' = [object EXCEPT ![s] = o]
  BY <1>1, AppTypes DEF sent
<1>4. /\ o \in Objects /\ (object[s].state # "absent" => o.state # "absent")
      /\ o.state = IF end /\ sent = n THEN "half_closed_local" ELSE object[s].state
  BY <1>3, AfterDataType
<1> HIDE DEF o
<1>5. /\ o.state = "half_closed_local" => local'[s] = "done"
      /\ o.state \in {"idle", "open"} => local'[s] # "done"
  BY <1>1, <1>2, <1>4 DEF LocalStateOK
<1>6. /\ object' \in [Streams -> Objects]
      /\ \A t \in Streams : object[t].state # "absent" => object'[t].state # "absent"
      /\ LocalStateOK'
  BY <1>1, <1>2, <1>3, <1>4, <1>5, StateFollows
<1>7. QueueOK' /\ ReadingOK' /\ MapOK' /\ CompletedOK'
  BY <1>2, QuietCall
<1> QED  BY <1>2, <1>6, <1>7 DEF Quiet

\* try_send_remaining sends the rest, or leaves its stream waiting with the
\* call stored.
LEMMA TrySendRemainingContextOK ==
  ASSUME AppInv, SendInv', NEW s \in Streams, TrySendRemaining(s)
  PROVE  ContextOK'
<1> DEFINE rest == request[s].body - request[s].send_offset
           sent == Accepted(engine, s, rest)
           k    == request[s].send_offset + sent
           r    == request[s].retries \/ sent < rest
           y    == Continued(request[s], k, r)
<1>1. SendInv /\ ContextOK /\ AppTypeOK /\ KeysOK /\ ResumptionsOK /\ UnsentOK
  BY DEF AppInv, ContextOK
<1>2. /\ stack # <<>> /\ Head(stack) = Sending(s)
      /\ SendBody(s, rest, TRUE)
      /\ object' = [object EXCEPT ![s] = AfterData(@, sent, rest, TRUE)]
      /\ request' = [request EXCEPT ![s] = y]
      /\ stack' = Tail(stack)
      /\ UNCHANGED <<streams, handles, entries, told>>
  BY DEF TrySendRemaining, InnermostIs, Retries, Continued
<1>3. /\ request[s] \in Requests /\ request[s].body \in Nat /\ request[s].send_offset \in Nat
      /\ request[s].send_offset <= request[s].body /\ request[s].retries \in BOOLEAN
  BY <1>1, AppTypes
<1>4. rest \in Nat
  BY <1>3
<1>5. sent \in Nat /\ sent <= rest
  BY <1>1, <1>4, AcceptedType DEF SendInv, IInv, TypeOK
<1>6. /\ sent # rest => s \in blocked'
      /\ \A t \in Streams : t # s => (t \in blocked => t \in blocked')
  BY <1>1, <1>2, <1>4, BodyQuiet
<1>7. k \in Nat /\ k <= request[s].body /\ (k < request[s].body => sent < rest)
  BY <1>3, <1>5
<1>8. (sent < rest => sent # rest /\ r) /\ r \in BOOLEAN
  BY <1>3, <1>4, <1>5
<1> HIDE DEF k, r
<1>9. /\ y \in Requests /\ y.body = request[s].body /\ y.send_offset = k /\ y.retries = r
      /\ y.completed = request[s].completed /\ y.task = request[s].task
      /\ y.resumptions = request[s].resumptions
  BY <1>3, <1>7, <1>8 DEF Requests, Continued
<1> HIDE DEF y
<1>10. /\ request' \in [Streams -> Requests] /\ request'[s] = y
       /\ \A t \in Streams : t # s => request'[t] = request[t]
  BY <1>1, <1>2, <1>9 DEF AppTypeOK
<1>11. \A t \in Streams :
         /\ request'[t].completed => request[t].completed
         /\ request'[t].task = request[t].task /\ request'[t].resumptions = request[t].resumptions
         /\ request'[t].send_offset <= request'[t].body
  BY <1>1, <1>7, <1>9, <1>10 DEF AppTypeOK
<1>12. /\ object' \in [Streams -> Objects]
       /\ \A t \in Streams : object[t].state # "absent" => object'[t].state # "absent"
       /\ LocalStateOK'
       /\ QueueOK' /\ ReadingOK' /\ MapOK' /\ CompletedOK'
       /\ engine'.role = engine.role
  BY <1>1, <1>2, <1>4, <1>11, BodySent
<1> HIDE DEF sent, rest
<1>13. stack \in Seq(Calls) /\ stack' \in Seq(Calls)
  BY <1>1, <1>2 DEF AppTypeOK
<1>14. \A c : c # Sending(s) /\ Pending(c) => Pending(c)'
  BY <1>2, <1>13, TailPending
<1>15. AppTypeOK'
  <2>1. /\ object' \in [Streams -> Objects]
        /\ \A t \in streams' \union handles' : object'[t].state # "absent"
    BY <1>1, <1>2, <1>12 DEF AppTypeOK, KeysOK
  <2>2. /\ \A t \in entries' : request'[t].task # "none"
        /\ request' \in [Streams -> Requests]
        /\ \A t \in Streams : request'[t].send_offset <= request'[t].body
    BY <1>1, <1>2, <1>10, <1>11 DEF AppTypeOK, KeysOK
  <2>3. stack' \in Seq(Calls) /\ told' \subseteq Streams
    BY <1>1, <1>2, <1>13 DEF AppTypeOK
  <2> QED  BY <2>1, <2>2, <2>3 DEF AppTypeOK
<1>16. KeysOK'
  BY <1>1, <1>2, <1>12 DEF KeysOK
<1>17. ResumptionsOK'
  BY <1>1, <1>2, <1>11, <1>14, CallsDiffer DEF ResumptionsOK
<1>18. UnsentOK'
  <2>1. ASSUME NEW t \in entries', request'[t].send_offset < request'[t].body
        PROVE  Pending(Sending(t))' \/ (t \in blocked' /\ request'[t].retries)
    <3>1. t \in entries /\ t \in Streams
      BY <1>1, <1>2 DEF KeysOK
    <3>2. CASE t = s
      BY <1>6, <1>7, <1>8, <1>9, <1>10, <2>1, <3>2
    <3>3. CASE t # s
      <4>1. request'[t] = request[t]
        BY <1>10, <3>1, <3>3
      <4>2. Pending(Sending(t)) \/ (t \in blocked /\ request[t].retries)
        BY <1>1, <2>1, <3>1, <4>1 DEF UnsentOK
      <4> QED  BY <1>6, <1>14, <3>1, <3>3, <4>1, <4>2, CallsDiffer
    <3> QED  BY <3>2, <3>3
  <2> QED  BY <2>1 DEF UnsentOK
<1> QED  BY <1>12, <1>15, <1>16, <1>17, <1>18 DEF ContextOK

\* A server answers; it has no request of its own.
LEMMA RespondContextOK ==
  ASSUME AppInv, SendInv', NEW s \in Streams, NEW end \in BOOLEAN, Respond(s, end)
  PROVE  ContextOK'
<1> DEFINE o == AfterHeaders(end)
<1>1. SendInv /\ ContextOK /\ AppTypeOK /\ KeysOK /\ LocalStateOK /\ ResumptionsOK /\ UnsentOK
  BY DEF AppInv, ContextOK
<1>2. /\ SendHeaders(s, end) /\ object' = [object EXCEPT ![s] = o]
      /\ UNCHANGED <<streams, handles, entries, request, stack, told>>
  BY DEF Respond
<1>3. /\ Quiet
      /\ local'[s] = IF end THEN "done" ELSE "headers"
      /\ \A t \in Streams : t # s => local'[t] = local[t]
      /\ blocked' = blocked
  BY <1>1, <1>2, HeadersQuiet
<1>4. o \in Objects /\ o.state = IF end THEN "half_closed_local" ELSE "open"
  BY AfterHeadersType
<1> HIDE DEF o
<1>5. /\ object' \in [Streams -> Objects]
      /\ \A t \in Streams : object[t].state # "absent" => object'[t].state # "absent"
      /\ LocalStateOK'
  BY <1>1, <1>2, <1>3, <1>4, StateFollows
<1>6. QueueOK' /\ ReadingOK' /\ MapOK' /\ CompletedOK'
  BY <1>1, <1>2, <1>3, QuietCall
<1>7. AppTypeOK' /\ KeysOK'
  BY <1>1, <1>2, <1>3, <1>5 DEF AppTypeOK, KeysOK, Quiet
<1>8. ResumptionsOK' /\ UnsentOK'
  BY <1>1, <1>2, <1>3 DEF ResumptionsOK, UnsentOK, Pending
<1> QED  BY <1>5, <1>6, <1>7, <1>8 DEF ContextOK

LEMMA RespondBodyContextOK ==
  ASSUME AppInv, SendInv', NEW s \in Streams, NEW n \in Nat, NEW end \in BOOLEAN,
         RespondBody(s, n, end)
  PROVE  ContextOK'
<1>1. SendInv /\ ContextOK /\ AppTypeOK /\ KeysOK /\ ResumptionsOK
  BY DEF AppInv, ContextOK
<1>2. /\ s \in handles /\ SendBody(s, n, end)
      /\ object' = [object EXCEPT ![s] = AfterData(@, Accepted(engine, s, n), n, end)]
      /\ UNCHANGED <<streams, handles, entries, request, stack, told>>
  BY DEF RespondBody
<1>3. /\ object' \in [Streams -> Objects]
      /\ \A t \in Streams : object[t].state # "absent" => object'[t].state # "absent"
      /\ LocalStateOK'
      /\ QueueOK' /\ ReadingOK' /\ MapOK' /\ CompletedOK'
      /\ engine'.role = engine.role
  BY <1>1, <1>2, BodySent
<1>4. AppTypeOK' /\ KeysOK'
  BY <1>1, <1>2, <1>3 DEF AppTypeOK, KeysOK
<1>5. ResumptionsOK'
  BY <1>1, <1>2 DEF ResumptionsOK, Pending
<1>6. UnsentOK'
  <2>1. entries = {}
    BY <1>1, <1>2 DEF KeysOK
  <2> QED  BY <1>2, <2>1 DEF UnsentOK
<1> QED  BY <1>3, <1>4, <1>5, <1>6 DEF ContextOK

\* The transport does not touch the application, nor what it sent.
LEMMA TrafficContextOK ==
  ASSUME AppInv, SendInv', Traffic
  PROVE  ContextOK'
<1>1. SendInv /\ ContextOK /\ QueueOK /\ MapOK /\ CompletedOK /\ ReadingOK
  BY DEF AppInv, ContextOK
<1>2. UNCHANGED <<object, streams, handles, entries, request, stack, told>>
  BY DEF Traffic, appVars
<1>3. Arrived
  BY <1>1, TrafficArrived
<1>4. QueueOK' /\ MapOK' /\ CompletedOK' /\ ReadingOK'
  BY <1>1, <1>2, <1>3, ArrivedQueue, ArrivedMap, ArrivedCompleted DEF Arrived
<1>5. local' = local /\ blocked' = blocked
  BY DEF Traffic, Transport, Transmit, Preface, ReadFrameHeader, ReadPayload, DecodeThrows
<1>6. engine'.role = engine.role
  BY <1>1, TrafficRole
<1> QED  BY <1>1, <1>2, <1>4, <1>5, <1>6
         DEF ContextOK, AppTypeOK, KeysOK, ResumptionsOK, UnsentOK, Pending, LocalStateOK

----------------------------------------------------------------------------
(* The steps of the application and of the transport.                      *)

\* The length that try_send_remaining offers.
LEMMA RestType ==
  ASSUME AppTypeOK, NEW s \in Streams
  PROVE  request[s].body - request[s].send_offset \in Nat
<1>1. /\ request[s].body \in Nat /\ request[s].send_offset \in Nat
      /\ request[s].send_offset <= request[s].body
  BY AppTypes
<1> QED  BY <1>1

\* What the application does to its engine is what any application may do,
\* but for the length that try_send_remaining offers.
LEMMA NextOrSending ==
  ASSUME [AppNext]_allVars
  PROVE  [Next]_vars \/ \E s \in Streams : TrySendRemaining(s)
<1>1. OpenRequest \/ Pump \/ Traffic => Next
  BY DEF OpenRequest, Pump, Traffic, Next, Application, Transport
<1>2. ASSUME NEW s \in Streams, NEW n \in BodySizes, Execute(s, n) PROVE Next
  <2>1. SendHeaders(s, n = 0) /\ (n = 0) \in BOOLEAN
    BY <1>2 DEF Execute
  <2> QED  BY <2>1 DEF Next, Application
<1>3. ASSUME NEW s \in Streams, NEW end \in BOOLEAN, Respond(s, end) PROVE Next
  BY <1>3 DEF Respond, Next, Application
<1>4. ASSUME NEW s \in Streams, NEW n \in SendSizes, NEW end \in BOOLEAN, RespondBody(s, n, end)
      PROVE  Next
  BY <1>4 DEF RespondBody, Next, Application
<1>5. ASSUME \/ \E s \in Streams : Await(s) \/ Return(s)
             \/ UNCHANGED allVars
      PROVE  UNCHANGED vars
  BY <1>5 DEF Await, Return, allVars
<1> QED  BY <1>1, <1>2, <1>3, <1>4, <1>5 DEF AppNext, Calling

LEMMA AppNextSendInv ==
  ASSUME AppInv, [AppNext]_allVars
  PROVE  SendInv'
<1>1. SendInv /\ ContextOK
  BY DEF AppInv
<1>2. ASSUME NEW s \in Streams, TrySendRemaining(s) PROVE SendInv'
  <2> DEFINE rest == request[s].body - request[s].send_offset
  <2>1. rest \in Nat
    BY <1>1, RestType DEF ContextOK
  <2>2. SendBody(s, rest, TRUE)
    BY <1>2 DEF TrySendRemaining
  <2> HIDE DEF rest
  <2>3. IInv'
    BY <1>1, <2>1, <2>2, SendBodyIInv DEF SendInv
  <2>4. TypeOK'
    BY <2>3 DEF IInv
  <2>5. SendOK'
    BY <1>1, <2>1, <2>2, <2>4, SendBodySendOK
  <2> QED  BY <2>3, <2>5 DEF SendInv
<1> QED  BY <1>1, <1>2, NextOrSending, NextSendInv

LEMMA AppNextInv == AppInv /\ [AppNext]_allVars => AppInv'
<1> SUFFICES ASSUME AppInv, [AppNext]_allVars PROVE AppInv'
  OBVIOUS
<1>1. SendInv'
  BY AppNextSendInv
<1>2. ASSUME NEW s \in Streams, NEW n \in SendSizes, NEW end \in BOOLEAN, RespondBody(s, n, end)
      PROVE  ContextOK'
  BY <1>1, <1>2, SizesAssumption, RespondBodyContextOK
<1>3. ASSUME UNCHANGED allVars PROVE ContextOK'
  <2>1. ContextOK /\ AppTypeOK /\ KeysOK /\ ResumptionsOK /\ UnsentOK /\ LocalStateOK
    BY DEF AppInv, ContextOK
  <2>2. /\ UNCHANGED <<engine, frame, local, blocked, ended>>
        /\ UNCHANGED <<object, streams, handles, entries, request, stack, told>>
    BY <1>3 DEF allVars, vars, appVars
  <2>3. QueueOK' /\ ReadingOK' /\ MapOK' /\ CompletedOK'
    <3>1. Quiet
      BY <2>2 DEF Quiet, InUse
    <3> QED  BY <2>1, <2>2, <3>1, QuietCall
  <2>4. AppTypeOK' /\ KeysOK' /\ LocalStateOK'
    BY <2>1, <2>2 DEF AppTypeOK, KeysOK, LocalStateOK
  <2>5. ResumptionsOK' /\ UnsentOK'
    BY <2>1, <2>2 DEF ResumptionsOK, UnsentOK, Pending
  <2> QED  BY <2>3, <2>4, <2>5 DEF ContextOK
<1>4. ContextOK'
  BY <1>1, <1>2, <1>3, OpenRequestContextOK, ExecuteContextOK, RespondContextOK,
     TrySendRemainingContextOK, AwaitContextOK, ReturnContextOK, PumpContextOK, TrafficContextOK
  DEF AppNext, Calling
<1> QED  BY <1>1, <1>4 DEF AppInv

LEMMA InitAppInv == AppInit => AppInv
<1> SUFFICES ASSUME AppInit PROVE AppInv
  OBVIOUS
<1>1. /\ Init
      /\ object = [s \in Streams |-> [state |-> "absent", headers_sent |-> FALSE]]
      /\ streams = {} /\ handles = {} /\ entries = {}
      /\ request = [s \in Streams |-> NoRequest]
      /\ stack = <<>> /\ told = {}
  BY DEF AppInit
<1>2. SendInv
  BY <1>1, InitIInv, InitSendOK DEF SendInv
<1>3. /\ engine.event_queue = <<>> /\ \A s \in Streams : ~engine.flow[s].known
      /\ frame = NoFrame /\ local = [s \in Streams |-> "none"] /\ ended = {}
  <2>1. PICK role \in Roles, cb \in BOOLEAN : engine = NewEngine(role, cb)
    BY <1>1 DEF Init
  <2> QED  BY <1>1, <2>1 DEF Init, NewEngine, Untracked
<1>4. DOMAIN engine.event_queue = {}
  BY <1>3
<1>5. /\ [state |-> "absent", headers_sent |-> FALSE] \in Objects
      /\ NoRequest \in Requests /\ NoRequest.send_offset <= NoRequest.body
      /\ NoRequest.resumptions = 0 /\ ~NoRequest.completed
  <2>1. [state |-> "absent", headers_sent |-> FALSE] \in Objects
    BY DEF Objects, StreamStates
  <2> DEFINE x == NewRequest(0)
  <2>2. /\ x \in Requests /\ x.body = 0 /\ x.send_offset = 0
        /\ x.resumptions = 0 /\ ~x.completed
    BY DEF NewRequest, Requests
  <2>3. NoRequest = [x EXCEPT !.task = "none"]
    BY DEF NoRequest
  <2> HIDE DEF x
  <2> QED  BY <2>1, <2>2, <2>3 DEF Requests
<1>6. AppTypeOK /\ KeysOK
  BY <1>1, <1>5 DEF AppTypeOK, KeysOK
<1>7. QueueOK /\ MapOK /\ ReadingOK
  BY <1>3, <1>4 DEF QueueOK, MapOK, ReadingOK, InUse, NoFrame, Frame
<1>8. CompletedOK /\ ResumptionsOK /\ UnsentOK
  BY <1>1, <1>5 DEF CompletedOK, ResumptionsOK, UnsentOK
<1>9. LocalStateOK
  BY <1>1, <1>3 DEF LocalStateOK
<1> QED  BY <1>2, <1>6, <1>7, <1>8, <1>9 DEF AppInv, ContextOK

\* The engine, the maps and the coroutines keep their invariant together.
THEOREM AppInvariance == AppSpec => []AppInv
<1> QED  BY InitAppInv, AppNextInv, PTL DEF AppSpec

----------------------------------------------------------------------------
(* Streams the application knows, knew or is about to know.                *)

Met(s) == s \in streams \/ s \in told \/ Announces(s)

\* A stream that has a flow state, an event in the queue or a frame being read
\* was met; HEADERS may be the first of their stream.
MetOK ==
  /\ \A s \in Streams : local[s] # "none" \/ engine.flow[s].tracked => Met(s)
  /\ \A i \in DOMAIN engine.event_queue :
       engine.event_queue[i].type # "new_stream" /\ engine.event_queue[i].stream # 0
         => Met(engine.event_queue[i].stream)
  /\ \A i \in DOMAIN engine.event_queue :
       engine.event_queue[i].type = "new_stream"
         => engine.event_queue[i] = Event("new_stream", engine.event_queue[i].stream, 0)
  /\ frame.stream # 0 /\ frame.type # "headers" => Met(frame.stream)

\* A stream that ended was opened before.
ToldOK == \A s \in told : local[s] # "none"

MeetingInv == AppInv /\ MetOK /\ ToldOK /\ StateMatchesWire

\* The events that g has and e has not announce a stream or name one of S.
Names(e, g, S) ==
  \A i \in Len(e.event_queue) + 1 .. Len(g.event_queue) :
    \/ g.event_queue[i] = Event("new_stream", g.event_queue[i].stream, 0)
    \/ g.event_queue[i].type # "new_stream" /\ g.event_queue[i].stream \in S

LEMMA AddsNames ==
  ASSUME NEW e, NEW g, NEW S, NEW T, Adds(e, g, S), S \subseteq T
  PROVE  Names(e, g, T)
  BY DEF Adds, Names

\* A frame wakes its own stream, or streams that have a flow state.
LEMMA WokenTracked ==
  ASSUME NEW e, NEW f
  PROVE  Woken(e, f) \subseteq Tracked(e) \union {f.stream}
  BY DEF Woken, WokenByConnection, WokenByStream, WokenBySettings

\* The events of a frame name its stream, the connection, or streams that have
\* a flow state.
LEMMA ChunkNames ==
  ASSUME NEW e \in EngineSet, NEW f \in PeerFrames, NEW n \in Nat,
         NEW q \in IterationOrders(Woken(e, f)), Signalled(e)
  PROVE  Names(e, HandlePayloadChunk(e, f, n, q), Tracked(e) \union {f.stream, 0})
<1> DEFINE g == HandlePayloadChunk(e, f, n, q)
           T == Tracked(e) \union {f.stream, 0}
<1>1. /\ f \in FrameSet /\ f.val \in Nat
      /\ f.type \in {"data", "headers", "rst_stream"} => f.stream \in Streams
      /\ f.type = "goaway" => f.val \in 0 .. 2
  BY PeerAssumption DEF FrameSet
<1>2. Woken(e, f) \union {0} \subseteq T /\ {f.stream, 0} \subseteq T /\ {f.stream} \subseteq T
  BY WokenTracked
<1> HIDE DEF T
<1>3. CASE f.type = "data"
  <2>1. g = ReceiveData(e, f, n)
    BY <1>3 DEF HandlePayloadChunk
  <2> HIDE DEF g
  <2>2. Adds(e, g, {f.stream, 0})
    BY <1>1, <1>3, <2>1, ReceiveDataEffect
  <2> QED  BY <1>2, <2>2, AddsNames DEF g, T
<1>4. CASE f.type = "headers"
  <2> DEFINE a   == Announce(e, f.stream)
             new == Event("new_stream", f.stream, 0)
  <2>1. /\ a \in EngineSet
        /\ a.event_queue = e.event_queue \/ a.event_queue = Append(e.event_queue, new)
    BY <1>1, <1>4, AnnounceLemma, AnnounceEffect
  <2>2. g = ReceiveHeaders(e, f)
    BY <1>4 DEF HandlePayloadChunk
  <2>3. Adds(a, g, {f.stream})
    BY <1>1, <1>4, <2>2, ReceiveHeadersEffect
  <2>4. new.stream = f.stream
    BY DEF Event
  <2>5. e.event_queue \in Seq(EventSet) /\ g \in EngineSet
    <3>1. g \in EngineSet
      BY <1>1, <1>4, OtherPayloadLemma
    <3> QED  BY <3>1, MemberTypes
  <2> HIDE DEF a, new, g
  <2>6. ASSUME NEW i \in Len(e.event_queue) + 1 .. Len(g.event_queue)
        PROVE  \/ g.event_queue[i] = Event("new_stream", g.event_queue[i].stream, 0)
               \/ g.event_queue[i].type # "new_stream" /\ g.event_queue[i].stream \in T
    <3>1. Len(g.event_queue) \in Nat /\ Len(a.event_queue) \in Nat /\ Len(e.event_queue) \in Nat
      BY <2>1, <2>5, QueueLength
    <3>2. CASE i \in Len(a.event_queue) + 1 .. Len(g.event_queue)
      BY <1>2, <2>3, <3>2 DEF Adds
    <3>3. CASE i \notin Len(a.event_queue) + 1 .. Len(g.event_queue)
      <4>1. i <= Len(a.event_queue) /\ i > Len(e.event_queue)
        BY <3>1, <3>3
      <4>2. a.event_queue = Append(e.event_queue, new)
        BY <2>1, <4>1, <3>1
      <4>3. a.event_queue[i] = new /\ i \in 1 .. Len(a.event_queue)
        BY <2>5, <3>1, <4>1, <4>2
      <4>4. g.event_queue[i] = new
        BY <2>3, <4>3 DEF Adds
      <4> QED  BY <2>4, <4>4 DEF new
    <3> QED  BY <3>2, <3>3
  <2> QED  BY <2>6 DEF Names, T, g
<1>5. CASE f.type = "rst_stream"
  <2>1. Adds(e, g, {f.stream})
    BY <1>1, <1>5, ResetEffect DEF HandlePayloadChunk
  <2> HIDE DEF g
  <2> QED  BY <1>2, <2>1, AddsNames DEF g, T
<1>6. CASE f.type = "settings"
  <2>1. Woken(e, f) = WokenBySettings(e, f.val) /\ g = ApplyPeerInitialWindowSize(e, f.val, q)
    BY <1>6 DEF Woken, HandlePayloadChunk
  <2> HIDE DEF g
  <2>2. Adds(e, g, WokenBySettings(e, f.val))
    BY <1>1, <2>1, ApplyPeerInitialWindowSizeEffect
  <2> QED  BY <1>2, <2>1, <2>2, AddsNames DEF g, T
<1>7. CASE f.type = "goaway"
  <2>1. g = HandleGoaway(e, f)
    BY <1>7 DEF HandlePayloadChunk
  <2> HIDE DEF g
  <2>2. Adds(e, g, {0}) /\ {0} \subseteq T
    BY <1>1, <1>2, <1>7, <2>1, HandleGoawayEffect
  <2> QED  BY <2>2, AddsNames DEF g, T
<1>8. CASE f.type = "window_update"
  <2>1. g = HandleWindowUpdate(e, f, q)
    BY <1>8 DEF HandlePayloadChunk
  <2> HIDE DEF g
  <2>2. Adds(e, g, Woken(e, f) \union {0})
    BY <1>1, <1>8, <2>1, HandleWindowUpdateEffect
  <2> QED  BY <1>2, <2>2, AddsNames DEF g, T
<1>9. CASE f.type \notin {"data", "headers", "rst_stream", "settings", "goaway", "window_update"}
  <2>1. g = e
    BY <1>9 DEF HandlePayloadChunk
  <2>2. Len(e.event_queue) \in Nat
    BY QueueLength
  <2> QED  BY <2>1, <2>2 DEF Names
<1> QED  BY <1>3, <1>4, <1>5, <1>6, <1>7, <1>8, <1>9

\* Streams that were met before a step of the transport stay so; what it
\* brings is of streams that were met.
LEMMA TransportMeets ==
  ASSUME MeetingInv, SendInv', Lengthens(engine, engine'), UNCHANGED <<local, streams, told>>,
         NEW S, Names(engine, engine', S),
         \A s \in Streams : s \in S => Met(s)',
         S \subseteq Streams \union {0},
         \A s \in Streams : engine'.flow[s].tracked => engine.flow[s].tracked \/ s \in S,
         \A s : s = frame'.stream /\ s # 0 /\ frame'.type # "headers" => Met(s)'
  PROVE  MetOK' /\ ToldOK'
<1>1. SendInv /\ MetOK /\ ToldOK
  BY DEF MeetingInv, AppInv
<1>2. /\ \A j \in DOMAIN engine'.event_queue :
           \/ j \in DOMAIN engine.event_queue /\ engine'.event_queue[j] = engine.event_queue[j]
           \/ j \in Len(engine.event_queue) + 1 .. Len(engine'.event_queue)
      /\ \A s : Announces(s) => Announces(s)'
  BY <1>1, QueuedBefore
<1>3. \A s : Met(s) => Met(s)'
  BY <1>2 DEF Met
<1>4. \A s \in Streams : local'[s] # "none" \/ engine'.flow[s].tracked => Met(s)'
  BY <1>1, <1>3 DEF MetOK
<1>5. ASSUME NEW j \in DOMAIN engine'.event_queue,
             engine'.event_queue[j].type # "new_stream",
             NEW s, s = engine'.event_queue[j].stream, s # 0
      PROVE  Met(s)'
  <2>1. CASE j \in DOMAIN engine.event_queue /\ engine'.event_queue[j] = engine.event_queue[j]
    <3>1. Met(s)
      BY <1>1, <1>5, <2>1 DEF MetOK
    <3> QED  BY <1>3, <3>1
  <2>2. CASE j \in Len(engine.event_queue) + 1 .. Len(engine'.event_queue)
    <3>1. engine'.event_queue[j].stream \in S
      <4>1. engine'.event_queue[j] # Event("new_stream", s, 0)
        BY <1>5 DEF Event
      <4> QED  BY <1>5, <2>2, <4>1 DEF Names
    <3> QED  BY <1>5, <3>1
  <2> QED  BY <1>2, <2>1, <2>2
<1>6. \A j \in DOMAIN engine'.event_queue :
        engine'.event_queue[j].type # "new_stream" =>
          \A s : s = engine'.event_queue[j].stream /\ s # 0 => Met(s)'
  BY <1>5
<1>7. \A j \in DOMAIN engine'.event_queue :
        engine'.event_queue[j].type = "new_stream"
          => engine'.event_queue[j] = Event("new_stream", engine'.event_queue[j].stream, 0)
  BY <1>1, <1>2 DEF MetOK, Names
<1>8. MetOK'
  BY <1>4, <1>6, <1>7 DEF MetOK, Met, Announces
<1>9. ToldOK'
  BY <1>1 DEF ToldOK
<1> QED  BY <1>8, <1>9

\* Only streams with a flow state are known.
LEMMA TrackedMet ==
  ASSUME MeetingInv, NEW s \in Streams, InUse(s) \/ engine.flow[s].tracked
  PROVE  Met(s)
<1>1. KnownOK /\ MetOK
  BY DEF MeetingInv, AppInv, SendInv, SendOK, StreamsOK
<1> QED  BY <1>1 DEF KnownOK, MetOK, InUse

\* What the transport reads meets no stream but those it announces.
LEMMA TrafficMeets ==
  ASSUME MeetingInv, SendInv', Traffic
  PROVE  MetOK' /\ ToldOK'
<1>1. /\ SendInv /\ ContextOK /\ MetOK /\ ToldOK /\ ReadingOK
      /\ engine \in EngineSet /\ Signalled(engine) /\ engine' \in EngineSet
      /\ payload_bytes_read \in Nat /\ frame \in PeerFrames \union {NoFrame}
  BY DEF MeetingInv, AppInv, ContextOK, SendInv, SendOK, IInv, TypeOK
<1>2. UNCHANGED <<streams, told>> /\ local' = local
  BY DEF Traffic, appVars, Transport, Transmit, Preface, ReadFrameHeader, ReadPayload, DecodeThrows
<1>3. Lengthens(engine, engine') /\ \A s : Announces(s) => Announces(s)'
  BY <1>1, TrafficArrived, QueuedBefore DEF Arrived
<1>4. \A s : Met(s) => Met(s)'
  BY <1>2, <1>3 DEF Met
<1>5. NoFrame.stream = 0
  BY DEF NoFrame, Frame
<1>6. ASSUME NEW k \in 1 .. Len(engine.pending_out), Transmit(k)
      PROVE  MetOK' /\ ToldOK'
  <2>1. engine' = OutputEnd(engine, k) /\ frame' = frame
    BY <1>6 DEF Transmit
  <2>2. engine'.flow = engine.flow /\ engine'.event_queue = engine.event_queue
    BY <1>1, <2>1, OutputEndEffect DEF SameSending
  <2>3. Len(engine.event_queue) \in Nat
    BY <1>1, QueueLength
  <2>4. Names(engine, engine', {})
    BY <2>2, <2>3 DEF Names
  <2> QED  BY <1>1, <1>2, <1>3, <1>4, <2>1, <2>2, <2>4, TransportMeets DEF MetOK
<1>7. ASSUME NEW valid \in BOOLEAN, Preface(valid)
      PROVE  MetOK' /\ ToldOK'
  <2>1. engine' = ReceivePreface(engine, valid) /\ frame' = frame
    BY <1>7 DEF Preface
  <2>2. engine'.flow = engine.flow /\ Adds(engine, engine', {0})
    BY <1>1, <2>1, ReceivePrefaceEffect DEF SameSending
  <2>3. Names(engine, engine', {0}) /\ 0 \notin Streams
    BY <2>2, AddsNames, StreamsAssumption
  <2> QED  BY <1>1, <1>2, <1>3, <1>4, <2>1, <2>2, <2>3, TransportMeets DEF MetOK
<1>8. ASSUME NEW f \in PeerFrames, ReadFrameHeader(f)
      PROVE  MetOK' /\ ToldOK'
  <2>1. /\ PeerMaySend(f) /\ engine' = HandleFrameHeader(engine, f)
        /\ frame' = IF f.len = 0 THEN NoFrame ELSE f
    BY <1>8 DEF ReadFrameHeader
  <2>2. f \in FrameSet /\ f.stream \in Streams \union {0} /\ f.len \in Nat
    BY PeerAssumption DEF FrameSet
  <2>3. engine'.flow = engine.flow /\ Adds(engine, engine', {f.stream})
    BY <1>1, <2>1, <2>2, HandleFrameHeaderEffect DEF SameSending
  <2>4. f.stream # 0 /\ f.type # "headers" => Met(f.stream)
    BY <2>1, <2>2, TrackedMet DEF PeerMaySend, InUse
  <2>5. CASE f.type = "headers"
    <3>1. f.len # 0
      BY <2>2, <2>5, BlockAssumption
    <3>2. engine'.event_queue = engine.event_queue
      BY <1>1, <2>1, <3>1, HandleFrameHeaderArrives
    <3>3. Len(engine.event_queue) \in Nat
      BY <1>1, QueueLength
    <3>4. Names(engine, engine', {})
      BY <3>2, <3>3 DEF Names
    <3> QED  BY <1>1, <1>2, <1>3, <2>1, <2>3, <2>5, <3>1, <3>4, TransportMeets
  <2>6. CASE f.type # "headers"
    <3>1. Names(engine, engine', {f.stream, 0})
      BY <2>3, AddsNames
    <3>2. \A s : s = f.stream /\ s # 0 => Met(s)'
      BY <1>4, <2>4, <2>6
    <3>3. \A s : s = frame'.stream /\ s # 0 => Met(s)'
      BY <1>5, <2>1, <3>2
    <3>4. 0 \notin Streams
      BY StreamsAssumption
    <3> QED  BY <1>1, <1>2, <1>3, <2>2, <2>3, <3>1, <3>2, <3>3, <3>4, TransportMeets
  <2> QED  BY <2>5, <2>6
\* The stream of the frame that is read is met once the chunk is handled.
<1>9. ASSUME frame \in PeerFrames, frame.type = "headers",
             engine' = Announce(engine, frame.stream) \/ engine' = ReceiveHeaders(engine, frame)
      PROVE  \A s : s = frame.stream => Met(s)'
  <2>1. frame.stream \in Streams \ ended /\ frame \in FrameSet
    BY <1>1, <1>9, PeerAssumption DEF ReadingOK
  <2>2. InUse(frame.stream) \/ Unannounced(engine, frame.stream)
    BY <1>1, <2>1, FrameInUse
  <2>3. CASE InUse(frame.stream)
    BY <1>4, <2>1, <2>3, TrackedMet
  <2>4. CASE Unannounced(engine, frame.stream)
    <3>1. \E i \in DOMAIN engine'.event_queue :
            engine'.event_queue[i] = Event("new_stream", frame.stream, 0)
      BY <1>1, <1>9, <2>1, <2>4, HeadersAnnounce
    <3> QED  BY <3>1 DEF Met, Announces
  <2> QED  BY <2>2, <2>3, <2>4
<1>10. ASSUME NEW n \in 1 .. frame.len - payload_bytes_read,
              NEW q \in IterationOrders(Woken(engine, frame)), ReadPayload(n, q)
       PROVE  MetOK' /\ ToldOK'
  <2> DEFINE S == Tracked(engine) \union {frame.stream, 0}
  <2>1. /\ frame \in PeerFrames /\ n \in Nat /\ frame' \in {frame, NoFrame}
        /\ engine' = HandlePayloadChunk(engine, frame, n, q)
    BY <1>1, <1>10 DEF ReadPayload
  <2>2. Names(engine, engine', S)
    BY <1>1, <2>1, ChunkNames
  <2>3. \A s \in Streams : engine'.flow[s].tracked => engine.flow[s].tracked \/ s = frame.stream
    BY <1>1, <2>1, ChunkEnters
  <2>4. \A s : s = frame.stream /\ s # 0 => Met(s)'
    <3>1. CASE frame.type = "headers"
      <4>1. engine' = ReceiveHeaders(engine, frame)
        BY <2>1, <3>1 DEF HandlePayloadChunk
      <4> QED  BY <1>9, <2>1, <3>1, <4>1
    <3>2. CASE frame.type # "headers"
      BY <1>1, <1>4, <3>2 DEF MetOK
    <3> QED  BY <3>1, <3>2
  <2>5. \A s : s = frame'.stream /\ s # 0 => Met(s)'
    BY <1>5, <2>1, <2>4
  <2>6. S \subseteq Streams \union {0} /\ 0 \notin Streams
    BY <2>1, PeerAssumption, StreamsAssumption DEF Tracked, FrameSet
  <2>7. \A s \in Streams : s \in S => Met(s)'
    BY <1>4, <2>4, <2>6, TrackedMet DEF Tracked
  <2>8. \A s \in Streams : engine'.flow[s].tracked => engine.flow[s].tracked \/ s \in S
    BY <2>3
  <2> HIDE DEF S
  <2> QED  BY <1>1, <1>2, <1>3, <2>2, <2>5, <2>6, <2>7, <2>8, TransportMeets
<1>11. ASSUME DecodeThrows
       PROVE  MetOK' /\ ToldOK'
  <2>1. frame.type = "headers" /\ engine' = Announce(engine, frame.stream) /\ frame' = frame
    BY <1>11 DEF DecodeThrows
  <2>2. frame \in PeerFrames /\ frame.stream \in Streams
    BY <1>1, <2>1, PeerAssumption DEF NoFrame, Frame
  <2>3. \A s : s = frame.stream => Met(s)'
    BY <1>9, <2>1, <2>2
  <2>4. /\ \A t \in Streams \ {frame.stream} : SameStream(engine, engine', t)
        /\ engine'.event_queue = IF Unannounced(engine, frame.stream)
                                 THEN Append(engine.event_queue, Event("new_stream", frame.stream, 0))
                                 ELSE engine.event_queue
    BY <1>1, <2>1, <2>2, AnnounceEffect
  <2>5. Names(engine, engine', {frame.stream})
    <3>1. engine.event_queue \in Seq(EventSet)
      BY <1>1, MemberTypes
    <3>2. Event("new_stream", frame.stream, 0).stream = frame.stream
      BY DEF Event
    <3> QED  BY <2>4, <3>1, <3>2 DEF Names
  <2>6. \A s \in Streams : engine'.flow[s].tracked => engine.flow[s].tracked \/ s \in {frame.stream}
    BY <2>4 DEF SameStream
  <2> QED  BY <1>1, <1>2, <1>3, <2>1, <2>2, <2>3, <2>5, <2>6, TransportMeets
<1> QED  BY <1>6, <1>7, <1>8, <1>10, <1>11 DEF Traffic, Transport

\* A call brings only streams of the map into use, and says nothing new.
LEMMA CallMeets ==
  ASSUME MetOK, ToldOK, engine'.event_queue = engine.event_queue, frame' = frame, told' = told,
         streams \subseteq streams',
         \A s \in Streams : local[s] # "none" => local'[s] # "none",
         \A s \in Streams :
           local'[s] # "none" \/ engine'.flow[s].tracked
             => local[s] # "none" \/ engine.flow[s].tracked \/ s \in streams',
         told \subseteq Streams
  PROVE  MetOK' /\ ToldOK'
<1>1. \A s : Met(s) => Met(s)'
  BY DEF Met, Announces
<1>2. \A s \in Streams : local'[s] # "none" \/ engine'.flow[s].tracked => Met(s)'
  BY <1>1 DEF MetOK, Met
<1>3. \A s : s = frame'.stream /\ s # 0 /\ frame'.type # "headers" => Met(s)'
  BY <1>1 DEF MetOK
<1>4. \A j \in DOMAIN engine'.event_queue :
        engine'.event_queue[j].type # "new_stream" =>
          \A s : s = engine'.event_queue[j].stream /\ s # 0 => Met(s)'
  BY <1>1 DEF MetOK
<1>5. \A j \in DOMAIN engine'.event_queue :
        engine'.event_queue[j].type = "new_stream"
          => engine'.event_queue[j] = Event("new_stream", engine'.event_queue[j].stream, 0)
  BY DEF MetOK
<1>6. MetOK'
  BY <1>2, <1>3, <1>4, <1>5 DEF MetOK, Met, Announces
<1>7. ToldOK'
  BY DEF ToldOK
<1> QED  BY <1>6, <1>7

\* Handles of other streams stay in agreement.
LEMMA OneHandle ==
  ASSUME StateMatchesWire, NEW s \in Streams,
         \A t \in Streams : t # s => /\ object'[t] = object[t] /\ local'[t] = local[t]
                                     /\ (t \in streams' => t \in streams)
                                     /\ (t \in told' <=> t \in told),
         NEW x, x = object'[s].state,
         x = "idle" => local'[s] = "open",
         x \in {"open", "half_closed_remote"} => local'[s] = "headers",
         x = "half_closed_local" => local'[s] = "done",
         x \in {"half_closed_remote", "closed"} => s \in told',
         s \in streams' /\ s \in told' => x \in {"half_closed_remote", "half_closed_local"}
  PROVE  StateMatchesWire'
  BY DEF StateMatchesWire

\* A stream is opened once.
LEMMA OpenRequestMeets ==
  ASSUME MeetingInv, OpenRequest
  PROVE  MetOK' /\ ToldOK' /\ StateMatchesWire'
<1> DEFINE s == engine.next_stream_id
<1>1. SendInv /\ AppTypeOK /\ MetOK /\ ToldOK /\ StateMatchesWire /\ ClientOK
  BY DEF MeetingInv, AppInv, ContextOK, SendInv, SendOK, StreamsOK
<1>2. engine \in EngineSet /\ Signalled(engine)
      /\ local \in [Streams -> {"none", "open", "headers", "done"}]
  BY <1>1 DEF SendInv, SendOK, IInv, TypeOK
<1>3. /\ s \in Streams /\ engine' = OpenStream(engine) /\ engine.role = "client"
      /\ local' = [local EXCEPT ![s] = "open"]
      /\ object' = [object EXCEPT ![s] = NewObject]
      /\ streams' = streams \union {s}
      /\ frame' = frame /\ told' = told
  BY DEF OpenRequest, Open
<1>4. /\ engine'.event_queue = engine.event_queue
      /\ \A t \in Streams \ {s} : SameStream(engine, engine', t)
  BY <1>2, <1>3, OpenStreamEffect
<1>5. s \notin told
  <2>1. local[s] # "none" => s \in Nat /\ s < s
    BY <1>1, <1>3 DEF ClientOK
  <2>2. local[s] = "none"
    BY <2>1
  <2> QED  BY <1>1, <2>2 DEF ToldOK
<1> HIDE DEF s
<1>6. /\ local'[s] = "open" /\ object'[s] = NewObject
      /\ \A t \in Streams : t # s => local'[t] = local[t] /\ object'[t] = object[t]
  BY <1>1, <1>2, <1>3 DEF AppTypeOK
<1>7. NewObject.state = "idle"
  BY DEF NewObject
<1>8. \A t \in Streams :
        local'[t] # "none" \/ engine'.flow[t].tracked
          => local[t] # "none" \/ engine.flow[t].tracked \/ t \in streams'
  BY <1>3, <1>4, <1>6 DEF SameStream
<1>9. MetOK' /\ ToldOK'
  BY <1>1, <1>3, <1>4, <1>6, <1>8, CallMeets DEF AppTypeOK
<1>10. StateMatchesWire'
  BY <1>1, <1>3, <1>5, <1>6, <1>7, OneHandle
<1> QED  BY <1>9, <1>10

\* Headers are sent on a handle that no event moved.
LEMMA HeadersMeet ==
  ASSUME MeetingInv, NEW s \in Streams, NEW end \in BOOLEAN, SendHeaders(s, end),
         object' = [object EXCEPT ![s] = AfterHeaders(end)],
         streams' = streams, told' = told
  PROVE  MetOK' /\ ToldOK' /\ StateMatchesWire'
<1>1. SendInv /\ AppTypeOK /\ MetOK /\ ToldOK /\ StateMatchesWire
  BY DEF MeetingInv, AppInv, ContextOK
<1>2. /\ Quiet /\ local[s] = "open"
      /\ local'[s] = IF end THEN "done" ELSE "headers"
      /\ \A t \in Streams : t # s => local'[t] = local[t]
  BY <1>1, HeadersQuiet
<1>3. engine'.flow = engine.flow
  <2>1. engine \in EngineSet /\ Signalled(engine)
    BY <1>1 DEF SendInv, SendOK, IInv, TypeOK
  <2> QED  BY <2>1, SendHeadersEffect DEF SendHeaders, SameSending
<1>4. MetOK' /\ ToldOK'
  BY <1>1, <1>2, <1>3, CallMeets DEF AppTypeOK, Quiet
<1>5. AfterHeaders(end).state = IF end THEN "half_closed_local" ELSE "open"
  BY AfterHeadersType
<1>6. /\ object'[s] = AfterHeaders(end)
      /\ \A t \in Streams : t # s => object'[t] = object[t]
  BY <1>1 DEF AppTypeOK
<1>7. s \notin streams \intersect told
  BY <1>1, <1>2 DEF StateMatchesWire
<1>8. StateMatchesWire'
  BY <1>1, <1>2, <1>5, <1>6, <1>7, OneHandle
<1> QED  BY <1>4, <1>8

\* A body ends the local side, and no other.
LEMMA BodyMeets ==
  ASSUME MeetingInv, NEW s \in Streams, NEW n \in Nat, NEW end \in BOOLEAN, SendBody(s, n, end),
         object' = [object EXCEPT ![s] = AfterData(@, Accepted(engine, s, n), n, end)],
         streams' = streams, told' = told
  PROVE  MetOK' /\ ToldOK' /\ StateMatchesWire'
<1> DEFINE sent == Accepted(engine, s, n)
           o    == AfterData(object[s], sent, n, end)
<1>1. SendInv /\ AppTypeOK /\ MetOK /\ ToldOK /\ StateMatchesWire
  BY DEF MeetingInv, AppInv, ContextOK
<1>2. /\ Quiet
      /\ local'[s] = IF sent = n /\ end THEN "done" ELSE local[s]
      /\ \A t \in Streams : t # s => local'[t] = local[t]
  BY <1>1, BodyQuiet
<1>3. local[s] = "headers" /\ engine' = SendData(engine, s, n, end)
  BY DEF SendBody
<1>4. \A t \in Streams \ {s} : SameStream(engine, engine', t)
  <2>1. engine \in EngineSet /\ Signalled(engine)
    BY <1>1 DEF SendInv, SendOK, IInv, TypeOK
  <2> QED  BY <1>3, <2>1, SendDataEffect DEF Spent
<1>5. MetOK' /\ ToldOK'
  <2>1. \A t \in Streams :
          local'[t] # "none" \/ engine'.flow[t].tracked => local[t] # "none" \/ engine.flow[t].tracked
    BY <1>2, <1>3, <1>4 DEF SameStream
  <2>2. \A t \in Streams : local[t] # "none" => local'[t] # "none"
    BY <1>2
  <2> QED  BY <1>1, <1>2, <2>1, <2>2, CallMeets DEF AppTypeOK, Quiet
<1> HIDE DEF sent
<1>6. object[s] \in Objects /\ object' = [object EXCEPT ![s] = o]
  BY <1>1, AppTypes DEF sent
<1>7. o.state = IF end /\ sent = n THEN "half_closed_local" ELSE object[s].state
  BY <1>6, AfterDataType
<1> HIDE DEF o
<1>8. object'[s] = o /\ \A t \in Streams : t # s => object'[t] = object[t]
  BY <1>1, <1>6 DEF AppTypeOK
<1>9. /\ o.state = "idle" => local'[s] = "open"
      /\ o.state \in {"open", "half_closed_remote"} => local'[s] = "headers"
      /\ o.state = "half_closed_local" => local'[s] = "done"
      /\ o.state \in {"half_closed_remote", "closed"} => s \in told'
      /\ s \in streams' /\ s \in told' => o.state \in {"half_closed_remote", "half_closed_local"}
  <2>1. CASE end /\ sent = n
    BY <1>2, <1>7, <2>1
  <2>2. CASE ~(end /\ sent = n)
    BY <1>1, <1>2, <1>3, <1>7, <2>2 DEF StateMatchesWire
  <2> QED  BY <2>1, <2>2
<1>10. StateMatchesWire'
  BY <1>1, <1>2, <1>8, <1>9, OneHandle
<1> QED  BY <1>5, <1>10

\* next_event meets what it returns.
LEMMA PumpMeets ==
  ASSUME MeetingInv, SendInv', Pump
  PROVE  MetOK' /\ ToldOK' /\ StateMatchesWire'
<1> DEFINE e == Head(engine.event_queue)
           q == engine.event_queue
           r == engine'.event_queue
<1>1. /\ SendInv /\ AppTypeOK /\ KeysOK /\ QueueOK /\ MetOK /\ ToldOK /\ StateMatchesWire
      /\ NewStreamOnce /\ ended \subseteq Streams /\ frame \in PeerFrames \union {NoFrame}
      /\ local \in [Streams -> {"none", "open", "headers", "done"}]
  BY DEF MeetingInv, AppInv, ContextOK, SendInv, SendOK, StreamsOK, IInv, TypeOK
<1>2. /\ DrainEvent /\ Observe(e)
      /\ told' = IF Ends(e) THEN told \union {e.stream} ELSE told
      /\ local' = IF e.type = "new_stream" THEN [local EXCEPT ![e.stream] = "open"] ELSE local
  BY DEF Pump, DrainEvent
<1>3. /\ 1 \in DOMAIN q /\ e = q[1] /\ e \in EventSet
      /\ \A i \in DOMAIN r : i + 1 \in DOMAIN q /\ r[i] = q[i + 1]
      /\ engine'.flow = engine.flow /\ frame' = frame
  BY <1>1, <1>2, Drained
<1>4. \A i \in DOMAIN q : q[i] \in EventSet
  BY <1>1, QueueLength DEF SendInv, IInv, TypeOK
<1>5. e.type = "new_stream" => /\ e.stream \in Streams /\ local[e.stream] = "none"
                               /\ e.stream \notin told
  <2> SUFFICES ASSUME e.type = "new_stream"
               PROVE  e.stream \in Streams /\ local[e.stream] = "none" /\ e.stream \notin told
    OBVIOUS
  <2>1. e.stream \in Streams /\ Announces(e.stream)
    BY <1>1, <1>3 DEF QueueOK, MetOK, Announces
  <2> QED  BY <1>1, <2>1 DEF NewStreamOnce, ToldOK
<1>6. Ends(e) => e.stream \in Streams /\ e.type # "new_stream"
  BY <1>1, <1>3 DEF QueueOK, Ends
<1>7. /\ \A s : s # e.stream \/ ~Ends(e) => (s \in streams => s \in streams')
      /\ \A s : s # e.stream => (s \in streams' => s \in streams)
      /\ e.type = "new_stream" => e.stream \in streams'
      /\ \A s \in Streams : s # e.stream => object'[s] = object[s]
      /\ \A s \in Streams : s = e.stream =>
           CASE e.type = "new_stream" -> object'[s] = NewObject /\ s \in streams'
             [] e.type = "stream_closed" /\ s \in streams ->
                  /\ object'[s].state = IF object[s].state = "open" THEN "half_closed_remote"
                                                                    ELSE "closed"
                  /\ object'[s].state = "closed" => s \notin streams'
             [] e.type = "stream_reset" -> object'[s] = object[s] /\ s \notin streams'
             [] OTHER -> object'[s] = object[s] /\ (s \in streams' <=> s \in streams)
  <2>1. \A s : s # e.stream => (s \in streams' => s \in streams)
    BY <1>2 DEF Observe
  <2> QED  BY <1>1, <1>2, <1>5, <2>1, ObserveEffect
\* The first event of a stream that is not its new_stream comes after it.
<1>8. e.type # "new_stream" /\ e.stream \in Streams => e.stream \in streams \/ e.stream \in told
  <2> SUFFICES ASSUME e.type # "new_stream", e.stream \in Streams
               PROVE  e.stream \in streams \/ e.stream \in told
    OBVIOUS
  <2>1. Met(e.stream)
    BY <1>1, <1>3, StreamsAssumption DEF MetOK
  <2>2. ~Announces(e.stream)
    <3> SUFFICES ASSUME Announces(e.stream) PROVE FALSE
      OBVIOUS
    <3>1. \E j \in 1 .. 1 : q[j] = Event("new_stream", e.stream, 0)
      BY <1>1, <1>3 DEF NewStreamOnce
    <3>2. e.type = "new_stream"
      BY <1>3, <3>1 DEF Event
    <3> QED  BY <3>2
  <2> QED  BY <2>1, <2>2 DEF Met
<1>9. \A s \in Streams : Announces(s) => (e.type = "new_stream" /\ e.stream = s) \/ Announces(s)'
  <2>1. \A s : e = Event("new_stream", s, 0) => e.type = "new_stream" /\ e.stream = s
    BY DEF Event
  <2> QED  BY <1>1, <1>2, <2>1, HeadAnnounces
<1> HIDE DEF e, q, r
<1>10. \A s \in Streams : Met(s) => Met(s)'
  BY <1>2, <1>7, <1>9 DEF Met
<1>11. \A s \in Streams : local'[s] = IF e.type = "new_stream" /\ s = e.stream THEN "open" ELSE local[s]
  BY <1>1, <1>2, <1>5
<1>12. MetOK'
  <2>1. \A s \in Streams : local'[s] # "none" \/ engine'.flow[s].tracked => Met(s)'
    BY <1>1, <1>3, <1>7, <1>10, <1>11 DEF MetOK, Met
  <2>2. ASSUME NEW j \in DOMAIN r, r[j].type # "new_stream", NEW s, s = r[j].stream, s # 0
        PROVE  Met(s)'
    <3>1. q[j + 1].type # "new_stream" /\ s = q[j + 1].stream /\ j + 1 \in DOMAIN q
      BY <1>3, <2>2
    <3>2. s \in Streams
      BY <1>4, <2>2, <3>1 DEF EventSet
    <3>3. Met(s)
      BY <1>1, <2>2, <3>1 DEF MetOK, q
    <3> QED  BY <1>10, <3>2, <3>3
  <2>3. \A j \in DOMAIN r : r[j].type # "new_stream" => \A s : s = r[j].stream /\ s # 0 => Met(s)'
    BY <2>2
  <2>4. \A j \in DOMAIN r : r[j].type = "new_stream" => r[j] = Event("new_stream", r[j].stream, 0)
    <3>1. \A i \in DOMAIN q : q[i].type = "new_stream" => q[i] = Event("new_stream", q[i].stream, 0)
      BY <1>1 DEF MetOK, q
    <3> QED  BY <1>3, <3>1
  <2>5. \A s : s = frame'.stream /\ s # 0 /\ frame'.type # "headers" => Met(s)'
    <3>1. frame.stream \in Streams \union {0}
      BY <1>1, PeerAssumption DEF FrameSet, NoFrame, Frame
    <3> QED  BY <1>1, <1>3, <1>10, <3>1 DEF MetOK
  <2> QED  BY <2>1, <2>3, <2>4, <2>5 DEF MetOK, Met, Announces, r
<1>13. Ends(e) => local[e.stream] # "none"
  <2> SUFFICES ASSUME Ends(e), local[e.stream] = "none" PROVE FALSE
    OBVIOUS
  <2>1. e.stream \in Streams /\ e.stream \notin told /\ e.stream \in streams
    BY <1>1, <1>6, <1>8 DEF ToldOK
  <2>2. object[e.stream].state \in StreamStates /\ object[e.stream].state # "absent"
    BY <1>1, <2>1, AppTypes DEF AppTypeOK
  <2> QED  BY <1>1, <2>1, <2>2 DEF StateMatchesWire, StreamStates
<1>14. ToldOK'
  <2>1. \A s \in told' : s \in Streams /\ local[s] # "none"
    BY <1>1, <1>2, <1>6, <1>13 DEF ToldOK, AppTypeOK
  <2> QED  BY <1>11, <2>1 DEF ToldOK
<1>15. StateMatchesWire'
  <2>1. CASE e.stream \notin Streams
    <3>1. /\ \A t \in Streams : object'[t] = object[t] /\ local'[t] = local[t]
                                /\ (t \in streams' => t \in streams)
          /\ told' = told
      BY <1>2, <1>6, <1>7, <1>11, <2>1
    <3> QED  BY <1>1, <3>1 DEF StateMatchesWire
  <2>2. CASE e.stream \in Streams
    <3> DEFINE s == e.stream
               x == object'[s].state
    <3>1. \A t \in Streams : t # s => /\ object'[t] = object[t] /\ local'[t] = local[t]
                                      /\ (t \in streams' => t \in streams)
                                      /\ (t \in told' <=> t \in told)
      BY <1>2, <1>7, <1>11
    <3> DEFINE Good == /\ x = "idle" => local'[s] = "open"
                       /\ x \in {"open", "half_closed_remote"} => local'[s] = "headers"
                       /\ x = "half_closed_local" => local'[s] = "done"
                       /\ x \in {"half_closed_remote", "closed"} => s \in told'
                       /\ s \in streams' /\ s \in told'
                            => x \in {"half_closed_remote", "half_closed_local"}
    <3>2. /\ object[s].state = "idle" => local[s] = "open"
          /\ object[s].state \in {"open", "half_closed_remote"} => local[s] = "headers"
          /\ object[s].state = "half_closed_local" => local[s] = "done"
          /\ object[s].state \in {"half_closed_remote", "closed"} => s \in told
          /\ s \in streams \intersect told =>
               object[s].state \in {"half_closed_remote", "half_closed_local"}
      BY <1>1, <2>2 DEF StateMatchesWire
    <3>3. ASSUME e.type = "new_stream"
          PROVE  Good
      <4>1. x = "idle"
        BY <1>7, <2>2, <3>3 DEF NewObject
      <4>2. local'[s] = "open" /\ s \notin told'
        BY <1>2, <1>5, <1>6, <1>11, <2>2, <3>3
      <4> HIDE DEF x, s
      <4> QED  BY <4>1, <4>2
    <3>4. e.type # "new_stream" => local'[s] = local[s]
      BY <1>11, <2>2
    <3>5. Ends(e) => s \in told'
      BY <1>2
    <3>6. ASSUME e.type = "stream_closed" /\ s \in streams
          PROVE  Good
      <4>1. /\ x = IF object[s].state = "open" THEN "half_closed_remote" ELSE "closed"
            /\ x = "closed" => s \notin streams'
        BY <1>7, <2>2, <3>6
      <4>2. s \in told'
        BY <3>5, <3>6 DEF Ends
      <4> HIDE DEF x
      <4> QED  BY <3>2, <3>4, <3>6, <4>1, <4>2
    <3>7. ASSUME e.type = "stream_reset"
          PROVE  Good
      <4>1. x = object[s].state /\ s \notin streams'
        BY <1>7, <2>2, <3>7
      <4>2. s \in told'
        BY <3>5, <3>7 DEF Ends
      <4> HIDE DEF x
      <4> QED  BY <3>2, <3>4, <3>7, <4>1, <4>2
    <3>8. ASSUME ~(e.type = "new_stream" \/ (e.type = "stream_closed" /\ s \in streams)
                     \/ e.type = "stream_reset")
          PROVE  Good
      <4>1. x = object[s].state /\ (s \in streams' <=> s \in streams)
        BY <1>7, <2>2, <3>8
      <4>2. s \in told => s \in told'
        BY <1>2
      <4>3. s \in streams => (s \in told' => s \in told)
        BY <1>2, <3>8 DEF Ends
      <4> HIDE DEF x
      <4> QED  BY <3>2, <3>4, <3>8, <4>1, <4>2, <4>3
    <3>9. Good
      BY <3>3, <3>6, <3>7, <3>8
    <3> HIDE DEF x
    <3> QED  BY <1>1, <2>2, <3>1, <3>9, OneHandle DEF x
  <2> QED  BY <2>1, <2>2
<1> QED  BY <1>12, <1>14, <1>15

\* Nothing of it moves in a step of coroutines or of the transport.
LEMMA IdleMeets ==
  ASSUME MeetingInv,
         \/ \E s \in Streams : Await(s) \/ Return(s)
         \/ UNCHANGED allVars
  PROVE  MetOK' /\ ToldOK' /\ StateMatchesWire'
<1>1. MetOK /\ ToldOK /\ StateMatchesWire /\ told \subseteq Streams
  BY DEF MeetingInv, AppInv, ContextOK, AppTypeOK
<1>2. UNCHANGED <<engine, frame, local, object, streams, told>>
  BY DEF Await, Return, allVars, vars, appVars
<1>3. MetOK' /\ ToldOK'
  BY <1>1, <1>2, CallMeets
<1> QED  BY <1>1, <1>2, <1>3 DEF StateMatchesWire

LEMMA NextMeetingInv == MeetingInv /\ [AppNext]_allVars => MeetingInv'
<1> SUFFICES ASSUME MeetingInv, [AppNext]_allVars PROVE MeetingInv'
  OBVIOUS
<1>1. AppInv' /\ SendInv' /\ ContextOK /\ StateMatchesWire
  BY AppNextInv DEF MeetingInv, AppInv
<1>2. ASSUME NEW s \in Streams, NEW n \in BodySizes, Execute(s, n)
      PROVE  MetOK' /\ ToldOK' /\ StateMatchesWire'
  <2>1. /\ SendHeaders(s, n = 0) /\ (n = 0) \in BOOLEAN
        /\ object' = [object EXCEPT ![s] = AfterHeaders(n = 0)]
        /\ UNCHANGED <<streams, told>>
    BY <1>2 DEF Execute
  <2> QED  BY <2>1, HeadersMeet
<1>3. ASSUME NEW s \in Streams, NEW end \in BOOLEAN, Respond(s, end)
      PROVE  MetOK' /\ ToldOK' /\ StateMatchesWire'
  BY <1>3, HeadersMeet DEF Respond
<1>4. ASSUME NEW s \in Streams, NEW n \in SendSizes, NEW end \in BOOLEAN, RespondBody(s, n, end)
      PROVE  MetOK' /\ ToldOK' /\ StateMatchesWire'
  BY <1>4, SizesAssumption, BodyMeets DEF RespondBody
<1>5. ASSUME NEW s \in Streams, TrySendRemaining(s)
      PROVE  MetOK' /\ ToldOK' /\ StateMatchesWire'
  <2> DEFINE rest == request[s].body - request[s].send_offset
  <2>1. rest \in Nat
    BY <1>1, RestType DEF ContextOK
  <2>2. /\ SendBody(s, rest, TRUE)
        /\ object' = [object EXCEPT ![s] = AfterData(@, Accepted(engine, s, rest), rest, TRUE)]
        /\ streams' = streams /\ told' = told
    BY <1>5 DEF TrySendRemaining
  <2> HIDE DEF rest
  <2> QED  BY <2>1, <2>2, BodyMeets
<1>6. ASSUME Traffic PROVE MetOK' /\ ToldOK' /\ StateMatchesWire'
  <2>1. MetOK' /\ ToldOK'
    BY <1>1, <1>6, TrafficMeets
  <2>2. UNCHANGED <<object, streams, told>> /\ local' = local
    BY <1>6 DEF Traffic, appVars, Transport, Transmit, Preface, ReadFrameHeader, ReadPayload,
                DecodeThrows
  <2> QED  BY <1>1, <2>1, <2>2 DEF StateMatchesWire
<1>7. MetOK' /\ ToldOK' /\ StateMatchesWire'
  BY <1>1, <1>2, <1>3, <1>4, <1>5, <1>6, OpenRequestMeets, PumpMeets, IdleMeets
  DEF AppNext, Calling
<1> QED  BY <1>1, <1>7 DEF MeetingInv

LEMMA InitMeetingInv == AppInit => MeetingInv
<1> SUFFICES ASSUME AppInit PROVE MeetingInv
  OBVIOUS
<1>1. /\ Init
      /\ object = [s \in Streams |-> [state |-> "absent", headers_sent |-> FALSE]]
      /\ streams = {} /\ told = {}
  BY DEF AppInit
<1>2. /\ engine.event_queue = <<>> /\ \A s \in Streams : ~engine.flow[s].tracked
      /\ frame = NoFrame /\ local = [s \in Streams |-> "none"]
  <2>1. PICK role \in Roles, cb \in BOOLEAN : engine = NewEngine(role, cb)
    BY <1>1 DEF Init
  <2> QED  BY <1>1, <2>1 DEF Init, NewEngine, Untracked
<1>3. MetOK /\ ToldOK
  BY <1>1, <1>2 DEF MetOK, ToldOK, NoFrame, Frame
<1>4. StateMatchesWire
  BY <1>1 DEF StateMatchesWire
<1> QED  BY <1>3, <1>4, InitAppInv DEF MeetingInv

LEMMA MeetingInvariance == AppSpec => []MeetingInv
<1> QED  BY InitMeetingInv, NextMeetingInv, PTL DEF AppSpec

----------------------------------------------------------------------------
(* What follows from it.                                                   *)

\* The maps hold streams that were created and requests that were executed,
\* and send_offset never passes the end of the body, whatever windows, cut
\* short calls and resumed coroutines the request meets (coro.h, stream.cpp).
THEOREM AppTypeCorrect == AppSpec => []AppTypeOK
<1>1. AppInv => AppTypeOK
  BY DEF AppInv, ContextOK
<1> QED  BY <1>1, AppInvariance, PTL

\* A request body that was cut short is never forgotten: its stream waits and
\* try_send_remaining is stored, so the engine's promise of a wakeup becomes
\* the request's (request_handle::execute, request_registry::dispatch).
THEOREM NoBodyIsStuck == AppSpec => []NoStuckBody
<1>1. AppInv => NoStuckBody
  <2> SUFFICES ASSUME AppInv, NEW s \in entries \ forgotten,
                      request[s].send_offset < request[s].body, Sendable(s)
               PROVE  \/ \E i \in DOMAIN stack : stack[i] = Sending(s)
                      \/ WakeupQueued(s) /\ request[s].retries
    BY DEF NoStuckBody
  <2>1. UnsentOK /\ NoLostWakeup
    BY DEF AppInv, ContextOK, SendInv, SendOK
  <2> QED  BY <2>1 DEF UnsentOK, NoLostWakeup, Pending
<1> QED  BY <1>1, AppInvariance, PTL

\* When a request is completed everything of its response was dispatched:
\* content is queued before the end of its stream, and never after it.
THEOREM CompletedRequestsAreWhole == AppSpec => []CompletedIsWhole
<1>1. AppInv => CompletedIsWhole
  BY DEF AppInv, ContextOK, CompletedOK, CompletedIsWhole, Content
<1> QED  BY <1>1, AppInvariance, PTL

\* A coroutine is resumed once: the entry is erased before another event can
\* be dispatched, even when the stream ends several times.
THEOREM CoroutinesAreResumedOnce == AppSpec => []ResumedOnce
<1>1. AppInv => ResumedOnce
  <2> SUFFICES ASSUME AppInv, NEW s \in Streams PROVE request[s].resumptions <= 1
    BY DEF ResumedOnce
  <2>1. AppTypeOK /\ ResumptionsOK
    BY DEF AppInv, ContextOK
  <2>2. request[s].resumptions = 0 \/ request[s].resumptions = 1
    BY <2>1 DEF ResumptionsOK
  <2> QED  BY <2>2
<1> QED  BY <1>1, AppInvariance, PTL

\* No event of a stream is returned before its new_stream was; content is of a
\* stream that get_stream still knows, and what comes of a stream the map has
\* lost comes after the end of that stream was returned, and is not content
\* (context_base::next_event, get_stream).
THEOREM EventsHaveTheirStream == AppSpec => []EventsFindTheirStream
<1>1. MeetingInv => EventsFindTheirStream
  <2> SUFFICES ASSUME MeetingInv, engine.event_queue # <<>>,
                      NEW e, e = Head(engine.event_queue), e.type # "new_stream", e.stream # 0
               PROVE  e.stream \in streams \/ (~Content(e) /\ e.stream \in told)
    BY DEF EventsFindTheirStream, Content
  <2>1. MetOK /\ QueueOK /\ MapOK /\ NewStreamOnce /\ engine \in EngineSet
    BY DEF MeetingInv, AppInv, ContextOK, SendInv, SendOK, StreamsOK, IInv, TypeOK
  <2>2. engine.event_queue \in Seq(EventSet)
    BY <2>1, MemberTypes
  <2>3. 1 \in DOMAIN engine.event_queue /\ e = engine.event_queue[1] /\ e \in EventSet
    BY <2>2
  <2>4. e.stream \in Streams
    BY <2>3 DEF EventSet
  <2>5. ~Announces(e.stream)
    <3> SUFFICES ASSUME Announces(e.stream) PROVE FALSE
      OBVIOUS
    <3>1. \E j \in 1 .. 1 : engine.event_queue[j] = Event("new_stream", e.stream, 0)
      BY <2>1, <2>3, <2>4 DEF NewStreamOnce
    <3>2. e.type = "new_stream"
      BY <2>3, <3>1 DEF Event
    <3> QED  BY <3>2
  <2>6. e.stream \in streams \/ e.stream \in told
    BY <2>1, <2>3, <2>5 DEF MetOK, Met
  <2>7. Content(e) => e.stream \in streams
    BY <2>1, <2>3, <2>5 DEF MapOK
  <2> QED  BY <2>6, <2>7
<1> QED  BY <1>1, MeetingInvariance, PTL

\* A handle's state agrees with the HEADERS and the END_STREAM that were
\* written and with the end of the remote side that was returned, whichever
\* came first, for every stream that was created (stream.cpp,
\* context_base::next_event).
THEOREM StatesMatchTheWire == AppSpec => []StateMatchesWire
<1>1. MeetingInv => StateMatchesWire
  BY DEF MeetingInv
<1> QED  BY <1>1, MeetingInvariance, PTL

\* The engine under this application keeps its own invariant: what is proved
\* of it before any application holds before this one, the length of what is
\* sent at a time apart.
THEOREM EngineUnderApplication == AppSpec => []SendInv
<1>1. AppInv => SendInv
  BY DEF AppInv
<1> QED  BY <1>1, AppInvariance, PTL

\* A transport, a call or a return leaves what is queued in place.
LEMMA OnlyPumpDrains ==
  ASSUME AppInv, [AppNext]_allVars, DrainEvent
  PROVE  Pump
<1>1. SendInv /\ SendInv' /\ ContextOK
  BY AppNextSendInv DEF AppInv
<1>2. Len(engine'.event_queue) < Len(engine.event_queue)
  <2>1. engine \in EngineSet /\ engine.event_queue # <<>> /\ engine' = NextEvent(engine)
    BY <1>1 DEF SendInv, IInv, TypeOK, DrainEvent
  <2>2. engine.event_queue \in Seq(EventSet) /\ engine'.event_queue = Tail(engine.event_queue)
    BY <2>1, MemberTypes, NextEventLemma
  <2> QED  BY <2>1, <2>2
<1>3. Len(engine.event_queue) \in Nat /\ Len(engine'.event_queue) \in Nat
  BY <1>1, QueueLength DEF SendInv, IInv, TypeOK
<1>4. engine'.event_queue # engine.event_queue
  BY <1>2, <1>3
<1>5. ~OpenRequest
  <2> SUFFICES ASSUME OpenRequest PROVE FALSE
    OBVIOUS
  <2>1. engine.next_stream_id \in Streams /\ engine' = OpenStream(engine)
    BY DEF OpenRequest, Open
  <2>2. engine \in EngineSet /\ Signalled(engine)
    BY <1>1 DEF SendInv, SendOK, IInv, TypeOK
  <2>3. engine'.event_queue = engine.event_queue
    BY <2>1, <2>2, OpenStreamEffect
  <2> QED  BY <1>4, <2>3
<1>6. \A s \in Streams, n \in BodySizes : ~Execute(s, n)
  <2> SUFFICES ASSUME NEW s \in Streams, NEW n \in BodySizes, Execute(s, n) PROVE FALSE
    OBVIOUS
  <2>1. SendHeaders(s, n = 0) /\ (n = 0) \in BOOLEAN
    BY DEF Execute
  <2>2. Quiet
    BY <1>1, <2>1, HeadersQuiet
  <2> QED  BY <1>4, <2>2 DEF Quiet
<1>7. \A s \in Streams, end \in BOOLEAN : ~Respond(s, end)
  BY <1>1, <1>4, HeadersQuiet DEF Respond, Quiet
<1>8. \A s \in Streams, n \in SendSizes, end \in BOOLEAN : ~RespondBody(s, n, end)
  BY <1>1, <1>4, BodyQuiet, SizesAssumption DEF RespondBody, Quiet
<1>9. \A s \in Streams : ~TrySendRemaining(s)
  <2> SUFFICES ASSUME NEW s \in Streams, TrySendRemaining(s) PROVE FALSE
    OBVIOUS
  <2> DEFINE rest == request[s].body - request[s].send_offset
  <2>1. rest \in Nat
    BY <1>1, RestType DEF ContextOK
  <2>2. SendBody(s, rest, TRUE)
    BY DEF TrySendRemaining
  <2> HIDE DEF rest
  <2>3. Quiet
    BY <1>1, <2>1, <2>2, BodyQuiet
  <2> QED  BY <1>4, <2>3 DEF Quiet
<1>10. (\A s \in Streams : ~Await(s) /\ ~Return(s)) /\ ~UNCHANGED allVars
  BY <1>4 DEF Await, Return, allVars, vars
<1>11. ~Traffic
  <2> SUFFICES ASSUME Traffic PROVE FALSE
    OBVIOUS
  <2>1. Len(engine.event_queue) <= Len(engine'.event_queue)
    BY <1>1, TrafficArrived DEF ContextOK, Arrived, Lengthens
  <2> QED  BY <1>2, <1>3, <2>1
<1> QED  BY <1>5, <1>6, <1>7, <1>8, <1>9, <1>10, <1>11 DEF AppNext, Calling

\* When the end of a stream is returned and its local side ended before, or
\* when it was reset, its entry leaves the map with that event
\* (context_base::next_event).
THEOREM EndedStreamsAreForgotten == AppSpec => EndsForgotten
<1> DEFINE P == \A s \in Streams :
                  (Returned("stream_closed", s) /\ local[s] = "done") \/ Returned("stream_reset", s)
                    => s \notin streams'
<1>1. AppInv /\ [AppNext]_allVars => P
  <2> SUFFICES ASSUME AppInv, [AppNext]_allVars, NEW s \in Streams, NEW type, Returned(type, s),
                      type = "stream_reset" \/ (type = "stream_closed" /\ local[s] = "done")
               PROVE  s \notin streams'
    OBVIOUS
  <2> DEFINE e == Head(engine.event_queue)
  <2>1. e = Event(type, s, 0) /\ DrainEvent
    BY DEF Returned
  <2>2. Observe(e)
    BY <2>1, OnlyPumpDrains DEF Pump
  <2> HIDE DEF e
  <2>3. e.type = type /\ e.stream = s
    BY <2>1 DEF Event
  <2>4. AppTypeOK /\ KeysOK /\ LocalStateOK
    BY DEF AppInv, ContextOK
  <2>5. CASE type = "stream_reset"
    BY <2>2, <2>3, <2>4, <2>5, ObserveEffect
  <2>6. CASE type = "stream_closed" /\ local[s] = "done" /\ s \notin streams
    BY <2>2, <2>3, <2>4, <2>6, ObserveEffect
  <2>7. CASE type = "stream_closed" /\ local[s] = "done" /\ s \in streams
    <3>1. /\ object'[s].state = IF object[s].state = "open" THEN "half_closed_remote" ELSE "closed"
          /\ object'[s].state = "closed" => s \notin streams'
      BY <2>2, <2>3, <2>4, <2>7, ObserveEffect
    <3>2. object[s].state # "open"
      BY <2>4, <2>7 DEF LocalStateOK
    <3> QED  BY <3>1, <3>2
  <2> QED  BY <2>5, <2>6, <2>7
<1>2. AppInv /\ [AppNext]_allVars => [P]_allVars
  BY <1>1
<1> QED  BY <1>2, AppInvariance, PTL DEF AppSpec, EndsForgotten

\* Neither a request's body nor an answer is sent past what the peer granted.
THEOREM RequestsNeverOverrun == AppSpec => NeverOverruns
<1>1. AppInv /\ [AppNext]_allVars => [\A s \in {0} \union (Streams \ forgotten) : ~Overruns(s)]_vars
  <2> SUFFICES ASSUME AppInv, [AppNext]_allVars, NEW s \in {0} \union (Streams \ forgotten), Overruns(s)
               PROVE  FALSE
    OBVIOUS
  <2>1. credit'[s] < credit[s] /\ frame' = frame /\ credit'[s] < 0
    BY DEF Overruns
  <2>2. SendInv /\ SendInv' /\ ContextOK
    BY AppNextSendInv DEF AppInv
  <2>3. credit'[s] \in Int /\ s \in Streams \union {0}
    BY <2>2 DEF SendInv, IInv, TypeOK
  <2>4. ASSUME NEW t \in Streams, TrySendRemaining(t) PROVE credit'[s] >= 0
    <3> DEFINE rest == request[t].body - request[t].send_offset
    <3>1. rest \in Nat
      BY <2>2, RestType DEF ContextOK
    <3>2. SendBody(t, rest, TRUE)
      BY <2>4 DEF TrySendRemaining
    <3> HIDE DEF rest
    <3> QED  BY <2>1, <2>2, <3>1, <3>2, SendBodyFits
  <2>5. [Next]_vars \/ \E t \in Streams : TrySendRemaining(t)
    BY NextOrSending
  <2>6. [Next]_vars => credit'[s] >= 0
    BY <2>1, <2>2, StepFits
  <2> QED  BY <2>1, <2>3, <2>4, <2>5, <2>6
<1> QED  BY <1>1, AppInvariance, PTL DEF AppSpec, NeverOverruns
=============================================================================
