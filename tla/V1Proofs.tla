------------------------------- MODULE V1Proofs -------------------------------
(***************************************************************************)
(* For every set of streams, every body and every peer that frames its     *)
(* messages: a v1 engine reports each message on its own stream, a stream's *)
(* events come in order, a server has one request at a time, what is        *)
(* written is in order, and a connection that is done is silent.            *)
(***************************************************************************)
EXTENDS V1Engine, FiniteSetTheorems, SequenceTheorems, WellFoundedInduction, TLAPS

----------------------------------------------------------------------------
(* Types.                                                                  *)

ItemSet ==
  [type : ItemTypes, stream : Streams \union {0}, n : Nat, bodyless : BOOLEAN,
   framing : Framings, close : BOOLEAN, expect : BOOLEAN]

\* The items of a message.
Plain == {it \in ItemSet : it.type # "overlong"}

EventTypes == {"new_stream", "headers", "data", "stream_closed", "goaway", "connection_error"}
EventSet == [type : EventTypes, stream : Streams \union {0}, of : Streams \union {0}]

StreamSet ==
  [present : BOOLEAN, bodyless : BOOLEAN, head : Seq(ItemSet), body_staged : Seq(ItemSet),
   head_sent : BOOLEAN, chunked : BOOLEAN, no_body : BOOLEAN, request_body_done : BOOLEAN,
   request_complete : BOOLEAN, close_after : BOOLEAN]

EngineSet ==
  [role : {"client", "server"}, state : ParseStates, input : Seq(ItemSet),
   pending_out : Seq(ItemSet), output_ready_cb : BOOLEAN, had_output : BOOLEAN,
   streams : [Streams -> StreamSet], stream_order : Seq(Streams), next_stream_id : Nat,
   active_stream : Streams \union {0}, bodyless : BOOLEAN, body_remaining : Nat,
   connection_done : BOOLEAN, goaway_sent : BOOLEAN, eof_seen : BOOLEAN,
   event_queue : Seq(EventSet)]

Kinds == EventTypes \union {"nothing"}

----------------------------------------------------------------------------
(* The grammar of what a peer sends, as an automaton over items.  A        *)
(* configuration is where in a message of which stream the next item is.   *)

Modes == ParseStates \union {"idle", "lost"}
Configs == [mode : Modes, rem : Nat, stream : Nat, bodyless : BOOLEAN]

At(mode, rem, s, bodyless) == [mode |-> mode, rem |-> rem, stream |-> s, bodyless |-> bodyless]

\* Nothing but a broken line may follow; anything may follow.
Idle == At("idle", 0, 0, FALSE)
Lost == At("lost", 0, 0, FALSE)

\* After a message on stream s: a client's peer waits for a request, a
\* server's sends the next one.
Between(role, s) == IF role = "client" THEN Idle ELSE At("start_line", 0, s + 2, FALSE)

\* What a header block says of the body that follows it.
StepFields(role, c, it, d) ==
  \/ role = "client" /\ c.bodyless /\ d = Idle
  \/ role = "client" /\ ~c.bodyless /\ it.framing = "none" /\ d = At("body_until_close", 0, c.stream, FALSE)
  \/ role = "server" /\ it.framing = "none" /\ d = Between(role, c.stream)
  \/ /\ ~(role = "client" /\ c.bodyless)
     /\ \/ it.framing = "chunked" /\ d = At("chunk_size", 0, c.stream, FALSE)
        \/ it.framing = "bad" /\ d = Lost
        \/ it.framing = "length" /\ it.n = 0 /\ d = Between(role, c.stream)
        \/ it.framing = "length" /\ it.n # 0 /\ d = At("body_length", it.n, c.stream, FALSE)

\* One unit of body, the last of c.rem or not.
StepBody(c, d, last_) ==
  IF c.rem = 1 THEN d = last_ ELSE d = At(c.mode, c.rem - 1, c.stream, FALSE)

StepMessage(role, c, it, d) ==
  \/ /\ c.mode = "start_line" /\ it.type = "start"
     /\ d = At("headers", 0, c.stream, role = "client" /\ (c.bodyless \/ it.bodyless))
  \/ /\ c.mode = "start_line" /\ it.type = "interim" /\ role = "client"
     /\ d = At("skip_interim", 0, c.stream, c.bodyless)
  \/ c.mode = "skip_interim" /\ it.type = "fields" /\ d = At("start_line", 0, c.stream, c.bodyless)
  \/ c.mode = "headers" /\ it.type = "fields" /\ StepFields(role, c, it, d)
  \/ c.mode = "body_length" /\ it.type = "body" /\ StepBody(c, d, Between(role, c.stream))
  \/ c.mode = "body_until_close" /\ it.type = "body" /\ d = c
  \/ c.mode = "chunk_size" /\ it.type = "size" /\ it.n = 0 /\ d = At("chunk_trailer", 0, c.stream, FALSE)
  \/ c.mode = "chunk_size" /\ it.type = "size" /\ it.n # 0 /\ d = At("chunk_data", it.n, c.stream, FALSE)
  \/ c.mode = "chunk_data" /\ it.type = "body" /\ StepBody(c, d, At("chunk_crlf", 0, c.stream, FALSE))
  \/ c.mode = "chunk_crlf" /\ it.type = "crlf" /\ d = At("chunk_size", 0, c.stream, FALSE)
  \/ c.mode = "chunk_trailer" /\ it.type = "crlf" /\ d = Between(role, c.stream)

\* it is an item that may come in c, and leads to d.
Step(role, c, it, d) ==
  \/ c.mode = "lost" /\ d = Lost
  \/ c.mode \in {"idle", "start_line"} /\ it.type = "overlong" /\ d = Lost
  \/ it.stream = c.stream /\ c.stream \in Streams /\ StepMessage(role, c, it, d)

\* The items of q lead from c to d.
Run(role, c, q, d) ==
  \E lab \in [0 .. Len(q) -> Configs] :
    /\ lab[0] = c /\ lab[Len(q)] = d
    /\ \A i \in 1 .. Len(q) : Step(role, lab[i - 1], q[i], lab[i])

InBody(e) == e.state \in {"body_length", "chunk_data"}
Remaining(e) == IF InBody(e) THEN e.body_remaining ELSE 0

\* Whether the response that is parsed, or comes next, has no body.
NoBody(e) ==
  \/ /\ e.state \in {"start_line", "skip_interim", "headers"}
     /\ e.streams[e.active_stream].bodyless
  \/ e.state = "headers" /\ e.bodyless

\* The configuration an engine's parser is in.
Config(e) ==
  IF e.role = "client"
  THEN IF e.active_stream = 0 THEN Idle
       ELSE At(e.state, Remaining(e), e.active_stream, NoBody(e))
  ELSE IF e.state \in {"start_line", "awaiting_response"}
       THEN At("start_line", 0, e.next_stream_id, FALSE)
       ELSE At(e.state, Remaining(e), e.active_stream, FALSE)

----------------------------------------------------------------------------
(* The inductive invariant, of an engine e and                             *)
(*   r, what is on the wire behind the engine's input,                     *)
(*   o, what the transport took, h, the last events drained,               *)
(*   m, the messages the peer sent, l, whether it will send no more.       *)

Opened(e, s) == e.streams[s].present

\* streams_ and stream_order_ hold the same streams, oldest first.
ListsOK(e) ==
  /\ \A s \in Streams : Opened(e, s) <=> \E i \in 1 .. Len(e.stream_order) : e.stream_order[i] = s
  /\ \A i, j \in 1 .. Len(e.stream_order) : i < j => e.stream_order[i] < e.stream_order[j]
  /\ \A s \in Streams : Opened(e, s) => s < e.next_stream_id
  /\ e.active_stream # 0 => Opened(e, e.active_stream)

\* A client's exchange in flight is that of its oldest stream.
ClientModes(e) ==
  /\ e.state # "awaiting_response"
  /\ e.active_stream = 0 => e.state \in {"start_line", "done"}
  /\ e.active_stream # 0 =>
       e.active_stream = e.stream_order[1] /\ e.streams[e.active_stream].head_sent

\* A server has one stream, between the request's start line and the response.
ServerModes(e) ==
  /\ e.state \notin {"skip_interim", "body_until_close"}
  /\ e.state = "start_line" => e.active_stream = 0 /\ \A s \in Streams : ~Opened(e, s)
  /\ e.state \notin {"start_line", "done"} => e.active_stream # 0 /\ e.next_stream_id = e.active_stream + 2
  /\ \A s \in Streams : Opened(e, s) /\ e.streams[s].request_body_done =>
                         e.state \in {"awaiting_response", "done"}
  /\ \A s, t \in Streams : Opened(e, s) /\ Opened(e, t) => s = t

ModesOK(e) ==
  /\ e.connection_done <=> e.state = "done"
  /\ e.state = "done" => e.active_stream = 0
  /\ e.goaway_sent => e.connection_done
  /\ e.input # <<>> => e.state \in {"awaiting_response", "done"}
  /\ InBody(e) => e.body_remaining # 0
  /\ e.role = "client" => ClientModes(e)
  /\ e.role = "server" => ServerModes(e)

\* What is staged for a stream is its request.
HeadOK(x, s) ==
  x.head # <<>> =>
    /\ Len(x.head) = 2
    /\ x.head[1].type = "start" /\ x.head[1].stream = s /\ x.head[1].bodyless = x.bodyless
    /\ x.head[2].type = "fields" /\ x.head[2].stream = s
StagedOK(x, s) == \A i \in 1 .. Len(x.body_staged) : x.body_staged[i].type # "start" /\ x.body_staged[i].stream = s
HeadsOK(e) ==
  e.role = "client" => \A s \in Streams : HeadOK(e.streams[s], s) /\ StagedOK(e.streams[s], s)

Shape(e) == e \in EngineSet /\ ListsOK(e) /\ ModesOK(e) /\ HeadsOK(e)

\* What was written is in order, and not of a stream younger than one that is open.
InOrder(q) == \A i, j \in 1 .. Len(q) : i <= j => q[i].stream <= q[j].stream
Below(q, n) == \A i \in 1 .. Len(q) : q[i].stream <= n
OutputOK(e, o) ==
  LET q == o \o e.pending_out
  IN /\ InOrder(q)
     /\ \A s \in Streams : Opened(e, s) => Below(q, s)
     /\ Below(q, e.next_stream_id)

\* The last request in q is that of stream s.
LastRequest(q, s, bodyless) ==
  \E i \in Starts(q) :
    q[i].stream = s /\ q[i].bodyless = bodyless /\ \A j \in Starts(q) : j <= i

\* While the peer may go on it has answered all but at most the last request.
AnsweredOK(e, r, o, m) ==
  LET q == o \o e.pending_out
  IN IF e.active_stream = 0
     THEN m = Cardinality(Starts(q))
     ELSE /\ LastRequest(q, e.active_stream, e.streams[e.active_stream].bodyless)
          /\ \/ m = Cardinality(Starts(q))
             \/ m + 1 = Cardinality(Starts(q)) /\ r = <<>> /\ e.state = "start_line"

\* Where what the peer sent ends.
EndOK(role, d, m, l) ==
  IF role = "client" THEN l \/ d.mode \in {"idle", "lost", "start_line"}
                     ELSE d = Lost \/ d = At("start_line", 0, 2 * m + 1, FALSE)

WireOK(e, r, o, m, l) ==
  e.state # "done" =>
    /\ \E d \in Configs : Run(e.role, Config(e), e.input \o r, d) /\ EndOK(e.role, d, m, l)
    /\ e.role = "client" /\ ~l =>
         /\ r \in Seq(Plain)
         /\ AnsweredOK(e, r, o, m)

\* t was the last event of s when the first n - 1 events of q were drained.
Before(h, q, n, s, t) ==
  \/ h[s] = t /\ \A k \in 1 .. n - 1 : q[k].stream # s
  \/ \E j \in 1 .. n - 1 : /\ q[j].stream = s /\ q[j].type = t
                           /\ \A k \in j + 1 .. n - 1 : q[k].stream # s
Latest(h, e, s, t) == Before(h, e.event_queue, Len(e.event_queue) + 1, s, t)

MayFollow(role, type, before) ==
  \/ type = "new_stream" /\ before = "nothing" /\ role = "server"
  \/ type = "headers" /\ before = IF role = "server" THEN "new_stream" ELSE "nothing"
  \/ type \in {"data", "stream_closed"} /\ before \in {"headers", "data"}
  \/ type = "goaway" /\ before # "goaway"
  \/ type = "connection_error" /\ before = "nothing"

\* Every event may follow the one before it, and is about its stream's message.
QueueOK(e, h) ==
  \A i \in 1 .. Len(e.event_queue) :
    LET ev == e.event_queue[i]
    IN /\ ev.of = ev.stream
       /\ \E t \in Kinds : Before(h, e.event_queue, i, ev.stream, t) /\ MayFollow(e.role, ev.type, t)

\* Streams nothing was said of.
Unheard(e, s) ==
  IF e.role = "client" THEN s >= e.next_stream_id \/ (Opened(e, s) /\ s # e.active_stream)
                       ELSE s >= e.next_stream_id

HeardOK(e, h) ==
  /\ ~e.connection_done => Latest(h, e, 0, "nothing")
  /\ ~e.goaway_sent => Latest(h, e, 0, "nothing") \/ Latest(h, e, 0, "connection_error")
  /\ ~e.connection_done => \A s \in Streams : Unheard(e, s) => Latest(h, e, s, "nothing")
  /\ e.active_stream # 0 /\ e.state # "awaiting_response" =>
       CASE e.state \in {"start_line", "skip_interim"} -> Latest(h, e, e.active_stream, "nothing")
         [] e.state = "headers" ->
              Latest(h, e, e.active_stream, IF e.role = "client" THEN "nothing" ELSE "new_stream")
         [] OTHER -> \E t \in {"headers", "data"} : Latest(h, e, e.active_stream, t)

EInv(e, r, o, h, m, l) ==
  Shape(e) /\ OutputOK(e, o) /\ WireOK(e, r, o, m, l) /\ QueueOK(e, h) /\ HeardOK(e, h)

IInv ==
  /\ EInv(engine, wire, sent, heard, messages, last)
  /\ wire \in Seq(ItemSet) /\ sent \in Seq(ItemSet)
  /\ heard \in [Streams \union {0} -> Kinds]
  /\ messages \in Nat /\ last \in BOOLEAN
  /\ local \in [Streams -> {"none", "open", "length", "chunked", "done"}]
  /\ accepted \in [Streams -> Nat]

----------------------------------------------------------------------------
(* Induction over the natural numbers, by sets.                            *)

LEMMA LeastElement ==
  ASSUME NEW T, T \subseteq Nat, T # {}
  PROVE  \E x \in T : \A y \in T : ~(y < x)
<1> DEFINE R == {ss \in Nat \X Nat : ss[1] < ss[2]}
<1>1. IsWellFoundedOn(R, Nat)
  BY NatLessThanWellFounded DEF OpToRel
<1>2. \E x \in T : \A y \in T : ~(<<y, x>> \in R)
  <2> HIDE DEF R
  <2> QED  BY <1>1, WFMin
<1> QED  BY <1>2

\* A set that has 0 and every successor has every natural number.
LEMMA EveryNat ==
  ASSUME NEW T, 0 \in T, \A n \in Nat : n \in T => n + 1 \in T
  PROVE  Nat \subseteq T
<1> SUFFICES ASSUME Nat \ T # {} PROVE FALSE
  OBVIOUS
<1>1. PICK x \in Nat \ T : \A y \in Nat \ T : ~(y < x)
  BY LeastElement
<1>2. x - 1 \in Nat
  BY <1>1
<1>3. x - 1 \in T
  BY <1>1, <1>2
<1> QED  BY <1>1, <1>2, <1>3

----------------------------------------------------------------------------
(* parse_available as a run of parse steps.                                *)

\* The largest number of an interval.
LEMMA MaxOfInterval ==
  ASSUME NEW n \in Nat
  PROVE  Max(1 .. n + 1) = n + 1
  BY DEF Max

\* The recursion of FoldLeft has a solution, by induction on the length.
Folding(it, e, q, n) ==
  it = [t \in SUBSET (1 .. n) |-> IF t = {} THEN e ELSE ParseItem(it[t \ {Max(t)}], q[Max(t)])]

LEMMA FoldingExists ==
  ASSUME NEW e, NEW q, NEW n \in Nat
  PROVE  \E it : Folding(it, e, q, n)
<1> DEFINE T == {k \in Nat : \E it : Folding(it, e, q, k)}
<1>1. 0 \in T
  <2> DEFINE it == [t \in SUBSET (1 .. 0) |-> e]
  <2>1. it = [t \in SUBSET (1 .. 0) |-> IF t = {} THEN e ELSE ParseItem(it[t \ {Max(t)}], q[Max(t)])]
    <3>1. \A t \in SUBSET (1 .. 0) : t = {}
      OBVIOUS
    <3> QED  BY <3>1
  <2> QED  BY <2>1 DEF Folding
<1>2. ASSUME NEW k \in Nat, k \in T PROVE k + 1 \in T
  <2>1. PICK it : Folding(it, e, q, k)
    BY <1>2
  <2> DEFINE jt == [t \in SUBSET (1 .. k + 1) |->
                      IF k + 1 \in t THEN ParseItem(it[t \ {k + 1}], q[k + 1]) ELSE it[t]]
  <2>2. ASSUME NEW t \in SUBSET (1 .. k + 1)
        PROVE  jt[t] = IF t = {} THEN e ELSE ParseItem(jt[t \ {Max(t)}], q[Max(t)])
    <3>1. CASE k + 1 \in t
      <4>1. Max(t) = k + 1
        <5>1. \A y \in t : y \in Int /\ k + 1 >= y
          OBVIOUS
        <5>2. \A x \in t : (\A y \in t : x >= y) => x = k + 1
          BY <3>1, <5>1
        <5> QED  BY <3>1, <5>1, <5>2 DEF Max
      <4>2. t \ {k + 1} \in SUBSET (1 .. k + 1) /\ k + 1 \notin t \ {k + 1}
        OBVIOUS
      <4> QED  BY <3>1, <4>1, <4>2
    <3>2. CASE k + 1 \notin t
      <4>1. t \in SUBSET (1 .. k) /\ t \ {Max(t)} \in SUBSET (1 .. k)
        <5>1. \A y \in t : y \in 1 .. k
          BY <3>2
        <5> QED  BY <5>1
      <4>2. it[t] = IF t = {} THEN e ELSE ParseItem(it[t \ {Max(t)}], q[Max(t)])
        BY <2>1, <4>1 DEF Folding
      <4>3. jt[t] = it[t] /\ jt[t \ {Max(t)}] = it[t \ {Max(t)}]
        BY <3>2, <4>1
      <4> QED  BY <4>2, <4>3
    <3> QED  BY <3>1, <3>2
  <2>3. jt = [t \in SUBSET (1 .. k + 1) |->
                IF t = {} THEN e ELSE ParseItem(jt[t \ {Max(t)}], q[Max(t)])]
    BY <2>2
  <2>4. Folding(jt, e, q, k + 1)
    BY <2>3 DEF Folding
  <2> HIDE DEF jt
  <2> QED  BY <2>4
<1> HIDE DEF T
<1>3. Nat \subseteq T
  BY <1>1, <1>2, EveryNat
<1> QED  BY <1>3 DEF T

ParseAll(e, q) == FoldLeft(ParseItem, e, q)

\* The engines that parse_available goes through, item by item.
LEMMA ParseSteps ==
  ASSUME NEW e, NEW q \in Seq(ItemSet)
  PROVE  \E g : /\ g[0] = e /\ g[Len(q)] = ParseAll(e, q)
                /\ \A k \in 1 .. Len(q) : g[k] = ParseItem(g[k - 1], q[k])
<1> DEFINE n == Len(q)
           it == CHOOSE f : f = [t \in SUBSET DOMAIN q |->
                                   IF t = {} THEN e ELSE ParseItem(f[t \ {Max(t)}], q[Max(t)])]
           g == [k \in 0 .. n |-> it[1 .. k]]
<1>1. n \in Nat /\ DOMAIN q = 1 .. n
  OBVIOUS
<1>2. ParseAll(e, q) = it[DOMAIN q]
  BY DEF ParseAll, FoldLeft, MapThenFoldSet
<1>3. Folding(it, e, q, n)
  <2>1. \E f : Folding(f, e, q, n)
    BY <1>1, FoldingExists
  <2> QED  BY <1>1, <2>1 DEF Folding
<1> HIDE DEF it
<1>4. g[0] = e
  <2>1. 1 .. 0 \in SUBSET (1 .. n) /\ 1 .. 0 = {}
    BY <1>1
  <2> QED  BY <1>1, <1>3, <2>1 DEF Folding
<1>5. ASSUME NEW k \in 1 .. n PROVE g[k] = ParseItem(g[k - 1], q[k])
  <2>1. 1 .. k \in SUBSET (1 .. n) /\ 1 .. k # {} /\ (1 .. k) \ {k} = 1 .. k - 1
    <3>1. k \in Nat /\ k >= 1 /\ k <= n
      BY <1>1
    <3>2. \A i : i \in (1 .. k) \ {k} <=> i \in 1 .. k - 1
      BY <3>1
    <3>3. k \in 1 .. k /\ \A i \in 1 .. k : i \in 1 .. n
      BY <1>1, <3>1
    <3> QED  BY <3>2, <3>3
  <2>2. Max(1 .. k) = k
    <3>1. k - 1 \in Nat /\ (k - 1) + 1 = k
      BY <1>1
    <3> QED  BY <3>1, MaxOfInterval
  <2>3. it[1 .. k] = ParseItem(it[1 .. k - 1], q[k])
    BY <1>3, <2>1, <2>2 DEF Folding
  <2> QED  BY <1>1, <2>3
<1>6. g[n] = ParseAll(e, q)
  BY <1>1, <1>2
<1> HIDE DEF g
<1> QED  BY <1>4, <1>5, <1>6

----------------------------------------------------------------------------
(* Runs of the grammar.                                                    *)

Roles_ == {"client", "server"}

\* Where messages begin and end is a configuration.
LEMMA ConfigTypes ==
  /\ \A mode \in Modes, n \in Nat, s \in Nat, b \in BOOLEAN : At(mode, n, s, b) \in Configs
  /\ Idle \in Configs /\ Lost \in Configs
  /\ \A role \in Roles_, s \in Nat : Between(role, s) \in Configs
  /\ \A s \in Streams : s \in Nat /\ s # 0
<1>1. \A mode \in Modes, n \in Nat, s \in Nat, b \in BOOLEAN : At(mode, n, s, b) \in Configs
  BY DEF At, Configs
<1>2. {"idle", "lost", "start_line"} \subseteq Modes
  BY DEF Modes, ParseStates
<1>3. \A s \in Nat : s + 2 \in Nat
  OBVIOUS
<1>4. Idle \in Configs /\ Lost \in Configs
  BY <1>1, <1>2 DEF Idle, Lost
<1> QED  BY <1>1, <1>2, <1>3, <1>4, StreamsAssumption DEF Between

\* No items lead nowhere.
LEMMA RunNothing ==
  ASSUME NEW role, NEW c \in Configs
  PROVE  /\ Run(role, c, <<>>, c)
         /\ \A d : Run(role, c, <<>>, d) => d = c
<1>1. Len(<<>>) = 0
  OBVIOUS
<1> DEFINE lab == [i \in 0 .. 0 |-> c]
<1>2. lab \in [0 .. 0 -> Configs] /\ lab[0] = c
  OBVIOUS
<1> HIDE DEF lab
<1>3. \A i \in 1 .. 0 : FALSE
  OBVIOUS
<1>4. Run(role, c, <<>>, c)
  BY <1>1, <1>2, <1>3 DEF Run
<1>5. ASSUME NEW d, Run(role, c, <<>>, d) PROVE d = c
  BY <1>1, <1>5 DEF Run
<1> QED  BY <1>4, <1>5

\* The first item of a run is a step.
LEMMA RunFirst ==
  ASSUME NEW S, NEW role, NEW c, NEW d, NEW q \in Seq(S), q # <<>>, Run(role, c, q, d)
  PROVE  \E c1 \in Configs : Step(role, c, q[1], c1) /\ Run(role, c1, Tail(q), d)
<1>1. PICK lab \in [0 .. Len(q) -> Configs] :
        /\ lab[0] = c /\ lab[Len(q)] = d
        /\ \A i \in 1 .. Len(q) : Step(role, lab[i - 1], q[i], lab[i])
  BY DEF Run
<1>2. /\ Len(q) \in Nat \ {0} /\ Len(Tail(q)) = Len(q) - 1
      /\ \A i \in 1 .. Len(q) - 1 : Tail(q)[i] = q[i + 1]
  OBVIOUS
<1> DEFINE l == [i \in 0 .. Len(q) - 1 |-> lab[i + 1]]
<1>3. l \in [0 .. Len(Tail(q)) -> Configs] /\ l[0] = lab[1] /\ l[Len(Tail(q))] = d
  BY <1>1, <1>2
<1>4. ASSUME NEW i \in 1 .. Len(Tail(q))
      PROVE  Step(role, l[i - 1], Tail(q)[i], l[i])
  <2>1. i + 1 \in 1 .. Len(q) /\ (i + 1) - 1 = i
    BY <1>2
  <2>2. Step(role, lab[i], q[i + 1], lab[i + 1])
    BY <1>1, <2>1
  <2>3. l[i - 1] = lab[i] /\ l[i] = lab[i + 1] /\ Tail(q)[i] = q[i + 1]
    BY <1>2
  <2> QED  BY <2>2, <2>3
<1> HIDE DEF l
<1>5. Run(role, lab[1], Tail(q), d)
  BY <1>3, <1>4 DEF Run
<1>6. Step(role, c, q[1], lab[1]) /\ lab[1] \in Configs
  <2>1. 1 \in 1 .. Len(q) /\ 1 \in 0 .. Len(q) /\ 1 - 1 = 0
    BY <1>2
  <2> QED  BY <1>1, <2>1
<1> QED  BY <1>5, <1>6

\* A step is a run.
LEMMA RunStep ==
  ASSUME NEW role, NEW c \in Configs, NEW x, NEW d \in Configs, Step(role, c, x, d)
  PROVE  Run(role, c, <<x>>, d)
<1> DEFINE lab == [i \in 0 .. 1 |-> IF i = 0 THEN c ELSE d]
<1>1. Len(<<x>>) = 1 /\ <<x>>[1] = x
  OBVIOUS
<1>2. lab \in [0 .. 1 -> Configs] /\ lab[0] = c /\ lab[1] = d
  OBVIOUS
<1> HIDE DEF lab
<1>3. \A i \in 1 .. 1 : Step(role, lab[i - 1], <<x>>[i], lab[i])
  <2>1. \A i \in 1 .. 1 : i = 1 /\ i - 1 = 0
    OBVIOUS
  <2> QED  BY <1>1, <1>2, <2>1
<1> QED  BY <1>1, <1>2, <1>3 DEF Run

\* Runs follow one another.
LEMMA RunConcat ==
  ASSUME NEW S, NEW role, NEW c, NEW p \in Seq(S), NEW b, NEW q \in Seq(S), NEW d,
         Run(role, c, p, b), Run(role, b, q, d)
  PROVE  Run(role, c, p \o q, d)
<1>1. PICK lp \in [0 .. Len(p) -> Configs] :
        /\ lp[0] = c /\ lp[Len(p)] = b
        /\ \A i \in 1 .. Len(p) : Step(role, lp[i - 1], p[i], lp[i])
  BY DEF Run
<1>2. PICK lq \in [0 .. Len(q) -> Configs] :
        /\ lq[0] = b /\ lq[Len(q)] = d
        /\ \A i \in 1 .. Len(q) : Step(role, lq[i - 1], q[i], lq[i])
  BY DEF Run
<1> DEFINE n == Len(p)
           k == Len(q)
           lab == [i \in 0 .. n + k |-> IF i <= n THEN lp[i] ELSE lq[i - n]]
<1>3. /\ n \in Nat /\ k \in Nat /\ Len(p \o q) = n + k
      /\ \A i \in 1 .. n + k : (p \o q)[i] = IF i <= n THEN p[i] ELSE q[i - n]
  OBVIOUS
<1>4. lab \in [0 .. n + k -> Configs]
  BY <1>3
<1>5. lab[0] = c /\ lab[n + k] = d
  BY <1>1, <1>2, <1>3
<1>6. ASSUME NEW i \in 1 .. n + k
      PROVE  Step(role, lab[i - 1], (p \o q)[i], lab[i])
  <2>1. CASE i <= n
    <3>1. i \in 1 .. n /\ lab[i - 1] = lp[i - 1] /\ lab[i] = lp[i] /\ (p \o q)[i] = p[i]
      BY <2>1, <1>3
    <3> QED  BY <3>1, <1>1
  <2>2. CASE i > n
    <3>1. i - n \in 1 .. k /\ (i - n) - 1 = (i - 1) - n
      BY <2>2, <1>3
    <3>2. lab[i] = lq[i - n] /\ (p \o q)[i] = q[i - n]
      BY <2>2, <1>3
    <3>3. lab[i - 1] = lq[(i - n) - 1]
      <4>1. i - 1 \in 0 .. n + k
        BY <1>3
      <4>2. CASE i - n = 1
        <5>1. i - 1 = n /\ lab[i - 1] = lp[n]
          BY <4>1, <4>2, <1>3
        <5> QED  BY <5>1, <4>2, <1>1, <1>2
      <4>3. CASE i - n # 1
        <5>1. ~(i - 1 <= n)
          BY <4>3, <2>2, <1>3
        <5> QED  BY <4>1, <5>1, <3>1
      <4> QED  BY <4>2, <4>3
    <3> QED  BY <3>1, <3>2, <3>3, <1>2
  <2> QED  BY <1>3, <2>1, <2>2
<1> HIDE DEF lab
<1> QED  BY <1>3, <1>4, <1>5, <1>6 DEF Run

\* Once lost, anything may come.
LEMMA RunLost ==
  ASSUME NEW S, NEW role, NEW q \in Seq(S)
  PROVE  Run(role, Lost, q, Lost)
<1> DEFINE lab == [i \in 0 .. Len(q) |-> Lost]
<1>1. lab \in [0 .. Len(q) -> Configs] /\ lab[0] = Lost /\ lab[Len(q)] = Lost
  BY ConfigTypes
<1>2. \A i \in 1 .. Len(q) : Step(role, lab[i - 1], q[i], lab[i])
  BY DEF Step, Lost, At
<1> HIDE DEF lab
<1> QED  BY <1>1, <1>2 DEF Run

\* Between messages a broken line loses the peer.
LEMMA RunBroken ==
  ASSUME NEW S, NEW role, NEW c \in Configs, NEW q \in Seq(S), q # <<>>,
         c.mode \in {"idle", "start_line"}, q[1].type = "overlong"
  PROVE  Run(role, c, q, Lost)
<1>1. Step(role, c, q[1], Lost)
  BY DEF Step
<1>2. Run(role, c, <<q[1]>>, Lost)
  BY <1>1, RunStep, ConfigTypes
<1>3. q = <<q[1]>> \o Tail(q) /\ <<q[1]>> \in Seq(S) /\ Tail(q) \in Seq(S)
  OBVIOUS
<1> HIDE DEF Lost
<1>4. Run(role, Lost, Tail(q), Lost)
  BY <1>3, RunLost
<1> QED  BY <1>2, <1>3, <1>4, RunConcat

\* When a client waits for nothing, nothing but a broken line may come.
LEMMA RunIdle ==
  ASSUME NEW S, NEW role, NEW q \in Seq(S), NEW d, Run(role, Idle, q, d)
  PROVE  q = <<>> \/ q[1].type = "overlong"
<1> SUFFICES ASSUME q # <<>> PROVE q[1].type = "overlong"
  OBVIOUS
<1>1. PICK c1 \in Configs : Step(role, Idle, q[1], c1)
  BY RunFirst
<1> QED  BY <1>1, StreamsAssumption DEF Step, Idle, At

----------------------------------------------------------------------------
(* Messages are runs of the grammar.                                       *)

\* The members of an item.
LEMMA ItemMembers ==
  ASSUME NEW type \in ItemTypes, NEW s \in Streams \union {0}, NEW n \in Nat
  PROVE  /\ Item(type, s, n) \in ItemSet
         /\ type # "overlong" => Item(type, s, n) \in Plain
         /\ Item(type, s, n).type = type /\ Item(type, s, n).stream = s /\ Item(type, s, n).n = n
  BY DEF Item, ItemSet, Framings, Plain

\* The two items of a head.
LEMMA HeadItems ==
  ASSUME NEW s \in Streams \union {0}, NEW b \in BOOLEAN, NEW f \in Framings, NEW n \in Nat,
         NEW c \in BOOLEAN
  PROVE  /\ Start(s, b) \in Plain
         /\ Start(s, b).type = "start" /\ Start(s, b).stream = s /\ Start(s, b).bodyless = b
         /\ Fields(s, f, n, c) \in Plain
         /\ Fields(s, f, n, c).type = "fields" /\ Fields(s, f, n, c).stream = s
         /\ Fields(s, f, n, c).framing = f /\ Fields(s, f, n, c).n = n
  BY DEF Start, Fields, Item, ItemSet, ItemTypes, Framings, Plain

\* The units of a body are as many as its framing announced.
LEMMA RunUnits ==
  ASSUME NEW role, NEW s \in Streams, NEW n \in Nat \ {0}, NEW mode, NEW d \in Configs,
         \/ mode = "body_length" /\ d = Between(role, s)
         \/ mode = "chunk_data" /\ d = At("chunk_crlf", 0, s, FALSE)
  PROVE  Run(role, At(mode, n, s, FALSE), Units(s, n), d)
<1> DEFINE lab == [i \in 0 .. n |-> IF i = n THEN d ELSE At(mode, n - i, s, FALSE)]
<1>1. s \in Nat /\ mode \in Modes
  BY ConfigTypes DEF Modes, ParseStates
<1>2. lab \in [0 .. n -> Configs]
  <2>1. ASSUME NEW i \in 0 .. n, i # n PROVE At(mode, n - i, s, FALSE) \in Configs
    <3>1. n - i \in Nat
      BY <2>1
    <3> QED  BY <3>1, <1>1, ConfigTypes
  <2> QED  BY <2>1
<1>3. lab[0] = At(mode, n, s, FALSE) /\ lab[n] = d
  <2>1. n - 0 = n /\ 0 # n /\ 0 \in 0 .. n /\ n \in 0 .. n
    OBVIOUS
  <2> QED  BY <2>1
<1>4. Len(Units(s, n)) = n /\ \A i \in 1 .. n : Units(s, n)[i] = Body(s)
  BY DEF Units
<1>5. Body(s).type = "body" /\ Body(s).stream = s
  BY ItemMembers DEF Body, ItemTypes
<1>6. ASSUME NEW i \in 1 .. n PROVE Step(role, lab[i - 1], Units(s, n)[i], lab[i])
  <2> DEFINE c == At(mode, n - (i - 1), s, FALSE)
  <2>1. lab[i - 1] = c /\ c.mode = mode /\ c.stream = s /\ c.rem = n - (i - 1)
    BY DEF At
  <2>2. lab[i] = IF i = n THEN d ELSE At(mode, n - i, s, FALSE)
    <3>1. i \in 0 .. n
      OBVIOUS
    <3> HIDE DEF c
    <3> QED  BY <3>1
  <2> HIDE DEF c, lab
  <2>3. (c.rem = 1 <=> i = n) /\ c.rem - 1 = n - i
    BY <2>1
  <2>4. StepBody(c, lab[i], d)
    BY <2>1, <2>2, <2>3 DEF StepBody
  <2>5. StepMessage(role, c, Body(s), lab[i])
    BY <2>1, <2>4, <1>5 DEF StepMessage
  <2> QED  BY <2>1, <2>5, <1>4, <1>5 DEF Step
<1> HIDE DEF lab
<1> QED  BY <1>2, <1>3, <1>4, <1>6 DEF Run

\* A body without framing goes on until the connection ends.
LEMMA RunUntilClose ==
  ASSUME NEW role, NEW s \in Streams, NEW n \in Nat
  PROVE  Run(role, At("body_until_close", 0, s, FALSE), Units(s, n), At("body_until_close", 0, s, FALSE))
<1> DEFINE c == At("body_until_close", 0, s, FALSE)
           lab == [i \in 0 .. n |-> c]
<1>1. c \in Configs /\ c.mode = "body_until_close" /\ c.stream = s
  BY ConfigTypes DEF Modes, ParseStates, At
<1> HIDE DEF c
<1>2. lab \in [0 .. n -> Configs] /\ lab[0] = c /\ lab[n] = c
  BY <1>1
<1>4. Len(Units(s, n)) = n /\ \A i \in 1 .. n : Units(s, n)[i] = Body(s)
  BY DEF Units
<1>5. Body(s).type = "body" /\ Body(s).stream = s
  BY ItemMembers DEF Body, ItemTypes
<1>6. \A i \in 1 .. n : Step(role, lab[i - 1], Units(s, n)[i], lab[i])
  <2>1. Step(role, c, Body(s), c)
    BY <1>1, <1>5 DEF Step, StepMessage
  <2>2. \A i \in 1 .. n : lab[i - 1] = c /\ lab[i] = c
    OBVIOUS
  <2> HIDE DEF lab
  <2> QED  BY <2>1, <2>2, <1>4
<1> HIDE DEF lab
<1> QED  BY <1>2, <1>4, <1>6 DEF Run, c

\* The units of a body are items.
LEMMA UnitsType ==
  ASSUME NEW s \in Streams \union {0}, NEW n \in Nat
  PROVE  /\ Units(s, n) \in Seq(Plain)
         /\ n = 0 => Units(s, n) = <<>>
         /\ \A i \in 1 .. Len(Units(s, n)) : Units(s, n)[i].type = "body" /\ Units(s, n)[i].stream = s
<1>1. Body(s) \in Plain /\ Body(s).type = "body" /\ Body(s).stream = s
  BY ItemMembers DEF Body, ItemTypes
<1> QED  BY <1>1 DEF Units

\* Two steps are a run.
LEMMA RunTwo ==
  ASSUME NEW role, NEW c \in Configs, NEW x, NEW b \in Configs, NEW y, NEW d \in Configs,
         Step(role, c, x, b), Step(role, b, y, d)
  PROVE  Run(role, c, <<x, y>>, d)
<1> DEFINE lab == [i \in 0 .. 2 |-> IF i = 0 THEN c ELSE IF i = 1 THEN b ELSE d]
<1>1. Len(<<x, y>>) = 2 /\ <<x, y>>[1] = x /\ <<x, y>>[2] = y
  OBVIOUS
<1>2. lab \in [0 .. 2 -> Configs] /\ lab[0] = c /\ lab[1] = b /\ lab[2] = d
  OBVIOUS
<1> HIDE DEF lab
<1>3. \A i \in 1 .. 2 : Step(role, lab[i - 1], <<x, y>>[i], lab[i])
  <2>1. \A i \in 1 .. 2 : (i = 1 /\ i - 1 = 0) \/ (i = 2 /\ i - 1 = 1)
    OBVIOUS
  <2> QED  BY <1>1, <1>2, <2>1
<1> QED  BY <1>1, <1>2, <1>3 DEF Run

\* One chunk, if any, and the last one.
LEMMA RunChunks ==
  ASSUME NEW role \in Roles_, NEW s \in Streams, NEW n \in Nat
  PROVE  /\ Payload(s, "chunked", n) \in Seq(Plain)
         /\ Run(role, At("chunk_size", 0, s, FALSE), Payload(s, "chunked", n), Between(role, s))
<1> DEFINE size    == At("chunk_size", 0, s, FALSE)
           data    == At("chunk_data", n, s, FALSE)
           crlf    == At("chunk_crlf", 0, s, FALSE)
           trailer == At("chunk_trailer", 0, s, FALSE)
           end     == Between(role, s)
<1>1. size \in Configs /\ data \in Configs /\ crlf \in Configs /\ trailer \in Configs /\ end \in Configs
  BY ConfigTypes DEF Modes, ParseStates
<1>2. /\ Size(s, 0) \in Plain /\ Size(s, 0).type = "size" /\ Size(s, 0).stream = s /\ Size(s, 0).n = 0
      /\ Size(s, n) \in Plain /\ Size(s, n).type = "size" /\ Size(s, n).stream = s /\ Size(s, n).n = n
      /\ Crlf(s) \in Plain /\ Crlf(s).type = "crlf" /\ Crlf(s).stream = s
  BY ItemMembers DEF Size, Crlf, ItemTypes
<1>3. /\ Step(role, size, Size(s, 0), trailer) /\ Step(role, trailer, Crlf(s), end)
      /\ Step(role, crlf, Crlf(s), size)
      /\ n # 0 => Step(role, size, Size(s, n), data)
  BY <1>2 DEF Step, StepMessage, At
<1> HIDE DEF size, data, crlf, trailer, end
<1> DEFINE rest == <<Size(s, 0), Crlf(s)>>
           sn == <<Size(s, n)>>
           nl == <<Crlf(s)>>
           us == Units(s, n)
<1>4. rest \in Seq(Plain) /\ sn \in Seq(Plain) /\ nl \in Seq(Plain) /\ us \in Seq(Plain)
  BY <1>2, UnitsType
<1>5. Payload(s, "chunked", n) = (IF n > 0 THEN sn \o us \o nl ELSE <<>>) \o rest
  BY DEF Payload
<1>6. /\ Run(role, size, rest, end)
      /\ Run(role, crlf, nl, size)
      /\ n # 0 => Run(role, size, sn, data)
  BY <1>1, <1>3, RunStep, RunTwo
<1>7. n # 0 => Run(role, data, us, crlf)
  BY <1>1, RunUnits DEF data, crlf
<1> HIDE DEF rest, sn, nl, us
<1>9. CASE n = 0
  <2>1. Payload(s, "chunked", n) = rest
    BY <1>4, <1>5, <1>9, ConcatEmptySeq
  <2> QED  BY <1>4, <1>6, <2>1 DEF size, end
<1>10. CASE n # 0
  <2> DEFINE chunk == sn \o us
             first == chunk \o nl
  <2>1. chunk \in Seq(Plain) /\ Run(role, size, chunk, crlf)
    BY <1>4, <1>6, <1>7, <1>10, RunConcat
  <2>3. Payload(s, "chunked", n) = first \o rest
    <3>1. n > 0
      BY <1>10
    <3> QED  BY <1>5, <3>1
  <2> HIDE DEF chunk
  <2>2. first \in Seq(Plain) /\ Run(role, size, first, size)
    BY <1>4, <1>6, <2>1, RunConcat
  <2> HIDE DEF first
  <2>4. first \o rest \in Seq(Plain) /\ Run(role, size, first \o rest, end)
    BY <1>4, <1>6, <2>2, RunConcat
  <2> QED  BY <2>3, <2>4 DEF size, end
<1> QED  BY <1>9, <1>10

\* What follows a header block is what its framing announced.
LEMMA RunBody ==
  ASSUME NEW role \in Roles_, NEW s \in Streams, NEW f \in Plain,
         role = "server" /\ f.framing = "none" => f.n = 0
  PROVE  /\ Payload(s, f.framing, f.n) \in Seq(Plain)
         /\ \E b \in Configs, d \in Configs :
              /\ StepFields(role, At("headers", 0, s, FALSE), f, b)
              /\ Run(role, b, Payload(s, f.framing, f.n), d)
              /\ \/ d = Between(role, s) \/ d = Lost
                 \/ d.mode = "body_until_close" /\ f.framing = "none" /\ role = "client"
<1> DEFINE c == At("headers", 0, s, FALSE)
           p == Payload(s, f.framing, f.n)
           end == Between(role, s)
<1>1. f.framing \in Framings /\ f.n \in Nat
  BY DEF ItemSet, Plain
<1>2. c.bodyless = FALSE /\ c.stream = s /\ s \in Nat
  BY ConfigTypes DEF At
<1>3. end \in Configs /\ Lost \in Configs /\ Run(role, end, <<>>, end)
  BY <1>2, ConfigTypes, RunNothing
<1>4. f.framing # "chunked" => p = Units(s, f.n)
  BY DEF Payload
<1>5. p \in Seq(Plain)
  <2>1. Units(s, f.n) \in Seq(Plain)
    BY <1>1, UnitsType
  <2> QED  BY <1>1, <1>4, <2>1, RunChunks
<1>6. CASE f.framing = "chunked"
  <2> DEFINE b == At("chunk_size", 0, s, FALSE)
  <2>1. b \in Configs
    BY <1>2, ConfigTypes DEF Modes, ParseStates
  <2>2. StepFields(role, c, f, b)
    BY <1>2, <1>6 DEF StepFields
  <2>3. Run(role, b, p, end)
    BY <1>1, <1>6, RunChunks
  <2> HIDE DEF b, end
  <2> QED  BY <1>3, <1>5, <2>1, <2>2, <2>3 DEF end
<1>7. CASE f.framing = "bad"
  <2>1. StepFields(role, c, f, Lost)
    BY <1>2, <1>7 DEF StepFields
  <2>2. Run(role, Lost, p, Lost)
    BY <1>5, RunLost
  <2> QED  BY <1>3, <1>5, <2>1, <2>2
<1>8. CASE (f.framing = "length" /\ f.n = 0) \/ (f.framing = "none" /\ role = "server")
  <2>1. StepFields(role, c, f, end)
    BY <1>2, <1>8 DEF StepFields
  <2>2. p = <<>>
    BY <1>1, <1>4, <1>8, UnitsType
  <2> HIDE DEF end, p
  <2> QED  BY <1>3, <1>5, <2>1, <2>2 DEF end, p
<1>9. CASE f.framing = "length" /\ f.n # 0
  <2> DEFINE b == At("body_length", f.n, s, FALSE)
  <2>1. b \in Configs
    BY <1>1, <1>2, ConfigTypes DEF Modes, ParseStates
  <2>2. StepFields(role, c, f, b)
    BY <1>2, <1>9 DEF StepFields
  <2>3. Run(role, b, p, end)
    BY <1>1, <1>3, <1>4, <1>9, RunUnits
  <2> HIDE DEF b, end
  <2> QED  BY <1>3, <1>5, <2>1, <2>2, <2>3 DEF end
<1>10. CASE f.framing = "none" /\ role = "client"
  <2> DEFINE b == At("body_until_close", 0, s, FALSE)
  <2>1. b \in Configs /\ b.mode = "body_until_close"
    BY <1>1, <1>2, ConfigTypes DEF Modes, ParseStates, At
  <2>2. StepFields(role, c, f, b)
    BY <1>2, <1>10 DEF StepFields
  <2>3. Run(role, b, p, b)
    BY <1>1, <1>4, <1>10, RunUntilClose
  <2> HIDE DEF b
  <2> QED  BY <1>5, <1>10, <2>1, <2>2, <2>3
<1>11. \/ f.framing = "chunked" \/ f.framing = "bad"
       \/ f.framing = "length" /\ f.n = 0
       \/ f.framing = "none" /\ role = "server"
       \/ f.framing = "length" /\ f.n # 0
       \/ f.framing = "none" /\ role = "client"
  <2> HIDE DEF c, p, end
  <2>1. role = "client" \/ role = "server"
    BY DEF Roles_
  <2>2. f.framing \in {"none", "length", "chunked", "bad"}
    BY <1>1 DEF Framings
  <2> QED  BY <2>1, <2>2
<1> HIDE DEF c, p, end
<1> QED  BY <1>6, <1>7, <1>8, <1>9, <1>10, <1>11 DEF c, p, end

\* A start line and the rest of its header block.
HeadOf(s, m) == <<Start(s, m.bodyless), [Fields(s, m.framing, m.n, m.close) EXCEPT !.expect = m.expect]>>

\* A start line is an item.
LEMMA StartItem ==
  ASSUME NEW s \in Streams, NEW b \in BOOLEAN
  PROVE  Start(s, b) \in Plain /\ Start(s, b).type = "start" /\ Start(s, b).stream = s /\ Start(s, b).bodyless = b
  BY DEF Start, Item, ItemSet, ItemTypes, Framings, Plain

\* The rest of a header block is an item.
LEMMA FieldsItem ==
  ASSUME NEW s \in Streams \union {0}, NEW f \in Framings, NEW n \in Nat, NEW c \in BOOLEAN
  PROVE  Fields(s, f, n, c) \in Plain /\ Fields(s, f, n, c).type = "fields" /\ Fields(s, f, n, c).stream = s
  BY DEF Fields, Item, ItemSet, ItemTypes, Framings, Plain

\* The members of a message.
LEMMA MessageMembers ==
  ASSUME NEW m \in MessageSet, NEW s \in Streams \union {0}
  PROVE  LET f == [Fields(s, m.framing, m.n, m.close) EXCEPT !.expect = m.expect]
         IN /\ m.bodyless \in BOOLEAN /\ m.framing \in Framings /\ m.n \in Nat
            /\ f \in Plain /\ f.type = "fields" /\ f.stream = s /\ f.framing = m.framing /\ f.n = m.n
            /\ HeadOf(s, m) \in Seq(Plain)
<1> DEFINE g == Fields(s, m.framing, m.n, m.close)
           f == [g EXCEPT !.expect = m.expect]
<1>1. m.bodyless \in BOOLEAN /\ m.framing \in Framings /\ m.n \in Nat /\ m.close \in BOOLEAN /\ m.expect \in BOOLEAN
  BY DEF MessageSet
<1>2. g \in Plain /\ g.type = "fields" /\ g.stream = s /\ g.framing = m.framing /\ g.n = m.n
  BY <1>1, HeadItems
<1> HIDE DEF g
<1>3. f \in Plain /\ f.type = "fields" /\ f.stream = s /\ f.framing = m.framing /\ f.n = m.n
  BY <1>1, <1>2 DEF ItemSet, Plain
<1>4. Start(s, m.bodyless) \in Plain
  BY <1>1, HeadItems DEF Framings
<1>5. HeadOf(s, m) \in Seq(Plain)
  <2>1. f \in Plain
    BY <1>3
  <2> QED  BY <1>4, <2>1 DEF HeadOf, g
<1> QED  BY <1>1, <1>3, <1>5 DEF g

\* A request is a run to the next, or to a framing that the server refuses.
LEMMA RunRequest ==
  ASSUME NEW s \in Streams, NEW m \in Requests
  PROVE  /\ Message(s, m, TRUE) \in Seq(Plain)
         /\ \E d \in Configs : /\ Run("server", At("start_line", 0, s, FALSE), Message(s, m, TRUE), d)
                               /\ d = Lost \/ d = At("start_line", 0, s + 2, FALSE)
<1> DEFINE f == [Fields(s, m.framing, m.n, m.close) EXCEPT !.expect = m.expect]
           a == At("start_line", 0, s, FALSE)
           c == At("headers", 0, s, FALSE)
           p == Payload(s, m.framing, m.n)
<1>1. m \in MessageSet /\ ~m.interim /\ (m.framing = "none" => m.n = 0)
  BY MessagesAssumption, RequestsAssumption
<1>2. /\ f \in Plain /\ f.type = "fields" /\ f.stream = s /\ f.framing = m.framing /\ f.n = m.n
      /\ HeadOf(s, m) \in Seq(Plain) /\ m.bodyless \in BOOLEAN
  BY <1>1, MessageMembers
<1> HIDE DEF f
<1>3. PICK b \in Configs, d \in Configs :
        /\ p \in Seq(Plain) /\ StepFields("server", c, f, b) /\ Run("server", b, p, d)
        /\ d = Between("server", s) \/ d = Lost
  BY <1>1, <1>2, RunBody DEF Roles_
<1>4. a \in Configs /\ c \in Configs
  BY ConfigTypes DEF Modes, ParseStates
<1> DEFINE x == Start(s, m.bodyless)
           hd == HeadOf(s, m)
<1>9. x.type = "start" /\ x.stream = s
  BY <1>2, StartItem
<1>10. a.mode = "start_line" /\ a.stream = s /\ c.mode = "headers" /\ c.stream = s
  BY DEF At
<1>11. c = At("headers", 0, a.stream, "server" = "client" /\ (a.bodyless \/ x.bodyless))
  BY <1>10
<1>12. hd = <<x, f>>
  BY DEF HeadOf, f
<1> HIDE DEF x, a, c, hd
<1>5. Step("server", a, x, c) /\ Step("server", c, f, b)
  BY <1>2, <1>3, <1>9, <1>10, <1>11 DEF Step, StepMessage
<1>6. Run("server", a, hd, b)
  BY <1>4, <1>5, <1>12, RunTwo
<1>8. Message(s, m, TRUE) = hd \o p
  <2>1. Message(s, m, TRUE) = <<>> \o hd \o p
    BY <1>1 DEF Message, HeadOf, hd, p
  <2> QED  BY <1>2, <2>1, ConcatEmptySeq DEF hd
<1> HIDE DEF p
<1>7. hd \o p \in Seq(Plain) /\ Run("server", a, hd \o p, d)
  <2>1. hd \in Seq(Plain)
    BY <1>2 DEF hd
  <2> QED  BY <2>1, <1>3, <1>6, RunConcat
<1> QED  BY <1>3, <1>7, <1>8 DEF Between, a

\* A response is a run to the end of its exchange, to the end of the
\* connection, or to a framing that the client refuses.
LEMMA RunResponse ==
  ASSUME NEW s \in Streams, NEW head \in BOOLEAN, NEW m \in Responses, NEW hasBody,
         hasBody = ~(head \/ m.bodyless)
  PROVE  /\ Message(s, m, hasBody) \in Seq(Plain)
         /\ \E d \in Configs :
              /\ Run("client", At("start_line", 0, s, head), Message(s, m, hasBody), d)
              /\ d = Idle \/ d = Lost \/ (m.framing = "none" /\ hasBody)
<1> DEFINE f == [Fields(s, m.framing, m.n, m.close) EXCEPT !.expect = m.expect]
           a == At("start_line", 0, s, head)
           c == At("headers", 0, s, ~hasBody)
           p == IF hasBody THEN Payload(s, m.framing, m.n) ELSE <<>>
           i == IF m.interim THEN <<Item("interim", s, 0), Fields(s, "none", 0, FALSE)>> ELSE <<>>
<1>1. m \in MessageSet
  BY MessagesAssumption
<1>2. /\ f \in Plain /\ f.type = "fields" /\ f.stream = s /\ f.framing = m.framing /\ f.n = m.n
      /\ HeadOf(s, m) \in Seq(Plain) /\ m.bodyless \in BOOLEAN
  BY <1>1, MessageMembers
<1>4. a \in Configs /\ c \in Configs
  BY <1>2, ConfigTypes DEF Modes, ParseStates
<1> HIDE DEF f
<1>3. \E b \in Configs, d \in Configs :
        /\ p \in Seq(Plain) /\ StepFields("client", c, f, b) /\ Run("client", b, p, d)
        /\ d = Idle \/ d = Lost \/ (m.framing = "none" /\ hasBody)
  <2>1. CASE hasBody
    <3>1. c = At("headers", 0, s, FALSE) /\ p = Payload(s, f.framing, f.n)
      BY <2>1, <1>2
    <3> HIDE DEF c, p
    <3> QED  BY ZenonT(60), <2>1, <3>1, <1>2, RunBody DEF Roles_, Between
  <2>2. CASE ~hasBody
    <3>1. StepFields("client", c, f, Idle)
      BY <2>2 DEF StepFields, At
    <3>2. p = <<>> /\ p \in Seq(Plain) /\ Idle \in Configs /\ Run("client", Idle, p, Idle)
      BY <2>2, ConfigTypes, RunNothing
    <3> HIDE DEF p, c
    <3> QED  BY <3>1, <3>2
  <2> QED  BY <2>1, <2>2
<1>5. PICK b \in Configs, d \in Configs :
        /\ p \in Seq(Plain) /\ StepFields("client", c, f, b) /\ Run("client", b, p, d)
        /\ d = Idle \/ d = Lost \/ (m.framing = "none" /\ hasBody)
  BY <1>3
<1> DEFINE x == Start(s, m.bodyless)
           hd == HeadOf(s, m)
<1>12. x.type = "start" /\ x.stream = s /\ x.bodyless = m.bodyless
  BY <1>2, StartItem
<1>13. a.mode = "start_line" /\ a.stream = s /\ a.bodyless = head /\ c.mode = "headers" /\ c.stream = s
  BY DEF At
<1>14. c = At("headers", 0, a.stream, "client" = "client" /\ (a.bodyless \/ x.bodyless))
  <2>1. (~hasBody) = (head \/ m.bodyless)
    OBVIOUS
  <2> QED  BY <1>12, <1>13, <2>1
<1>15. hd = <<x, f>> /\ hd \in Seq(Plain)
  BY <1>2 DEF HeadOf, f
<1>6. Step("client", a, x, c) /\ Step("client", c, f, b)
  <2> HIDE DEF x, a, c, hd
  <2> QED  BY <1>2, <1>5, <1>12, <1>13, <1>14 DEF Step, StepMessage
<1>7. Run("client", a, hd, b)
  <2> HIDE DEF x, a, c, hd
  <2> QED  BY <1>4, <1>5, <1>6, <1>15, RunTwo
<1>8. i \in Seq(Plain) /\ Run("client", a, i, a)
  <2>1. CASE ~m.interim
    BY <2>1, <1>4, RunNothing
  <2>2. CASE m.interim
    <3> DEFINE k == At("skip_interim", 0, s, head)
               u == Item("interim", s, 0)
               v == Fields(s, "none", 0, FALSE)
    <3>1. k \in Configs
      BY ConfigTypes DEF Modes, ParseStates
    <3>2. /\ u \in Plain /\ u.type = "interim" /\ u.stream = s
          /\ v \in Plain /\ v.type = "fields" /\ v.stream = s
      <4>1. "interim" \in ItemTypes /\ "none" \in Framings /\ 0 \in Nat /\ FALSE \in BOOLEAN
        BY DEF ItemTypes, Framings
      <4>2. s \in Streams \union {0}
        OBVIOUS
      <4>3. u \in Plain /\ u.type = "interim" /\ u.stream = s
        BY <4>1, <4>2, ItemMembers
      <4>4. v \in Plain /\ v.type = "fields" /\ v.stream = s
        <5> DEFINE z == Fields(s, "none", 0, FALSE)
        <5>1. z \in Plain /\ z.type = "fields" /\ z.stream = s
          BY <4>1, <4>2, FieldsItem
        <5> QED  BY <5>1
      <4> QED  BY <4>3, <4>4
    <3> HIDE DEF u, v
    <3>3. Step("client", a, u, k) /\ Step("client", k, v, a)
      BY <3>2 DEF Step, StepMessage, At
    <3>4. Run("client", a, <<u, v>>, a) /\ <<u, v>> \in Seq(Plain)
      BY <1>4, <3>1, <3>2, <3>3, RunTwo
    <3> QED  BY <2>2, <3>4 DEF u, v
  <2> QED  BY <2>1, <2>2
<1>11. Message(s, m, hasBody) = i \o hd \o p
  BY DEF Message, HeadOf
<1> HIDE DEF p, i, a, hd
<1> DEFINE ih == i \o hd
<1>9. ih \in Seq(Plain) /\ Run("client", a, ih, b)
  <2>1. hd \in Seq(Plain) /\ i \in Seq(Plain)
    BY <1>8, <1>15 DEF hd
  <2> QED  BY <2>1, <1>7, <1>8, RunConcat
<1>16. Message(s, m, hasBody) = ih \o p
  BY <1>11
<1> HIDE DEF ih
<1>10. ih \o p \in Seq(Plain) /\ Run("client", a, ih \o p, d)
  BY <1>5, <1>9, RunConcat
<1> QED  BY <1>5, <1>10, <1>16 DEF a

----------------------------------------------------------------------------
(* Events.                                                                 *)

\* The members of an engine.
LEMMA EngineMembers ==
  ASSUME NEW e \in EngineSet
  PROVE  /\ e.role \in Roles_ /\ e.state \in ParseStates
         /\ e.input \in Seq(ItemSet) /\ e.pending_out \in Seq(ItemSet)
         /\ e.streams \in [Streams -> StreamSet] /\ e.stream_order \in Seq(Streams)
         /\ e.next_stream_id \in Nat /\ e.active_stream \in Streams \union {0}
         /\ e.body_remaining \in Nat /\ e.event_queue \in Seq(EventSet)
         /\ e.connection_done \in BOOLEAN /\ e.goaway_sent \in BOOLEAN /\ e.bodyless \in BOOLEAN
         /\ e.output_ready_cb \in BOOLEAN /\ e.had_output \in BOOLEAN /\ e.eof_seen \in BOOLEAN
  BY DEF EngineSet, Roles_

\* The members of a stream.
LEMMA StreamMembers ==
  ASSUME NEW e \in EngineSet, NEW s \in Streams
  PROVE  /\ e.streams[s] \in StreamSet
         /\ e.streams[s].present \in BOOLEAN /\ e.streams[s].bodyless \in BOOLEAN
         /\ e.streams[s].head \in Seq(ItemSet) /\ e.streams[s].body_staged \in Seq(ItemSet)
         /\ e.streams[s].head_sent \in BOOLEAN /\ e.streams[s].close_after \in BOOLEAN
         /\ e.streams[s].chunked \in BOOLEAN /\ e.streams[s].no_body \in BOOLEAN
         /\ e.streams[s].request_body_done \in BOOLEAN /\ e.streams[s].request_complete \in BOOLEAN
<1>1. e.streams[s] \in StreamSet
  BY EngineMembers
<1> QED  BY <1>1 DEF StreamSet

\* What was said last only depends on the queue.
LEMMA SameQueue ==
  ASSUME NEW h, NEW e, NEW f, f.event_queue = e.event_queue
  PROVE  /\ \A s, t : Latest(h, f, s, t) <=> Latest(h, e, s, t)
         /\ f.role = e.role => (QueueOK(f, h) <=> QueueOK(e, h))
  BY DEF Latest, QueueOK

\* An event that is appended is the last of its stream, and of no other.
LEMMA AppendedQueue ==
  ASSUME NEW h, NEW e, NEW f, e.event_queue \in Seq(EventSet), NEW ev \in EventSet,
         f.event_queue = Append(e.event_queue, ev), f.role = e.role
  PROVE  /\ Latest(h, f, ev.stream, ev.type)
         /\ \A s, t : s # ev.stream /\ Latest(h, e, s, t) => Latest(h, f, s, t)
         /\ QueueOK(e, h) /\ ev.of = ev.stream
              /\ (\E t \in Kinds : Latest(h, e, ev.stream, t) /\ MayFollow(e.role, ev.type, t))
              => QueueOK(f, h)
<1> DEFINE q == e.event_queue
           p == f.event_queue
           n == Len(q)
<1>1. n \in Nat /\ Len(p) = n + 1 /\ p[n + 1] = ev /\ \A i \in 1 .. n : p[i] = q[i]
  OBVIOUS
<1>2. f.role = e.role
  OBVIOUS
<1> HIDE DEF q, p, n
<1>3. Before(h, p, n + 2, ev.stream, ev.type)
  <2>1. n + 1 \in 1 .. (n + 2) - 1 /\ \A k \in n + 2 .. (n + 2) - 1 : FALSE
    BY <1>1
  <2> QED  BY <1>1, <2>1 DEF Before
<1>4. ASSUME NEW s, NEW t, s # ev.stream, Before(h, q, n + 1, s, t)
      PROVE  Before(h, p, n + 2, s, t)
  <2>1. (n + 1) - 1 = n /\ (n + 2) - 1 = n + 1
    BY <1>1
  <2>2. \A k \in 1 .. n + 1 : k \in 1 .. n \/ p[k].stream # s
    BY <1>1, <1>4
  <2>3. CASE h[s] = t /\ \A k \in 1 .. n : q[k].stream # s
    BY <2>1, <2>2, <2>3, <1>1 DEF Before
  <2>4. ASSUME NEW j \in 1 .. n, q[j].stream = s, q[j].type = t, \A k \in j + 1 .. n : q[k].stream # s
        PROVE  Before(h, p, n + 2, s, t)
    <3>1. j \in 1 .. n + 1 /\ p[j] = q[j]
      BY <1>1
    <3>2. \A k \in j + 1 .. n + 1 : p[k].stream # s
      <4>1. \A k \in j + 1 .. n + 1 : (k \in j + 1 .. n /\ k \in 1 .. n) \/ k = n + 1
        BY <1>1
      <4> QED  BY <1>1, <1>4, <2>4, <4>1
    <3> QED  BY <2>1, <2>4, <3>1, <3>2 DEF Before
  <2> QED  BY <1>4, <2>1, <2>3, <2>4 DEF Before
<1>5. ASSUME NEW i \in 1 .. n, NEW s, NEW t, Before(h, q, i, s, t) PROVE Before(h, p, i, s, t)
  <2>1. \A k \in 1 .. i - 1 : k \in 1 .. n
    BY <1>1
  <2>2. \A j \in 1 .. i - 1 : \A k \in j + 1 .. i - 1 : k \in 1 .. n
    BY <1>1
  <2> QED  BY <1>1, <1>5, <2>1, <2>2 DEF Before
<1>6. ASSUME NEW s, NEW t, Before(h, q, n + 1, s, t) PROVE Before(h, p, n + 1, s, t)
  <2>1. (n + 1) - 1 = n
    BY <1>1
  <2>2. \A j \in 1 .. n : \A k \in j + 1 .. n : k \in 1 .. n
    BY <1>1
  <2> QED  BY <1>1, <1>6, <2>1, <2>2 DEF Before
<1>7. ASSUME QueueOK(e, h), ev.of = ev.stream, NEW t \in Kinds, Before(h, q, n + 1, ev.stream, t),
             MayFollow(e.role, ev.type, t)
      PROVE  QueueOK(f, h)
  <2>1. ASSUME NEW i \in 1 .. n + 1
        PROVE  /\ p[i].of = p[i].stream
               /\ \E u \in Kinds : Before(h, p, i, p[i].stream, u) /\ MayFollow(e.role, p[i].type, u)
    <3>1. CASE i \in 1 .. n
      <4>1. /\ q[i].of = q[i].stream
            /\ \E u \in Kinds : Before(h, q, i, q[i].stream, u) /\ MayFollow(e.role, q[i].type, u)
        BY <1>7, <3>1 DEF QueueOK, q, n
      <4> QED  BY <1>1, <1>5, <3>1, <4>1
    <3>2. CASE i = n + 1
      BY <1>1, <1>6, <1>7, <3>2
    <3> QED  BY <1>1, <3>1, <3>2
  <2> QED  BY <1>1, <1>2, <2>1 DEF QueueOK, p
<1>8. \A s, t : Latest(h, e, s, t) <=> Before(h, q, n + 1, s, t)
  BY DEF Latest, q, n
<1>9. \A s, t : Latest(h, f, s, t) <=> Before(h, p, n + 2, s, t)
  <2>1. Len(p) + 1 = n + 2
    BY <1>1
  <2> QED  BY <2>1 DEF Latest, p
<1> QED  BY <1>3, <1>4, <1>7, <1>8, <1>9

\* An event that is appended is the latest of its stream only.
LEMMA LatestAppended ==
  ASSUME NEW h, NEW e, NEW f, e.event_queue \in Seq(EventSet), NEW ev \in EventSet,
         f.event_queue = Append(e.event_queue, ev), f.role = e.role
  PROVE  Latest(h, f, ev.stream, ev.type)
  BY AppendedQueue

\* An event that is drained becomes the last that was heard.
LEMMA DrainedQueue ==
  ASSUME NEW h \in [Streams \union {0} -> Kinds], NEW e, NEW f, e.event_queue \in Seq(EventSet),
         e.event_queue # <<>>, f.event_queue = Tail(e.event_queue), f.role = e.role,
         NEW g, g = [h EXCEPT ![Head(e.event_queue).stream] = Head(e.event_queue).type]
  PROVE  /\ g \in [Streams \union {0} -> Kinds]
         /\ \A s \in Streams \union {0} : \A t : Latest(h, e, s, t) => Latest(g, f, s, t)
         /\ QueueOK(e, h) => QueueOK(f, g)
<1> DEFINE q == e.event_queue
           p == f.event_queue
           n == Len(q)
<1>1. /\ n \in Nat \ {0} /\ Len(p) = n - 1 /\ \A i \in 1 .. n - 1 : p[i] = q[i + 1]
      /\ Head(q) = q[1] /\ q[1] \in EventSet /\ \A i \in 1 .. n : q[i] \in EventSet
  OBVIOUS
<1>2. f.role = e.role /\ g = [h EXCEPT ![q[1].stream] = q[1].type]
  BY <1>1
<1> HIDE DEF q, p, n
<1>3. q[1].stream \in Streams \union {0} /\ q[1].type \in Kinds
  BY <1>1 DEF EventSet, Kinds
<1>4. ASSUME NEW i \in 1 .. n, NEW s \in Streams \union {0}, NEW t, Before(h, q, i + 1, s, t)
      PROVE  Before(g, p, i, s, t)
  <2>1. /\ (i + 1) - 1 = i /\ i \in Nat /\ 1 \in 1 .. i
        /\ \A k \in 1 .. i - 1 : k \in 1 .. n - 1 /\ k + 1 \in 1 .. i
    BY <1>1
  <2>2. CASE h[s] = t /\ \A k \in 1 .. i : q[k].stream # s
    <3>1. q[1].stream # s
      BY <2>1, <2>2
    <3>2. g[s] = t
      BY <1>2, <2>2, <3>1
    <3>3. \A k \in 1 .. i - 1 : p[k].stream # s
      BY <1>1, <2>1, <2>2
    <3> QED  BY <3>2, <3>3 DEF Before
  <2>3. ASSUME NEW j \in 1 .. i, q[j].stream = s, q[j].type = t, \A k \in j + 1 .. i : q[k].stream # s
        PROVE  Before(g, p, i, s, t)
    <3>1. CASE j = 1
      <4>1. g[s] = t
        BY <1>2, <1>3, <2>3, <3>1
      <4>2. \A k \in 1 .. i - 1 : p[k] = q[k + 1] /\ k + 1 \in j + 1 .. i
        BY <1>1, <2>1, <3>1
      <4> QED  BY <2>3, <4>1, <4>2 DEF Before
    <3>2. CASE j # 1
      <4>1. /\ j - 1 \in 1 .. i - 1 /\ p[j - 1] = q[j]
        BY <1>1, <2>1, <3>2
      <4>2. \A k \in (j - 1) + 1 .. i - 1 : p[k] = q[k + 1] /\ k + 1 \in j + 1 .. i
        BY <1>1, <2>1, <3>2
      <4> QED  BY <2>3, <4>1, <4>2 DEF Before
    <3> QED  BY <3>1, <3>2
  <2> QED  BY <1>4, <2>1, <2>2, <2>3 DEF Before
<1>5. ASSUME NEW s \in Streams \union {0}, NEW t, Latest(h, e, s, t) PROVE Latest(g, f, s, t)
  <2>1. n \in 1 .. n /\ Len(p) + 1 = n
    BY <1>1
  <2> QED  BY <1>4, <1>5, <2>1 DEF Latest, q, n, p
<1>6. ASSUME QueueOK(e, h) PROVE QueueOK(f, g)
  <2>1. ASSUME NEW i \in 1 .. n - 1
        PROVE  /\ p[i].of = p[i].stream
               /\ \E u \in Kinds : Before(g, p, i, p[i].stream, u) /\ MayFollow(e.role, p[i].type, u)
    <3>1. i \in 1 .. n /\ i + 1 \in 1 .. n /\ p[i] = q[i + 1]
      BY <1>1
    <3>2. /\ q[i + 1].of = q[i + 1].stream
          /\ \E u \in Kinds : Before(h, q, i + 1, q[i + 1].stream, u) /\ MayFollow(e.role, q[i + 1].type, u)
      BY <1>6, <3>1 DEF QueueOK, q, n
    <3>3. q[i + 1].stream \in Streams \union {0}
      BY <1>1, <3>1 DEF EventSet
    <3> QED  BY <1>4, <3>1, <3>2, <3>3
  <2> QED  BY <1>1, <1>2, <2>1 DEF QueueOK, p
<1>7. g \in [Streams \union {0} -> Kinds]
  BY <1>2, <1>3
<1> QED  BY <1>5, <1>6, <1>7

----------------------------------------------------------------------------
(* What is written.                                                        *)

\* All that an engine wrote, when o was taken by the transport.
Written(e, o) == o \o e.pending_out

\* Elements of a concatenation.
LEMMA ConcatElements ==
  ASSUME NEW S, NEW p \in Seq(S), NEW q \in Seq(S)
  PROVE  /\ p \o q \in Seq(S) /\ Len(p \o q) = Len(p) + Len(q)
         /\ Len(p) \in Nat /\ Len(q) \in Nat
         /\ \A i \in 1 .. Len(p) : i \in 1 .. Len(p \o q) /\ (p \o q)[i] = p[i]
         /\ \A i \in 1 .. Len(q) : Len(p) + i \in 1 .. Len(p \o q) /\ (p \o q)[Len(p) + i] = q[i]
         /\ \A i \in 1 .. Len(p \o q) :
              i \in 1 .. Len(p) \/ (i > Len(p) /\ i - Len(p) \in 1 .. Len(q) /\ (p \o q)[i] = q[i - Len(p)])
  OBVIOUS

\* The streams of items are numbers.
LEMMA ItemStreams ==
  ASSUME NEW it \in ItemSet
  PROVE  it.stream \in Nat /\ (it.stream # 0 => it.stream \in Streams)
<1> DEFINE s == it.stream
<1>1. s \in Streams \union {0}
  BY DEF ItemSet
<1>2. \A t \in Streams : t \in Nat
  BY StreamsAssumption
<1> HIDE DEF s
<1>3. s \in Nat /\ (s # 0 => s \in Streams)
  BY <1>1, <1>2
<1> QED  BY <1>3 DEF s

\* Items of a stream that is not younger than any before go in order.
LEMMA InOrderConcat ==
  ASSUME NEW p \in Seq(ItemSet), NEW q \in Seq(ItemSet), NEW s \in Nat, InOrder(p), Below(p, s),
         \A i \in 1 .. Len(q) : q[i].stream = s
  PROVE  InOrder(p \o q) /\ \A t \in Nat : s <= t => Below(p \o q, t)
<1> DEFINE w == p \o q
           n == Len(p)
<1>1. /\ w \in Seq(ItemSet) /\ n \in Nat /\ \A i \in 1 .. n : w[i] = p[i] /\ p[i] \in ItemSet
      /\ \A i \in 1 .. Len(w) : i \in 1 .. n \/ (i > n /\ i - n \in 1 .. Len(q) /\ w[i] = q[i - n])
  BY ConcatElements
<1>2. \A i \in 1 .. Len(w) : (i \in 1 .. n /\ w[i] = p[i]) \/ (i > n /\ w[i].stream = s)
  BY <1>1
<1>3. \A i \in 1 .. n : p[i].stream \in Nat /\ p[i].stream <= s
  <2>1. \A i \in 1 .. n : p[i].stream \in Nat
    BY <1>1, ItemStreams
  <2>2. \A i \in 1 .. n : p[i].stream <= s
    BY DEF Below, n
  <2> QED  BY <2>1, <2>2
<1> HIDE DEF w, n
<1>4. InOrder(w)
  <2>1. SUFFICES ASSUME NEW i \in 1 .. Len(w), NEW j \in 1 .. Len(w), i <= j
                 PROVE  w[i].stream <= w[j].stream
    BY DEF InOrder
  <2>2. CASE j > n
    <3>1. w[j].stream = s
      BY <1>1, <1>2, <2>2
    <3> QED  BY <1>2, <1>3, <3>1
  <2>3. CASE ~(j > n)
    <3>1. i \in 1 .. n /\ j \in 1 .. n /\ w[i] = p[i] /\ w[j] = p[j]
      BY <1>1, <2>1, <2>3
    <3>2. \A a, b \in 1 .. n : a <= b => p[a].stream <= p[b].stream
      BY DEF InOrder, n
    <3> QED  BY <2>1, <3>1, <3>2
  <2> QED  BY <2>2, <2>3
<1>5. \A t \in Nat : s <= t => Below(w, t)
  BY <1>2, <1>3 DEF Below
<1> QED  BY <1>4, <1>5 DEF w

\* The places where requests start.
LEMMA StartsFinite ==
  ASSUME NEW q \in Seq(ItemSet)
  PROVE  /\ Starts(q) = {i \in 1 .. Len(q) : q[i].type = "start"}
         /\ IsFiniteSet(Starts(q)) /\ Cardinality(Starts(q)) \in Nat
<1>1. DOMAIN q = 1 .. Len(q) /\ Len(q) \in Nat
  OBVIOUS
<1>2. Starts(q) = {i \in 1 .. Len(q) : q[i].type = "start"}
  BY <1>1 DEF Starts
<1>3. IsFiniteSet(1 .. Len(q))
  BY <1>1, FS_Interval
<1>4. Starts(q) \in SUBSET (1 .. Len(q))
  BY <1>2
<1> QED  BY <1>2, <1>3, <1>4, FS_Subset, FS_CardinalityType

\* Of two sequences, the starts of the first are starts of the whole.
LEMMA StartsConcat ==
  ASSUME NEW p \in Seq(ItemSet), NEW q \in Seq(ItemSet)
  PROVE  /\ Starts(p) \subseteq Starts(p \o q)
         /\ \A i \in Starts(p) : (p \o q)[i] = p[i] /\ i \in 1 .. Len(p)
         /\ Cardinality(Starts(p)) <= Cardinality(Starts(p \o q))
         /\ (\A i \in 1 .. Len(q) : q[i].type # "start") => Starts(p \o q) = Starts(p)
<1> DEFINE w == p \o q
<1>1. /\ w \in Seq(ItemSet) /\ \A i \in 1 .. Len(p) : i \in 1 .. Len(w) /\ w[i] = p[i]
      /\ \A i \in 1 .. Len(w) : i \in 1 .. Len(p) \/ (i - Len(p) \in 1 .. Len(q) /\ w[i] = q[i - Len(p)])
  BY ConcatElements
<1> HIDE DEF w
<1>2. Starts(p) = {i \in 1 .. Len(p) : p[i].type = "start"} /\ Starts(w) = {i \in 1 .. Len(w) : w[i].type = "start"}
  BY <1>1, StartsFinite
<1>3. Starts(p) \subseteq Starts(w) /\ \A i \in Starts(p) : w[i] = p[i] /\ i \in 1 .. Len(p)
  BY <1>1, <1>2
<1>4. Cardinality(Starts(p)) <= Cardinality(Starts(w))
  BY <1>1, <1>3, StartsFinite, FS_Subset
<1>5. ASSUME \A i \in 1 .. Len(q) : q[i].type # "start" PROVE Starts(w) = Starts(p)
  BY <1>1, <1>2, <1>5
<1> QED  BY <1>3, <1>4, <1>5 DEF w

\* A request that is written is the last one.
LEMMA StartsOne ==
  ASSUME NEW p \in Seq(ItemSet), NEW q \in Seq(ItemSet), Len(q) = 2, q[1].type = "start", q[2].type # "start"
  PROVE  /\ Cardinality(Starts(p \o q)) = Cardinality(Starts(p)) + 1
         /\ LastRequest(p \o q, q[1].stream, q[1].bodyless)
<1> DEFINE w == p \o q
           n == Len(p)
<1>1. /\ w \in Seq(ItemSet) /\ n \in Nat /\ \A i \in 1 .. n : i \in 1 .. Len(w) /\ w[i] = p[i]
      /\ Len(w) = n + 2 /\ w[n + 1] = q[1] /\ w[n + 2] = q[2]
  <2>1. 1 \in 1 .. Len(q) /\ 2 \in 1 .. Len(q)
    OBVIOUS
  <2>2. w \in Seq(ItemSet) /\ n \in Nat
    BY ConcatElements
  <2>6. \A a, b \in Seq(ItemSet) : Len(a \o b) = Len(a) + Len(b)
    OBVIOUS
  <2>5. Len(w) = n + Len(q)
    BY <2>6
  <2>3. \A i \in 1 .. n : i \in 1 .. Len(w) /\ w[i] = p[i]
    BY ConcatElements
  <2>7. \A a, b \in Seq(ItemSet) : \A i \in 1 .. Len(b) : (a \o b)[Len(a) + i] = b[i]
    BY ConcatElements
  <2>4. \A i \in 1 .. Len(q) : w[n + i] = q[i]
    BY <2>7
  <2> HIDE DEF w, n
  <2> QED  BY <2>1, <2>2, <2>3, <2>4, <2>5
<1> HIDE DEF w, n
<1>2. Starts(p) = {i \in 1 .. n : p[i].type = "start"} /\ Starts(w) = {i \in 1 .. Len(w) : w[i].type = "start"}
  BY <1>1, StartsFinite DEF n
<1>3. Starts(w) = Starts(p) \union {n + 1} /\ n + 1 \notin Starts(p)
  <2>1. \A i : i \in 1 .. n + 2 <=> i \in 1 .. n \/ i = n + 1 \/ i = n + 2
    BY <1>1
  <2>2. n + 2 # n + 1 /\ n + 1 \notin 1 .. n /\ n + 2 \notin 1 .. n
    BY <1>1
  <2> QED  BY <1>1, <1>2, <2>1, <2>2
<1>4. Cardinality(Starts(w)) = Cardinality(Starts(p)) + 1
  BY <1>3, StartsFinite, FS_AddElement
<1>5. n + 1 \in Starts(w) /\ \A j \in Starts(w) : j <= n + 1
  BY <1>1, <1>2, <1>3
<1>6. LastRequest(w, q[1].stream, q[1].bodyless)
  BY <1>1, <1>5 DEF LastRequest
<1> QED  BY <1>4, <1>6 DEF w

\* Items that start no request leave the last one the last.
LEMMA LastConcat ==
  ASSUME NEW p \in Seq(ItemSet), NEW q \in Seq(ItemSet), \A i \in 1 .. Len(q) : q[i].type # "start",
         NEW s, NEW b, LastRequest(p, s, b)
  PROVE  LastRequest(p \o q, s, b)
<1>1. /\ Starts(p \o q) = Starts(p) /\ \A i \in Starts(p) : (p \o q)[i] = p[i]
  BY StartsConcat
<1> QED  BY <1>1 DEF LastRequest

\* append_pending.
LEMMA Appended ==
  ASSUME NEW e \in EngineSet, NEW items \in Seq(ItemSet), NEW f, f = AppendPending(e, items)
  PROVE  /\ f \in EngineSet
         /\ f.role = e.role /\ f.state = e.state /\ f.input = e.input /\ f.streams = e.streams
         /\ f.stream_order = e.stream_order /\ f.next_stream_id = e.next_stream_id
         /\ f.active_stream = e.active_stream /\ f.bodyless = e.bodyless
         /\ f.body_remaining = e.body_remaining /\ f.connection_done = e.connection_done
         /\ f.goaway_sent = e.goaway_sent /\ f.eof_seen = e.eof_seen /\ f.event_queue = e.event_queue
         /\ f.pending_out = e.pending_out \o items
<1>1. e.pending_out \in Seq(ItemSet) /\ e.had_output \in BOOLEAN /\ e.output_ready_cb \in BOOLEAN
  BY EngineMembers
<1> DEFINE p == e.pending_out \o items
           b == e.had_output \/ e.output_ready_cb
<1>2. p \in Seq(ItemSet) /\ b \in BOOLEAN
  BY <1>1, ConcatElements
<1>3. f = [e EXCEPT !.pending_out = p, !.had_output = b]
  BY DEF AppendPending
<1>4. f.pending_out = p
  BY <1>3 DEF EngineSet
<1>5. f.pending_out = e.pending_out \o items
  BY <1>4
<1> HIDE DEF p, b
<1> QED  BY <1>2, <1>3, <1>5 DEF EngineSet

\* append_pending returns an engine, with the output behind what it had.
LEMMA Appending ==
  ASSUME NEW e \in EngineSet, NEW items \in Seq(ItemSet)
  PROVE  /\ AppendPending(e, items) \in EngineSet
         /\ AppendPending(e, items).role = e.role
         /\ AppendPending(e, items).streams = e.streams
         /\ AppendPending(e, items).input = e.input
         /\ AppendPending(e, items).stream_order = e.stream_order
         /\ AppendPending(e, items).next_stream_id = e.next_stream_id
         /\ AppendPending(e, items).active_stream = e.active_stream
         /\ AppendPending(e, items).connection_done = e.connection_done
         /\ AppendPending(e, items).goaway_sent = e.goaway_sent
         /\ AppendPending(e, items).event_queue = e.event_queue
  BY Appended

\* What is appended is written behind what was.
LEMMA WrittenAppended ==
  ASSUME NEW e \in EngineSet, NEW items \in Seq(ItemSet), NEW o \in Seq(ItemSet)
  PROVE  /\ Written(e, o) \in Seq(ItemSet)
         /\ Written(AppendPending(e, items), o) = Written(e, o) \o items
<1> DEFINE u == e.pending_out
           f == AppendPending(e, items)
<1>1. u \in Seq(ItemSet)
  BY EngineMembers
<1>2. f.pending_out = u \o items
  BY Appended
<1> HIDE DEF u, f
<1>3. (o \o u) \o items = o \o (u \o items)
  BY <1>1, ConcatAssociative
<1>4. o \o u \in Seq(ItemSet)
  BY <1>1, ConcatElements
<1>5. Written(e, o) \in Seq(ItemSet) /\ Written(f, o) = Written(e, o) \o items
  BY <1>2, <1>3, <1>4 DEF Written, u
<1> QED  BY <1>5 DEF f

----------------------------------------------------------------------------
(* The streams an engine has.                                              *)

\* erase_stream_order takes the stream out of an order in which it is once.
LEMMA RemoveOnce ==
  ASSUME NEW q \in Seq(Streams), NEW k \in 1 .. Len(q), NEW s, q[k] = s, \A i \in 1 .. Len(q) : q[i] = s => i = k
  PROVE  /\ RemoveFirst(q, s) \in Seq(Streams) /\ Len(RemoveFirst(q, s)) = Len(q) - 1
         /\ \A i \in 1 .. Len(q) - 1 : RemoveFirst(q, s)[i] = q[IF i < k THEN i ELSE i + 1]
<1>1. {i \in 1 .. Len(q) : q[i] = s} = {k}
  OBVIOUS
<1>2. SelectInSeq(q, LAMBDA v : v = s) = Min({i \in 1 .. Len(q) : q[i] = s})
  BY <1>1 DEF SelectInSeq
<1>3. Min({k}) = k
  BY DEF Min
<1>4. RemoveFirst(q, s) = RemoveAt(q, k)
  BY <1>1, <1>2, <1>3 DEF RemoveFirst
<1> DEFINE a == SubSeq(q, 1, k - 1)
           b == SubSeq(q, k + 1, Len(q))
<1>5. Len(q) \in Nat /\ k \in Nat /\ k >= 1 /\ k <= Len(q)
  OBVIOUS
<1>6. /\ a \in Seq(Streams) /\ Len(a) = k - 1 /\ \A i \in 1 .. k - 1 : a[i] = q[i]
      /\ b \in Seq(Streams) /\ Len(b) = Len(q) - k /\ \A i \in 1 .. Len(q) - k : b[i] = q[k + i]
  BY <1>5
<1> HIDE DEF a, b
<1>7. \A c, d \in Seq(Streams) :
        /\ c \o d \in Seq(Streams) /\ Len(c \o d) = Len(c) + Len(d)
        /\ \A i \in 1 .. Len(c) + Len(d) : (c \o d)[i] = IF i <= Len(c) THEN c[i] ELSE d[i - Len(c)]
  OBVIOUS
<1> DEFINE w == a \o b
<1>8. w \in Seq(Streams) /\ Len(w) = Len(q) - 1
  BY <1>5, <1>6, <1>7
<1>9. \A i \in 1 .. Len(q) - 1 : w[i] = IF i <= k - 1 THEN a[i] ELSE b[i - (k - 1)]
  BY <1>5, <1>6, <1>7
<1>10. RemoveFirst(q, s) = w
  BY <1>4 DEF RemoveAt, a, b
<1> HIDE DEF w
<1>11. ASSUME NEW i \in 1 .. Len(q) - 1 PROVE w[i] = q[IF i < k THEN i ELSE i + 1]
  <2>1. CASE i < k
    <3>1. i \in 1 .. k - 1 /\ i <= k - 1
      BY <1>5, <2>1
    <3> QED  BY <1>6, <1>9, <2>1, <3>1
  <2>2. CASE ~(i < k)
    <3>1. i - (k - 1) \in 1 .. Len(q) - k /\ ~(i <= k - 1) /\ k + (i - (k - 1)) = i + 1
      BY <1>5, <2>2
    <3> QED  BY <1>6, <1>9, <2>2, <3>1
  <2> QED  BY <2>1, <2>2
<1> QED  BY <1>8, <1>10, <1>11

\* emit queues an event behind those that wait.
LEMMA Emitted ==
  ASSUME NEW e \in EngineSet, NEW ev \in EventSet, NEW f, f = Emit(e, ev)
  PROVE  /\ f \in EngineSet
         /\ f.role = e.role /\ f.state = e.state /\ f.input = e.input /\ f.streams = e.streams
         /\ f.stream_order = e.stream_order /\ f.next_stream_id = e.next_stream_id
         /\ f.active_stream = e.active_stream /\ f.bodyless = e.bodyless
         /\ f.body_remaining = e.body_remaining /\ f.connection_done = e.connection_done
         /\ f.goaway_sent = e.goaway_sent /\ f.eof_seen = e.eof_seen /\ f.pending_out = e.pending_out
         /\ f.event_queue = Append(e.event_queue, ev)
<1> DEFINE q == Append(e.event_queue, ev)
<1>1. q \in Seq(EventSet)
  BY EngineMembers
<1>2. f = [e EXCEPT !.event_queue = q]
  BY DEF Emit
<1> HIDE DEF q
<1>3. /\ f \in EngineSet
      /\ f.role = e.role /\ f.state = e.state /\ f.input = e.input /\ f.streams = e.streams
      /\ f.stream_order = e.stream_order /\ f.next_stream_id = e.next_stream_id
      /\ f.active_stream = e.active_stream /\ f.bodyless = e.bodyless
      /\ f.body_remaining = e.body_remaining /\ f.connection_done = e.connection_done
      /\ f.goaway_sent = e.goaway_sent /\ f.eof_seen = e.eof_seen /\ f.pending_out = e.pending_out
      /\ f.event_queue = q
  BY <1>1, <1>2 DEF EngineSet
<1> QED  BY <1>3 DEF q

----------------------------------------------------------------------------
(* What holds in every engine that a call goes through.                    *)

\* A server has one stream.
Unique(e) == e.role = "server" => \A s, t \in Streams : Opened(e, s) /\ Opened(e, t) => s = t

\* The invariant but for the wire and the active stream: what every step keeps.
Sound(e, o, h) ==
  /\ e \in EngineSet /\ ListsOK(e) /\ HeadsOK(e) /\ Unique(e) /\ OutputOK(e, o) /\ QueueOK(e, h)
  /\ ~e.goaway_sent => Latest(h, e, 0, "nothing") \/ Latest(h, e, 0, "connection_error")

\* The invariant says so.
LEMMA SoundOf ==
  ASSUME NEW e, NEW r, NEW o, NEW h, NEW m, NEW l, EInv(e, r, o, h, m, l)
  PROVE  Sound(e, o, h)
  BY DEF EInv, Sound, Shape, ModesOK, ServerModes, Unique, HeardOK

\* Members that Sound does not look at.
LEMMA SoundSame ==
  ASSUME NEW e, NEW o, NEW h, Sound(e, o, h), NEW f \in EngineSet,
         f.role = e.role, f.streams = e.streams, f.stream_order = e.stream_order,
         f.next_stream_id = e.next_stream_id, f.pending_out = e.pending_out,
         f.event_queue = e.event_queue, f.goaway_sent = e.goaway_sent,
         f.active_stream = 0 \/ f.active_stream = e.active_stream
  PROVE  Sound(f, o, h)
<1>1. ListsOK(f) /\ HeadsOK(f) /\ Unique(f) /\ OutputOK(f, o)
  BY DEF Sound, ListsOK, HeadsOK, Unique, OutputOK, Opened
<1> QED  BY <1>1, SameQueue DEF Sound

\* The connection is over: what is left is that everything is in its place.
LEMMA OverInv ==
  ASSUME NEW f \in EngineSet, NEW r, NEW o, NEW h, NEW m, NEW l,
         f.state = "done", f.connection_done, f.active_stream = 0,
         ListsOK(f), HeadsOK(f), Unique(f), OutputOK(f, o), QueueOK(f, h),
         f.goaway_sent \/ Latest(h, f, 0, "connection_error")
  PROVE  EInv(f, r, o, h, m, l)
<1>1. ClientModes(f)
  BY DEF ClientModes
<1>2. ServerModes(f) \/ f.role # "server"
  BY DEF ServerModes, Unique
<1>3. ModesOK(f)
  BY <1>1, <1>2 DEF ModesOK, InBody
<1>4. HeardOK(f, h)
  BY DEF HeardOK
<1>5. WireOK(f, r, o, m, l)
  BY DEF WireOK
<1> QED  BY <1>3, <1>4, <1>5 DEF EInv, Shape

LEMMA MarkDoneInv ==
  ASSUME NEW e, NEW r, NEW o, NEW h, NEW m, NEW l, Sound(e, o, h)
  PROVE  EInv(MarkConnectionDone(e), r, o, h, m, l)
<1> DEFINE d == [e EXCEPT !.connection_done = TRUE, !.state = "done", !.active_stream = 0,
                          !.goaway_sent = TRUE]
           ev == Event("goaway", 0, 0)
           f == Emit(d, ev)
<1>1. e \in EngineSet
  BY DEF Sound
<1>2. /\ d \in EngineSet /\ d.state = "done" /\ d.connection_done /\ d.active_stream = 0 /\ d.goaway_sent
      /\ d.role = e.role /\ d.streams = e.streams /\ d.stream_order = e.stream_order
      /\ d.next_stream_id = e.next_stream_id /\ d.pending_out = e.pending_out
      /\ d.event_queue = e.event_queue
  BY <1>1 DEF EngineSet, ParseStates
<1>3. ev \in EventSet /\ ev.of = ev.stream /\ ev.stream = 0 /\ ev.type = "goaway"
  BY DEF Event, EventSet, EventTypes
<1>4. MarkConnectionDone(e) = IF e.goaway_sent THEN d ELSE f
  BY DEF MarkConnectionDone
<1> HIDE DEF d, ev
<1>5. /\ f \in EngineSet /\ f.state = "done" /\ f.connection_done /\ f.active_stream = 0 /\ f.goaway_sent
      /\ f.role = e.role /\ f.streams = e.streams /\ f.stream_order = e.stream_order
      /\ f.next_stream_id = e.next_stream_id /\ f.pending_out = e.pending_out
      /\ f.event_queue = Append(e.event_queue, ev)
  BY <1>2, <1>3, Emitted
<1> HIDE DEF f
<1>6. CASE e.goaway_sent
  <2>1. ListsOK(d) /\ HeadsOK(d) /\ Unique(d) /\ OutputOK(d, o)
    BY <1>2 DEF Sound, ListsOK, HeadsOK, Unique, OutputOK, Opened
  <2>2. QueueOK(d, h)
    BY <1>2, SameQueue DEF Sound
  <2> QED  BY <1>2, <1>4, <1>6, <2>1, <2>2, OverInv
<1>7. CASE ~e.goaway_sent
  <2>1. ListsOK(f) /\ HeadsOK(f) /\ Unique(f) /\ OutputOK(f, o)
    BY <1>5 DEF Sound, ListsOK, HeadsOK, Unique, OutputOK, Opened
  <2>2. \E t \in Kinds : Latest(h, e, ev.stream, t) /\ MayFollow(e.role, ev.type, t)
    BY <1>3, <1>7 DEF Sound, MayFollow, Kinds, EventTypes
  <2>3. QueueOK(f, h)
    <3>1. e.event_queue \in Seq(EventSet) /\ QueueOK(e, h)
      BY <1>1, EngineMembers DEF Sound
    <3> QED  BY <1>3, <1>5, <2>2, <3>1, AppendedQueue
  <2> QED  BY <1>4, <1>5, <1>7, <2>1, <2>3, OverInv
<1>8. e.goaway_sent \in BOOLEAN
  BY <1>1, EngineMembers
<1> QED  BY <1>6, <1>7

\* A line that cannot be parsed ends the connection.
LEMMA BrokenInv ==
  ASSUME NEW e, NEW r, NEW o, NEW h, NEW m, NEW l, Sound(e, o, h), ~e.connection_done,
         Latest(h, e, 0, "nothing")
  PROVE  EInv(ConnectionError(e), r, o, h, m, l)
<1> DEFINE d == [e EXCEPT !.connection_done = TRUE, !.state = "done", !.active_stream = 0]
           ev == Event("connection_error", 0, 0)
           f == Emit(d, ev)
<1>1. e \in EngineSet
  BY DEF Sound
<1>2. /\ d \in EngineSet /\ d.state = "done" /\ d.connection_done /\ d.active_stream = 0
      /\ d.role = e.role /\ d.streams = e.streams /\ d.stream_order = e.stream_order
      /\ d.next_stream_id = e.next_stream_id /\ d.pending_out = e.pending_out
      /\ d.event_queue = e.event_queue
  BY <1>1 DEF EngineSet, ParseStates
<1>3. ev \in EventSet /\ ev.of = ev.stream /\ ev.stream = 0 /\ ev.type = "connection_error"
  BY DEF Event, EventSet, EventTypes
<1>4. ConnectionError(e) = f
  BY DEF ConnectionError
<1> HIDE DEF d, ev
<1>5. /\ f \in EngineSet /\ f.state = "done" /\ f.connection_done /\ f.active_stream = 0
      /\ f.role = e.role /\ f.streams = e.streams /\ f.stream_order = e.stream_order
      /\ f.next_stream_id = e.next_stream_id /\ f.pending_out = e.pending_out
      /\ f.event_queue = Append(e.event_queue, ev)
  BY <1>2, <1>3, Emitted
<1> HIDE DEF f
<1>6. ListsOK(f) /\ HeadsOK(f) /\ Unique(f) /\ OutputOK(f, o)
  BY <1>5 DEF Sound, ListsOK, HeadsOK, Unique, OutputOK, Opened
<1>7. e.event_queue \in Seq(EventSet) /\ QueueOK(e, h)
  BY <1>1, EngineMembers DEF Sound
<1>8. \E t \in Kinds : Latest(h, e, ev.stream, t) /\ MayFollow(e.role, ev.type, t)
  BY <1>3 DEF MayFollow, Kinds
<1>9. QueueOK(f, h) /\ Latest(h, f, 0, "connection_error")
  <2>1. Latest(h, f, ev.stream, ev.type)
    BY <1>3, <1>5, <1>7, AppendedQueue
  <2>2. QueueOK(f, h)
    BY <1>3, <1>5, <1>7, <1>8, AppendedQueue
  <2> QED  BY <1>3, <2>1, <2>2
<1> QED  BY <1>4, <1>5, <1>6, <1>9, OverInv

\* The stream is gone from the map and the order; the others stay as they were.
LEMMA EraseSound ==
  ASSUME NEW e, NEW o, NEW h, Sound(e, o, h), NEW s \in Streams, Opened(e, s), NEW f, f = Erase(e, s)
  PROVE  /\ Sound(f, o, h)
         /\ f.role = e.role /\ f.state = e.state /\ f.input = e.input /\ f.pending_out = e.pending_out
         /\ f.next_stream_id = e.next_stream_id /\ f.bodyless = e.bodyless
         /\ f.connection_done = e.connection_done /\ f.goaway_sent = e.goaway_sent
         /\ f.eof_seen = e.eof_seen /\ f.event_queue = e.event_queue /\ f.body_remaining = e.body_remaining
         /\ f.active_stream = IF e.active_stream = s THEN 0 ELSE e.active_stream
         /\ \A t \in Streams : Opened(f, t) <=> Opened(e, t) /\ t # s
         /\ \A t \in Streams : t # s => f.streams[t] = e.streams[t]
<1> DEFINE q == e.stream_order
           p == RemoveFirst(q, s)
<1>1. e \in EngineSet /\ q \in Seq(Streams)
  BY EngineMembers DEF Sound
<1>2. ListsOK(e)
  BY DEF Sound
<1>3. PICK k \in 1 .. Len(q) : q[k] = s
  BY <1>2 DEF ListsOK
<1>4. \A i \in 1 .. Len(q) : q[i] = s => i = k
  <2>1. \A i, j \in 1 .. Len(q) : i < j => q[i] < q[j]
    BY <1>2 DEF ListsOK
  <2>2. s \in Nat
    BY ConfigTypes
  <2>3. \A i \in 1 .. Len(q) : i < k \/ i = k \/ k < i
    BY <1>1
  <2> QED  BY <1>3, <2>1, <2>2, <2>3
<1>5. /\ p \in Seq(Streams) /\ Len(p) = Len(q) - 1
      /\ \A i \in 1 .. Len(q) - 1 : p[i] = q[IF i < k THEN i ELSE i + 1]
  BY <1>1, <1>3, <1>4, RemoveOnce
<1>6. Absent \in StreamSet /\ ~Absent.present /\ Absent.head = <<>> /\ Absent.body_staged = <<>>
  BY DEF Absent, StreamSet
<1> DEFINE u == [e.streams EXCEPT ![s] = Absent]
           a == IF e.active_stream = s THEN 0 ELSE e.active_stream
<1>7. f = [e EXCEPT !.streams = u, !.stream_order = p, !.active_stream = a]
  BY <1>1 DEF Erase, EngineSet
<1>16. u \in [Streams -> StreamSet] /\ a \in Streams \union {0}
  BY <1>1, <1>6, EngineMembers
<1> HIDE DEF p, u, a
<1>8. /\ f \in EngineSet
      /\ f.role = e.role /\ f.state = e.state /\ f.input = e.input /\ f.pending_out = e.pending_out
      /\ f.next_stream_id = e.next_stream_id /\ f.bodyless = e.bodyless
      /\ f.connection_done = e.connection_done /\ f.goaway_sent = e.goaway_sent
      /\ f.eof_seen = e.eof_seen /\ f.event_queue = e.event_queue /\ f.body_remaining = e.body_remaining
      /\ f.active_stream = a /\ f.streams = u /\ f.stream_order = p
  BY <1>1, <1>5, <1>7, <1>16 DEF EngineSet
<1>17. f.active_stream = IF e.active_stream = s THEN 0 ELSE e.active_stream
  BY <1>8 DEF a
<1>9. \A t \in Streams : f.streams[t] = IF t = s THEN Absent ELSE e.streams[t]
  <2>1. e.streams \in [Streams -> StreamSet]
    BY <1>1, EngineMembers
  <2> QED  BY <1>8, <2>1 DEF u
<1> HIDE DEF q
<1>10. \A t \in Streams : Opened(f, t) <=> Opened(e, t) /\ t # s
  BY <1>6, <1>9 DEF Opened
<1>11. ListsOK(f)
  <2> DEFINE at(i) == IF i < k THEN i ELSE i + 1
  <2>0. Len(q) \in Nat /\ k \in Nat /\ 1 <= k /\ k <= Len(q)
    BY <1>1, <1>3
  <2>1. \A i \in 1 .. Len(p) : at(i) \in 1 .. Len(q) /\ at(i) # k /\ p[i] = q[at(i)]
    BY <1>5, <2>0
  <2>2. \A i, j \in 1 .. Len(p) : i < j => at(i) < at(j)
    BY <1>5, <2>0
  <2>3. \A j \in 1 .. Len(q) : j # k => \E i \in 1 .. Len(p) : at(i) = j
    <3>1. SUFFICES ASSUME NEW j \in 1 .. Len(q), j # k PROVE \E i \in 1 .. Len(p) : at(i) = j
      OBVIOUS
    <3> DEFINE i == IF j < k THEN j ELSE j - 1
    <3>2. i \in 1 .. Len(p) /\ at(i) = j
      BY <3>1, <2>0, <1>5
    <3> QED  BY <3>2
  <2> HIDE DEF at
  <2>4. ASSUME NEW t \in Streams PROVE Opened(f, t) <=> \E i \in 1 .. Len(p) : p[i] = t
    <3>1. Opened(e, t) <=> \E j \in 1 .. Len(q) : q[j] = t
      BY <1>2 DEF ListsOK, q
    <3>2. ASSUME NEW j \in 1 .. Len(q), q[j] = t, t # s PROVE \E i \in 1 .. Len(p) : p[i] = t
      BY <1>3, <2>1, <2>3, <3>2
    <3>3. ASSUME NEW i \in 1 .. Len(p), p[i] = t PROVE Opened(e, t) /\ t # s
      BY <1>4, <2>1, <3>1, <3>3
    <3> QED  BY <1>10, <3>1, <3>2, <3>3
  <2>5. \A i, j \in 1 .. Len(p) : i < j => p[i] < p[j]
    <3>1. \A i, j \in 1 .. Len(q) : i < j => q[i] < q[j]
      BY <1>2 DEF ListsOK, q
    <3> QED  BY <2>1, <2>2, <3>1
  <2>6. \A t \in Streams : Opened(f, t) => t < f.next_stream_id
    BY <1>2, <1>8, <1>10 DEF ListsOK
  <2>7. f.active_stream # 0 => Opened(f, f.active_stream)
    <3>1. e.active_stream \in Streams \union {0}
      BY <1>1, EngineMembers
    <3> QED  BY <1>2, <1>17, <1>10, <3>1 DEF ListsOK
  <2> QED  BY <1>8, <2>4, <2>5, <2>6, <2>7 DEF ListsOK
<1>12. HeadsOK(f)
  <2>1. HeadsOK(e)
    BY DEF Sound
  <2>2. HeadOK(Absent, s) /\ StagedOK(Absent, s)
    BY <1>6 DEF HeadOK, StagedOK
  <2>3. \A t \in Streams : HeadOK(e.streams[t], t) /\ StagedOK(e.streams[t], t)
                            => HeadOK(f.streams[t], t) /\ StagedOK(f.streams[t], t)
    BY <1>9, <2>2
  <2> QED  BY <1>8, <2>1, <2>3 DEF HeadsOK
<1>13. Unique(f) /\ OutputOK(f, o)
  BY <1>8, <1>10 DEF Sound, Unique, OutputOK
<1>14. QueueOK(f, h) /\ \A v, t : Latest(h, f, v, t) <=> Latest(h, e, v, t)
  BY <1>8, SameQueue DEF Sound
<1>15. Sound(f, o, h)
  BY <1>8, <1>11, <1>12, <1>13, <1>14 DEF Sound
<1> QED  BY <1>8, <1>9, <1>10, <1>15, <1>17

----------------------------------------------------------------------------
(* In the middle of a message.                                             *)

\* The items r lead on from c, to where the peer's messages may end.
Goes(role, c, r, m, l) == \E d \in Configs : Run(role, c, r, d) /\ EndOK(role, d, m, l)

\* The peer of a client breaks no line while it may go on.
Whole(role, r, l) == role = "client" /\ ~l => r \in Seq(Plain)

\* An engine in the middle of a message of its active stream.
Mid(e, o, h, m, l) ==
  /\ Sound(e, o, h)
  /\ ~e.connection_done /\ ~e.goaway_sent /\ e.input = <<>> /\ e.active_stream # 0
  /\ e.role = "client" =>
       /\ e.active_stream = e.stream_order[1] /\ e.streams[e.active_stream].head_sent
       /\ ~l => /\ LastRequest(Written(e, o), e.active_stream, e.streams[e.active_stream].bodyless)
                /\ m = Cardinality(Starts(Written(e, o)))
  /\ e.role = "server" =>
       e.next_stream_id = e.active_stream + 2 /\ ~e.streams[e.active_stream].request_body_done
  /\ Latest(h, e, 0, "nothing")
  /\ \A s \in Streams : Unheard(e, s) => Latest(h, e, s, "nothing")

\* What the active stream's last event was, by the state of the parser.
Said(e, h) ==
  CASE e.state \in {"start_line", "skip_interim"} -> Latest(h, e, e.active_stream, "nothing")
    [] e.state = "headers" ->
         Latest(h, e, e.active_stream, IF e.role = "client" THEN "nothing" ELSE "new_stream")
    [] OTHER -> \E t \in {"headers", "data"} : Latest(h, e, e.active_stream, t)

\* A parser that is not between messages is in the middle of one.
LEMMA MidOf ==
  ASSUME NEW e, NEW w, NEW o, NEW h, NEW m, NEW l, EInv(e, w, o, h, m, l), w # <<>>,
         e.state \notin {"awaiting_response", "done"}, e.active_stream # 0
  PROVE  Mid(e, o, h, m, l) /\ Said(e, h)
<1>1. Sound(e, o, h) /\ Shape(e) /\ WireOK(e, w, o, m, l) /\ HeardOK(e, h)
  BY SoundOf DEF EInv
<1>2. ~e.connection_done /\ ~e.goaway_sent /\ e.input = <<>>
  BY <1>1 DEF Shape, ModesOK
<1>3. Opened(e, e.active_stream) /\ e.active_stream \in Streams
  BY <1>1, EngineMembers DEF Shape, ListsOK
<1>4. ASSUME e.role = "client"
      PROVE  /\ e.active_stream = e.stream_order[1] /\ e.streams[e.active_stream].head_sent
             /\ ~l => /\ LastRequest(Written(e, o), e.active_stream, e.streams[e.active_stream].bodyless)
                      /\ m = Cardinality(Starts(Written(e, o)))
  <2>1. ClientModes(e)
    BY <1>1, <1>4 DEF Shape, ModesOK
  <2>2. ~l => AnsweredOK(e, w, o, m)
    BY <1>1, <1>4 DEF WireOK
  <2> QED  BY <2>1, <2>2 DEF ClientModes, AnsweredOK, Written
<1>5. ASSUME e.role = "server"
      PROVE  e.next_stream_id = e.active_stream + 2 /\ ~e.streams[e.active_stream].request_body_done
  <2>1. ServerModes(e)
    BY <1>1, <1>5 DEF Shape, ModesOK
  <2>2. e.state # "start_line"
    BY <2>1 DEF ServerModes
  <2> QED  BY <2>1, <2>2, <1>3 DEF ServerModes
<1>6. Latest(h, e, 0, "nothing") /\ \A s \in Streams : Unheard(e, s) => Latest(h, e, s, "nothing")
  BY <1>1, <1>2 DEF HeardOK
<1>7. Said(e, h)
  BY <1>1 DEF HeardOK, Said
<1> QED  BY <1>1, <1>2, <1>4, <1>5, <1>6, <1>7 DEF Mid

\* An engine in the middle of a message, with the rest of it to come.
LEMMA MidInv ==
  ASSUME NEW e, NEW r \in Seq(ItemSet), NEW o, NEW h, NEW m, NEW l, Mid(e, o, h, m, l), Said(e, h),
         e.state \notin {"awaiting_response", "done"},
         e.role = "server" => e.state \notin {"start_line", "skip_interim", "body_until_close"},
         InBody(e) => e.body_remaining # 0,
         Goes(e.role, Config(e), r, m, l), Whole(e.role, r, l)
  PROVE  EInv(e, r, o, h, m, l)
<1>1. e \in EngineSet /\ ListsOK(e) /\ HeadsOK(e) /\ OutputOK(e, o) /\ QueueOK(e, h) /\ Unique(e)
  BY DEF Mid, Sound
<1>2. Opened(e, e.active_stream) /\ e.active_stream \in Streams /\ e.active_stream # 0 /\ e.role \in Roles_
  BY <1>1, EngineMembers DEF Mid, ListsOK
<1>3. e.role = "client" => ClientModes(e)
  BY <1>2 DEF Mid, ClientModes
<1>4. e.role = "server" => ServerModes(e)
  BY <1>1, <1>2 DEF Mid, ServerModes, Unique
<1>5. ModesOK(e)
  BY <1>3, <1>4 DEF Mid, ModesOK
<1>6. WireOK(e, r, o, m, l)
  <2>1. e.input \o r = r
    BY ConcatEmptySeq DEF Mid
  <2>2. e.role = "client" /\ ~l => AnsweredOK(e, r, o, m)
    BY <1>2 DEF Mid, AnsweredOK, Written
  <2> QED  BY <2>1, <2>2 DEF WireOK, Goes, Whole
<1>7. HeardOK(e, h)
  BY DEF Mid, HeardOK, Said
<1> QED  BY <1>1, <1>5, <1>6, <1>7 DEF EInv, Shape

\* Members that Mid does not look at.
LEMMA MidSame ==
  ASSUME NEW e, NEW o, NEW h, NEW m, NEW l, Mid(e, o, h, m, l), NEW f \in EngineSet,
         f.role = e.role, f.streams = e.streams, f.stream_order = e.stream_order, f.input = e.input,
         f.next_stream_id = e.next_stream_id, f.pending_out = e.pending_out,
         f.event_queue = e.event_queue, f.goaway_sent = e.goaway_sent,
         f.connection_done = e.connection_done, f.active_stream = e.active_stream
  PROVE  Mid(f, o, h, m, l)
<1>1. Sound(f, o, h)
  BY SoundSame DEF Mid
<1>2. \A s, t : Latest(h, f, s, t) <=> Latest(h, e, s, t)
  BY SameQueue
<1> QED  BY <1>1, <1>2 DEF Mid, Written, Unheard, Opened

\* The active stream is told whether to close the connection.
LEMMA MidClose ==
  ASSUME NEW e, NEW o, NEW h, NEW m, NEW l, Mid(e, o, h, m, l), NEW b \in BOOLEAN,
         NEW f, f = [e EXCEPT !.streams[e.active_stream].close_after = b]
  PROVE  Mid(f, o, h, m, l) /\ f.event_queue = e.event_queue /\ f.state = e.state /\ f.bodyless = e.bodyless
         /\ f.role = e.role /\ f.active_stream = e.active_stream /\ f.body_remaining = e.body_remaining
         /\ f.streams[e.active_stream].bodyless = e.streams[e.active_stream].bodyless
<1> DEFINE s == e.active_stream
           x == [e.streams[s] EXCEPT !.close_after = b]
           u == [e.streams EXCEPT ![s] = x]
<1>1. e \in EngineSet /\ ListsOK(e) /\ HeadsOK(e) /\ OutputOK(e, o) /\ QueueOK(e, h) /\ Unique(e)
  BY DEF Mid, Sound
<1>2. s \in Streams /\ e.streams \in [Streams -> StreamSet] /\ e.streams[s] \in StreamSet
  BY <1>1, EngineMembers DEF Mid
<1>3. /\ x \in StreamSet /\ x.present = e.streams[s].present /\ x.head = e.streams[s].head
      /\ x.body_staged = e.streams[s].body_staged /\ x.head_sent = e.streams[s].head_sent
      /\ x.bodyless = e.streams[s].bodyless /\ x.request_body_done = e.streams[s].request_body_done
  BY <1>2 DEF StreamSet
<1>4. f = [e EXCEPT !.streams = u]
  BY <1>1 DEF EngineSet
<1> HIDE DEF x
<1>5. u \in [Streams -> StreamSet] /\ u[s] = x /\ \A t \in Streams : t # s => u[t] = e.streams[t]
  BY <1>2, <1>3
<1> HIDE DEF u
<1>6. /\ f \in EngineSet /\ f.streams = u
      /\ f.role = e.role /\ f.state = e.state /\ f.input = e.input /\ f.pending_out = e.pending_out
      /\ f.stream_order = e.stream_order /\ f.active_stream = s
      /\ f.next_stream_id = e.next_stream_id /\ f.bodyless = e.bodyless
      /\ f.connection_done = e.connection_done /\ f.goaway_sent = e.goaway_sent
      /\ f.event_queue = e.event_queue /\ f.body_remaining = e.body_remaining
  BY <1>1, <1>4, <1>5 DEF EngineSet
<1>7. \A t \in Streams : Opened(f, t) <=> Opened(e, t)
  BY <1>3, <1>5, <1>6 DEF Opened
<1>8. ListsOK(f)
  BY <1>1, <1>2, <1>6, <1>7 DEF ListsOK
<1>9. HeadsOK(f)
  <2>1. HeadOK(e.streams[s], s) /\ StagedOK(e.streams[s], s) => HeadOK(x, s) /\ StagedOK(x, s)
    BY <1>3 DEF HeadOK, StagedOK
  <2>2. \A t \in Streams : HeadOK(e.streams[t], t) /\ StagedOK(e.streams[t], t)
                            => HeadOK(u[t], t) /\ StagedOK(u[t], t)
    BY <1>5, <2>1
  <2> QED  BY <1>1, <1>6, <2>2 DEF HeadsOK
<1>10. Unique(f) /\ OutputOK(f, o)
  BY <1>1, <1>6, <1>7 DEF Unique, OutputOK
<1>11. QueueOK(f, h) /\ \A v, t : Latest(h, f, v, t) <=> Latest(h, e, v, t)
  BY <1>1, <1>6, SameQueue
<1>12. Sound(f, o, h)
  BY <1>6, <1>8, <1>9, <1>10, <1>11 DEF Sound, Mid
<1>13. Written(f, o) = Written(e, o) /\ \A t \in Streams : Unheard(f, t) <=> Unheard(e, t)
  BY <1>6, <1>7 DEF Written, Unheard
<1>14. Mid(f, o, h, m, l)
  BY <1>3, <1>5, <1>6, <1>11, <1>12, <1>13 DEF Mid
<1> QED  BY <1>3, <1>5, <1>6, <1>14

\* Something is reported of the active stream.
LEMMA MidEmit ==
  ASSUME NEW e, NEW o, NEW h, NEW m, NEW l, Mid(e, o, h, m, l), NEW type \in EventTypes,
         NEW t \in Kinds, Latest(h, e, e.active_stream, t), MayFollow(e.role, type, t),
         NEW f, f = Emit(e, Event(type, e.active_stream, e.active_stream))
  PROVE  Mid(f, o, h, m, l) /\ Latest(h, f, e.active_stream, type)
<1> DEFINE s == e.active_stream
           ev == Event(type, s, s)
<1>1. e \in EngineSet /\ ListsOK(e) /\ HeadsOK(e) /\ OutputOK(e, o) /\ QueueOK(e, h) /\ Unique(e)
  BY DEF Mid, Sound
<1>2. s \in Streams /\ s # 0 /\ Opened(e, s) /\ s < e.next_stream_id /\ e.role \in Roles_
  BY <1>1, EngineMembers DEF Mid, ListsOK
<1>3. ev \in EventSet /\ ev.stream = s /\ ev.of = s /\ ev.type = type
  BY <1>2 DEF Event, EventSet
<1> HIDE DEF ev
<1>4. /\ f \in EngineSet
      /\ f.role = e.role /\ f.state = e.state /\ f.input = e.input /\ f.streams = e.streams
      /\ f.stream_order = e.stream_order /\ f.next_stream_id = e.next_stream_id
      /\ f.active_stream = e.active_stream /\ f.connection_done = e.connection_done
      /\ f.goaway_sent = e.goaway_sent /\ f.pending_out = e.pending_out
      /\ f.event_queue = Append(e.event_queue, ev)
  BY <1>1, <1>3, Emitted DEF ev
<1>5. e.event_queue \in Seq(EventSet)
  BY <1>1, EngineMembers
<1>6. Latest(h, f, s, type) /\ \A u, v : u # s /\ Latest(h, e, u, v) => Latest(h, f, u, v)
  <2>3. f.event_queue = Append(e.event_queue, ev) /\ f.role = e.role
    BY <1>4
  <2>1. Latest(h, f, ev.stream, ev.type)
    BY <1>3, <1>5, <2>3, LatestAppended
  <2>2. \A u, v : u # ev.stream /\ Latest(h, e, u, v) => Latest(h, f, u, v)
    BY <1>3, <1>5, <2>3, AppendedQueue
  <2> QED  BY <1>3, <2>1, <2>2
<1>7. QueueOK(f, h)
  <2>1. \E v \in Kinds : Latest(h, e, ev.stream, v) /\ MayFollow(e.role, ev.type, v)
    BY <1>3
  <2> QED  BY <1>1, <1>3, <1>4, <1>5, <2>1, AppendedQueue
<1>8. ListsOK(f) /\ HeadsOK(f) /\ Unique(f) /\ OutputOK(f, o)
  BY <1>1, <1>4 DEF ListsOK, HeadsOK, Unique, OutputOK, Opened
<1>9. Latest(h, f, 0, "nothing")
  BY <1>2, <1>6 DEF Mid
<1>10. \A u \in Streams : Unheard(f, u) => Unheard(e, u) /\ u # s
  <2>1. \A u \in Streams : u \in Nat
    BY ConfigTypes
  <2>2. e.next_stream_id \in Nat
    BY <1>1, EngineMembers
  <2> QED  BY <1>2, <1>4, <2>1, <2>2 DEF Unheard, Opened
<1>11. \A u \in Streams : Unheard(f, u) => Latest(h, f, u, "nothing")
  BY <1>6, <1>10 DEF Mid
<1>12. Sound(f, o, h)
  BY <1>4, <1>7, <1>8, <1>9 DEF Sound
<1>13. Written(f, o) = Written(e, o)
  BY <1>4 DEF Written
<1> QED  BY <1>4, <1>6, <1>9, <1>11, <1>12, <1>13 DEF Mid

\* Items of a stream that is no younger than the others are written in order.
LEMMA WriteSound ==
  ASSUME NEW e, NEW o \in Seq(ItemSet), NEW h, Sound(e, o, h), NEW s \in Streams, Opened(e, s),
         \A t \in Streams : Opened(e, t) => s <= t,
         NEW items \in Seq(ItemSet), \A i \in 1 .. Len(items) : items[i].stream = s,
         NEW f, f = AppendPending(e, items)
  PROVE  Sound(f, o, h)
<1> DEFINE p == Written(e, o)
           q == Written(f, o)
<1>1. e \in EngineSet /\ ListsOK(e) /\ HeadsOK(e) /\ OutputOK(e, o) /\ QueueOK(e, h) /\ Unique(e)
  BY DEF Sound
<1>2. /\ f \in EngineSet
      /\ f.role = e.role /\ f.streams = e.streams
      /\ f.stream_order = e.stream_order /\ f.next_stream_id = e.next_stream_id
      /\ f.active_stream = e.active_stream
      /\ f.goaway_sent = e.goaway_sent /\ f.event_queue = e.event_queue
      /\ p \in Seq(ItemSet) /\ q = p \o items
  <2>1. p \in Seq(ItemSet) /\ q = p \o items
    BY <1>1, WrittenAppended
  <2> HIDE DEF p, q
  <2>2. /\ f \in EngineSet
        /\ f.role = e.role /\ f.streams = e.streams
        /\ f.stream_order = e.stream_order /\ f.next_stream_id = e.next_stream_id
        /\ f.active_stream = e.active_stream
        /\ f.goaway_sent = e.goaway_sent /\ f.event_queue = e.event_queue
    BY <1>1, Appended
  <2> QED  BY <2>1, <2>2
<1>3. ListsOK(f) /\ HeadsOK(f) /\ Unique(f)
  BY <1>1, <1>2 DEF ListsOK, HeadsOK, Unique, Opened
<1>4. s \in Nat /\ s < e.next_stream_id /\ e.next_stream_id \in Nat /\ \A t \in Streams : t \in Nat
  BY <1>1, ConfigTypes, EngineMembers DEF ListsOK
<1>5. InOrder(p) /\ Below(p, s)
  BY <1>1 DEF OutputOK, Written
<1> HIDE DEF p
<1>6. InOrder(q) /\ \A t \in Nat : s <= t => Below(q, t)
  <2>1. InOrder(p \o items) /\ \A t \in Nat : s <= t => Below(p \o items, t)
    BY <1>2, <1>4, <1>5, InOrderConcat
  <2> HIDE DEF q
  <2> QED  BY <1>2, <2>1
<1>7. OutputOK(f, o)
  <2>1. \A t \in Streams : Opened(f, t) => Below(q, t)
    BY <1>2, <1>4, <1>6 DEF Opened
  <2>2. s <= f.next_stream_id /\ f.next_stream_id \in Nat
    BY <1>2, <1>4
  <2> QED  BY <1>6, <2>1, <2>2 DEF OutputOK, Written
<1>8. QueueOK(f, h) /\ \A v, t : Latest(h, f, v, t) <=> Latest(h, e, v, t)
  BY <1>1, <1>2, SameQueue
<1> QED  BY <1>2, <1>3, <1>7, <1>8 DEF Sound

\* Requests are flushed in order, each when the one before it was answered.
LEMMA FlushInv ==
  ASSUME NEW e, NEW r \in Seq(ItemSet), NEW o \in Seq(ItemSet), NEW h, NEW m \in Nat, NEW l \in BOOLEAN,
         EInv(e, r, o, h, m, l), e.role = "client"
  PROVE  EInv(FlushPending(e), r, o, h, m, l)
<1> DEFINE id == e.stream_order[1]
           x == e.streams[id]
           a == AppendPending(e, x.head)
           b == AppendPending(a, x.body_staged)
           y == [x EXCEPT !.head = <<>>, !.body_staged = <<>>, !.head_sent = TRUE]
           u == [e.streams EXCEPT ![id] = y]
           f == [b EXCEPT !.streams = u, !.active_stream = id, !.state = "start_line"]
           none == e.active_stream # 0 \/ e.connection_done \/ e.stream_order = <<>> \/ x.head = <<>>
<1>1. /\ e \in EngineSet /\ ListsOK(e) /\ ModesOK(e) /\ HeadsOK(e) /\ OutputOK(e, o) /\ QueueOK(e, h)
      /\ WireOK(e, r, o, m, l) /\ HeardOK(e, h) /\ Sound(e, o, h)
  BY SoundOf DEF EInv, Shape
<1>2. Head(e.stream_order) = id
  OBVIOUS
<1>3. b \in EngineSet => FlushPending(e) = IF none THEN e ELSE f
  <2>1. FlushPending(e) =
          IF none THEN e
          ELSE [b EXCEPT !.streams[id] = y, !.active_stream = id, !.state = "start_line"]
    BY <1>2 DEF FlushPending
  <2>2. CASE none
    BY <2>1, <2>2
  <2>3. CASE ~none
    <3> DEFINE bb == [b EXCEPT !.streams[id] = y, !.active_stream = id, !.state = "start_line"]
    <3>1. b.streams = e.streams
      BY DEF AppendPending
    <3>2. bb = [b EXCEPT !.streams = [b.streams EXCEPT ![id] = y], !.active_stream = id, !.state = "start_line"]
      OBVIOUS
    <3> HIDE DEF b, y
    <3> QED  BY <2>1, <2>3, <3>1, <3>2
  <2> HIDE DEF none, f
  <2> QED  BY <2>2, <2>3
<1>4. CASE none
  <2>1. FlushPending(e) = e
    <3>1. FlushPending(e) = IF none THEN e
            ELSE [b EXCEPT !.streams[id] = y, !.active_stream = id, !.state = "start_line"]
      BY <1>2 DEF FlushPending
    <3> HIDE DEF none, b, y
    <3> QED  BY <1>4, <3>1
  <2> QED  BY <2>1
<1>5. CASE ~none
  <2>1. /\ e.active_stream = 0 /\ ~e.connection_done /\ Len(e.stream_order) >= 1 /\ e.stream_order \in Seq(Streams)
        /\ id \in Streams /\ id # 0 /\ x.head # <<>>
    <3>1. e.stream_order \in Seq(Streams) /\ e.stream_order # <<>>
      BY <1>1, <1>5, EngineMembers
    <3>2. id \in Streams
      BY <3>1
    <3> QED  BY <1>5, <3>1, <3>2, ConfigTypes
  <2>2. Opened(e, id) /\ \A t \in Streams : Opened(e, t) => id <= t
    <3>1. \A t \in Streams : t \in Nat
      BY ConfigTypes
    <3>2. 1 \in 1 .. Len(e.stream_order)
      BY <2>1
    <3>3. Opened(e, id)
      BY <1>1, <2>1, <3>2 DEF ListsOK
    <3>4. ASSUME NEW t \in Streams, Opened(e, t) PROVE id <= t
      <4>1. PICK i \in 1 .. Len(e.stream_order) : e.stream_order[i] = t
        BY <1>1, <3>4 DEF ListsOK
      <4>2. i = 1 \/ 1 < i
        BY <2>1
      <4>3. i = 1 \/ id < t
        BY <1>1, <3>2, <4>1, <4>2 DEF ListsOK
      <4> HIDE DEF id
      <4> QED  BY <2>1, <3>1, <4>1, <4>3 DEF id
    <3> QED  BY <3>3, <3>4
  <2>3. x \in StreamSet /\ x.head \in Seq(ItemSet) /\ x.body_staged \in Seq(ItemSet) /\ x.present /\ x.bodyless \in BOOLEAN
    BY <1>1, <2>1, <2>2, StreamMembers DEF Opened
  <2>4. HeadOK(x, id) /\ StagedOK(x, id)
    BY <1>1, <2>1 DEF HeadsOK
  <2> HIDE DEF none, id, x
  <2>5. /\ Len(x.head) = 2 /\ x.head[1].type = "start" /\ x.head[2].type # "start"
        /\ x.head[1].stream = id /\ x.head[1].bodyless = x.bodyless
        /\ \A i \in 1 .. Len(x.head) : x.head[i].stream = id
        /\ \A i \in 1 .. Len(x.body_staged) : x.body_staged[i].type # "start" /\ x.body_staged[i].stream = id
    BY <2>1, <2>4 DEF HeadOK, StagedOK
  <2>6. /\ a \in EngineSet
        /\ a.role = e.role /\ a.streams = e.streams /\ a.input = e.input
        /\ a.stream_order = e.stream_order /\ a.next_stream_id = e.next_stream_id
        /\ a.active_stream = e.active_stream /\ a.connection_done = e.connection_done
        /\ a.goaway_sent = e.goaway_sent /\ a.event_queue = e.event_queue
    <3>1. e \in EngineSet /\ x.head \in Seq(ItemSet)
      BY <1>1, <2>3
    <3> HIDE DEF b, u, y, f
    <3> QED  BY <3>1, Appending
  <2>7. Written(e, o) \in Seq(ItemSet) /\ Written(a, o) = Written(e, o) \o x.head
    BY <1>1, <2>3, WrittenAppended
  <2>8. Sound(a, o, h)
    BY <1>1, <2>1, <2>2, <2>3, <2>5, WriteSound
  <2> HIDE DEF a
  <2>9. /\ b \in EngineSet
        /\ b.role = a.role /\ b.streams = a.streams /\ b.input = a.input
        /\ b.stream_order = a.stream_order /\ b.next_stream_id = a.next_stream_id
        /\ b.active_stream = a.active_stream /\ b.connection_done = a.connection_done
        /\ b.goaway_sent = a.goaway_sent /\ b.event_queue = a.event_queue
    BY ZenonT(60), <2>3, <2>6, Appended
  <2>10. Written(a, o) \in Seq(ItemSet) /\ Written(b, o) = Written(a, o) \o x.body_staged
    BY <2>3, <2>6, WrittenAppended
  <2>11. Sound(b, o, h)
    <3>1. Opened(a, id) /\ \A t \in Streams : Opened(a, t) => id <= t
      BY <2>2, <2>6 DEF Opened
    <3>2. x.body_staged \in Seq(ItemSet) /\ \A i \in 1 .. Len(x.body_staged) : x.body_staged[i].stream = id
      BY <2>3, <2>5
    <3> QED  BY <2>1, <2>8, <3>1, <3>2, WriteSound
  <2> HIDE DEF b
  <2>12. /\ y \in StreamSet /\ y.present /\ y.head = <<>> /\ y.body_staged = <<>> /\ y.head_sent
         /\ y.bodyless = x.bodyless
    <3> DEFINE nil == <<>>
    <3>1. nil \in Seq(ItemSet)
      OBVIOUS
    <3>2. y = [x EXCEPT !.head = nil, !.body_staged = nil, !.head_sent = TRUE]
      OBVIOUS
    <3> HIDE DEF nil, y
    <3>3. /\ y \in StreamSet /\ y.present = x.present /\ y.head = nil /\ y.body_staged = nil /\ y.head_sent
          /\ y.bodyless = x.bodyless
      BY <2>3, <3>1, <3>2 DEF StreamSet
    <3> QED  BY <2>3, <3>3 DEF nil
  <2> HIDE DEF y
  <2>13. u \in [Streams -> StreamSet] /\ u[id] = y /\ \A t \in Streams : t # id => u[t] = e.streams[t]
    BY <1>1, <2>1, <2>12, EngineMembers
  <2> HIDE DEF u
  <2>14. /\ f \in EngineSet /\ f.streams = u /\ f.active_stream = id /\ f.state = "start_line"
         /\ f.role = e.role /\ f.input = e.input /\ f.pending_out = b.pending_out
         /\ f.stream_order = e.stream_order /\ f.next_stream_id = e.next_stream_id
         /\ f.connection_done = e.connection_done
         /\ f.goaway_sent = e.goaway_sent /\ f.event_queue = e.event_queue
    BY ZenonT(60), <2>1, <2>6, <2>9, <2>13 DEF EngineSet, ParseStates
  <2>15. FlushPending(e) = f
    BY <1>3, <1>5, <2>9
  <2> HIDE DEF f
  <2>16. \A t \in Streams : Opened(f, t) <=> Opened(e, t)
    BY <2>2, <2>12, <2>13, <2>14 DEF Opened
  <2>17. ListsOK(f)
    BY <1>1, <2>1, <2>2, <2>14, <2>16 DEF ListsOK
  <2>18. HeadsOK(f)
    <3>1. HeadOK(y, id) /\ StagedOK(y, id)
      BY <2>12 DEF HeadOK, StagedOK
    <3>2. \A t \in Streams : HeadOK(e.streams[t], t) /\ StagedOK(e.streams[t], t)
                              => HeadOK(u[t], t) /\ StagedOK(u[t], t)
      BY <2>13, <3>1
    <3> QED  BY <1>1, <2>14, <3>2 DEF HeadsOK
  <2>19. OutputOK(f, o)
    BY <2>6, <2>9, <2>11, <2>14, <2>16 DEF OutputOK, Sound, Opened
  <2>20. QueueOK(f, h) /\ \A v, t : Latest(h, f, v, t) <=> Latest(h, e, v, t)
    BY <1>1, <2>14, SameQueue
  <2>21. e.input = <<>> /\ ~e.goaway_sent
    BY <1>1, <2>1 DEF ModesOK, ClientModes
  <2>22. ModesOK(f)
    <3>1. ClientModes(f)
      BY <2>1, <2>12, <2>13, <2>14 DEF ClientModes, id
    <3> QED  BY <2>1, <2>14, <2>21, <3>1 DEF ModesOK, InBody
  <2>23. HeardOK(f, h)
    <3>1. \A t \in Streams : Unheard(f, t) => Unheard(e, t)
      BY <2>1, <2>14, <2>16, ConfigTypes DEF Unheard
    <3>2. Unheard(e, id)
      BY <2>1, <2>2 DEF Unheard
    <3>3. Latest(h, e, 0, "nothing") /\ \A t \in Streams : Unheard(e, t) => Latest(h, e, t, "nothing")
      BY <1>1, <2>1 DEF HeardOK
    <3> QED  BY <2>1, <2>14, <2>20, <3>1, <3>2, <3>3 DEF HeardOK
  <2>24. WireOK(f, r, o, m, l)
    <3>1. e.state # "done"
      BY <1>1, <2>1 DEF ModesOK
    <3>2. Config(e) = Idle /\ e.input \o r = r
      BY <2>1, <2>21, ConcatEmptySeq DEF Config
    <3>3. PICK d \in Configs : Run("client", Idle, r, d) /\ EndOK("client", d, m, l)
      BY <1>1, <3>1, <3>2 DEF WireOK
    <3>4. r = <<>> \/ r[1].type = "overlong"
      BY <3>3, RunIdle
    <3> DEFINE c == Config(f)
    <3>5. c = At("start_line", 0, id, x.bodyless)
      <4>1. NoBody(f) = x.bodyless
        BY <2>3, <2>12, <2>13, <2>14 DEF NoBody
      <4> QED  BY <2>1, <2>14, <4>1 DEF Config, Remaining, InBody
    <3>6. c \in Configs /\ c.mode = "start_line"
      BY <2>1, <2>3, <3>5, ConfigTypes DEF At, Modes, ParseStates
    <3>7. \E g \in Configs : Run("client", c, r, g) /\ EndOK("client", g, m, l)
      <4> HIDE DEF c
      <4>1. CASE r = <<>>
        BY <3>6, <4>1, RunNothing DEF EndOK
      <4>2. CASE r # <<>>
        <5>1. Run("client", c, r, Lost)
          BY <3>4, <3>6, <4>2, RunBroken
        <5>2. Lost \in Configs /\ EndOK("client", Lost, m, l)
          BY ConfigTypes DEF EndOK, Lost, At
        <5> QED  BY <5>1, <5>2
      <4> QED  BY <4>1, <4>2
    <3>8. ~l => r = <<>> /\ r \in Seq(Plain) /\ AnsweredOK(f, r, o, m)
      <4>1. SUFFICES ASSUME ~l PROVE r = <<>> /\ r \in Seq(Plain) /\ AnsweredOK(f, r, o, m)
        OBVIOUS
      <4>2. r \in Seq(Plain) /\ AnsweredOK(e, r, o, m)
        BY <1>1, <3>1, <4>1 DEF WireOK
      <4>3. r = <<>>
        <5>1. SUFFICES ASSUME r # <<>> PROVE FALSE
          OBVIOUS
        <5>2. r[1] \in Plain
          BY <4>2, <5>1
        <5> QED  BY <3>4, <5>1, <5>2 DEF Plain
      <4>4. m = Cardinality(Starts(Written(e, o)))
        BY <2>1, <4>2 DEF AnsweredOK, Written
      <4>5. /\ Cardinality(Starts(Written(a, o))) = Cardinality(Starts(Written(e, o))) + 1
            /\ LastRequest(Written(a, o), id, x.bodyless)
        BY <2>3, <2>5, <2>7, StartsOne
      <4>6. /\ Starts(Written(b, o)) = Starts(Written(a, o))
            /\ LastRequest(Written(b, o), id, x.bodyless)
        <5>1. Starts(Written(b, o)) = Starts(Written(a, o))
          BY ZenonT(60), <2>3, <2>5, <2>10, StartsConcat
        <5>2. LastRequest(Written(b, o), id, x.bodyless)
          BY <2>3, <2>5, <2>10, <4>5, LastConcat
        <5> QED  BY <5>1, <5>2
      <4>7. Written(f, o) = Written(b, o)
        BY <2>14 DEF Written
      <4>8. f.streams[f.active_stream].bodyless = x.bodyless
        BY <2>12, <2>13, <2>14
      <4> QED  BY <2>1, <2>14, <4>2, <4>3, <4>4, <4>5, <4>6, <4>7, <4>8 DEF AnsweredOK, Written
    <3>9. f.input \o r = r
      BY <2>14, <2>21, ConcatEmptySeq
    <3> HIDE DEF c
    <3> QED  BY <2>14, <3>7, <3>8, <3>9 DEF WireOK, c
  <2> QED  BY <2>14, <2>15, <2>17, <2>18, <2>19, <2>20, <2>22, <2>23, <2>24 DEF EInv, Shape
<1> QED  BY <1>4, <1>5

----------------------------------------------------------------------------
(* The end of a message.                                                   *)

\* A response that ends ends its exchange, and the next request is flushed.
LEMMA FinishClient ==
  ASSUME NEW e, NEW r \in Seq(ItemSet), NEW o \in Seq(ItemSet), NEW h, NEW m \in Nat, NEW l \in BOOLEAN,
         Mid(e, o, h, m, l), e.role = "client", NEW t \in {"headers", "data"},
         Latest(h, e, e.active_stream, t), Goes("client", Idle, r, m, l), Whole("client", r, l)
  PROVE  EInv(CompleteExchange(e, e.active_stream), r, o, h, m, l)
<1> DEFINE s == e.active_stream
           a == Emit(e, Event("stream_closed", s, s))
           b == Erase(a, s)
           x == [b EXCEPT !.state = "start_line"]
<1>1. e \in EngineSet /\ ~e.connection_done /\ e.input = <<>> /\ s \in Streams /\ s # 0 /\ ListsOK(e)
  BY EngineMembers DEF Mid, Sound
<1>2. Mid(a, o, h, m, l)
  <2>1. MayFollow(e.role, "stream_closed", t) /\ t \in Kinds /\ "stream_closed" \in EventTypes
    BY DEF MayFollow, Kinds, EventTypes
  <2> QED  BY <2>1, MidEmit
<1>3. /\ a.role = "client" /\ a.streams = e.streams /\ a.active_stream = s /\ a.input = <<>>
      /\ a.connection_done = FALSE /\ a.goaway_sent = FALSE /\ a \in EngineSet
  <2> DEFINE ev == Event("stream_closed", s, s)
  <2>1. ev \in EventSet
    BY <1>1 DEF Event, EventSet, EventTypes
  <2> HIDE DEF ev
  <2>2. /\ Emit(e, ev) \in EngineSet /\ Emit(e, ev).role = e.role /\ Emit(e, ev).streams = e.streams
        /\ Emit(e, ev).active_stream = e.active_stream /\ Emit(e, ev).input = e.input
        /\ Emit(e, ev).connection_done = e.connection_done /\ Emit(e, ev).goaway_sent = e.goaway_sent
    BY <1>1, <2>1, Emitted
  <2>3. e.connection_done \in BOOLEAN /\ e.goaway_sent \in BOOLEAN /\ ~e.goaway_sent
    BY <1>1, EngineMembers DEF Mid
  <2> QED  BY <1>1, <2>2, <2>3 DEF ev
<1>4. CompleteExchange(e, s) = IF e.streams[s].close_after THEN MarkConnectionDone(b) ELSE FlushPending(x)
  BY <1>1 DEF CompleteExchange
<1> HIDE DEF a
<1>5. Opened(a, s) /\ Sound(a, o, h)
  BY <1>1, <1>2, <1>3 DEF Mid, ListsOK, Opened
<1>6. /\ Sound(b, o, h)
      /\ b.role = a.role /\ b.input = a.input /\ b.pending_out = a.pending_out
      /\ b.next_stream_id = a.next_stream_id
      /\ b.connection_done = a.connection_done /\ b.goaway_sent = a.goaway_sent
      /\ b.event_queue = a.event_queue
      /\ b.active_stream = 0
      /\ \A u \in Streams : Opened(b, u) <=> Opened(a, u) /\ u # s
  BY <1>1, <1>3, <1>5, EraseSound
<1> HIDE DEF b
<1>7. b \in EngineSet
  BY <1>6 DEF Sound
<1>8. /\ x \in EngineSet /\ x.state = "start_line" /\ x.active_stream = 0
      /\ x.role = b.role /\ x.input = b.input /\ x.pending_out = b.pending_out /\ x.streams = b.streams
      /\ x.stream_order = b.stream_order /\ x.next_stream_id = b.next_stream_id
      /\ x.connection_done = b.connection_done /\ x.goaway_sent = b.goaway_sent
      /\ x.event_queue = b.event_queue
  BY <1>6, <1>7 DEF EngineSet, ParseStates
<1> HIDE DEF x
<1>9. Sound(x, o, h)
  BY <1>6, <1>8, SoundSame
<1>10. ModesOK(x)
  BY <1>3, <1>6, <1>8 DEF ModesOK, ClientModes, InBody
<1>11. \A u, v : Latest(h, x, u, v) <=> Latest(h, a, u, v)
  BY <1>6, <1>8, SameQueue
<1>12. HeardOK(x, h)
  <2>1. \A u \in Streams : Unheard(x, u) => Unheard(a, u)
    BY <1>3, <1>6, <1>8 DEF Unheard, Opened
  <2>2. Latest(h, x, 0, "nothing") /\ \A u \in Streams : Unheard(x, u) => Latest(h, x, u, "nothing")
    BY <1>2, <1>11, <2>1 DEF Mid
  <2> QED  BY <1>8, <2>2 DEF HeardOK
<1>13. WireOK(x, r, o, m, l)
  <2>1. Config(x) = Idle /\ x.input \o r = r
    BY <1>3, <1>6, <1>8, ConcatEmptySeq DEF Config
  <2>2. ~l => m = Cardinality(Starts(Written(x, o)))
    BY <1>2, <1>3, <1>6, <1>8 DEF Mid, Written
  <2>3. ~l => AnsweredOK(x, r, o, m)
    BY <1>8, <2>2 DEF AnsweredOK, Written
  <2> QED  BY <1>3, <1>6, <1>8, <2>1, <2>3 DEF WireOK, Goes, Whole
<1>14. EInv(x, r, o, h, m, l)
  BY <1>8, <1>9, <1>10, <1>12, <1>13 DEF EInv, Shape, Sound
<1>15. EInv(FlushPending(x), r, o, h, m, l)
  BY <1>3, <1>6, <1>8, <1>14, FlushInv
<1>16. EInv(MarkConnectionDone(b), r, o, h, m, l)
  BY <1>6, MarkDoneInv
<1> QED  BY <1>4, <1>15, <1>16

\* A request that ends leaves its stream to be answered.
LEMMA FinishServer ==
  ASSUME NEW e, NEW r \in Seq(ItemSet), NEW o \in Seq(ItemSet), NEW h, NEW m \in Nat, NEW l \in BOOLEAN,
         Mid(e, o, h, m, l), e.role = "server", NEW t \in {"headers", "data"},
         Latest(h, e, e.active_stream, t), Goes("server", Between("server", e.active_stream), r, m, l)
  PROVE  EInv(CompleteRequest(e, e.active_stream), r, o, h, m, l)
<1> DEFINE s == e.active_stream
           a == Emit(e, Event("stream_closed", s, s))
           x == [e.streams[s] EXCEPT !.request_body_done = TRUE]
           u == [e.streams EXCEPT ![s] = x]
           f == [a EXCEPT !.streams = u, !.state = "awaiting_response"]
<1>1. e \in EngineSet /\ ~e.connection_done /\ e.input = <<>> /\ s \in Streams /\ s # 0 /\ ListsOK(e)
  BY EngineMembers DEF Mid, Sound
<1>2. Mid(a, o, h, m, l)
  <2>1. MayFollow(e.role, "stream_closed", t) /\ t \in Kinds /\ "stream_closed" \in EventTypes
    BY DEF MayFollow, Kinds, EventTypes
  <2> QED  BY <2>1, MidEmit
<1>3. a.role = "server" /\ a.streams = e.streams /\ a.active_stream = s /\ a.input = <<>> /\ a \in EngineSet
  <2> DEFINE ev == Event("stream_closed", s, s)
  <2>1. ev \in EventSet
    BY <1>1 DEF Event, EventSet, EventTypes
  <2> HIDE DEF ev
  <2>2. /\ Emit(e, ev) \in EngineSet /\ Emit(e, ev).role = e.role /\ Emit(e, ev).streams = e.streams
        /\ Emit(e, ev).active_stream = e.active_stream /\ Emit(e, ev).input = e.input
    BY <1>1, <2>1, Emitted
  <2> QED  BY <1>1, <2>2 DEF ev
<1>4. CompleteRequest(e, s) = f
  <2>1. CompleteRequest(e, s) = [a EXCEPT !.streams[s].request_body_done = TRUE, !.state = "awaiting_response"]
    BY DEF CompleteRequest
  <2> HIDE DEF a
  <2> QED  BY <1>3, <2>1 DEF EngineSet
<1> HIDE DEF a
<1>5. x \in StreamSet /\ x.present = e.streams[s].present
  <2>1. e.streams[s] \in StreamSet
    BY <1>1, EngineMembers
  <2> QED  BY <2>1 DEF StreamSet
<1> HIDE DEF x
<1>6. u \in [Streams -> StreamSet] /\ u[s] = x /\ \A v \in Streams : v # s => u[v] = e.streams[v]
  BY <1>1, <1>5, EngineMembers
<1> HIDE DEF u
<1>7. /\ f \in EngineSet /\ f.streams = u /\ f.state = "awaiting_response"
      /\ f.role = "server" /\ f.input = <<>> /\ f.pending_out = a.pending_out
      /\ f.stream_order = a.stream_order /\ f.next_stream_id = a.next_stream_id
      /\ f.connection_done = a.connection_done /\ f.active_stream = s
      /\ f.goaway_sent = a.goaway_sent /\ f.event_queue = a.event_queue
  BY <1>3, <1>6 DEF EngineSet, ParseStates
<1> HIDE DEF f
<1>8. Sound(a, o, h) /\ \A v \in Streams : Opened(f, v) <=> Opened(a, v)
  BY <1>1, <1>2, <1>3, <1>5, <1>6, <1>7 DEF Mid, Opened
<1>9. ListsOK(f) /\ HeadsOK(f) /\ Unique(f) /\ OutputOK(f, o)
  <2>1. ListsOK(f)
    BY <1>1, <1>3, <1>7, <1>8 DEF Sound, ListsOK
  <2>2. HeadsOK(f)
    BY <1>7 DEF HeadsOK
  <2>3. Unique(f) /\ OutputOK(f, o)
    BY <1>3, <1>7, <1>8 DEF Sound, Unique, OutputOK
  <2> QED  BY <2>1, <2>2, <2>3
<1>10. QueueOK(f, h) /\ \A v, w : Latest(h, f, v, w) <=> Latest(h, a, v, w)
  BY <1>3, <1>7, <1>8, SameQueue DEF Sound
<1>11. Opened(f, s) /\ f.next_stream_id = s + 2 /\ ~f.connection_done /\ ~f.goaway_sent
  BY <1>1, <1>2, <1>3, <1>7, <1>9 DEF Mid, ListsOK
<1>12. ModesOK(f)
  <2>1. ServerModes(f)
    BY <1>1, <1>7, <1>9, <1>11 DEF ServerModes, Unique
  <2> QED  BY <1>7, <1>11, <2>1 DEF ModesOK, InBody
<1>13. HeardOK(f, h)
  <2>1. \A v \in Streams : Unheard(f, v) => Unheard(a, v)
    BY <1>3, <1>7 DEF Unheard
  <2>2. Latest(h, f, 0, "nothing") /\ \A v \in Streams : Unheard(f, v) => Latest(h, f, v, "nothing")
    BY <1>2, <1>10, <2>1 DEF Mid
  <2> QED  BY <1>7, <2>2 DEF HeardOK
<1>14. WireOK(f, r, o, m, l)
  <2>1. Config(f) = Between("server", s) /\ f.input \o r = r
    BY <1>7, <1>11, ConcatEmptySeq DEF Config, Between
  <2> QED  BY <1>7, <2>1 DEF WireOK, Goes
<1> QED  BY <1>4, <1>7, <1>9, <1>10, <1>12, <1>13, <1>14 DEF EInv, Shape

\* A message that ends is a turn of the parser, in either role.
LEMMA FinishInv ==
  ASSUME NEW e, NEW r \in Seq(ItemSet), NEW o \in Seq(ItemSet), NEW h, NEW m \in Nat, NEW l \in BOOLEAN,
         Mid(e, o, h, m, l), NEW t \in {"headers", "data"}, Latest(h, e, e.active_stream, t),
         Goes(e.role, Between(e.role, e.active_stream), r, m, l), Whole(e.role, r, l)
  PROVE  EInv(FinishMessage(e), r, o, h, m, l)
<1>1. e.role = "client" \/ e.role = "server"
  BY EngineMembers DEF Mid, Sound, Roles_
<1>2. CASE e.role = "client"
  <2>1. Goes("client", Idle, r, m, l) /\ Whole("client", r, l)
    BY <1>2 DEF Between
  <2> QED  BY <1>2, <2>1, FinishClient DEF FinishMessage
<1>3. CASE e.role = "server"
  <2>1. Goes("server", Between("server", e.active_stream), r, m, l)
    BY <1>3
  <2> QED  BY <1>3, <2>1, FinishServer DEF FinishMessage
<1> QED  BY <1>1, <1>2, <1>3

----------------------------------------------------------------------------
(* One turn of the parser.                                                 *)

\* it comes next, in the middle of a message, and leads to c; then comes r.
Turn(e, it, c, r, o, h, m, l) ==
  /\ Mid(e, o, h, m, l) /\ Said(e, h) /\ it \in ItemSet /\ it.stream = e.active_stream
  /\ StepMessage(e.role, Config(e), it, c) /\ Goes(e.role, c, r, m, l) /\ Whole(e.role, r, l)
  /\ InBody(e) => e.body_remaining # 0
  /\ e.role = "server" => e.state \notin {"start_line", "skip_interim", "body_until_close"}

\* The active stream and its members, in the middle of a message.
LEMMA MidMembers ==
  ASSUME NEW e, NEW o, NEW h, NEW m, NEW l, Mid(e, o, h, m, l)
  PROVE  /\ e \in EngineSet /\ e.active_stream \in Streams /\ e.active_stream # 0
         /\ e.role = "client" \/ e.role = "server"
         /\ Opened(e, e.active_stream) /\ e.streams[e.active_stream] \in StreamSet
         /\ e.streams[e.active_stream].bodyless \in BOOLEAN /\ e.bodyless \in BOOLEAN
         /\ e.streams[e.active_stream].close_after \in BOOLEAN
         /\ e.body_remaining \in Nat
<1>1. e \in EngineSet /\ ListsOK(e) /\ e.active_stream # 0
  BY DEF Mid, Sound
<1>2. e.active_stream \in Streams /\ (e.role = "client" \/ e.role = "server")
  BY <1>1, EngineMembers DEF Roles_
<1> QED  BY <1>1, <1>2, EngineMembers, StreamMembers DEF ListsOK

\* Where the parser is in the middle of a message.
LEMMA ConfigOf ==
  ASSUME NEW e, e.active_stream # 0, e.role = "client" \/ e.role = "server",
         e.state # "awaiting_response", e.role = "server" => e.state # "start_line"
  PROVE  Config(e) = At(e.state, Remaining(e), e.active_stream, e.role = "client" /\ NoBody(e))
<1>1. CASE e.role = "client"
  BY <1>1 DEF Config, NoBody
<1>2. CASE e.role = "server"
  BY <1>2 DEF Config
<1> QED  BY <1>1, <1>2

\* The start line, or interim response, of what a client waits for.
LEMMA TurnStart ==
  ASSUME NEW e, NEW it, NEW c, NEW r \in Seq(ItemSet), NEW o \in Seq(ItemSet), NEW h, NEW m \in Nat,
         NEW l \in BOOLEAN, Turn(e, it, c, r, o, h, m, l), e.state = "start_line"
  PROVE  EInv(ParseStartLine(e, it), r, o, h, m, l)
<1> DEFINE a == [e EXCEPT !.state = "skip_interim"]
           b == [e EXCEPT !.state = "headers", !.bodyless = it.bodyless]
           s == e.active_stream
           x == e.streams[s]
<1>1. Mid(e, o, h, m, l) /\ e \in EngineSet /\ s # 0 /\ e.role = "client" /\ it.bodyless \in BOOLEAN
  BY MidMembers DEF Turn, ItemSet
<1>2. Config(e) = At("start_line", 0, s, x.bodyless)
  <2>1. Remaining(e) = 0 /\ (e.role = "client" /\ NoBody(e)) = x.bodyless
    BY <1>1, MidMembers DEF Remaining, InBody, NoBody
  <2> QED  BY <1>1, <2>1, ConfigOf
<1>3. \/ it.type = "interim" /\ c = At("skip_interim", 0, s, x.bodyless)
      \/ it.type = "start" /\ c = At("headers", 0, s, x.bodyless \/ it.bodyless)
  BY <1>1, <1>2 DEF Turn, StepMessage, At
<1>4. Latest(h, e, s, "nothing")
  BY DEF Turn, Said
<1>5. CASE it.type = "interim"
  <2>1. /\ a \in EngineSet /\ a.state = "skip_interim"
        /\ a.role = e.role /\ a.streams = e.streams /\ a.stream_order = e.stream_order /\ a.input = e.input
        /\ a.next_stream_id = e.next_stream_id /\ a.pending_out = e.pending_out
        /\ a.event_queue = e.event_queue /\ a.goaway_sent = e.goaway_sent
        /\ a.connection_done = e.connection_done /\ a.active_stream = e.active_stream
    BY <1>1 DEF EngineSet, ParseStates
  <2> HIDE DEF a
  <2>2. Mid(a, o, h, m, l)
    BY <1>1, <2>1, MidSame
  <2>3. Said(a, h)
    BY <1>4, <2>1, SameQueue DEF Said
  <2>4. Config(a) = c
    <3>1. Remaining(a) = 0 /\ (a.role = "client" /\ NoBody(a)) = x.bodyless
      BY <1>1, <2>1, MidMembers DEF Remaining, InBody, NoBody
    <3> QED  BY <1>1, <1>3, <1>5, <2>1, <3>1, ConfigOf
  <2>5. EInv(a, r, o, h, m, l)
    BY <1>1, <2>1, <2>2, <2>3, <2>4, MidInv DEF Turn, InBody
  <2> QED  BY <1>1, <1>5, <2>5 DEF ParseStartLine, a
<1>6. CASE it.type # "interim"
  <2>1. /\ b \in EngineSet /\ b.state = "headers" /\ b.bodyless = it.bodyless
        /\ b.role = e.role /\ b.streams = e.streams /\ b.stream_order = e.stream_order /\ b.input = e.input
        /\ b.next_stream_id = e.next_stream_id /\ b.pending_out = e.pending_out
        /\ b.event_queue = e.event_queue /\ b.goaway_sent = e.goaway_sent
        /\ b.connection_done = e.connection_done /\ b.active_stream = e.active_stream
    BY <1>1 DEF EngineSet, ParseStates
  <2> HIDE DEF b
  <2>2. Mid(b, o, h, m, l)
    BY <1>1, <2>1, MidSame
  <2>3. Said(b, h)
    BY <1>1, <1>4, <2>1, SameQueue DEF Said
  <2>4. Config(b) = c
    <3>1. Remaining(b) = 0 /\ (b.role = "client" /\ NoBody(b)) = (x.bodyless \/ it.bodyless)
      BY <1>1, <2>1, MidMembers DEF Remaining, InBody, NoBody
    <3> QED  BY <1>1, <1>3, <1>6, <2>1, <3>1, ConfigOf
  <2>5. EInv(b, r, o, h, m, l)
    BY <1>1, <2>1, <2>2, <2>3, <2>4, MidInv DEF Turn, InBody
  <2> QED  BY <1>1, <1>6, <2>5 DEF ParseStartLine, b
<1> QED  BY <1>5, <1>6

\* A turn that only moves the parser on.
LEMMA TurnState ==
  ASSUME NEW e, NEW it, NEW c, NEW r \in Seq(ItemSet), NEW o \in Seq(ItemSet), NEW h, NEW m \in Nat,
         NEW l \in BOOLEAN, Turn(e, it, c, r, o, h, m, l),
         NEW f \in EngineSet,
         \/ e.state = "skip_interim" /\ f.state = "start_line"
         \/ /\ e.state = "chunk_size" /\ f.body_remaining = it.n
            /\ f.state = IF it.n = 0 THEN "chunk_trailer" ELSE "chunk_data"
         \/ e.state = "chunk_crlf" /\ f.state = "chunk_size",
         f.role = e.role, f.streams = e.streams, f.stream_order = e.stream_order, f.input = e.input,
         f.next_stream_id = e.next_stream_id, f.pending_out = e.pending_out,
         f.event_queue = e.event_queue, f.goaway_sent = e.goaway_sent,
         f.connection_done = e.connection_done, f.active_stream = e.active_stream
  PROVE  EInv(f, r, o, h, m, l)
<1> DEFINE s == e.active_stream
           x == e.streams[s]
<1>1. Mid(e, o, h, m, l) /\ e \in EngineSet /\ s # 0 /\ (e.role = "client" \/ e.role = "server")
  BY MidMembers DEF Turn
<1>2. /\ f \in EngineSet
      /\ f.role = e.role /\ f.streams = e.streams /\ f.stream_order = e.stream_order /\ f.input = e.input
      /\ f.next_stream_id = e.next_stream_id /\ f.pending_out = e.pending_out
      /\ f.event_queue = e.event_queue /\ f.goaway_sent = e.goaway_sent
      /\ f.connection_done = e.connection_done /\ f.active_stream = e.active_stream
  OBVIOUS
<1>3. Mid(f, o, h, m, l)
  BY <1>1, <1>2, MidSame
<1>4. Said(f, h)
  BY <1>2, SameQueue DEF Said, Turn
<1>5. (InBody(f) => f.body_remaining # 0) /\ (f.role = "server" => f.state \notin {"start_line", "skip_interim", "body_until_close"})
  BY <1>2 DEF InBody, Turn
<1>6. Config(e) = At(e.state, Remaining(e), s, e.role = "client" /\ NoBody(e))
  BY <1>1, ConfigOf DEF Turn
<1>7. Config(f) = At(f.state, Remaining(f), s, f.role = "client" /\ NoBody(f))
  BY <1>1, <1>2, <1>5, ConfigOf
<1>8. Config(f) = c
  <2>1. CASE e.state = "skip_interim"
    <3>1. c = At("start_line", 0, s, e.role = "client" /\ NoBody(e))
      BY <1>6, <2>1 DEF Turn, StepMessage, At
    <3>2. Remaining(f) = 0 /\ NoBody(f) = NoBody(e)
      BY <1>1, <1>2, <2>1 DEF Remaining, InBody, NoBody
    <3> QED  BY <1>2, <1>7, <2>1, <3>1, <3>2
  <2>2. CASE e.state = "chunk_size"
    <3>1. c = IF it.n = 0 THEN At("chunk_trailer", 0, s, FALSE) ELSE At("chunk_data", it.n, s, FALSE)
      BY <1>6, <2>2 DEF Turn, StepMessage, At
    <3>2. Remaining(f) = (IF it.n = 0 THEN 0 ELSE it.n) /\ NoBody(f) = FALSE
      BY <1>2, <2>2 DEF Remaining, InBody, NoBody
    <3> QED  BY <1>2, <1>7, <2>2, <3>1, <3>2
  <2>3. CASE e.state = "chunk_crlf"
    <3>1. c = At("chunk_size", 0, s, FALSE)
      BY <1>6, <2>3 DEF Turn, StepMessage, At
    <3>2. Remaining(f) = 0 /\ NoBody(f) = FALSE
      BY <1>2, <2>3 DEF Remaining, InBody, NoBody
    <3> QED  BY <1>2, <1>7, <2>3, <3>1, <3>2
  <2> QED  BY <2>1, <2>2, <2>3
<1>9. Goes(f.role, Config(f), r, m, l) /\ Whole(f.role, r, l)
  BY <1>2, <1>8 DEF Turn
<1>10. f.state \notin {"awaiting_response", "done"}
  BY <1>2
<1> QED  BY <1>3, <1>4, <1>5, <1>9, <1>10, MidInv

\* A unit of body is reported on its stream.
LEMMA DataMid ==
  ASSUME NEW e, NEW it, NEW o, NEW h, NEW m, NEW l, Mid(e, o, h, m, l), Said(e, h),
         e.state \in {"body_length", "chunk_data", "body_until_close"}, it.stream = e.active_stream,
         NEW n \in Nat, NEW f,
         f = Emit([e EXCEPT !.body_remaining = n], Event("data", e.active_stream, it.stream))
  PROVE  /\ Mid(f, o, h, m, l) /\ Latest(h, f, e.active_stream, "data")
         /\ f \in EngineSet /\ f.state = e.state /\ f.body_remaining = n /\ f.role = e.role
         /\ f.active_stream = e.active_stream
<1> DEFINE s == e.active_stream
           g == [e EXCEPT !.body_remaining = n]
           ev == Event("data", s, s)
<1>1. e \in EngineSet /\ s \in Streams /\ s # 0
  BY MidMembers
<1>2. /\ g \in EngineSet /\ g.body_remaining = n /\ g.state = e.state
      /\ g.role = e.role /\ g.streams = e.streams /\ g.stream_order = e.stream_order /\ g.input = e.input
      /\ g.next_stream_id = e.next_stream_id /\ g.pending_out = e.pending_out
      /\ g.event_queue = e.event_queue /\ g.goaway_sent = e.goaway_sent
      /\ g.connection_done = e.connection_done /\ g.active_stream = e.active_stream
  BY <1>1 DEF EngineSet
<1> HIDE DEF g
<1>3. f = Emit(g, ev)
  BY DEF g
<1>4. Mid(g, o, h, m, l)
  BY <1>2, MidSame
<1>5. PICK t \in {"headers", "data"} : Latest(h, e, s, t)
  BY DEF Said
<1>6. Latest(h, g, s, t) /\ t \in Kinds /\ MayFollow(g.role, "data", t) /\ "data" \in EventTypes
  BY <1>2, <1>5, SameQueue DEF MayFollow, Kinds, EventTypes
<1>7. Mid(f, o, h, m, l) /\ Latest(h, f, s, "data")
  BY <1>2, <1>3, <1>4, <1>6, MidEmit
<1>8. ev \in EventSet
  BY <1>1 DEF Event, EventSet, EventTypes
<1> HIDE DEF ev
<1>9. f \in EngineSet /\ f.state = e.state /\ f.body_remaining = n /\ f.role = e.role /\ f.active_stream = s
  BY <1>2, <1>3, <1>8, Emitted
<1> QED  BY <1>7, <1>9

\* A unit of a body whose framing says how much is to come.
LEMMA TurnUnit ==
  ASSUME NEW e, NEW it, NEW c, NEW r \in Seq(ItemSet), NEW o \in Seq(ItemSet), NEW h, NEW m \in Nat,
         NEW l \in BOOLEAN, Turn(e, it, c, r, o, h, m, l), e.state \in {"body_length", "chunk_data"}
  PROVE  EInv(ParseItem(e, it), r, o, h, m, l)
<1> DEFINE s == e.active_stream
           n == e.body_remaining
           f == EmitData(e, it)
           g == [f EXCEPT !.state = "chunk_crlf"]
<1>1. Mid(e, o, h, m, l) /\ e \in EngineSet /\ s # 0 /\ (e.role = "client" \/ e.role = "server")
      /\ Said(e, h) /\ it.stream = s
  BY MidMembers DEF Turn
<1>2. n \in Nat /\ n # 0 /\ n - 1 \in Nat /\ Remaining(e) = n
  BY <1>1, MidMembers DEF Turn, InBody, Remaining
<1>3. f = Emit([e EXCEPT !.body_remaining = n - 1], Event("data", s, it.stream))
  BY DEF EmitData
<1>4. /\ Mid(f, o, h, m, l) /\ Latest(h, f, s, "data")
      /\ f \in EngineSet /\ f.state = e.state /\ f.body_remaining = n - 1 /\ f.role = e.role
      /\ f.active_stream = s
  <2> HIDE DEF f
  <2> QED  BY <1>1, <1>2, <1>3, DataMid
<1>5. ParseItem(e, it) =
        IF n = 1 THEN IF e.state = "body_length" THEN FinishMessage(f) ELSE g
                 ELSE f
  <2>1. CASE e.state = "body_length"
    BY <2>1 DEF ParseItem, Unsolicited, LineStates, ParseStates
  <2>2. CASE e.state = "chunk_data"
    <3>1. ParseItem(e, it) = [f EXCEPT !.state = IF n = 1 THEN "chunk_crlf" ELSE f.state]
      BY <2>2 DEF ParseItem, Unsolicited, LineStates, ParseStates
    <3>2. [f EXCEPT !.state = f.state] = f
      BY <1>4 DEF EngineSet
    <3> HIDE DEF f
    <3> QED  BY <2>2, <3>1, <3>2
  <2> QED  BY <2>1, <2>2
<1> HIDE DEF f
<1>6. Config(e) = At(e.state, n, s, e.role = "client" /\ NoBody(e))
  BY <1>1, <1>2, ConfigOf
<1>7. StepBody(At(e.state, n, s, FALSE), c, IF e.state = "body_length" THEN Between(e.role, s)
                                             ELSE At("chunk_crlf", 0, s, FALSE))
  <2>1. NoBody(e) = FALSE
    BY DEF NoBody
  <2>2. (e.role = "client" /\ NoBody(e)) = FALSE
    BY <2>1
  <2> DEFINE c0 == At(e.state, n, s, FALSE)
  <2>3. StepMessage(e.role, c0, it, c)
    BY <1>6, <2>2 DEF Turn
  <2>4. c0.mode = e.state /\ c0.stream = s
    BY DEF At
  <2> HIDE DEF c0
  <2> QED  BY <2>3, <2>4 DEF StepMessage, c0
<1>8. Goes(f.role, c, r, m, l) /\ Whole(f.role, r, l)
  BY <1>4 DEF Turn
<1>9. CASE n = 1 /\ e.state = "body_length"
  <2>1. c = Between(e.role, s)
    BY <1>7, <1>9 DEF StepBody, At
  <2>2. EInv(FinishMessage(f), r, o, h, m, l)
    BY <1>4, <1>8, <2>1, FinishInv
  <2> QED  BY <1>5, <1>9, <2>2
<1>10. CASE n = 1 /\ e.state # "body_length"
  <2>1. c = At("chunk_crlf", 0, s, FALSE)
    BY <1>7, <1>10 DEF StepBody, At
  <2>2. /\ g \in EngineSet /\ g.state = "chunk_crlf"
        /\ g.role = f.role /\ g.streams = f.streams /\ g.stream_order = f.stream_order /\ g.input = f.input
        /\ g.next_stream_id = f.next_stream_id /\ g.pending_out = f.pending_out
        /\ g.event_queue = f.event_queue /\ g.goaway_sent = f.goaway_sent
        /\ g.connection_done = f.connection_done /\ g.active_stream = f.active_stream
    BY <1>4 DEF EngineSet, ParseStates
  <2> HIDE DEF g
  <2>3. Mid(g, o, h, m, l)
    BY <1>4, <2>2, MidSame
  <2>4. Said(g, h)
    BY <1>4, <2>2, SameQueue DEF Said
  <2>5. Config(g) = c
    <3>1. Config(g) = At(g.state, Remaining(g), s, g.role = "client" /\ NoBody(g))
      BY <1>1, <1>4, <2>2, ConfigOf
    <3>2. Remaining(g) = 0 /\ NoBody(g) = FALSE
      BY <2>2 DEF Remaining, InBody, NoBody
    <3> QED  BY <2>1, <2>2, <3>1, <3>2
  <2>6. EInv(g, r, o, h, m, l)
    BY <1>8, <2>2, <2>3, <2>4, <2>5, MidInv DEF InBody
  <2> QED  BY <1>5, <1>10, <2>6
<1>11. CASE n # 1
  <2>1. c = At(e.state, n - 1, s, FALSE)
    BY <1>7, <1>11 DEF StepBody, At
  <2>2. Said(f, h)
    BY <1>4 DEF Said
  <2>3. Config(f) = c
    <3>1. Config(f) = At(f.state, Remaining(f), s, f.role = "client" /\ NoBody(f))
      BY <1>1, <1>4, ConfigOf
    <3>2. Remaining(f) = n - 1 /\ NoBody(f) = FALSE
      BY <1>4 DEF Remaining, InBody, NoBody
    <3> QED  BY <1>4, <2>1, <3>1, <3>2
  <2>4. EInv(f, r, o, h, m, l)
    <3>1. f.body_remaining # 0
      BY <1>2, <1>4, <1>11
    <3> QED  BY <1>4, <1>8, <2>2, <2>3, <3>1, MidInv
  <2> QED  BY <1>5, <1>11, <2>4
<1> QED  BY <1>9, <1>10, <1>11

\* A unit of a body that ends with the connection.
LEMMA TurnUntilClose ==
  ASSUME NEW e, NEW it, NEW c, NEW r \in Seq(ItemSet), NEW o \in Seq(ItemSet), NEW h, NEW m \in Nat,
         NEW l \in BOOLEAN, Turn(e, it, c, r, o, h, m, l), e.state = "body_until_close"
  PROVE  EInv(ParseItem(e, it), r, o, h, m, l)
<1> DEFINE s == e.active_stream
           n == e.body_remaining
           ev == Event("data", s, it.stream)
           f == Emit([e EXCEPT !.body_remaining = n], ev)
<1>1. Mid(e, o, h, m, l) /\ e \in EngineSet /\ s # 0 /\ (e.role = "client" \/ e.role = "server")
      /\ Said(e, h) /\ it.stream = s /\ n \in Nat
  BY MidMembers DEF Turn
<1>2. ParseItem(e, it) = f
  <2>1. [e EXCEPT !.body_remaining = n] = e
    BY <1>1 DEF EngineSet
  <2>2. ParseItem(e, it) = Emit(e, ev)
    BY DEF ParseItem, Unsolicited, LineStates, ParseStates
  <2> QED  BY <2>1, <2>2
<1>3. /\ Mid(f, o, h, m, l) /\ Latest(h, f, s, "data")
      /\ f \in EngineSet /\ f.state = e.state /\ f.role = e.role /\ f.active_stream = s
  BY <1>1, DataMid
<1> HIDE DEF f
<1>4. Config(e) = At("body_until_close", 0, s, FALSE)
  <2>1. Remaining(e) = 0 /\ NoBody(e) = FALSE
    BY DEF Remaining, InBody, NoBody
  <2> QED  BY <1>1, <2>1, ConfigOf
<1>5. c = Config(e)
  BY <1>4 DEF Turn, StepMessage, At
<1>6. Config(f) = c
  <2>1. Remaining(f) = 0 /\ NoBody(f) = FALSE
    BY <1>3 DEF Remaining, InBody, NoBody
  <2> QED  BY <1>1, <1>3, <1>4, <1>5, <2>1, ConfigOf
<1>7. Said(f, h)
  BY <1>3 DEF Said
<1>8. EInv(f, r, o, h, m, l)
  BY <1>3, <1>6, <1>7, MidInv DEF Turn, InBody
<1> QED  BY <1>2, <1>8

\* The empty line after the last chunk.
LEMMA TurnTrailer ==
  ASSUME NEW e, NEW it, NEW c, NEW r \in Seq(ItemSet), NEW o \in Seq(ItemSet), NEW h, NEW m \in Nat,
         NEW l \in BOOLEAN, Turn(e, it, c, r, o, h, m, l), e.state = "chunk_trailer"
  PROVE  EInv(FinishMessage(e), r, o, h, m, l)
<1>1. Mid(e, o, h, m, l) /\ e.active_stream # 0 /\ (e.role = "client" \/ e.role = "server")
  BY MidMembers DEF Turn
<1>2. PICK t \in {"headers", "data"} : Latest(h, e, e.active_stream, t)
  BY DEF Turn, Said
<1>3. Config(e) = At("chunk_trailer", Remaining(e), e.active_stream, e.role = "client" /\ NoBody(e))
  BY <1>1, ConfigOf
<1>4. c = Between(e.role, e.active_stream)
  BY <1>3 DEF Turn, StepMessage, At
<1> QED  BY <1>1, <1>2, <1>4, FinishInv DEF Turn

\* The go-ahead that a request asks for is written on its stream.
LEMMA ContinueMid ==
  ASSUME NEW e, NEW it, NEW o \in Seq(ItemSet), NEW h, NEW m, NEW l, Mid(e, o, h, m, l),
         NEW f, f = SendContinue(e, it)
  PROVE  /\ Mid(f, o, h, m, l) /\ f.state = e.state /\ f.body_remaining = e.body_remaining
         /\ f.role = e.role /\ f.active_stream = e.active_stream /\ f.event_queue = e.event_queue
<1> DEFINE s == e.active_stream
           x == Item("interim", s, 0)
           y == Fields(s, "none", 0, FALSE)
           q == <<x, y>>
           g == AppendPending(e, q)
<1>1. e \in EngineSet /\ s \in Streams /\ s # 0 /\ Opened(e, s) /\ Sound(e, o, h)
  BY MidMembers DEF Mid
<1>2. CASE e.role = "server" /\ it.expect
  <2>1. f = g
    BY <1>2 DEF SendContinue
  <2>2. x \in ItemSet /\ x.stream = s
    BY <1>1, ItemMembers DEF ItemTypes
  <2>3. y \in ItemSet /\ y.stream = s
    BY ZenonT(60), <1>1, FieldsItem DEF Plain, Framings
  <2> HIDE DEF x, y
  <2>4. q \in Seq(ItemSet) /\ \A i \in 1 .. Len(q) : q[i].stream = s
    <3>1. Len(q) = 2 /\ q[1] = x /\ q[2] = y
      OBVIOUS
    <3>2. \A i \in 1 .. 2 : i = 1 \/ i = 2
      OBVIOUS
    <3>3. q \in Seq(ItemSet)
      BY <2>2, <2>3
    <3> HIDE DEF q
    <3> QED  BY <2>2, <2>3, <3>1, <3>2, <3>3
  <2> HIDE DEF q
  <2>5. \A t \in Streams : Opened(e, t) => s <= t
    <3>1. \A t \in Streams : t \in Nat
      BY ConfigTypes
    <3>2. \A t \in Streams : Opened(e, t) => t = s
      BY <1>1, <1>2 DEF Sound, Unique
    <3> QED  BY <1>1, <3>1, <3>2
  <2>6. Sound(g, o, h)
    BY <1>1, <2>4, <2>5, WriteSound
  <2>7. /\ g \in EngineSet
        /\ g.role = e.role /\ g.streams = e.streams /\ g.input = e.input
        /\ g.stream_order = e.stream_order /\ g.next_stream_id = e.next_stream_id
        /\ g.active_stream = e.active_stream /\ g.connection_done = e.connection_done
        /\ g.goaway_sent = e.goaway_sent /\ g.event_queue = e.event_queue
    BY <1>1, <2>4, Appending
  <2>8. g.state = e.state /\ g.body_remaining = e.body_remaining
    BY <1>1, <2>4, Appended
  <2> HIDE DEF g
  <2>9. \A u, v : Latest(h, g, u, v) <=> Latest(h, e, u, v)
    BY <2>7, SameQueue
  <2>10. Mid(g, o, h, m, l)
    BY <1>2, <2>6, <2>7, <2>9 DEF Mid, Unheard, Opened
  <2> QED  BY <2>1, <2>7, <2>8, <2>10
<1>3. CASE ~(e.role = "server" /\ it.expect)
  BY <1>3 DEF SendContinue
<1> QED  BY <1>2, <1>3

\* The parser is at the body that the headers announced.
LEMMA BodyInv ==
  ASSUME NEW g, NEW r \in Seq(ItemSet), NEW o, NEW h, NEW m, NEW l,
         Mid(g, o, h, m, l), Latest(h, g, g.active_stream, "headers"),
         g.state \in {"body_until_close", "chunk_size", "body_length"},
         g.state = "body_until_close" => g.role = "client", g.state = "body_length" => g.body_remaining # 0,
         Goes(g.role, At(g.state, Remaining(g), g.active_stream, FALSE), r, m, l), Whole(g.role, r, l)
  PROVE  EInv(g, r, o, h, m, l)
<1>1. g.active_stream # 0 /\ (g.role = "client" \/ g.role = "server")
  BY MidMembers
<1>2. Said(g, h)
  BY DEF Said
<1>3. Config(g) = At(g.state, Remaining(g), g.active_stream, g.role = "client" /\ NoBody(g))
  BY <1>1, ConfigOf
<1>4. NoBody(g) = FALSE
  BY DEF NoBody
<1>5. Config(g) = At(g.state, Remaining(g), g.active_stream, FALSE)
  BY <1>3, <1>4
<1>6. Goes(g.role, Config(g), r, m, l) /\ Whole(g.role, r, l)
  BY <1>5
<1>7. InBody(g) => g.body_remaining # 0
  BY DEF InBody
<1> QED  BY <1>1, <1>2, <1>6, <1>7, MidInv

\* The parser goes on to that body, after the go-ahead or without it.
LEMMA HeadersThen ==
  ASSUME NEW n, NEW it, NEW r \in Seq(ItemSet), NEW o \in Seq(ItemSet), NEW h, NEW m, NEW l,
         Mid(n, o, h, m, l), Latest(h, n, n.active_stream, "headers"),
         NEW f \in EngineSet,
         f.role = n.role, f.streams = n.streams, f.stream_order = n.stream_order, f.input = n.input,
         f.next_stream_id = n.next_stream_id, f.pending_out = n.pending_out,
         f.event_queue = n.event_queue, f.goaway_sent = n.goaway_sent,
         f.connection_done = n.connection_done, f.active_stream = n.active_stream,
         f.state \in {"body_until_close", "chunk_size", "body_length"},
         f.state = "body_until_close" => f.role = "client", f.state = "body_length" => f.body_remaining # 0,
         Goes(f.role, At(f.state, Remaining(f), f.active_stream, FALSE), r, m, l), Whole(f.role, r, l)
  PROVE  EInv(f, r, o, h, m, l) /\ EInv(SendContinue(f, it), r, o, h, m, l)
<1> DEFINE g == SendContinue(f, it)
<1>1. Mid(f, o, h, m, l)
  BY MidSame
<1>2. Latest(h, f, f.active_stream, "headers")
  BY SameQueue
<1>3. EInv(f, r, o, h, m, l)
  BY <1>1, <1>2, BodyInv
<1>4. /\ Mid(g, o, h, m, l) /\ g.state = f.state /\ g.body_remaining = f.body_remaining
      /\ g.role = f.role /\ g.active_stream = f.active_stream /\ g.event_queue = f.event_queue
  BY <1>1, ContinueMid
<1> HIDE DEF g
<1>5. Latest(h, g, g.active_stream, "headers")
  BY <1>2, <1>4, SameQueue
<1>6. Remaining(g) = Remaining(f)
  BY <1>4 DEF Remaining, InBody
<1>7. Goes(g.role, At(g.state, Remaining(g), g.active_stream, FALSE), r, m, l) /\ Whole(g.role, r, l)
  BY <1>4, <1>6
<1>8. /\ g.state \in {"body_until_close", "chunk_size", "body_length"}
      /\ g.state = "body_until_close" => g.role = "client"
      /\ g.state = "body_length" => g.body_remaining # 0
  BY <1>4
<1>9. EInv(g, r, o, h, m, l)
  BY <1>4, <1>5, <1>7, <1>8, BodyInv
<1> QED  BY <1>3, <1>9 DEF g

\* The headers are reported, and say what is to come.
LEMMA TurnHeaders ==
  ASSUME NEW e, NEW it, NEW c, NEW r \in Seq(ItemSet), NEW o \in Seq(ItemSet), NEW h, NEW m \in Nat,
         NEW l \in BOOLEAN, Turn(e, it, c, r, o, h, m, l), e.state = "headers"
  PROVE  EInv(HandleHeadersComplete(e, it), r, o, h, m, l)
<1> DEFINE s == e.active_stream
           x == e.streams[s]
           b == x.close_after \/ it.close
           a == [e EXCEPT !.streams[s].close_after = b]
           ev == Event("headers", s, it.stream)
           n == Emit(a, ev)
           none == e.role = "client" /\ (x.bodyless \/ e.bodyless)
<1>1. /\ Mid(e, o, h, m, l) /\ e \in EngineSet /\ s \in Streams /\ s # 0 /\ (e.role = "client" \/ e.role = "server")
      /\ Said(e, h) /\ it.stream = s /\ it \in ItemSet /\ x.bodyless \in BOOLEAN /\ x.close_after \in BOOLEAN
  BY MidMembers DEF Turn
<1>2. b \in BOOLEAN /\ it.framing \in Framings /\ it.n \in Nat
  BY <1>1 DEF ItemSet
<1>3. /\ Mid(a, o, h, m, l) /\ a.event_queue = e.event_queue /\ a.state = e.state
      /\ a.role = e.role /\ a.active_stream = s
  <2> HIDE DEF b
  <2> QED  BY SMTT(30), <1>1, <1>2, MidClose
<1>4. n = Emit(a, Event("headers", a.active_stream, a.active_stream))
  BY <1>1, <1>3
<1>5. Mid(n, o, h, m, l) /\ Latest(h, n, s, "headers")
  <2> DEFINE t == IF e.role = "client" THEN "nothing" ELSE "new_stream"
  <2>1. Latest(h, e, s, t)
    BY <1>1 DEF Said
  <2> HIDE DEF t, a, n
  <2>2. Latest(h, a, s, t)
    BY <1>3, <2>1, SameQueue
  <2>3. t \in Kinds /\ "headers" \in EventTypes /\ MayFollow(a.role, "headers", t)
    BY <1>1, <1>3 DEF MayFollow, Kinds, EventTypes, t
  <2> QED  BY <1>3, <1>4, <2>2, <2>3, MidEmit
<1>6. /\ n \in EngineSet /\ n.role = e.role /\ n.active_stream = s /\ n.connection_done = FALSE
      /\ n.body_remaining \in Nat
  <2>1. a \in EngineSet /\ ev \in EventSet
    BY <1>1, <1>3, MidMembers DEF Event, EventSet, EventTypes
  <2> HIDE DEF a, ev
  <2>2. n \in EngineSet /\ n.role = a.role /\ n.active_stream = a.active_stream
    BY <2>1, Emitted
  <2> HIDE DEF n
  <2>3. ~n.connection_done
    BY <1>5 DEF Mid
  <2> QED  BY <1>3, <2>2, <2>3, EngineMembers
<1>7. HandleHeadersComplete(e, it) =
        CASE none -> FinishMessage(n)
          [] e.role = "client" /\ ~(x.bodyless \/ e.bodyless) /\ it.framing = "none" ->
               [n EXCEPT !.state = "body_until_close"]
          [] e.role = "server" /\ it.framing = "none" -> FinishMessage(n)
          [] OTHER ->
               CASE it.framing = "chunked" -> SendContinue([n EXCEPT !.state = "chunk_size"], it)
                 [] it.framing = "bad"     -> ConnectionError(n)
                 [] it.framing = "length"  ->
                      IF it.n = 0
                      THEN FinishMessage([n EXCEPT !.body_remaining = 0])
                      ELSE SendContinue([n EXCEPT !.state = "body_length", !.body_remaining = it.n], it)
  <2>1. a = [e EXCEPT !.streams[s].close_after = @ \/ it.close]
    BY <1>1 DEF EngineSet
  <2> HIDE DEF a
  <2> QED  BY <2>1 DEF HandleHeadersComplete
<1> HIDE DEF n
<1>8. Config(e) = At("headers", 0, s, none)
  <2>1. Remaining(e) = 0 /\ (e.role = "client" /\ NoBody(e)) = none
    BY DEF Remaining, InBody, NoBody
  <2> HIDE DEF none
  <2> QED  BY <1>1, <2>1, ConfigOf
<1> DEFINE c0 == At("headers", 0, s, none)
<1>9. c0.mode = "headers" /\ c0.stream = s /\ c0.bodyless = none
  BY DEF At
<1> HIDE DEF c0
<1>10. StepFields(e.role, c0, it, c)
  BY <1>8, <1>9 DEF Turn, StepMessage, c0
<1>11. Goes(n.role, c, r, m, l) /\ Whole(n.role, r, l)
  BY <1>6 DEF Turn
<1>12. CASE none \/ (e.role = "server" /\ it.framing = "none")
  <2>1. c = Between(n.role, n.active_stream)
    BY <1>6, <1>9, <1>10, <1>12 DEF StepFields, Between
  <2>2. HandleHeadersComplete(e, it) = FinishMessage(n)
    BY <1>7, <1>12
  <2>3. Latest(h, n, n.active_stream, "headers")
    BY <1>5, <1>6
  <2> QED  BY <1>5, <1>11, <2>1, <2>2, <2>3, FinishInv
<1>13. CASE ~none /\ e.role = "client" /\ it.framing = "none"
  <2> DEFINE f == [n EXCEPT !.state = "body_until_close"]
  <2>1. c = At("body_until_close", 0, s, FALSE)
    BY <1>9, <1>10, <1>13 DEF StepFields
  <2>2. HandleHeadersComplete(e, it) = f
    BY <1>7, <1>13
  <2>3. /\ f \in EngineSet /\ f.state = "body_until_close"
        /\ f.role = n.role /\ f.streams = n.streams /\ f.stream_order = n.stream_order /\ f.input = n.input
        /\ f.next_stream_id = n.next_stream_id /\ f.pending_out = n.pending_out
        /\ f.event_queue = n.event_queue /\ f.goaway_sent = n.goaway_sent
        /\ f.connection_done = n.connection_done /\ f.active_stream = n.active_stream
    BY <1>2, <1>6 DEF EngineSet, ParseStates
  <2> HIDE DEF f
  <2>4. Latest(h, n, n.active_stream, "headers") /\ Remaining(f) = 0
    BY <1>5, <1>6, <2>3 DEF Remaining, InBody
  <2>5. Goes(f.role, At(f.state, Remaining(f), f.active_stream, FALSE), r, m, l) /\ Whole(f.role, r, l)
    BY <1>6, <1>11, <2>1, <2>3, <2>4
  <2>6. f.role = "client"
    BY <1>6, <1>13, <2>3
  <2>7. EInv(f, r, o, h, m, l)
    BY <1>5, <2>3, <2>4, <2>5, <2>6, HeadersThen
  <2> QED  BY <2>2, <2>7
<1>14. CASE ~none /\ it.framing = "chunked"
  <2> DEFINE f == [n EXCEPT !.state = "chunk_size"]
  <2>1. c = At("chunk_size", 0, s, FALSE)
    BY <1>9, <1>10, <1>14 DEF StepFields
  <2>2. HandleHeadersComplete(e, it) = SendContinue(f, it)
    BY <1>7, <1>14
  <2>3. /\ f \in EngineSet /\ f.state = "chunk_size"
        /\ f.role = n.role /\ f.streams = n.streams /\ f.stream_order = n.stream_order /\ f.input = n.input
        /\ f.next_stream_id = n.next_stream_id /\ f.pending_out = n.pending_out
        /\ f.event_queue = n.event_queue /\ f.goaway_sent = n.goaway_sent
        /\ f.connection_done = n.connection_done /\ f.active_stream = n.active_stream
    BY <1>2, <1>6 DEF EngineSet, ParseStates
  <2> HIDE DEF f
  <2>4. Latest(h, n, n.active_stream, "headers") /\ Remaining(f) = 0
    BY <1>5, <1>6, <2>3 DEF Remaining, InBody
  <2>5. Goes(f.role, At(f.state, Remaining(f), f.active_stream, FALSE), r, m, l) /\ Whole(f.role, r, l)
    BY <1>6, <1>11, <2>1, <2>3, <2>4
  <2>6. EInv(SendContinue(f, it), r, o, h, m, l)
    BY <1>5, <2>3, <2>4, <2>5, HeadersThen
  <2> QED  BY <2>2, <2>6
<1>15. CASE ~none /\ it.framing = "bad"
  <2>1. HandleHeadersComplete(e, it) = ConnectionError(n)
    BY <1>7, <1>15
  <2>2. Sound(n, o, h) /\ ~n.connection_done /\ Latest(h, n, 0, "nothing")
    BY <1>5 DEF Mid
  <2> QED  BY <2>1, <2>2, BrokenInv
<1>16. CASE ~none /\ it.framing = "length" /\ it.n = 0
  <2> DEFINE g == [n EXCEPT !.body_remaining = 0]
  <2>1. c = Between(n.role, s)
    BY <1>6, <1>9, <1>10, <1>16 DEF StepFields
  <2>2. HandleHeadersComplete(e, it) = FinishMessage(g)
    BY <1>7, <1>16
  <2>3. /\ g \in EngineSet
        /\ g.role = n.role /\ g.streams = n.streams /\ g.stream_order = n.stream_order /\ g.input = n.input
        /\ g.next_stream_id = n.next_stream_id /\ g.pending_out = n.pending_out
        /\ g.event_queue = n.event_queue /\ g.goaway_sent = n.goaway_sent
        /\ g.connection_done = n.connection_done /\ g.active_stream = n.active_stream
    BY <1>6 DEF EngineSet
  <2> HIDE DEF g
  <2>4. Mid(g, o, h, m, l)
    BY <1>5, <2>3, MidSame
  <2>5. Latest(h, g, g.active_stream, "headers")
    BY <1>5, <1>6, <2>3, SameQueue
  <2>6. Goes(g.role, Between(g.role, g.active_stream), r, m, l) /\ Whole(g.role, r, l)
    BY <1>6, <1>11, <2>1, <2>3
  <2> QED  BY <2>2, <2>4, <2>5, <2>6, FinishInv
<1>17. CASE ~none /\ it.framing = "length" /\ it.n # 0
  <2> DEFINE f == [n EXCEPT !.state = "body_length", !.body_remaining = it.n]
  <2>1. c = At("body_length", it.n, s, FALSE)
    BY <1>9, <1>10, <1>17 DEF StepFields
  <2>2. HandleHeadersComplete(e, it) = SendContinue(f, it)
    BY <1>7, <1>17
  <2>3. /\ f \in EngineSet /\ f.state = "body_length"
        /\ f.role = n.role /\ f.streams = n.streams /\ f.stream_order = n.stream_order /\ f.input = n.input
        /\ f.next_stream_id = n.next_stream_id /\ f.pending_out = n.pending_out
        /\ f.event_queue = n.event_queue /\ f.goaway_sent = n.goaway_sent
        /\ f.connection_done = n.connection_done /\ f.active_stream = n.active_stream /\ f.body_remaining = it.n
    BY <1>2, <1>6 DEF EngineSet, ParseStates
  <2> HIDE DEF f
  <2>4. Latest(h, n, n.active_stream, "headers") /\ Remaining(f) = it.n
    BY <1>5, <1>6, <2>3 DEF Remaining, InBody
  <2>5. Goes(f.role, At(f.state, Remaining(f), f.active_stream, FALSE), r, m, l) /\ Whole(f.role, r, l)
    BY <1>6, <1>11, <2>1, <2>3, <2>4
  <2>6. f.body_remaining # 0
    BY <1>17, <2>3
  <2>7. EInv(SendContinue(f, it), r, o, h, m, l)
    BY <1>5, <2>3, <2>4, <2>5, <2>6, HeadersThen
  <2> QED  BY <2>2, <2>7
<1>18. it.framing = "none" \/ it.framing = "chunked" \/ it.framing = "bad" \/ it.framing = "length"
  BY <1>2 DEF Framings
<1> HIDE DEF none
<1> QED  BY <1>1, <1>12, <1>13, <1>14, <1>15, <1>16, <1>17, <1>18

----------------------------------------------------------------------------
(* A stream is opened, by the application or by a request.                 *)

\* A stream that is opened is the youngest, and nothing was said of it.
LEMMA OpenSound ==
  ASSUME NEW e, NEW o \in Seq(ItemSet), NEW h, Sound(e, o, h), NEW id \in Streams, id = e.next_stream_id,
         NEW x \in StreamSet, x.present, x.head = <<>>, x.body_staged = <<>>,
         NEW f \in EngineSet, f.role = e.role, f.streams[id] = x,
         \A s \in Streams : s # id => f.streams[s] = e.streams[s],
         f.stream_order = Append(e.stream_order, id), f.next_stream_id = id + 2,
         f.pending_out = e.pending_out, f.event_queue = e.event_queue, f.goaway_sent = e.goaway_sent,
         f.active_stream = e.active_stream \/ f.active_stream = id, Unique(f)
  PROVE  /\ Sound(f, o, h)
         /\ \A s \in Streams : Opened(f, s) <=> Opened(e, s) \/ s = id
<1> DEFINE q == e.stream_order
           n == Len(q)
           p == Append(q, id)
<1>1. e \in EngineSet /\ ListsOK(e) /\ HeadsOK(e) /\ OutputOK(e, o) /\ QueueOK(e, h)
  BY DEF Sound
<1>2. /\ q \in Seq(Streams) /\ n \in Nat /\ id \in Nat /\ e.streams \in [Streams -> StreamSet]
      /\ \A i \in 1 .. n : q[i] \in Streams /\ q[i] \in Nat /\ q[i] < id /\ Opened(e, q[i])
  <2>1. q \in Seq(Streams) /\ id \in Nat /\ e.streams \in [Streams -> StreamSet]
    BY <1>1, EngineMembers, ConfigTypes
  <2>2. \A i \in 1 .. n : q[i] \in Streams
    BY <2>1
  <2> QED  BY <1>1, <2>1, <2>2, ConfigTypes DEF ListsOK
<1>3. \A s \in Streams : f.streams[s] = IF s = id THEN x ELSE e.streams[s]
  BY <1>2
<1>4. ~Opened(e, id)
  BY <1>1, <1>2 DEF ListsOK
<1>5. \A s \in Streams : Opened(f, s) <=> Opened(e, s) \/ s = id
  BY <1>3 DEF Opened
<1>6. /\ Len(p) = n + 1 /\ p[n + 1] = id /\ \A i \in 1 .. n : p[i] = q[i]
      /\ \A i \in 1 .. n + 1 : i \in 1 .. n \/ i = n + 1
  BY <1>2
<1>7. f.stream_order = p
  OBVIOUS
<1> HIDE DEF p
<1>8. ListsOK(f)
  <2>1. \A s \in Streams : Opened(f, s) <=> \E i \in 1 .. Len(p) : p[i] = s
    <3>1. ASSUME NEW s \in Streams PROVE Opened(f, s) <=> \E i \in 1 .. Len(p) : p[i] = s
      <4>1. Opened(e, s) <=> \E i \in 1 .. n : q[i] = s
        BY <1>1 DEF ListsOK
      <4>2. (\E i \in 1 .. n + 1 : p[i] = s) <=> (\E i \in 1 .. n : q[i] = s) \/ s = id
        <5>1. n + 1 \in 1 .. n + 1 /\ \A i \in 1 .. n : i \in 1 .. n + 1
          BY <1>2
        <5>2. \A i \in 1 .. n + 1 : p[i] = s => s = id \/ \E k \in 1 .. n : q[k] = s
          BY <1>6
        <5>3. s = id => p[n + 1] = s
          BY <1>6
        <5>4. \A i \in 1 .. n : q[i] = s => i \in 1 .. n + 1 /\ p[i] = s
          BY <1>6, <5>1
        <5> QED  BY <5>1, <5>2, <5>3, <5>4
      <4> QED  BY <1>5, <1>6, <4>1, <4>2
    <3> QED  BY <3>1
  <2>2. \A i, j \in 1 .. Len(p) : i < j => p[i] < p[j]
    <3>1. ASSUME NEW i \in 1 .. Len(p), NEW j \in 1 .. Len(p), i < j PROVE p[i] < p[j]
      <4>1. i \in 1 .. n
        BY <1>2, <1>6, <3>1
      <4>2. CASE j \in 1 .. n
        BY <1>1, <1>6, <3>1, <4>1, <4>2 DEF ListsOK
      <4>3. CASE j = n + 1
        BY <1>2, <1>6, <4>1, <4>3
      <4> QED  BY <1>6, <4>2, <4>3
    <3> QED  BY <3>1
  <2>3. \A s \in Streams : Opened(f, s) => s < id + 2
    <3>1. \A s \in Streams : s \in Nat /\ (Opened(e, s) => s < id)
      BY <1>1, ConfigTypes DEF ListsOK
    <3> QED  BY <1>2, <1>5, <3>1
  <2>4. f.active_stream # 0 => Opened(f, f.active_stream)
    <3>1. e.active_stream # 0 => Opened(e, e.active_stream) /\ e.active_stream \in Streams
      BY <1>1, EngineMembers DEF ListsOK
    <3> QED  BY <1>5, <3>1
  <2> QED  BY <1>7, <2>1, <2>2, <2>3, <2>4 DEF ListsOK
<1>9. HeadsOK(f)
  BY SMTT(30), <1>1, <1>3 DEF HeadsOK, HeadOK, StagedOK
<1>11. OutputOK(f, o)
  <2> DEFINE u == o \o e.pending_out
  <2> HIDE DEF u
  <2>1. InOrder(u) /\ Below(u, id) /\ \A s \in Streams : Opened(e, s) => Below(u, s)
    BY <1>1 DEF OutputOK, u
  <2>2. \A i \in 1 .. Len(u) : u[i].stream \in Nat
    <3>1. u \in Seq(ItemSet)
      BY <1>1, EngineMembers DEF u
    <3> QED  BY <3>1, ItemStreams
  <2>3. Below(u, id + 2)
    BY <1>2, <2>1, <2>2 DEF Below
  <2> QED  BY <1>5, <2>1, <2>3 DEF OutputOK, u
<1>12. QueueOK(f, h) /\ (~f.goaway_sent => Latest(h, f, 0, "nothing") \/ Latest(h, f, 0, "connection_error"))
  BY SameQueue DEF Sound
<1> QED  BY <1>3, <1>4, <1>5, <1>8, <1>9, <1>11, <1>12 DEF Sound

\* A stream as it is opened.
LEMMA NewStream ==
  ASSUME NEW b \in BOOLEAN
  PROVE  LET x == [Present EXCEPT !.bodyless = b]
         IN x \in StreamSet /\ x.present /\ x.head = <<>> /\ x.body_staged = <<>> /\ ~x.request_body_done
            /\ x.bodyless = b
<1> DEFINE nil == <<>>
           x == [Present EXCEPT !.bodyless = b]
<1>1. nil \in Seq(ItemSet) /\ nil = <<>>
  OBVIOUS
<1>2. Absent = [present |-> FALSE, bodyless |-> FALSE, head |-> nil, body_staged |-> nil,
                head_sent |-> FALSE, chunked |-> FALSE, no_body |-> FALSE,
                request_body_done |-> FALSE, request_complete |-> FALSE, close_after |-> FALSE]
  BY DEF Absent
<1> HIDE DEF nil
<1>3. Absent \in StreamSet /\ Absent.head = nil /\ Absent.body_staged = nil /\ ~Absent.request_body_done
  BY <1>1, <1>2 DEF StreamSet
<1>4. /\ Present \in StreamSet /\ Present.head = nil /\ Present.body_staged = nil
      /\ ~Present.request_body_done /\ Present.present
  BY <1>3 DEF StreamSet, Present
<1>5. /\ x \in StreamSet /\ x.head = nil /\ x.body_staged = nil /\ ~x.request_body_done /\ x.present
      /\ x.bodyless = b
  BY <1>4 DEF StreamSet
<1> HIDE DEF x
<1>6. /\ x \in StreamSet /\ x.present /\ x.head = <<>> /\ x.body_staged = <<>> /\ ~x.request_body_done
      /\ x.bodyless = b
  BY <1>1, <1>5
<1> QED  BY <1>6 DEF x

\* A request's start line makes its stream the active one.
LEMMA ParseStart ==
  ASSUME NEW e, NEW w \in Seq(ItemSet), NEW o \in Seq(ItemSet), NEW h, NEW m \in Nat, NEW l \in BOOLEAN,
         EInv(e, w, o, h, m, l), w # <<>>, w[1].type # "overlong", e.role = "server", e.state = "start_line"
  PROVE  EInv(ParseStartLine(e, w[1]), Tail(w), o, h, m, l)
<1> DEFINE it == w[1]
           r == Tail(w)
           id == e.next_stream_id
           x == [Present EXCEPT !.bodyless = it.bodyless]
           u == [e.streams EXCEPT ![id] = x]
           q == Append(e.stream_order, id)
           a == [e EXCEPT !.next_stream_id = id + 2, !.streams = u, !.stream_order = q,
                          !.active_stream = id, !.state = "headers"]
           ev == Event("new_stream", id, id)
           f == Emit(a, ev)
           c0 == At("start_line", 0, id, FALSE)
<1>1. /\ e \in EngineSet /\ Sound(e, o, h) /\ Shape(e) /\ WireOK(e, w, o, m, l) /\ HeardOK(e, h)
      /\ e.connection_done = FALSE /\ e.goaway_sent = FALSE /\ e.input = <<>>
      /\ \A s \in Streams : ~Opened(e, s)
  <2>1. Sound(e, o, h) /\ Shape(e) /\ WireOK(e, w, o, m, l) /\ HeardOK(e, h)
    BY SoundOf DEF EInv
  <2>2. ModesOK(e) /\ e \in EngineSet
    BY <2>1 DEF Shape
  <2> QED  BY <2>1, <2>2, EngineMembers DEF ModesOK, ServerModes
<1>2. it \in ItemSet /\ it.bodyless \in BOOLEAN /\ r \in Seq(ItemSet)
  <2>1. it \in ItemSet /\ r \in Seq(ItemSet)
    OBVIOUS
  <2> HIDE DEF it
  <2> QED  BY <2>1 DEF ItemSet
<1>3. PICK d \in Configs : Run("server", c0, w, d) /\ EndOK("server", d, m, l)
  <2>1. \E d \in Configs : Run(e.role, Config(e), e.input \o w, d) /\ EndOK(e.role, d, m, l)
    BY <1>1 DEF WireOK
  <2>2. Config(e) = c0 /\ e.input \o w = w
    BY <1>1, ConcatEmptySeq DEF Config
  <2> QED  BY <2>1, <2>2
<1> HIDE DEF c0
<1>4. PICK c1 \in Configs : Step("server", c0, it, c1) /\ Run("server", c1, r, d)
  BY <1>3, RunFirst
<1>5. c0.mode = "start_line" /\ c0.stream = id
  BY DEF c0, At
<1>6. it.stream = id /\ id \in Streams /\ c1 = At("headers", 0, id, FALSE)
  <2>1. it.stream = id /\ id \in Streams /\ StepMessage("server", c0, it, c1)
    BY <1>4, <1>5 DEF Step
  <2> QED  BY <1>5, <2>1 DEF StepMessage
<1>7. x \in StreamSet /\ x.present /\ x.head = <<>> /\ x.body_staged = <<>> /\ ~x.request_body_done
  <2> HIDE DEF it
  <2> QED  BY <1>2, NewStream
<1>8. ParseStartLine(e, it) = f
  BY <1>6 DEF ParseStartLine
<1>9. id \in Nat /\ id # 0 /\ id + 2 \in Nat
  BY <1>6, ConfigTypes
<1> HIDE DEF x, it, r
<1>10. u \in [Streams -> StreamSet] /\ q \in Seq(Streams)
  BY <1>1, <1>6, <1>7, EngineMembers
<1>11. u = [e.streams EXCEPT ![id] = x] /\ q = Append(e.stream_order, id)
  OBVIOUS
<1> HIDE DEF u, q
<1>12. /\ a \in EngineSet /\ a.role = e.role /\ a.streams = u /\ a.stream_order = q
       /\ a.next_stream_id = id + 2 /\ a.pending_out = e.pending_out /\ a.event_queue = e.event_queue
       /\ a.goaway_sent = e.goaway_sent /\ a.active_stream = id /\ a.state = "headers"
       /\ a.connection_done = e.connection_done /\ a.input = e.input
  BY <1>1, <1>6, <1>9, <1>10 DEF EngineSet, ParseStates
<1> HIDE DEF a
<1>13. /\ Sound(a, o, h) /\ \A s \in Streams : Opened(a, s) <=> Opened(e, s) \/ s = id
       /\ a.streams[id] = x
  <2>1. id \in Streams /\ id = e.next_stream_id
    BY <1>6
  <2> HIDE DEF id
  <2>2. Sound(e, o, h)
    BY <1>1
  <2>5. a.streams[id] = x /\ \A s \in Streams : s # id => a.streams[s] = e.streams[s]
    BY <1>1, <1>6, <1>11, <1>12, EngineMembers
  <2>3. /\ a \in EngineSet /\ a.role = e.role
        /\ a.stream_order = Append(e.stream_order, id)
        /\ a.next_stream_id = id + 2 /\ a.pending_out = e.pending_out /\ a.event_queue = e.event_queue
        /\ a.goaway_sent = e.goaway_sent /\ (a.active_stream = e.active_stream \/ a.active_stream = id)
    BY <1>11, <1>12
  <2>4. x \in StreamSet /\ x.present /\ x.head = <<>> /\ x.body_staged = <<>>
    BY <1>7
  <2>7. Unique(a)
    BY <1>1, <2>5 DEF Unique, Opened
  <2>6. Sound(a, o, h) /\ \A s \in Streams : Opened(a, s) <=> Opened(e, s) \/ s = id
    BY SMTT(30), <2>1, <2>2, <2>3, <2>4, <2>5, <2>7, OpenSound
  <2> QED  BY <2>5, <2>6
<1>14. ev \in EventSet /\ ev.of = ev.stream /\ ev.stream = id /\ ev.type = "new_stream"
  BY <1>6 DEF Event, EventSet, EventTypes
<1> HIDE DEF ev
<1>15. /\ f \in EngineSet /\ f.role = "server" /\ f.streams = a.streams /\ f.stream_order = a.stream_order
       /\ f.next_stream_id = id + 2 /\ f.pending_out = a.pending_out
       /\ f.event_queue = Append(a.event_queue, ev)
       /\ f.goaway_sent = FALSE /\ f.active_stream = id /\ f.state = "headers"
       /\ f.connection_done = FALSE /\ f.input = <<>>
  BY SMTT(30), <1>1, <1>12, <1>14, Emitted
<1> HIDE DEF f
<1>16. Latest(h, e, 0, "nothing") /\ Latest(h, e, id, "nothing")
       /\ \A s \in Streams : s >= id => Latest(h, e, s, "nothing")
  <2>1. \A s \in Streams : s >= id => Latest(h, e, s, "nothing")
    BY <1>1 DEF HeardOK, Unheard
  <2> QED  BY <1>1, <1>6, <1>9, <2>1 DEF HeardOK
<1>17. /\ a.event_queue \in Seq(EventSet) /\ QueueOK(a, h) /\ Latest(h, a, 0, "nothing")
       /\ Latest(h, a, ev.stream, "nothing") /\ \A s \in Streams : s >= id => Latest(h, a, s, "nothing")
  <2>1. \A s, t : Latest(h, a, s, t) <=> Latest(h, e, s, t)
    BY <1>12, SameQueue
  <2> QED  BY <1>12, <1>13, <1>14, <1>16, <2>1, EngineMembers DEF Sound
<1>18. \E t \in Kinds : Latest(h, a, ev.stream, t) /\ MayFollow(a.role, ev.type, t)
  BY <1>12, <1>14, <1>17 DEF MayFollow, Kinds
<1>19. /\ QueueOK(f, h) /\ Latest(h, f, id, "new_stream")
       /\ \A s, t : s # id /\ Latest(h, a, s, t) => Latest(h, f, s, t)
  <2>1. f.role = a.role
    BY <1>12, <1>15
  <2>2. Latest(h, f, ev.stream, ev.type)
    BY <1>14, <1>15, <1>17, <2>1, LatestAppended
  <2>3. \A s, t : s # ev.stream /\ Latest(h, a, s, t) => Latest(h, f, s, t)
    BY <1>14, <1>15, <1>17, <2>1, AppendedQueue
  <2>4. QueueOK(f, h)
    BY <1>14, <1>15, <1>17, <1>18, <2>1, AppendedQueue
  <2> QED  BY <1>14, <2>2, <2>3, <2>4
<1>20. Sound(f, o, h)
  <2>1. ListsOK(f) /\ HeadsOK(f) /\ Unique(f) /\ OutputOK(f, o)
    BY <1>12, <1>13, <1>15 DEF Sound, ListsOK, HeadsOK, Unique, OutputOK, Opened
  <2> QED  BY <1>9, <1>15, <1>17, <1>19, <2>1 DEF Sound
<1>21. Mid(f, o, h, m, l)
  <2>1. Latest(h, f, 0, "nothing")
    BY <1>9, <1>17, <1>19
  <2>2. ASSUME NEW s \in Streams, Unheard(f, s) PROVE Latest(h, f, s, "nothing")
    <3>1. s >= id + 2 /\ s \in Nat
      BY <1>15, <2>2, ConfigTypes DEF Unheard
    <3>2. s # id /\ s >= id
      BY <1>9, <3>1
    <3> QED  BY <1>17, <1>19, <3>2
  <2>3. ~f.streams[f.active_stream].request_body_done
    BY <1>7, <1>13, <1>15
  <2> QED  BY <1>9, <1>15, <1>20, <2>1, <2>2, <2>3 DEF Mid
<1>22. Said(f, h)
  BY <1>15, <1>19 DEF Said
<1>23. Goes(f.role, Config(f), r, m, l) /\ Whole(f.role, r, l)
  <2>1. Config(f) = c1
    BY <1>6, <1>15 DEF Config, Remaining, InBody
  <2> QED  BY <1>3, <1>4, <1>15, <2>1 DEF Goes, Whole
<1>24. EInv(f, r, o, h, m, l)
  BY <1>2, <1>15, <1>21, <1>22, <1>23, MidInv DEF InBody
<1> QED  BY <1>8, <1>24 DEF it, r

----------------------------------------------------------------------------
(* Every turn of the parser's loop keeps the invariant.                    *)

\* What was read but not parsed is as good as what was not read.
LEMMA InputMoved ==
  ASSUME NEW e, NEW w \in Seq(ItemSet), NEW o, NEW h, NEW m, NEW l, EInv(e, w, o, h, m, l),
         NEW q \in Seq(ItemSet), NEW r \in Seq(ItemSet), q \o r = e.input \o w,
         q # <<>> => e.state \in {"awaiting_response", "done"}
  PROVE  EInv([e EXCEPT !.input = q], r, o, h, m, l)
<1> DEFINE f == [e EXCEPT !.input = q]
<1>1. e \in EngineSet /\ ModesOK(e) /\ WireOK(e, w, o, m, l) /\ e.input \in Seq(ItemSet)
  BY EngineMembers DEF EInv, Shape
<1>2. e.role = "client" \/ e.role = "server"
  BY <1>1, EngineMembers DEF Roles_
<1>3. e.role = "client" /\ e.state # "done" => r = w /\ q = <<>>
  <2>1. e.role = "client" /\ e.state # "done" => q = <<>> /\ e.input = <<>>
    BY <1>1 DEF ModesOK, ClientModes
  <2>2. \A a \in Seq(ItemSet) : <<>> \o a = a
    BY ConcatEmptySeq
  <2> QED  BY <2>1, <2>2
<1>4. /\ f \in EngineSet /\ f.input = q
      /\ f.role = e.role /\ f.state = e.state /\ f.streams = e.streams /\ f.stream_order = e.stream_order
      /\ f.next_stream_id = e.next_stream_id /\ f.pending_out = e.pending_out
      /\ f.event_queue = e.event_queue /\ f.goaway_sent = e.goaway_sent
      /\ f.connection_done = e.connection_done /\ f.active_stream = e.active_stream
      /\ f.body_remaining = e.body_remaining /\ f.bodyless = e.bodyless
  BY <1>1 DEF EngineSet
<1> HIDE DEF f
<1>6. ListsOK(f) /\ HeadsOK(f) /\ OutputOK(f, o)
  BY <1>4 DEF EInv, Shape, ListsOK, HeadsOK, OutputOK, Opened
<1>7. ModesOK(f)
  <2>1. f.role = "server" => ServerModes(f)
    BY <1>1, <1>4 DEF ModesOK, ServerModes, Opened
  <2>2. f.role = "client" => ClientModes(f)
    BY <1>1, <1>4 DEF ModesOK, ClientModes, Opened
  <2>3. f.input # <<>> => f.state \in {"awaiting_response", "done"}
    BY <1>4
  <2> QED  BY <1>1, <1>2, <1>4, <2>1, <2>2, <2>3 DEF ModesOK, InBody
<1>8. QueueOK(f, h) /\ \A s, t : Latest(h, f, s, t) <=> Latest(h, e, s, t)
  BY <1>4, SameQueue DEF EInv
<1>9. HeardOK(f, h)
  BY <1>4, <1>8 DEF EInv, HeardOK, Unheard, Opened
<1>10. WireOK(f, r, o, m, l)
  <2> SUFFICES ASSUME f.state # "done" PROVE WireOK(f, r, o, m, l)
    BY DEF WireOK
  <2>1. Config(f) = Config(e)
    BY <1>4 DEF Config, Remaining, InBody, NoBody
  <2>2. \E d \in Configs : Run(e.role, Config(e), e.input \o w, d) /\ EndOK(e.role, d, m, l)
    BY <1>1, <1>4 DEF WireOK
  <2>3. e.role = "client" /\ ~l => r \in Seq(Plain) /\ AnsweredOK(f, r, o, m)
    <3>1. SUFFICES ASSUME e.role = "client", ~l PROVE r \in Seq(Plain) /\ AnsweredOK(f, r, o, m)
      OBVIOUS
    <3>2. w \in Seq(Plain) /\ AnsweredOK(e, w, o, m) /\ r = w
      BY <1>1, <1>3, <1>4, <3>1 DEF WireOK
    <3> QED  BY <1>4, <3>2 DEF AnsweredOK
  <2> QED  BY <1>4, <2>1, <2>2, <2>3 DEF WireOK
<1> QED  BY <1>4, <1>6, <1>7, <1>8, <1>9, <1>10 DEF EInv, Shape, f

\* What comes before the response is kept for later.
LEMMA ParseAwaiting ==
  ASSUME NEW e, NEW w \in Seq(ItemSet), NEW o, NEW h, NEW m, NEW l,
         EInv(e, w, o, h, m, l), w # <<>>, e.state = "awaiting_response"
  PROVE  EInv([e EXCEPT !.input = Append(@, w[1])], Tail(w), o, h, m, l)
<1> DEFINE q == Append(e.input, w[1])
           r == Tail(w)
<1>1. e \in EngineSet /\ e.input \in Seq(ItemSet)
  BY EngineMembers DEF EInv, Shape
<1>2. q \in Seq(ItemSet) /\ r \in Seq(ItemSet) /\ q \o r = e.input \o w
  <2>1. \A a \in Seq(ItemSet) : Append(a, w[1]) \in Seq(ItemSet) /\ Append(a, w[1]) \o Tail(w) = a \o w
    OBVIOUS
  <2> QED  BY <1>1, <2>1
<1>3. [e EXCEPT !.input = Append(@, w[1])] = [e EXCEPT !.input = q]
  BY <1>1 DEF EngineSet
<1> HIDE DEF q, r
<1>4. EInv([e EXCEPT !.input = q], r, o, h, m, l)
  BY <1>2, InputMoved
<1> QED  BY <1>3, <1>4 DEF r

\* When the connection is done what is on the wire is of no interest.
LEMMA DoneInv ==
  ASSUME NEW e, NEW r, NEW o, NEW h, NEW m, NEW l, EInv(e, r, o, h, m, l), e.state = "done"
  PROVE  \A q, n, k : EInv(e, q, o, h, n, k)
  BY DEF EInv, WireOK

\* An item in the middle of a message.
LEMMA ParseTurn ==
  ASSUME NEW e, NEW it, NEW c, NEW r \in Seq(ItemSet), NEW o \in Seq(ItemSet), NEW h, NEW m \in Nat,
         NEW l \in BOOLEAN, Turn(e, it, c, r, o, h, m, l), e.state \notin {"awaiting_response", "done"},
         e.state \in LineStates => it.type # "overlong"
  PROVE  EInv(ParseItem(e, it), r, o, h, m, l)
<1> DEFINE f == ParseItem(e, it)
<1>1. e \in EngineSet /\ e.state \in ParseStates /\ e.active_stream # 0 /\ e.body_remaining \in Nat
      /\ it \in ItemSet /\ it.n \in Nat
  BY MidMembers, EngineMembers DEF Turn, ItemSet
<1>2. ~Unsolicited(e)
  BY <1>1 DEF Unsolicited
<1>3. CASE e.state = "start_line"
  BY <1>2, <1>3, TurnStart DEF ParseItem, LineStates, ParseStates
<1>4. CASE e.state \in {"skip_interim", "chunk_size", "chunk_crlf"}
  <2> DEFINE state == CASE e.state = "skip_interim" -> "start_line"
                        [] e.state = "chunk_size" -> IF it.n = 0 THEN "chunk_trailer" ELSE "chunk_data"
                        [] e.state = "chunk_crlf" -> "chunk_size"
             n == IF e.state = "chunk_size" THEN it.n ELSE e.body_remaining
  <2>1. state \in ParseStates /\ n \in Nat
    BY <1>1, <1>4 DEF ParseStates
  <2>2. f = [e EXCEPT !.state = state, !.body_remaining = n]
    BY <1>1, <1>2, <1>4 DEF ParseItem, EngineSet, LineStates, ParseStates
  <2>3. \/ e.state = "skip_interim" /\ state = "start_line"
        \/ e.state = "chunk_size" /\ n = it.n /\ state = IF it.n = 0 THEN "chunk_trailer" ELSE "chunk_data"
        \/ e.state = "chunk_crlf" /\ state = "chunk_size"
    BY <1>4
  <2> HIDE DEF state, n, f
  <2>4. /\ f \in EngineSet /\ f.state = state /\ f.body_remaining = n
        /\ f.role = e.role /\ f.streams = e.streams /\ f.stream_order = e.stream_order /\ f.input = e.input
        /\ f.next_stream_id = e.next_stream_id /\ f.pending_out = e.pending_out
        /\ f.event_queue = e.event_queue /\ f.goaway_sent = e.goaway_sent
        /\ f.connection_done = e.connection_done /\ f.active_stream = e.active_stream
    BY <1>1, <2>1, <2>2 DEF EngineSet
  <2>5. \/ e.state = "skip_interim" /\ f.state = "start_line"
        \/ /\ e.state = "chunk_size" /\ f.body_remaining = it.n
           /\ f.state = IF it.n = 0 THEN "chunk_trailer" ELSE "chunk_data"
        \/ e.state = "chunk_crlf" /\ f.state = "chunk_size"
    BY <2>3, <2>4
  <2>6. EInv(f, r, o, h, m, l)
    BY <2>4, <2>5, TurnState
  <2> QED  BY <2>6 DEF f
<1>5. CASE e.state = "headers"
  BY <1>2, <1>5, TurnHeaders DEF ParseItem, LineStates, ParseStates
<1>6. CASE e.state \in {"body_length", "chunk_data"}
  BY <1>6, TurnUnit
<1>7. CASE e.state = "chunk_trailer"
  BY <1>2, <1>7, TurnTrailer DEF ParseItem, LineStates, ParseStates
<1>8. CASE e.state = "body_until_close"
  BY <1>8, TurnUntilClose
<1> QED  BY <1>1, <1>3, <1>4, <1>5, <1>6, <1>7, <1>8 DEF ParseStates

\* Every turn of the parser keeps the invariant, in each of its states.
LEMMA ParseItemInv ==
  ASSUME NEW e, NEW w \in Seq(ItemSet), NEW o \in Seq(ItemSet), NEW h, NEW m \in Nat, NEW l \in BOOLEAN,
         EInv(e, w, o, h, m, l), w # <<>>
  PROVE  EInv(ParseItem(e, w[1]), Tail(w), o, h, m, l)
<1> DEFINE it == w[1]
           r == Tail(w)
<1>1. /\ e \in EngineSet /\ e.state \in ParseStates /\ e.role \in Roles_ /\ Sound(e, o, h)
      /\ ModesOK(e) /\ WireOK(e, w, o, m, l) /\ HeardOK(e, h)
  BY SoundOf, EngineMembers DEF EInv, Shape
<1>2. it \in ItemSet /\ r \in Seq(ItemSet)
  OBVIOUS
<1>3. CASE e.state = "awaiting_response"
  BY <1>3, ParseAwaiting DEF ParseItem, Unsolicited, LineStates, ParseStates
<1>4. CASE e.state = "done"
  <2>1. ParseItem(e, it) = e
    BY <1>4 DEF ParseItem, Unsolicited, LineStates, ParseStates
  <2> QED  BY <1>4, <2>1, DoneInv
<1>5. CASE /\ e.state \notin {"awaiting_response", "done"}
           /\ Unsolicited(e) \/ (e.state \in LineStates /\ it.type = "overlong")
  <2>1. ParseItem(e, it) = ConnectionError(e)
    BY <1>5 DEF ParseItem
  <2>2. ~e.connection_done
    BY <1>1, <1>5 DEF ModesOK
  <2>3. Latest(h, e, 0, "nothing")
    BY <1>1, <2>2 DEF HeardOK
  <2> QED  BY <1>1, <2>1, <2>2, <2>3, BrokenInv
<1>6. CASE /\ e.state \notin {"awaiting_response", "done"}
           /\ ~Unsolicited(e) /\ ~(e.state \in LineStates /\ it.type = "overlong")
  <2>1. CASE e.role = "server" /\ e.state = "start_line"
    <3>1. it.type # "overlong"
      BY <1>6, <2>1 DEF LineStates, ParseStates
    <3>2. ParseItem(e, it) = ParseStartLine(e, it)
      BY <1>6, <2>1 DEF ParseItem
    <3>3. EInv(ParseStartLine(e, w[1]), Tail(w), o, h, m, l)
      BY <2>1, <3>1, ParseStart
    <3> QED  BY <3>2, <3>3
  <2>2. CASE ~(e.role = "server" /\ e.state = "start_line")
    <3>1. e.active_stream # 0
      <4>1. CASE e.role = "client"
        BY <1>1, <1>6, <4>1 DEF ModesOK, ClientModes, Unsolicited
      <4>2. CASE e.role = "server"
        BY <1>1, <1>6, <2>2, <4>2 DEF ModesOK, ServerModes
      <4> QED  BY <1>1, <4>1, <4>2 DEF Roles_
    <3>2. Mid(e, o, h, m, l) /\ Said(e, h)
      BY <1>6, <3>1, MidOf
    <3>3. e.input \o w = w /\ e.input = <<>>
      BY <1>1, <1>6, ConcatEmptySeq DEF ModesOK
    <3>4. PICK d \in Configs : Run(e.role, Config(e), w, d) /\ EndOK(e.role, d, m, l)
      BY <1>1, <1>6, <3>3 DEF WireOK
    <3>5. PICK c \in Configs : Step(e.role, Config(e), it, c) /\ Run(e.role, c, r, d)
      BY <3>4, RunFirst
    <3>6. Config(e) = At(e.state, Remaining(e), e.active_stream, e.role = "client" /\ NoBody(e))
      <4>1. e.role = "client" \/ e.role = "server"
        BY <1>1 DEF Roles_
      <4> QED  BY <1>6, <2>2, <3>1, <4>1, ConfigOf
    <3>7. Config(e).mode = e.state /\ Config(e).stream = e.active_stream
      BY <3>6 DEF At
    <3>8. it.stream = e.active_stream /\ StepMessage(e.role, Config(e), it, c)
      <4>1. e.state # "lost" /\ e.state # "idle"
        BY <1>1 DEF ParseStates
      <4>2. e.state = "start_line" => it.type # "overlong"
        BY <1>6 DEF LineStates, ParseStates
      <4> QED  BY <3>5, <3>7, <4>1, <4>2 DEF Step
    <3>9. Whole(e.role, r, l)
      <4>1. e.role = "client" /\ ~l => w \in Seq(Plain)
        BY <1>1, <1>6 DEF WireOK
      <4> QED  BY <4>1 DEF Whole
    <3>10. Turn(e, it, c, r, o, h, m, l)
      <4>1. /\ InBody(e) => e.body_remaining # 0
            /\ e.role = "server" => e.state \notin {"start_line", "skip_interim", "body_until_close"}
        BY <1>1, <2>2 DEF ModesOK, ServerModes
      <4> QED  BY <1>2, <3>2, <3>4, <3>5, <3>8, <3>9, <4>1 DEF Turn, Goes
    <3> HIDE DEF it, r
    <3>11. EInv(ParseItem(e, it), r, o, h, m, l)
      BY <1>2, <1>6, <3>10, ParseTurn
    <3> QED  BY <3>11 DEF it, r
  <2> QED  BY <2>1, <2>2
<1> QED  BY <1>3, <1>4, <1>5, <1>6

----------------------------------------------------------------------------
(* parse_available keeps the invariant, item by item.                      *)

\* What is left after k items.
LEMMA ItemsLeft ==
  ASSUME NEW q \in Seq(ItemSet), NEW r \in Seq(ItemSet), NEW w, w = q \o r
  PROVE  w \in Seq(ItemSet) /\ SubSeq(w, 1, Len(w)) = w /\ SubSeq(w, Len(q) + 1, Len(w)) = r
<1>1. /\ w \in Seq(ItemSet) /\ Len(w) = Len(q) + Len(r) /\ Len(q) \in Nat /\ Len(r) \in Nat
      /\ \A i \in 1 .. Len(q) : i \in 1 .. Len(w) /\ w[i] = q[i]
      /\ \A i \in 1 .. Len(r) : Len(q) + i \in 1 .. Len(w) /\ w[Len(q) + i] = r[i]
  BY ConcatElements
<1>2. SubSeq(w, 1, Len(w)) = w
  BY <1>1, SubSeqFull
<1>3. \A i \in 1 .. Len(w) : w[i] \in ItemSet
  BY <1>1
<1>4. SubSeq(w, Len(q) + 1, Len(w)) = r
  <2> DEFINE u == SubSeq(w, Len(q) + 1, Len(w))
  <2>1. Len(q) + 1 \in Int /\ Len(w) \in Int /\ \A i \in Len(q) + 1 .. Len(w) : w[i] \in ItemSet
    BY <1>1, <1>3
  <2>2. /\ u \in Seq(ItemSet)
        /\ Len(u) = (IF Len(q) + 1 <= Len(w) THEN Len(w) - (Len(q) + 1) + 1 ELSE 0)
        /\ \A i \in 1 .. Len(w) - (Len(q) + 1) + 1 : u[i] = w[Len(q) + 1 + i - 1]
    BY SMTT(30), <2>1, SubSeqProperties
  <2> HIDE DEF u
  <2>3. Len(u) = Len(r)
    BY <1>1, <2>2
  <2>4. ASSUME NEW i \in 1 .. Len(r) PROVE u[i] = r[i]
    <3>1. i \in 1 .. Len(w) - (Len(q) + 1) + 1 /\ Len(q) + 1 + i - 1 = Len(q) + i
      BY <1>1
    <3> QED  BY <1>1, <2>2, <3>1
  <2>5. u = r
    BY SMTT(30), <2>2, <2>3, <2>4
  <2> QED  BY <2>5 DEF u
<1> QED  BY <1>1, <1>2, <1>4

\* One item more.
LEMMA NextItem ==
  ASSUME NEW w \in Seq(ItemSet), NEW k \in 1 .. Len(w)
  PROVE  /\ SubSeq(w, k, Len(w)) \in Seq(ItemSet) /\ SubSeq(w, k, Len(w)) # <<>>
         /\ SubSeq(w, k, Len(w))[1] = w[k]
         /\ Tail(SubSeq(w, k, Len(w))) = SubSeq(w, k + 1, Len(w))
<1> DEFINE u == SubSeq(w, k, Len(w))
<1>2. /\ k \in Int /\ Len(w) \in Int /\ Len(w) \in k .. Len(w)
      /\ \A i \in k .. Len(w) : w[i] \in ItemSet
  OBVIOUS
<1>3. /\ u \in Seq(ItemSet) /\ Len(u) = (IF k <= Len(w) THEN Len(w) - k + 1 ELSE 0)
      /\ \A i \in 1 .. Len(w) - k + 1 : u[i] = w[k + i - 1]
  BY <1>2, SubSeqProperties
<1>4. Tail(u) = SubSeq(w, k + 1, Len(w))
  BY <1>2, HeadTailOfSubSeq
<1> HIDE DEF u
<1>5. Len(u) # 0 /\ 1 \in 1 .. Len(w) - k + 1 /\ k + 1 - 1 = k
  BY <1>2, <1>3
<1>6. u \in Seq(ItemSet) /\ u # <<>> /\ u[1] = w[k]
  BY <1>3, <1>5
<1> QED  BY <1>4, <1>6 DEF u

\* parse_available keeps it, by induction on the items of its input.
LEMMA ParseItemsInv ==
  ASSUME NEW e, NEW q \in Seq(ItemSet), NEW r \in Seq(ItemSet), NEW o \in Seq(ItemSet), NEW h,
         NEW m \in Nat, NEW l \in BOOLEAN, EInv(e, q \o r, o, h, m, l)
  PROVE  EInv(ParseAll(e, q), r, o, h, m, l)
<1> DEFINE n == Len(q)
           w == q \o r
           W(k) == SubSeq(w, k + 1, Len(w))
<1>0. \E g : /\ g[0] = e /\ g[Len(q)] = ParseAll(e, q)
              /\ \A k \in 1 .. Len(q) : g[k] = ParseItem(g[k - 1], q[k])
  BY ONLY ParseSteps
<1>1. PICK g : /\ g[0] = e /\ g[n] = ParseAll(e, q)
               /\ \A k \in 1 .. n : g[k] = ParseItem(g[k - 1], q[k])
  BY <1>0
<1>2. n \in Nat /\ w = q \o r /\ W(0) = q \o r /\ W(n) = r
  <2>1. n \in Nat /\ 0 + 1 = 1 /\ w = q \o r
    OBVIOUS
  <2> HIDE DEF w
  <2> QED  BY <2>1, ItemsLeft
<1> HIDE DEF w
<1>3. ASSUME NEW k \in 0 .. n - 1
      PROVE  W(k) \in Seq(ItemSet) /\ W(k) # <<>> /\ W(k)[1] = q[k + 1] /\ Tail(W(k)) = W(k + 1)
  <2>1. w \in Seq(ItemSet) /\ k + 1 \in 1 .. Len(w) /\ w[k + 1] = q[k + 1]
    <3>1. k + 1 \in 1 .. Len(q)
      BY <1>2
    <3> QED  BY <1>2, <3>1, ConcatElements
  <2>2. \A j \in 1 .. Len(w) :
          /\ SubSeq(w, j, Len(w)) \in Seq(ItemSet) /\ SubSeq(w, j, Len(w)) # <<>>
          /\ SubSeq(w, j, Len(w))[1] = w[j]
          /\ Tail(SubSeq(w, j, Len(w))) = SubSeq(w, j + 1, Len(w))
    BY <2>1, NextItem
  <2> QED  BY <2>1, <2>2
<1> HIDE DEF W, n
<1> DEFINE T == {k \in Nat : k <= n => EInv(g[k], W(k), o, h, m, l)}
<1>4. 0 \in T
  BY <1>1, <1>2
<1>5. ASSUME NEW k \in Nat, k \in T PROVE k + 1 \in T
  <2>1. CASE k + 1 <= n
    <3>1. k \in 0 .. n - 1 /\ k + 1 \in 1 .. n /\ (k + 1) - 1 = k
      BY <1>2, <2>1
    <3>2. EInv(g[k], W(k), o, h, m, l)
      BY <1>2, <1>5, <3>1
    <3>3. W(k) \in Seq(ItemSet) /\ W(k) # <<>> /\ W(k)[1] = q[k + 1] /\ Tail(W(k)) = W(k + 1)
      BY <1>3, <3>1
    <3>4. EInv(ParseItem(g[k], W(k)[1]), Tail(W(k)), o, h, m, l)
      BY <3>2, <3>3, ParseItemInv
    <3>5. g[k + 1] = ParseItem(g[k], W(k)[1])
      BY <1>1, <3>1, <3>3
    <3>6. EInv(g[k + 1], W(k + 1), o, h, m, l)
      BY <3>3, <3>4, <3>5
    <3> QED  BY <3>6
  <2>2. CASE ~(k + 1 <= n)
    BY <2>2
  <2> QED  BY <2>1, <2>2
<1> HIDE DEF T
<1>6. Nat \subseteq T
  BY <1>4, <1>5, EveryNat
<1>7. EInv(g[n], W(n), o, h, m, l)
  BY <1>2, <1>6 DEF T
<1> QED  BY <1>1, <1>2, <1>7

\* A parser that is done reads nothing.
LEMMA ParseItemsDone ==
  ASSUME NEW e, NEW q \in Seq(ItemSet), e.state = "done"
  PROVE  ParseAll(e, q) = e
<1> DEFINE n == Len(q)
<1>1. PICK g : /\ g[0] = e /\ g[n] = ParseAll(e, q)
               /\ \A k \in 1 .. n : g[k] = ParseItem(g[k - 1], q[k])
  BY ParseSteps
<1>2. n \in Nat
  OBVIOUS
<1>3. \A it : ParseItem(e, it) = e
  BY DEF ParseItem, Unsolicited, LineStates, ParseStates
<1> HIDE DEF n
<1> DEFINE T == {k \in Nat : k <= n => g[k] = e}
<1>4. 0 \in T
  BY <1>1
<1>5. ASSUME NEW k \in Nat, k \in T PROVE k + 1 \in T
  <2>1. k + 1 <= n => k <= n /\ k + 1 \in 1 .. n /\ (k + 1) - 1 = k
    BY <1>2
  <2> QED  BY <1>1, <1>3, <1>5, <2>1
<1> HIDE DEF T
<1>6. Nat \subseteq T
  BY <1>4, <1>5, EveryNat
<1>7. g[n] = e
  BY <1>2, <1>6 DEF T
<1> QED  BY <1>1, <1>7

Emptied(e) == [e EXCEPT !.input = <<>>]

\* parse_available keeps the invariant.
LEMMA ParseAvailableInv ==
  ASSUME NEW e, NEW r \in Seq(ItemSet), NEW o \in Seq(ItemSet), NEW h, NEW m \in Nat,
         NEW l \in BOOLEAN, e.input \in Seq(ItemSet), EInv(Emptied(e), e.input \o r, o, h, m, l)
  PROVE  EInv(ParseAvailable(e), r, o, h, m, l)
<1>1. EInv(ParseAll(Emptied(e), e.input), r, o, h, m, l)
  BY ParseItemsInv
<1> QED  BY <1>1 DEF ParseAvailable, ParseAll, Emptied

----------------------------------------------------------------------------
(* The transport's calls.                                                  *)

\* Whatever part of the wire a read delivers, the invariant is kept.
LEMMA ReceiveInv ==
  ASSUME NEW e, NEW w \in Seq(ItemSet), NEW o \in Seq(ItemSet), NEW h, NEW m \in Nat, NEW l \in BOOLEAN,
         EInv(e, w, o, h, m, l), w # <<>>
  PROVE  EInv(InputEnd(e, <<Head(w)>>), Tail(w), o, h, m, l)
<1> DEFINE q == e.input \o <<Head(w)>>
           a == [e EXCEPT !.input = q]
           r == Tail(w)
           all == q \o r
           nil == <<>>
<1>1. e \in EngineSet /\ e.input \in Seq(ItemSet)
  BY EngineMembers DEF EInv, Shape
<1>2. /\ q \in Seq(ItemSet) /\ r \in Seq(ItemSet) /\ all \in Seq(ItemSet) /\ all = e.input \o w
      /\ nil \in Seq(ItemSet) /\ nil \o all = all /\ nil = <<>>
  <2>1. \A b \in Seq(ItemSet) : b \o <<Head(w)>> \in Seq(ItemSet) /\ (b \o <<Head(w)>>) \o Tail(w) = b \o w
    OBVIOUS
  <2>2. r \in Seq(ItemSet)
    OBVIOUS
  <2>6. nil \in Seq(ItemSet) /\ nil = <<>>
    OBVIOUS
  <2>3. q \in Seq(ItemSet) /\ all = e.input \o w
    BY <1>1, <2>1
  <2>7. q \in Seq(ItemSet)
    BY <1>1, <2>1
  <2>4. \A b \in Seq(ItemSet) : <<>> \o b = b
    BY ConcatEmptySeq
  <2>5. all \in Seq(ItemSet)
    <3>1. \A b, c \in Seq(ItemSet) : b \o c \in Seq(ItemSet)
      OBVIOUS
    <3> HIDE DEF q, r
    <3> QED  BY <2>2, <2>7, <3>1
  <2> HIDE DEF q, r
  <2> HIDE DEF all, nil
  <2> QED  BY <2>2, <2>3, <2>4, <2>5, <2>6
<1>3. InputEnd(e, <<Head(w)>>) = ParseAvailable(a)
  BY <1>1 DEF InputEnd, EngineSet
<1> HIDE DEF q, r, all, nil
<1>4. EInv([e EXCEPT !.input = nil], all, o, h, m, l)
  BY <1>2, InputMoved
<1>5. a \in EngineSet /\ a.input = q /\ [a EXCEPT !.input = nil] = [e EXCEPT !.input = nil]
  BY <1>1, <1>2 DEF EngineSet
<1> HIDE DEF a
<1>6. EInv(Emptied(a), a.input \o r, o, h, m, l)
  BY <1>2, <1>4, <1>5 DEF all, Emptied
<1>7. EInv(ParseAvailable(a), r, o, h, m, l)
  <2>1. a.input \in Seq(ItemSet) /\ r \in Seq(ItemSet)
    BY <1>2, <1>5
  <2> QED  BY <2>1, <1>6, ParseAvailableInv
<1> QED  BY <1>3, <1>7 DEF r

\* What a partial drain takes of q, and what it leaves.
Taken(q, k) == SubSeq(q, 1, k)
Left(q, k) == SubSeq(q, k + 1, Len(q))

\* Concatenation is associative.
LEMMA ConcatThree ==
  \A a, b, c \in Seq(ItemSet) : a \o b \in Seq(ItemSet) /\ (a \o b) \o c = a \o (b \o c)
  OBVIOUS

\* Output that is taken in two parts.
LEMMA SplitOutput ==
  ASSUME NEW q \in Seq(ItemSet), NEW o \in Seq(ItemSet), NEW k \in 1 .. Len(q)
  PROVE  /\ Left(q, k) \in Seq(ItemSet) /\ o \o Taken(q, k) \in Seq(ItemSet)
         /\ (o \o Taken(q, k)) \o Left(q, k) = o \o q
<1>1. /\ SubSeq(q, k + 1, Len(q)) \in Seq(ItemSet) /\ SubSeq(q, 1, k) \in Seq(ItemSet)
      /\ SubSeq(q, 1, k) \o SubSeq(q, k + 1, Len(q)) = q
  <2>1. \A i \in 1 .. Len(q) : q[i] \in ItemSet
    OBVIOUS
  <2>2. 1 \in 1 .. Len(q) + 1 /\ k \in 1 - 1 .. Len(q) /\ Len(q) \in k .. Len(q) /\ k \in Int
        /\ Len(q) \in Int /\ k + 1 \in Int /\ 1 \in Int
    OBVIOUS
  <2>3. SubSeq(q, 1, k) \o SubSeq(q, k + 1, Len(q)) = SubSeq(q, 1, Len(q))
    BY <2>2, ConcatAdjacentSubSeq
  <2>4. SubSeq(q, 1, k) \in Seq(ItemSet)
    BY <2>1, <2>2, SubSeqProperties
  <2>5. SubSeq(q, k + 1, Len(q)) \in Seq(ItemSet)
    BY <2>1, <2>2, SubSeqProperties
  <2> QED  BY <2>3, <2>4, <2>5, SubSeqFull
<1>2. Left(q, k) \in Seq(ItemSet) /\ Taken(q, k) \in Seq(ItemSet) /\ Taken(q, k) \o Left(q, k) = q
  BY <1>1 DEF Taken, Left
<1> DEFINE c == Taken(q, k)
           d == Left(q, k)
<1>3. c \in Seq(ItemSet) /\ d \in Seq(ItemSet) /\ c \o d = q
  BY <1>2
<1> HIDE DEF c, d
<1>4. o \o c \in Seq(ItemSet) /\ (o \o c) \o d = o \o (c \o d)
  BY <1>3, ConcatThree
<1>5. d \in Seq(ItemSet) /\ o \o c \in Seq(ItemSet) /\ (o \o c) \o d = o \o q
  BY <1>3, <1>4
<1> QED  BY <1>5 DEF c, d

\* The transport takes what was to be sent.
LEMMA TransmitWritten ==
  ASSUME NEW e \in EngineSet, NEW o \in Seq(ItemSet), NEW k \in 1 .. Len(e.pending_out),
         NEW u, u = o \o SubSeq(e.pending_out, 1, k)
  PROVE  Written(OutputEnd(e, k), u) = Written(e, o)
<1> DEFINE q == e.pending_out
           p == SubSeq(q, k + 1, Len(q))
<1>1. q \in Seq(ItemSet)
  BY EngineMembers
<1>2. u \o p = o \o q
  <2>1. k \in 1 .. Len(q) /\ u = o \o Taken(q, k) /\ p = Left(q, k)
    BY DEF Taken, Left
  <2> HIDE DEF p, q
  <2> QED  BY <1>1, <2>1, SplitOutput
<1>3. OutputEnd(e, k).pending_out = p
  BY DEF OutputEnd, EngineSet
<1> QED  BY <1>2, <1>3 DEF Written

\* What the transport takes is what was to be sent.
LEMMA TransmitInv ==
  ASSUME NEW e, NEW r, NEW o \in Seq(ItemSet), NEW h, NEW m, NEW l, EInv(e, r, o, h, m, l),
         NEW k \in 1 .. Len(e.pending_out), NEW u, u = o \o SubSeq(e.pending_out, 1, k)
  PROVE  EInv(OutputEnd(e, k), r, u, h, m, l) /\ u \in Seq(ItemSet)
<1> DEFINE q == e.pending_out
           p == SubSeq(q, k + 1, Len(q))
           had == e.had_output /\ k < Len(q)
           f == [e EXCEPT !.pending_out = p, !.had_output = had]
<1>1. e \in EngineSet /\ q \in Seq(ItemSet) /\ e.had_output \in BOOLEAN
  BY EngineMembers DEF EInv, Shape
<1>2. p \in Seq(ItemSet) /\ u \in Seq(ItemSet) /\ u \o p = o \o q
  <2>1. k \in 1 .. Len(q) /\ u = o \o Taken(q, k) /\ p = Left(q, k)
    BY DEF Taken, Left
  <2> HIDE DEF p, q
  <2> QED  BY ZenonT(60), <1>1, <2>1, SplitOutput
<1>3. OutputEnd(e, k) = f
  BY <1>1 DEF OutputEnd, EngineSet
<1>4. had \in BOOLEAN
  BY <1>1
<1> HIDE DEF p, had
<1>5. /\ f \in EngineSet /\ f.pending_out = p
      /\ f.role = e.role /\ f.state = e.state /\ f.streams = e.streams /\ f.stream_order = e.stream_order
      /\ f.next_stream_id = e.next_stream_id /\ f.input = e.input
      /\ f.event_queue = e.event_queue /\ f.goaway_sent = e.goaway_sent
      /\ f.connection_done = e.connection_done /\ f.active_stream = e.active_stream
      /\ f.body_remaining = e.body_remaining /\ f.bodyless = e.bodyless
  BY <1>1, <1>2, <1>4 DEF EngineSet
<1> HIDE DEF f
<1>6. ListsOK(f) /\ HeadsOK(f)
  BY <1>5 DEF EInv, Shape, ListsOK, HeadsOK, Opened
<1>7. ModesOK(f)
  BY <1>5 DEF EInv, Shape, ModesOK, ClientModes, ServerModes, InBody, Opened
<1>8. u \o f.pending_out = o \o e.pending_out
  BY <1>2, <1>5
<1>9. OutputOK(f, u)
  BY <1>5, <1>8 DEF EInv, OutputOK, Opened
<1>10. QueueOK(f, h) /\ \A s, t : Latest(h, f, s, t) <=> Latest(h, e, s, t)
  BY <1>5, SameQueue DEF EInv
<1>11. HeardOK(f, h)
  BY <1>5, <1>10 DEF EInv, HeardOK, Unheard, Opened
<1>12. WireOK(f, r, u, m, l)
  <2>1. Config(f) = Config(e)
    BY <1>5 DEF Config, Remaining, InBody, NoBody
  <2>2. AnsweredOK(f, r, u, m) <=> AnsweredOK(e, r, o, m)
    BY <1>5, <1>8 DEF AnsweredOK
  <2> QED  BY <1>5, <2>1, <2>2 DEF EInv, WireOK
<1> QED  BY <1>2, <1>3, <1>5, <1>6, <1>7, <1>8, <1>9, <1>10, <1>11, <1>12 DEF EInv, Shape, Written

----------------------------------------------------------------------------
(* The application's calls.                                                *)

\* The engine with another record of stream s.
Updated(e, s, x) == [e EXCEPT !.streams[s] = x]

\* What the application says of a stream changes nothing for the parser.
LEMMA UpdatedInv ==
  ASSUME NEW e, NEW r, NEW o, NEW h, NEW m, NEW l, EInv(e, r, o, h, m, l),
         NEW s \in Streams, NEW x \in StreamSet, x.present = e.streams[s].present,
         x.request_body_done = e.streams[s].request_body_done,
         e.role = "server" \/ (HeadOK(x, s) /\ StagedOK(x, s)),
         \/ e.role = "server" \/ s # e.active_stream
         \/ x.bodyless = e.streams[s].bodyless /\ (x.head_sent \/ x.head_sent = e.streams[s].head_sent)
  PROVE  /\ EInv(Updated(e, s, x), r, o, h, m, l)
         /\ Updated(e, s, x).streams[s] = x /\ Updated(e, s, x).role = e.role
<1> DEFINE u == [e.streams EXCEPT ![s] = x]
           f == Updated(e, s, x)
<1>1. /\ e \in EngineSet /\ ModesOK(e) /\ ListsOK(e) /\ HeadsOK(e) /\ WireOK(e, r, o, m, l)
      /\ e.streams \in [Streams -> StreamSet]
  BY EngineMembers DEF EInv, Shape
<1>2. u \in [Streams -> StreamSet] /\ u[s] = x /\ \A t \in Streams : t # s => u[t] = e.streams[t]
  BY <1>1
<1>3. f = [e EXCEPT !.streams = u]
  BY <1>1 DEF EngineSet, Updated
<1> HIDE DEF u, f
<1>4. /\ f \in EngineSet /\ f.streams = u
      /\ f.role = e.role /\ f.state = e.state /\ f.input = e.input /\ f.stream_order = e.stream_order
      /\ f.next_stream_id = e.next_stream_id /\ f.pending_out = e.pending_out
      /\ f.event_queue = e.event_queue /\ f.goaway_sent = e.goaway_sent
      /\ f.connection_done = e.connection_done /\ f.active_stream = e.active_stream
      /\ f.body_remaining = e.body_remaining /\ f.bodyless = e.bodyless
  BY <1>1, <1>2, <1>3 DEF EngineSet
<1>5. /\ \A t \in Streams : Opened(f, t) <=> Opened(e, t)
      /\ \A t \in Streams : f.streams[t].request_body_done = e.streams[t].request_body_done
  BY <1>2, <1>4 DEF Opened
<1>6. /\ e.active_stream # 0 => e.active_stream \in Streams
      /\ e.active_stream # 0 /\ e.role = "client" =>
           /\ f.streams[e.active_stream].bodyless = e.streams[e.active_stream].bodyless
           /\ e.streams[e.active_stream].head_sent => f.streams[e.active_stream].head_sent
  <2>1. e.active_stream # 0 => e.active_stream \in Streams
    BY <1>1, EngineMembers
  <2> QED  BY <1>2, <1>4, <2>1
<1>7. ListsOK(f)
  <2>1. f.active_stream # 0 => Opened(f, f.active_stream)
    BY <1>1, <1>4, <1>5, <1>6 DEF ListsOK
  <2> QED  BY <1>1, <1>4, <1>5, <2>1 DEF ListsOK
<1>8. HeadsOK(f)
  BY <1>1, <1>2, <1>4 DEF HeadsOK
<1>9. ModesOK(f)
  <2>1. f.role = "server" => ServerModes(f)
    BY <1>1, <1>4, <1>5 DEF ModesOK, ServerModes
  <2>2. f.role = "client" => ClientModes(f)
    BY <1>1, <1>4, <1>6 DEF ModesOK, ClientModes
  <2> QED  BY <1>1, <1>4, <2>1, <2>2 DEF ModesOK, InBody
<1>10. OutputOK(f, o)
  BY <1>4, <1>5 DEF EInv, OutputOK
<1>11. QueueOK(f, h) /\ \A t, k : Latest(h, f, t, k) <=> Latest(h, e, t, k)
  BY <1>4, SameQueue DEF EInv
<1>12. HeardOK(f, h)
  BY <1>4, <1>5, <1>11 DEF EInv, HeardOK, Unheard
<1>13. WireOK(f, r, o, m, l)
  <2>1. Config(f) = Config(e)
    <3>1. CASE e.active_stream # 0
      <4>1. e.role = "client" => (NoBody(f) <=> NoBody(e))
        BY <1>4, <1>6, <3>1 DEF NoBody
      <4>2. Remaining(f) = Remaining(e)
        BY <1>4 DEF Remaining, InBody
      <4>3. e.role = "client" => NoBody(f) = NoBody(e)
        BY <4>1 DEF NoBody
      <4>4. CASE e.role = "client"
        BY <1>4, <4>2, <4>3, <4>4 DEF Config
      <4>5. CASE e.role # "client"
        BY <1>4, <4>2, <4>5 DEF Config
      <4> QED  BY <4>4, <4>5
    <3>2. CASE e.active_stream = 0
      <4>1. Remaining(f) = Remaining(e)
        BY <1>4 DEF Remaining, InBody
      <4>2. CASE e.role = "client"
        <5>1. Config(e) = Idle
          BY <3>2, <4>2 DEF Config
        <5>2. Config(f) = Idle
          BY <1>4, <3>2, <4>2 DEF Config
        <5> QED  BY <5>1, <5>2
      <4>3. CASE e.role # "client"
        BY <1>4, <4>1, <4>3 DEF Config
      <4> QED  BY <4>2, <4>3
    <3> QED  BY <3>1, <3>2
  <2>2. e.role = "client" /\ AnsweredOK(e, r, o, m) => AnsweredOK(f, r, o, m)
    BY <1>4, <1>6 DEF AnsweredOK
  <2> QED  BY <1>1, <1>4, <2>1, <2>2 DEF WireOK
<1>14. EInv(f, r, o, h, m, l) /\ f.streams[s] = x /\ f.role = e.role
  BY <1>2, <1>4, <1>7, <1>8, <1>9, <1>10, <1>11, <1>12, <1>13 DEF EInv, Shape
<1> QED  BY <1>14 DEF f

\* What is written belongs to the oldest stream, and is no request.
LEMMA WriteInv ==
  ASSUME NEW e, NEW r, NEW o \in Seq(ItemSet), NEW h, NEW m \in Nat, NEW l, EInv(e, r, o, h, m, l),
         NEW s \in Streams, Opened(e, s), \A t \in Streams : Opened(e, t) => s <= t,
         NEW items \in Seq(ItemSet), \A i \in 1 .. Len(items) : items[i].stream = s,
         e.role = "server" \/ \A i \in 1 .. Len(items) : items[i].type # "start"
  PROVE  EInv(AppendPending(e, items), r, o, h, m, l)
<1> DEFINE f == AppendPending(e, items)
<1>1. /\ e \in EngineSet /\ ModesOK(e) /\ WireOK(e, r, o, m, l) /\ Sound(e, o, h)
  BY SoundOf DEF EInv, Shape
<1>2. /\ f \in EngineSet
      /\ f.role = e.role /\ f.state = e.state /\ f.input = e.input /\ f.streams = e.streams
      /\ f.stream_order = e.stream_order /\ f.next_stream_id = e.next_stream_id
      /\ f.active_stream = e.active_stream /\ f.bodyless = e.bodyless
      /\ f.body_remaining = e.body_remaining /\ f.connection_done = e.connection_done
      /\ f.goaway_sent = e.goaway_sent /\ f.event_queue = e.event_queue
  BY <1>1, Appended
<1>3. Sound(f, o, h)
  BY <1>1, WriteSound
<1>4. Written(f, o) = Written(e, o) \o items /\ Written(e, o) \in Seq(ItemSet)
  BY <1>1, WrittenAppended
<1> HIDE DEF f
<1>5. ModesOK(f)
  BY <1>1, <1>2 DEF ModesOK, ClientModes, ServerModes, InBody, Opened
<1>6. \A t, k : Latest(h, f, t, k) <=> Latest(h, e, t, k)
  BY <1>2, SameQueue
<1>7. HeardOK(f, h)
  BY <1>2, <1>6 DEF EInv, HeardOK, Unheard, Opened
<1>8. WireOK(f, r, o, m, l)
  <2>1. Config(f) = Config(e)
    BY <1>2 DEF Config, Remaining, InBody, NoBody
  <2>2. ASSUME e.role = "client", AnsweredOK(e, r, o, m) PROVE AnsweredOK(f, r, o, m)
    <3>1. \A i \in 1 .. Len(items) : items[i].type # "start"
      BY <2>2
    <3>2. Starts(Written(f, o)) = Starts(Written(e, o))
      BY <1>4, <3>1, StartsConcat
    <3>3. \A t, b : LastRequest(Written(e, o), t, b) => LastRequest(Written(f, o), t, b)
      BY <1>4, <3>1, LastConcat
    <3> QED  BY <1>2, <2>2, <3>2, <3>3 DEF AnsweredOK, Written
  <2> QED  BY <1>1, <1>2, <2>1, <2>2 DEF WireOK
<1> QED  BY <1>2, <1>3, <1>5, <1>7, <1>8 DEF EInv, Shape, Sound, f

\* open_stream keeps the invariant.
LEMMA OpenInv ==
  ASSUME NEW e, NEW r, NEW o \in Seq(ItemSet), NEW h, NEW m, NEW l, EInv(e, r, o, h, m, l),
         e.role = "client", e.next_stream_id \in Streams
  PROVE  EInv(OpenStream(e), r, o, h, m, l)
<1> DEFINE id == e.next_stream_id
           x == Present
           u == [e.streams EXCEPT ![id] = x]
           q == Append(e.stream_order, id)
           f == [e EXCEPT !.next_stream_id = id + 2, !.streams = u, !.stream_order = q]
<1>1. /\ e \in EngineSet /\ ModesOK(e) /\ ListsOK(e) /\ WireOK(e, r, o, m, l) /\ HeardOK(e, h)
      /\ Sound(e, o, h)
  BY SoundOf DEF EInv, Shape
<1>2. /\ e.streams \in [Streams -> StreamSet] /\ e.stream_order \in Seq(Streams)
      /\ id \in Nat /\ id + 2 \in Nat /\ id \in Streams
  <2>1. id \in Nat /\ e.streams \in [Streams -> StreamSet] /\ e.stream_order \in Seq(Streams)
    BY <1>1, EngineMembers
  <2> QED  BY <2>1
<1>3. x \in StreamSet /\ x.present /\ x.head = <<>> /\ x.body_staged = <<>>
  <2>1. [Present EXCEPT !.bodyless = Present.bodyless] = Present /\ Present.bodyless = FALSE
    BY DEF Present, Absent
  <2>2. [Present EXCEPT !.bodyless = FALSE] = Present
    BY <2>1
  <2> QED  BY <2>2, NewStream
<1>4. OpenStream(e) = f
  BY <1>1 DEF OpenStream, EngineSet
<1> HIDE DEF x
<1>5. /\ u \in [Streams -> StreamSet] /\ u[id] = x /\ \A s \in Streams : s # id => u[s] = e.streams[s]
      /\ q \in Seq(Streams) /\ q = Append(e.stream_order, id)
      /\ e.stream_order # <<>> => q[1] = e.stream_order[1]
  BY <1>2, <1>3
<1> HIDE DEF u, q
<1>6. /\ f \in EngineSet /\ f.streams = u /\ f.stream_order = q /\ f.next_stream_id = id + 2
      /\ f.role = e.role /\ f.state = e.state /\ f.input = e.input /\ f.pending_out = e.pending_out
      /\ f.event_queue = e.event_queue /\ f.goaway_sent = e.goaway_sent
      /\ f.connection_done = e.connection_done /\ f.active_stream = e.active_stream
      /\ f.body_remaining = e.body_remaining /\ f.bodyless = e.bodyless
  BY <1>1, <1>2, <1>5 DEF EngineSet
<1> HIDE DEF f
<1>7. Sound(f, o, h) /\ \A s \in Streams : Opened(f, s) <=> Opened(e, s) \/ s = id
  <2>1. Unique(f)
    BY <1>6 DEF Unique
  <2>2. id = e.next_stream_id /\ id \in Streams
    BY <1>2
  <2>3. f.streams[id] = x /\ \A s \in Streams : s # id => f.streams[s] = e.streams[s]
    BY <1>5, <1>6
  <2>4. f.stream_order = Append(e.stream_order, id) /\ f.next_stream_id = id + 2
    BY <1>5, <1>6
  <2> HIDE DEF id
  <2>5. Sound(e, o, h)
    BY <1>1
  <2>6. /\ f \in EngineSet /\ f.role = e.role /\ f.pending_out = e.pending_out
        /\ f.event_queue = e.event_queue /\ f.goaway_sent = e.goaway_sent
        /\ f.active_stream = e.active_stream
    BY <1>6
  <2> QED  BY SMTT(30), <1>3, <2>1, <2>2, <2>3, <2>4, <2>5, <2>6, OpenSound
<1>8. ~Opened(e, id)
  BY <1>1, <1>2 DEF ListsOK
<1>9. e.active_stream # 0 =>
        /\ e.active_stream \in Streams /\ e.active_stream # id /\ e.stream_order # <<>>
        /\ f.streams[e.active_stream] = e.streams[e.active_stream]
        /\ f.stream_order[1] = e.stream_order[1]
  <2>1. e.active_stream # 0 => e.active_stream \in Streams /\ Opened(e, e.active_stream)
    BY <1>1, EngineMembers DEF ListsOK
  <2>2. \A s \in Streams : Opened(e, s) => e.stream_order # <<>>
    BY <1>1 DEF ListsOK
  <2> QED  BY <1>5, <1>6, <1>8, <2>1, <2>2
<1>10. ModesOK(f)
  <2>1. ClientModes(f)
    BY <1>1, <1>6, <1>9 DEF ModesOK, ClientModes
  <2> QED  BY <1>1, <1>6, <2>1 DEF ModesOK, InBody
<1>11. \A t, k : Latest(h, f, t, k) <=> Latest(h, e, t, k)
  BY <1>6, SameQueue
<1>12. HeardOK(f, h)
  <2>1. ASSUME NEW s \in Streams, Unheard(f, s) PROVE Unheard(e, s)
    <3>1. s \in Nat
      BY ConfigTypes
    <3>2. s >= id + 2 \/ (Opened(f, s) /\ s # f.active_stream)
      BY <1>6, <2>1 DEF Unheard
    <3>3. CASE s >= id + 2
      <4>1. s >= id
        BY <1>2, <3>1, <3>3
      <4> QED  BY <4>1 DEF Unheard
    <3>4. CASE Opened(f, s) /\ s # f.active_stream
      BY <1>2, <1>6, <1>7, <3>4 DEF Unheard
    <3> QED  BY <3>2, <3>3, <3>4
  <2> QED  BY <1>1, <1>6, <1>11, <2>1 DEF HeardOK
<1>13. WireOK(f, r, o, m, l)
  <2>1. Config(f) = Config(e)
    BY <1>6, <1>9 DEF Config, Remaining, InBody, NoBody
  <2>2. AnsweredOK(e, r, o, m) => AnsweredOK(f, r, o, m)
    BY <1>6, <1>9 DEF AnsweredOK
  <2> QED  BY <1>1, <1>6, <2>1, <2>2 DEF WireOK
<1> QED  BY <1>4, <1>6, <1>7, <1>10, <1>12, <1>13 DEF EInv, Shape, Sound

\* A request is staged on a stream that was not sent yet, and flushed if it may.
LEMMA SendRequestInv ==
  ASSUME NEW e, NEW r \in Seq(ItemSet), NEW o \in Seq(ItemSet), NEW h, NEW m \in Nat, NEW l \in BOOLEAN,
         EInv(e, r, o, h, m, l), NEW s \in Streams, NEW bodyless \in BOOLEAN,
         NEW length \in {-1} \union Nat, NEW close \in BOOLEAN, NEW end \in BOOLEAN
  PROVE  EInv(SendRequestHeaders(e, s, bodyless, length, close, end), r, o, h, m, l)
<1> DEFINE framing == SendFraming(length, end)
           n == IF length >= 0 THEN length ELSE 0
           x == Start(s, bodyless)
           y == Fields(s, framing, n, close)
           head == <<x, y>>
           z == e.streams[s]
           w == [z EXCEPT !.bodyless = bodyless, !.head = head,
                          !.chunked = @ \/ framing = "chunked",
                          !.close_after = close, !.request_complete = @ \/ end]
           g == [e EXCEPT !.streams[s] = w]
<1>1. CASE ~z.present \/ z.head_sent
  <2>1. SendRequestHeaders(e, s, bodyless, length, close, end) = e
    BY <1>1 DEF SendRequestHeaders
  <2> QED  BY <2>1
<1>2. CASE ~(~z.present \/ z.head_sent)
  <2>1. /\ e \in EngineSet /\ ModesOK(e) /\ HeadsOK(e) /\ e.streams \in [Streams -> StreamSet]
        /\ z \in StreamSet /\ z.present /\ ~z.head_sent
    BY <1>2, EngineMembers, StreamMembers DEF EInv, Shape
  <2>2. framing \in Framings /\ n \in Nat
    BY DEF SendFraming, Framings
  <2>3. SendRequestHeaders(e, s, bodyless, length, close, end) = FlushPending(g)
    <3>1. SendRequestHeaders(e, s, bodyless, length, close, end) =
            IF ~e.streams[s].present \/ e.streams[s].head_sent THEN e ELSE FlushPending(g)
      BY DEF SendRequestHeaders
    <3> HIDE DEF g
    <3> QED  BY <1>2, <3>1
  <2>4. /\ x \in ItemSet /\ x.type = "start" /\ x.stream = s /\ x.bodyless = bodyless
        /\ y \in ItemSet /\ y.type = "fields" /\ y.stream = s
    <3> HIDE DEF framing, n
    <3> QED  BY <2>2, HeadItems DEF Plain
  <2> HIDE DEF x, y
  <2>5. head \in Seq(ItemSet) /\ Len(head) = 2 /\ head[1] = x /\ head[2] = y
    BY <2>4
  <2> HIDE DEF head
  <2>6. /\ w \in StreamSet /\ w.present = z.present /\ w.request_body_done = z.request_body_done
        /\ w.head = head /\ w.bodyless = bodyless /\ w.body_staged = z.body_staged
    <3> HIDE DEF framing, z
    <3> QED  BY ZenonT(60), <2>1, <2>5 DEF StreamSet
  <2>0. e.role = "client" \/ e.role = "server"
    BY <2>1, EngineMembers DEF Roles_
  <2>7. e.role = "server" \/ (HeadOK(w, s) /\ StagedOK(w, s))
    <3>1. e.role = "client" => StagedOK(z, s)
      BY <2>1 DEF HeadsOK
    <3> HIDE DEF z, w
    <3> QED  BY <2>0, <2>4, <2>5, <2>6, <3>1 DEF HeadOK, StagedOK
  <2>8. e.role = "server" \/ s # e.active_stream
    <3>1. e.role = "client" /\ e.active_stream # 0 => e.streams[e.active_stream].head_sent
      BY <2>1 DEF ModesOK, ClientModes
    <3> QED  BY <2>0, <2>1, <3>1, ConfigTypes
  <2> HIDE DEF w
  <2>9. EInv(g, r, o, h, m, l) /\ g.role = e.role /\ g.streams[s] = w
    <3>1. g = Updated(e, s, w)
      BY DEF Updated
    <3>2. /\ w.present = e.streams[s].present
          /\ w.request_body_done = e.streams[s].request_body_done
      BY <2>6 DEF z
    <3> HIDE DEF g, z
    <3>3. /\ EInv(Updated(e, s, w), r, o, h, m, l) /\ Updated(e, s, w).role = e.role
          /\ Updated(e, s, w).streams[s] = w
      BY <2>6, <2>7, <2>8, <3>2, UpdatedInv
    <3> QED  BY <3>1, <3>3
  <2> HIDE DEF g
  <2>10. EInv(FlushPending(g), r, o, h, m, l)
    <3>1. CASE e.role = "client"
      BY <2>9, <3>1, FlushInv
    <3>2. CASE e.role = "server"
      <4>1. ModesOK(g) /\ Opened(g, s)
        BY <2>1, <2>6, <2>9 DEF EInv, Shape, Opened
      <4>2. g.active_stream # 0 \/ g.connection_done
        BY <2>9, <3>2, <4>1 DEF ModesOK, ServerModes
      <4>3. FlushPending(g) = g
        BY <4>2 DEF FlushPending
      <4> QED  BY <2>9, <4>3
    <3> QED  BY <2>0, <3>1, <3>2
  <2> QED  BY <2>3, <2>10
<1> QED  BY <1>1, <1>2

\* After a response the next request is parsed, or the connection is over.
LEMMA CompleteResponseInv ==
  ASSUME NEW e, NEW r \in Seq(ItemSet), NEW o \in Seq(ItemSet), NEW h, NEW m \in Nat, NEW l \in BOOLEAN,
         EInv(e, r, o, h, m, l), e.role = "server", NEW s \in Streams, Opened(e, s)
  PROVE  EInv(CompleteResponse(e, s), r, o, h, m, l)
<1> DEFINE a == Erase(e, s)
           b == [a EXCEPT !.active_stream = 0]
           c == [b EXCEPT !.state = "start_line"]
           over == e.streams[s].close_after \/ ~e.streams[s].request_body_done \/ e.connection_done
<1>1. /\ e \in EngineSet /\ ModesOK(e) /\ WireOK(e, r, o, m, l) /\ HeardOK(e, h) /\ Sound(e, o, h)
      /\ e.input \in Seq(ItemSet)
  BY SoundOf, EngineMembers DEF EInv, Shape
<1>2. /\ Sound(a, o, h)
      /\ a.role = e.role /\ a.state = e.state /\ a.input = e.input /\ a.pending_out = e.pending_out
      /\ a.next_stream_id = e.next_stream_id /\ a.bodyless = e.bodyless
      /\ a.connection_done = e.connection_done /\ a.goaway_sent = e.goaway_sent
      /\ a.eof_seen = e.eof_seen /\ a.event_queue = e.event_queue /\ a.body_remaining = e.body_remaining
      /\ \A t \in Streams : Opened(a, t) <=> Opened(e, t) /\ t # s
  BY <1>1, EraseSound
<1> HIDE DEF a
<1>3. a \in EngineSet
  BY <1>2 DEF Sound
<1>4. /\ b \in EngineSet /\ b.active_stream = 0
      /\ b.role = a.role /\ b.state = a.state /\ b.streams = a.streams /\ b.stream_order = a.stream_order
      /\ b.next_stream_id = a.next_stream_id /\ b.pending_out = a.pending_out /\ b.input = a.input
      /\ b.event_queue = a.event_queue /\ b.goaway_sent = a.goaway_sent
      /\ b.connection_done = a.connection_done
  BY <1>3 DEF EngineSet
<1>5. CompleteResponse(e, s) = IF over THEN MarkConnectionDone(b) ELSE ParseAvailable(c)
  BY DEF CompleteResponse, a
<1>6. c \in EngineSet /\ c.state = "start_line" /\ c.active_stream = 0
      /\ c.role = b.role /\ c.streams = b.streams /\ c.stream_order = b.stream_order
      /\ c.next_stream_id = b.next_stream_id /\ c.pending_out = b.pending_out /\ c.input = b.input
      /\ c.event_queue = b.event_queue /\ c.goaway_sent = b.goaway_sent
      /\ c.connection_done = b.connection_done
  BY <1>4 DEF EngineSet, ParseStates
<1> HIDE DEF b, c
<1>7. Sound(b, o, h)
  BY <1>2, <1>4, SoundSame
<1>8. CASE over
  BY <1>5, <1>7, <1>8, MarkDoneInv
<1>9. CASE ~over
  <2> DEFINE nil == <<>>
             d == [c EXCEPT !.input = nil]
             all == e.input \o r
  <2>1. e.state = "awaiting_response" /\ ~e.connection_done /\ ~e.goaway_sent
    BY <1>1, <1>9 DEF ModesOK, ServerModes
  <2>2. nil \in Seq(ItemSet) /\ nil = <<>>
    OBVIOUS
  <2>3. all \in Seq(ItemSet) /\ c.input \o r = all
    <3>1. \A p, q \in Seq(ItemSet) : p \o q \in Seq(ItemSet)
      OBVIOUS
    <3> QED  BY <1>1, <1>2, <1>4, <1>6, <3>1
  <2>4. nil \o all = all
    <3> HIDE DEF all
    <3> QED  BY <2>2, <2>3, ConcatEmptySeq
  <2> HIDE DEF nil
  <2>5. /\ d \in EngineSet /\ d.state = "start_line" /\ d.active_stream = 0 /\ d.input = nil
        /\ d.role = c.role /\ d.streams = c.streams /\ d.stream_order = c.stream_order
        /\ d.next_stream_id = c.next_stream_id /\ d.pending_out = c.pending_out
        /\ d.event_queue = c.event_queue /\ d.goaway_sent = c.goaway_sent
        /\ d.connection_done = c.connection_done
    BY <1>6, <2>2 DEF EngineSet
  <2>6. d = Emptied(c)
    BY <2>2 DEF Emptied
  <2> HIDE DEF d, all
  <2>7. Sound(d, o, h)
    BY <1>4, <1>6, <1>7, <2>5, SoundSame
  <2>8. \A t \in Streams : ~Opened(d, t)
    <3>1. \A t \in Streams : Opened(e, t) => t = s
      BY <1>1 DEF Sound, Unique
    <3> QED  BY <1>2, <1>4, <1>6, <2>5, <3>1 DEF Opened
  <2>9. ModesOK(d)
    <3>1. ServerModes(d)
      BY <2>5, <2>8 DEF ServerModes
    <3> QED  BY <1>2, <1>4, <1>6, <2>1, <2>2, <2>5, <3>1 DEF ModesOK, InBody
  <2>10. HeardOK(d, h)
    <3>1. \A t, k : Latest(h, d, t, k) <=> Latest(h, e, t, k)
      <4>1. d.event_queue = e.event_queue
        BY <1>2, <1>4, <1>6, <2>5
      <4> QED  BY <4>1, SameQueue
    <3>2. \A t \in Streams : Unheard(d, t) => Unheard(e, t)
      BY <1>2, <1>4, <1>6, <2>5 DEF Unheard
    <3> QED  BY <1>1, <2>1, <2>5, <3>1, <3>2 DEF HeardOK
  <2>11. WireOK(d, all, o, m, l)
    <3>1. Config(e) = At("start_line", 0, e.next_stream_id, FALSE)
      BY <2>1 DEF Config
    <3>2. Config(d) = At("start_line", 0, e.next_stream_id, FALSE)
      BY <1>2, <1>4, <1>6, <2>5 DEF Config
    <3>3. \E k \in Configs : Run(e.role, Config(e), all, k) /\ EndOK(e.role, k, m, l)
      BY <1>1, <2>1 DEF WireOK, all
    <3>4. d.input \o all = all
      BY <2>4, <2>5
    <3>5. d.role = "server"
      BY <1>2, <1>4, <1>6, <2>5
    <3> QED  BY <3>1, <3>2, <3>3, <3>4, <3>5 DEF WireOK
  <2>12. EInv(d, all, o, h, m, l)
    BY <2>5, <2>7, <2>9, <2>10, <2>11 DEF EInv, Shape, Sound
  <2>13. EInv(Emptied(c), c.input \o r, o, h, m, l) /\ c.input \in Seq(ItemSet)
    BY <1>1, <1>2, <1>4, <1>6, <2>3, <2>6, <2>12
  <2>14. EInv(ParseAvailable(c), r, o, h, m, l)
    BY <2>13, ParseAvailableInv
  <2> QED  BY <1>5, <1>9, <2>14
<1> QED  BY <1>8, <1>9

\* send_headers of a server keeps the invariant.
LEMMA SendResponseInv ==
  ASSUME NEW e, NEW r \in Seq(ItemSet), NEW o \in Seq(ItemSet), NEW h, NEW m \in Nat, NEW l \in BOOLEAN,
         EInv(e, r, o, h, m, l), e.role = "server", NEW s \in Streams, NEW bodyless \in BOOLEAN,
         NEW length \in {-1} \union Nat, NEW close \in BOOLEAN, NEW end \in BOOLEAN
  PROVE  EInv(SendResponseHeaders(e, s, bodyless, length, close, end), r, o, h, m, l)
<1> DEFINE z == e.streams[s]
           closes == z.close_after \/ close
           nobody == z.bodyless \/ bodyless
           framing == IF nobody /\ length < 0 THEN "none" ELSE SendFraming(length, end)
           n == IF length >= 0 THEN length ELSE 0
           x == Start(s, bodyless)
           y == Fields(s, framing, n, closes)
           head == <<x, y>>
           a == AppendPending(e, head)
           w == [z EXCEPT !.close_after = closes, !.no_body = nobody,
                          !.chunked = @ \/ framing = "chunked", !.head_sent = TRUE]
           g == [a EXCEPT !.streams[s] = w]
<1>1. SendResponseHeaders(e, s, bodyless, length, close, end) =
        IF ~z.present \/ z.head_sent THEN e ELSE IF end THEN CompleteResponse(g, s) ELSE g
  BY DEF SendResponseHeaders
<1>2. CASE ~z.present \/ z.head_sent
  <2> HIDE DEF z, g
  <2> QED  BY <1>1, <1>2
<1>3. CASE ~(~z.present \/ z.head_sent)
  <2>1. /\ e \in EngineSet /\ Sound(e, o, h) /\ z \in StreamSet /\ z.present /\ Opened(e, s)
        /\ z.close_after \in BOOLEAN /\ z.bodyless \in BOOLEAN
    BY <1>3, SoundOf, StreamMembers DEF EInv, Shape, Opened
  <2>2. framing \in Framings /\ n \in Nat /\ closes \in BOOLEAN /\ nobody \in BOOLEAN
    <3>1. SendFraming(length, end) \in Framings /\ "none" \in Framings
      BY DEF SendFraming, Framings
    <3> QED  BY <2>1, <3>1
  <2>3. x \in ItemSet /\ x.stream = s /\ y \in ItemSet /\ y.stream = s
    <3> HIDE DEF framing, n, closes
    <3> QED  BY <2>2, HeadItems DEF Plain
  <2> HIDE DEF x, y
  <2>4. head \in Seq(ItemSet) /\ \A i \in 1 .. Len(head) : head[i].stream = s
    <3>1. head \in Seq(ItemSet) /\ Len(head) = 2 /\ head[1] = x /\ head[2] = y
      BY <2>3
    <3>2. \A i \in 1 .. 2 : i = 1 \/ i = 2
      OBVIOUS
    <3> HIDE DEF head
    <3> QED  BY <2>3, <3>1, <3>2
  <2> HIDE DEF head
  <2>5. \A t \in Streams : Opened(e, t) => s <= t
    <3>1. \A t \in Streams : Opened(e, t) => t = s
      BY <2>1 DEF Sound, Unique
    <3>2. s \in Nat
      BY ConfigTypes
    <3> QED  BY <3>1, <3>2
  <2>6. EInv(a, r, o, h, m, l)
    BY <2>1, <2>4, <2>5, WriteInv
  <2>7. a.role = e.role /\ a.streams = e.streams /\ a.active_stream = e.active_stream
    BY <2>1, <2>4, Appending
  <2>8. /\ w \in StreamSet /\ w.present = z.present /\ w.request_body_done = z.request_body_done
        /\ w.bodyless = z.bodyless /\ w.head_sent
    <3> HIDE DEF framing, z, closes, nobody
    <3> QED  BY ZenonT(60), <2>1, <2>2 DEF StreamSet
  <2> HIDE DEF w, a
  <2>9. EInv(g, r, o, h, m, l) /\ g.streams[s] = w /\ g.role = a.role
    <3>1. g = Updated(a, s, w)
      BY DEF Updated
    <3> HIDE DEF g, z
    <3>2. /\ w \in StreamSet /\ w.present = a.streams[s].present
          /\ w.request_body_done = a.streams[s].request_body_done
          /\ w.bodyless = a.streams[s].bodyless /\ w.head_sent
      BY <2>7, <2>8 DEF z
    <3>3. a.role = "server"
      BY <2>7
    <3>4. EInv(Updated(a, s, w), r, o, h, m, l) /\ Updated(a, s, w).streams[s] = w
          /\ Updated(a, s, w).role = a.role
      BY <2>6, <3>2, <3>3, UpdatedInv
    <3> QED  BY <3>1, <3>4
  <2> HIDE DEF g
  <2>10. g.role = "server" /\ Opened(g, s)
    BY <2>1, <2>7, <2>8, <2>9 DEF Opened
  <2>11. EInv(CompleteResponse(g, s), r, o, h, m, l)
    BY <2>9, <2>10, CompleteResponseInv
  <2> QED  BY <1>1, <1>3, <2>9, <2>11
<1> QED  BY <1>2, <1>3

\* What is written of a body belongs to its stream, and starts no message.
BodyOf(q, s) == q \in Seq(ItemSet) /\ \A i \in 1 .. Len(q) : q[i].stream = s /\ q[i].type # "start"

\* Bodies of one stream follow one another.
LEMMA BodyConcat ==
  ASSUME NEW p, NEW q, NEW s, BodyOf(p, s), BodyOf(q, s)
  PROVE  BodyOf(p \o q, s)
<1>1. p \in Seq(ItemSet) /\ q \in Seq(ItemSet)
  BY DEF BodyOf
<1>2. /\ p \o q \in Seq(ItemSet)
      /\ \A i \in 1 .. Len(p) : (p \o q)[i] = p[i]
      /\ \A i \in 1 .. Len(p \o q) :
              i \in 1 .. Len(p) \/ (i > Len(p) /\ i - Len(p) \in 1 .. Len(q) /\ (p \o q)[i] = q[i - Len(p)])
  BY <1>1, ConcatElements
<1>3. ASSUME NEW i \in 1 .. Len(p \o q) PROVE (p \o q)[i].stream = s /\ (p \o q)[i].type # "start"
  <2>1. CASE i \in 1 .. Len(p)
    BY <1>2, <2>1 DEF BodyOf
  <2>2. CASE i - Len(p) \in 1 .. Len(q) /\ (p \o q)[i] = q[i - Len(p)]
    BY <2>2 DEF BodyOf
  <2> QED  BY <1>2, <2>1, <2>2
<1> QED  BY <1>2, <1>3 DEF BodyOf

\* Nothing is such a body.
LEMMA BodyNothing ==
  ASSUME NEW s
  PROVE  BodyOf(<<>>, s)
  BY DEF BodyOf

\* An item that is no start line is one.
LEMMA BodyItem ==
  ASSUME NEW type \in {"size", "crlf"}, NEW s \in Streams, NEW n \in Nat
  PROVE  BodyOf(<<Item(type, s, n)>>, s)
<1> DEFINE x == Item(type, s, n)
           q == <<x>>
<1>1. x \in ItemSet /\ x.stream = s /\ x.type # "start"
  BY ItemMembers DEF ItemTypes
<1> HIDE DEF x
<1>2. q \in Seq(ItemSet) /\ \A i \in 1 .. Len(q) : q[i] = x
  BY <1>1
<1> HIDE DEF q
<1>3. BodyOf(q, s)
  BY <1>1, <1>2 DEF BodyOf
<1> QED  BY <1>3 DEF q, x

\* A body in its framing is one.
LEMMA BodyFramed ==
  ASSUME NEW e, NEW s \in Streams, NEW n \in Nat, NEW end \in BOOLEAN
  PROVE  BodyOf(Framed(e, s, n, end), s)
<1> DEFINE a == <<Size(s, n)>>
           b == Units(s, n)
           c == <<Crlf(s)>>
           d == <<Size(s, 0)>>
           f == <<Size(s, 0), Crlf(s)>>
           nil == <<>>
<1>1. BodyOf(a, s) /\ BodyOf(c, s)
  <2>1. 0 \in Nat
    OBVIOUS
  <2> QED  BY <2>1, BodyItem DEF Size, Crlf
<1>2. BodyOf(b, s)
  <2>1. b \in Seq(Plain) /\ \A i \in 1 .. Len(b) : b[i].type = "body" /\ b[i].stream = s
    BY UnitsType
  <2>2. \A q \in Seq(Plain) : q \in Seq(ItemSet)
    BY DEF Plain
  <2> HIDE DEF b
  <2> QED  BY <2>1, <2>2 DEF BodyOf
<1>3. BodyOf(f, s)
  <2> DEFINE x == Size(s, 0)
             y == Crlf(s)
  <2>1. x \in ItemSet /\ x.stream = s /\ x.type # "start" /\ y \in ItemSet /\ y.stream = s /\ y.type # "start"
    BY ItemMembers DEF Size, Crlf, ItemTypes
  <2> HIDE DEF x, y
  <2>2. <<x, y>> \in Seq(ItemSet) /\ Len(<<x, y>>) = 2 /\ <<x, y>>[1] = x /\ <<x, y>>[2] = y
    BY <2>1
  <2>3. \A i \in 1 .. 2 : i = 1 \/ i = 2
    OBVIOUS
  <2> DEFINE g == <<x, y>>
  <2>4. BodyOf(g, s)
    <3>1. g \in Seq(ItemSet) /\ Len(g) = 2 /\ g[1] = x /\ g[2] = y
      BY <2>2
    <3> HIDE DEF g
    <3> QED  BY <2>1, <2>3, <3>1 DEF BodyOf
  <2> QED  BY <2>4 DEF x, y
<1>4. BodyOf(nil, s)
  BY BodyNothing
<1>5. Framed(e, s, n, end) =
        IF e.streams[s].chunked
        THEN (IF n > 0 THEN (a \o b) \o c ELSE nil) \o (IF end THEN f ELSE nil)
        ELSE b
  BY DEF Framed
<1> HIDE DEF a, b, c, f, nil
<1>6. BodyOf((a \o b) \o c, s)
  BY <1>1, <1>2, BodyConcat
<1> DEFINE u == IF n > 0 THEN (a \o b) \o c ELSE nil
           v == IF end THEN f ELSE nil
<1>7. BodyOf(u, s) /\ BodyOf(v, s)
  BY <1>3, <1>4, <1>6
<1>8. Framed(e, s, n, end) = IF e.streams[s].chunked THEN u \o v ELSE b
  BY <1>5
<1> HIDE DEF u, v
<1>9. BodyOf(u \o v, s)
  BY <1>7, BodyConcat
<1> QED  BY <1>2, <1>8, <1>9

\* The engine with more of the body of s staged.
Staged(e, s, q) == Updated(e, s, [e.streams[s] EXCEPT !.body_staged = e.streams[s].body_staged \o q])

\* A body that is staged behind a request belongs to it.
LEMMA StageInv ==
  ASSUME NEW e, NEW r, NEW o, NEW h, NEW m, NEW l, EInv(e, r, o, h, m, l),
         NEW s \in Streams, NEW q, BodyOf(q, s), s # e.active_stream
  PROVE  /\ EInv(Staged(e, s, q), r, o, h, m, l) /\ Staged(e, s, q).role = e.role
         /\ Opened(Staged(e, s, q), s) <=> Opened(e, s)
<1> DEFINE z == e.streams[s]
           p == z.body_staged \o q
           x == [z EXCEPT !.body_staged = p]
<1>1. /\ e \in EngineSet /\ HeadsOK(e) /\ z \in StreamSet /\ z.body_staged \in Seq(ItemSet)
      /\ q \in Seq(ItemSet)
  BY EngineMembers, StreamMembers DEF EInv, Shape, BodyOf
<1>2. p \in Seq(ItemSet)
  BY <1>1, ConcatElements
<1>3. e.role = "server" \/ StagedOK([z EXCEPT !.body_staged = p], s)
  <2>1. CASE e.role = "client"
    <3>1. StagedOK(z, s)
      BY <1>1, <2>1 DEF HeadsOK
    <3>2. BodyOf(z.body_staged, s)
      BY <1>1, <3>1 DEF StagedOK, BodyOf
    <3>3. BodyOf(p, s)
      BY <3>2, BodyConcat
    <3> HIDE DEF p
    <3>4. [z EXCEPT !.body_staged = p].body_staged = p
      BY <1>1 DEF StreamSet
    <3> QED  BY <3>3, <3>4 DEF BodyOf, StagedOK
  <2> QED  BY <1>1, <2>1, EngineMembers DEF Roles_
<1>4. Staged(e, s, q) = Updated(e, s, x)
  BY DEF Staged
<1> HIDE DEF p
<1>5. /\ x \in StreamSet /\ x.present = z.present /\ x.request_body_done = z.request_body_done
      /\ x.bodyless = z.bodyless /\ x.head_sent = z.head_sent /\ x.head = z.head
  BY <1>1, <1>2 DEF StreamSet
<1>6. e.role = "server" \/ (HeadOK(x, s) /\ StagedOK(x, s))
  <2>1. CASE e.role = "client"
    <3>1. HeadOK(z, s)
      BY <1>1, <2>1 DEF HeadsOK
    <3>2. HeadOK(x, s)
      BY <1>5, <3>1 DEF HeadOK
    <3> QED  BY <1>3, <2>1, <3>2
  <2> QED  BY <1>1, <2>1, EngineMembers DEF Roles_
<1> HIDE DEF x
<1>7. /\ x.present = e.streams[s].present
      /\ x.request_body_done = e.streams[s].request_body_done
  BY <1>5
<1>8. /\ EInv(Updated(e, s, x), r, o, h, m, l)
      /\ Updated(e, s, x).streams[s] = x /\ Updated(e, s, x).role = e.role
  BY <1>5, <1>6, <1>7, UpdatedInv
<1> QED  BY <1>4, <1>7, <1>8 DEF Opened

\* The oldest open stream is the active one.
LEMMA ActiveOldest ==
  ASSUME NEW e, NEW r, NEW o, NEW h, NEW m, NEW l, EInv(e, r, o, h, m, l),
         NEW s \in Streams, s = e.active_stream
  PROVE  Opened(e, s) /\ \A t \in Streams : Opened(e, t) => s <= t
<1>1. e \in EngineSet /\ ListsOK(e) /\ ModesOK(e) /\ s # 0 /\ \A t \in Streams : t \in Nat
  BY ConfigTypes DEF EInv, Shape
<1>2. Opened(e, s)
  BY <1>1 DEF ListsOK
<1>3. CASE e.role = "client"
  <2>1. s = e.stream_order[1]
    BY <1>1, <1>3 DEF ModesOK, ClientModes
  <2>2. e.stream_order \in Seq(Streams)
    BY <1>1, EngineMembers
  <2>3. ASSUME NEW t \in Streams, Opened(e, t) PROVE s <= t
    <3>1. PICK i \in 1 .. Len(e.stream_order) : e.stream_order[i] = t
      BY <1>1, <2>3 DEF ListsOK
    <3>2. i = 1 \/ 1 < i
      BY <2>2
    <3>3. 1 \in 1 .. Len(e.stream_order)
      BY <2>2
    <3>4. 1 < i => e.stream_order[1] < e.stream_order[i]
      BY <1>1, <3>3 DEF ListsOK
    <3> QED  BY <1>1, <2>1, <3>1, <3>2, <3>4
  <2> QED  BY <1>2, <2>3
<1>4. CASE e.role = "server"
  BY <1>1, <1>2, <1>4 DEF ModesOK, ServerModes
<1> QED  BY <1>1, <1>3, <1>4, EngineMembers DEF Roles_

\* send_data keeps the invariant, in both roles, staged or written.
LEMMA SendDataInv ==
  ASSUME NEW e, NEW r \in Seq(ItemSet), NEW o \in Seq(ItemSet), NEW h, NEW m \in Nat, NEW l \in BOOLEAN,
         EInv(e, r, o, h, m, l), NEW s \in Streams, NEW n \in Nat, NEW end \in BOOLEAN
  PROVE  EInv(SendData(e, s, n, end), r, o, h, m, l)
<1> DEFINE framed == Framed(e, s, n, end)
           z == e.streams[s]
           staged == [e EXCEPT !.streams[s].body_staged = @ \o framed]
           w == IF z.no_body THEN e
                ELSE IF e.active_stream = s THEN AppendPending(e, framed) ELSE staged
           x == [w.streams[s] EXCEPT !.request_complete = end]
           g == [w EXCEPT !.streams[s].request_complete = end]
<1>1. SendData(e, s, n, end) =
        IF Refuses(e, s) THEN e
        ELSE IF end /\ e.role = "server" THEN CompleteResponse(w, s) ELSE g
  BY DEF SendData
<1>2. e \in EngineSet /\ e.streams \in [Streams -> StreamSet] /\ z \in StreamSet /\ z.no_body \in BOOLEAN
  BY EngineMembers, StreamMembers DEF EInv, Shape
<1>3. BodyOf(framed, s)
  BY BodyFramed
<1>4. staged = Staged(e, s, framed)
  <2> HIDE DEF framed
  <2> QED  BY <1>2 DEF Staged, Updated, EngineSet, StreamSet
<1> HIDE DEF framed, staged
<1>5. ASSUME ~Refuses(e, s)
      PROVE  EInv(w, r, o, h, m, l) /\ w.role = e.role /\ Opened(w, s)
  <2>1. Opened(e, s)
    BY <1>5 DEF Refuses, Opened
  <2>2. CASE z.no_body
    BY <2>1, <2>2
  <2>3. CASE ~z.no_body /\ e.active_stream = s
    <3>1. framed \in Seq(ItemSet) /\ \A i \in 1 .. Len(framed) : framed[i].stream = s /\ framed[i].type # "start"
      BY <1>3 DEF BodyOf
    <3>2. \A t \in Streams : Opened(e, t) => s <= t
      BY <2>3, ActiveOldest
    <3>3. EInv(AppendPending(e, framed), r, o, h, m, l)
      BY <2>1, <3>1, <3>2, WriteInv
    <3>4. AppendPending(e, framed).role = e.role /\ AppendPending(e, framed).streams = e.streams
      BY <1>2, <3>1, Appending
    <3> QED  BY <2>1, <2>3, <3>3, <3>4 DEF Opened
  <2>4. CASE ~z.no_body /\ e.active_stream # s
    <3>1. EInv(staged, r, o, h, m, l) /\ staged.role = e.role /\ (Opened(staged, s) <=> Opened(e, s))
      BY <1>3, <1>4, <2>4, StageInv
    <3> QED  BY <2>1, <2>4, <3>1
  <2> QED  BY <2>2, <2>3, <2>4
<1> HIDE DEF w
<1>6. ASSUME ~Refuses(e, s), end, e.role = "server"
      PROVE  EInv(CompleteResponse(w, s), r, o, h, m, l)
  BY <1>5, <1>6, CompleteResponseInv
<1>7. ASSUME ~Refuses(e, s)
      PROVE  EInv(g, r, o, h, m, l)
  <2> DEFINE y == w.streams[s]
  <2>1. w \in EngineSet /\ w.streams \in [Streams -> StreamSet] /\ HeadsOK(w) /\ y \in StreamSet
        /\ w.role \in {"client", "server"}
    BY <1>5, <1>7, EngineMembers DEF EInv, Shape, Roles_
  <2>2. g = Updated(w, s, x)
    BY <2>1 DEF Updated, EngineSet
  <2>3. /\ x \in StreamSet /\ x.present = y.present /\ x.request_body_done = y.request_body_done
        /\ x.bodyless = y.bodyless /\ x.head_sent = y.head_sent /\ x.head = y.head
        /\ x.body_staged = y.body_staged
    <3> HIDE DEF y
    <3>1. x = [y EXCEPT !.request_complete = end]
      BY DEF y
    <3> QED  BY <2>1, <3>1 DEF StreamSet
  <2>4. w.role = "server" \/ (HeadOK(y, s) /\ StagedOK(y, s))
    BY <2>1 DEF HeadsOK
  <2> HIDE DEF x, g
  <2>5. w.role = "server" \/ (HeadOK(x, s) /\ StagedOK(x, s))
    BY <2>3, <2>4 DEF HeadOK, StagedOK
  <2>6. /\ x.present = w.streams[s].present /\ x.request_body_done = w.streams[s].request_body_done
        /\ x.bodyless = w.streams[s].bodyless /\ x.head_sent = w.streams[s].head_sent
    BY <2>3
  <2>7. EInv(w, r, o, h, m, l)
    BY <1>5, <1>7
  <2> HIDE DEF y
  <2>8. EInv(Updated(w, s, x), r, o, h, m, l)
    BY <2>3, <2>5, <2>6, <2>7, UpdatedInv
  <2> QED  BY <2>2, <2>8
<1> QED  BY <1>1, <1>6, <1>7

\* An event about a stream that may follow what was said of it.
LEMMA SoundEmit ==
  ASSUME NEW e, NEW o, NEW h, Sound(e, o, h), NEW s \in Streams, NEW type \in EventTypes,
         NEW t \in Kinds, Latest(h, e, s, t), MayFollow(e.role, type, t)
  PROVE  Sound(Emit(e, Event(type, s, s)), o, h)
<1> DEFINE ev == Event(type, s, s)
           f == Emit(e, ev)
<1>1. e \in EngineSet /\ e.event_queue \in Seq(EventSet) /\ QueueOK(e, h)
  BY EngineMembers DEF Sound
<1>2. ev \in EventSet /\ ev.stream = s /\ ev.of = s /\ ev.type = type /\ s # 0
  BY ConfigTypes DEF Event, EventSet
<1> HIDE DEF ev
<1>3. /\ f \in EngineSet
      /\ f.role = e.role /\ f.state = e.state /\ f.input = e.input /\ f.streams = e.streams
      /\ f.stream_order = e.stream_order /\ f.next_stream_id = e.next_stream_id
      /\ f.active_stream = e.active_stream /\ f.connection_done = e.connection_done
      /\ f.goaway_sent = e.goaway_sent /\ f.pending_out = e.pending_out
      /\ f.event_queue = Append(e.event_queue, ev)
  BY <1>1, <1>2, Emitted
<1> HIDE DEF f
<1>4. \A u, v : u # ev.stream /\ Latest(h, e, u, v) => Latest(h, f, u, v)
  BY <1>1, <1>2, <1>3, AppendedQueue
<1>5. QueueOK(f, h)
  <2>1. \E v \in Kinds : Latest(h, e, ev.stream, v) /\ MayFollow(e.role, ev.type, v)
    BY <1>2
  <2> QED  BY <1>1, <1>2, <1>3, <2>1, AppendedQueue
<1>6. ListsOK(f) /\ HeadsOK(f) /\ Unique(f) /\ OutputOK(f, o)
  BY <1>3 DEF Sound, ListsOK, HeadsOK, Unique, OutputOK, Opened
<1>7. Sound(f, o, h)
  BY <1>2, <1>3, <1>4, <1>5, <1>6 DEF Sound
<1> QED  BY <1>7 DEF f, ev

\* When the peer hangs up the connection is done: completed, or broken.
LEMMA EofInv ==
  ASSUME NEW e, NEW r, NEW o, NEW h, NEW m, NEW l, EInv(e, r, o, h, m, l), ~e.eof_seen
  PROVE  \A q, n, k : EInv(Eof(e), q, o, h, n, k)
<1> SUFFICES ASSUME NEW q, NEW n, NEW k PROVE EInv(Eof(e), q, o, h, n, k)
  OBVIOUS
<1> DEFINE seen == [e EXCEPT !.eof_seen = TRUE]
           s == e.active_stream
           d == [seen EXCEPT !.connection_done = TRUE]
           a == Emit(d, Event("stream_closed", s, s))
           b == Erase(a, s)
<1>1. /\ e \in EngineSet /\ Sound(e, o, h) /\ ModesOK(e) /\ ListsOK(e) /\ HeardOK(e, h)
      /\ e.role \in {"client", "server"} /\ e.connection_done \in BOOLEAN
  BY SoundOf, EngineMembers DEF EInv, Shape, Roles_
<1>2. /\ seen \in EngineSet
      /\ seen.role = e.role /\ seen.state = e.state /\ seen.input = e.input /\ seen.streams = e.streams
      /\ seen.stream_order = e.stream_order /\ seen.next_stream_id = e.next_stream_id
      /\ seen.pending_out = e.pending_out /\ seen.event_queue = e.event_queue
      /\ seen.goaway_sent = e.goaway_sent /\ seen.connection_done = e.connection_done
      /\ seen.active_stream = e.active_stream /\ seen.body_remaining = e.body_remaining
  BY <1>1 DEF EngineSet
<1>3. /\ d \in EngineSet
      /\ d.role = e.role /\ d.streams = e.streams /\ d.connection_done
      /\ d.stream_order = e.stream_order /\ d.next_stream_id = e.next_stream_id
      /\ d.pending_out = e.pending_out /\ d.event_queue = e.event_queue
      /\ d.goaway_sent = e.goaway_sent /\ d.active_stream = e.active_stream
  <2> HIDE DEF seen
  <2> QED  BY <1>2 DEF EngineSet
<1>4. Eof(e) = CASE e.state = "done" -> seen
                 [] e.state = "body_until_close" -> CompleteExchange(d, s)
                 [] e.state = "start_line" ->
                      IF e.role = "client" /\ s # 0 THEN ConnectionError(seen) ELSE MarkConnectionDone(seen)
                 [] OTHER -> ConnectionError(seen)
  <2>1. CASE e.state = "done"
    BY <2>1 DEF Eof
  <2>2. CASE e.state = "body_until_close"
    BY <2>2 DEF Eof
  <2>3. CASE e.state = "start_line"
    BY <2>3 DEF Eof
  <2>4. CASE e.state \notin {"done", "body_until_close", "start_line"}
    BY <2>4 DEF Eof
  <2> QED  BY <2>1, <2>2, <2>3, <2>4
<1>5. Sound(seen, o, h)
  <2> HIDE DEF seen
  <2> QED  BY <1>1, <1>2, SoundSame
<1>6. CompleteExchange(d, s) = MarkConnectionDone(b)
  <2> HIDE DEF d
  <2> QED  BY <1>3 DEF CompleteExchange
<1> HIDE DEF seen, d
<1>7. CASE e.state = "done"
  <2>1. \A u, v : Latest(h, seen, u, v) <=> Latest(h, e, u, v)
    BY <1>2, SameQueue
  <2>2. ModesOK(seen)
    BY <1>1, <1>2 DEF ModesOK, ClientModes, ServerModes, InBody, Opened
  <2>3. HeardOK(seen, h)
    BY <1>1, <1>2, <1>7, <2>1 DEF HeardOK, ModesOK
  <2>4. EInv(seen, q, o, h, n, k)
    BY <1>2, <1>5, <1>7, <2>2, <2>3 DEF EInv, Shape, Sound, WireOK
  <2> QED  BY <1>4, <1>7, <2>4
<1>8. CASE e.state # "done"
  <2>1. ~seen.connection_done /\ Latest(h, seen, 0, "nothing")
    <3>1. ~e.connection_done /\ Latest(h, e, 0, "nothing")
      BY <1>1, <1>8 DEF ModesOK, HeardOK
    <3> QED  BY <1>2, <3>1, SameQueue
  <2>2. EInv(ConnectionError(seen), q, o, h, n, k)
    BY <1>5, <2>1, BrokenInv
  <2>3. EInv(MarkConnectionDone(seen), q, o, h, n, k)
    BY <1>5, MarkDoneInv
  <2>4. CASE e.state = "body_until_close"
    <3>1. e.role = "client" /\ s \in Streams /\ Opened(e, s)
      <4>1. e.role = "client"
        BY <1>1, <2>4 DEF ModesOK, ServerModes
      <4>2. s # 0
        BY <1>1, <2>4, <4>1 DEF ModesOK, ClientModes
      <4> QED  BY <1>1, <4>1, <4>2, EngineMembers DEF ListsOK
    <3>2. PICK t \in {"headers", "data"} : Latest(h, e, s, t)
      <4>1. s # 0
        BY <3>1, ConfigTypes
      <4> QED  BY <1>1, <2>4, <4>1 DEF HeardOK
    <3>3. Sound(d, o, h)
      BY <1>1, <1>3, SoundSame
    <3>4. Latest(h, d, s, t)
      BY <1>3, <3>2, SameQueue
    <3>5. MayFollow(d.role, "stream_closed", t) /\ "stream_closed" \in EventTypes /\ t \in Kinds
      BY DEF MayFollow, EventTypes, Kinds
    <3>6. Sound(a, o, h)
      BY <3>1, <3>3, <3>4, <3>5, SoundEmit
    <3>7. Opened(a, s)
      <4>1. a.streams = d.streams
        BY <1>3 DEF Emit, EngineSet
      <4> QED  BY <1>3, <3>1, <4>1 DEF Opened
    <3> HIDE DEF a
    <3>8. Sound(b, o, h)
      BY <3>1, <3>6, <3>7, EraseSound
    <3> HIDE DEF b
    <3>9. EInv(MarkConnectionDone(b), q, o, h, n, k)
      BY <3>8, MarkDoneInv
    <3> QED  BY <1>4, <1>6, <2>4, <3>9
  <2> QED  BY <1>4, <1>8, <2>2, <2>3, <2>4
<1> QED  BY <1>7, <1>8

\* Draining an event only moves it to what was heard.
LEMMA DrainInv ==
  ASSUME NEW e, NEW r, NEW o, NEW h \in [Streams \union {0} -> Kinds], NEW m, NEW l, EInv(e, r, o, h, m, l),
         e.event_queue # <<>>,
         NEW g, g = [h EXCEPT ![Head(e.event_queue).stream] = Head(e.event_queue).type]
  PROVE  EInv(NextEvent(e), r, o, g, m, l) /\ g \in [Streams \union {0} -> Kinds]
<1> DEFINE q == Tail(e.event_queue)
           f == [e EXCEPT !.event_queue = q]
<1>1. e \in EngineSet /\ e.event_queue \in Seq(EventSet) /\ e.active_stream \in Streams \union {0}
  BY EngineMembers DEF EInv, Shape
<1>2. q \in Seq(EventSet)
  BY <1>1
<1>3. NextEvent(e) = f
  BY <1>1 DEF NextEvent, EngineSet
<1> HIDE DEF q
<1>5. /\ f \in EngineSet /\ f.event_queue = q
      /\ f.role = e.role /\ f.state = e.state /\ f.streams = e.streams /\ f.stream_order = e.stream_order
      /\ f.next_stream_id = e.next_stream_id /\ f.input = e.input
      /\ f.pending_out = e.pending_out /\ f.goaway_sent = e.goaway_sent
      /\ f.connection_done = e.connection_done /\ f.active_stream = e.active_stream
      /\ f.body_remaining = e.body_remaining /\ f.bodyless = e.bodyless
  BY <1>1, <1>2 DEF EngineSet
<1> HIDE DEF f
<1>6. ListsOK(f) /\ HeadsOK(f) /\ OutputOK(f, o)
  BY <1>5 DEF EInv, Shape, ListsOK, HeadsOK, OutputOK, Opened
<1>7. ModesOK(f)
  BY <1>5 DEF EInv, Shape, ModesOK, ClientModes, ServerModes, InBody, Opened
<1>8. /\ g \in [Streams \union {0} -> Kinds] /\ QueueOK(f, g)
      /\ \A s \in Streams \union {0} : \A t : Latest(h, e, s, t) => Latest(g, f, s, t)
  <2>1. f.event_queue = Tail(e.event_queue) /\ f.role = e.role /\ QueueOK(e, h)
    BY <1>5 DEF q, EInv
  <2> QED  BY <1>1, <2>1, DrainedQueue
<1>9. HeardOK(f, g)
  <2>1. HeardOK(e, h)
    BY DEF EInv
  <2>2. \A t : Latest(h, e, 0, t) => Latest(g, f, 0, t)
    BY <1>8
  <2>3. \A s \in Streams : \A t : Latest(h, e, s, t) => Latest(g, f, s, t)
    BY <1>8
  <2>4. e.active_stream # 0 => e.active_stream \in Streams
    BY <1>1
  <2>5. \A s \in Streams : Unheard(f, s) <=> Unheard(e, s)
    BY <1>5 DEF Unheard, Opened
  <2>6. e.active_stream # 0 => \A t : Latest(h, e, e.active_stream, t) => Latest(g, f, e.active_stream, t)
    BY <2>3, <2>4
  <2> QED  BY <1>5, <2>1, <2>2, <2>3, <2>5, <2>6 DEF HeardOK
<1>10. WireOK(f, r, o, m, l)
  <2>1. Config(f) = Config(e)
    BY <1>5 DEF Config, Remaining, InBody, NoBody
  <2>2. AnsweredOK(f, r, o, m) <=> AnsweredOK(e, r, o, m)
    BY <1>5 DEF AnsweredOK
  <2> QED  BY <1>5, <2>1, <2>2 DEF EInv, WireOK
<1> QED  BY <1>3, <1>5, <1>6, <1>7, <1>8, <1>9, <1>10 DEF EInv, Shape

----------------------------------------------------------------------------
(* What the peer sends.                                                    *)

\* A message is made of items, none of them overlong.
LEMMA MessageType ==
  ASSUME NEW m \in MessageSet, NEW s \in Streams \union {0}, NEW hasBody \in BOOLEAN
  PROVE  Message(s, m, hasBody) \in Seq(ItemSet)
<1> DEFINE n == m.n
           a == IF m.interim THEN <<Item("interim", s, 0), Fields(s, "none", 0, FALSE)>> ELSE <<>>
           b == HeadOf(s, m)
           c == IF hasBody THEN Payload(s, m.framing, n) ELSE <<>>
           u == Units(s, n)
           d == <<Size(s, n)>>
           f == <<Crlf(s)>>
           k == <<Size(s, 0), Crlf(s)>>
           nil == <<>>
<1>1. \A p, q \in Seq(ItemSet) : p \o q \in Seq(ItemSet)
  OBVIOUS
<1>2. \A q \in Seq(Plain) : q \in Seq(ItemSet)
  BY DEF Plain
<1>3. b \in Seq(ItemSet) /\ n \in Nat
  BY <1>2, MessageMembers
<1>4. Item("interim", s, 0) \in ItemSet /\ Fields(s, "none", 0, FALSE) \in ItemSet
  BY ItemMembers, FieldsItem DEF ItemTypes, Framings, Plain
<1>5. a \in Seq(ItemSet)
  <2> DEFINE x == Item("interim", s, 0)
             y == Fields(s, "none", 0, FALSE)
  <2>1. x \in ItemSet /\ y \in ItemSet /\ a = IF m.interim THEN <<x, y>> ELSE <<>>
    BY <1>4
  <2> HIDE DEF x, y, a
  <2>2. <<x, y>> \in Seq(ItemSet) /\ <<>> \in Seq(ItemSet)
    BY <2>1
  <2> QED  BY <2>1, <2>2
<1>6. u \in Seq(ItemSet)
  BY <1>2, <1>3, UnitsType
<1>7. Size(s, n) \in ItemSet /\ Size(s, 0) \in ItemSet /\ Crlf(s) \in ItemSet
  BY <1>3, ItemMembers DEF Size, Crlf, ItemTypes
<1>8. d \in Seq(ItemSet) /\ f \in Seq(ItemSet) /\ k \in Seq(ItemSet) /\ nil \in Seq(ItemSet)
  BY <1>7
<1>9. Payload(s, m.framing, n) = IF m.framing = "chunked"
                                 THEN (IF n > 0 THEN (d \o u) \o f ELSE nil) \o k ELSE u
  BY DEF Payload
<1>10. c = IF hasBody THEN Payload(s, m.framing, n) ELSE nil
  OBVIOUS
<1>11. Message(s, m, hasBody) = (a \o b) \o c
  BY DEF Message, HeadOf
<1> HIDE DEF a, b, c, d, f, k, u, n, nil
<1>12. (d \o u) \o f \in Seq(ItemSet)
  BY <1>1, <1>6, <1>8
<1>13. Payload(s, m.framing, n) \in Seq(ItemSet)
  BY <1>1, <1>6, <1>8, <1>9, <1>12
<1>14. c \in Seq(ItemSet) /\ a \o b \in Seq(ItemSet)
  BY <1>1, <1>3, <1>5, <1>8, <1>10, <1>13
<1> QED  BY <1>1, <1>11, <1>14

\* The request that the peer answers next is that of the exchange in flight.
LEMMA NextAnswer ==
  ASSUME NEW e, NEW r, NEW o \in Seq(ItemSet), NEW m \in Nat, e.pending_out \in Seq(ItemSet),
         AnsweredOK(e, r, o, m), NEW i \in Starts(o), Cardinality(Starts(o) \intersect 1 .. i) = m + 1
  PROVE  /\ e.active_stream # 0 /\ e.state = "start_line" /\ r = <<>>
         /\ LastRequest(Written(e, o), e.active_stream, e.streams[e.active_stream].bodyless)
         /\ m + 1 = Cardinality(Starts(Written(e, o)))
         /\ o[i].stream = e.active_stream /\ o[i].bodyless = e.streams[e.active_stream].bodyless
<1> DEFINE p == e.pending_out
           q == o \o p
           low == Starts(o) \intersect 1 .. i
<1>1. /\ Starts(o) \subseteq Starts(q) /\ \A j \in Starts(o) : q[j] = o[j]
      /\ q \in Seq(ItemSet)
  BY StartsConcat, ConcatElements
<1>2. IsFiniteSet(Starts(q)) /\ Cardinality(Starts(q)) \in Nat /\ Starts(q) \subseteq Nat
  <2>1. Starts(q) = {j \in 1 .. Len(q) : q[j].type = "start"}
    BY <1>1, StartsFinite
  <2>2. IsFiniteSet(Starts(q)) /\ Cardinality(Starts(q)) \in Nat
    BY <1>1, StartsFinite
  <2> HIDE DEF q
  <2> QED  BY <2>1, <2>2
<1>3. Written(e, o) = q
  BY DEF Written
<1>4. /\ e.active_stream = 0 => m = Cardinality(Starts(q))
      /\ e.active_stream # 0 =>
           /\ LastRequest(q, e.active_stream, e.streams[e.active_stream].bodyless)
           /\ \/ m = Cardinality(Starts(q))
              \/ m + 1 = Cardinality(Starts(q)) /\ r = <<>> /\ e.state = "start_line"
  BY DEF AnsweredOK
<1> HIDE DEF p, q
<1>5. low \subseteq Starts(q) /\ IsFiniteSet(low) /\ Cardinality(low) <= Cardinality(Starts(q))
  BY <1>1, <1>2, FS_Subset
<1>6. m # Cardinality(Starts(q))
  BY <1>2, <1>5
<1>7. e.active_stream # 0 /\ m + 1 = Cardinality(Starts(q)) /\ r = <<>> /\ e.state = "start_line"
  BY <1>4, <1>6
<1>8. low = Starts(q)
  BY <1>1, <1>2, <1>5, <1>7, FS_Subset
<1>9. PICK j \in Starts(q) : /\ q[j].stream = e.active_stream
                             /\ q[j].bodyless = e.streams[e.active_stream].bodyless
                             /\ \A k \in Starts(q) : k <= j
  BY <1>4, <1>7 DEF LastRequest
<1>10. i = j
  <2>1. i <= j /\ j \in 1 .. i
    BY <1>1, <1>8, <1>9
  <2> QED  BY <1>1, <1>2, <2>1
<1> QED  BY <1>1, <1>3, <1>4, <1>7, <1>9, <1>10

\* What the peer says next, when the engine still listens.
LEMMA WireGrows ==
  ASSUME NEW e, NEW r \in Seq(ItemSet), NEW o, NEW h, NEW m, NEW l, EInv(e, r, o, h, m, l),
         NEW q \in Seq(ItemSet), NEW n, NEW k, e.state # "done" => WireOK(e, r \o q, o, n, k)
  PROVE  EInv(e, r \o q, o, h, n, k)
<1>1. WireOK(e, r \o q, o, n, k)
  BY DEF WireOK
<1> QED  BY <1>1 DEF EInv

\* The i-th item is the request behind the first m.
Answers(o, i, m) == i \in Starts(o) /\ Cardinality(Starts(o) \intersect 1 .. i) = m + 1

Answer(o, i, w) == Message(o[i].stream, w, ~(o[i].bodyless \/ w.bodyless))

\* A response without a length is the last.
Ends(o, i, w, k) == k \/ w.framing # "none" \/ o[i].bodyless \/ w.bodyless

\* The peer of a client answers the exchange in flight.
LEMMA PeerRespondsInv ==
  ASSUME NEW e, NEW r \in Seq(ItemSet), NEW o \in Seq(ItemSet), NEW h, NEW m \in Nat,
         EInv(e, r, o, h, m, FALSE), e.role = "client",
         NEW i, Answers(o, i, m),
         NEW w \in Responses, NEW k \in BOOLEAN, Ends(o, i, w, k), NEW n, n = m + 1
  PROVE  EInv(e, r \o Answer(o, i, w), o, h, n, k) /\ Answer(o, i, w) \in Seq(ItemSet)
<1> DEFINE hasBody == ~(o[i].bodyless \/ w.bodyless)
           s == o[i].stream
           q == Message(s, w, hasBody)
           b == e.streams[e.active_stream].bodyless
<1>0. /\ hasBody \in BOOLEAN /\ (hasBody <=> ~(o[i].bodyless \/ w.bodyless)) /\ q = Answer(o, i, w)
      /\ hasBody = ~(o[i].bodyless \/ w.bodyless)
      /\ k \/ w.framing # "none" \/ ~hasBody
  BY DEF Answer, Ends
<1> HIDE DEF hasBody
<1>1. s \in Streams \union {0}
  <2>1. o[i] \in ItemSet
    BY StartsFinite DEF Answers
  <2> QED  BY <2>1 DEF ItemSet
<1>2. w \in MessageSet
  BY MessagesAssumption
<1>3. q \in Seq(ItemSet)
  BY <1>0, <1>1, <1>2, MessageType
<1>4. e \in EngineSet /\ e.pending_out \in Seq(ItemSet) /\ ModesOK(e)
  BY EngineMembers DEF EInv, Shape
<1>5. ASSUME e.state # "done" PROVE WireOK(e, r \o q, o, m + 1, k)
  <2>1. AnsweredOK(e, r, o, m)
    BY <1>5 DEF EInv, WireOK
  <2>2. /\ e.active_stream # 0 /\ e.state = "start_line" /\ r = <<>>
        /\ LastRequest(Written(e, o), e.active_stream, b)
        /\ m + 1 = Cardinality(Starts(Written(e, o)))
        /\ s = e.active_stream /\ o[i].bodyless = b
    BY <1>4, <2>1, NextAnswer DEF Answers
  <2>3. s \in Streams /\ b \in BOOLEAN
    <3>1. s \in Streams
      BY <1>1, <2>2
    <3> QED  BY <1>4, <2>2, <3>1, StreamMembers
  <2>4. e.input = <<>>
    BY <1>4, <2>2 DEF ModesOK, ClientModes
  <2>5. e.input \o (r \o q) = q
    <3>1. r \o q = q
      BY <1>3, <2>2, ConcatEmptySeq
    <3> QED  BY <1>3, <2>4, <3>1, ConcatEmptySeq
  <2>6. Config(e) = At("start_line", 0, s, b)
    <3>1. NoBody(e) <=> b
      BY <2>2 DEF NoBody
    <3>2. NoBody(e) = b
      BY <2>3, <3>1 DEF NoBody
    <3>3. Remaining(e) = 0
      BY <2>2 DEF Remaining, InBody
    <3> QED  BY <2>2, <3>2, <3>3 DEF Config
  <2>7. /\ q \in Seq(Plain)
        /\ \E d \in Configs : /\ Run("client", At("start_line", 0, s, b), q, d)
                              /\ d = Idle \/ d = Lost \/ (w.framing = "none" /\ hasBody)
    BY <1>0, <2>2, <2>3, RunResponse
  <2>8. \A d \in Configs : d = Idle \/ d = Lost \/ (w.framing = "none" /\ hasBody)
                             => EndOK("client", d, m + 1, k)
    BY <1>0 DEF EndOK, Idle, Lost, At
  <2>9. AnsweredOK(e, q, o, m + 1)
    BY <2>2 DEF AnsweredOK, Written
  <2>10. r \o q = q
    BY <1>3, <2>2, ConcatEmptySeq
  <2> HIDE DEF q, b, s
  <2>11. \E d \in Configs : Run("client", Config(e), e.input \o (r \o q), d) /\ EndOK("client", d, m + 1, k)
    BY <2>5, <2>6, <2>7, <2>8
  <2> QED  BY <2>7, <2>9, <2>10, <2>11 DEF WireOK
<1> HIDE DEF q
<1>6. EInv(e, r \o q, o, h, m + 1, k)
  BY <1>3, <1>5, WireGrows
<1> QED  BY <1>0, <1>3, <1>6

\* The peer of a server sends its next request behind the others.
LEMMA PeerRequestsInv ==
  ASSUME NEW e, NEW r \in Seq(ItemSet), NEW o, NEW h, NEW m \in Nat, NEW l,
         EInv(e, r, o, h, m, l), e.role = "server", 2 * m + 1 \in Streams,
         NEW w \in Requests, NEW k \in BOOLEAN
  PROVE  /\ EInv(e, r \o Message(2 * m + 1, w, TRUE), o, h, m + 1, k)
         /\ Message(2 * m + 1, w, TRUE) \in Seq(ItemSet)
<1> DEFINE s == 2 * m + 1
           q == Message(s, w, TRUE)
           a == e.input
<1>1. s \in Streams /\ 2 * (m + 1) + 1 = s + 2
  OBVIOUS
<1>2. e \in EngineSet /\ a \in Seq(ItemSet)
  BY EngineMembers DEF EInv, Shape
<1> HIDE DEF s, a
<1>3. /\ q \in Seq(ItemSet)
      /\ \E d \in Configs : /\ Run("server", At("start_line", 0, s, FALSE), q, d)
                            /\ d = Lost \/ d = At("start_line", 0, s + 2, FALSE)
  <2>1. \A p \in Seq(Plain) : p \in Seq(ItemSet)
    BY DEF Plain
  <2> QED  BY <1>1, <2>1, RunRequest
<1> HIDE DEF q
<1>4. ASSUME e.state # "done" PROVE WireOK(e, r \o q, o, m + 1, k)
  <2>1. PICK c \in Configs : Run("server", Config(e), a \o r, c) /\ EndOK("server", c, m, l)
    BY <1>4 DEF EInv, WireOK, a
  <2>2. c = Lost \/ c = At("start_line", 0, s, FALSE)
    BY <2>1 DEF EndOK, s
  <2>3. PICK d \in Configs : Run("server", c, q, d) /\ (d = Lost \/ d = At("start_line", 0, s + 2, FALSE))
    <3>1. Run("server", Lost, q, Lost) /\ Lost \in Configs
      BY <1>3, RunLost, ConfigTypes
    <3> QED  BY <1>3, <2>2, <3>1
  <2>4. a \o r \in Seq(ItemSet)
    BY <1>2, ConcatElements
  <2>5. Run("server", Config(e), (a \o r) \o q, d)
    BY <1>3, <2>1, <2>3, <2>4, RunConcat
  <2>6. (a \o r) \o q = a \o (r \o q)
    BY SMTT(20), <1>2, <1>3, ConcatAssociative
  <2>7. EndOK("server", d, m + 1, k)
    BY <1>1, <2>3 DEF EndOK
  <2> QED  BY <2>5, <2>6, <2>7 DEF WireOK, a
<1>5. EInv(e, r \o q, o, h, m + 1, k)
  BY <1>3, <1>4, WireGrows
<1> QED  BY <1>3, <1>5 DEF q, s

\* A line that cannot be parsed is the last that is heard of the peer.
LEMMA PeerFailsInv ==
  ASSUME NEW e, NEW r \in Seq(ItemSet), NEW o, NEW h, NEW m \in Nat, NEW l, EInv(e, r, o, h, m, l), ~l
  PROVE  /\ EInv(e, Append(r, Item("overlong", 0, 0)), o, h, m + 1, TRUE)
         /\ Append(r, Item("overlong", 0, 0)) \in Seq(ItemSet)
<1> DEFINE x == Item("overlong", 0, 0)
           q == <<x>>
           a == e.input
<1>1. x \in ItemSet /\ x.type = "overlong"
  <2>1. "overlong" \in ItemTypes /\ 0 \in Streams \union {0} /\ 0 \in Nat
    BY DEF ItemTypes
  <2> QED  BY SMTT(20), <2>1, ItemMembers
<1> HIDE DEF x
<1>2. q \in Seq(ItemSet) /\ Append(r, x) = r \o q /\ Append(r, x) \in Seq(ItemSet)
  BY <1>1
<1>3. e \in EngineSet /\ a \in Seq(ItemSet) /\ e.role \in {"client", "server"}
  BY EngineMembers DEF EInv, Shape, Roles_
<1>4. ASSUME e.state # "done" PROVE WireOK(e, r \o q, o, m + 1, TRUE)
  <2>1. PICK c \in Configs : Run(e.role, Config(e), a \o r, c) /\ EndOK(e.role, c, m, l)
    BY <1>4 DEF EInv, WireOK
  <2>2. c.mode \in {"idle", "lost", "start_line"}
    BY <1>3, <2>1 DEF EndOK, Lost, At
  <2>3. Step(e.role, c, x, Lost)
    BY <1>1, <2>2 DEF Step
  <2>4. Run(e.role, c, q, Lost) /\ Lost \in Configs
    BY <2>3, RunStep, ConfigTypes
  <2> HIDE DEF q, a
  <2>5. a \o r \in Seq(ItemSet)
    BY <1>3, ConcatElements
  <2>6. Run(e.role, Config(e), (a \o r) \o q, Lost)
    BY <1>2, <2>1, <2>4, <2>5, RunConcat
  <2>7. (a \o r) \o q = a \o (r \o q)
    BY <1>2, <1>3, ConcatAssociative
  <2>8. EndOK(e.role, Lost, m + 1, TRUE)
    BY DEF EndOK
  <2> QED  BY <2>4, <2>6, <2>7, <2>8 DEF WireOK, a
<1> HIDE DEF q
<1>5. EInv(e, r \o q, o, h, m + 1, TRUE)
  BY <1>2, <1>4, WireGrows
<1> QED  BY <1>2, <1>5 DEF x

----------------------------------------------------------------------------
(* The invariant.                                                          *)

\* A new engine, before its first call.
LEMMA InitInv ==
  Init => IInv
<1> SUFFICES ASSUME Init PROVE IInv
  OBVIOUS
<1> DEFINE nil == <<>>
           u == [s \in Streams |-> Absent]
<1>1. PICK role \in Roles, cb \in BOOLEAN : engine = NewEngine(role, cb)
  BY DEF Init
<1>2. role \in {"client", "server"}
  BY RoleAssumption
<1>3. u \in [Streams -> StreamSet]
  BY DEF Absent, StreamSet
<1>4. Absent.present = FALSE /\ Absent.head = <<>> /\ Absent.body_staged = <<>>
      /\ Absent.request_body_done = FALSE
  BY DEF Absent
<1>5. nil \in Seq(ItemSet) /\ nil \in Seq(Streams) /\ nil \in Seq(EventSet) /\ nil \in Seq(Plain)
      /\ Len(nil) = 0 /\ nil \o nil = nil /\ nil = <<>>
  OBVIOUS
<1>6. engine = [role |-> role, state |-> "start_line", input |-> nil, pending_out |-> nil,
                output_ready_cb |-> cb, had_output |-> FALSE, streams |-> u, stream_order |-> nil,
                next_stream_id |-> 1, active_stream |-> 0, bodyless |-> FALSE, body_remaining |-> 0,
                connection_done |-> FALSE, goaway_sent |-> FALSE, eof_seen |-> FALSE,
                event_queue |-> nil]
  BY <1>1 DEF NewEngine
<1>7. \A s \in Streams : u[s] = Absent
  OBVIOUS
<1> HIDE DEF nil, u
<1>8. /\ engine \in EngineSet /\ engine.role = role /\ engine.state = "start_line"
      /\ engine.input = nil /\ engine.pending_out = nil /\ engine.streams = u
      /\ engine.stream_order = nil /\ engine.next_stream_id = 1 /\ engine.active_stream = 0
      /\ engine.connection_done = FALSE /\ engine.goaway_sent = FALSE /\ engine.event_queue = nil
  BY <1>2, <1>3, <1>5, <1>6 DEF EngineSet, ParseStates
<1>9. wire = nil /\ messages = 0 /\ last = FALSE /\ sent = nil
  BY <1>5 DEF Init
<1>10. \A s \in Streams : ~Opened(engine, s)
  BY <1>4, <1>7, <1>8 DEF Opened
<1>11. ListsOK(engine)
  BY <1>5, <1>8, <1>10 DEF ListsOK
<1>12. ModesOK(engine)
  BY <1>5, <1>8, <1>10 DEF ModesOK, ClientModes, ServerModes, InBody
<1>13. HeadsOK(engine)
  BY <1>4, <1>5, <1>7, <1>8 DEF HeadsOK, HeadOK, StagedOK
<1>14. OutputOK(engine, sent)
  BY <1>5, <1>8, <1>9, <1>10 DEF OutputOK, InOrder, Below
<1>15. QueueOK(engine, heard)
  BY <1>5, <1>8 DEF QueueOK
<1>16. HeardOK(engine, heard)
  <2>1. \A s \in Streams \union {0} : heard[s] = "nothing"
    BY DEF Init
  <2>2. \A s \in Streams \union {0} : Latest(heard, engine, s, "nothing")
    BY <1>5, <1>8, <2>1 DEF Latest, Before
  <2> QED  BY <1>8, <2>2 DEF HeardOK
<1>17. WireOK(engine, wire, sent, messages, last)
  <2>1. engine.input \o wire = nil /\ sent \o engine.pending_out = nil
    BY <1>5, <1>8, <1>9
  <2>2. Starts(nil) = {}
    BY <1>5 DEF Starts
  <2>3. Cardinality({}) = 0
    BY FS_EmptySet
  <2>4. CASE role = "client"
    <3>1. Config(engine) = Idle
      BY <1>8, <2>4 DEF Config
    <3>2. EndOK("client", Idle, messages, last)
      BY DEF EndOK, Idle, At
    <3>3. Run("client", Idle, nil, Idle) /\ Idle \in Configs
      BY <1>5, RunNothing, ConfigTypes
    <3>4. AnsweredOK(engine, wire, sent, messages)
      BY <1>8, <1>9, <2>1, <2>2, <2>3 DEF AnsweredOK
    <3> QED  BY <1>5, <1>8, <1>9, <2>1, <2>4, <3>1, <3>2, <3>3, <3>4 DEF WireOK
  <2>5. CASE role = "server"
    <3> DEFINE c == At("start_line", 0, 1, FALSE)
    <3>1. Config(engine) = c
      BY <1>8, <2>5 DEF Config
    <3>2. EndOK("server", c, messages, last)
      <4>1. 2 * messages + 1 = 1
        BY <1>9
      <4> QED  BY <4>1 DEF EndOK
    <3>3. Run("server", c, nil, c) /\ c \in Configs
      <4>1. c \in Configs
        BY ConfigTypes DEF Modes, ParseStates
      <4> HIDE DEF c
      <4> QED  BY <1>5, <4>1, RunNothing
    <3> HIDE DEF c
    <3> QED  BY <1>8, <2>1, <2>5, <3>1, <3>2, <3>3 DEF WireOK
  <2> QED  BY <1>2, <2>4, <2>5
<1>18. EInv(engine, wire, sent, heard, messages, last)
  BY <1>8, <1>11, <1>12, <1>13, <1>14, <1>15, <1>16, <1>17 DEF EInv, Shape
<1>19. /\ heard \in [Streams \union {0} -> Kinds]
       /\ local \in [Streams -> {"none", "open", "length", "chunked", "done"}]
       /\ accepted \in [Streams -> Nat]
  BY DEF Init, Kinds
<1> QED  BY <1>5, <1>9, <1>18, <1>19 DEF IInv

\* What the application and the peer may say.
LEMMA MessageFields ==
  ASSUME NEW m \in Requests \union Responses
  PROVE  /\ m \in MessageSet /\ m.bodyless \in BOOLEAN /\ m.length \in {-1} \union Nat
         /\ m.end \in BOOLEAN /\ m.close \in BOOLEAN /\ m.framing \in Framings
<1>1. m \in MessageSet
  BY MessagesAssumption
<1> QED  BY <1>1 DEF MessageSet

\* The calls of the application.
LEMMA AppInv ==
  ASSUME IInv, Application
  PROVE  IInv'
<1> DEFINE phases == {"none", "open", "length", "chunked", "done"}
<1>1. /\ EInv(engine, wire, sent, heard, messages, last)
      /\ wire \in Seq(ItemSet) /\ sent \in Seq(ItemSet)
      /\ heard \in [Streams \union {0} -> Kinds]
      /\ messages \in Nat /\ last \in BOOLEAN
      /\ local \in [Streams -> phases]
      /\ accepted \in [Streams -> Nat]
  BY DEF IInv
<1>2. \A end \in BOOLEAN : \A length : AfterHeaders(end, length) \in phases
  BY DEF AfterHeaders
<1>3. CASE Open
  <2>1. EInv(OpenStream(engine), wire, sent, heard, messages, last)
    BY <1>1, <1>3, OpenInv DEF Open
  <2>2. local' \in [Streams -> phases]
    BY <1>1, <1>3 DEF Open
  <2> QED  BY <1>1, <1>3, <2>1, <2>2 DEF Open, IInv
<1>4. ASSUME NEW s \in Streams, NEW m \in Requests, SendRequest(s, m) PROVE IInv'
  <2>1. /\ m.bodyless \in BOOLEAN /\ m.length \in {-1} \union Nat /\ m.end \in BOOLEAN
        /\ m.close \in BOOLEAN
    BY MessageFields
  <2>2. EInv(SendRequestHeaders(engine, s, m.bodyless, m.length, m.close, m.end),
             wire, sent, heard, messages, last)
    BY <1>1, <2>1, SendRequestInv
  <2>3. local' \in [Streams -> phases]
    BY <1>1, <1>2, <1>4, <2>1 DEF SendRequest
  <2> QED  BY <1>1, <1>4, <2>2, <2>3 DEF SendRequest, IInv
<1>5. ASSUME NEW s \in Streams, NEW m \in Responses, SendResponse(s, m) PROVE IInv'
  <2>1. /\ m.bodyless \in BOOLEAN /\ m.length \in {-1} \union Nat /\ m.end \in BOOLEAN
        /\ m.close \in BOOLEAN
    BY MessageFields
  <2>2. EInv(SendResponseHeaders(engine, s, m.bodyless, m.length, m.close, m.end),
             wire, sent, heard, messages, last)
    BY <1>1, <1>5, <2>1, SendResponseInv DEF SendResponse
  <2>3. local' \in [Streams -> phases]
    BY <1>1, <1>2, <1>5, <2>1 DEF SendResponse
  <2> QED  BY <1>1, <1>5, <2>2, <2>3 DEF SendResponse, IInv
<1>6. ASSUME NEW s \in Streams, NEW n \in 0 .. BodyMax, NEW end \in BOOLEAN, SendBody(s, n, end)
      PROVE  IInv'
  <2>1. n \in Nat
    BY BodyAssumption
  <2>2. EInv(SendData(engine, s, n, end), wire, sent, heard, messages, last)
    BY <1>1, <2>1, SendDataInv
  <2>3. Accepted(engine, s, n) \in Nat
    BY <2>1 DEF Accepted
  <2>4. accepted' \in [Streams -> Nat]
    BY <1>1, <1>6, <2>3 DEF SendBody
  <2>5. local' \in [Streams -> phases]
    BY <1>1, <1>6 DEF SendBody
  <2>6. engine' = SendData(engine, s, n, end) /\ UNCHANGED <<wire, messages, last, sent, heard>>
    BY <1>6 DEF SendBody
  <2> QED  BY <1>1, <2>2, <2>4, <2>5, <2>6 DEF IInv
<1>7. CASE DrainEvent
  <2>1. /\ EInv(NextEvent(engine), wire, sent, heard', messages, last)
        /\ heard' \in [Streams \union {0} -> Kinds]
    BY <1>1, <1>7, DrainInv DEF DrainEvent
  <2> QED  BY <1>1, <1>7, <2>1 DEF DrainEvent, IInv
<1> QED  BY <1>3, <1>4, <1>5, <1>6, <1>7 DEF Application

\* The transport delivers what the peer sent and takes what was written.
LEMMA TransportInv ==
  ASSUME IInv, Transport
  PROVE  IInv'
<1>1. /\ EInv(engine, wire, sent, heard, messages, last)
      /\ wire \in Seq(ItemSet) /\ sent \in Seq(ItemSet)
      /\ messages \in Nat /\ last \in BOOLEAN
  BY DEF IInv
<1>2. ASSUME NEW k \in 1 .. Len(engine.pending_out), Transmit(k) PROVE IInv'
  <2>1. EInv(OutputEnd(engine, k), wire, sent', heard, messages, last) /\ sent' \in Seq(ItemSet)
    BY <1>1, <1>2, TransmitInv DEF Transmit
  <2> QED  BY <1>1, <1>2, <2>1 DEF Transmit, IInv
<1>3. CASE Receive
  <2>1. wire # <<>> /\ wire' = Tail(wire) /\ engine' = InputEnd(engine, <<Head(wire)>>)
    BY <1>3 DEF Receive
  <2>2. EInv(engine', wire', sent, heard, messages, last)
    BY <1>1, <2>1, ReceiveInv
  <2>3. wire' \in Seq(ItemSet)
    BY <1>1, <2>1
  <2> QED  BY <1>1, <1>3, <2>2, <2>3 DEF Receive, IInv
<1>4. CASE HangUp
  <2>1. EInv(Eof(engine), wire', sent, heard, messages, last')
    BY <1>1, <1>4, EofInv DEF HangUp
  <2>2. wire' \in Seq(ItemSet) /\ last' \in BOOLEAN
    BY <1>4 DEF HangUp
  <2> QED  BY <1>1, <1>4, <2>1, <2>2 DEF HangUp, IInv
<1> QED  BY <1>2, <1>3, <1>4 DEF Transport

\* The peer sends, breaks a line, or hangs up.
LEMMA PeerInv ==
  ASSUME IInv, Peer
  PROVE  IInv'
<1>1. /\ EInv(engine, wire, sent, heard, messages, last)
      /\ wire \in Seq(ItemSet) /\ sent \in Seq(ItemSet)
      /\ messages \in Nat /\ last \in BOOLEAN
  BY DEF IInv
<1>2. \A p, q \in Seq(ItemSet) : p \o q \in Seq(ItemSet)
  OBVIOUS
<1>3. messages + 1 \in Nat
  BY <1>1
<1>4. ASSUME NEW m \in Responses, PeerResponds(m) PROVE IInv'
  <2>1. PICK i \in Seen(messages + 1) :
          LET hasBody == ~(sent[i].bodyless \/ m.bodyless)
          IN PeerSends(Message(sent[i].stream, m, hasBody), m.close \/ (m.framing = "none" /\ hasBody))
    BY <1>4 DEF PeerResponds
  <2> DEFINE q == Answer(sent, i, m)
             k == m.close \/ (m.framing = "none" /\ ~(sent[i].bodyless \/ m.bodyless))
             n == messages + 1
  <2>2. PeerSends(q, k)
    BY <2>1 DEF Answer
  <2>3. Answers(sent, i, messages)
    BY DEF Seen, Answers
  <2>4. k \in BOOLEAN /\ Ends(sent, i, m, k)
    BY MessageFields DEF Ends
  <2>5. last = FALSE /\ engine.role = "client" /\ n = messages + 1
    BY <1>1, <1>4, <2>2 DEF PeerSends, PeerResponds
  <2>6. EInv(engine, wire, sent, heard, messages, FALSE)
    BY <1>1, <2>5
  <2> HIDE DEF k, n
  <2>7. EInv(engine, wire \o q, sent, heard, n, k) /\ q \in Seq(ItemSet)
    BY ZenonT(60), <1>1, <2>3, <2>4, <2>5, <2>6, PeerRespondsInv
  <2> HIDE DEF q
  <2>8. wire \o q \in Seq(ItemSet)
    BY <1>1, <1>2, <2>7
  <2> QED  BY <1>1, <1>3, <2>2, <2>4, <2>5, <2>7, <2>8 DEF PeerSends, IInv
<1>5. ASSUME NEW m \in Requests, PeerRequests(m) PROVE IInv'
  <2> DEFINE q == Message(2 * messages + 1, m, TRUE)
  <2>1. engine.role = "server" /\ 2 * messages + 1 \in Streams /\ PeerSends(q, m.close)
    BY <1>5 DEF PeerRequests
  <2>2. m.close \in BOOLEAN
    BY MessageFields
  <2>3. EInv(engine, wire \o q, sent, heard, messages + 1, m.close) /\ q \in Seq(ItemSet)
    BY <1>1, <2>1, <2>2, PeerRequestsInv
  <2> HIDE DEF q
  <2>4. wire \o q \in Seq(ItemSet)
    BY <1>1, <1>2, <2>3
  <2> QED  BY <1>1, <1>3, <2>1, <2>2, <2>3, <2>4 DEF PeerSends, IInv
<1>6. CASE PeerFails
  <2>1. /\ EInv(engine, wire', sent, heard, messages + 1, TRUE)
        /\ wire' \in Seq(ItemSet)
    BY <1>1, <1>6, PeerFailsInv DEF PeerFails
  <2> QED  BY <1>1, <1>3, <1>6, <2>1 DEF PeerFails, IInv
<1> QED  BY <1>4, <1>5, <1>6 DEF Peer

\* Every step keeps the invariant.
LEMMA NextInv ==
  IInv /\ [Next]_vars => IInv'
<1>1. ASSUME IInv, UNCHANGED vars PROVE IInv'
  BY <1>1 DEF IInv, vars
<1> QED  BY <1>1, AppInv, TransportInv, PeerInv DEF Next

\* The invariant holds in every state.
LEMMA Invariance ==
  Spec => []IInv
<1> QED  BY InitInv, NextInv, PTL DEF Spec

----------------------------------------------------------------------------
(* What the engine promises.                                               *)

\* Type correctness: streams_ and stream_order_ hold the same streams, and
\* active_stream_ is one of them or 0.
THEOREM TypeCorrect ==
  Spec => []TypeOK
<1>1. IInv => TypeOK
  <2> SUFFICES ASSUME IInv PROVE TypeOK
    OBVIOUS
  <2>1. /\ engine \in EngineSet /\ ListsOK(engine)
        /\ local \in [Streams -> {"none", "open", "length", "chunked", "done"}]
    BY DEF IInv, EInv, Shape
  <2>2. \A s \in Streams : Contains(engine.stream_order, s)
                             <=> \E i \in 1 .. Len(engine.stream_order) : engine.stream_order[i] = s
    <3>1. engine.stream_order \in Seq(Streams)
      BY <2>1, EngineMembers
    <3> QED  BY <3>1 DEF Contains
  <2> QED  BY <2>1, <2>2, EngineMembers DEF TypeOK, ListsOK, Opened
<1> QED  BY <1>1, Invariance, PTL

\* Every event is reported on the stream of the message that it is about,
\* pipelined or answered early.
THEOREM AnswersAreMatched ==
  Spec => []AnswersMatch
<1>1. IInv => AnswersMatch
  <2> SUFFICES ASSUME IInv PROVE AnswersMatch
    OBVIOUS
  <2>1. engine \in EngineSet /\ QueueOK(engine, heard)
    BY DEF IInv, EInv, Shape
  <2>2. DOMAIN engine.event_queue = 1 .. Len(engine.event_queue)
    BY <2>1, EngineMembers
  <2> QED  BY <2>1, <2>2 DEF QueueOK, AnswersMatch
<1> QED  BY <1>1, Invariance, PTL

\* A server parses one request at a time, waits for the response, and has then
\* parsed what was pipelined behind the request (engine::complete_response).
THEOREM RequestsOneAtATime ==
  Spec => []OneRequestAtATime
<1>1. IInv => OneRequestAtATime
  <2> SUFFICES ASSUME IInv, engine.role = "server" PROVE OneRequestAtATime
    BY DEF OneRequestAtATime
  <2>1. ListsOK(engine) /\ ModesOK(engine) /\ engine \in EngineSet
    BY DEF IInv, EInv, Shape
  <2>2. \A s, t \in Streams : Opened(engine, s) /\ Opened(engine, t) => s = t
    BY <2>1 DEF ModesOK, ServerModes
  <2>3. engine.input # <<>> /\ ~engine.connection_done =>
          engine.active_stream # 0 /\ Opened(engine, engine.active_stream)
    BY <2>1 DEF ListsOK, ModesOK, ServerModes
  <2>4. engine.active_stream \in Streams \union {0}
    BY <2>1 DEF EngineSet
  <2> QED  BY <2>2, <2>3, <2>4 DEF OneRequestAtATime, Opened
<1> QED  BY <1>1, Invariance, PTL

\* Requests are written in the order they were opened, responses in the order
\* of the requests, and nothing of a message after the start of a later one.
THEOREM WrittenInOrder ==
  Spec => []InOrderOnTheWire
<1>1. IInv => InOrderOnTheWire
  <2> SUFFICES ASSUME IInv PROVE InOrderOnTheWire
    OBVIOUS
  <2>1. engine \in EngineSet /\ OutputOK(engine, sent) /\ sent \in Seq(ItemSet)
    BY DEF IInv, EInv, Shape
  <2>2. Output \in Seq(ItemSet)
    BY <2>1, EngineMembers, ConcatElements DEF Output
  <2>3. InOrder(Output)
    BY <2>1 DEF OutputOK, Output
  <2>4. DOMAIN Output = 1 .. Len(Output)
    BY <2>2
  <2> QED  BY <2>3, <2>4 DEF InOrder, InOrderOnTheWire
<1> QED  BY <1>1, Invariance, PTL

\* A stream's events are drained in order, and nothing follows its stream_closed.
THEOREM EventsAreInOrder ==
  Spec => EventsInOrder
<1> DEFINE ok == engine.event_queue # <<>> =>
                   LET e == Head(engine.event_queue) IN Follows(e.type, heard[e.stream])
<1>1. IInv => ok
  <2> SUFFICES ASSUME IInv, engine.event_queue # <<>>
               PROVE  Follows(Head(engine.event_queue).type, heard[Head(engine.event_queue).stream])
    OBVIOUS
  <2> DEFINE q == engine.event_queue
             ev == q[1]
  <2>1. engine \in EngineSet /\ QueueOK(engine, heard) /\ q \in Seq(EventSet)
    BY EngineMembers DEF IInv, EInv, Shape
  <2>2. 1 \in 1 .. Len(q) /\ Head(q) = ev /\ ev \in EventSet
    BY <2>1
  <2>3. PICK t \in Kinds : Before(heard, q, 1, ev.stream, t) /\ MayFollow(engine.role, ev.type, t)
    BY <2>1, <2>2 DEF QueueOK
  <2>4. heard[ev.stream] = t
    <3>1. \A j \in 1 .. 1 - 1 : FALSE
      OBVIOUS
    <3> QED  BY <2>3, <3>1 DEF Before
  <2> HIDE DEF ev, q
  <2>5. ev.type \in EventTypes
    BY <2>2 DEF EventSet
  <2>6. Follows(ev.type, t)
    BY <2>3, <2>5 DEF MayFollow, Follows, EventTypes
  <2> QED  BY <2>2, <2>4, <2>6 DEF q
<1>2. ok => (engine.event_queue # <<>> /\ engine'.event_queue = Tail(engine.event_queue) =>
               LET e == Head(engine.event_queue) IN Follows(e.type, heard[e.stream]))
  OBVIOUS
<1> QED  BY <1>1, <1>2, Invariance, PTL DEF EventsInOrder

----------------------------------------------------------------------------
(* Silence, when the connection is done.                                   *)

\* The calls say nothing but goaway, and those of a client write nothing.
Quiet(e, f) ==
  /\ f.event_queue = e.event_queue \/ f.event_queue = Append(e.event_queue, Event("goaway", 0, 0))
  /\ e.role = "client" => f.pending_out = e.pending_out

\* An engine that wrote, or staged.
Wrote(e, u, p, b) == [e EXCEPT !.streams = u, !.pending_out = p, !.had_output = b]

\* What such an engine has in common with the one before.
LEMMA WroteFields ==
  ASSUME NEW e \in EngineSet, NEW u, NEW p, NEW b
  PROVE  /\ Wrote(e, u, p, b).event_queue = e.event_queue
         /\ Wrote(e, u, p, b).pending_out = p
         /\ Wrote(e, u, p, b).role = e.role
         /\ Wrote(e, u, p, b).connection_done = e.connection_done
         /\ Wrote(e, u, p, b).streams = u
  BY DEF Wrote, EngineSet

\* A response that is complete closes a connection that is done, again.
LEMMA QuietResponse ==
  ASSUME NEW e \in EngineSet, e.role = "server", e.connection_done, NEW u, NEW p, NEW b, NEW s
  PROVE  Quiet(e, CompleteResponse(Wrote(e, u, p, b), s))
<1> DEFINE w == Wrote(e, u, p, b)
           v == [w.streams EXCEPT ![s] = Absent]
           q == RemoveFirst(w.stream_order, s)
           a == IF w.active_stream = s THEN 0 ELSE w.active_stream
           x == [Erase(w, s) EXCEPT !.active_stream = 0]
           y == [x EXCEPT !.connection_done = TRUE, !.state = "done", !.active_stream = 0,
                          !.goaway_sent = TRUE]
           ev == Event("goaway", 0, 0)
<1>1. w = [e EXCEPT !.streams = u, !.pending_out = p, !.had_output = b] /\ w.connection_done = e.connection_done
  <2>1. w = [e EXCEPT !.streams = u, !.pending_out = p, !.had_output = b]
    BY DEF Wrote
  <2>2. w.connection_done = e.connection_done
    BY WroteFields
  <2> QED  BY <2>1, <2>2
<1>2. CompleteResponse(w, s) = MarkConnectionDone(x)
  <2> HIDE DEF w
  <2> QED  BY <1>1 DEF CompleteResponse
<1>3. MarkConnectionDone(x) = IF x.goaway_sent THEN y ELSE Emit(y, ev)
  <2> HIDE DEF x
  <2> QED  BY DEF MarkConnectionDone
<1>4. x = [e EXCEPT !.streams = v, !.pending_out = p, !.had_output = b, !.stream_order = q,
                    !.active_stream = 0]
  <2>1. Erase(w, s) = [w EXCEPT !.streams = v, !.stream_order = q, !.active_stream = a]
    <3>1. w.streams = u
      BY WroteFields
    <3> HIDE DEF w
    <3> QED  BY DEF Erase
  <2> HIDE DEF w, v, q, a
  <2> QED  BY <1>1, <2>1 DEF EngineSet
<1> HIDE DEF v, q, x
<1>5. y = [e EXCEPT !.streams = v, !.pending_out = p, !.had_output = b, !.stream_order = q,
                    !.connection_done = TRUE, !.state = "done", !.active_stream = 0,
                    !.goaway_sent = TRUE]
  BY <1>4 DEF EngineSet
<1> HIDE DEF y
<1>6. y.event_queue = e.event_queue /\ Emit(y, ev).event_queue = Append(e.event_queue, ev)
  BY <1>5 DEF EngineSet, Emit
<1> QED  BY <1>2, <1>3, <1>6 DEF Quiet

\* A response after the end says nothing but goaway.
LEMMA QuietSendResponse ==
  ASSUME NEW e \in EngineSet, e.role = "server", e.connection_done, NEW s \in Streams, NEW bodyless,
         NEW length, NEW close, NEW end
  PROVE  Quiet(e, SendResponseHeaders(e, s, bodyless, length, close, end))
<1> DEFINE info == e.streams[s]
           closes == info.close_after \/ close
           no_body == info.bodyless \/ bodyless
           framing == IF no_body /\ length < 0 THEN "none" ELSE SendFraming(length, end)
           head == <<Start(s, bodyless), Fields(s, framing, IF length >= 0 THEN length ELSE 0, closes)>>
           w == [info EXCEPT !.close_after = closes, !.no_body = no_body,
                             !.chunked = @ \/ framing = "chunked", !.head_sent = TRUE]
           a == AppendPending(e, head)
           g == [a EXCEPT !.streams[s] = w]
           u == [e.streams EXCEPT ![s] = w]
           p == e.pending_out \o head
           b == e.had_output \/ e.output_ready_cb
           f == Wrote(e, u, p, b)
<1>1. SendResponseHeaders(e, s, bodyless, length, close, end) =
        IF ~info.present \/ info.head_sent THEN e ELSE IF end THEN CompleteResponse(g, s) ELSE g
  BY DEF SendResponseHeaders
<1> HIDE DEF head, w
<1>2. g = f
  <2>1. a = [e EXCEPT !.pending_out = p, !.had_output = b]
    BY DEF AppendPending, EngineSet
  <2> HIDE DEF p, b, a
  <2> QED  BY <2>1 DEF Wrote, EngineSet
<1> HIDE DEF g, u, p, b
<1>3. Quiet(e, CompleteResponse(f, s))
  BY QuietResponse
<1>4. Quiet(e, f) /\ Quiet(e, e)
  BY WroteFields DEF Quiet
<1> HIDE DEF f, info
<1> QED  BY <1>1, <1>2, <1>3, <1>4

\* Nor does a body, and a client does not write it.
LEMMA QuietSendData ==
  ASSUME NEW e \in EngineSet, e.connection_done, e.active_stream = 0, NEW s \in Streams, NEW n, NEW end
  PROVE  Quiet(e, SendData(e, s, n, end))
<1> DEFINE framed == Framed(e, s, n, end)
           z == e.streams[s]
           staged == [e EXCEPT !.streams[s].body_staged = @ \o framed]
           w == IF z.no_body THEN e ELSE staged
           g == [w EXCEPT !.streams[s].request_complete = end]
           u == [e.streams EXCEPT ![s].body_staged = @ \o framed]
           v == IF z.no_body THEN e.streams ELSE u
           f == Wrote(e, v, e.pending_out, e.had_output)
           x == [v EXCEPT ![s].request_complete = end]
           k == Wrote(e, x, e.pending_out, e.had_output)
<1>1. SendData(e, s, n, end) =
        IF Refuses(e, s) THEN e
        ELSE IF end /\ e.role = "server" THEN CompleteResponse(w, s) ELSE g
  <2>1. e.active_stream # s
    BY ConfigTypes
  <2> QED  BY <2>1 DEF SendData
<1> HIDE DEF framed
<1>2. w = f
  <2>1. staged = [e EXCEPT !.streams = u]
    BY DEF EngineSet
  <2> HIDE DEF staged, u
  <2> QED  BY <2>1 DEF Wrote, EngineSet
<1>3. g = k
  <2> HIDE DEF w, v
  <2> QED  BY <1>2 DEF Wrote, EngineSet
<1> HIDE DEF w, g, v, x
<1>4. Quiet(e, f) /\ Quiet(e, k) /\ Quiet(e, e)
  BY WroteFields DEF Quiet
<1>5. e.role = "server" => Quiet(e, CompleteResponse(f, s))
  BY QuietResponse
<1> HIDE DEF f, k
<1> QED  BY <1>1, <1>2, <1>3, <1>4, <1>5

\* The same of all else that the application or a read may do.
LEMMA QuietCalls ==
  ASSUME NEW e \in EngineSet, e.connection_done, e.state = "done"
  PROVE  /\ Quiet(e, e) /\ Quiet(e, OpenStream(e)) /\ Quiet(e, Eof(e))
         /\ \A s \in Streams : \A m : Quiet(e, SendRequestHeaders(e, s, m.bodyless, m.length, m.close, m.end))
         /\ \A items : e.input \o items \in Seq(ItemSet) => Quiet(e, InputEnd(e, items))
<1>1. Quiet(e, e) /\ Quiet(e, OpenStream(e))
  BY DEF Quiet, OpenStream, EngineSet
<1>2. Quiet(e, Eof(e))
  BY DEF Quiet, Eof, EngineSet
<1>3. ASSUME NEW s \in Streams, NEW m
      PROVE  Quiet(e, SendRequestHeaders(e, s, m.bodyless, m.length, m.close, m.end))
  <2> DEFINE info == e.streams[s]
             framing == SendFraming(m.length, m.end)
             head == <<Start(s, m.bodyless), Fields(s, framing, IF m.length >= 0 THEN m.length ELSE 0, m.close)>>
             w == [info EXCEPT !.bodyless = m.bodyless, !.head = head,
                               !.chunked = @ \/ framing = "chunked",
                               !.close_after = m.close, !.request_complete = @ \/ m.end]
             g == [e EXCEPT !.streams[s] = w]
  <2>1. SendRequestHeaders(e, s, m.bodyless, m.length, m.close, m.end) =
          IF ~info.present \/ info.head_sent THEN e ELSE FlushPending(g)
    BY DEF SendRequestHeaders
  <2> HIDE DEF w, info
  <2>2. g.connection_done /\ g.event_queue = e.event_queue /\ g.pending_out = e.pending_out
    BY DEF EngineSet
  <2> HIDE DEF g
  <2>3. FlushPending(g) = g
    BY <2>2 DEF FlushPending
  <2> QED  BY <1>1, <2>1, <2>2, <2>3 DEF Quiet
<1>4. ASSUME NEW items, e.input \o items \in Seq(ItemSet) PROVE Quiet(e, InputEnd(e, items))
  <2> DEFINE q == e.input \o items
             a == [e EXCEPT !.input = q]
             d == [a EXCEPT !.input = <<>>]
  <2>1. InputEnd(e, items) = ParseAvailable(a)
    BY DEF InputEnd, EngineSet
  <2>2. a.input = q /\ d.state = "done" /\ d.event_queue = e.event_queue /\ d.pending_out = e.pending_out
    BY DEF EngineSet
  <2>3. ParseAvailable(a) = ParseAll(d, a.input)
    BY DEF ParseAvailable, ParseAll
  <2> HIDE DEF a, d, q
  <2>4. ParseAll(d, a.input) = d
    BY <1>4, <2>2, ParseItemsDone DEF q
  <2> QED  BY <2>1, <2>2, <2>3, <2>4 DEF Quiet
<1> QED  BY <1>1, <1>2, <1>3, <1>4

\* When the connection is done no stream is heard of again, and a client puts
\* nothing more on the wire.
THEOREM SilentAfterDone ==
  Spec => SilentWhenDone
<1> DEFINE quiet ==
             /\ \A i \in Len(engine.event_queue) + 1 .. Len(engine'.event_queue) :
                  engine'.event_queue[i].type = "goaway"
             /\ engine.role = "client" => Len(Output') = Len(Output)
<1>1. ASSUME IInv, engine.connection_done, [Next]_vars PROVE quiet
  <2>1. /\ engine \in EngineSet /\ engine.state = "done" /\ engine.active_stream = 0
        /\ EInv(engine, wire, sent, heard, messages, last)
        /\ wire \in Seq(ItemSet) /\ sent \in Seq(ItemSet)
    BY <1>1 DEF IInv, EInv, Shape, ModesOK
  <2>2. engine.event_queue \in Seq(EventSet) /\ engine.input \in Seq(ItemSet)
    BY <2>1, EngineMembers
  <2>3. ASSUME sent' = sent, Quiet(engine, engine') PROVE quiet
    <3> DEFINE q == engine.event_queue
               p == engine'.event_queue
               ev == Event("goaway", 0, 0)
    <3>1. engine.role = "client" => Output' = Output
      BY <2>3 DEF Quiet, Output
    <3>2. ev.type = "goaway"
      BY DEF Event
    <3>3. p = q \/ p = Append(q, ev)
      BY <2>3 DEF Quiet
    <3>4. \A i \in Len(q) + 1 .. Len(p) : p[i].type = "goaway"
      <4> HIDE DEF ev, p, q
      <4>1. Len(q) \in Nat /\ q \in Seq(EventSet)
        BY <2>2 DEF q
      <4>2. CASE p = q
        BY <4>1, <4>2
      <4>3. CASE p = Append(q, ev)
        <5>1. Len(p) = Len(q) + 1 /\ p[Len(q) + 1] = ev
          BY <4>1, <4>3
        <5> QED  BY <3>2, <4>1, <5>1
      <4> QED  BY <3>3, <4>2, <4>3
    <3> QED  BY <3>1, <3>4
  <2>4. CASE UNCHANGED vars
    BY <1>1, <2>1, <2>3, <2>4, QuietCalls DEF vars
  <2>5. CASE Open
    BY <1>1, <2>1, <2>3, <2>5, QuietCalls DEF Open
  <2>6. ASSUME NEW s \in Streams, NEW m \in Requests, SendRequest(s, m) PROVE quiet
    BY <1>1, <2>1, <2>3, <2>6, QuietCalls DEF SendRequest
  <2>7. ASSUME NEW s \in Streams, NEW m \in Responses, SendResponse(s, m) PROVE quiet
    BY <1>1, <2>1, <2>3, <2>7, QuietSendResponse DEF SendResponse
  <2>8. ASSUME NEW s \in Streams, NEW n \in 0 .. BodyMax, NEW end \in BOOLEAN, SendBody(s, n, end)
        PROVE  quiet
    BY <1>1, <2>1, <2>3, <2>8, QuietSendData DEF SendBody
  <2>9. CASE DrainEvent
    <3> DEFINE q == engine.event_queue
               p == engine'.event_queue
    <3>1. engine' = [engine EXCEPT !.event_queue = Tail(q)] /\ q # <<>> /\ sent' = sent
      BY <2>1, <2>9 DEF DrainEvent, NextEvent, EngineSet
    <3>2. p = Tail(q) /\ engine'.pending_out = engine.pending_out
      BY <2>1, <3>1 DEF EngineSet
    <3>3. Output' = Output
      BY <3>1, <3>2 DEF Output
    <3>4. Len(p) = Len(q) - 1 /\ Len(q) \in Nat
      BY <2>2, <3>1, <3>2
    <3> HIDE DEF p, q
    <3>5. \A i \in Len(q) + 1 .. Len(p) : FALSE
      BY <3>4
    <3> QED  BY <3>3, <3>5 DEF p, q
  <2>10. ASSUME NEW k \in 1 .. Len(engine.pending_out), Transmit(k) PROVE quiet
    <3>0. sent' = sent \o SubSeq(engine.pending_out, 1, k)
      BY <2>10 DEF Transmit
    <3>1. Written(OutputEnd(engine, k), sent') = Written(engine, sent)
      BY <2>1, <3>0, TransmitWritten
    <3>2. Output' = Output
      BY <2>10, <3>1 DEF Transmit, Written, Output
    <3>3. engine'.event_queue = engine.event_queue
      BY <2>1, <2>10 DEF Transmit, OutputEnd, EngineSet
    <3>4. \A i \in Len(engine.event_queue) + 1 .. Len(engine.event_queue) : FALSE
      BY <2>2
    <3> QED  BY <3>2, <3>3, <3>4
  <2>11. CASE Receive
    <3>1. engine.input \o <<Head(wire)>> \in Seq(ItemSet)
      <4>1. <<Head(wire)>> \in Seq(ItemSet)
        BY <2>1, <2>11 DEF Receive
      <4> QED  BY <2>2, <4>1, ConcatElements
    <3> QED  BY <1>1, <2>1, <2>3, <2>11, <3>1, QuietCalls DEF Receive
  <2>12. CASE HangUp
    BY <1>1, <2>1, <2>3, <2>12, QuietCalls DEF HangUp
  <2>13. CASE Peer
    <3>1. UNCHANGED <<engine, sent>>
      BY <2>13 DEF Peer, PeerResponds, PeerRequests, PeerFails, PeerSends
    <3> QED  BY <1>1, <2>1, <2>3, <3>1, QuietCalls
  <2> QED  BY <1>1, <2>4, <2>5, <2>6, <2>7, <2>8, <2>9, <2>10, <2>11, <2>12, <2>13
           DEF Next, Application, Transport
<1>2. IInv /\ [Next]_vars => [engine.connection_done => quiet]_vars
  BY <1>1
<1> QED  BY <1>2, Invariance, PTL DEF Spec, SilentWhenDone
=============================================================================
