# A verification project for the sans-I/O HTTP library

The library under `src/` implements HTTP/1.1 and HTTP/2 without sockets or threads: an
*engine* is given bytes (`input_begin`/`input_end`), hands out bytes
(`output_begin`/`output_end`), is called by the application (`open_stream`, `send_*`) and
queues events that the application drains (`next_event`). Above the engines are the contexts
that keep the streams and a coroutine adapter; below them a frame parser and HPACK. This
directory models these parts in TLA+, checks them with TLC on small instances, and proves the
safety properties with TLAPS for every window size, frame size, table size, input and peer.

Because no call blocks and nothing runs in parallel, a call is one atomic step. What is hard
is everything *between* calls: the order in which input, output, application calls and event
draining interleave, where a read cuts a frame, and what two engines believe about each other
while frames are on their way.

## 1. Inventory

| Component | State | Operations | Model |
|---|---|---|---|
| HTTP/2 engine `v2/engine.{h,cpp}` | connection state, `pending_out_`, `had_output_`, event queue, connection and per-stream windows in both directions, consumed counters, settings | the `protocol_engine` calls and one handler per frame type | `H2Core`, `H2Engine` |
| HTTP/2 connection | two engines, frames on the way, applications | transport and coroutine adapter loops | `H2Link`, `Exchange` |
| HTTP/1.1 engine `v1/engine.{h,cpp}` | parser state, `streams_`, `stream_order_`, `active_stream_`, output, `connection_done_` | the same calls, `eof`, a line/body parser | `V1Core`, `V1Engine` |
| Frame parser, frame encoders `v2/frame*.cpp`, input buffer | 16 KB buffer, header buffer, bytes of payload read | `input_begin`, `input_end`, `consume`, `encode_*` | `FrameInput`, `FrameReader` |
| Stream and context `stream.cpp`, `context_base.cpp`, `client_context.cpp`, `server_context.cpp` | stream state, map of streams | forward to the engine, follow its events | `Context` |
| Coroutine adapter `adapters/coro.h` | registry of awaiters, body offset, suspended coroutines | `execute`, `pump`, `dispatch`, `co_await` | `Context`; its send loop also in `H2Link` |
| HPACK `v2/hpack*.cpp` | two dynamic tables and their size counters | `encode`, `decode`, eviction, size update, prefix integers | `Hpack` |
| SSE parser `sse.cpp` | line state, current event, pending CR | `parse`, `reset` | `Sse`, `EventStream` |
| headers, URI, error codes | - | containers and tables | not modelled |

**HTTP/2 engine.** A stream's flow state (`known`, send and receive window, consumed bytes)
is created on first use with the initial windows of the moment and erased when a DATA frame
with END_STREAM arrives. `send_data` takes at most what both the connection and the stream
window allow; a WINDOW_UPDATE or SETTINGS that opens a window queues `stream_window_available`.
Received DATA reduces two windows and is credited back with a WINDOW_UPDATE when half an
initial window was consumed. Output is announced by a callback on the transition from empty to
non-empty. *Correct means*: never send more than was granted; never lose credit; never leave
the peer, the application or the transport waiting for something that already happened; tell
the application about a stream once, first, and in order.

**HTTP/1.1 engine.** Every exchange is a "stream". A client may open and send many requests;
their heads are staged and flushed one at a time in open order. A server parses one request and
waits for its response; the next may already be in the buffer. *Correct means*: every message
is reported on the stream it belongs to, messages go on the wire whole and in order, and a
connection that is done stays silent.

**Stream and context, coroutine adapter.** They follow engine events: the context creates a
stream at `new_stream` and erases it when both ends are closed; the adapter resumes a coroutine
at `stream_closed`/`stream_reset` and sends more body at `stream_window_available`. *Correct
means*: a stream both ends ended is forgotten, every awaiter is resumed exactly once, a handle
never names another stream's exchange.

**Frame parser.** *Correct means*: wherever reads cut the byte stream, as long as the handlers
return, each header is handled
once and each payload whole and in order, and nothing that could be handled stays behind.
**HPACK.** *Correct means*: the decoder's table equals the encoder's after every header block,
both evict what the size limit demands and no more. **SSE.** *Correct means*: the events are
those that the lines mean, wherever the input is cut.

`PROJECT.json` lists under `hazards` what in this code a test would hardly reach, each at its
line and with the properties that watch over it.

## 2. Modules

```
H2Core ---- H2Engine ---- MCH2Engine          one engine against any peer
  |  \          \
  |   \          Context ---- MCContext       streams, contexts, coroutines on an engine
  |     H2Link ---- MCH2Link                  two engines, refines Exchange
FrameInput ---- MCFrameInput                  bytes to frames, refines FrameReader
Hpack ---- MCHpack                            encoder, header blocks, decoder
V1Core ---- V1Engine ---- MCV1Engine          one HTTP/1.1 engine and its peer
Sse ---- MCSse                                characters to events, refines EventStream

H2CoreProofs ---- H2EngineProofs ---- ContextProofs                  (TLAPS)
        \ ------- H2LinkProofs
FrameInputProofs     V1Proofs     HpackProofs     SseProofs
```

* **H2Core** has no variables. An engine is a record with one field per data member; each call
  of `v2::engine` is an operator from an engine to the engine it leaves behind, composed as the
  code composes its functions (`UpdateFlowControl` = `CreditStream(CreditConnection(ReceiveBytes))`).
  Data is abstracted: a payload is its length, a header block has length 2 so that a read can cut
  it, a frame is one record. `Window` stands for 65535 and `MaxFrame` for 16384. The walk over the
  `unordered_map` is a nondeterministic order.
* **H2Engine** drives one engine. `Application` calls it and drains events; `Transport` takes
  any prefix of the output and delivers frames: `ReadFrameHeader`, then `ReadPayload` with the
  whole payload of a SETTINGS, GOAWAY or WINDOW_UPDATE frame (`WaitsForAll`: the handler returns
  0 until it is complete) and any part of any other, which is what `FrameReader` promises. A
  HEADERS frame cut between two fields makes several `headers` events; cut inside one, decode
  throws (`DecodeThrows`), the exception leaves `input_end`, and the connection is given up. A client
  parses frames even before it has written its preface, as `input_end` does. The peer sends any frame of `PeerFrames`; it keeps to the stream
  rules of HTTP/2 (opens before it sends, nothing but credit after its END_STREAM) but may
  overrun the windows it was given. History variables: `credit` (what the peer's frames allow,
  counted as RFC 7540 says), `blocked` (streams whose last `send_data` was cut short),
  `forgotten` (streams whose flow state was erased), `failed` (a connection_error was reported).
* **Exchange** is the abstract promise: per direction and stream, bytes are delivered as
  accepted and `stream_closed` comes once, after the last. **H2Link** joins a client and a
  server engine by an in-order byte stream and shows that it implements Exchange. Its
  applications are the adapter's loop: offer the rest of the body with END_STREAM, wait for
  `stream_window_available`, offer the rest again. `OnWay(x)` is what is left of the frame that
  x's parser is in and the frames it has not seen; `WindowsAgree` adds up what they carry.
  Events are drained before the next frame or chunk is handled (`Ready`), where one `input_end`
  handles all that a read holds; draining calls nothing in the engine, so that only the moment
  at which the application hears of something differs.
* **FrameInput** is the way from bytes to frames: the input buffer, the client preface, the two
  states of `frame_parser`, and the slide of what was not consumed. A byte is its position in
  the peer's stream, so that the model sees a byte lost, repeated or taken for another. Each
  turn of the loop of `consume` is a step. **FrameReader** is the abstract promise to the
  handlers; `FrameInput` implements it.
* **Context** extends `H2Engine` by the application side. A client is a set of coroutines:
  `OpenRequest`, `Execute`, `TrySendRemaining`, `Await`. `Pump` is one turn of
  `request_registry::pump`: `context_base::next_event` observes the event, `Dispatch` hands it
  on. Where dispatch resumes a coroutine or calls `try_send_remaining`, the model keeps a stack
  of calls that have not returned: the resumed coroutine may open and execute other requests
  before `Return` erases the entry. A server takes its handle at the `headers` event and answers
  when it likes.
* **Hpack** joins an encoder's and a decoder's `hpack_context` by the header blocks in flight.
  A representation carries its kind, its integer as the digits that `hpack_buffer::encode`
  writes, and its strings; the decoder gets what each read holds of a block. `LongestFit` is
  what RFC 7541 4.4 makes of an insertion, the reference for eviction by counter.
* **Sse** is the character machine of `sse_parser`; **EventStream** says line by line what a
  stream of events means. `Sse` implements it, with the raw characters of the unfinished line
  and event as history variables.
* **V1Core** has the calls of `v1::engine` the same way. The wire is a sequence of the parser's
  units: start line, rest of a header block, unit of body, chunk-size line, empty line, a line
  that cannot be parsed. Each carries the stream whose message it is part of; the engine never
  reads that name, the properties compare it with the stream the engine reports.
* **V1Engine** drives one engine as client or server: pipelining applications and peers, early
  answers, interim responses, `Expect: 100-continue`, `Connection: close`, every body framing,
  a bad Content-Length, unparsable lines, and a peer that hangs up anywhere.
* The proofs: **H2CoreProofs** about the calls of `H2Core`, **H2EngineProofs** (receive side, then
  send side, wakeups, callback, announcements) about `H2Engine`, **H2LinkProofs** about `H2Link` and
  its refinement of `Exchange`, **ContextProofs**, **FrameInputProofs**, **V1Proofs**, **HpackProofs**
  and **SseProofs** about the module each names.

Operators whose comment begins with "Mutant:" are plausible bugs; nothing uses them. They show
that a property can fail: each replaces the definition it imitates and the property it is
paired with in `PROJECT.json` is then violated.

## 3. Runs

Passing runs (distinct states, about, with two workers):

| Run | States | What it shows |
|---|---|---|
| `H2Receive` | 585 000 | One stream, both roles, callback set or not, every frame type, payloads cut anywhere, SETTINGS shrinking and raising windows, `set_initial_window_size`, zero WINDOW_UPDATEs and malformed GOAWAYs. Credit is conserved and the peer never starved until it breaks the protocol; no wakeup is lost; output other than GOAWAY is always announced, once; a stream is announced once and first. |
| `H2Send` | 830 000 | Two streams of a client that share the connection window. The engine never sends more than the peer granted (`NeverOverruns`), and an application that was cut short has its `stream_window_available` in the queue whenever both windows are open (`NoLostWakeup`) - on streams whose flow state was not erased by END_STREAM. |
| `H2Link` | 97 000 | Two engines, two exchanges, both sides with raised windows. The two ends of each window agree up to what is on the way (`WindowsAgree`), the engines never accuse each other, the connection implements `Exchange`, and every exchange that starts completes (`ExchangesComplete`). |
| `FrameInput` | 144 000 | Every sequence of up to three frames, waiting or not, with payloads of nothing, one byte, exactly the buffer and one more, with and without a preface, a bad one too, in reads of every size. Parser and buffer stay in step (`Synchronised`), `input_end` leaves only what must wait (`OnlyPartialFramesWait`), all that fits is handled (`EverythingHandled`), and `FrameReader` is implemented. |
| `Context` | 206 000 | Two requests of a client, or two streams of a server, with early answers, resets and credit. No body in the registry gets stuck (`NoStuckBody`), a request completes when its whole response was dispatched, a coroutine is resumed once and not never, no event of a stream comes before its `new_stream` and no content once `get_stream` has lost it (`EventsFindTheirStream`), the states of handles agree with what was written and returned (`StateMatchesWire`), and streams that ended locally first, or were reset, are forgotten. |
| `Hpack` | 80 000 | Entries of three sizes in tables of several limits, up to two blocks in flight, plain literals, size updates, blocks decoded in pieces. What is in flight takes the decoder to the encoder's table and to the headers that were sent (`TablesAgree`); the counter is the size; insertion keeps what fits; integers survive or are refused. |
| `V1Engine` | 1 430 000 | Two exchanges in either role: messages are attributed to the right stream (`AnswersMatch`), requests and responses are on the wire in order, a server holds one request at a time and, once it has answered, leaves nothing unparsed that was pipelined, events come in order, a finished connection is silent. |
| `Sse` | 1 320 000 | Fifteen lines - every field valid, invalid and without value, comments, unknown fields - whole or cut short, in any order, with every line ending, and resets anywhere: the events are those of `EventStream`. |

Runs that are expected to fail; each is a finding, quoted in `PROJECT.json`:

| Run | Counterexample |
|---|---|
| `H2Overrun` | The peer ends its side while the request body is being sent; the send window is forgotten and starts anew: more is sent than granted. |
| `H2Split` | A read ends inside a DATA frame with END_STREAM: `stream_closed` before the rest of the body. |
| `ContextLeak` | The remote side of a stream ends first: the local end overwrites `half_closed_remote`, and the stream stays in the context's map. |
| `V1Pipelined` | A response before the request body: the next head goes out in the middle of the request. |

**Known divergences without a run of their own.** They were met while modelling and are visible
in the definitions named here; the properties above leave them out.

* `send_goaway` queues output without calling back (`H2Core!SendGoaway`, engine.cpp:528-531);
  `NoStrandedOutput` leaves out GOAWAY.
* A stream that END_STREAM erased from `stream_flow_states_` while the connection window was
  closed is not woken when it opens (`H2Core!WokenByConnection`); `NoLostWakeup` leaves out
  `forgotten` streams, and `NoStuckBody` leaves them out, too.
* An engine enforces a window below the default before the peer can know it (`H2Core!StreamEntry`).
  If half of that window has no room for a frame - below 32767 with the code's numbers - it may
  report flow_control_error to a peer that did nothing wrong; from there on it cannot, as it credits
  what it receives at once (`NeverAccused` in section 4). `H2Link` has windows above the default.
* With bodies in both directions the end of one erases the send window of the other, which starts
  anew (the cause of `H2Overrun`): `WindowsAgree` is then false, and the bodies of the `H2Link` run
  go one way.
* An HTTP/1.1 `send_data` whose head is still staged returns 0 (`V1Core!Refuses`), where
  README.md:224 says it "always accepts the full buffer".
* An HTTP/1.1 `send_data` with nothing to append marks the output as announced
  (`V1Core!AppendPending`), so that the next output is not.
* Integers from 2^31 plus the prefix on are written by `hpack_buffer::encode` and refused by
  `hpack_decode_int` (`Hpack!Accepted`).
* `sse_parser::reset` keeps the pending half of a CR LF pair (`EventStream!Reset`).

**Assumptions of the passing runs that come from the findings.** `NeverOverruns` leaves out
`forgotten` streams; in `H2Link` (`SplitEnd = FALSE`) and `Context` (`Traffic`) no read ends
inside a payload with END_STREAM; `EndsForgotten` is about streams whose local side ended
first. The runs that fail show what happens without each.

**Bounds.** `Window = 2` and `MaxFrame = 2` with bodies of 3: a body exceeds the window, needs
two frames, and ends on and off a frame boundary; half a window is 1, so credit is returned in
lumps that are not the whole window (`LocalSizes = {4}` makes the threshold 2, so that consumed
bytes also accumulate; in `H2Link`, where a window of 3 has a threshold of 1, they never do, and
its proofs cover other sizes). `OutBound` and `EventBound` stop calls and input while that much output
or that many events wait; they bound the queues, not the orders: drains and partial drains
interleave with everything. `WindowBound` caps what the peer grants. Sizes of SETTINGS 1 and 3
around a `Window` of 2 make send windows negative and positive again. Two streams are the least
that share a connection window, or a pipeline; the code treats streams only by identity, and
the proofs hold for any number. Bodies of HTTP/1.1 are one unit: a second unit repeats the same
parser state, and the chunked framing still needs size, data, CRLF and the last chunk.
`FrameInput`: a preface and a header of 3 bytes in a buffer of 4 leave room for less than a
header after a header, and payloads of 0, 1, 4 and 5 are nothing, a part, exactly the buffer and
too much for it. `Hpack`: entries of 1, 2 and 3 in tables of 0, 2, 5 and 7 fit alone, together,
and not at all; indices pass from the static to the dynamic table and beyond a prefix; two
blocks in flight let the encoder be ahead by evictions that the decoder has not made; a digit of
2 bits and a limit on the second one give every boundary of the integer code. `Context`: windows
of 2 and bodies of 3 cut every body, two requests compete for the connection window. `Sse`: three
lines in an event and 15 lines; the number of events is not bounded.
Deadlock checking is off because exchanges end and the systems really stop.

**Fairness.** `H2Link`: weak fairness of the applications (send what is
pending, drain events) and of the transport (deliver what was written). Both are loops of the
program that owns the socket; the library documents them as "drain via has_events()/next_event()"
and "you must drain all output". Opening a stream is not fair: nobody must. Every action moves
an exchange forward and none can be repeated for ever, so weak fairness of the two groups is
enough to reach each action in them. `FrameInput`: weak fairness of `Next`, that is the transport
reads while there is input and space, and calls return. `Context`: weak fairness of `Calling` -
calls return, a coroutine awaits what it executed, the loop drains events - and of the transport
taking output. Nothing is assumed of the peer, which may fall silent.

## 4. Proofs

`H2EngineProofs` proves, for every set of streams, window, frame size, local window, body and
peer (the `ASSUME`s of `H2Core` and `H2Engine` only say that these have the right types):

* `TypeCorrect`: `Spec => []TypeOK`;
* `CreditIsConserved`: `Spec => []CreditConserved` - until a connection_error, receive window
  plus consumed bytes is all that was ever granted, and consumed bytes stay below the threshold;
* `NeverStarved`: `Spec => []PeerNeverStarved` - the peer always has half a window left.

The inductive invariant is `IInv == TypeOK /\ RolesOK /\ SetupOK /\ CreditConserved`
(`Invariance`). `CreditConserved` alone is not inductive: `set_initial_window_size` changes
`initial_window_size_`, to which every stream's credit is compared, so it must be known that no
stream has a flow state and nothing was consumed while it may still be called; that is
`SetupOK`. `RolesOK` ties the role to the connection states it can be in.

`H2CoreProofs` has the facts about the operators: each call returns an engine (type lemmas), the
counters it touches and those it leaves alone; `UpdateFlowControl` preserves `Credited` or queues a
connection_error, and every other call preserves it. `H2EngineProofs` adds that a step is *failed*
exactly when it queues a connection_error, one lemma per action, and `NextIInv`. `NeverStarved` follows from `CreditConserved` by arithmetic: the window is all the
credit minus less than half of it.

The second half of `H2EngineProofs` proves of the same specification the properties about sending,
waking, signalling and announcing:

* `NothingOverruns`: `Spec => NeverOverruns`; `NoWakeupIsLost`: `Spec => []NoLostWakeup`;
* `NoOutputIsStranded`: `Spec => []NoStrandedOutput`; `NoSignalIsStale`: `Spec => []NoStaleSignal`;
* `StreamsAreAnnouncedOnce`: `Spec => []NewStreamOnce`.

The inductive invariant is `SendInv == IInv /\ SendOK`. `NoLostWakeup` and `NeverOverruns` rest on
`CreditOK` - what the engine believes it may send is what the peer granted, on every stream that
was not forgotten - and on `EntriesOK`: a stream in use has an entry in `stream_flow_states_`, so
that the walks which wake streams and move their windows miss none. `NewStreamOnce` rests on
`ClientOK`, `ServerOK` and `FrameOK`: what may be known, queued or on its way of a stream before its
first HEADERS. `Signalled` (output, callback and `had_output_` go together) gives both properties
of the callback. The second half of `H2CoreProofs` says what each call adds to the event queue and
to the output.

`ContextProofs` proves all that the `Context` run checks but liveness, of `AppSpec`: any number of
coroutines, any nesting of `Execute` in a resumed coroutine, any order of events:

* `AppTypeCorrect`, `NoBodyIsStuck`, `CompletedRequestsAreWhole`, `CoroutinesAreResumedOnce`,
  `EventsHaveTheirStream`, `StatesMatchTheWire` (each `AppSpec => []...`);
* `EndedStreamsAreForgotten`: `AppSpec => EndsForgotten`;
* `EngineUnderApplication`: `AppSpec => []SendInv`, the engine's invariant still holds.

The inductive invariant is `AppInv == SendInv /\ ContextOK`, and none of the properties is
inductive alone. `UnsentOK` says why no body is stuck: an unfinished one has its call on the stack,
or its stream is blocked and `try_send_remaining` is stored - and for a blocked stream
`NoLostWakeup` says the rest. `ResumptionsOK` says why no coroutine is resumed twice: one that was
has no entry, unless the call that resumed it has not returned. `QueueOK` (content precedes the
end of its stream), `ReadingOK` (the frame being read is not content of an ended stream) and
`MapOK` (a stream in use that did not end, or with content queued, is in the map or its
`new_stream` is still queued) say that content finds its stream; with `CompletedOK` they give
`CompletedIsWhole`. `MeetingInv` adds what concerns all other events: every stream with a flow
state, a queued event or a frame being read is in the map, was in it until its end was returned, or is
announced by a queued `new_stream` (`MetOK`), and every stream whose end was returned was opened
(`ToldOK`). It gives the rest of `EventsFindTheirStream`, and as it is inductive together with
`StateMatchesWire` it holds of every stream object, whichever side ends first. `BlockAssumption` says
that no header block is empty, as none is that holds a pseudo-header field: an empty one is read
without a handler ever seeing it. The first lemmas say what the handlers of `Traffic` do to the queue and to `ended`.

`FrameInputProofs` proves, for every size of preface, header and buffer (the buffer at least
as large as the preface) and whatever frames a peer sends in reads of any size:

* `TypeCorrect`: `Spec => []TypeOK` - neither buffer is overrun;
* `StaysSynchronised`: `Spec => []Synchronised` - the next byte is the one the parser expects;
* `NothingElseWaits`: `Spec => []OnlyPartialFramesWait`;
* `ReadsFrames`: `Spec => ImplementsFrameReader`, the refinement of the abstract reader.

Its inductive invariant adds `Control` to the three: the loop runs only once the preface was
accepted, before that nothing was consumed, `header_buffer_` holds the first bytes of the next
header, a payload that is being read is not finished, and the loop is left early only for a frame
that waits. The first lemmas are about runs of consecutive bytes (what follows, and what is
part of, a run is a run); `HeaderNamesFrame` shows that a complete header is that of one frame
only, as no two start at the same byte; `FramesApart` says so of all of them, by induction.

`V1Proofs` proves all that the `V1Engine` run checks, for any number of streams, in both roles, for
every application and every peer that frames its messages (`RequestsAssumption` only says that no
interim response announces a request, and that a request without framing has no body):

* `TypeCorrect`, `AnswersAreMatched`, `RequestsOneAtATime`, `WrittenInOrder` (each
  `Spec => []...`);
* `EventsAreInOrder`: `Spec => EventsInOrder`; `SilentAfterDone`: `Spec => SilentWhenDone`.

`AnswersMatch` compares the stream that the parser believes in with the one an item carries, so an
invariant must say that parser and wire agree about where messages begin and end. `Step` is the
grammar of what a peer may send, as an automaton over items; `Config(e)` is the state of it that an
engine's parser is in; `WireOK` says that what the engine holds unparsed, followed by what is on the
wire, is a `Run` of the automaton that starts there. Every message a peer sends prolongs the run
(`RunRequest`, `RunResponse`), every turn of the parser consumes its first step. For a client it
takes `AnsweredOK` besides: while the peer may go on, the active stream is that of the last request
that was written, and the peer has answered all requests before it - which is why a response is
attributed rightly by order alone. `ListsOK` (`streams_` and `stream_order_` hold the same streams,
oldest first), `ModesOK` (what each parse state implies, in either role) and `OutputOK` (what was
written is in order, and of no stream younger than one that is open) give the order on the wire;
`QueueOK` and `HeardOK` (what was last said of a stream, drained or queued) give the order of events.

One read may hold many items: `ParseAvailable` folds `ParseItem` over them. That the fold keeps the
invariant is an induction over the items; as the library's induction theorems cannot be
instantiated by these provers, it is made with sets: `EveryNat` follows from the well-foundedness of `<`, `FoldingExists` builds the
function that the fold chooses, and `ParseItemsInv` walks it.

`HpackProofs` proves all that the `Hpack` run checks, for any headers and sizes of entries, any
static table, any limits of the tables, any prefix masks, base and limit of the integer code, any
number of blocks in flight and of headers in a block:

* `TypeCorrect`, `SizeCounted`, `InsertionKeeps`, `IntegersArrive`, `EndsAgree` (each
  `Spec => []...`).

The assumptions on the constants are those of the code's numbers: an entry has a size of at least
1 (it adds 32), a mask is at least 1 and smaller than two digits, and `SizesAssumption`: an index into
the largest table, or its size, fits the encoder's word and is accepted by the decoder - without it
`TablesAgree` is false, as the integers of section 3 that are written and refused show. The inductive
invariant `IInv` says of the representations in flight that they form a *chain*: contexts
`cs[0] = decoder, cs[1], ...`, the last of them the encoder's, such that each block takes one to the
next and yields the headers it was sent for. `TablesAgree` says so of the whole flight only, which is not
inductive when a read takes a part of a block: `DecodeRep` folded over a part must be known to
arrive at the context from which the rest goes on. That both ends evict alike follows because both
counters are the sums of their entries (`SizeIsCounted`), which is inductive alone. Integers go by
induction on the digits (`Power` is what each of them counts).

`SseProofs` proves, for any alphabet, lines and number of events:

* `TypeCorrect`: `Spec => []TypeOK`;
* `ParserImplementsEventStream`: `Spec => ImplementsEventStream`, the refinement of the abstract
  specification: every character the parser takes is a step of `EventStream` or changes nothing it
  sees.

Its inductive invariant relates the character machine to the characters it has read: `InLine` - state,
name and value of the machine are determined by the unfinished line - and `InEvent` - the current
event's data is the values of the `data` lines read so far, each followed by a line feed, and its type the
value of the last `event` line.

`H2LinkProofs` proves all that the `H2Link` run checks but liveness, for any number of streams, any
bodies, windows and frame size and every schedule in which events are drained before the next frame
or chunk is handled (`BodiesAssumption`: the lengths are those of a
finite set, so that `Exchange` has a largest body):

* `TypeCorrect`: `Spec => []TypeOK`;
* `WindowsStayInStep`: `Spec => []WindowsAgree`, if no exchange has bodies both ways (`HalfDuplex`);
* `NeverAccused`: `Spec => []NoConnectionError`, if half of each window that is set has room for a
  frame (`HalvesHoldFrames`: 16384 <= 65535 - 32767 in the code);
* `ObedientSendersAreSafe`: `Spec => []NoConnectionError` for frames of any size, if `HalfDuplex` and
  no window is below the default (`LargeWindows`);
* `ClosedStreamsAreComplete`: `Spec => []ClosedMeansComplete`, and `LinkImplementsExchange`:
  `Spec => ImplementsExchange`, the refinement, if no read ends inside HEADERS, or DATA with
  END_STREAM (`~SplitEnd`).

Each hypothesis is a finding or a divergence of section 3: the `H2Split` run is the counterexample to
the last two without `~SplitEnd`, bodies both ways are one to the second, windows below two frames one
to the third. All of them hold in the `H2Link` run. The proof is in layers:

1. The lemmas on `FoldLeft`: a sum over a sequence is the sum over its parts, by an induction with sets
   as in `V1Proofs`. They give what is on its way, and what a queue holds, as sums to which every
   call adds or from which a read takes (`DataIn`, `CreditIn`, `BytesIn`).
2. The lemmas named `...Says`, some of them in `H2CoreProofs`: what each call of an engine writes, what
   it reports, which windows it moves. An action is then one of a few kinds of step: `Sends`, `Takes` (an event),
   `HearsHeader`, `HearsData`, `HearsHeaderBlock`, `HearsSettings`, `HearsCredit`.
3. `Base`, the first invariant, holds without any hypothesis: types, roles, which frames may be on
   the way to a side and which events in its queue (`GoodFrame`, `GoodEvent`: END_STREAM only from an
   application that is done, credit only for a body), what cannot have happened before the preface
   was read (`StartOK`), and `NothingLost`: accepted bytes are delivered, queued, or on their way.
4. `Windows` is `WindowsAgree` and that a side keeps its initial send window on a stream on which it
   sends no body. The end of the peer's body erases the entry, send window included: with
   `HalfDuplex` that restores what was there, without it what was spent comes back.
5. `Order`: after a frame with END_STREAM nothing of the stream is on its way, after
   `stream_closed` nothing of it is queued, and once it is closed nothing is left at all. With
   `NothingLost` it gives `ClosedMeansComplete`, and that every `Takes` is a `Deliver`, a `Close` or
   a stutter of `Exchange`, every `Sends` an `Accept`
   or a stutter.
6. `Conserved` (`Credited` of `H2Core`, of both engines) and `Peaceful` (no complaint is queued) need
   each other: credit is conserved until a complaint, and while it is conserved a receive window
   lacks less than half of its size, so that a frame fits and no complaint is made.
7. `Enough`: no send window is overdrawn and every receive window of a stream has room for the DATA on
   its way. With `Windows` it gives the same without a bound on frames.

What TLC alone checks is liveness under fairness: `ExchangesComplete`, `EverythingHandled` and
`AwaiterResumed`, as temporal reasoning with ENABLED is beyond the prover. Every invariant and action
property of a passing run is proved. No module uses RECURSIVE.

## 5. Not modelled, and why

* Payload and path contents, error codes: no property here is about them. In `Hpack` names and
  values are model values; Huffman coding, the lengths of strings and the 61 static entries are
  data, and the limit of 64 KB that `hpack_decode_string` puts on a string is not modelled.
* Frames the engine ignores (PRIORITY, PING, PUSH_PROMISE, CONTINUATION): their handler is empty.
  So a header block without END_HEADERS is never decoded; blocks are whole here.
* The 16 KB input buffer of the HTTP/1.1 engine: a line that fills it is the item "overlong".
* What happens after decode threw: the exception leaves `input_end` with the input not consumed.
  `FrameInput` leaves the throw out: its properties hold as long as handlers return.
* SETTINGS with several INITIAL_WINDOW_SIZE entries, which the code applies one after the other as it
  does those of several frames, and a WINDOW_UPDATE of less than 4 bytes, which it ignores.
* A SETTINGS or GOAWAY longer than the input buffer: nothing consumes it. `OnlyPartialFramesWait` lets
  it wait, `EverythingHandled` is about input that fits.
* The iterator that `dispatch` erases after it resumed a coroutine (coro.h:211): a request registered
  by the coroutine may rehash `entries_` and invalidate it. `Context!EntriesAfter` erases by key.
* Whether an event without data should be dispatched on the id of an earlier one, and what `reset`
  should clear: `EventStream` takes both over from the parser (`IsEvent`, `Reset`). Stripping the line
  feed of empty data is undefined in C++ and is modelled as what the build does, nothing.
* `set_protocol_version` on a context in use, and coroutine frames and lifetimes: the handle that
  `try_send_remaining` captures is taken to live until the response.
* A byte order mark that is cut by the first read: the parser takes it for characters.
* `set_initial_window_size` after the preface or twice: documented by its tests as not allowed.
* 32- and 64-bit overflow: windows are 64-bit and sums of 31-bit increments, out of reach of any
  run of realistic length; counters that could wrap below zero are checked by `TypeOK`.
* A v2 engine whose events are never drained: the queue is unbounded in the code.
* `send_reset` (a no-op in both engines); headers, URI and error-code containers.

## 6. Plan

1. **V1Link**: client and server v1 engines joined; every exchange completes, except where
   framing lets the two disagree. It would take the place of a run of a finding.
