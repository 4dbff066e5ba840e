----------------------------- MODULE FrameInput -----------------------------
(***************************************************************************)
(* From bytes to frames: engine::input_begin and input_end, the check of   *)
(* the client preface, and the loop of frame_parser::consume.              *)
(*                                                                         *)
(* A byte is its position in what the peer sends, so that the model tells  *)
(* which byte ends up where.  Reads have any size that fits the buffer.    *)
(* The call of input_end is one step, each turn of the parser's loop is    *)
(* another, and sliding the buffer the last; nothing else happens between. *)
(***************************************************************************)
EXTENDS Integers, Sequences

CONSTANTS
  PrefaceSize,    \* preface.size(), 24 in the code
  HeaderSize,     \* 9 in the code
  BufferSize,     \* input_buffer_.size(), 16384 in the code
  Wires           \* what the peers send

ASSUME SizesAssumption ==
  /\ PrefaceSize \in Nat \ {0} /\ HeaderSize \in Nat \ {0}
  /\ BufferSize \in Nat /\ BufferSize >= PrefaceSize

\* waits: SETTINGS, GOAWAY or WINDOW_UPDATE.
FrameKinds == [length : Nat, waits : BOOLEAN]

\* start[k] is the number of bytes before frame k, and the last entry the
\* number of all bytes; a client sends a preface, valid or not.
IsWire(w) ==
  /\ w.server \in BOOLEAN /\ w.valid \in BOOLEAN
  /\ w.frames \in Seq(FrameKinds)
  /\ w.start \in Seq(Nat) /\ Len(w.start) = Len(w.frames) + 1
  /\ w.start[1] = IF w.server THEN PrefaceSize ELSE 0
  /\ \A k \in DOMAIN w.frames : w.start[k + 1] = w.start[k] + HeaderSize + w.frames[k].length

ASSUME WiresAssumption == \A w \in Wires : IsWire(w)

VARIABLES
  wire,                 \* what this peer sends; server is the role of the engine
  received,             \* how many of its bytes were read
  buffer,               \* input_buffer_, up to input_buffered_
  state,                \* state_ of the engine
  running,              \* "no" between calls, "consume" in the loop, "slide" after it
  offset,               \* where consume is in the buffer
  parser,               \* state_ of the frame parser
  header_buffer,        \* header_buffer_, up to header_pos_
  current,              \* the frame current_header_ belongs to, 0 if none
  payload_bytes_read

vars == <<wire, received, buffer, state, running, offset, parser, header_buffer, current,
          payload_bytes_read>>
parserVars == <<offset, parser, header_buffer, current, payload_bytes_read>>

Least(a, b) == IF a <= b THEN a ELSE b

Positions(from, n) == [i \in 1 .. n |-> from + i]
Total == wire.start[Len(wire.start)]
Length(k) == IF k = 0 THEN 0 ELSE wire.frames[k].length

Init ==
  /\ wire \in Wires
  /\ received = 0
  /\ buffer = <<>>
  /\ state = IF wire.server THEN "awaiting_preface" ELSE "ready"
  /\ running = "no"
  /\ offset = 0
  /\ parser = "reading_header"
  /\ header_buffer = <<>>
  /\ current = 0
  /\ payload_bytes_read = 0

----------------------------------------------------------------------------
(* input_end(n): n bytes were written to the space input_begin returned.   *)

Read(n) ==
  /\ running = "no"
  /\ n <= BufferSize - Len(buffer)
  /\ n <= Total - received
  /\ buffer' = buffer \o Positions(received, n)
  /\ received' = received + n
  /\ UNCHANGED wire

\* The preface is not complete yet.
AwaitPreface(n) ==
  /\ Read(n)
  /\ state = "awaiting_preface"
  /\ Len(buffer) + n < PrefaceSize
  /\ UNCHANGED <<state, running, parserVars>>

PrefaceMatches(b) == wire.valid /\ SubSeq(b, 1, PrefaceSize) = Positions(0, PrefaceSize)

\* Mutant: what follows the preface is left for the next read.
AcceptPrefaceOnly(n) ==
  /\ Read(n)
  /\ state = "awaiting_preface"
  /\ Len(buffer) + n >= PrefaceSize
  /\ PrefaceMatches(buffer')
  /\ state' = "ready"
  /\ running' = "slide"
  /\ offset' = PrefaceSize
  /\ UNCHANGED <<parser, header_buffer, current, payload_bytes_read>>

\* What follows the preface in the same read is consumed at once.
AcceptPreface(n) ==
  /\ Read(n)
  /\ state = "awaiting_preface"
  /\ Len(buffer) + n >= PrefaceSize
  /\ PrefaceMatches(buffer')
  /\ state' = "ready"
  /\ running' = "consume"
  /\ offset' = PrefaceSize
  /\ UNCHANGED <<parser, header_buffer, current, payload_bytes_read>>

\* A bad preface stays in the buffer: this and every later call reports a
\* connection_error (H2Core!ReceivePreface).
RejectPreface(n) ==
  /\ Read(n)
  /\ state = "awaiting_preface"
  /\ Len(buffer) + n >= PrefaceSize
  /\ ~PrefaceMatches(buffer')
  /\ UNCHANGED <<state, running, parserVars>>

Consume(n) ==
  /\ Read(n)
  /\ state = "ready"
  /\ running' = "consume"
  /\ UNCHANGED <<state, parserVars>>

----------------------------------------------------------------------------
(* frame_parser::consume, one turn of its loop.                            *)

Available == Len(buffer) - offset

\* The frame whose header these bytes are, 0 if they are no header.
ProcessHeader(bytes) ==
  IF \E k \in DOMAIN wire.frames : bytes = Positions(wire.start[k], HeaderSize)
  THEN CHOOSE k \in DOMAIN wire.frames : bytes = Positions(wire.start[k], HeaderSize)
  ELSE 0

\* Mutant: more than the rest of the header is copied.
ToCopyAll == Available

ToCopy == Least(HeaderSize - Len(header_buffer), Available)

ReadHeader ==
  LET bytes == header_buffer \o SubSeq(buffer, offset + 1, offset + ToCopy)
      frame == ProcessHeader(bytes)
  IN
  /\ running = "consume"
  /\ parser = "reading_header"
  /\ Available > 0
  /\ offset' = offset + ToCopy
  /\ IF Len(bytes) = HeaderSize
     THEN /\ header_buffer' = <<>>
          /\ current' = frame
          /\ payload_bytes_read' = 0
          /\ parser' = IF Length(frame) = 0 THEN "reading_header" ELSE "reading_payload"
     ELSE /\ header_buffer' = bytes
          /\ UNCHANGED <<current, payload_bytes_read, parser>>
  /\ UNCHANGED <<wire, received, buffer, state, running>>

\* Mutant: part of a SETTINGS payload counts as handled.
HandledAtOnce(k, n) == n

\* Mutant: a payload that fills the chunk exactly is taken for a part.
HandledStrictly(k, n) == IF wire.frames[k].waits /\ n <= Length(k) THEN 0 ELSE n

\* What handle_payload_chunk returns for n bytes of frame k.  It returns: the
\* exception of a header block that was cut inside a field, which leaves
\* consume with nothing slid, ends the connection in H2Engine!DecodeThrows.
Handled(k, n) == IF wire.frames[k].waits /\ n < Length(k) THEN 0 ELSE n

ReadPayload ==
  LET to_consume == Least(Length(current) - payload_bytes_read, Available)
      consumed   == Handled(current, to_consume)
      whole      == payload_bytes_read + consumed = Length(current)
  IN
  /\ running = "consume"
  /\ parser = "reading_payload"
  /\ Available > 0
  /\ offset' = offset + consumed
  /\ payload_bytes_read' = payload_bytes_read + consumed
  /\ parser' = IF whole THEN "reading_header" ELSE parser
  /\ running' = IF ~whole /\ consumed < to_consume THEN "slide" ELSE running
  /\ UNCHANGED <<wire, received, buffer, state, header_buffer, current>>

\* Mutant: one byte too few is dropped.
RestWithConsumed == SubSeq(buffer, IF offset = 0 THEN 1 ELSE offset, Len(buffer))

Rest == SubSeq(buffer, offset + 1, Len(buffer))

\* input_end moves what was not consumed to the front and returns.
Slide ==
  /\ running = "slide" \/ (running = "consume" /\ Available = 0)
  /\ buffer' = Rest
  /\ offset' = 0
  /\ running' = "no"
  /\ UNCHANGED <<wire, received, state, parser, header_buffer, current, payload_bytes_read>>

----------------------------------------------------------------------------
InputEnd(n) == AwaitPreface(n) \/ AcceptPreface(n) \/ RejectPreface(n) \/ Consume(n)

Next ==
  \/ \E n \in 1 .. BufferSize : InputEnd(n)
  \/ ReadHeader
  \/ ReadPayload
  \/ Slide

\* The transport reads as long as there is input and space for it.
Spec == Init /\ [][Next]_vars
FairSpec == Spec /\ WF_vars(Next)

----------------------------------------------------------------------------
\* The buffers stay within their arrays and the offset within the buffer.
TypeOK ==
  /\ IsWire(wire)
  /\ received \in 0 .. Total
  /\ buffer \in Seq(Nat) /\ Len(buffer) <= BufferSize
  /\ state \in {"awaiting_preface", "ready"}
  /\ running \in {"no", "consume", "slide"}
  /\ offset \in 0 .. Len(buffer)
  /\ parser \in {"reading_header", "reading_payload"}
  /\ header_buffer \in Seq(Nat) /\ Len(header_buffer) < HeaderSize
  /\ current \in 0 .. Len(wire.frames)
  /\ payload_bytes_read \in 0 .. Length(current)

\* As long as handlers return, the parser and the buffer never get out of step,
\* wherever reads cut the stream and whatever is left over and slid: no byte is
\* lost, repeated or reordered, and the next byte of the buffer is the one the
\* parser's state says comes next.
Expected ==
  IF parser = "reading_payload"
  THEN wire.start[current] + HeaderSize + payload_bytes_read
  ELSE wire.start[current + 1] + Len(header_buffer)

Synchronised ==
  /\ buffer = Positions(received - Len(buffer), Len(buffer))
  /\ state = "ready" => received - Len(buffer) + offset = Expected

\* input_end leaves nothing behind that it could have handled: only an
\* incomplete or refused preface, or part of the payload of a frame that
\* waits.  So the buffer is full between calls, and input_begin empty, only
\* if the peer sent garbage or a waiting frame longer than the buffer.
OnlyPartialFramesWait ==
  running = "no" /\ buffer # <<>> =>
    \/ state = "awaiting_preface" /\ (Len(buffer) < PrefaceSize \/ ~wire.valid)
    \/ /\ parser = "reading_payload"
       /\ wire.frames[current].waits /\ payload_bytes_read = 0
       /\ Len(buffer) < Length(current)

\* Whatever a peer sends that can be read is handled to the last byte: no
\* read size makes input_end wait for input that does not fit.  The largest
\* payload that can wait fills the buffer exactly.
Readable == wire.valid /\ \A k \in DOMAIN wire.frames : wire.frames[k].waits => Length(k) <= BufferSize

AllHandled == current = Len(wire.frames) /\ payload_bytes_read = Length(current) /\ received = Total

EverythingHandled == Readable ~> AllHandled

\* The handlers see the peer's frames as FrameReader promises.
Reader ==
  INSTANCE FrameReader WITH
    Peers   <- {w.frames : w \in Wires},
    frames  <- wire.frames,
    handled <- payload_bytes_read

ImplementsFrameReader == Reader!Spec
=============================================================================
