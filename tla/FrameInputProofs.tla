-------------------------- MODULE FrameInputProofs --------------------------
(***************************************************************************)
(* For every buffer, preface and header size and everything a peer sends:  *)
(* the parser and the input buffer stay in step, input_end leaves nothing  *)
(* behind that it could have handled, and FrameReader is implemented.      *)
(***************************************************************************)
EXTENDS FrameInput, SequenceTheorems, WellFoundedInduction, TLAPS

----------------------------------------------------------------------------
(* Runs of consecutive bytes.                                              *)

LEMMA PositionsType ==
  ASSUME NEW from \in Nat, NEW n \in Nat
  PROVE  /\ Positions(from, n) \in Seq(Nat)
         /\ Len(Positions(from, n)) = n
         /\ \A i \in 1 .. n : Positions(from, n)[i] = from + i
<1> DEFINE s == [i \in 1 .. n |-> from + i]
<1>1. s \in [1 .. n -> Nat]
  OBVIOUS
<1>2. s \in Seq(Nat)
  BY <1>1, SeqDef
<1>3. Len(s) = n
  BY <1>1, <1>2, LenProperties
<1> QED  BY <1>2, <1>3 DEF Positions

LEMMA EmptyPositions ==
  ASSUME NEW from \in Nat
  PROVE  Positions(from, 0) = <<>>
<1>1. Positions(from, 0) \in Seq(Nat) /\ Len(Positions(from, 0)) = 0
  BY PositionsType
<1> QED  BY <1>1, EmptySeq

\* A sequence of consecutive bytes is a run.
LEMMA IsPositions ==
  ASSUME NEW from \in Nat, NEW n \in Nat, NEW s \in Seq(Nat), Len(s) = n,
         \A i \in 1 .. n : s[i] = from + i
  PROVE  s = Positions(from, n)
<1>1. /\ Positions(from, n) \in Seq(Nat)
      /\ Len(Positions(from, n)) = n
      /\ \A i \in 1 .. n : Positions(from, n)[i] = from + i
  BY PositionsType
<1>2. \A i \in 1 .. Len(s) : s[i] = Positions(from, n)[i]
  BY <1>1
<1> QED  BY <1>1, <1>2, SeqEqual

\* What is read next continues what is buffered.
LEMMA PositionsConcat ==
  ASSUME NEW from \in Nat, NEW m \in Nat, NEW n \in Nat
  PROVE  Positions(from, m) \o Positions(from + m, n) = Positions(from, m + n)
<1> DEFINE s == Positions(from, m)
           t == Positions(from + m, n)
<1>1. s \in Seq(Nat) /\ Len(s) = m /\ \A i \in 1 .. m : s[i] = from + i
  BY PositionsType
<1>2. from + m \in Nat /\ m + n \in Nat
  OBVIOUS
<1>3. t \in Seq(Nat) /\ Len(t) = n /\ \A i \in 1 .. n : t[i] = from + m + i
  BY <1>2, PositionsType
<1> HIDE DEF s, t
<1>4. /\ s \o t \in Seq(Nat)
      /\ Len(s \o t) = m + n
      /\ \A i \in 1 .. m + n : (s \o t)[i] = IF i <= m THEN s[i] ELSE t[i - m]
  <2>1. s \in Seq(Nat) /\ t \in Seq(Nat)
    BY <1>1, <1>3
  <2>2. /\ s \o t \in Seq(Nat)
        /\ Len(s \o t) = Len(s) + Len(t)
        /\ \A i \in 1 .. Len(s) + Len(t) :
             (s \o t)[i] = IF i <= Len(s) THEN s[i] ELSE t[i - Len(s)]
    BY <2>1, ConcatProperties
  <2> QED  BY <1>1, <1>3, <2>2
<1>5. \A i \in 1 .. m + n : (s \o t)[i] = from + i
  <2> SUFFICES ASSUME NEW i \in 1 .. m + n
               PROVE  (s \o t)[i] = from + i
    OBVIOUS
  <2>1. CASE i <= m
    BY <1>1, <1>4, <2>1
  <2>2. CASE i > m
    <3>1. i - m \in 1 .. n
      BY <2>2
    <3>2. t[i - m] = from + m + (i - m)
      BY <1>3, <3>1
    <3> QED  BY <1>4, <2>2, <3>2
  <2>3. i <= m \/ i > m
    OBVIOUS
  <2> QED  BY <2>1, <2>2, <2>3
<1>6. s \o t = Positions(from, m + n)
  BY <1>2, <1>4, <1>5, IsPositions
<1> QED  BY <1>6 DEF s, t

\* A part of what is buffered is a run, too.
LEMMA PositionsSubSeq ==
  \A from, n, a, b :
    from \in Nat /\ n \in Nat /\ a \in Nat /\ b \in Nat /\ a <= b /\ b <= n
      => SubSeq(Positions(from, n), a + 1, b) = Positions(from + a, b - a)
<1> TAKE from, n, a, b
<1> HAVE from \in Nat /\ n \in Nat /\ a \in Nat /\ b \in Nat /\ a <= b /\ b <= n
<1> DEFINE s == Positions(from, n)
           u == SubSeq(s, a + 1, b)
<1>1. s \in Seq(Nat) /\ Len(s) = n /\ \A i \in 1 .. n : s[i] = from + i
  BY PositionsType
<1> HIDE DEF s
<1>2. from + a \in Nat /\ b - a \in Nat /\ a + 1 \in Int
  OBVIOUS
<1>3. \A i \in a + 1 .. b : s[i] \in Nat
  BY <1>1
<1>4. /\ u \in Seq(Nat)
      /\ Len(u) = IF a + 1 <= b THEN b - (a + 1) + 1 ELSE 0
      /\ \A i \in 1 .. b - (a + 1) + 1 : u[i] = s[a + 1 + i - 1]
  BY <1>2, <1>3, SubSeqProperties
<1> HIDE DEF u
<1>5. Len(u) = b - a /\ \A i \in 1 .. b - a : u[i] = from + a + i
  <2>1. Len(u) = b - a
    BY <1>4
  <2>2. ASSUME NEW i \in 1 .. b - a
        PROVE  u[i] = from + a + i
    <3>1. i \in 1 .. b - (a + 1) + 1 /\ a + 1 + i - 1 = a + i /\ a + i \in 1 .. n
      OBVIOUS
    <3>2. u[i] = s[a + i]
      BY <1>4, <3>1
    <3>3. s[a + i] = from + (a + i)
      BY <1>1, <3>1
    <3> QED  BY <3>2, <3>3
  <2> QED  BY <2>1, <2>2
<1>6. u = Positions(from + a, b - a)
  BY <1>2, <1>4, <1>5, IsPositions
<1>7. SubSeq(s, a + 1, b) = Positions(from + a, b - a)
  BY <1>6 DEF u
<1> QED  BY <1>7 DEF s

\* Its beginning, in particular: the preface.
LEMMA StartOfPositions ==
  ASSUME NEW from \in Nat, NEW n \in Nat, NEW b \in Nat, b <= n
  PROVE  SubSeq(Positions(from, n), 1, b) = Positions(from, b)
<1>1. PICK a \in Nat : a = 0
  OBVIOUS
<1>2. a <= b
  BY <1>1
<1>3. SubSeq(Positions(from, n), a + 1, b) = Positions(from + a, b - a)
  BY <1>2, PositionsSubSeq, Zenon
<1>4. a + 1 = 1 /\ from + a = from /\ b - a = b
  BY <1>1
<1> QED  BY <1>3, <1>4

----------------------------------------------------------------------------
(* The inductive invariant.                                                *)

\* How the parts of the state hang together: the loop runs only once the
\* preface was accepted; before that nothing was consumed; the parser is in a
\* payload that is not finished or in a header, of which it holds a run; and
\* the loop is left early only for a frame that waits.
Control ==
  /\ Len(buffer) <= received
  /\ running # "no" => state = "ready"
  /\ running = "no" => offset = 0
  /\ state = "awaiting_preface" =>
       /\ wire.server /\ received = Len(buffer) /\ current = 0
       /\ parser = "reading_header" /\ header_buffer = <<>>
       /\ Len(buffer) < PrefaceSize \/ ~wire.valid
  /\ parser = "reading_payload" =>
       /\ current > 0 /\ payload_bytes_read < Length(current)
       /\ header_buffer = <<>>
       /\ wire.frames[current].waits => payload_bytes_read = 0
  /\ parser = "reading_header" =>
       /\ payload_bytes_read = Length(current)
       /\ header_buffer = Positions(wire.start[current + 1], Len(header_buffer))
  /\ running = "slide" =>
       /\ parser = "reading_payload" /\ wire.frames[current].waits
       /\ Available < Length(current)

IInv == TypeOK /\ Synchronised /\ Control /\ OnlyPartialFramesWait

----------------------------------------------------------------------------
(* Induction over the natural numbers, by sets.                            *)

\* The least number of a set that is not empty.
LEMMA LeastElement ==
  ASSUME NEW T, T \subseteq Nat, T # {}
  PROVE  \E x \in T : \A y \in T : ~(y < x)
<1> DEFINE R == {ss \in Nat \X Nat : ss[1] < ss[2]}
<1>1. IsWellFoundedOn(R, Nat)
  BY NatLessThanWellFounded DEF OpToRel
<1>2. \E x \in T : \A y \in T : ~(<<y, x>> \in R)
  <2> HIDE DEF R
  <2> QED  BY <1>1, WFMin
<1> QED  BY <1>2

\* A set that has 0 and every successor has every natural number.
LEMMA EveryNat ==
  ASSUME NEW T, 0 \in T, \A n \in Nat : n \in T => n + 1 \in T
  PROVE  Nat \subseteq T
<1> SUFFICES ASSUME Nat \ T # {} PROVE FALSE
  OBVIOUS
<1>1. PICK x \in Nat \ T : \A y \in Nat \ T : ~(y < x)
  BY LeastElement
<1>2. x - 1 \in Nat
  BY <1>1
<1>3. x - 1 \in T
  BY <1>1, <1>2
<1> QED  BY <1>1, <1>2, <1>3

\* Frames lie one behind the other: each starts a header or more behind those
\* before it.
LEMMA FramesApart ==
  ASSUME NEW w, IsWire(w), NEW j \in 1 .. Len(w.start), NEW k \in 1 .. Len(w.start), j < k
  PROVE  w.start[j] + HeaderSize <= w.start[k]
<1> DEFINE start == w.start
           T == {n \in Nat : j + n + 1 \in 1 .. Len(start) =>
                               start[j] + HeaderSize <= start[j + n + 1]}
<1>1. /\ w.frames \in Seq(FrameKinds) /\ start \in Seq(Nat) /\ Len(start) = Len(w.frames) + 1
      /\ Len(w.frames) \in Nat
  BY DEF IsWire
<1>2. ASSUME NEW i \in 1 .. Len(w.frames)
      PROVE  start[i] \in Nat /\ start[i + 1] \in Nat /\ start[i] + HeaderSize <= start[i + 1]
  <2> DEFINE frames == w.frames
  <2>0. frames \in Seq(FrameKinds) /\ i \in 1 .. Len(frames)
    BY <1>1
  <2>1. w.frames[i] \in FrameKinds /\ i \in DOMAIN w.frames
    <3> HIDE DEF frames
    <3>1. frames[i] \in FrameKinds /\ i \in DOMAIN frames
      BY <2>0
    <3> QED  BY <3>1 DEF frames
  <2>2. w.frames[i].length \in Nat
    BY <2>1 DEF FrameKinds
  <2>3. start[i + 1] = start[i] + HeaderSize + w.frames[i].length
    BY <2>1 DEF IsWire
  <2> HIDE DEF start
  <2>4. start[i] \in Nat /\ start[i + 1] \in Nat
    <3>1. i \in 1 .. Len(start) /\ i + 1 \in 1 .. Len(start) /\ start \in Seq(Nat)
      BY <1>1
    <3> QED  BY <3>1
  <2> QED  BY <2>2, <2>3, <2>4, SizesAssumption
<1> HIDE DEF start
<1>3. j \in Nat /\ k \in Nat /\ j >= 1 /\ k <= Len(start) /\ j <= Len(w.frames)
  BY <1>1 DEF start
<1>4. 0 \in T
  BY <1>1, <1>2, <1>3
<1>5. ASSUME NEW n \in Nat, n \in T PROVE n + 1 \in T
  <2> SUFFICES ASSUME j + (n + 1) + 1 \in 1 .. Len(start)
               PROVE  start[j] + HeaderSize <= start[j + (n + 1) + 1]
    OBVIOUS
  <2> DEFINE i == j + n + 1
  <2>1. i \in 1 .. Len(w.frames) /\ i \in 1 .. Len(start) /\ i + 1 = j + (n + 1) + 1
    BY <1>1, <1>3
  <2>2. start[j] + HeaderSize <= start[i]
    BY <1>5, <2>1
  <2> HIDE DEF i
  <2>3. start[i] + HeaderSize <= start[i + 1] /\ start[i] \in Nat /\ start[i + 1] \in Nat
    BY <1>2, <2>1
  <2>4. start[j] \in Nat
    BY <1>2, <1>3
  <2> QED  BY SMTT(30), <2>1, <2>2, <2>3, <2>4, SizesAssumption
<1>6. k - j - 1 \in Nat /\ j + (k - j - 1) + 1 = k
  BY <1>3
<1>7. k - j - 1 \in T
  <2> HIDE DEF T
  <2> QED  BY <1>4, <1>5, <1>6, EveryNat
<1>8. start[j] + HeaderSize <= start[k]
  BY <1>6, <1>7, <1>3 DEF start
<1> QED  BY <1>8 DEF start

\* What a wire says of a frame.
LEMMA WireFacts ==
  ASSUME IsWire(wire), NEW k \in 1 .. Len(wire.frames)
  PROVE  /\ wire.frames[k].length \in Nat /\ wire.frames[k].waits \in BOOLEAN
         /\ k # 0 /\ Length(k) = wire.frames[k].length
         /\ wire.start[k] \in Nat /\ wire.start[k + 1] \in Nat
         /\ wire.start[k + 1] = wire.start[k] + HeaderSize + Length(k)
         /\ wire.start[k + 1] <= Total
<1>1. wire.frames \in Seq(FrameKinds) /\ wire.start \in Seq(Nat)
  BY DEF IsWire
<1>2. Len(wire.start) = Len(wire.frames) + 1 /\ Len(wire.frames) \in Nat
  BY <1>1 DEF IsWire
<1>3. k \in DOMAIN wire.frames /\ k \in DOMAIN wire.start /\ k + 1 \in DOMAIN wire.start
  BY <1>1, <1>2
<1>4. wire.frames[k] \in FrameKinds
  BY <1>1, <1>3
<1>5. wire.frames[k].length \in Nat /\ wire.frames[k].waits \in BOOLEAN
  BY <1>4 DEF FrameKinds
<1>6. wire.start[k] \in Nat /\ wire.start[k + 1] \in Nat
  BY <1>1, <1>3
<1>7. k # 0 /\ Length(k) = wire.frames[k].length
  BY DEF Length
<1>8. wire.start[k + 1] = wire.start[k] + HeaderSize + wire.frames[k].length
  BY <1>3 DEF IsWire
<1>9. wire.start[k + 1] <= Total
  <2>1. Len(wire.start) \in DOMAIN wire.start /\ wire.start[Len(wire.start)] \in Nat
    BY <1>1, <1>2
  <2>2. CASE k + 1 = Len(wire.start)
    BY <2>1, <2>2 DEF Total
  <2>3. CASE k + 1 < Len(wire.start)
    <3>1. k + 1 \in 1 .. Len(wire.start) /\ Len(wire.start) \in 1 .. Len(wire.start)
      BY <1>2
    <3> DEFINE m == Len(wire.start)
               n == k + 1
    <3>2. n \in 1 .. Len(wire.start) /\ m \in 1 .. Len(wire.start) /\ n < m
      BY <2>3, <3>1
    <3> HIDE DEF m, n
    <3>3. wire.start[n] + HeaderSize <= wire.start[m]
      BY <3>2, FramesApart
    <3>4. wire.start[k + 1] + HeaderSize <= wire.start[Len(wire.start)]
      BY <3>3 DEF m, n
    <3> QED  BY <1>6, <2>1, <3>4, SizesAssumption DEF Total
  <2> QED  BY <1>2, <2>2, <2>3
<1> QED  BY <1>5, <1>6, <1>7, <1>8, <1>9

\* The numbers of a state, and where the current frame lies.
LEMMA Facts ==
  ASSUME TypeOK
  PROVE  /\ Len(buffer) \in Nat /\ received \in Nat /\ offset \in Nat /\ Total \in Nat
         /\ Len(buffer) <= BufferSize /\ received <= Total /\ offset <= Len(buffer)
         /\ HeaderSize \in Nat /\ HeaderSize > 0 /\ BufferSize \in Nat /\ PrefaceSize \in Nat
         /\ Len(header_buffer) \in Nat /\ Len(header_buffer) < HeaderSize
         /\ Len(wire.frames) \in Nat /\ current \in Nat /\ current <= Len(wire.frames)
         /\ Length(current) \in Nat
         /\ payload_bytes_read \in Nat /\ payload_bytes_read <= Length(current)
         /\ wire.start[current + 1] \in Nat
         /\ wire.start[current + 1] <= Total
         /\ current = Len(wire.frames) => wire.start[current + 1] = Total
         /\ current > 0 =>
              /\ wire.start[current] \in Nat
              /\ wire.start[current + 1] = wire.start[current] + HeaderSize + Length(current)
<1>1. /\ IsWire(wire)
      /\ wire.frames \in Seq(FrameKinds) /\ wire.start \in Seq(Nat)
      /\ Len(wire.start) = Len(wire.frames) + 1
  BY DEF TypeOK, IsWire
<1>2. Len(wire.frames) \in Nat /\ Len(wire.start) \in DOMAIN wire.start
  BY <1>1
<1>3. current \in 0 .. Len(wire.frames) /\ current \in Nat
  BY <1>2 DEF TypeOK
<1>4. Total \in Nat
  BY <1>1, <1>2 DEF Total
<1>5. /\ Len(buffer) \in Nat /\ received \in Nat /\ offset \in Nat
      /\ Len(buffer) <= BufferSize /\ received <= Total /\ offset <= Len(buffer)
      /\ HeaderSize \in Nat /\ HeaderSize > 0 /\ BufferSize \in Nat /\ PrefaceSize \in Nat
      /\ Len(header_buffer) \in Nat /\ Len(header_buffer) < HeaderSize
  <2>1. Len(buffer) \in Nat /\ Len(header_buffer) \in Nat
    BY DEF TypeOK
  <2> QED  BY <1>4, <2>1, SizesAssumption DEF TypeOK
<1>6. payload_bytes_read \in 0 .. Length(current)
  BY DEF TypeOK
<1>7. CASE current = 0
  <2>1. Length(current) = 0
    BY <1>7 DEF Length
  <2>2. wire.start[1] \in Nat
    BY <1>1, <1>2
  <2>3. wire.start[1] <= Total
    <3>1. CASE Len(wire.frames) = 0
      BY <1>1, <1>4, <3>1 DEF Total
    <3>2. CASE Len(wire.frames) > 0
      <4>1. 1 \in 1 .. Len(wire.frames)
        BY <1>2, <3>2
      <4>2. /\ wire.start[1 + 1] = wire.start[1] + HeaderSize + Length(1)
            /\ wire.start[1 + 1] <= Total /\ wire.start[1 + 1] \in Nat
            /\ Length(1) \in Nat
        BY <1>1, <4>1, WireFacts
      <4> QED  BY <1>4, <2>2, <4>2, SizesAssumption
    <3> QED  BY <1>2, <3>1, <3>2
  <2>4. current = Len(wire.frames) => wire.start[current + 1] = Total
    BY <1>1, <1>7 DEF Total
  <2> QED  BY <1>2, <1>3, <1>4, <1>7, <1>5, <1>6, <2>1, <2>2, <2>3, <2>4
<1>8. CASE current > 0
  <2>1. current \in 1 .. Len(wire.frames)
    BY <1>2, <1>3, <1>8
  <2>2. /\ Length(current) \in Nat
        /\ wire.start[current] \in Nat /\ wire.start[current + 1] \in Nat
        /\ wire.start[current + 1] = wire.start[current] + HeaderSize + Length(current)
        /\ wire.start[current + 1] <= Total
    BY <1>1, <2>1, WireFacts
  <2>3. current = Len(wire.frames) => wire.start[current + 1] = Total
    BY <1>1 DEF Total
  <2> QED  BY <1>2, <1>3, <1>4, <1>5, <1>6, <2>2, <2>3
<1> QED  BY <1>3, <1>7, <1>8

\* A read only adds to the run that is buffered.
LEMMA ReadLemma ==
  ASSUME IInv, NEW n \in Nat, Read(n)
  PROVE  /\ buffer' = Positions(received - Len(buffer), Len(buffer) + n)
         /\ buffer' = Positions(received' - Len(buffer'), Len(buffer'))
         /\ buffer' \in Seq(Nat)
         /\ Len(buffer') = Len(buffer) + n /\ Len(buffer') <= BufferSize
         /\ received' = received + n /\ received' <= Total
         /\ wire' = wire
<1>1. /\ Len(buffer) \in Nat /\ received \in Nat /\ Total \in Nat /\ BufferSize \in Nat
      /\ received <= Total
  BY Facts DEF IInv
<1>2. received - Len(buffer) \in Nat
  BY <1>1 DEF IInv, Control
<1>3. /\ buffer' = buffer \o Positions(received, n) /\ received' = received + n /\ wire' = wire
      /\ n <= BufferSize - Len(buffer) /\ n <= Total - received
  BY DEF Read
<1> DEFINE from == received - Len(buffer)
           m == Len(buffer)
<1>4. buffer = Positions(from, m)
  BY DEF IInv, Synchronised
<1>5. from \in Nat /\ m \in Nat /\ received = from + m
  BY <1>1, <1>2
<1> HIDE DEF from, m
<1>6. Positions(from, m) \o Positions(from + m, n) = Positions(from, m + n)
  BY <1>5, PositionsConcat
<1>7. buffer' = Positions(from, m + n)
  BY <1>3, <1>4, <1>5, <1>6
<1>8. buffer' = Positions(received - Len(buffer), Len(buffer) + n)
  BY <1>7 DEF from, m
<1>9. buffer' \in Seq(Nat) /\ Len(buffer') = Len(buffer) + n
  BY <1>1, <1>2, <1>8, PositionsType
<1>10. received' - Len(buffer') = received - Len(buffer)
  BY <1>1, <1>3, <1>9
<1>11. buffer' = Positions(received' - Len(buffer'), Len(buffer'))
  BY <1>8, <1>9, <1>10
<1>12. Len(buffer') <= BufferSize /\ received' <= Total
  BY <1>1, <1>3, <1>9
<1> QED  BY <1>3, <1>8, <1>9, <1>11, <1>12

----------------------------------------------------------------------------
(* The initial state.                                                      *)

LEMMA InitIInv == Init => IInv
<1> SUFFICES ASSUME Init PROVE IInv
  OBVIOUS
<1>1. IsWire(wire)
  BY WiresAssumption DEF Init
<1>2. /\ received = 0 /\ buffer = <<>> /\ running = "no" /\ offset = 0
      /\ parser = "reading_header" /\ header_buffer = <<>> /\ current = 0
      /\ payload_bytes_read = 0 /\ state = IF wire.server THEN "awaiting_preface" ELSE "ready"
  BY DEF Init
<1>3. <<>> \in Seq(Nat) /\ Len(<<>>) = 0
  OBVIOUS
<1>4. /\ wire.frames \in Seq(FrameKinds) /\ wire.start \in Seq(Nat)
      /\ Len(wire.start) = Len(wire.frames) + 1
      /\ wire.start[1] = IF wire.server THEN PrefaceSize ELSE 0
  BY <1>1 DEF IsWire
<1>5. Len(wire.frames) \in Nat /\ Total \in Nat /\ wire.start[1] \in Nat
  BY <1>4 DEF Total
<1>6. TypeOK
  BY <1>1, <1>2, <1>3, <1>5, SizesAssumption DEF TypeOK, Length
<1>7. \A from \in Nat : Positions(from, 0) = <<>>
  BY EmptyPositions
<1>8. Synchronised
  <2>1. buffer = Positions(received - Len(buffer), Len(buffer))
    BY <1>2, <1>3, <1>7
  <2>2. state = "ready" => received - Len(buffer) + offset = Expected
    BY <1>2, <1>3, <1>4 DEF Expected
  <2> QED  BY <2>1, <2>2 DEF Synchronised
<1>9. Control
  <2>1. header_buffer = Positions(wire.start[current + 1], Len(header_buffer))
    BY <1>2, <1>3, <1>5, <1>7
  <2> QED  BY <1>1, <1>2, <1>3, <2>1, SizesAssumption DEF Control, Length, IsWire
<1>10. OnlyPartialFramesWait
  BY <1>2 DEF OnlyPartialFramesWait
<1> QED  BY <1>6, <1>8, <1>9, <1>10 DEF IInv

----------------------------------------------------------------------------
(* Reading: the preface.                                                   *)

\* The parser is not touched, and nothing was consumed yet.
LEMMA AwaitPrefaceIInv ==
  ASSUME IInv, NEW n \in Nat, AwaitPreface(n)
  PROVE  IInv'
<1>1. /\ buffer' = Positions(received' - Len(buffer'), Len(buffer'))
      /\ buffer' \in Seq(Nat)
      /\ Len(buffer') = Len(buffer) + n /\ Len(buffer') <= BufferSize
      /\ received' = received + n /\ received' <= Total
      /\ wire' = wire
  BY ReadLemma DEF AwaitPreface
<1>2. /\ state = "awaiting_preface" /\ running = "no" /\ Len(buffer) + n < PrefaceSize
      /\ UNCHANGED <<state, running, offset, parser, header_buffer, current, payload_bytes_read>>
  BY DEF AwaitPreface, Read, parserVars
<1>3. /\ Len(buffer) \in Nat /\ received \in Nat /\ offset = 0 /\ TypeOK /\ Control
  BY <1>2, Facts DEF IInv, Control
<1>4. TypeOK'
  BY <1>1, <1>2, <1>3 DEF TypeOK, Total, Length
<1>5. Synchronised'
  BY <1>1, <1>2 DEF Synchronised
<1>6. Control'
  BY <1>1, <1>2, <1>3 DEF Control, Length
<1>7. OnlyPartialFramesWait'
  BY <1>1, <1>2 DEF OnlyPartialFramesWait
<1> QED  BY <1>4, <1>5, <1>6, <1>7 DEF IInv

\* What is refused is not the preface: the peer's is not valid.
LEMMA RejectPrefaceIInv ==
  ASSUME IInv, NEW n \in Nat, RejectPreface(n)
  PROVE  IInv'
<1>1. /\ buffer' = Positions(received - Len(buffer), Len(buffer) + n)
      /\ buffer' = Positions(received' - Len(buffer'), Len(buffer'))
      /\ buffer' \in Seq(Nat)
      /\ Len(buffer') = Len(buffer) + n /\ Len(buffer') <= BufferSize
      /\ received' = received + n /\ received' <= Total
      /\ wire' = wire
  BY ReadLemma DEF RejectPreface
<1>2. /\ state = "awaiting_preface" /\ running = "no" /\ Len(buffer) + n >= PrefaceSize
      /\ ~PrefaceMatches(buffer')
      /\ UNCHANGED <<state, running, offset, parser, header_buffer, current, payload_bytes_read>>
  BY DEF RejectPreface, Read, parserVars
<1>3. /\ Len(buffer) \in Nat /\ received \in Nat /\ offset = 0 /\ TypeOK /\ Control
      /\ received = Len(buffer) /\ PrefaceSize \in Nat
  BY <1>2, Facts DEF IInv, Control
<1>4. ~wire.valid
  <2> DEFINE l == Len(buffer) + n
  <2>1. l \in Nat /\ 0 <= PrefaceSize /\ PrefaceSize <= l /\ received - Len(buffer) = 0
    BY <1>2, <1>3
  <2>2. buffer' = Positions(0, l)
    BY <1>1, <2>1
  <2> HIDE DEF l
  <2>3. SubSeq(Positions(0, l), 1, PrefaceSize) = Positions(0, PrefaceSize)
    BY <1>3, <2>1, StartOfPositions
  <2>6. SubSeq(buffer', 1, PrefaceSize) = Positions(0, PrefaceSize)
    BY <2>2, <2>3
  <2> QED  BY <1>1, <1>2, <2>6 DEF PrefaceMatches
<1>5. TypeOK'
  BY <1>1, <1>2, <1>3 DEF TypeOK, Total, Length
<1>6. Synchronised'
  BY <1>1, <1>2 DEF Synchronised
<1>7. Control'
  BY <1>1, <1>2, <1>3, <1>4 DEF Control, Length
<1>8. OnlyPartialFramesWait'
  BY <1>1, <1>2, <1>4 DEF OnlyPartialFramesWait
<1> QED  BY <1>5, <1>6, <1>7, <1>8 DEF IInv

\* The loop starts right after the preface, where the first header does.
LEMMA AcceptPrefaceIInv ==
  ASSUME IInv, NEW n \in Nat, AcceptPreface(n)
  PROVE  IInv'
<1>1. /\ buffer' = Positions(received' - Len(buffer'), Len(buffer'))
      /\ buffer' \in Seq(Nat)
      /\ Len(buffer') = Len(buffer) + n /\ Len(buffer') <= BufferSize
      /\ received' = received + n /\ received' <= Total
      /\ wire' = wire
  BY ReadLemma DEF AcceptPreface
<1>2. /\ state = "awaiting_preface" /\ Len(buffer) + n >= PrefaceSize
      /\ state' = "ready" /\ running' = "consume" /\ offset' = PrefaceSize
      /\ UNCHANGED <<parser, header_buffer, current, payload_bytes_read>>
  BY DEF AcceptPreface
<1>3. /\ Len(buffer) \in Nat /\ received \in Nat /\ PrefaceSize \in Nat
      /\ TypeOK /\ Control
      /\ received = Len(buffer) /\ wire.server /\ current = 0
      /\ parser = "reading_header" /\ header_buffer = <<>> /\ Len(header_buffer) = 0
  BY <1>2, Facts DEF IInv, Control
<1>4. wire.start[1] = PrefaceSize
  BY <1>3 DEF TypeOK, IsWire
<1>5. TypeOK'
  BY <1>1, <1>2, <1>3 DEF TypeOK, Total, Length
<1>6. Synchronised'
  <2>1. Expected' = PrefaceSize
    BY <1>1, <1>2, <1>3, <1>4 DEF Expected
  <2>2. received' - Len(buffer') + offset' = PrefaceSize
    BY <1>1, <1>2, <1>3
  <2> QED  BY <1>1, <2>1, <2>2 DEF Synchronised
<1>7. Control'
  BY <1>1, <1>2, <1>3 DEF Control, Length
<1>8. OnlyPartialFramesWait'
  BY <1>2 DEF OnlyPartialFramesWait
<1> QED  BY <1>5, <1>6, <1>7, <1>8 DEF IInv

\* The loop starts at the front of the buffer, where the parser stopped.
LEMMA ConsumeIInv ==
  ASSUME IInv, NEW n \in Nat, Consume(n)
  PROVE  IInv'
<1>1. /\ buffer' = Positions(received' - Len(buffer'), Len(buffer'))
      /\ buffer' \in Seq(Nat)
      /\ Len(buffer') = Len(buffer) + n /\ Len(buffer') <= BufferSize
      /\ received' = received + n /\ received' <= Total
      /\ wire' = wire
  BY ReadLemma DEF Consume
<1>2. /\ state = "ready" /\ running = "no" /\ running' = "consume"
      /\ UNCHANGED <<state, offset, parser, header_buffer, current, payload_bytes_read>>
  BY DEF Consume, Read, parserVars
<1>3. /\ Len(buffer) \in Nat /\ received \in Nat /\ offset = 0 /\ TypeOK /\ Control
      /\ received - Len(buffer) + offset = Expected
  BY <1>2, Facts DEF IInv, Control, Synchronised
<1>4. TypeOK'
  BY <1>1, <1>2, <1>3 DEF TypeOK, Total, Length
<1>5. Synchronised'
  <2>1. Expected' = Expected
    BY <1>1, <1>2 DEF Expected
  <2>2. received' - Len(buffer') + offset' = received - Len(buffer) + offset
    BY <1>1, <1>2, <1>3
  <2> QED  BY <1>1, <1>3, <2>1, <2>2 DEF Synchronised
<1>6. Control'
  BY <1>1, <1>2, <1>3 DEF Control, Length
<1>7. OnlyPartialFramesWait'
  BY <1>2 DEF OnlyPartialFramesWait
<1> QED  BY <1>4, <1>5, <1>6, <1>7 DEF IInv

----------------------------------------------------------------------------
(* The loop of consume.                                                    *)

\* Where the loop is: the next byte is the one the parser expects.
LEMMA LoopFacts ==
  ASSUME IInv, running # "no"
  PROVE  /\ TypeOK /\ Control /\ state = "ready"
         /\ received - Len(buffer) \in Nat
         /\ buffer = Positions(received - Len(buffer), Len(buffer))
         /\ received - Len(buffer) + offset = Expected
         /\ Available \in Nat /\ Available = Len(buffer) - offset
<1>1. TypeOK /\ Control /\ Synchronised /\ state = "ready"
  BY DEF IInv, Control
<1>2. /\ Len(buffer) \in Nat /\ received \in Nat /\ offset \in Nat /\ offset <= Len(buffer)
  BY <1>1, Facts
<1>3. received - Len(buffer) \in Nat /\ Available \in Nat
  BY <1>1, <1>2 DEF Control, Available
<1> QED  BY <1>1, <1>3 DEF Synchronised, Available

\* Any part of the buffer is what the peer sent there.
LEMMA PartOfBuffer ==
  ASSUME IInv, running # "no", NEW n \in Nat, offset + n <= Len(buffer)
  PROVE  SubSeq(buffer, offset + 1, offset + n) = Positions(Expected, n)
<1>1. /\ received - Len(buffer) \in Nat
      /\ buffer = Positions(received - Len(buffer), Len(buffer))
      /\ received - Len(buffer) + offset = Expected
  BY LoopFacts
<1>2. offset \in Nat /\ Len(buffer) \in Nat
  BY Facts DEF IInv
<1> DEFINE base == received - Len(buffer)
           l == Len(buffer)
           b == offset + n
<1>3. /\ base \in Nat /\ l \in Nat /\ b \in Nat /\ offset <= b /\ b <= l
      /\ buffer = Positions(base, l) /\ base + offset = Expected /\ b - offset = n
  BY <1>1, <1>2
<1> HIDE DEF base, l, b
<1>4. SubSeq(Positions(base, l), offset + 1, b) = Positions(base + offset, b - offset)
  BY <1>2, <1>3, PositionsSubSeq, Zenon
<1>5. SubSeq(buffer, offset + 1, b) = Positions(Expected, n)
  BY <1>3, <1>4
<1> QED  BY <1>5 DEF b

\* The bytes of a header name the frame that starts there, and no other.
LEMMA HeaderNamesFrame ==
  ASSUME TypeOK, NEW k \in 1 .. Len(wire.frames)
  PROVE  ProcessHeader(Positions(wire.start[k], HeaderSize)) = k
<1>1. /\ IsWire(wire) /\ wire.frames \in Seq(FrameKinds) /\ wire.start \in Seq(Nat)
      /\ Len(wire.start) = Len(wire.frames) + 1
  BY DEF TypeOK, IsWire
<1>2. Len(wire.frames) \in Nat /\ DOMAIN wire.frames = 1 .. Len(wire.frames)
  BY <1>1
<1>3. ASSUME NEW j \in DOMAIN wire.frames,
             Positions(wire.start[k], HeaderSize) = Positions(wire.start[j], HeaderSize)
      PROVE  j = k
  <2> DEFINE m == Len(wire.frames)
             start == wire.start
  <2>1. m \in Nat /\ j \in 1 .. m /\ k \in 1 .. m /\ start \in Seq(Nat) /\ Len(start) = m + 1
    BY <1>1, <1>2
  <2> HIDE DEF m, start
  <2>2. j \in Nat /\ k \in Nat /\ j \in 1 .. Len(start) /\ k \in 1 .. Len(start)
    BY <2>1
  <2>3. DOMAIN start = 1 .. Len(start) /\ start[j] \in Nat /\ start[k] \in Nat
    BY SMTT(30), <2>1, <2>2, ElementOfSeq
  <2>4. /\ j \in Nat /\ k \in Nat /\ j \in DOMAIN wire.start /\ k \in DOMAIN wire.start
        /\ wire.start[j] \in Nat /\ wire.start[k] \in Nat
    BY <2>2, <2>3 DEF start
  <2>5. HeaderSize \in Nat /\ 1 \in 1 .. HeaderSize
    BY SizesAssumption
  <2>6. /\ Positions(wire.start[j], HeaderSize)[1] = wire.start[j] + 1
        /\ Positions(wire.start[k], HeaderSize)[1] = wire.start[k] + 1
    BY <2>4, <2>5, PositionsType
  <2>7. wire.start[j] = wire.start[k]
    BY <1>3, <2>4, <2>6
  <2>8. /\ j < k => wire.start[j] + HeaderSize <= wire.start[k]
        /\ k < j => wire.start[k] + HeaderSize <= wire.start[j]
    BY <1>1, <2>2, <2>4, FramesApart DEF start
  <2>9. ~(j < k) /\ ~(k < j)
    BY <2>4, <2>5, <2>7, <2>8
  <2> QED  BY <2>4, <2>9
<1>4. k \in DOMAIN wire.frames
  BY <1>2
<1> DEFINE bytes == Positions(wire.start[k], HeaderSize)
<1>5. \E j \in DOMAIN wire.frames : bytes = Positions(wire.start[j], HeaderSize)
  BY <1>4
<1> HIDE DEF bytes
<1>6. ProcessHeader(bytes)
        = CHOOSE j \in DOMAIN wire.frames : bytes = Positions(wire.start[j], HeaderSize)
  BY <1>5 DEF ProcessHeader
<1>7. /\ ProcessHeader(bytes) \in DOMAIN wire.frames
      /\ bytes = Positions(wire.start[ProcessHeader(bytes)], HeaderSize)
  BY <1>5, <1>6
<1>8. ProcessHeader(bytes) = k
  BY <1>3, <1>7 DEF bytes
<1> QED  BY <1>8 DEF bytes

\* What a turn of the loop does to a header: it grows by the bytes that come
\* next, and a complete one is that of the frame after the current one.
LEMMA ReadHeaderFacts ==
  ASSUME IInv, ReadHeader
  PROVE  /\ ToCopy \in Nat /\ ToCopy > 0 /\ offset + ToCopy <= Len(buffer)
         /\ Len(header_buffer) + ToCopy <= HeaderSize
         /\ offset' = offset + ToCopy
         /\ UNCHANGED <<wire, received, buffer, state, running>>
         /\ \/ /\ Len(header_buffer) + ToCopy < HeaderSize
               /\ header_buffer'
                    = Positions(wire.start[current + 1], Len(header_buffer) + ToCopy)
               /\ UNCHANGED <<current, payload_bytes_read, parser>>
            \/ /\ Len(header_buffer) + ToCopy = HeaderSize
               /\ current < Len(wire.frames)
               /\ header_buffer' = <<>> /\ current' = current + 1 /\ payload_bytes_read' = 0
               /\ parser' = IF Length(current + 1) = 0 THEN "reading_header"
                                                      ELSE "reading_payload"
<1> DEFINE bytes == header_buffer \o SubSeq(buffer, offset + 1, offset + ToCopy)
           h == Len(header_buffer)
           s == wire.start[current + 1]
<1>1. /\ running = "consume" /\ parser = "reading_header" /\ Available > 0
      /\ offset' = offset + ToCopy
      /\ UNCHANGED <<wire, received, buffer, state, running>>
      /\ IF Len(bytes) = HeaderSize
         THEN /\ header_buffer' = <<>>
              /\ current' = ProcessHeader(bytes)
              /\ payload_bytes_read' = 0
              /\ parser' = IF Length(ProcessHeader(bytes)) = 0 THEN "reading_header"
                                                                ELSE "reading_payload"
         ELSE /\ header_buffer' = bytes
              /\ UNCHANGED <<current, payload_bytes_read, parser>>
  BY DEF ReadHeader
<1>2. /\ TypeOK /\ Control /\ Available \in Nat /\ Available = Len(buffer) - offset
      /\ received - Len(buffer) + offset = Expected
  BY <1>1, LoopFacts
<1>3. /\ h \in Nat /\ h < HeaderSize /\ HeaderSize \in Nat /\ s \in Nat
      /\ offset \in Nat /\ Len(buffer) \in Nat /\ received \in Nat /\ received <= Total
      /\ Total \in Nat /\ current \in Nat /\ Len(wire.frames) \in Nat
      /\ current <= Len(wire.frames)
      /\ current = Len(wire.frames) => s = Total
  BY <1>2, Facts
<1>4. Expected = s + h
  BY <1>1 DEF Expected
<1>5. header_buffer = Positions(s, h)
  BY <1>1, <1>2 DEF Control
<1> HIDE DEF h, s
<1>6. HeaderSize - h \in Nat /\ HeaderSize - h > 0
  BY <1>3
<1>7. ToCopy = Least(HeaderSize - h, Available)
  BY DEF ToCopy, h
<1>8. /\ ToCopy \in Nat /\ ToCopy > 0 /\ offset + ToCopy <= Len(buffer)
      /\ h + ToCopy <= HeaderSize
  BY <1>1, <1>2, <1>3, <1>6, <1>7 DEF Least
<1>9. SubSeq(buffer, offset + 1, offset + ToCopy) = Positions(s + h, ToCopy)
  <2>1. running # "no"
    BY <1>1
  <2>2. SubSeq(buffer, offset + 1, offset + ToCopy) = Positions(Expected, ToCopy)
    BY <1>8, <2>1, PartOfBuffer
  <2> QED  BY <1>4, <2>2
<1>10. Positions(s, h) \o Positions(s + h, ToCopy) = Positions(s, h + ToCopy)
  <2>1. s \in Nat /\ h \in Nat /\ ToCopy \in Nat
    BY <1>3, <1>8
  <2> QED  BY <2>1, PositionsConcat
<1>11. bytes = Positions(s, h + ToCopy)
  BY <1>5, <1>9, <1>10
<1>12. h + ToCopy \in Nat /\ Len(bytes) = h + ToCopy
  <2>1. h + ToCopy \in Nat
    BY <1>3, <1>8
  <2>2. Len(Positions(s, h + ToCopy)) = h + ToCopy
    BY <1>3, <2>1, PositionsType
  <2> QED  BY <1>11, <2>1, <2>2
<1> HIDE DEF bytes
<1>13. CASE h + ToCopy < HeaderSize
  <2>1. Len(bytes) # HeaderSize
    BY <1>3, <1>12, <1>13
  <2>2. header_buffer' = bytes /\ UNCHANGED <<current, payload_bytes_read, parser>>
    BY <1>1, <2>1
  <2> QED  BY <1>1, <1>8, <1>11, <1>13, <2>2 DEF h, s
<1>14. CASE h + ToCopy = HeaderSize
  <2>1. current < Len(wire.frames)
    <3>1. s + h < received
      BY <1>1, <1>2, <1>3, <1>4
    <3>2. s < Total
      BY <1>3, <3>1
    <3> QED  BY <1>3, <3>2
  <2>2. current + 1 \in 1 .. Len(wire.frames)
    BY <1>3, <2>1
  <2>3. ProcessHeader(Positions(wire.start[current + 1], HeaderSize)) = current + 1
    BY <1>2, <2>2, HeaderNamesFrame
  <2>4. ProcessHeader(bytes) = current + 1
    BY <1>11, <1>14, <2>3 DEF s
  <2>5. /\ header_buffer' = <<>> /\ current' = current + 1 /\ payload_bytes_read' = 0
        /\ parser' = IF Length(current + 1) = 0 THEN "reading_header" ELSE "reading_payload"
    BY <1>1, <1>12, <1>14, <2>4
  <2> QED  BY <1>1, <1>8, <1>14, <2>1, <2>5 DEF h
<1> QED  BY <1>3, <1>8, <1>13, <1>14

LEMMA ReadHeaderIInv ==
  ASSUME IInv, ReadHeader
  PROVE  IInv'
<1> DEFINE h == Len(header_buffer)
           s == wire.start[current + 1]
<1>1. /\ ToCopy \in Nat /\ ToCopy > 0 /\ offset + ToCopy <= Len(buffer)
      /\ h + ToCopy <= HeaderSize
      /\ offset' = offset + ToCopy
      /\ UNCHANGED <<wire, received, buffer, state, running>>
      /\ \/ /\ h + ToCopy < HeaderSize
            /\ header_buffer' = Positions(s, h + ToCopy)
            /\ UNCHANGED <<current, payload_bytes_read, parser>>
         \/ /\ h + ToCopy = HeaderSize
            /\ current < Len(wire.frames)
            /\ header_buffer' = <<>> /\ current' = current + 1 /\ payload_bytes_read' = 0
            /\ parser' = IF Length(current + 1) = 0 THEN "reading_header" ELSE "reading_payload"
  BY ReadHeaderFacts
<1>2. running = "consume" /\ parser = "reading_header"
  BY DEF ReadHeader
<1>3. /\ TypeOK /\ Control /\ Synchronised /\ state = "ready"
      /\ received - Len(buffer) + offset = Expected
  BY <1>2, LoopFacts DEF IInv
<1>4. /\ h \in Nat /\ HeaderSize \in Nat /\ HeaderSize > 0 /\ s \in Nat /\ offset \in Nat
      /\ Len(buffer) \in Nat /\ received \in Nat
      /\ current \in Nat /\ Len(wire.frames) \in Nat
  BY <1>3, Facts
<1>5. Expected = s + h
  BY <1>2 DEF Expected
<1> HIDE DEF h, s
<1>6. OnlyPartialFramesWait'
  BY <1>1, <1>2 DEF OnlyPartialFramesWait
<1>7. offset' \in 0 .. Len(buffer)
  BY <1>1, <1>4
<1>8. CASE /\ h + ToCopy < HeaderSize
           /\ header_buffer' = Positions(s, h + ToCopy)
           /\ UNCHANGED <<current, payload_bytes_read, parser>>
  <2>1. h + ToCopy \in Nat
    BY <1>1, <1>4
  <2>2. header_buffer' \in Seq(Nat) /\ Len(header_buffer') = h + ToCopy
    BY <1>4, <1>8, <2>1, PositionsType
  <2>3. TypeOK'
    BY <1>1, <1>3, <1>7, <1>8, <2>2 DEF TypeOK, Total, Length
  <2>4. Expected' = s + (h + ToCopy)
    BY <1>1, <1>2, <1>8, <2>2 DEF Expected, s
  <2>5. received' - Len(buffer') + offset' = Expected'
    BY <1>1, <1>3, <1>4, <1>5, <2>4
  <2>6. Synchronised'
    BY <1>1, <1>3, <2>5 DEF Synchronised
  <2>7. header_buffer' = Positions(wire'.start[current' + 1], Len(header_buffer'))
    BY <1>1, <1>8, <2>2 DEF s
  <2>8. Control'
    BY <1>1, <1>2, <1>3, <1>8, <2>7 DEF Control, Length
  <2> QED  BY <1>6, <2>3, <2>6, <2>8 DEF IInv
<1>9. CASE /\ h + ToCopy = HeaderSize
           /\ current < Len(wire.frames)
           /\ header_buffer' = <<>> /\ current' = current + 1 /\ payload_bytes_read' = 0
           /\ parser' = IF Length(current + 1) = 0 THEN "reading_header" ELSE "reading_payload"
  <2>1. current + 1 \in 1 .. Len(wire.frames)
    BY <1>4, <1>9
  <2>2. /\ wire.start[current + 1 + 1] = s + HeaderSize + Length(current + 1)
        /\ wire.start[current + 1 + 1] \in Nat /\ Length(current + 1) \in Nat
    BY <1>3, <2>1, WireFacts DEF TypeOK, s
  <2>3. header_buffer' \in Seq(Nat) /\ Len(header_buffer') = 0
    BY <1>9
  <2>4. TypeOK'
    <3>1. current' \in 0 .. Len(wire.frames) /\ payload_bytes_read' \in 0 .. Length(current)'
      BY <1>1, <1>4, <1>9, <2>1, <2>2 DEF Length
    <3> QED  BY <1>1, <1>3, <1>4, <1>7, <1>9, <2>3, <3>1 DEF TypeOK, Total, Length
  <2>5. Expected' = s + HeaderSize
    <3>1. CASE Length(current + 1) = 0
      BY <1>1, <1>4, <1>9, <2>2, <2>3, <3>1 DEF Expected
    <3>2. CASE Length(current + 1) # 0
      BY <1>1, <1>4, <1>9, <3>2 DEF Expected, s
    <3> QED  BY <3>1, <3>2
  <2>6. received' - Len(buffer') + offset' = Expected'
    BY <1>1, <1>3, <1>4, <1>5, <1>9, <2>5
  <2>7. Synchronised'
    BY <1>1, <1>3, <2>6 DEF Synchronised
  <2>8. header_buffer' = Positions(wire'.start[current' + 1], Len(header_buffer'))
    <3>1. Positions(wire.start[current + 1 + 1], 0) = <<>>
      BY <2>2, EmptyPositions
    <3> QED  BY <1>1, <1>9, <2>3, <3>1
  <2>9. Control'
    <3>1. Length(current)' = Length(current + 1)
      BY <1>1, <1>9 DEF Length
    <3>2. parser' = "reading_payload" =>
            /\ current' > 0 /\ payload_bytes_read' < Length(current)' /\ header_buffer' = <<>>
            /\ wire'.frames[current'].waits => payload_bytes_read' = 0
      BY <1>4, <1>9, <2>2, <3>1
    <3>3. parser' = "reading_header" => payload_bytes_read' = Length(current)'
      BY <1>9, <3>1
    <3>4. Len(buffer') <= received' /\ running' = "consume" /\ state' = "ready"
      BY <1>1, <1>2, <1>3 DEF Control
    <3> QED  BY <2>8, <3>2, <3>3, <3>4 DEF Control
  <2> QED  BY <1>6, <2>4, <2>7, <2>9 DEF IInv
<1> QED  BY <1>1, <1>8, <1>9

\* What a turn of the loop does to a payload: it grows by what its handler
\* takes, which is everything there is unless a waiting frame is incomplete.
LEMMA ReadPayloadFacts ==
  ASSUME IInv, ReadPayload
  PROVE  \E consumed \in Nat :
           /\ offset + consumed <= Len(buffer)
           /\ payload_bytes_read + consumed <= Length(current)
           /\ offset' = offset + consumed
           /\ payload_bytes_read' = payload_bytes_read + consumed
           /\ wire.frames[current].waits => consumed \in {0, Length(current)}
           /\ \/ /\ payload_bytes_read + consumed = Length(current)
                 /\ parser' = "reading_header" /\ running' = "consume"
              \/ /\ payload_bytes_read + consumed < Length(current)
                 /\ parser' = "reading_payload" /\ running' = "consume"
              \/ /\ payload_bytes_read + consumed < Length(current)
                 /\ parser' = "reading_payload" /\ running' = "slide"
                 /\ consumed = 0 /\ wire.frames[current].waits
                 /\ Available < Length(current)
<1> DEFINE l == Length(current)
           p == payload_bytes_read
           to_consume == Least(l - p, Available)
           consumed == Handled(current, to_consume)
           waits == wire.frames[current].waits
<1>1. /\ running = "consume" /\ parser = "reading_payload" /\ Available > 0
      /\ offset' = offset + consumed
      /\ payload_bytes_read' = p + consumed
      /\ parser' = IF p + consumed = l THEN "reading_header" ELSE parser
      /\ running' = IF ~(p + consumed = l) /\ consumed < to_consume THEN "slide" ELSE running
  BY DEF ReadPayload
<1>2. /\ TypeOK /\ Control /\ Available \in Nat /\ Available = Len(buffer) - offset
  BY <1>1, LoopFacts
<1>3. l \in Nat /\ p \in Nat /\ offset \in Nat /\ Len(buffer) \in Nat /\ current \in Nat
  BY <1>2, Facts
<1>4. p < l /\ (waits => p = 0)
  BY <1>1, <1>2 DEF Control
<1>5. consumed = IF waits /\ to_consume < l THEN 0 ELSE to_consume
  BY DEF Handled
<1>6. to_consume = IF l - p <= Available THEN l - p ELSE Available
  BY DEF Least
<1> HIDE DEF l, p, to_consume, consumed, waits
<1>7. /\ to_consume \in Nat /\ to_consume > 0 /\ to_consume <= Available
      /\ p + to_consume <= l
  BY <1>1, <1>2, <1>3, <1>4, <1>6
<1>8. CASE waits /\ to_consume < l
  <2>1. consumed = 0
    BY <1>5, <1>8
  <2>2. p = 0 /\ to_consume = Available
    BY <1>2, <1>3, <1>4, <1>6, <1>8
  <2>3. parser' = "reading_payload" /\ running' = "slide"
    BY <1>1, <1>3, <1>4, <1>7, <2>1, <2>2
  <2>4. /\ 0 \in Nat /\ offset + 0 <= Len(buffer) /\ p + 0 < l /\ p + 0 <= l
        /\ offset' = offset + 0 /\ payload_bytes_read' = p + 0 /\ Available < l
    BY <1>1, <1>2, <1>3, <1>4, <1>8, <2>1, <2>2
  <2> QED  BY <1>8, <2>3, <2>4 DEF l, p, waits
<1>9. CASE ~(waits /\ to_consume < l)
  <2>1. consumed = to_consume
    BY <1>5, <1>9
  <2>2. waits => consumed = l
    BY <1>3, <1>4, <1>7, <1>9, <2>1
  <2>3. /\ consumed \in Nat /\ offset + consumed <= Len(buffer) /\ p + consumed <= l
    BY <1>2, <1>3, <1>7, <2>1
  <2>4. running' = "consume"
    BY <1>1, <1>7, <2>1
  <2>5. \/ p + consumed = l /\ parser' = "reading_header"
        \/ p + consumed < l /\ parser' = "reading_payload"
    BY <1>1, <1>3, <2>3
  <2> QED  BY <1>1, <2>2, <2>3, <2>4, <2>5 DEF l, p, waits
<1> QED  BY <1>8, <1>9

LEMMA ReadPayloadIInv ==
  ASSUME IInv, ReadPayload
  PROVE  IInv'
<1>1. PICK consumed \in Nat :
           /\ offset + consumed <= Len(buffer)
           /\ payload_bytes_read + consumed <= Length(current)
           /\ offset' = offset + consumed
           /\ payload_bytes_read' = payload_bytes_read + consumed
           /\ wire.frames[current].waits => consumed \in {0, Length(current)}
           /\ \/ /\ payload_bytes_read + consumed = Length(current)
                 /\ parser' = "reading_header" /\ running' = "consume"
              \/ /\ payload_bytes_read + consumed < Length(current)
                 /\ parser' = "reading_payload" /\ running' = "consume"
              \/ /\ payload_bytes_read + consumed < Length(current)
                 /\ parser' = "reading_payload" /\ running' = "slide"
                 /\ consumed = 0 /\ wire.frames[current].waits
                 /\ Available < Length(current)
  BY ReadPayloadFacts
<1>2. /\ running = "consume" /\ parser = "reading_payload"
      /\ UNCHANGED <<wire, received, buffer, state, header_buffer, current>>
  BY DEF ReadPayload
<1>3. /\ TypeOK /\ Control /\ Synchronised /\ state = "ready"
      /\ received - Len(buffer) + offset = Expected
  BY <1>2, LoopFacts DEF IInv
<1>4. /\ Len(buffer) \in Nat /\ received \in Nat /\ offset \in Nat /\ current \in Nat
      /\ payload_bytes_read \in Nat /\ Length(current) \in Nat /\ HeaderSize \in Nat
      /\ wire.start[current + 1] \in Nat
      /\ current > 0 =>
           /\ wire.start[current] \in Nat
           /\ wire.start[current + 1] = wire.start[current] + HeaderSize + Length(current)
  BY <1>3, Facts
<1>5. /\ current > 0 /\ payload_bytes_read < Length(current) /\ header_buffer = <<>>
      /\ wire.frames[current].waits => payload_bytes_read = 0
  BY <1>2, <1>3 DEF Control
<1>6. Expected = wire.start[current] + HeaderSize + payload_bytes_read
  BY <1>2 DEF Expected
<1>7. Len(header_buffer') = 0 /\ Length(current)' = Length(current)
  BY <1>2, <1>5 DEF Length
<1>8. /\ offset' \in 0 .. Len(buffer) /\ payload_bytes_read' \in 0 .. Length(current)
      /\ running' \in {"no", "consume", "slide"}
      /\ parser' \in {"reading_header", "reading_payload"}
  BY <1>1, <1>4
<1>9. TypeOK'
  BY <1>2, <1>3, <1>7, <1>8 DEF TypeOK, Total
<1>10. Synchronised'
  <2>1. Expected' = wire.start[current] + HeaderSize + payload_bytes_read'
    <3>1. CASE parser' = "reading_payload"
      BY <1>2, <3>1 DEF Expected
    <3>2. CASE parser' = "reading_header"
      <4>1. payload_bytes_read' = Length(current)
        BY <1>1, <3>2
      <4>2. Expected' = wire.start[current + 1]
        BY <1>2, <1>4, <1>7, <3>2 DEF Expected
      <4> QED  BY <1>4, <1>5, <4>1, <4>2
    <3> QED  BY <1>8, <3>1, <3>2
  <2>2. received' - Len(buffer') + offset' = Expected'
    <3>1. /\ received' - Len(buffer') + offset' = received - Len(buffer) + offset + consumed
          /\ payload_bytes_read' = payload_bytes_read + consumed
      BY <1>1, <1>2, <1>4
    <3> DEFINE e == received - Len(buffer) + offset
               b == wire.start[current] + HeaderSize
    <3>2. wire.start[current] \in Nat
      BY <1>4, <1>5
    <3>3. b \in Nat
      BY <1>4, <3>2
    <3>4. e = b + payload_bytes_read
      <4>1. e = Expected
        BY <1>3
      <4>2. Expected = b + payload_bytes_read
        BY <1>6
      <4> QED  BY <4>1, <4>2
    <3> HIDE DEF e, b
    <3>5. e + consumed = b + (payload_bytes_read + consumed)
      BY <1>4, <3>3, <3>4
    <3>6. received' - Len(buffer') + offset' = e + consumed
      BY <3>1 DEF e
    <3>7. Expected' = b + (payload_bytes_read + consumed)
      BY <2>1, <3>1 DEF b
    <3> QED  BY <3>5, <3>6, <3>7
  <2> QED  BY <1>2, <1>3, <2>2 DEF Synchronised
<1>11. Control'
  <2>1. parser' = "reading_payload" =>
          /\ current' > 0 /\ payload_bytes_read' < Length(current)' /\ header_buffer' = <<>>
          /\ wire'.frames[current'].waits => payload_bytes_read' = 0
    BY <1>1, <1>2, <1>4, <1>5, <1>7
  <2>2. parser' = "reading_header" =>
          /\ payload_bytes_read' = Length(current)'
          /\ header_buffer' = Positions(wire'.start[current' + 1], Len(header_buffer'))
    <3>1. Positions(wire.start[current + 1], 0) = <<>>
      BY <1>4, EmptyPositions
    <3> QED  BY <1>1, <1>2, <1>5, <1>7, <3>1
  <2>3. running' = "slide" =>
          /\ parser' = "reading_payload" /\ wire'.frames[current'].waits
          /\ Available' < Length(current)'
    <3> SUFFICES ASSUME running' = "slide"
                 PROVE  /\ parser' = "reading_payload" /\ wire'.frames[current'].waits
                        /\ Available' < Length(current)'
      OBVIOUS
    <3>1. /\ parser' = "reading_payload" /\ consumed = 0 /\ wire.frames[current].waits
          /\ Available < Length(current)
      BY <1>1
    <3>2. Available' = Available
      BY <1>1, <1>2, <1>4, <3>1 DEF Available
    <3> QED  BY <1>2, <1>7, <3>1, <3>2
  <2>4. running' # "no"
    BY <1>1
  <2> QED  BY <1>2, <1>3, <2>1, <2>2, <2>3, <2>4 DEF Control
<1>12. OnlyPartialFramesWait'
  BY <1>1 DEF OnlyPartialFramesWait
<1> QED  BY <1>9, <1>10, <1>11, <1>12 DEF IInv

\* What is left moves to the front; only part of a waiting payload is left.
LEMMA SlideIInv ==
  ASSUME IInv, Slide
  PROVE  IInv'
<1>1. /\ running = "slide" \/ (running = "consume" /\ Available = 0)
      /\ buffer' = SubSeq(buffer, offset + 1, Len(buffer)) /\ offset' = 0 /\ running' = "no"
      /\ UNCHANGED <<wire, received, state, parser, header_buffer, current, payload_bytes_read>>
  BY DEF Slide, Rest
<1>2. running # "no"
  BY <1>1
<1>3. /\ TypeOK /\ Control /\ state = "ready"
      /\ received - Len(buffer) + offset = Expected
      /\ received - Len(buffer) \in Nat
      /\ Available \in Nat /\ Available = Len(buffer) - offset
  BY <1>2, LoopFacts
<1>4. /\ Len(buffer) \in Nat /\ Len(buffer) <= BufferSize /\ BufferSize \in Nat
      /\ received \in Nat /\ offset \in Nat
  BY <1>3, Facts
<1>5. buffer' = Positions(Expected, Available)
  <2>1. PICK n \in Nat : n = Available
    BY <1>3
  <2>2. offset + n = Len(buffer)
    BY <1>3, <1>4, <2>1
  <2>3. offset + n <= Len(buffer)
    BY <1>4, <2>2
  <2>4. SubSeq(buffer, offset + 1, offset + n) = Positions(Expected, n)
    BY <1>2, <2>3, PartOfBuffer
  <2> QED  BY <1>1, <2>1, <2>2, <2>4
<1>6. Expected \in Nat
  BY <1>3, <1>4
<1>7. buffer' \in Seq(Nat) /\ Len(buffer') = Available
  BY <1>3, <1>5, <1>6, PositionsType
<1>8. Expected' = Expected /\ Length(current)' = Length(current)
  BY <1>1 DEF Expected, Length
<1>9. TypeOK'
  <2>1. Len(buffer') <= BufferSize /\ offset' \in 0 .. Len(buffer')
    BY <1>1, <1>3, <1>4, <1>7
  <2>2. running' \in {"no", "consume", "slide"}
    BY <1>1
  <2> QED  BY <1>1, <1>3, <1>7, <1>8, <2>1, <2>2 DEF TypeOK, Total
<1>10. Synchronised'
  <2>1. received' - Len(buffer') = Expected
    BY <1>1, <1>3, <1>4, <1>7
  <2>2. received' - Len(buffer') + offset' = Expected'
    <3>1. Expected + 0 = Expected
      BY <1>6
    <3>2. received' - Len(buffer') + offset' = Expected + 0
      BY <1>1, <2>1
    <3> QED  BY <1>8, <3>1, <3>2
  <2>3. buffer' = Positions(received' - Len(buffer'), Len(buffer'))
    BY <1>5, <1>7, <2>1
  <2> QED  BY <2>2, <2>3 DEF Synchronised
<1>11. Control'
  <2>1. Len(buffer') <= received'
    BY <1>1, <1>3, <1>4, <1>7
  <2> QED  BY <1>1, <1>3, <1>8, <2>1 DEF Control
<1>12. OnlyPartialFramesWait'
  <2> SUFFICES ASSUME buffer' # <<>>
               PROVE  /\ parser' = "reading_payload"
                      /\ wire'.frames[current'].waits /\ payload_bytes_read' = 0
                      /\ Len(buffer') < Length(current)'
    BY DEF OnlyPartialFramesWait
  <2>1. Available # 0
    BY <1>7, EmptySeq
  <2>2. running = "slide"
    BY <1>1, <2>1
  <2>3. /\ parser = "reading_payload" /\ wire.frames[current].waits
        /\ payload_bytes_read = 0 /\ Available < Length(current)
    BY <1>3, <2>2 DEF Control
  <2> QED  BY <1>1, <1>7, <1>8, <2>3
<1> QED  BY <1>9, <1>10, <1>11, <1>12 DEF IInv

----------------------------------------------------------------------------
(* The theorems.                                                           *)

LEMMA NextIInv == IInv /\ [Next]_vars => IInv'
<1> SUFFICES ASSUME IInv, [Next]_vars
             PROVE  IInv'
  OBVIOUS
<1>1. ASSUME NEW n \in 1 .. BufferSize, InputEnd(n)
      PROVE  IInv'
  <2>1. n \in Nat
    OBVIOUS
  <2> QED  BY <1>1, <2>1, AwaitPrefaceIInv, AcceptPrefaceIInv, RejectPrefaceIInv, ConsumeIInv
           DEF InputEnd
<1>2. CASE ReadHeader
  BY <1>2, ReadHeaderIInv
<1>3. CASE ReadPayload
  BY <1>3, ReadPayloadIInv
<1>4. CASE Slide
  BY <1>4, SlideIInv
<1>5. CASE UNCHANGED vars
  BY <1>5 DEF vars, IInv, TypeOK, Synchronised, Control, OnlyPartialFramesWait, Total, Length,
              Expected, Available
<1> QED  BY <1>1, <1>2, <1>3, <1>4, <1>5 DEF Next

LEMMA Invariance == Spec => []IInv
  BY InitIInv, NextIInv, PTL DEF Spec

\* The buffers stay within their arrays and the offset within the buffer, for
\* every size of them and everything a peer sends.
THEOREM TypeCorrect == Spec => []TypeOK
<1>1. IInv => TypeOK
  BY DEF IInv
<1> QED  BY <1>1, Invariance, PTL

\* Wherever reads cut the stream, the buffer holds the bytes that come next
\* and the parser expects the first of them.
THEOREM StaysSynchronised == Spec => []Synchronised
<1>1. IInv => Synchronised
  BY DEF IInv
<1> QED  BY <1>1, Invariance, PTL

\* Between calls of input_end nothing waits in the buffer but an incomplete
\* or refused preface, or part of the payload of a frame that waits.
THEOREM NothingElseWaits == Spec => []OnlyPartialFramesWait
<1>1. IInv => OnlyPartialFramesWait
  BY DEF IInv
<1> QED  BY <1>1, Invariance, PTL

\* The handlers see each frame once and in order, with its payload whole if
\* the frame waits and else in chunks that cover it: every step of the parser
\* is a step of FrameReader or leaves its variables alone.
THEOREM ReadsFrames == Spec => ImplementsFrameReader
<1>1. Init => Reader!Init
  BY DEF Init, Reader!Init
<1>2. ASSUME IInv, [Next]_vars
      PROVE  [Reader!Next]_(Reader!vars)
  <2>1. ASSUME NEW n \in 1 .. BufferSize, InputEnd(n)
        PROVE  UNCHANGED Reader!vars
    BY <2>1 DEF InputEnd, AwaitPreface, AcceptPreface, RejectPreface, Consume, Read, parserVars,
                Reader!vars
  <2>2. CASE ReadHeader
    <3>1. TypeOK /\ Control /\ parser = "reading_header"
      BY <1>2, <2>2 DEF IInv, ReadHeader
    <3>2. payload_bytes_read = Length(current)
      BY <3>1 DEF Control
    <3>3. \/ UNCHANGED <<wire, current, payload_bytes_read>>
          \/ /\ current < Len(wire.frames) /\ current' = current + 1
             /\ payload_bytes_read' = 0 /\ wire' = wire
      BY <1>2, <2>2, ReadHeaderFacts
    <3>4. current > 0 => payload_bytes_read = wire.frames[current].length
      BY <3>2 DEF Length
    <3> QED  BY <3>3, <3>4 DEF Reader!Next, Reader!ReadFrameHeader, Reader!vars
  <2>3. CASE ReadPayload
    <3>1. TypeOK /\ Control /\ parser = "reading_payload" /\ wire' = wire /\ current' = current
      BY <1>2, <2>3 DEF IInv, ReadPayload
    <3>2. /\ current > 0 /\ current \in Nat /\ payload_bytes_read \in Nat
          /\ Length(current) \in Nat
      BY <3>1, Facts DEF Control
    <3>3. PICK consumed \in Nat :
            /\ payload_bytes_read + consumed <= Length(current)
            /\ payload_bytes_read' = payload_bytes_read + consumed
            /\ wire.frames[current].waits => consumed \in {0, Length(current)}
      BY <1>2, <2>3, ReadPayloadFacts
    <3>4. Length(current) = wire.frames[current].length
      BY <3>2 DEF Length
    <3>5. CASE consumed = 0
      BY <3>1, <3>2, <3>3, <3>5 DEF Reader!vars
    <3>6. CASE consumed # 0
      <4>1. consumed \in 1 .. wire.frames[current].length
        BY <3>2, <3>3, <3>4, <3>6
      <4>2. Reader!ReadPayload(consumed)
        BY <3>1, <3>2, <3>3, <3>4, <3>6 DEF Reader!ReadPayload
      <4> QED  BY <3>2, <4>1, <4>2 DEF Reader!Next
    <3> QED  BY <3>5, <3>6
  <2>4. CASE Slide
    BY <2>4 DEF Slide, Reader!vars
  <2>5. CASE UNCHANGED vars
    BY <2>5 DEF vars, Reader!vars
  <2> QED  BY <1>2, <2>1, <2>2, <2>3, <2>4, <2>5 DEF Next
<1> QED  BY <1>1, <1>2, Invariance, PTL DEF Spec, ImplementsFrameReader, Reader!Spec
=============================================================================
