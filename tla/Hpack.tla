-------------------------------- MODULE Hpack --------------------------------
(***************************************************************************)
(* Header compression between two engines: the encoder's hpack_context,    *)
(* the header blocks on their way, and the decoder's hpack_context.        *)
(*                                                                         *)
(* A representation is a record: its kind (the first bits), its integer as *)
(* the digits hpack_buffer::encode writes, and its strings.  Huffman code  *)
(* and string lengths are left out.                                        *)
(***************************************************************************)
EXTENDS Integers, Sequences, SequencesExt, FiniteSetsExt

CONSTANTS
  Names, Values,     \* what a header can say
  EntrySize,         \* [Names \X Values -> Nat], name + value + 32 in the code
  StaticTable,       \* hpack_static_table
  DefaultMaxSize,    \* 4096 in the code
  Sizes,             \* the sizes an encoder may change its table to
  Mask,              \* by kind, the largest value of the prefix
  Base,              \* 128 in the code: what a further digit holds
  LastDigit,         \* 5 in the code: where decode_int limits the digit ...
  LastChunk,         \* ... to this, 7 in the code
  MaxHeaders,        \* bound: headers in a block
  MaxInFlight        \* bound: blocks on their way

Kinds == {"indexed", "incremental", "resize", "plain"}
HeaderSet == [name : Names, value : Values]

ASSUME TableAssumption ==
  /\ EntrySize \in [Names \X Values -> Nat \ {0}]
  /\ StaticTable \in Seq(HeaderSet)
  /\ DefaultMaxSize \in Nat /\ Sizes \subseteq Nat
ASSUME IntegerAssumption ==
  /\ Mask \in [Kinds -> 1 .. 2 * Base - 1]
  /\ Base \in Nat /\ Base > 1 /\ LastDigit \in Nat \ {0} /\ LastChunk \in 0 .. Base - 1

VARIABLES
  encoder, decoder,  \* the two contexts
  channel,           \* blocks in flight: [reps, headers], headers a ghost
  failed             \* decode threw: the exception leaves input_end

vars == <<encoder, decoder, channel, failed>>

----------------------------------------------------------------------------
(* Integers: hpack_buffer::encode and hpack_decode_int.                    *)

\* What the (n + 1)-th further digit counts.
Power[n \in 0 .. LastDigit] == IF n = 0 THEN 1 ELSE Base * Power[n - 1]

\* What fits LastDigit digits, and the largest value the encoder's word
\* holds: 2^31 and 2^32 - 1 in the code.
Limit == Power[LastDigit - 1] * (LastChunk + 1)
MaxInt == 2 * Limit - 1

\* Values that hpack_decode_int accepts: below 2^31 plus the prefix.
Accepted(v, mask) == v < mask + Limit

\* An encoder's table is not so large that an index or its size is refused or
\* does not fit its word; an entry has a size of 1 or more.
ASSUME SizesAssumption ==
  \A n \in Sizes \union {DefaultMaxSize}, kind \in Kinds :
    n + Len(StaticTable) <= MaxInt /\ Accepted(n + Len(StaticTable), Mask[kind])

\* A digit of Base or more says that another one follows.
Digits[v \in 0 .. MaxInt] ==
  IF v >= Base THEN <<(v % Base) + Base>> \o Digits[v \div Base] ELSE <<v>>

\* Mutant: a full digit is written without the bit that another one follows.
DigitsLoose[v \in 0 .. MaxInt] ==
  IF v > Base THEN <<(v % Base) + Base>> \o DigitsLoose[v \div Base] ELSE <<v>>
EncodeIntLoose(val, mask) ==
  IF val < mask THEN <<val>> ELSE <<mask>> \o DigitsLoose[val - mask]

EncodeInt(val, mask) == IF val < mask THEN <<val>> ELSE <<mask>> \o Digits[val - mask]

Refused == -1

\* What some further digits add to the prefix.
Gathered(mask, digits) ==
  FoldLeftDomain(LAMBDA sum, i : sum + (digits[i] % Base) * Power[i - 1], mask, digits)

\* max_val is 2^32 - 1 for the integers of a context: the limit on the last
\* digit is reached first.
DecodeInt(s, mask) ==
  LET ends == {i \in 2 .. Len(s) : s[i] < Base}
      n == Min(ends) - 1
  IN IF s[1] < mask THEN s[1]
     ELSE IF \/ ends = {}
             \/ n > LastDigit
             \/ n = LastDigit /\ s[n + 1] > LastChunk
          THEN Refused
     ELSE Gathered(mask, SubSeq(s, 2, n + 1))

----------------------------------------------------------------------------
(* The dynamic table, newest entry first.                                  *)

NewContext == [table |-> <<>>, max |-> DefaultMaxSize, size |-> 0]

SizeOf(h) == EntrySize[<<h.name, h.value>>]
SumOf(t) == FoldLeft(LAMBDA sum, h : sum + SizeOf(h), 0, t)
Suffix(t, k) == SubSeq(t, Len(t) - k + 1, Len(t))

\* The loop goes by the counter current_table_size_.
EvictUntil(c, limit) ==
  LET Enough(k) == c.size - SumOf(Suffix(c.table, k)) <= limit \/ k = Len(c.table)
      k == Min({n \in 0 .. Len(c.table) : Enough(n)})
  IN [c EXCEPT !.table = SubSeq(@, 1, Len(@) - k), !.size = @ - SumOf(Suffix(c.table, k))]

SetMaxTableSize(c, n) == EvictUntil([c EXCEPT !.max = n], n)

\* Mutant: an entry that is too large is only not added.
AddToDynamicTableKeeps(c, h) ==
  IF SizeOf(h) > c.max THEN c
  ELSE LET e == EvictUntil(c, c.max - SizeOf(h))
       IN [e EXCEPT !.table = <<h>> \o @, !.size = @ + SizeOf(h)]
\* Mutant: the counter is reset and the table is not emptied.
AddToDynamicTableFull(c, h) ==
  IF SizeOf(h) > c.max THEN [c EXCEPT !.size = 0]
  ELSE LET e == EvictUntil(c, c.max - SizeOf(h))
       IN [e EXCEPT !.table = <<h>> \o @, !.size = @ + SizeOf(h)]
\* Mutant: the table is emptied and the counter is not.
AddToDynamicTableUncounted(c, h) ==
  IF SizeOf(h) > c.max THEN [c EXCEPT !.table = <<>>]
  ELSE LET e == EvictUntil(c, c.max - SizeOf(h))
       IN [e EXCEPT !.table = <<h>> \o @, !.size = @ + SizeOf(h)]

AddToDynamicTable(c, h) ==
  IF SizeOf(h) > c.max THEN [c EXCEPT !.table = <<>>, !.size = 0]
  ELSE LET e == EvictUntil(c, c.max - SizeOf(h))
       IN [e EXCEPT !.table = <<h>> \o @, !.size = @ + SizeOf(h)]

\* Index 0 is no entry: index - 62 wraps, and get_header throws.
Indices(c) == 1 .. Len(StaticTable) + Len(c.table)
GetHeader(c, i) ==
  IF i <= Len(StaticTable) THEN StaticTable[i] ELSE c.table[i - Len(StaticTable)]

\* The static table is searched first, then the newest entries; 0 is none.
First(S) == IF S = {} THEN 0 ELSE Min(S)
FindExactMatch(c, h) == First({i \in Indices(c) : GetHeader(c, i) = h})
FindNameMatch(c, name) == First({i \in Indices(c) : GetHeader(c, i).name = name})

----------------------------------------------------------------------------
(* hpack_context::encode and decode.                                       *)

\* The strings a representation does not carry.
NoString == "none"

Rep(kind, int, name, value) ==
  [kind |-> kind, int |-> EncodeInt(int, Mask[kind]), name |-> name, value |-> value]

\* A literal names its header by index when it can.
Literal(c, kind, h) ==
  LET i == FindNameMatch(c, h.name)
  IN Rep(kind, i, IF i = 0 THEN h.name ELSE NoString, h.value)

\* Mutant: a header whose name is known is not entered in the table.
EncodeHeaderNewNamesOnly(acc, h) ==
  LET i == FindExactMatch(acc.ctx, h)
  IN IF i # 0 THEN [acc EXCEPT !.reps = Append(@, Rep("indexed", i, NoString, NoString))]
     ELSE [ctx |-> IF FindNameMatch(acc.ctx, h.name) = 0 THEN AddToDynamicTable(acc.ctx, h)
                   ELSE acc.ctx,
           reps |-> Append(acc.reps, Literal(acc.ctx, "incremental", h))]

EncodeHeader(acc, h) ==
  LET i == FindExactMatch(acc.ctx, h)
  IN IF i # 0 THEN [acc EXCEPT !.reps = Append(@, Rep("indexed", i, NoString, NoString))]
     ELSE [ctx |-> AddToDynamicTable(acc.ctx, h),
           reps |-> Append(acc.reps, Literal(acc.ctx, "incremental", h))]

Encode(c, headers) == FoldLeft(EncodeHeader, [ctx |-> c, reps |-> <<>>], headers)

\* One turn of the loop of decode.  What a representation before the one that
\* throws did to the table stays.
DecodeRep(acc, rep) ==
  LET i == DecodeInt(rep.int, Mask[rep.kind])
      named == rep.kind # "indexed" /\ i = 0
      h == IF rep.kind = "indexed" THEN GetHeader(acc.ctx, i)
           ELSE [name |-> IF named THEN rep.name ELSE GetHeader(acc.ctx, i).name,
                 value |-> rep.value]
  IN IF acc.thrown \/ i = Refused THEN [acc EXCEPT !.thrown = TRUE]
     ELSE IF rep.kind = "resize" THEN [acc EXCEPT !.ctx = SetMaxTableSize(@, i)]
     ELSE IF ~named /\ i \notin Indices(acc.ctx) THEN [acc EXCEPT !.thrown = TRUE]
     ELSE [acc EXCEPT !.headers = Append(@, h),
                      !.ctx = IF rep.kind = "incremental" THEN AddToDynamicTable(@, h) ELSE @]

Decode(c, reps) == FoldLeft(DecodeRep, [ctx |-> c, headers |-> <<>>, thrown |-> FALSE], reps)

----------------------------------------------------------------------------
Init ==
  /\ encoder = NewContext /\ decoder = NewContext
  /\ channel = <<>>
  /\ failed = FALSE

Send(reps, headers) == channel' = Append(channel, [reps |-> reps, headers |-> headers])

\* send_headers_frame: a block in one HEADERS frame with END_HEADERS.
SendHeaders(headers) ==
  LET e == Encode(encoder, headers)
  IN /\ Len(channel) < MaxInFlight
     /\ encoder' = e.ctx
     /\ Send(e.reps, headers)
     /\ UNCHANGED <<decoder, failed>>

\* A peer's encoder may keep a header out of the table ...
SendPlain(h) ==
  /\ Len(channel) < MaxInFlight
  /\ Send(<<Literal(encoder, "plain", h)>>, <<h>>)
  /\ UNCHANGED <<encoder, decoder, failed>>

\* ... and change the size of its table at the start of a block.
Resize(n, headers) ==
  LET e == Encode(SetMaxTableSize(encoder, n), headers)
  IN /\ Len(channel) < MaxInFlight
     /\ encoder' = e.ctx
     /\ Send(<<Rep("resize", n, NoString, NoString)>> \o e.reps, headers)
     /\ UNCHANGED <<decoder, failed>>

\* The decoder is given what one read holds of a block: k representations
\* and, if cut, a part of the next, at which it throws.
Receive(k, cut) ==
  LET block == Head(channel)
      d == Decode(decoder, SubSeq(block.reps, 1, k))
      rest == [reps |-> SubSeq(block.reps, k + 1, Len(block.reps)),
               headers |-> SubSeq(block.headers, Len(d.headers) + 1, Len(block.headers))]
  IN /\ ~failed /\ channel # <<>>
     /\ k \in 0 .. Len(block.reps)
     /\ k > 0 \/ cut
     /\ cut => k < Len(block.reps)
     /\ decoder' = d.ctx
     /\ failed' = (cut \/ d.thrown)
     /\ channel' = IF rest.reps = <<>> THEN Tail(channel) ELSE <<rest>> \o Tail(channel)
     /\ UNCHANGED encoder

Blocks == BoundedSeq(HeaderSet, MaxHeaders) \ {<<>>}

Next ==
  \/ \E headers \in Blocks : SendHeaders(headers)
  \/ \E h \in HeaderSet : SendPlain(h)
  \/ \E n \in Sizes, h \in HeaderSet : Resize(n, <<h>>)
  \/ \E cut \in BOOLEAN :
       \E k \in 0 .. (IF channel = <<>> THEN 0 ELSE Len(Head(channel).reps)) : Receive(k, cut)

Spec == Init /\ [][Next]_vars

----------------------------------------------------------------------------
ContextSet == [table : Seq(HeaderSet), max : Nat, size : Nat]
RepSet == [kind : Kinds, int : Seq(0 .. 2 * Base - 1), name : Names \union {NoString},
           value : Values \union {NoString}]

\* The two contexts and the blocks keep their types, hence current_table_size_ does not wrap.
TypeOK ==
  /\ encoder \in ContextSet /\ decoder \in ContextSet
  /\ channel \in Seq([reps : Seq(RepSet), headers : Seq(HeaderSet)])
  /\ failed \in BOOLEAN

RepsInFlight == FlattenSeq([i \in DOMAIN channel |-> channel[i].reps])
HeadersInFlight == FlattenSeq([i \in DOMAIN channel |-> channel[i].headers])

\* The two ends never disagree: a decoder that has read what is in flight, in
\* whatever pieces, has the encoder's table and has seen the headers that were
\* sent.  Every later index depends on it.
TablesAgree ==
  ~failed =>
    LET d == Decode(decoder, RepsInFlight)
    IN /\ ~d.thrown
       /\ d.ctx = encoder
       /\ d.headers = HeadersInFlight

\* The counter that eviction goes by is the size of the entries, within the
\* limit, at both ends and after a failed block too.
SizeIsCounted ==
  \A c \in {encoder, decoder} : c.size = SumOf(c.table) /\ c.size <= c.max

\* What RFC 7541 4.4 makes of an insertion: the longest run of newest
\* entries, the new one first, that fits.
LongestFit(t, max) ==
  SubSeq(t, 1, Max({n \in 0 .. Len(t) : SumOf(SubSeq(t, 1, n)) <= max}))

\* evict_until_size and add_to_dynamic_table, on every table that arises,
\* keep as much as fits and no more.
InsertionKeepsWhatFits ==
  \A c \in {encoder, decoder}, h \in HeaderSet :
    AddToDynamicTable(c, h).table = LongestFit(<<h>> \o c.table, c.max)

\* An integer arrives as it was sent or is refused, whatever its prefix: at
\* the boundary of the prefix, of each digit and of the word.  A size update
\* that is refused leaves the decoder's table alone.
IntegersSurvive ==
  /\ \A kind \in Kinds, v \in 0 .. MaxInt :
       DecodeInt(EncodeInt(v, Mask[kind]), Mask[kind]) =
         IF Accepted(v, Mask[kind]) THEN v ELSE Refused
  /\ \A v \in 0 .. MaxInt :
       LET d == Decode(decoder, <<Rep("resize", v, NoString, NoString)>>)
       IN IF Accepted(v, Mask["resize"]) THEN d.ctx = SetMaxTableSize(decoder, v)
          ELSE d.thrown /\ d.ctx = decoder
=============================================================================
