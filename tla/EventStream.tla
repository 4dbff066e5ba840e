----------------------------- MODULE EventStream -----------------------------
(***************************************************************************)
(* What a stream of server-sent events means, line by line: a line is a    *)
(* field or a comment, an empty line ends an event.                        *)
(***************************************************************************)
EXTENDS Naturals, Sequences, SequencesExt

CONSTANT Chars     \* "CR", "LF", ":", " " and runs of other characters

VARIABLES
  line,       \* the unfinished line
  lines,      \* the lines of the unfinished event
  afterCr,    \* the last character was a carriage return
  id, retry,  \* last seen: they outlive the event
  out         \* the event that the last character ended, if any

vars == <<line, lines, afterCr, id, retry, out>>

Colons(l) == {i \in DOMAIN l : l[i] = ":"}
Colon(l) == CHOOSE i \in Colons(l) : \A j \in Colons(l) : i <= j
Name(l) == IF Colons(l) = {} THEN l ELSE SubSeq(l, 1, Colon(l) - 1)
Rest(l) == IF Colons(l) = {} THEN <<>> ELSE SubSeq(l, Colon(l) + 1, Len(l))
Value(l) == IF Rest(l) # <<>> /\ Head(Rest(l)) = " " THEN Tail(Rest(l)) ELSE Rest(l)

Is(l, name) == Name(l) = <<name>>
ValuesOf(ls, name) ==
  FoldLeft(LAMBDA vs, l : IF Is(l, name) THEN Append(vs, Value(l)) ELSE vs, <<>>, ls)
Values(name) == ValuesOf(lines, name)

\* The data lines joined by line feeds; the last line that names a type.
Joined(vs) == FlattenSeq([i \in DOMAIN vs |-> IF i = 1 THEN vs[i] ELSE <<"LF">> \o vs[i]])
Type == IF Values("event") = <<>> THEN <<>> ELSE Last(Values("event"))

\* An id alone, even one of an earlier event, is enough for an event: the
\* parser's own choice, which the refinement takes over and does not judge.
IsEvent == Values("data") # <<>> \/ Type # <<>> \/ id # <<>>

ValidId(v) == \A i \in DOMAIN v : v[i] # "NUL"
ValidRetry(v) == v # <<>> /\ \A i \in DOMAIN v : v[i] = "9"

Init ==
  /\ line = <<>> /\ lines = <<>> /\ afterCr = FALSE
  /\ id = <<>> /\ retry = <<>> /\ out = <<>>

Character(c) ==
  /\ c \notin {"CR", "LF"}
  /\ line' = Append(line, c)
  /\ afterCr' = FALSE
  /\ out' = <<>>
  /\ UNCHANGED <<lines, id, retry>>

\* The line feed of a CR LF pair.
SecondHalf ==
  /\ afterCr
  /\ afterCr' = FALSE
  /\ out' = <<>>
  /\ UNCHANGED <<line, lines, id, retry>>

EndOfField(c) ==
  /\ c \in {"CR", "LF"} /\ ~(afterCr /\ c = "LF")
  /\ line # <<>>
  /\ line' = <<>>
  /\ lines' = Append(lines, line)
  /\ afterCr' = (c = "CR")
  /\ id' = IF Is(line, "id") /\ ValidId(Value(line)) THEN Value(line) ELSE id
  /\ retry' = IF Is(line, "retry") /\ ValidRetry(Value(line)) THEN Value(line) ELSE retry
  /\ out' = <<>>

EndOfEvent(c) ==
  /\ c \in {"CR", "LF"} /\ ~(afterCr /\ c = "LF")
  /\ line = <<>>
  /\ lines' = <<>>
  /\ afterCr' = (c = "CR")
  /\ out' = IF IsEvent
            THEN <<[id |-> id, type |-> Type, data |-> Joined(Values("data")), retry |-> retry]>>
            ELSE <<>>
  /\ UNCHANGED <<line, id, retry>>

\* A new stream begins, except that a line feed still pairs with the carriage
\* return that ended the old one.
Reset ==
  /\ line' = <<>> /\ lines' = <<>> /\ id' = <<>> /\ retry' = <<>> /\ out' = <<>>
  /\ UNCHANGED afterCr

Next ==
  \/ \E c \in Chars : Character(c) \/ EndOfField(c) \/ EndOfEvent(c)
  \/ SecondHalf
  \/ Reset

Spec == Init /\ [][Next]_vars
=============================================================================
