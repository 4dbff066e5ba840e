--------------------------------- MODULE Sse ---------------------------------
(***************************************************************************)
(* sse_parser: the state machine over the characters of a stream.          *)
(*                                                                         *)
(* A character other than CR, LF, colon and space stands for a run of      *)
(* them, which the parser appends one by one: "data", "x", "9" for digits, *)
(* "HUGE" for digits that overflow stoull, "NUL" for one with a zero byte. *)
(* The parser keeps nothing about chunks but the state "init", so one step *)
(* is one character and a chunk ends anywhere.                             *)
(***************************************************************************)
EXTENDS Naturals, Sequences, SequencesExt

CONSTANTS
  Lines,      \* the lines a server sends, whole or cut short
  MaxLines    \* bound: lines in an event

VARIABLES
  state, last_was_cr, name, value,
  event,      \* current_event_; an empty retry is nullopt
  out,        \* what on_event was called with in this step
  line, lines \* history: the characters of this line, the lines of this event

parserVars == <<state, last_was_cr, name, value, event>>
vars == <<parserVars, out, line, lines>>

Chars == {"CR", "LF"} \union UNION {{l[i] : i \in DOMAIN l} : l \in Lines}
States == {"init", "start_line", "in_field_name", "after_colon", "in_field_value", "in_comment"}

NoEvent == [id |-> <<>>, type |-> <<>>, data |-> <<>>, retry |-> <<>>]

Init ==
  /\ state = "init" /\ last_was_cr = FALSE
  /\ name = <<>> /\ value = <<>> /\ event = NoEvent
  /\ out = <<>> /\ line = <<>> /\ lines = <<>>

Has(v, c) == \E i \in DOMAIN v : v[i] = c
AllDigits(v) == v # <<>> /\ \A i \in DOMAIN v : v[i] \in {"9", "HUGE"}

\* Mutant: no line feed after a data field.
ProcessFieldBare(e, n, v) ==
  CASE n = <<"data">> -> [e EXCEPT !.data = @ \o v]
    [] n = <<"event">> -> [e EXCEPT !.type = v]
    [] n = <<"id">> -> IF Has(v, "NUL") THEN e ELSE [e EXCEPT !.id = v]
    [] n = <<"retry">> -> IF AllDigits(v) /\ ~Has(v, "HUGE") THEN [e EXCEPT !.retry = v] ELSE e
    [] OTHER -> e

ProcessField(e, n, v) ==
  CASE n = <<"data">> -> [e EXCEPT !.data = @ \o Append(v, "LF")]
    [] n = <<"event">> -> [e EXCEPT !.type = v]
    [] n = <<"id">> -> IF Has(v, "NUL") THEN e ELSE [e EXCEPT !.id = v]
    [] n = <<"retry">> -> IF AllDigits(v) /\ ~Has(v, "HUGE") THEN [e EXCEPT !.retry = v] ELSE e
    [] OTHER -> e

\* Strips the line feed after the last data field.  Without data the code
\* reads the byte before an empty string: part of the string's length or of
\* the heap block's, which is no line feed.
Stripped(e) ==
  IF e.data # <<>> /\ Last(e.data) = "LF" THEN [e EXCEPT !.data = Front(@)] ELSE e

Dispatched(e) ==
  IF e.data # <<>> \/ e.type # <<>> \/ e.id # <<>> THEN <<Stripped(e)>> ELSE <<>>

\* Mutant: the type of an event is that of the next, too.
ClearedKeepingType(e) == [e EXCEPT !.data = <<>>]

\* id and retry persist.
Cleared(e) == [e EXCEPT !.type = <<>>, !.data = <<>>]

----------------------------------------------------------------------------
\* strip_utf8_bom: the first chunk begins with a byte order mark, or is empty.
FirstChunk ==
  /\ state = "init"
  /\ state' = "start_line"
  /\ out' = <<>>
  /\ UNCHANGED <<last_was_cr, name, value, event, line, lines>>

\* The line feed of a CR LF pair.
SkipLineFeed ==
  /\ last_was_cr
  /\ last_was_cr' = FALSE
  /\ state' = IF state = "init" THEN "start_line" ELSE state
  /\ out' = <<>>
  /\ UNCHANGED <<name, value, event, line, lines>>

IsPair(c) == last_was_cr /\ c = "LF"

EndLine(c) ==
  /\ c \in {"CR", "LF"} /\ ~IsPair(c)
  /\ IF state \in {"init", "start_line"}
     THEN /\ out' = Dispatched(event)
          /\ event' = Cleared(event)
          /\ lines' = <<>>
     ELSE /\ out' = <<>>
          /\ event' = CASE state = "in_comment" -> event
                        [] state = "in_field_name" -> ProcessField(event, name, <<>>)
                        [] OTHER -> ProcessField(event, name, value)
          /\ Len(lines) < MaxLines
          /\ lines' = Append(lines, line)
  /\ state' = "start_line" /\ name' = <<>> /\ value' = <<>>
  /\ last_was_cr' = (c = "CR")
  /\ line' = <<>>

StripsSpace(c) == c = " " /\ state = "after_colon"

Append1(c) ==
  /\ c \notin {"CR", "LF"}
  /\ \E l \in Lines : IsPrefix(Append(line, c), l)
  /\ CASE state \in {"init", "start_line"} ->
            /\ state' = IF c = ":" THEN "in_comment" ELSE "in_field_name"
            /\ name' = IF c = ":" THEN name ELSE Append(name, c)
            /\ UNCHANGED value
       [] state = "in_comment" -> UNCHANGED <<state, name, value>>
       [] state = "in_field_name" ->
            /\ state' = IF c = ":" THEN "after_colon" ELSE state
            /\ name' = IF c = ":" THEN name ELSE Append(name, c)
            /\ UNCHANGED value
       [] state \in {"after_colon", "in_field_value"} ->
            /\ state' = "in_field_value"
            /\ value' = IF StripsSpace(c) THEN value ELSE Append(value, c)
            /\ UNCHANGED name
  /\ last_was_cr' = FALSE
  /\ out' = <<>>
  /\ line' = Append(line, c)
  /\ UNCHANGED <<event, lines>>

\* last_was_cr_ is kept.
Reset ==
  /\ state' = "init" /\ name' = <<>> /\ value' = <<>> /\ event' = NoEvent
  /\ out' = <<>> /\ line' = <<>> /\ lines' = <<>>
  /\ UNCHANGED last_was_cr

Next ==
  \/ FirstChunk \/ SkipLineFeed \/ Reset
  \/ \E c \in {"CR", "LF"} : EndLine(c)
  \/ \E c \in Chars : Append1(c)

Spec == Init /\ [][Next]_vars

----------------------------------------------------------------------------
Text == Seq(Chars)

\* The members keep their types; a name and a value exist only inside a field,
\* and what data holds ends with the line feed that dispatch will strip.
TypeOK ==
  /\ state \in States /\ last_was_cr \in BOOLEAN
  /\ name \in Text /\ value \in Text
  /\ event \in [id : Text, type : Text, data : Text, retry : Text]
  /\ Len(out) <= 1
  /\ name # <<>> => state \in {"in_field_name", "after_colon", "in_field_value"}
  /\ value # <<>> => state = "in_field_value"
  /\ event.data # <<>> => Last(event.data) = "LF"

Meaning ==
  INSTANCE EventStream WITH afterCr <- last_was_cr, id <- event.id, retry <- event.retry

\* Whatever the order of lines and wherever chunks end, on_event sees the
\* events that the lines mean: fields split at the first colon, one space
\* dropped, data lines joined, id and retry carried over, nothing of a
\* finished event or of a line before reset left in the next.
ImplementsEventStream == Meaning!Spec
=============================================================================
