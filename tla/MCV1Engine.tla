----------------------------- MODULE MCV1Engine -----------------------------
(* Instances of V1Engine for TLC: the messages that the runs exchange.     *)
EXTENDS V1Engine

Msg(bodyless, length, framing, n, close, extra) ==
  [bodyless |-> bodyless, length |-> length, end |-> framing = "none" \/ n = 0, close |-> close,
   interim |-> extra = "interim", expect |-> extra = "expect", framing |-> framing, n |-> n]

AllRequests ==
  {Msg(FALSE, -1, "none", 0, FALSE, ""),
   Msg(TRUE, -1, "none", 0, FALSE, ""),
   Msg(FALSE, BodyMax, "length", BodyMax, FALSE, ""),
   Msg(FALSE, -1, "chunked", BodyMax, FALSE, ""),
   Msg(FALSE, BodyMax, "length", BodyMax, TRUE, "expect")}

AllResponses ==
  {Msg(FALSE, -1, "none", 0, FALSE, ""),
   Msg(TRUE, -1, "none", 0, FALSE, "interim"),
   Msg(FALSE, 0, "length", 0, FALSE, ""),
   Msg(FALSE, BodyMax, "length", BodyMax, FALSE, ""),
   Msg(FALSE, -1, "chunked", BodyMax, FALSE, ""),
   Msg(FALSE, BodyMax, "length", BodyMax, TRUE, ""),
   Msg(FALSE, 0, "bad", 0, FALSE, "")}
=============================================================================
