----------------------------- MODULE MCH2Engine -----------------------------
(* Instances of H2Engine for TLC: the peers that each run puts opposite.   *)
EXTENDS H2Engine

Credits == {WindowUpdate(s, 2) : s \in Streams \union {0}}

Responses == {Data(1, n, end) : n \in {0, 2}, end \in BOOLEAN} \union {Headers(1, end) : end \in BOOLEAN}

SettingsFrames == {Settings(setting) : setting \in {<<>>, <<1>>, <<3>>}}

Errors == {WindowUpdate(0, 0), Goaway(0), Goaway(1), Goaway(2), SettingsAck, Frame("rst_stream", 1, 2, FALSE, 0)}

AnyFrame == Credits \union Responses \union SettingsFrames \union Errors

\* The peer of a sender: it grants and shrinks windows, and may answer before it read the request.
SenderPeer == Credits \union SettingsFrames \union {Data(1, 1, TRUE)}

=============================================================================
