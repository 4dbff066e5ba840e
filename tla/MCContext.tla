----------------------------- MODULE MCContext -----------------------------
(* Instances of Context for TLC: the peers of its clients and servers.      *)
EXTENDS Context

\* A peer that answers, resets and grants, on one stream in full and on the
\* others by credit and resets alone.
AppPeer ==
  {Headers(1, end) : end \in BOOLEAN} \union {Data(1, 1, TRUE), Frame("rst_stream", 1, 2, FALSE, 0)}
    \union {Headers(3, TRUE), WindowUpdate(0, 2), WindowUpdate(1, 2)}
=============================================================================
