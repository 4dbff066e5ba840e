------------------------------ MODULE Exchange ------------------------------
(***************************************************************************)
(* What a protocol engine promises for one message body per direction and  *)
(* stream, whatever the wire format: the receiver sees exactly the bytes   *)
(* that were accepted, and is told the stream is closed once, after the    *)
(* last of them.                                                           *)
(***************************************************************************)
EXTENDS Naturals

CONSTANTS Directions, MaxBody

VARIABLES
  accepted,     \* bytes send_data accepted
  finished,     \* END_STREAM was accepted
  delivered,    \* bytes the receiver got in data events
  closed        \* the receiver got stream_closed

vars == <<accepted, finished, delivered, closed>>

Init ==
  /\ accepted = [d \in Directions |-> 0]
  /\ finished = [d \in Directions |-> FALSE]
  /\ delivered = [d \in Directions |-> 0]
  /\ closed = [d \in Directions |-> FALSE]

Accept(d, n, end) ==
  /\ ~finished[d]
  /\ accepted[d] + n <= MaxBody
  /\ accepted' = [accepted EXCEPT ![d] = @ + n]
  /\ finished' = [finished EXCEPT ![d] = end]
  /\ UNCHANGED <<delivered, closed>>

Deliver(d, n) ==
  /\ ~closed[d]
  /\ delivered[d] + n <= accepted[d]
  /\ delivered' = [delivered EXCEPT ![d] = @ + n]
  /\ UNCHANGED <<accepted, finished, closed>>

Close(d) ==
  /\ ~closed[d]
  /\ finished[d]
  /\ delivered[d] = accepted[d]
  /\ closed' = [closed EXCEPT ![d] = TRUE]
  /\ UNCHANGED <<accepted, finished, delivered>>

Next ==
  \E d \in Directions :
    \/ \E n \in 0 .. MaxBody, end \in BOOLEAN : Accept(d, n, end)
    \/ \E n \in 1 .. MaxBody : Deliver(d, n)
    \/ Close(d)

Spec == Init /\ [][Next]_vars
=============================================================================
