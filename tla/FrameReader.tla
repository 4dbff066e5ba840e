---------------------------- MODULE FrameReader ----------------------------
(***************************************************************************)
(* What an engine's handlers are promised about the peer's frames, however *)
(* the bytes arrive: the header of each frame once and in order, then its  *)
(* payload, whole if it is of a kind that waits and otherwise in chunks    *)
(* that cover it.  H2Engine and H2Link read frames this way.               *)
(***************************************************************************)
EXTENDS Naturals, Sequences

CONSTANT Peers    \* the sequences of frames a peer may send

VARIABLES
  frames,     \* what this peer sends
  current,    \* the frame whose header was handled last, 0 before the first
  handled     \* how much of its payload was handled

vars == <<frames, current, handled>>

Init ==
  /\ frames \in Peers
  /\ current = 0
  /\ handled = 0

ReadFrameHeader ==
  /\ current < Len(frames)
  /\ current > 0 => handled = frames[current].length
  /\ current' = current + 1
  /\ handled' = 0
  /\ UNCHANGED frames

ReadPayload(n) ==
  /\ current > 0
  /\ handled + n <= frames[current].length
  /\ frames[current].waits => n = frames[current].length
  /\ handled' = handled + n
  /\ UNCHANGED <<frames, current>>

Next == ReadFrameHeader \/ (current > 0 /\ \E n \in 1 .. frames[current].length : ReadPayload(n))

Spec == Init /\ [][Next]_vars
=============================================================================
