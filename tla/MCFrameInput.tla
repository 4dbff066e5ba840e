---------------------------- MODULE MCFrameInput ----------------------------
(* Instances of FrameInput for TLC: every wire of up to MaxFrames frames.   *)
EXTENDS FrameInput, SequencesExt

CONSTANTS MaxFrames, Lengths

Kinds == [length : Lengths, waits : BOOLEAN]

\* How many bytes come before frame k.
Before(preface, frames, k) ==
  FoldLeft(LAMBDA sum, f : sum + HeaderSize + f.length, preface, SubSeq(frames, 1, k - 1))

WireOf(server, valid, frames) ==
  [server |-> server, valid |-> valid, frames |-> frames,
   start |-> [k \in 1 .. Len(frames) + 1 |->
                Before(IF server THEN PrefaceSize ELSE 0, frames, k)]]

AllWires ==
  {WireOf(server, TRUE, frames) : server \in BOOLEAN, frames \in SeqOf(Kinds, MaxFrames)}
    \union {WireOf(TRUE, FALSE, frames) : frames \in SeqOf(Kinds, 1)}
=============================================================================
