---------------------------- MODULE FrameChannel ----------------------------
(***************************************************************************)
(* What a tunnel promises to either end: the frames one end sends arrive   *)
(* at the other whole, once and in the order they were sent, until the     *)
(* tunnel closes.                                                          *)
(***************************************************************************)
EXTENDS Sequences, Naturals

CONSTANT Frames
VARIABLES sent, got

Send == /\ \E f \in Frames : sent' = Append(sent, f)
        /\ UNCHANGED got

Receive == /\ Len(got) < Len(sent)
           /\ got' = Append(got, sent[Len(got) + 1])
           /\ UNCHANGED sent

ChannelSpec == sent = <<>> /\ got = <<>> /\ [][Send \/ Receive]_<<sent, got>>
=============================================================================
