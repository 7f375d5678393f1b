------------------------------ MODULE TunnelPart ------------------------------
(***************************************************************************)
(* A tunnel to a proxy as one part of the sums of MCServices and           *)
(* MCTreeVaultTunnel: ProxyTunnel with requests of two records and answers *)
(* of each kind, padded by a word and cut anywhere.                        *)
(***************************************************************************)
EXTENDS Naturals, Sequences

CONSTANTS ClientShapes, ServerShapes, FramesEach, MaxRecord

VARIABLES
    phase, tls, asked, upBuf, upWire, txPos, told, unsent, downWire, rxPos,
    rxBuf, seqNo, got, proxy

\* The frames are those of MTProto: what a proxy sends is padded as the padded
\* Intermediate transport pads it, by less than 16 bytes, a client's frame not.
ASSUME TunnelAssumption ==
    /\ FramesEach \in Nat /\ MaxRecord \in Nat
    /\ \A s \in ClientShapes \cup ServerShapes :
         /\ s \in [kind : {"encrypted", "plain", "short"}, len : Nat, pad : Nat]
         /\ s.kind = "encrypted" => s.len >= 6 /\ (s.len - 2) % 4 = 0
         /\ s.kind = "plain" => s.len >= 5
         /\ s.kind = "short" => s.len = 1
    /\ \A s \in ClientShapes : s.pad = 0
    /\ \A s \in ServerShapes : s.pad < 4

Shape(kind, len, pad) == [kind |-> kind, len |-> len, pad |-> pad]
ClientFrames == {Shape("encrypted", 6, 0)}
ServerFrames == {Shape("encrypted", 6, 1), Shape("plain", 5, 1), Shape("short", 1, 1)}

T == INSTANCE ProxyTunnel

tunnelVars == <<phase, tls, asked, upBuf, upWire, txPos, told, unsent, downWire, rxPos,
                rxBuf, seqNo, got, proxy>>

\* Either end of the tunnel gets the other's frames whole and in order, the
\* client's after a greeting without application data.
TunnelKeepsFrames == T!TunnelKeepsFrames
=============================================================================
