----------------------------- MODULE ProxyTunnel -----------------------------
(***************************************************************************)
(* One connection through LocalProxyBridge to an MTProto proxy: protofs-   *)
(* core/src/mtproto/proxy/bridge.rs, with the fake TLS handshake of        *)
(* mtproto.rs.  The Telegram client speaks the Full transport to the       *)
(* bridge, which speaks the padded Intermediate transport to the proxy,    *)
(* under one keystream in each direction and, with a fake TLS secret, cut  *)
(* into TLS records.                                                       *)
(*                                                                         *)
(* Lengths are counted in words of 4 bytes.  A frame is a length and that  *)
(* many words of payload and padding; an encrypted payload has 2 words and *)
(* then a multiple of 4, at least 6 in all; a plain one has 5 words, the   *)
(* last of which is the length of the rest, and a short one (an error      *)
(* code) is one word.  The word i of frame f is <<f, i>>, word 0 its       *)
(* length, and Noise is what a word decrypted at the wrong place of the    *)
(* keystream becomes.                                                      *)
(***************************************************************************)
EXTENDS Sequences, Naturals

CONSTANTS
    ClientShapes,   \* the frames the client sends: [kind, len, pad]
    ServerShapes,   \* those the proxy sends, which pads them
    FramesEach,     \* how many frames each end sends
    MaxRecord       \* the words a record holds (16384 bytes)

VARIABLES
    phase,          \* "connect", "hello", "init", "tunnel" or "closed"
    tls,            \* the secret is a fake TLS one
    asked,          \* the frames the client has sent
    upBuf,          \* out_frame: the words not yet written upstream
    upWire,         \* the records on the way up
    txPos,          \* the words tx_cipher has encrypted
    told,           \* the frames the proxy has sent
    unsent,         \* the words of them the proxy has still to write
    downWire,       \* the records on the way down
    rxPos,          \* the words rx_cipher has decrypted
    rxBuf,          \* rx_stream_buf
    seqNo,          \* server_seq_no
    got,            \* what the client has received: <<number, length>>
    proxy           \* the other end: what it has read, sent and got

upVars == <<asked, upBuf, upWire, txPos>>
downVars == <<told, unsent, downWire, rxPos, rxBuf, seqNo, got>>
tunnelVars == <<phase, tls, upVars, downVars, proxy>>

\* Bound on the records the proxy has on the way.
MaxOnWire == 1

Noise == <<0, 0>>
Words(f, shape) == [i \in 1 .. 1 + shape.len + shape.pad |-> <<f, i - 1>>]

\* A record: its words and the place of the first one in the keystream.
Record(pos, words) == [type |-> "data", pos |-> pos, words |-> words]
Skipped == [type |-> "skip", pos |-> 0, words |-> <<>>]

\* A record of random bytes, of which none is in the keystream.
Random == Record(1, <<Noise>>)
Take(words) == SubSeq(words, 1, IF Len(words) < MaxRecord THEN Len(words) ELSE MaxRecord)
Rest(words, n) == SubSeq(words, n + 1, Len(words))

Decrypted(r, pos) ==
    IF r.pos = pos THEN r.words ELSE [i \in 1 .. Len(r.words) |-> Noise]

-----------------------------------------------------------------------------
\* strip_mtproto_padding: what is left of the n words of a frame.  One too
\* short for its kind, a padded error code among them, stays as it is.
StripMtprotoPadding(shape) ==
    LET n == shape.len + shape.pad IN
    IF shape.kind = "plain" THEN IF n >= 5 THEN shape.len ELSE n
    ELSE IF n >= 6 THEN n - ((n - 2) % 4) ELSE n

\* What arrives of a frame: all but its padding, and of a short one all.
Kept(shape) == IF shape.kind = "short" THEN shape.len + shape.pad ELSE shape.len

\* A frame is complete, or what should be a length is not one.
Ready(buf, frames) ==
    /\ buf # <<>>
    /\ Head(buf) # Noise /\ Head(buf)[2] = 0 =>
           LET s == frames[Head(buf)[1]] IN Len(buf) > s.len + s.pad

-----------------------------------------------------------------------------
\* handle_socks5_client tells the client it is connected before it greets
\* the proxy; the Telegram client may write at once.
Connect ==
    /\ phase = "connect"
    /\ phase' = IF tls THEN "hello" ELSE "init"
    /\ UNCHANGED <<tls, upVars, downVars, proxy>>

\* The proxy answers the hello with a handshake record, and, if it sends one,
\* a change of cipher; or it goes on, as TLS 1.3 does, with a record of
\* application data, here of random bytes.
Greet ==
    /\ phase = "hello" /\ proxy.greeted = "no"
    /\ \/ /\ downWire' \in {<<Skipped>>, <<Skipped, Skipped>>}
          /\ proxy' = [proxy EXCEPT !.greeted = "plain"]
       \/ /\ downWire' = <<Skipped, Skipped, Random>>
          /\ proxy' = [proxy EXCEPT !.greeted = "data"]
    /\ UNCHANGED <<phase, tls, upVars, told, unsent, rxPos, rxBuf, seqNo, got>>

\* fake_tls_handshake reads one record; what follows it is left to the tunnel.
Greeted ==
    /\ phase = "hello" /\ downWire # <<>> /\ phase' = "init"
    /\ downWire' = Tail(downWire)
    /\ UNCHANGED <<tls, upVars, told, unsent, rxPos, rxBuf, seqNo, got, proxy>>

\* generate_init_header: the header is the first word of the keystream.
SendInit ==
    /\ phase = "init" /\ phase' = "tunnel"
    /\ upWire' = Append(upWire, Record(txPos, <<<<0, 1>>>>))
    /\ txPos' = txPos + 1
    /\ UNCHANGED <<tls, asked, upBuf, downVars, proxy>>

\* A read or a write failed, or an end closed: select! ends both directions.
Close ==
    /\ phase # "closed" /\ phase' = "closed"
    /\ UNCHANGED <<tls, upVars, downVars, proxy>>

-----------------------------------------------------------------------------
\* client_to_up: one Full frame is read, stripped of its number and its
\* checksum, and encrypted.
ReadClient ==
    /\ phase = "tunnel" /\ upBuf = <<>> /\ Len(asked) < FramesEach
    /\ \E s \in ClientShapes :
         /\ asked' = Append(asked, s)
         /\ upBuf' = Words(Len(asked) + 1, s)
    /\ UNCHANGED <<phase, tls, upWire, txPos, downVars, proxy>>

\* Mutant: the keystream starts again with each record.
WriteUpRestarted ==
    /\ phase = "tunnel" /\ upBuf # <<>>
    /\ LET chunk == IF tls THEN Take(upBuf) ELSE upBuf IN
       /\ upWire' = Append(upWire, Record(1, chunk))
       /\ upBuf' = Rest(upBuf, Len(chunk))
       /\ txPos' = txPos + Len(chunk)
    /\ UNCHANGED <<phase, tls, asked, downVars, proxy>>

\* It goes in records of 16384 bytes, or at once.
WriteUp ==
    /\ phase = "tunnel" /\ upBuf # <<>>
    /\ LET chunk == IF tls THEN Take(upBuf) ELSE upBuf IN
       /\ upWire' = Append(upWire, Record(txPos, chunk))
       /\ upBuf' = Rest(upBuf, Len(chunk))
       /\ txPos' = txPos + Len(chunk)
    /\ UNCHANGED <<phase, tls, asked, downVars, proxy>>

-----------------------------------------------------------------------------
\* The proxy reads a record, and a frame once it is complete.
ProxyReads ==
    /\ upWire # <<>> /\ upWire' = Tail(upWire)
    /\ LET words == Decrypted(Head(upWire), proxy.pos)
           new == proxy.buf \o (IF proxy.pos = 0 THEN <<>> ELSE words)
           whole == Ready(new, asked)
           frame == Head(new)
           s == asked[frame[1]]
       IN proxy' = [proxy EXCEPT
            !.pos = @ + Len(words),
            !.buf = IF ~ whole THEN new
                    ELSE IF frame = Noise THEN <<>> ELSE Rest(new, 1 + s.len + s.pad),
            !.got = IF ~ whole THEN @ ELSE Append(@, IF frame = Noise THEN Noise
                                                     ELSE <<Len(@), Kept(s)>>)]
    /\ UNCHANGED <<phase, tls, asked, upBuf, txPos, downVars>>

\* It answers once it has the header, in records of any length.
ProxySends ==
    /\ proxy.pos > 0 /\ Len(told) < FramesEach
    /\ \E s \in ServerShapes :
         /\ told' = Append(told, s)
         /\ unsent' = unsent \o Words(Len(told) + 1, s)
    /\ UNCHANGED <<phase, tls, upVars, downWire, rxPos, rxBuf, seqNo, got, proxy>>

ProxyWrites ==
    /\ unsent # <<>> /\ Len(downWire) < MaxOnWire
    /\ \E n \in 1 .. Len(Take(unsent)) :
         /\ downWire' = Append(downWire, Record(proxy.sent, SubSeq(unsent, 1, n)))
         /\ unsent' = Rest(unsent, n)
         /\ proxy' = [proxy EXCEPT !.sent = @ + n]
    /\ UNCHANGED <<phase, tls, upVars, told, rxPos, rxBuf, seqNo, got>>

-----------------------------------------------------------------------------
\* Mutant: a record that carries no data takes a place in the keystream.
ReadUpstreamAny ==
    /\ phase = "tunnel" /\ ~ Ready(rxBuf, told) /\ downWire # <<>>
    /\ downWire' = Tail(downWire)
    /\ rxBuf' = rxBuf \o Decrypted(Head(downWire), rxPos)
    /\ rxPos' = rxPos + (IF Head(downWire).type = "skip" THEN 1 ELSE Len(Head(downWire).words))
    /\ UNCHANGED <<phase, tls, upVars, told, unsent, seqNo, got, proxy>>

\* up_to_client reads a record once no frame is left in the buffer, or while
\* a length that is noise is more than the buffer holds.  Records of a
\* handshake are dropped before the keystream is applied.
ReadUpstream ==
    /\ phase = "tunnel" /\ downWire # <<>>
    /\ Ready(rxBuf, told) => Head(rxBuf) = Noise
    /\ downWire' = Tail(downWire)
    /\ LET r == Head(downWire) IN
       IF r.type = "skip" THEN UNCHANGED <<rxBuf, rxPos>>
       ELSE /\ rxBuf' = rxBuf \o Decrypted(r, rxPos)
            /\ rxPos' = rxPos + Len(r.words)
    /\ UNCHANGED <<phase, tls, upVars, told, unsent, seqNo, got, proxy>>

\* Each complete frame goes to the client with the next number, and its
\* words leave the buffer.
ForwardFrame ==
    /\ phase = "tunnel" /\ Ready(rxBuf, told)
    /\ seqNo' = seqNo + 1
    /\ LET frame == Head(rxBuf) IN
       IF frame = Noise \/ frame[2] # 0
       THEN got' = Append(got, Noise) /\ rxBuf' = <<>>
       ELSE LET s == told[frame[1]] IN
            /\ got' = Append(got, <<seqNo, StripMtprotoPadding(s)>>)
            /\ rxBuf' = Rest(rxBuf, 1 + s.len + s.pad)
    /\ UNCHANGED <<phase, tls, upVars, told, unsent, downWire, rxPos, proxy>>

TunnelNext ==
    \/ Connect \/ Greet \/ Greeted \/ SendInit \/ Close
    \/ ReadClient \/ WriteUp \/ ProxyReads \/ ProxySends \/ ProxyWrites
    \/ ReadUpstream \/ ForwardFrame

TunnelInit ==
    /\ phase = "connect" /\ tls \in BOOLEAN
    /\ asked = <<>> /\ upBuf = <<>> /\ upWire = <<>> /\ txPos = 0
    /\ told = <<>> /\ unsent = <<>> /\ downWire = <<>>
    /\ rxPos = 0 /\ rxBuf = <<>> /\ seqNo = 0 /\ got = <<>>
    /\ proxy = [greeted |-> "no", pos |-> 0, buf |-> <<>>, sent |-> 0, got |-> <<>>]

-----------------------------------------------------------------------------
\* The greeting had a record that handle_mtproto_tunnel takes for data.
Misgreeted == proxy.greeted = "data"

TunnelTypeOK ==
    /\ phase \in {"connect", "hello", "init", "tunnel", "closed"} /\ tls \in BOOLEAN
    /\ \A i \in DOMAIN asked : asked[i] \in ClientShapes
    /\ \A i \in DOMAIN told : told[i] \in ServerShapes
    /\ {txPos, rxPos, seqNo, proxy.pos, proxy.sent} \subseteq Nat
    /\ proxy.greeted \in {"no", "plain", "data"}
    /\ txPos >= proxy.pos /\ (~ Misgreeted => proxy.sent >= rxPos)

Numbered(frames) == [i \in DOMAIN frames |-> <<i - 1, Kept(frames[i])>>]
Numbers(shapes) == (0 .. FramesEach) \X {Kept(s) : s \in shapes}

Up == INSTANCE FrameChannel WITH
    Frames <- Numbers(ClientShapes), sent <- Numbered(asked), got <- proxy.got
Down == INSTANCE FrameChannel WITH
    Frames <- Numbers(ServerShapes), sent <- Numbered(told), got <- got

\* Whatever the records the frames are cut into and whenever the tunnel
\* closes, what the proxy receives is the client's first frames, in order, and
\* what the client receives is the proxy's, numbered from 0 and without their
\* padding, with two exceptions: a padded error code keeps its padding, and
\* after a greeting that ends with application data nothing is promised to
\* the client.
TunnelKeepsFrames ==
    /\ Up!ChannelSpec
    /\ Numbered(told) = <<>> /\ got = <<>>
    /\ [][Misgreeted \/ Down!Send \/ Down!Receive]_<<told, got>>
=============================================================================
