---------------------------- MODULE ClientStream ----------------------------
(***************************************************************************)
(* The way of a client's bytes to the WebSocket: the TCP stream or the     *)
(* records of FakeTlsStream (proxy/fake_tls.py), the handshake read of     *)
(* _read_client_init, and the tcp_to_ws half of bridge_ws_reencrypt with   *)
(* its MsgSplitter (proxy/bridge.py).                                      *)
(*                                                                         *)
(* The client writes `packets` after its handshake; `sent` is all of it.   *)
(* How TCP segments and the client's TLS records cut that stream is chosen *)
(* as it is read.  Re-encryption keeps lengths and order and is left out.  *)
(* A CCS record is skipped without a trace and has no step here.           *)
(***************************************************************************)
EXTENDS MsgSplitter, SequencesExt

CONSTANTS Init0,       \* the bytes of the handshake (HANDSHAKE_LEN = 64 of them)
          Packets,     \* Packets[proto]: packets a client may write
          MaxPackets,  \* how many it writes at most
          ReadSize,    \* the argument of read() in tcp_to_ws
          MaxRecord    \* the longest TLS record of the client

ASSUME StreamAssumption ==
    /\ Init0 \in Seq(Byte)
    /\ \A p \in Protos : \A b \in Packets[p] : b \in Seq(Byte) /\ b # <<>>
    /\ MaxPackets \in Nat /\ ReadSize \in Nat \ {0} /\ MaxRecord \in Nat \ {0}

\* A packet as a client of either transport writes it: a header that says how long
\* the payload is, and the payload.  This is the protocol, not what the splitter
\* makes of it.
IsPacket(p, b) ==
    \/ /\ p = "abridged" /\ b[1] \notin {127, 255}
       /\ Len(b) = 1 + 4 * (b[1] % 128)
    \/ /\ p = "abridged" /\ b[1] \in {127, 255} /\ Len(b) >= 4
       /\ Len(b) = 4 + 4 * (b[2] + 256 * b[3] + 65536 * b[4])
    \/ /\ p = "intermediate" /\ Len(b) >= 4
       /\ Len(b) = 4 + b[1] + 256 * b[2] + 65536 * b[3] + 16777216 * (b[4] % 128)

\* The client writes packet after packet; only where the splitter cuts depends on it.
ASSUME PacketsAssumption == \A p \in Protos : \A b \in Packets[p] : IsPacket(p, b)

VARIABLES
    proto,    \* the transport the client has announced
    tls,      \* whether it speaks fake TLS
    packets,  \* what it writes after the handshake, packet by packet
    pos,      \* how much of `sent` has been taken off the socket
    left,     \* _read_left: what remains of the current TLS record
    readBuf,  \* _read_buf
    splitter,
    frames,   \* the WebSocket frames sent, without their masks
    pc        \* "init", "relay" or, once tcp_to_ws is over, "eof" or "raised"

vars == <<proto, tls, packets, pos, left, readBuf, splitter, frames, pc>>

sent == Init0 \o FlattenSeq(packets)
Slice(m) == SubSeq(sent, pos + 1, pos + m)
Upto(n) == 1 .. IF n < Len(sent) - pos THEN n ELSE Len(sent) - pos

TypeOK ==
    /\ proto \in Protos /\ tls \in BOOLEAN
    /\ packets \in Seq(Packets[proto])
    /\ pos \in 0 .. Len(sent) /\ left \in 0 .. MaxRecord
    /\ left > 0 => tls
    /\ Len(readBuf) <= MaxRecord + Len(Init0)
    /\ splitter.off \in BOOLEAN /\ (splitter.off => splitter.buf = <<>>)
    /\ \A i \in DOMAIN frames : frames[i] # <<>>
    /\ pc \in {"init", "relay", "eof", "raised"}

Init ==
    /\ proto \in Protos /\ tls \in BOOLEAN
    /\ packets \in BoundedSeq(Packets[proto], MaxPackets)
    /\ pos = 0 /\ left = 0 /\ readBuf = <<>>
    /\ splitter = NewSplitter /\ frames = <<>> /\ pc = "init"

-----------------------------------------------------------------------------
(* FakeTlsStream.                                                          *)

\* _read_tls_payload: some of the current record, or of the next one.
ReadPayload(m) ==
    /\ pos' = pos + m
    /\ \/ left > 0 /\ m \in Upto(left) /\ left' = left - m
       \/ /\ left = 0
          /\ \E len \in 1 .. MaxRecord : m \in Upto(len) /\ left' = len - m

\* readexactly(n): payloads are gathered until there are n bytes.
Gather(n, m) ==
    /\ Len(readBuf) < n
    /\ ReadPayload(m)
    /\ readBuf' = readBuf \o Slice(m)

\* Mutant: what was read beyond the handshake is dropped.
TakeExactlyAll(n) == Len(readBuf) >= n /\ readBuf' = <<>>

TakeExactly(n) == Len(readBuf) >= n /\ readBuf' = SubSeq(readBuf, n + 1, Len(readBuf))

\* read(n), which has bytes to give.
Read(n, chunk) ==
    \/ /\ readBuf # <<>>
       /\ chunk = SubSeq(readBuf, 1, IF n < Len(readBuf) THEN n ELSE Len(readBuf))
       /\ readBuf' = SubSeq(readBuf, Len(chunk) + 1, Len(readBuf))
       /\ UNCHANGED <<pos, left>>
    \/ /\ readBuf = <<>>
       /\ \E m \in 1 .. MaxRecord :
             /\ ReadPayload(m)
             /\ chunk = SubSeq(Slice(m), 1, IF n < m THEN n ELSE m)
             /\ readBuf' = SubSeq(Slice(m), Len(chunk) + 1, m)

-----------------------------------------------------------------------------
(* The handler and tcp_to_ws.                                              *)

Handshake ==
    /\ pc = "init"
    /\ \/ /\ ~tls /\ pos' = Len(Init0) /\ pc' = "relay"
          /\ UNCHANGED <<left, readBuf>>
       \/ /\ tls /\ TakeExactly(Len(Init0)) /\ pc' = "relay"
          /\ UNCHANGED <<pos, left>>
       \/ /\ tls /\ (\E m \in 1 .. MaxRecord : Gather(Len(Init0), m))
          /\ UNCHANGED pc
    /\ UNCHANGED <<proto, tls, packets, splitter, frames>>

Chunks == {SubSeq(readBuf, 1, m) : m \in 1 .. Len(readBuf)} \cup {Slice(m) : m \in Upto(ReadSize)}

Relay ==
    /\ pc = "relay"
    /\ \E chunk \in Chunks :
          /\ \/ ~tls /\ pos' = pos + Len(chunk) /\ UNCHANGED <<left, readBuf>>
             \/ tls /\ Read(ReadSize, chunk)
          /\ LET out == Split(proto, splitter, chunk)
             IN  splitter' = out.sp /\ frames' = frames \o out.parts
    /\ UNCHANGED <<proto, tls, packets, pc>>

\* read() returns nothing: TCP has ended, inside a record if this is TLS, or the
\* client has sent a record that is not application data.
Eof ==
    /\ pc = "relay" /\ readBuf = <<>>
    /\ LET out == Flush(splitter)
       IN  splitter' = out.sp /\ frames' = frames \o out.parts
    /\ pc' = "eof"
    /\ UNCHANGED <<proto, tls, packets, pos, left, readBuf>>

\* TCP ends between two records: IncompleteReadError leaves tcp_to_ws.
EofBetweenRecords ==
    /\ pc = "relay" /\ tls /\ left = 0 /\ readBuf = <<>>
    /\ pc' = "raised"
    /\ UNCHANGED <<proto, tls, packets, pos, left, readBuf, splitter, frames>>

Next == Handshake \/ Relay \/ Eof \/ EofBetweenRecords

Spec == Init /\ [][Next]_vars

-----------------------------------------------------------------------------
(* Properties.                                                             *)

\* Whatever the segments and records: every byte after the handshake is sent once
\* and in order, but for those the two buffers hold.
NothingLost ==
    pc # "init" =>
        FlattenSeq(frames) \o splitter.buf \o readBuf = SubSeq(sent, Len(Init0) + 1, pos)

\* A packet whose length is zero, behind which nothing can be told apart.
Senseless(b) ==
    \/ proto = "abridged" /\ (b[1] % 128 = 0 \/ (b[1] \in {127, 255} /\ b[2] + b[3] + b[4] = 0))
    \/ proto = "intermediate" /\ b[1] + b[2] + b[3] + (b[4] % 128) = 0

\* Each frame is a packet as the client wrote it, until the splitter has given up
\* or the connection has ended; and the splitter gives up only on a senseless packet.
FramesArePackets ==
    LET sane == SelectInSeq(packets, Senseless)
        n == IF sane = 0 THEN Len(packets) ELSE sane - 1
        m == IF pc = "eof" THEN Len(frames) - 1 ELSE Len(frames)
    IN  /\ \A i \in 1 .. n : i <= m => frames[i] = packets[i]
        /\ splitter.off => sane > 0

\* A packet is sent as soon as its last byte has been read.
Prompt ==
    pc # "init" =>
        \A n \in 1 .. Len(packets) :
            /\ \A i \in 1 .. n : ~Senseless(packets[i])
            /\ Len(Init0) + Len(FlattenSeq(SubSeq(packets, 1, n))) <= pos - Len(readBuf)
            => Len(frames) >= n

=============================================================================
