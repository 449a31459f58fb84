----------------------------- MODULE MsgSplitter -----------------------------
(***************************************************************************)
(* MsgSplitter of proxy/bridge.py: cuts the byte stream of a client into   *)
(* the packets of its MTProto transport, so that each becomes one          *)
(* WebSocket frame.  A splitter is a record [buf, off]: the bytes it keeps *)
(* and whether it has disabled itself.  The code keeps the bytes twice,    *)
(* encrypted and decrypted, always the same number of each; only the       *)
(* decrypted ones decide where to cut, so buf stands for both.             *)
(***************************************************************************)
EXTENDS Integers, Sequences

Protos == {"abridged", "intermediate"}  \* the padded form is cut like the latter

Byte == 0 .. 255

Incomplete == -1  \* None: more bytes are needed to tell

NewSplitter == [buf |-> <<>>, off |-> FALSE]

\* Mutant: the quick-ack form of the extended header is not known.
ExtendedNoAck(first) == first = 127

Extended(first) == first \in {127, 255}

\* The length of the packet that `rest` starts with; 0 if that makes no sense.
AbridgedLen(rest) ==
    LET header == IF Extended(rest[1]) THEN 4 ELSE 1
        payload == 4 * (IF Extended(rest[1]) THEN rest[2] + 256 * rest[3] + 65536 * rest[4]
                                             ELSE rest[1] % 128)
    IN  IF Len(rest) < header THEN Incomplete
        ELSE IF payload = 0 THEN 0
        ELSE IF Len(rest) < header + payload THEN Incomplete
        ELSE header + payload

\* Mutant: the header is not counted.
IntermediateLenBare(rest) ==
    LET payload == rest[1] + 256 * rest[2] + 65536 * rest[3] + 16777216 * (rest[4] % 128)
    IN  IF Len(rest) < 4 THEN Incomplete
        ELSE IF payload = 0 THEN 0
        ELSE IF Len(rest) < payload THEN Incomplete
        ELSE payload

IntermediateLen(rest) ==
    LET payload == rest[1] + 256 * rest[2] + 65536 * rest[3] + 16777216 * (rest[4] % 128)
    IN  IF Len(rest) < 4 THEN Incomplete
        ELSE IF payload = 0 THEN 0
        ELSE IF Len(rest) - 4 < payload THEN Incomplete
        ELSE 4 + payload

NextLen(proto, rest) ==
    IF rest = <<>> THEN Incomplete
    ELSE IF proto = "abridged" THEN AbridgedLen(rest) ELSE IntermediateLen(rest)

\* split(): the frames to send now, and the splitter afterwards.  Walk[o] is the
\* loop from offset o on.
Split(proto, sp, chunk) ==
    LET all == sp.buf \o chunk
        From(o) == SubSeq(all, o + 1, Len(all))
        Walk[o \in 0 .. Len(all)] ==
            LET n == NextLen(proto, From(o)) IN
            IF n = Incomplete THEN [parts |-> <<>>, kept |-> From(o), off |-> FALSE]
            ELSE IF n = 0 THEN [parts |-> <<From(o)>>, kept |-> <<>>, off |-> TRUE]
            ELSE [Walk[o + n] EXCEPT !.parts = <<SubSeq(all, o + 1, o + n)>> \o @]
    IN  IF sp.off THEN [parts |-> <<chunk>>, sp |-> sp]
        ELSE [parts |-> Walk[0].parts, sp |-> [buf |-> Walk[0].kept, off |-> Walk[0].off]]

\* Mutant: an empty buffer is flushed as well.
FlushAlways(sp) == [parts |-> <<sp.buf>>, sp |-> [sp EXCEPT !.buf = <<>>]]

\* flush(): what is kept goes out as it is.
Flush(sp) ==
    [parts |-> IF sp.buf = <<>> THEN <<>> ELSE <<sp.buf>>, sp |-> [sp EXCEPT !.buf = <<>>]]

=============================================================================
