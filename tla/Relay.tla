-------------------------------- MODULE Relay --------------------------------
(***************************************************************************)
(* A connection from its accept to the hand-over to a WebSocket:           *)
(* _read_client_init and _try_handshake (proxy/tg_ws_proxy.py), the relay  *)
(* to the masking domain (proxy/fake_tls.py) and the one to a data centre  *)
(* over TCP, with its ciphers (_tcp_fallback, _bridge_tcp_reencrypt of     *)
(* proxy/bridge.py).                                                       *)
(*                                                                         *)
(* A PROXY line, the first byte, the rest of a TLS header and the body of  *)
(* the first record are one byte long each, the handshake is InitLen.      *)
(* Bytes are numbered; one that is passed on is a pair: its number, 0 if   *)
(* it has been deciphered at a wrong place of the key stream, and the      *)
(* place it is enciphered at, Raw if it is not.  TLS records are the       *)
(* concern of ClientStream.                                                *)
(***************************************************************************)
EXTENDS Integers, Sequences

CONSTANTS Visit,     \* clients and settings: records of `masking` (fake_tls_domain
                     \* is set), `proxied` (proxy_protocol) and `visitor`
          InitLen,   \* HANDSHAKE_LEN
          MaxBytes,  \* bytes a client writes at most
          MaxOffer   \* bytes the other side of a relay writes at most

ASSUME RelayAssumption ==
    /\ \A v \in Visit : /\ {v.masking, v.proxied} \subseteq BOOLEAN
                        /\ v.visitor \in {"obfuscated", "fake_TLS", "probe", "junk"}
    /\ InitLen \in Nat /\ InitLen > 1 /\ MaxBytes \in Nat /\ MaxOffer \in Nat

VARIABLES
    visit,      \* the client and the settings it meets
    stage,      \* where _handle_client is suspended
    arrived,    \* bytes the client has written
    gone,       \* its side is "open", has ended ("eof") or is "broken"
    read,       \* bytes read of it
    answer,     \* what the proxy itself has written to it
    ctx,        \* CryptoCtx: places in the four key streams
    remote,     \* the other side of a relay: "none", "open", "eof", "broken"
    offered,    \* bytes it has written
    heard,      \* bytes read of it
    relay,      \* the coroutines _relay or forward
    writer,     \* transports: "open", "closing" or "closed"
    toRemote,   \* written to the other side
    toClient,   \* written to the client by a relay
    halted      \* asyncio.run has cancelled the tasks

peerVars == <<arrived, gone, remote, offered>>
dataVars == <<read, heard, ctx, toRemote, toClient>>
relayVars == <<visit, stage, answer, relay, writer, halted, peerVars, dataVars>>

Raw == -1
Way == {"up", "down"}

\* Reads that wait_for bounds to ten seconds, and how many bytes they want.
Wanted(s) == IF s = "init" THEN InitLen ELSE IF s = "rest" THEN InitLen - 1 ELSE 1
Waiting == {"line", "first", "header", "body", "init", "rest"}

\* Stages that await a write or a connection: these end by themselves.
Answering == {"hello", "redirect"}
Dialing == {"dialing_mask", "dialing_centre"}
Relaying == {"masked", "tunnel"}
Closing == {"closing_client", "closing_remote", "leaving"}

RelayTypeOK ==
    /\ visit \in Visit
    /\ stage \in Waiting \cup Answering \cup Dialing \cup Relaying \cup Closing
                 \cup {"drop", "greeting", "bridged", "done"}
    /\ arrived \in 0 .. MaxBytes /\ read \in 0 .. arrived
    /\ offered \in 0 .. MaxOffer /\ heard \in 0 .. offered
    /\ gone \in {"open", "eof", "broken"}
    /\ remote \in {"none", "open", "eof", "broken"}
    /\ answer \in {"none", "hello", "redirect"}
    /\ ctx \in [cltDec : Nat, tgEnc : Nat, tgDec : Nat, cltEnc : Nat]
    /\ relay \in [Way -> {"reading", "draining", "closing", "over"}]
    /\ writer \in [{"client", "remote"} -> {"open", "closing", "closed"}]
    /\ halted \in BOOLEAN
    /\ remote = "none" => toRemote = <<>> /\ offered = 0
    /\ stage = "bridged" => ~(visit.masking /\ answer = "none")

RelayInit ==
    /\ visit \in Visit
    /\ stage = IF visit.proxied THEN "line" ELSE "first"
    /\ arrived = 0 /\ gone = "open" /\ read = 0 /\ answer = "none"
    /\ ctx = [cltDec |-> 0, tgEnc |-> 0, tgDec |-> 0, cltEnc |-> 0]
    /\ remote = "none" /\ offered = 0 /\ heard = 0
    /\ relay = [w \in Way |-> "reading"]
    /\ writer = [s \in {"client", "remote"} |-> "open"]
    /\ toRemote = <<>> /\ toClient = <<>> /\ halted = FALSE

-----------------------------------------------------------------------------
(* The two peers.                                                          *)

\* What a client writes after the proxy has closed is not read any more.
VisitorWrites ==
    /\ gone = "open" /\ writer["client"] = "open" /\ stage # "bridged"
    /\ arrived < MaxBytes /\ arrived' = arrived + 1
    /\ UNCHANGED <<visit, stage, answer, relay, writer, halted, gone, remote, offered, dataVars>>

VisitorEnds ==
    /\ gone = "open" /\ stage \notin {"bridged", "done"}
    /\ gone' \in {"eof", "broken"}
    /\ UNCHANGED <<visit, stage, answer, relay, writer, halted, arrived, remote, offered, dataVars>>

RemoteWrites ==
    /\ remote = "open" /\ writer["remote"] = "open" /\ stage # "done"
    /\ offered < MaxOffer /\ offered' = offered + 1
    /\ UNCHANGED <<visit, stage, answer, relay, writer, halted, arrived, gone, remote, dataVars>>

RemoteEnds ==
    /\ remote = "open" /\ stage # "done"
    /\ remote' \in {"eof", "broken"}
    /\ UNCHANGED <<visit, stage, answer, relay, writer, halted, arrived, gone, offered, dataVars>>

\* A transport that is being closed has written what was left in its buffer.
Flushed(side) ==
    /\ writer[side] = "closing"
    /\ writer' = [writer EXCEPT ![side] = "closed"]
    /\ UNCHANGED <<visit, stage, answer, relay, halted, peerVars, dataVars>>

-----------------------------------------------------------------------------
(* _handle_client up to the hand-over.                                     *)

\* The finally clause of _handle_client.
Leave ==
    /\ stage' = "leaving"
    /\ writer' = [writer EXCEPT !["client"] = IF @ = "open" THEN "closing" ELSE @]

Go(next) == stage' = next /\ UNCHANGED writer
Unread == arrived - read

\* The line of a load balancer; at the end of the stream readline() returns
\* what there is.
ReadLine ==
    /\ stage = "line" /\ gone # "broken"
    /\ Unread > 0 \/ gone = "eof"
    /\ read' = IF Unread > 0 THEN read + 1 ELSE read
    /\ Go("first")
    /\ UNCHANGED <<visit, answer, relay, halted, peerVars, heard, ctx, toRemote, toClient>>

Get(n) == gone # "broken" /\ Unread >= n /\ read' = read + n

\* A byte of TLS begins a hello; any other is sent to the site by HTTP.
ReadFirst ==
    /\ stage = "first" /\ Get(1)
    /\ LET next == IF ~visit.masking THEN "rest"
                   ELSE IF visit.visitor \in {"fake_TLS", "probe"} THEN "header" ELSE "redirect"
       IN  /\ Go(next)
           /\ answer' = IF next = "redirect" THEN "redirect" ELSE "none"
    /\ UNCHANGED <<visit, relay, halted, peerVars, heard, ctx, toRemote, toClient>>

ReadHeader ==
    /\ stage = "header" /\ Get(1)
    /\ Go("body")
    /\ UNCHANGED <<visit, answer, relay, halted, peerVars, heard, ctx, toRemote, toClient>>

\* verify_client_hello: the digest needs the secret, and a clock not far off.
ReadBody ==
    /\ stage = "body" /\ Get(1)
    /\ \/ visit.visitor = "fake_TLS" /\ Go("hello") /\ answer' = "hello"
       \/ visit.visitor = "probe" /\ Go("dialing_mask") /\ UNCHANGED answer
    /\ UNCHANGED <<visit, relay, halted, peerVars, heard, ctx, toRemote, toClient>>

\* The drain behind the proxy's own answer.
Answered ==
    /\ stage \in Answering
    /\ \/ gone = "broken" /\ Leave
       \/ gone # "broken" /\ stage = "hello" /\ Go("init")
       \/ gone # "broken" /\ stage = "redirect" /\ Leave
    /\ UNCHANGED <<visit, answer, relay, halted, peerVars, dataVars>>

\* Mutant: a read is not bounded by wait_for.
ReadFailsUntimed ==
    /\ stage \in Waiting
    /\ gone = "broken" \/ (gone = "eof" /\ Unread < Wanted(stage) /\ stage # "line")
    /\ Leave
    /\ UNCHANGED <<visit, answer, relay, halted, peerVars, dataVars>>

\* A read ends without its bytes: time is up, or the client has gone.
ReadFails ==
    /\ stage \in Waiting
    /\ gone = "broken" \/ (Unread < Wanted(stage) /\ (stage = "line" => gone = "open"))
    /\ Leave
    /\ UNCHANGED <<visit, answer, relay, halted, peerVars, dataVars>>

\* Mutant: the decryptor is not moved past the handshake.
BuildCryptoCtxAtZero == ctx' = [ctx EXCEPT !.tgEnc = InitLen]

\* _build_crypto_ctx: the handshakes have used up a piece of two key streams.
BuildCryptoCtx == ctx' = [ctx EXCEPT !.cltDec = InitLen, !.tgEnc = InitLen]

ReadInit == stage \in {"init", "rest"} /\ Get(Wanted(stage))

\* _try_handshake: another secret, or what is no handshake, gives no known tag.
BadHandshake ==
    /\ ReadInit
    /\ visit.visitor # "obfuscated"
    /\ Go("drop")
    /\ UNCHANGED <<visit, answer, relay, halted, peerVars, heard, ctx, toRemote, toClient>>

\* No WebSocket: a connection to the data centre, or every method has failed.
GoodHandshake ==
    /\ ReadInit
    /\ visit.visitor = "obfuscated" \/ stage = "init"
    /\ BuildCryptoCtx
    /\ Go("dialing_centre") \/ Leave
    /\ UNCHANGED <<visit, answer, relay, halted, peerVars, heard, toRemote, toClient>>

\* A WebSocket: from here the session is that of Bridge, which counts anew.
HandOver ==
    /\ stage \in {"init", "rest"} /\ gone # "broken" /\ Unread >= Wanted(stage)
    /\ visit.visitor = "obfuscated" \/ stage = "init"
    /\ Go("bridged") /\ BuildCryptoCtx
    /\ read' = 0 /\ arrived' = 0 /\ gone' = "open"
    /\ UNCHANGED <<visit, answer, relay, halted, remote, offered, heard, toRemote, toClient>>

\* After a bad handshake the client is read until it ends.
Drop ==
    /\ stage = "drop"
    /\ \/ /\ gone # "broken" /\ Unread > 0
          /\ read' = arrived /\ UNCHANGED <<stage, writer>>
       \/ /\ gone = "broken" \/ (gone = "eof" /\ Unread = 0)
          /\ Leave /\ UNCHANGED read
    /\ UNCHANGED <<visit, answer, relay, halted, peerVars, heard, ctx, toRemote, toClient>>

-----------------------------------------------------------------------------
(* The connection to the other side of a relay.                            *)

\* Bytes a relay passes on: k have gone before, n go now.
Plain(k, n) == [i \in 1 .. n |-> <<k + i, Raw>>]

\* Byte k + i was enciphered at place offset + k + i - 1 of its key stream.
Recoded(k, n, offset, dec, enc) ==
    [i \in 1 .. n |-> <<IF dec = offset + k THEN k + i ELSE 0, enc + i - 1>>]

Lead == IF visit.proxied THEN 1 ELSE 0
Start == Lead + (IF visit.masking THEN 3 ELSE 0) + InitLen

DialFails ==
    /\ stage \in Dialing
    /\ Leave
    /\ UNCHANGED <<visit, answer, relay, halted, peerVars, dataVars>>

\* What has been read of the hello, or the relay_init, goes out first.
DialOk ==
    /\ stage \in Dialing
    /\ Go("greeting") /\ remote' = "open"
    /\ toRemote' = IF stage = "dialing_mask" THEN Plain(Lead, read - Lead) ELSE <<>>
    /\ UNCHANGED <<visit, answer, relay, halted, arrived, gone, offered, read, heard, ctx, toClient>>

Masked == visit.masking /\ answer = "none"

Greeted ==
    /\ stage = "greeting"
    /\ \/ remote # "broken" /\ Go(IF Masked THEN "masked" ELSE "tunnel")
       \/ /\ remote = "broken" /\ stage' = "leaving"
          /\ writer' = [client |-> "closing", remote |-> IF Masked THEN "closing" ELSE "open"]
    /\ UNCHANGED <<visit, answer, relay, halted, peerVars, dataVars>>

-----------------------------------------------------------------------------
(* _relay of the masking relay, forward of the one to the data centre.     *)

Ready(way) == IF way = "up" THEN Unread ELSE offered - heard
SourceEnd(way) == IF way = "up" THEN gone ELSE remote
TargetEnd(way) == IF way = "up" THEN remote ELSE gone
Source(way) == IF way = "up" THEN "client" ELSE "remote"
Target(way) == IF way = "up" THEN "remote" ELSE "client"

Active(way, where) == stage \in Relaying /\ relay[way] = where

CarryUp ==
    /\ Active("up", "reading") /\ gone # "broken"
    /\ \E n \in 1 .. Unread :
          /\ read' = read + n
          /\ toRemote' = toRemote \o
                (IF Masked THEN Plain(read, n)
                 ELSE Recoded(read - Start, n, InitLen, ctx.cltDec, ctx.tgEnc))
          /\ ctx' = IF Masked THEN ctx ELSE [ctx EXCEPT !.cltDec = @ + n, !.tgEnc = @ + n]
    /\ relay' = [relay EXCEPT !["up"] = "draining"]
    /\ UNCHANGED <<visit, stage, answer, writer, halted, peerVars, heard, toClient>>

CarryDown ==
    /\ Active("down", "reading") /\ remote # "broken"
    /\ \E n \in 1 .. offered - heard :
          /\ heard' = heard + n
          /\ toClient' = toClient \o
                (IF Masked THEN Plain(heard, n)
                 ELSE Recoded(heard, n, 0, ctx.tgDec, ctx.cltEnc))
          /\ ctx' = IF Masked THEN ctx ELSE [ctx EXCEPT !.tgDec = @ + n, !.cltEnc = @ + n]
    /\ relay' = [relay EXCEPT !["down"] = "draining"]
    /\ UNCHANGED <<visit, stage, answer, writer, halted, peerVars, read, toRemote>>

Close(w, side) == [w EXCEPT ![side] = IF @ = "open" THEN "closing" ELSE @]

\* The loop of a coroutine is left; that of the masking relay closes its target.
Stop(way) ==
    \/ /\ stage = "masked"
       /\ relay' = [relay EXCEPT ![way] = "closing"]
       /\ writer' = Close(writer, Target(way))
    \/ /\ stage = "tunnel"
       /\ relay' = [relay EXCEPT ![way] = "over"]
       /\ UNCHANGED writer

\* The end of the source, or of its transport once the other coroutine has
\* closed that; or an exception.
Ends(way) ==
    /\ Active(way, "reading")
    /\ \/ SourceEnd(way) = "broken"
       \/ Ready(way) = 0 /\ (SourceEnd(way) = "eof" \/ writer[Source(way)] = "closed")
    /\ Stop(way)
    /\ UNCHANGED <<visit, stage, answer, halted, peerVars, dataVars>>

\* drain() returns, or raises.
Drains(way) ==
    /\ Active(way, "draining")
    /\ \/ /\ TargetEnd(way) # "broken" /\ writer[Target(way)] # "closed"
          /\ relay' = [relay EXCEPT ![way] = "reading"] /\ UNCHANGED writer
       \/ /\ TargetEnd(way) = "broken" \/ writer[Target(way)] = "closed"
          /\ Stop(way)
    /\ UNCHANGED <<visit, stage, answer, halted, peerVars, dataVars>>

\* wait_closed() returns.
TargetClosed(way) ==
    /\ Active(way, "closing") /\ writer[Target(way)] = "closed"
    /\ relay' = [relay EXCEPT ![way] = "over"]
    /\ UNCHANGED <<visit, stage, answer, writer, halted, peerVars, dataVars>>

\* gather() waits for both coroutines.
MaskedEnds ==
    /\ stage = "masked" /\ \A w \in Way : relay[w] = "over"
    /\ Leave
    /\ UNCHANGED <<visit, answer, relay, halted, peerVars, dataVars>>

\* wait() returns with the first of them, and the other one is cancelled.
TunnelEnds ==
    /\ stage = "tunnel" /\ \E w \in Way : relay[w] = "over"
    /\ relay' = [w \in Way |-> "over"]
    /\ stage' = "closing_client" /\ writer' = Close(writer, "client")
    /\ UNCHANGED <<visit, answer, halted, peerVars, dataVars>>

\* The client's transport is closed, then the other one; and the handler's end.
Closes ==
    /\ \/ /\ stage = "closing_client" /\ writer["client"] = "closed"
          /\ stage' = "closing_remote" /\ writer' = Close(writer, "remote")
       \/ stage = "closing_remote" /\ writer["remote"] = "closed" /\ Leave
       \/ stage = "leaving" /\ writer["client"] = "closed" /\ Go("done")
    /\ UNCHANGED <<visit, answer, relay, halted, peerVars, dataVars>>

\* asyncio.run cancels the handler and its tasks, once.
Halt ==
    /\ ~halted /\ halted' = TRUE /\ stage \notin {"bridged", "done"}
    /\ \/ /\ stage \in Waiting \cup Answering \cup Dialing \cup {"drop", "closing_remote"}
          /\ Leave /\ UNCHANGED relay
       \/ /\ stage = "greeting" /\ stage' = "leaving" /\ UNCHANGED relay
          /\ writer' = [client |-> "closing", remote |-> IF Masked THEN "closing" ELSE "open"]
       \/ /\ stage = "masked" /\ UNCHANGED stage
          /\ relay' = [w \in Way |-> IF relay[w] \in {"reading", "draining"} THEN "closing" ELSE "over"]
          /\ writer' = Close(Close(writer, "client"), "remote")
       \/ /\ stage = "tunnel" /\ relay' = [w \in Way |-> "over"]
          /\ stage' = "closing_client" /\ writer' = Close(writer, "client")
       \/ /\ stage = "closing_client" /\ UNCHANGED relay
          /\ stage' = "closing_remote" /\ writer' = Close(writer, "remote")
       \/ stage = "leaving" /\ Go("done") /\ UNCHANGED relay
    /\ UNCHANGED <<visit, answer, peerVars, dataVars>>

-----------------------------------------------------------------------------
Handler ==
    \/ ReadLine \/ ReadFirst \/ ReadHeader \/ ReadBody \/ Answered \/ ReadFails
    \/ BadHandshake \/ GoodHandshake \/ HandOver \/ Drop
    \/ DialFails \/ DialOk \/ Greeted \/ MaskedEnds \/ TunnelEnds \/ Closes

Coroutine(way) ==
    \/ way = "up" /\ CarryUp
    \/ way = "down" /\ CarryDown
    \/ Ends(way) \/ Drains(way) \/ TargetClosed(way)

RelayNext ==
    \/ VisitorWrites \/ VisitorEnds \/ RemoteWrites \/ RemoteEnds \/ Halt
    \/ Handler
    \/ \E way \in Way : Coroutine(way)
    \/ \E side \in DOMAIN writer : Flushed(side)

\* The event loop runs what can go on, time passes, and a buffer is flushed at
\* last: a peer reads or its connection breaks.
RelayFairness ==
    /\ WF_relayVars(Handler)
    /\ \A way \in Way : WF_relayVars(Coroutine(way))
    /\ \A side \in {"client", "remote"} : WF_relayVars(Flushed(side))

-----------------------------------------------------------------------------
(* Properties.                                                             *)

\* A relay passes on all it has read, once and in order.  The masking site gets
\* the client's bytes from the hello on and answers in person, and what the
\* client wrote before it ended its stream gets there; at a data centre and at
\* the client each byte comes out of its cipher at the place of the key stream
\* where the reader's own cipher stands (proxy_to_masking_domain,
\* _build_crypto_ctx, _bridge_tcp_reencrypt).
Relayed ==
    /\ toRemote = IF Masked THEN Plain(Lead, Len(toRemote))
                  ELSE [i \in 1 .. Len(toRemote) |-> <<i, InitLen + i - 1>>]
    /\ toClient = IF Masked THEN Plain(0, heard) ELSE [i \in 1 .. heard |-> <<i, i - 1>>]
    /\ remote # "none" => Len(toRemote) = read - (IF Masked THEN Lead ELSE Start)
    /\ Masked /\ stage = "done" /\ gone = "eof" /\ remote = "open" /\ ~halted => read = arrived

\* A read of the handshake does not last, whatever the client does; and a
\* connection whose client or other side has ended is given up.
RelayEnds ==
    /\ stage \in Waiting ~> stage \notin Waiting
    /\ gone # "open" \/ remote \in {"eof", "broken"} ~> stage \in {"done", "bridged"}

=============================================================================
