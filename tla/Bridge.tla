------------------------------- MODULE Bridge -------------------------------
(***************************************************************************)
(* One session between a client and Telegram over a WebSocket:             *)
(* bridge_ws_reencrypt of proxy/bridge.py with its tasks tcp_to_ws (up)    *)
(* and ws_to_tcp (down), on a RawWebSocket of proxy/raw_websocket.py.      *)
(*                                                                         *)
(* Both tasks write to the socket: up sends data frames, down answers      *)
(* pings and the server's CLOSE; close() of the main coroutine sends a     *)
(* CLOSE of its own.  A frame goes out in one write, so an action between  *)
(* two awaits adds whole frames.  The client's bytes are counted, not kept *)
(* (ClientStream is about their content): a packet is Packet bytes long    *)
(* and the splitter holds back what does not fill one.                     *)
(***************************************************************************)
EXTENDS Integers, Sequences, SequencesExt

CONSTANTS Packet,    \* bytes of a packet of the client
          MaxUp,     \* bytes the client writes at most
          MaxDown    \* frames the server sends at most

ASSUME BridgeAssumption == Packet \in Nat \ {0} /\ MaxUp \in Nat /\ MaxDown \in Nat

VARIABLES
    up,        \* tcp_to_ws: where it is suspended, or how it ended
    down,      \* ws_to_tcp
    main,      \* bridge_ws_reencrypt itself
    stopped,   \* asyncio.run has cancelled every task
    closed,    \* RawWebSocket._closed
    wsWriter,  \* the transport of the WebSocket is "open" or "closing"
    clWriter,  \* the transport of the client
    written,   \* bytes the client has written
    clEnd,     \* the client's side is "open", has ended ("eof", or "cut" between two
               \* records of fake TLS) or is "broken"
    taken,     \* bytes up has read
    held,      \* bytes in the splitter
    wire,      \* frames written to the server: "data", "pong", "close"
    passed,    \* bytes in those data frames
    inbox,     \* frames of the server that have arrived and not been read
    srvEnd,    \* the server is "open", has sent CLOSE ("close") or is "broken"
    said,      \* frames the server has sent
    payloads,  \* those of them that are data
    output     \* data frames whose payload was written to the client

clientVars == <<clWriter, written, clEnd>>
upVars == <<up, taken, held, passed>>
serverVars == <<inbox, srvEnd, said, payloads>>
vars == <<up, down, main, stopped, closed, wsWriter, clientVars, taken, held, wire, passed,
          serverVars, output>>

UpOver == {"eof", "failed", "cancelled"}
DownOver == {"over", "failed", "cancelled"}

TypeOK ==
    /\ up \in {"reading", "sending", "flushing"} \cup UpOver
    /\ down \in {"reading", "ponging", "replying", "writing"} \cup DownOver
    /\ main \in {"waiting", "draining", "ws_closing", "client_closing", "done"}
    /\ closed \in BOOLEAN /\ stopped \in BOOLEAN
    /\ wsWriter \in {"open", "closing"} /\ clWriter \in {"open", "closing"}
    /\ written \in 0 .. MaxUp /\ taken \in 0 .. written
    /\ held \in 0 .. Packet - 1 /\ passed \in 0 .. taken
    /\ clEnd \in {"open", "eof", "cut", "broken"} /\ srvEnd \in {"open", "close", "broken"}
    /\ wire \in Seq({"data", "pong", "close"})
    /\ inbox \in Seq({"data", "ping", "close"}) /\ said \in 0 .. MaxDown
    /\ payloads \in 0 .. said /\ output \in 0 .. payloads

Init ==
    /\ up = "reading" /\ down = "reading" /\ main = "waiting"
    /\ stopped = FALSE /\ closed = FALSE /\ wsWriter = "open" /\ clWriter = "open"
    /\ written = 0 /\ clEnd = "open" /\ taken = 0 /\ held = 0
    /\ wire = <<>> /\ passed = 0
    /\ inbox = <<>> /\ srvEnd = "open" /\ said = 0 /\ payloads = 0 /\ output = 0

-----------------------------------------------------------------------------
(* The peers.                                                              *)

ClientWrites ==
    /\ clEnd = "open" /\ written < MaxUp
    /\ written' = written + 1
    /\ UNCHANGED <<upVars, down, main, stopped, closed, wsWriter, clWriter, clEnd, wire,
                   serverVars, output>>

ClientEnds ==
    /\ clEnd = "open"
    /\ clEnd' \in {"eof", "cut", "broken"}
    /\ UNCHANGED <<upVars, down, main, stopped, closed, wsWriter, clWriter, written,
                   wire, serverVars, output>>

ServerSends(frame) ==
    /\ srvEnd = "open" /\ said < MaxDown
    /\ said' = said + 1
    /\ inbox' = Append(inbox, frame)
    /\ payloads' = IF frame = "data" THEN payloads + 1 ELSE payloads
    /\ srvEnd' = IF frame = "close" THEN "close" ELSE "open"
    /\ UNCHANGED <<upVars, down, main, stopped, closed, wsWriter, clientVars, wire,
                   output>>

ServerBreaks ==
    /\ srvEnd # "broken"
    /\ srvEnd' = "broken"
    /\ UNCHANGED <<upVars, down, main, stopped, closed, wsWriter, clientVars, wire,
                   inbox, said, payloads, output>>

-----------------------------------------------------------------------------
(* tcp_to_ws.                                                              *)

\* send() and send_batch(): refused once the WebSocket is closed.
Send(n, next) ==
    \/ /\ closed
       /\ up' = "failed" /\ UNCHANGED <<wire, passed>>
    \/ /\ ~closed
       /\ up' = next
       /\ wire' = wire \o [i \in 1 .. (n + Packet - 1) \div Packet |-> "data"]
       /\ passed' = passed + n

\* Mutant: split() does not drop the bytes it has passed on.
UpReadsKeeps ==
    /\ up = "reading"
    /\ \E n \in 1 .. written - taken :
          /\ taken' = taken + n
          /\ held' = held + n
          /\ \/ held + n < Packet /\ UNCHANGED <<up, wire, passed>>
             \/ held + n >= Packet /\ Send(held + n, "sending")
    /\ UNCHANGED <<down, main, stopped, closed, wsWriter, clientVars, serverVars,
                   output>>

UpReads ==
    /\ up = "reading"
    /\ \E n \in 1 .. written - taken :
          LET kept == (held + n) % Packet IN
          /\ taken' = taken + n
          /\ held' = kept
          /\ \/ held + n < Packet /\ UNCHANGED <<up, wire, passed>>
             \/ held + n >= Packet /\ Send(held + n - kept, "sending")
    /\ UNCHANGED <<down, main, stopped, closed, wsWriter, clientVars, serverVars,
                   output>>

\* drain() returns, or raises since the connection is broken.
UpSent ==
    /\ up = "sending"
    /\ up' = IF srvEnd = "broken" THEN "failed" ELSE "reading"
    /\ UNCHANGED <<taken, held, passed, down, main, stopped, closed, wsWriter,
                   clientVars, wire, serverVars, output>>

\* Mutant: the splitter is not flushed.
UpEofNoFlush ==
    /\ up = "reading" /\ clEnd = "eof" /\ taken = written
    /\ up' = "eof" /\ UNCHANGED <<held, wire, passed>>
    /\ UNCHANGED <<taken, down, main, stopped, closed, wsWriter, clientVars, serverVars,
                   output>>

UpEof ==
    /\ up = "reading" /\ clEnd = "eof" /\ taken = written
    /\ \/ held = 0 /\ up' = "eof" /\ UNCHANGED <<held, wire, passed>>
       \/ held > 0 /\ held' = 0 /\ Send(held, "flushing")
    /\ UNCHANGED <<taken, down, main, stopped, closed, wsWriter, clientVars, serverVars,
                   output>>

UpFlushed ==
    /\ up = "flushing"
    /\ up' = IF srvEnd = "broken" THEN "failed" ELSE "eof"
    /\ UNCHANGED <<taken, held, passed, down, main, stopped, closed, wsWriter,
                   clientVars, wire, serverVars, output>>

\* The read raises: on a reset, or where the header of the next record of fake
\* TLS is missing.  The splitter is not flushed.
UpBroken ==
    /\ up = "reading"
    /\ clEnd = "broken" \/ (clEnd = "cut" /\ taken = written)
    /\ up' = "failed"
    /\ UNCHANGED <<taken, held, passed, down, main, stopped, closed, wsWriter,
                   clientVars, wire, serverVars, output>>

-----------------------------------------------------------------------------
(* ws_to_tcp and recv().                                                   *)

\* Mutant: recv() marks the WebSocket closed only when its reply is out.
DownReadsLate ==
    /\ down = "reading" /\ inbox # <<>>
    /\ inbox' = Tail(inbox)
    /\ \/ /\ Head(inbox) = "data"
          /\ output' = output + 1 /\ down' = "writing" /\ UNCHANGED <<closed, wire>>
       \/ /\ Head(inbox) = "ping"
          /\ wire' = Append(wire, "pong") /\ down' = "ponging" /\ UNCHANGED <<closed, output>>
       \/ /\ Head(inbox) = "close"
          /\ wire' = Append(wire, "close") /\ down' = "replying" /\ UNCHANGED <<closed, output>>
    /\ UNCHANGED <<upVars, main, stopped, wsWriter, clientVars, srvEnd, said, payloads>>

DownReads ==
    /\ down = "reading" /\ inbox # <<>>
    /\ inbox' = Tail(inbox)
    /\ \/ /\ Head(inbox) = "data"
          /\ output' = output + 1 /\ down' = "writing" /\ UNCHANGED <<closed, wire>>
       \/ /\ Head(inbox) = "ping"
          /\ wire' = Append(wire, "pong") /\ down' = "ponging" /\ UNCHANGED <<closed, output>>
       \/ /\ Head(inbox) = "close"
          /\ closed' = TRUE
          /\ wire' = Append(wire, "close") /\ down' = "replying" /\ UNCHANGED output
    /\ UNCHANGED <<upVars, main, stopped, wsWriter, clientVars, srvEnd, said, payloads>>

\* The drain behind a pong or a reply: recv() ignores its failing.
DownPonged ==
    /\ down = "ponging"
    /\ down' = "reading"
    /\ UNCHANGED <<upVars, main, stopped, closed, wsWriter, clientVars, wire,
                   serverVars, output>>

DownReplied ==
    /\ down = "replying"
    /\ down' = "over"
    /\ UNCHANGED <<upVars, main, stopped, closed, wsWriter, clientVars, wire,
                   serverVars, output>>

DownWrote ==
    /\ down = "writing"
    /\ down' = IF clEnd = "broken" THEN "failed" ELSE "reading"
    /\ UNCHANGED <<upVars, main, stopped, closed, wsWriter, clientVars, wire,
                   serverVars, output>>

\* A reset is raised at once, an end of file behind what has arrived.
DownBroken ==
    /\ down = "reading" /\ srvEnd = "broken"
    /\ down' = "failed"
    /\ UNCHANGED <<upVars, main, stopped, closed, wsWriter, clientVars, wire,
                   serverVars, output>>

-----------------------------------------------------------------------------
(* bridge_ws_reencrypt.                                                    *)

\* close(): nothing if the WebSocket is closed already, else CLOSE and drain.
StartClose ==
    \/ closed /\ main' = "client_closing" /\ clWriter' = "closing" /\ UNCHANGED <<closed, wire>>
    \/ /\ ~closed
       /\ closed' = TRUE /\ wire' = Append(wire, "close") /\ main' = "draining"
       /\ UNCHANGED clWriter

CancelTasks ==
    /\ up' = IF up \in UpOver THEN up ELSE "cancelled"
    /\ down' = IF down \in DownOver THEN down ELSE "cancelled"

\* wait() returns as one task is over; the other is cancelled where it is
\* suspended and awaited before close() begins.
WaitEnds ==
    /\ main = "waiting" /\ (up \in UpOver \/ down \in DownOver)
    /\ CancelTasks
    /\ StartClose
    /\ UNCHANGED <<taken, held, passed, stopped, wsWriter, written, clEnd, serverVars,
                   output>>

Drained ==
    /\ main = "draining"
    /\ wsWriter' = "closing" /\ main' = "ws_closing"
    /\ UNCHANGED <<upVars, down, stopped, closed, clientVars, wire, serverVars, output>>

WsClosed ==
    /\ main = "ws_closing"
    /\ clWriter' = "closing" /\ main' = "client_closing"
    /\ UNCHANGED <<upVars, down, stopped, closed, wsWriter, written, clEnd, wire,
                   serverVars, output>>

ClientClosed ==
    /\ main = "client_closing"
    /\ main' = "done"
    /\ UNCHANGED <<upVars, down, stopped, closed, wsWriter, clientVars, wire,
                   serverVars, output>>

\* asyncio.run cancels the three tasks, once.  close() does not catch the
\* cancellation: cut short, it leaves the WebSocket's transport open.
ShutDown ==
    /\ ~stopped /\ stopped' = TRUE
    /\ CancelTasks
    /\ \/ main = "waiting" /\ StartClose
       \/ /\ main \in {"draining", "ws_closing"}
          /\ main' = "client_closing" /\ clWriter' = "closing"
          /\ UNCHANGED <<closed, wire>>
       \/ /\ main = "client_closing"
          /\ main' = "done"
          /\ UNCHANGED <<closed, wire, clWriter>>
    /\ UNCHANGED <<taken, held, passed, wsWriter, written, clEnd, serverVars, output>>

Up == UpReads \/ UpSent \/ UpEof \/ UpFlushed \/ UpBroken
Down == DownReads \/ DownPonged \/ DownReplied \/ DownWrote \/ DownBroken
Main == WaitEnds \/ Drained \/ WsClosed \/ ClientClosed

Next ==
    \/ ClientWrites \/ ClientEnds \/ ServerBreaks \/ ShutDown
    \/ \E frame \in {"data", "ping", "close"} : ServerSends(frame)
    \/ Up \/ Down \/ Main

Spec == Init /\ [][Next]_vars

\* The event loop runs every task that can go on, and a drain() or
\* wait_closed() returns: a peer reads what it is sent or its connection
\* breaks, by the time-outs of TCP if by nothing else.
FairSpec == Spec /\ WF_vars(Up) /\ WF_vars(Down) /\ WF_vars(Main)

-----------------------------------------------------------------------------
(* Safety.                                                                 *)

\* CLOSE is the last frame the server gets, whichever of the three
\* coroutines sent it: no data of up, no pong of down and no second CLOSE
\* comes behind it (`_closed` is set before the write of either CLOSE).
NoFrameAfterClose == \A i \in 1 .. Len(wire) - 1 : wire[i] # "close"

\* When up ends at the end of the client's stream, all of that stream has
\* been put into frames, the splitter's rest included, and no frame of it
\* stands behind CLOSE.
EofDelivered == up = "eof" => passed = written

\* When recv() reports the server's CLOSE, the client has been written the
\* payload of every data frame the server sent ahead of it.
ServerDataDelivered == down = "over" => output = payloads

-----------------------------------------------------------------------------
(* Liveness.                                                               *)

\* Once either side ends its stream, closes or breaks, the session is torn
\* down on both sides: neither task keeps the other waiting.
SessionEnds ==
    (clEnd # "open" \/ srvEnd # "open") ~> (main = "done" /\ clWriter = "closing")

=============================================================================
