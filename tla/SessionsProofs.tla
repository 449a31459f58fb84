---------------------------- MODULE SessionsProofs ----------------------------
(***************************************************************************)
(* Theorems about Sessions, for packets of any length, sessions of any     *)
(* size and every kind of client.  Over a WebSocket CLOSE is the last      *)
(* frame, a client that ends its stream has all of it delivered, and so    *)
(* has a server that closes; without one, the relays pass on what they     *)
(* read, each byte at its place of the key streams.                        *)
(***************************************************************************)
EXTENDS Sessions, FiniteSetTheorems, SequenceTheorems, TLAPS

Frame == {"data", "pong", "close"}

-----------------------------------------------------------------------------
(* CLOSE is the last frame.                                                *)

\* A CLOSE on the wire is remembered in `_closed`, and once that is set
\* ws_to_tcp reads no further frame that it could answer.
CloseMarked == \A i \in DOMAIN wire : wire[i] = "close" => closed
ClosedStopsDown == closed => down \in {"replying"} \cup DownOver

CloseInv ==
    /\ wire \in Seq(Frame)
    /\ closed \in BOOLEAN
    /\ written \in Nat /\ taken \in Nat /\ held \in Nat
    /\ CloseMarked
    /\ ClosedStopsDown
    /\ NoFrameAfterClose

\* The number of frames a batch of n bytes makes.
LEMMA Frames == \A n \in Nat : (n + Packet - 1) \div Packet \in Nat
  BY BridgeAssumption

\* One frame more, on a wire without CLOSE.
LEMMA OneMore ==
    ASSUME wire \in Seq(Frame), \A i \in DOMAIN wire : wire[i] # "close",
           NEW f \in Frame
    PROVE  LET w == Append(wire, f) IN
           /\ w \in Seq(Frame)
           /\ \A i \in 1 .. Len(w) - 1 : w[i] # "close"
           /\ f # "close" => \A i \in DOMAIN w : w[i] # "close"
  OBVIOUS

\* Data frames more, on a wire without CLOSE.
LEMMA DataMore ==
    ASSUME wire \in Seq(Frame), \A i \in DOMAIN wire : wire[i] # "close",
           NEW k \in Nat
    PROVE  LET w == wire \o [i \in 1 .. k |-> "data"] IN
           /\ w \in Seq(Frame)
           /\ \A i \in 1 .. Len(w) - 1 : w[i] # "close"
           /\ \A i \in DOMAIN w : w[i] # "close"
  <1> DEFINE d == [i \in 1 .. k |-> "data"]
             w == wire \o d
  <1>1. d \in Seq(Frame) /\ Len(d) = k /\ \A i \in 1 .. k : d[i] = "data"
    BY DEF Frame
  <1> HIDE DEF d
  <1>2. w \in Seq(Frame) /\ Len(w) = Len(wire) + k
    BY <1>1
  <1>3. \A i \in 1 .. Len(w) : w[i] # "close"
    <2> TAKE i \in 1 .. Len(w)
    <2>1. CASE i <= Len(wire)
      BY <2>1, <1>1, <1>2
    <2>2. CASE i > Len(wire)
      <3>1. i - Len(wire) \in 1 .. k /\ w[i] = d[i - Len(wire)]
        BY <2>2, <1>1, <1>2
      <3> QED  BY <3>1, <1>1
    <2> QED  BY <2>1, <2>2
  <1> QED  BY <1>2, <1>3 DEF d

LEMMA CloseInit == Init => CloseInv
  <1> SUFFICES ASSUME Init PROVE CloseInv
    OBVIOUS
  <1>1. wire = <<>> /\ closed = FALSE /\ written = 0 /\ taken = 0 /\ held = 0
    BY DEF Init
  <1>2. wire \in Seq(Frame) /\ Len(wire) = 0 /\ DOMAIN wire = {}
    BY <1>1
  <1>3. CloseMarked /\ ClosedStopsDown
    BY <1>1, <1>2 DEF CloseMarked, ClosedStopsDown
  <1>4. 1 .. Len(wire) - 1 = {}
    BY <1>2
  <1>5. NoFrameAfterClose
    BY <1>4 DEF NoFrameAfterClose
  <1> QED  BY <1>1, <1>2, <1>3, <1>5 DEF CloseInv

\* A step that writes nothing and leaves ws_to_tcp stopped if it was.
LEMMA Silent ==
    ASSUME CloseInv, UNCHANGED <<wire, closed>>,
           closed => down' \in {"replying"} \cup DownOver,
           written' \in Nat, taken' \in Nat, held' \in Nat
    PROVE  CloseInv'
  <1>1. CloseMarked' /\ NoFrameAfterClose'
    BY DEF CloseInv, CloseMarked, NoFrameAfterClose
  <1> QED  BY <1>1 DEF CloseInv, ClosedStopsDown

\* send() and send_batch() of n bytes keep what CloseInv says of the wire.
LEMMA SendKeeps ==
    ASSUME CloseInv, NEW n \in Nat, NEW next, Send(n, next)
    PROVE  /\ wire' \in Seq(Frame)
           /\ \A i \in 1 .. Len(wire') - 1 : wire'[i] # "close"
           /\ \A i \in DOMAIN wire' : wire'[i] = "close" => closed
  <1>1. CASE closed /\ wire' = wire
    BY <1>1 DEF CloseInv, CloseMarked, NoFrameAfterClose
  <1>2. CASE ~closed /\ wire' = wire \o [i \in 1 .. (n + Packet - 1) \div Packet |-> "data"]
    <2>1. \A i \in DOMAIN wire : wire[i] # "close"
      BY <1>2 DEF CloseInv, CloseMarked
    <2>2. (n + Packet - 1) \div Packet \in Nat
      BY Frames
    <2> QED  BY <1>2, <2>1, <2>2, DataMore DEF CloseInv
  <1> QED  BY <1>1, <1>2 DEF Send

\* close() keeps CloseInv, given that ws_to_tcp has been ended.
LEMMA StartCloseKeeps ==
    ASSUME CloseInv, StartClose, down' \in DownOver,
           UNCHANGED <<written, taken>>, held' \in Nat
    PROVE  CloseInv'
  <1>1. CASE closed /\ UNCHANGED <<closed, wire>>
    BY <1>1 DEF CloseInv, CloseMarked, ClosedStopsDown, NoFrameAfterClose
  <1>2. CASE ~closed /\ closed' = TRUE /\ wire' = Append(wire, "close")
    <2>1. \A i \in DOMAIN wire : wire[i] # "close"
      BY <1>2 DEF CloseInv, CloseMarked
    <2>2. /\ wire' \in Seq(Frame)
          /\ \A i \in 1 .. Len(wire') - 1 : wire'[i] # "close"
      BY <1>2, <2>1, OneMore DEF CloseInv, Frame
    <2> QED  BY <1>2, <2>2 DEF CloseInv, CloseMarked, ClosedStopsDown, NoFrameAfterClose
  <1> QED  BY <1>1, <1>2 DEF StartClose

LEMMA CloseStep == CloseInv /\ [Next]_vars => CloseInv'
  <1> SUFFICES ASSUME CloseInv, [Next]_vars
               PROVE  CloseInv'
    OBVIOUS
  <1> USE DEF CloseInv, ClosedStopsDown
  <1>1. CASE UNCHANGED vars
    BY <1>1, Silent DEF vars, clientVars, serverVars
  <1>2. CASE ClientWrites
    BY <1>2, Silent DEF ClientWrites, upVars
  <1>2b. CASE ClientEnds \/ ServerBreaks
    BY <1>2b, Silent DEF ClientEnds, ServerBreaks, clientVars, upVars
  <1>3. ASSUME NEW frame \in {"data", "ping", "close"}, ServerSends(frame)
        PROVE  CloseInv'
    BY <1>3, Silent DEF ServerSends, clientVars, upVars
  <1>4. CASE UpReads
    <2>1. PICK n \in 1 .. written - taken :
             LET kept == (held + n) % Packet IN
             /\ taken' = taken + n
             /\ held' = kept
             /\ \/ held + n < Packet /\ UNCHANGED <<up, wire, passed>>
                \/ held + n >= Packet /\ Send(held + n - kept, "sending")
      BY <1>4 DEF UpReads
    <2>2. /\ (held + n) % Packet \in Nat
          /\ (held + n) - ((held + n) % Packet) \in Nat
      <3>1. held + n \in Nat
        BY <2>1
      <3>2. \A x \in Nat : x % Packet \in Nat /\ x - (x % Packet) \in Nat
        BY BridgeAssumption
      <3> QED  BY <3>1, <3>2
    <2>3. UNCHANGED <<closed, down, written>> /\ taken' \in Nat /\ held' \in Nat
      BY <1>4, <2>1, <2>2 DEF UpReads, clientVars
    <2>4. CASE UNCHANGED wire
      BY <2>3, <2>4, Silent
    <2>5. CASE Send((held + n) - ((held + n) % Packet), "sending")
      <3>1. /\ wire' \in Seq(Frame)
            /\ \A i \in 1 .. Len(wire') - 1 : wire'[i] # "close"
            /\ \A i \in DOMAIN wire' : wire'[i] = "close" => closed
        BY <2>2, <2>5, SendKeeps
      <3> QED  BY <2>3, <3>1 DEF CloseMarked, NoFrameAfterClose
    <2> QED  BY <2>1, <2>4, <2>5
  <1>5. CASE UpEof
    <2>1. UNCHANGED <<closed, down, written, taken>> /\ held' \in Nat
      BY <1>5 DEF UpEof, clientVars
    <2>2. CASE UNCHANGED wire
      BY <2>1, <2>2, Silent
    <2>3. CASE Send(held, "flushing")
      <3>1. /\ wire' \in Seq(Frame)
            /\ \A i \in 1 .. Len(wire') - 1 : wire'[i] # "close"
            /\ \A i \in DOMAIN wire' : wire'[i] = "close" => closed
        BY <2>3, SendKeeps
      <3> QED  BY <2>1, <3>1 DEF CloseMarked, NoFrameAfterClose
    <2> QED  BY <1>5, <2>2, <2>3 DEF UpEof
  <1>6. CASE UpSent \/ UpFlushed \/ UpBroken
    BY <1>6, Silent DEF UpSent, UpFlushed, UpBroken, clientVars
  <1>7. CASE DownReads
    <2>1. ~closed /\ \A i \in DOMAIN wire : wire[i] # "close"
      BY <1>7 DEF DownReads, DownOver, CloseMarked
    <2>2. UNCHANGED <<written, taken, held>>
      BY <1>7 DEF DownReads, clientVars, upVars
    <2>3. CASE UNCHANGED <<closed, wire>>
      BY <2>1, <2>2, <2>3, Silent
    <2>4. CASE wire' = Append(wire, "pong") /\ UNCHANGED closed
      <3>1. /\ wire' \in Seq(Frame)
            /\ \A i \in 1 .. Len(wire') - 1 : wire'[i] # "close"
            /\ \A i \in DOMAIN wire' : wire'[i] # "close"
        BY <2>1, <2>4, OneMore DEF Frame
      <3> QED  BY <2>1, <2>2, <2>4, <3>1 DEF CloseMarked, NoFrameAfterClose
    <2>5. CASE wire' = Append(wire, "close") /\ closed' = TRUE /\ down' = "replying"
      <3>1. /\ wire' \in Seq(Frame)
            /\ \A i \in 1 .. Len(wire') - 1 : wire'[i] # "close"
        BY <2>1, <2>5, OneMore DEF Frame
      <3> QED  BY <2>2, <2>5, <3>1 DEF CloseMarked, NoFrameAfterClose
    <2> QED  BY <1>7, <2>3, <2>4, <2>5 DEF DownReads
  <1>8. CASE DownPonged \/ DownReplied \/ DownWrote \/ DownBroken
    BY <1>8, Silent DEF DownPonged, DownReplied, DownWrote, DownBroken, DownOver, clientVars, upVars
  <1>9. CASE WaitEnds
    <2>1. StartClose /\ down' \in DownOver /\ UNCHANGED <<written, taken, held>>
      BY <1>9 DEF WaitEnds, CancelTasks, DownOver
    <2> QED  BY <2>1, StartCloseKeeps
  <1>10. CASE Drained \/ WsClosed \/ ClientClosed
    BY <1>10, Silent DEF Drained, WsClosed, ClientClosed, clientVars, upVars
  <1>11. CASE ShutDown
    <2>1. down' \in DownOver /\ UNCHANGED <<written, taken, held>>
      BY <1>11 DEF ShutDown, CancelTasks, DownOver
    <2>2. CASE StartClose
      BY <2>1, <2>2, StartCloseKeeps
    <2>3. CASE UNCHANGED <<closed, wire>>
      BY <2>1, <2>3, Silent
    <2> QED  BY <1>11, <2>2, <2>3 DEF ShutDown
  <1> QED
    BY <1>1, <1>2, <1>3, <1>4, <1>5, <1>6, <1>7, <1>8, <1>9, <1>10, <1>11, <1>2b
    DEF Next, Up, Down, Main

\* CLOSE is the last frame the server gets, however the two tasks, close() and
\* a shutdown interleave, for packets of any length and sessions of any size.
THEOREM CloseIsLast == Spec => []NoFrameAfterClose
  <1>1. Init => CloseInv
    BY CloseInit
  <1>2. CloseInv /\ [Next]_vars => CloseInv'
    BY CloseStep
  <1>3. CloseInv => NoFrameAfterClose
    BY DEF CloseInv
  <1> QED  BY <1>1, <1>2, <1>3, PTL DEF Spec

-----------------------------------------------------------------------------
(* The whole stream of a client that ends it in an orderly way.            *)

\* Until tcp_to_ws fails or is cancelled, every byte it has read is in a frame
\* or in the splitter; from the flush on, none is in the splitter and none is
\* left to be read.
BytesKept == up \in {"reading", "sending", "flushing", "eof"} => passed + held = taken
FlushedAll == up \in {"flushing", "eof"} => held = 0 /\ taken = written /\ clEnd = "eof"

EofInv ==
    /\ written \in Nat /\ taken \in Nat /\ held \in Nat /\ passed \in Nat
    /\ BytesKept
    /\ FlushedAll

\* What the splitter keeps of x bytes, and what it passes on.
LEMMA Kept == \A x \in Nat : x % Packet \in Nat /\ x - (x % Packet) \in Nat
  BY BridgeAssumption

\* A step of the session that reads nothing of the client: the task goes on
\* between the same counters, or ends in failure.
LEMMA UpOnly ==
    ASSUME EofInv, UNCHANGED <<taken, held, passed, written>>,
           \/ up' = up /\ (clEnd # "eof" \/ clEnd' = clEnd)
           \/ up' \in {"failed", "cancelled"}
           \/ up = "sending" /\ up' = "reading"
           \/ up = "flushing" /\ up' = "eof" /\ clEnd' = clEnd
    PROVE  EofInv'
  BY DEF EofInv, BytesKept, FlushedAll

LEMMA CancelEof ==
    ASSUME EofInv, CancelTasks, UNCHANGED <<taken, held, passed, written, clEnd>>
    PROVE  EofInv'
  BY UpOnly DEF CancelTasks, UpOver

\* send() passes on what it is given or refuses all of it.
LEMMA SendPasses ==
    ASSUME NEW n, NEW next, Send(n, next)
    PROVE  \/ up' = "failed" /\ passed' = passed
           \/ up' = next /\ passed' = passed + n
  BY DEF Send

LEMMA EofStep == EofInv /\ [Next]_vars => EofInv'
  <1> SUFFICES ASSUME EofInv, [Next]_vars
               PROVE  EofInv'
    OBVIOUS
  <1>1. CASE UNCHANGED vars
    BY <1>1, UpOnly DEF vars, clientVars
  <1>2. CASE ClientWrites
    BY <1>2 DEF ClientWrites, upVars, EofInv, BytesKept, FlushedAll
  <1>3. CASE ClientEnds
    BY <1>3, UpOnly DEF ClientEnds, upVars
  <1>4. CASE ServerBreaks
    BY <1>4, UpOnly DEF ServerBreaks, upVars, clientVars
  <1>5. ASSUME NEW frame \in {"data", "ping", "close"}, ServerSends(frame)
        PROVE  EofInv'
    BY <1>5, UpOnly DEF ServerSends, upVars, clientVars
  <1>6. CASE UpReads
    <2>1. PICK n \in 1 .. written - taken :
             LET kept == (held + n) % Packet IN
             /\ taken' = taken + n
             /\ held' = kept
             /\ \/ held + n < Packet /\ UNCHANGED <<up, wire, passed>>
                \/ held + n >= Packet /\ Send(held + n - kept, "sending")
      BY <1>6 DEF UpReads
    <2> DEFINE kept == (held + n) % Packet
    <2>2. n \in Nat /\ held + n \in Nat
      BY <2>1 DEF EofInv
    <2>3. kept \in Nat /\ (held + n) - kept \in Nat
      BY <2>2, Kept
    <2>4. up = "reading" /\ UNCHANGED <<written, clEnd>> /\ passed + held = taken
      BY <1>6 DEF UpReads, clientVars, EofInv, BytesKept
    <2>5. CASE held + n < Packet /\ UNCHANGED <<up, wire, passed>>
      <3>1. held' = held + n
        BY <2>1, <2>2, <2>5, BridgeAssumption
      <3> QED  BY <2>1, <2>2, <2>4, <2>5, <3>1 DEF EofInv, BytesKept, FlushedAll
    <2>6. CASE Send(held + n - kept, "sending")
      <3> DEFINE batch == (held + n) - kept
      <3>0. Send(batch, "sending")
        BY <2>2, <2>3, <2>6 DEF EofInv
      <3> HIDE DEF batch
      <3>1. \/ up' = "failed" /\ passed' = passed
            \/ up' = "sending" /\ passed' = passed + batch
        BY <3>0, SendPasses
      <3>2. taken' = taken + n /\ held' = kept
        BY <2>1
      <3> HIDE DEF kept
      <3> QED  BY <2>2, <2>3, <2>4, <3>1, <3>2 DEF batch, EofInv, BytesKept, FlushedAll
    <2> QED  BY <2>1, <2>5, <2>6
  <1>7. CASE UpEof
    <2>1. /\ up = "reading" /\ clEnd = "eof" /\ taken = written
          /\ UNCHANGED <<taken, written, clEnd>> /\ passed + held = taken
      BY <1>7 DEF UpEof, clientVars, EofInv, BytesKept
    <2>2. CASE held = 0 /\ up' = "eof" /\ UNCHANGED <<held, wire, passed>>
      BY <2>1, <2>2 DEF EofInv, BytesKept, FlushedAll
    <2>3. CASE held' = 0 /\ Send(held, "flushing")
      <3>1. \/ up' = "failed" /\ passed' = passed
            \/ up' = "flushing" /\ passed' = passed + held
        BY <2>3, SendPasses
      <3> QED  BY <2>1, <2>3, <3>1 DEF EofInv, BytesKept, FlushedAll
    <2> QED  BY <1>7, <2>2, <2>3 DEF UpEof
  <1>8. CASE UpSent \/ UpFlushed \/ UpBroken
    BY <1>8, UpOnly DEF UpSent, UpFlushed, UpBroken, clientVars
  <1>9. CASE Down
    BY <1>9, UpOnly DEF Down, DownReads, DownPonged, DownReplied, DownWrote, DownBroken,
       upVars, clientVars
  <1>10. CASE WaitEnds
    BY <1>10, CancelEof DEF WaitEnds
  <1>11. CASE Drained \/ WsClosed \/ ClientClosed
    BY <1>11, UpOnly DEF Drained, WsClosed, ClientClosed, upVars, clientVars
  <1>12. CASE ShutDown
    BY <1>12, CancelEof DEF ShutDown
  <1> QED
    BY <1>1, <1>2, <1>3, <1>4, <1>5, <1>6, <1>7, <1>8, <1>9, <1>10, <1>11, <1>12
    DEF Next, Up, Main

\* A session whose tcp_to_ws saw the end of the client's stream has put every
\* byte the client wrote into frames, the flushed rest included.
THEOREM AllOfStreamSent == Spec => []EofDelivered
  <1>1. Init => EofInv
    BY DEF Init, EofInv, BytesKept, FlushedAll
  <1>2. EofInv /\ [Next]_vars => EofInv'
    BY EofStep
  <1>3. EofInv => EofDelivered
    BY DEF EofInv, BytesKept, FlushedAll, EofDelivered
  <1> QED  BY <1>1, <1>2, <1>3, PTL DEF Spec

-----------------------------------------------------------------------------
(* Types, and the server's frames.                                         *)

\* The data frames among those that have arrived and not been read.
DataIn(frames) == Cardinality({i \in DOMAIN frames : frames[i] = "data"})

\* A data frame of the server is still to be read or has been passed on; behind
\* its CLOSE nothing arrives, and once that is read nothing is left.
ServerInv ==
    /\ payloads = output + DataIn(inbox)
    /\ \A i \in DOMAIN inbox : inbox[i] = "close" => i = Len(inbox) /\ srvEnd # "open"
    /\ down \in {"replying", "over"} => inbox = <<>> /\ srvEnd # "open"

BridgeInv == TypeOK /\ CloseInv /\ EofInv /\ ServerInv

InFrame == {"data", "ping", "close"}

LEMMA DataInType ==
    ASSUME NEW s \in Seq(InFrame)
    PROVE  DataIn(s) \in Nat /\ (s = <<>> => DataIn(s) = 0)
  <1>1. {i \in DOMAIN s : s[i] = "data"} \subseteq 1 .. Len(s) /\ Len(s) \in Nat
    OBVIOUS
  <1>2. IsFiniteSet(1 .. Len(s))
    BY <1>1, FS_Interval
  <1>3. IsFiniteSet({i \in DOMAIN s : s[i] = "data"})
    BY <1>1, <1>2, FS_Subset
  <1>4. s = <<>> => {i \in DOMAIN s : s[i] = "data"} = {}
    OBVIOUS
  <1>5. QED
    BY <1>3, <1>4, FS_CardinalityType, FS_EmptySet DEF DataIn

LEMMA DataArrives ==
    ASSUME NEW s \in Seq(InFrame), NEW f \in InFrame
    PROVE  DataIn(Append(s, f)) = DataIn(s) + IF f = "data" THEN 1 ELSE 0
  <1> DEFINE D == {i \in DOMAIN s : s[i] = "data"}
             E == {i \in DOMAIN Append(s, f) : Append(s, f)[i] = "data"}
  <1>1. IsFiniteSet(D)
    <2>1. D \subseteq 1 .. Len(s) /\ IsFiniteSet(1 .. Len(s))
      BY FS_Interval
    <2>2. QED
      BY <2>1, FS_Subset
  <1>2. Len(s) + 1 \notin D
    OBVIOUS
  <1>3. CASE f = "data"
    <2>1. E = D \cup {Len(s) + 1}
      BY <1>3
    <2>2. Cardinality(E) = Cardinality(D) + 1
      BY <1>1, <1>2, <2>1, FS_AddElement
    <2>3. QED
      BY <1>3, <2>2 DEF DataIn
  <1>4. CASE f # "data"
    <2>1. E = D
      BY <1>4
    <2>2. DataIn(Append(s, f)) = DataIn(s)
      BY <2>1 DEF DataIn
    <2>3. QED
      BY <1>4, <2>2, DataInType
  <1>5. QED
    BY <1>3, <1>4

LEMMA DataTaken ==
    ASSUME NEW s \in Seq(InFrame), s # <<>>
    PROVE  DataIn(s) = DataIn(Tail(s)) + IF Head(s) = "data" THEN 1 ELSE 0
  <1> DEFINE D == {i \in DOMAIN s : s[i] = "data"}
             E == {i \in DOMAIN Tail(s) : Tail(s)[i] = "data"}
             F == {i \in 2 .. Len(s) : s[i] = "data"}
             b == [i \in E |-> i + 1]
  <1>0. /\ Len(s) \in Nat \ {0} /\ Tail(s) \in Seq(InFrame) /\ Len(Tail(s)) = Len(s) - 1
        /\ \A i \in 1 .. Len(s) - 1 : Tail(s)[i] = s[i + 1]
    OBVIOUS
  <1>1. IsFiniteSet(E) /\ IsFiniteSet(F)
    <2>1. E \subseteq 1 .. Len(Tail(s)) /\ F \subseteq 2 .. Len(s)
      BY <1>0
    <2>2. IsFiniteSet(1 .. Len(Tail(s))) /\ IsFiniteSet(2 .. Len(s))
      BY <1>0, FS_Interval
    <2>3. QED
      BY <2>1, <2>2, FS_Subset
  <1>2. b \in Bijection(E, F)
    <2>1. \A i \in E : i \in Nat /\ i + 1 \in F
      BY <1>0
    <2>2. \A j \in F : j \in Nat /\ j - 1 \in E /\ (j - 1) + 1 = j
      BY <1>0
    <2>3. b \in [E -> F]
      BY <2>1
    <2>4. \A i, j \in E : b[i] = b[j] => i = j
      BY <2>1
    <2>5. \A j \in F : \E i \in E : b[i] = j
      BY <2>2
    <2>6. QED
      BY <2>3, <2>4, <2>5 DEF Bijection, Injection, Surjection, IsInjective
  <1>3. Cardinality(E) = Cardinality(F)
    <2>1. ExistsBijection(E, F)
      BY <1>2, Zenon DEF ExistsBijection
    <2> HIDE DEF E, F
    <2>2. QED
      BY <1>1, <2>1, FS_Bijection
  <1>4. CASE Head(s) = "data"
    <2>1. D = F \cup {1} /\ 1 \notin F
      <3>1. s[1] = "data" /\ 1 \in DOMAIN s /\ DOMAIN s = {1} \cup (2 .. Len(s)) /\ 1 \notin 2 .. Len(s)
        BY <1>0, <1>4
      <3>2. QED
        BY <3>1
    <2>2. Cardinality(D) = Cardinality(F) + 1
      BY <1>1, <2>1, FS_AddElement
    <2>3. QED
      BY <1>3, <1>4, <2>2 DEF DataIn
  <1>5. CASE Head(s) # "data"
    <2>1. D = F
      BY <1>0, <1>5
    <2>2. DataIn(s) = DataIn(Tail(s))
      BY <1>3, <2>1 DEF DataIn
    <2>3. QED
      BY <1>0, <1>5, <2>2, DataInType
  <1>6. QED
    BY <1>4, <1>5

LEMMA BridgeInit == Init => BridgeInv
  <1> SUFFICES ASSUME Init PROVE BridgeInv
    OBVIOUS
  <1>1. CloseInv /\ EofInv
    BY CloseInit DEF Init, EofInv, BytesKept, FlushedAll
  <1>2. inbox \in Seq(InFrame) /\ inbox = <<>> /\ DOMAIN inbox = {}
    BY DEF Init
  <1>a. DataIn(inbox) = 0
    BY <1>2, DataInType
  <1>3. ServerInv
    BY <1>2, <1>a DEF Init, ServerInv
  <1>4. wire \in Seq({"data", "pong", "close"})
    BY DEF Init
  <1>b. /\ 0 \in 0 .. MaxUp /\ 0 \in 0 .. Packet - 1 /\ 0 \in 0 .. MaxDown /\ 0 \in 0 .. 0
    BY BridgeAssumption
  <1>5. TypeOK
    BY <1>2, <1>4, <1>b DEF Init, TypeOK, InFrame
  <1>6. QED
    BY <1>1, <1>3, <1>5 DEF BridgeInv

\* The counters as numbers.
LEMMA Counters ==
    ASSUME BridgeInv
    PROVE  /\ written \in Nat /\ taken \in Nat /\ held \in Nat /\ passed \in Nat
           /\ written <= MaxUp /\ taken <= written /\ held < Packet /\ passed <= taken
           /\ said \in Nat /\ payloads \in Nat /\ output \in Nat
           /\ said <= MaxDown /\ payloads <= said /\ output <= payloads
           /\ MaxUp \in Nat /\ MaxDown \in Nat /\ Packet \in Nat \ {0}
  <1>1. MaxUp \in Nat /\ MaxDown \in Nat /\ Packet \in Nat \ {0}
    BY BridgeAssumption
  <1>2. written \in 0 .. MaxUp /\ said \in 0 .. MaxDown /\ held \in 0 .. Packet - 1
    BY DEF BridgeInv, TypeOK
  <1>3. written \in Nat /\ written <= MaxUp /\ said \in Nat /\ said <= MaxDown
        /\ held \in Nat /\ held < Packet
    BY <1>1, <1>2
  <1>4. taken \in 0 .. written /\ payloads \in 0 .. said
    BY DEF BridgeInv, TypeOK
  <1>5. taken \in Nat /\ taken <= written /\ payloads \in Nat /\ payloads <= said
    BY <1>3, <1>4
  <1>6. passed \in 0 .. taken /\ output \in 0 .. payloads
    BY DEF BridgeInv, TypeOK
  <1>7. QED
    BY <1>1, <1>3, <1>5, <1>6

\* Where the server is left alone, and down neither reads nor ends.
LEMMA ServerUnchanged ==
    ASSUME ServerInv, UNCHANGED <<inbox, payloads, output>>,
           srvEnd' = srvEnd \/ srvEnd' = "broken",
           down' \in {"replying", "over"} => down \in {"replying", "over"}
    PROVE  ServerInv'
  BY DEF ServerInv

LEMMA ServerStep == BridgeInv /\ Next => ServerInv'
  <1> SUFFICES ASSUME BridgeInv, Next PROVE ServerInv'
    OBVIOUS
  <1> USE DEF serverVars, clientVars, upVars
  <1>0. ServerInv /\ inbox \in Seq(InFrame) /\ payloads \in Nat /\ output \in Nat
    BY Counters DEF BridgeInv, TypeOK, InFrame
  <1>1. CASE ClientWrites \/ ClientEnds \/ ServerBreaks
    BY <1>0, <1>1, ServerUnchanged DEF ClientWrites, ClientEnds, ServerBreaks
  <1>2. CASE ShutDown \/ WaitEnds
    BY <1>0, <1>2, ServerUnchanged DEF ShutDown, WaitEnds, CancelTasks, DownOver
  <1>3. CASE Up
    BY <1>0, <1>3, ServerUnchanged DEF Up, UpReads, UpSent, UpEof, UpFlushed, UpBroken
  <1>4. CASE Drained \/ WsClosed \/ ClientClosed
    BY <1>0, <1>4, ServerUnchanged DEF Drained, WsClosed, ClientClosed
  <1>5. CASE DownPonged \/ DownReplied \/ DownWrote \/ DownBroken
    BY <1>0, <1>5, ServerUnchanged DEF DownPonged, DownReplied, DownWrote, DownBroken
  <1>6. ASSUME NEW f \in InFrame, ServerSends(f) PROVE ServerInv'
    <2>1. srvEnd = "open" /\ inbox' = Append(inbox, f) /\ output' = output /\ down' = down
          /\ payloads' = (IF f = "data" THEN payloads + 1 ELSE payloads)
          /\ srvEnd' = IF f = "close" THEN "close" ELSE "open"
      BY <1>6 DEF ServerSends
    <2>2. payloads' = output' + DataIn(inbox')
      BY <1>0, <2>1, DataArrives, DataInType DEF ServerInv
    <2>3. \A i \in DOMAIN inbox : inbox[i] # "close"
      BY <1>0, <2>1 DEF ServerInv
    <2>4. \A i \in DOMAIN inbox' : inbox'[i] = "close" => i = Len(inbox') /\ srvEnd' # "open"
      BY <1>0, <2>1, <2>3
    <2>5. down \notin {"replying", "over"}
      BY <1>0, <2>1 DEF ServerInv
    <2>6. QED
      BY <2>1, <2>2, <2>4, <2>5 DEF ServerInv
  <1>7. CASE DownReads
    <2>1. inbox # <<>> /\ inbox' = Tail(inbox) /\ payloads' = payloads /\ srvEnd' = srvEnd
          /\ output' = output + (IF Head(inbox) = "data" THEN 1 ELSE 0)
          /\ (down' = "replying" => Head(inbox) = "close") /\ down' # "over"
      BY <1>0, <1>7 DEF DownReads
    <2>2. DataIn(inbox) = DataIn(inbox') + (IF Head(inbox) = "data" THEN 1 ELSE 0)
          /\ DataIn(inbox') \in Nat
      <3>1. DataIn(inbox) = DataIn(Tail(inbox)) + IF Head(inbox) = "data" THEN 1 ELSE 0
        BY <1>0, <2>1, DataTaken
      <3>2. Tail(inbox) \in Seq(InFrame)
        BY <1>0, <2>1
      <3>3. DataIn(Tail(inbox)) \in Nat
        BY <3>2, DataInType
      <3>4. QED
        BY <2>1, <3>1, <3>3
    <2>3. payloads' = output' + DataIn(inbox')
      BY <1>0, <2>1, <2>2 DEF ServerInv
    <2>4. Len(inbox') = Len(inbox) - 1 /\ \A i \in DOMAIN inbox' :
              i + 1 \in DOMAIN inbox /\ inbox'[i] = inbox[i + 1]
      BY <1>0, <2>1
    <2>5. \A i \in DOMAIN inbox' : inbox'[i] = "close" => i = Len(inbox') /\ srvEnd' # "open"
      BY <1>0, <2>1, <2>4 DEF ServerInv
    <2>6. Head(inbox) = "close" => Len(inbox) = 1 /\ srvEnd # "open"
      <3>1. 1 \in DOMAIN inbox /\ Head(inbox) = inbox[1]
        BY <1>0, <2>1
      <3>2. QED
        BY <1>0, <3>1 DEF ServerInv
    <2>7. down' = "replying" => inbox' = <<>> /\ srvEnd' # "open"
      BY <1>0, <2>1, <2>6
    <2>8. QED
      BY <2>1, <2>3, <2>5, <2>7 DEF ServerInv
  <1>8. QED
    BY <1>1, <1>2, <1>3, <1>4, <1>5, <1>6, <1>7 DEF Next, Down, Main, InFrame

\* What up has read and passed on stays within what the client has written.
UpTyped ==
    /\ written \in 0 .. MaxUp /\ taken \in 0 .. written
    /\ held \in 0 .. Packet - 1 /\ passed \in 0 .. taken

LEMMA UpTypedStep ==
    ASSUME BridgeInv, Next
    PROVE  UpTyped'
  <1> USE DEF serverVars, clientVars, upVars
  <1>0. /\ written \in Nat /\ taken \in Nat /\ held \in Nat /\ passed \in Nat
        /\ written <= MaxUp /\ taken <= written /\ held < Packet /\ passed <= taken
        /\ BytesKept /\ MaxUp \in Nat /\ Packet \in Nat \ {0}
    BY Counters DEF BridgeInv, EofInv
  <1>1. CASE UNCHANGED <<written, taken, held, passed>>
    BY <1>0, <1>1 DEF UpTyped
  <1>2. CASE ClientWrites
    BY <1>0, <1>2 DEF UpTyped, ClientWrites
  <1>3. CASE UpReads
    <2>1. PICK n \in 1 .. written - taken :
            /\ taken' = taken + n /\ held' = (held + n) % Packet
            /\ \/ passed' = passed
               \/ passed' = passed + (held + n - ((held + n) % Packet))
      BY <1>3 DEF UpReads, Send
    <2>2. up = "reading" /\ written' = written
      BY <1>3 DEF UpReads
    <2>3. passed + held = taken
      BY <1>0, <2>2 DEF BytesKept
    <2>4. (held + n) % Packet \in 0 .. Packet - 1 /\ (held + n) % Packet <= held + n
          /\ n \in Nat /\ taken + n <= written
      BY <1>0, Kept
    <2>5. QED
      BY <1>0, <2>1, <2>2, <2>3, <2>4 DEF UpTyped
  <1>4. CASE UpEof
    <2>1. up = "reading" /\ passed + held = taken
      BY <1>0, <1>4 DEF UpEof, BytesKept
    <2>2. QED
      BY <1>0, <1>4, <2>1 DEF UpTyped, UpEof, Send
  <1>5. CASE ShutDown \/ WaitEnds
    BY <1>1, <1>5 DEF ShutDown, WaitEnds
  <1>6. QED
    BY <1>1, <1>2, <1>3, <1>4, <1>5
       DEF Next, Up, Down, Main, ClientEnds, ServerBreaks, ServerSends, UpSent, UpFlushed,
           UpBroken, DownReads, DownPonged, DownReplied, DownWrote, DownBroken, Drained,
           WsClosed, ClientClosed

\* The places of the three tasks and the ends of the streams.
PlacesTyped ==
    /\ up \in {"reading", "sending", "flushing"} \cup UpOver
    /\ down \in {"reading", "ponging", "replying", "writing"} \cup DownOver
    /\ main \in {"waiting", "draining", "ws_closing", "client_closing", "done"}
    /\ stopped \in BOOLEAN
    /\ wsWriter \in {"open", "closing"} /\ clWriter \in {"open", "closing"}
    /\ clEnd \in {"open", "eof", "cut", "broken"} /\ srvEnd \in {"open", "close", "broken"}

LEMMA PlacesTypedStep ==
    ASSUME BridgeInv, Next
    PROVE  PlacesTyped'
  <1> USE DEF serverVars, clientVars, upVars, UpOver, DownOver, PlacesTyped
  <1>0. PlacesTyped
    BY DEF BridgeInv, TypeOK
  <1>1. CASE ClientWrites \/ ClientEnds \/ ServerBreaks
    BY <1>0, <1>1 DEF ClientWrites, ClientEnds, ServerBreaks
  <1>2. CASE ShutDown \/ WaitEnds
    BY <1>0, <1>2 DEF ShutDown, WaitEnds, CancelTasks, StartClose
  <1>3. CASE Up
    BY <1>0, <1>3 DEF Up, UpReads, UpSent, UpEof, UpFlushed, UpBroken, Send
  <1>4. CASE Drained \/ WsClosed \/ ClientClosed
    BY <1>0, <1>4 DEF Drained, WsClosed, ClientClosed
  <1>5. CASE Down
    BY <1>0, <1>5 DEF Down, DownReads, DownPonged, DownReplied, DownWrote, DownBroken
  <1>6. ASSUME NEW f \in InFrame, ServerSends(f) PROVE PlacesTyped'
    BY <1>0, <1>6 DEF ServerSends
  <1>7. QED
    BY <1>1, <1>2, <1>3, <1>4, <1>5, <1>6 DEF Next, Main, InFrame

\* The server's frames and what becomes of them.
LEMMA ServerTypedStep ==
    ASSUME BridgeInv, Next, ServerInv'
    PROVE  /\ inbox' \in Seq(InFrame) /\ said' \in 0 .. MaxDown
           /\ payloads' \in 0 .. said' /\ output' \in 0 .. payloads'
  <1> USE DEF serverVars, clientVars, upVars
  <1>0. /\ inbox \in Seq(InFrame) /\ said \in Nat /\ said <= MaxDown /\ payloads \in Nat
        /\ payloads <= said /\ output \in Nat /\ output <= payloads /\ MaxDown \in Nat
    BY Counters DEF BridgeInv, TypeOK, InFrame
  <1>1. CASE UNCHANGED <<inbox, said, payloads, output>>
    BY <1>0, <1>1
  <1>2. ASSUME NEW f \in InFrame, ServerSends(f)
        PROVE  /\ inbox' \in Seq(InFrame) /\ said' \in 0 .. MaxDown
               /\ payloads' \in 0 .. said' /\ output' \in 0 .. payloads'
    BY <1>0, <1>2 DEF ServerSends
  <1>3. CASE DownReads
    <2>1. inbox # <<>> /\ inbox' = Tail(inbox) /\ payloads' = payloads /\ said' = said
          /\ (output' = output \/ output' = output + 1)
      BY <1>3 DEF DownReads
    <2>2. inbox' \in Seq(InFrame)
      BY <1>0, <2>1
    <2>3. DataIn(inbox') \in Nat /\ payloads' = output' + DataIn(inbox')
      BY <2>2, DataInType DEF ServerInv
    <2>4. QED
      BY <1>0, <2>1, <2>2, <2>3
  <1>4. QED
    BY <1>1, <1>2, <1>3
       DEF Next, Up, Down, Main, ClientWrites, ClientEnds, ServerBreaks, UpReads, UpSent, UpEof,
           UpFlushed, UpBroken, DownPonged, DownReplied, DownWrote, DownBroken, Drained,
           WsClosed, ClientClosed, ShutDown, WaitEnds, InFrame

LEMMA BridgeStep == BridgeInv /\ [Next]_vars => BridgeInv'
  <1> SUFFICES ASSUME BridgeInv, [Next]_vars PROVE BridgeInv'
    OBVIOUS
  <1>1. CloseInv' /\ EofInv'
    BY CloseStep, EofStep DEF BridgeInv
  <1>2. CASE UNCHANGED vars
    <2>1. TypeOK'
      <3>1. /\ up' = up /\ down' = down /\ main' = main /\ closed' = closed /\ stopped' = stopped
            /\ wsWriter' = wsWriter /\ clWriter' = clWriter /\ written' = written
            /\ taken' = taken /\ held' = held /\ passed' = passed /\ clEnd' = clEnd
            /\ srvEnd' = srvEnd /\ wire' = wire /\ inbox' = inbox /\ said' = said
            /\ payloads' = payloads /\ output' = output
        BY <1>2 DEF vars, clientVars, serverVars
      <3>2. TypeOK
        BY DEF BridgeInv
      <3>a. UpTyped /\ PlacesTyped
        BY <3>2 DEF TypeOK, UpTyped, PlacesTyped
      <3>b. UpTyped'
        BY <3>1, <3>a DEF UpTyped
      <3>c. PlacesTyped'
        BY <3>1, <3>a DEF PlacesTyped
      <3>3. UpTyped' /\ PlacesTyped'
        BY <3>b, <3>c
      <3>4. wire' \in Seq({"data", "pong", "close"}) /\ inbox' \in Seq({"data", "ping", "close"})
        BY <3>1, <3>2 DEF TypeOK
      <3>5. said' \in 0 .. MaxDown /\ payloads' \in 0 .. said' /\ output' \in 0 .. payloads'
        BY <3>1, <3>2 DEF TypeOK
      <3>6. closed' \in BOOLEAN
        BY <1>1 DEF CloseInv
      <3>7. QED
        BY <3>3, <3>4, <3>5, <3>6, Zenon DEF TypeOK, UpTyped, PlacesTyped
    <2>2. ServerInv'
      BY <1>2, ServerUnchanged DEF BridgeInv, vars, serverVars
    <2>3. QED
      BY <1>1, <2>1, <2>2 DEF BridgeInv
  <1>3. CASE Next
    <2>1. ServerInv' /\ UpTyped' /\ PlacesTyped'
      BY <1>3, ServerStep, UpTypedStep, PlacesTypedStep
    <2>2. /\ inbox' \in Seq(InFrame) /\ said' \in 0 .. MaxDown
          /\ payloads' \in 0 .. said' /\ output' \in 0 .. payloads'
      BY <1>3, <2>1, ServerTypedStep
    <2>3. wire' \in Seq({"data", "pong", "close"}) /\ closed' \in BOOLEAN
      BY <1>1 DEF CloseInv, Frame
    <2>4. TypeOK'
      <3>1. /\ written' \in 0 .. MaxUp /\ taken' \in 0 .. written'
            /\ held' \in 0 .. Packet - 1 /\ passed' \in 0 .. taken'
        BY <2>1 DEF UpTyped
      <3>2. inbox' \in Seq({"data", "ping", "close"})
        BY <2>2 DEF InFrame
      <3>3. QED
        BY <2>1, <2>2, <2>3, <3>1, <3>2, Zenon DEF TypeOK, PlacesTyped
    <2>5. QED
      BY <1>1, <2>1, <2>4 DEF BridgeInv
  <1>4. QED
    BY <1>2, <1>3

LEMMA BridgeInvariant == Spec => []BridgeInv
  BY BridgeInit, BridgeStep, PTL DEF Spec

\* recv() reports the server's CLOSE only after every data frame ahead of it has
\* been read and its payload written to the client.
THEOREM ServerStreamDelivered == Spec => []ServerDataDelivered
  <1>1. BridgeInv => ServerDataDelivered
    <2> SUFFICES ASSUME BridgeInv, down = "over" PROVE output = payloads
      BY DEF ServerDataDelivered
    <2>1. inbox = <<>> /\ payloads = output + DataIn(inbox) /\ inbox \in Seq(InFrame)
      BY DEF BridgeInv, ServerInv, TypeOK, InFrame
    <2>2. DataIn(inbox) = 0
      BY <2>1, DataInType
    <2>3. QED
      BY <2>1, <2>2, Counters
  <1>2. QED
    BY <1>1, BridgeInvariant, PTL

-----------------------------------------------------------------------------
(* The relays.                                                             *)

Early == Waiting \cup Answering \cup Dialing \cup {"drop", "bridged"}
Late == {"greeting", "masked", "tunnel", "closing_client", "closing_remote"}

NumbersTyped ==
    /\ arrived \in Nat /\ arrived <= MaxBytes /\ read \in Nat /\ read <= arrived
    /\ offered \in Nat /\ offered <= MaxOffer /\ heard \in Nat /\ heard <= offered

StagesTyped ==
    /\ stage \in Early \cup Late \cup {"leaving", "done"}
    /\ gone \in {"open", "eof", "broken"}
    /\ remote \in {"none", "open", "eof", "broken"}
    /\ answer \in {"none", "hello", "redirect"}
    /\ relay \in [Way -> {"reading", "draining", "closing", "over"}]
    /\ writer \in [{"client", "remote"} -> {"open", "closing", "closed"}]
    /\ halted \in BOOLEAN

RelayTyped ==
    /\ visit \in Visit
    /\ ctx \in [cltDec : Nat, tgEnc : Nat, tgDec : Nat, cltEnc : Nat]
    /\ NumbersTyped /\ StagesTyped

\* Where the handler is suspended tells what it has read and answered.
StageInv ==
    /\ stage \in {"line", "first", "header", "body", "dialing_mask", "masked"} => answer = "none"
    /\ stage \in {"header", "body", "dialing_mask", "masked"} => visit.masking
    /\ stage \in {"hello", "init"} => answer = "hello" /\ visit.masking
    /\ stage = "redirect" => answer = "redirect"
    /\ stage = "rest" => ~visit.masking
    /\ stage \in {"dialing_centre", "bridged", "drop", "tunnel", "closing_client",
                 "closing_remote"} => ~Masked
    /\ stage = "line" => read = 0 /\ visit.proxied
    /\ stage = "first" => read = Lead \/ (gone = "eof" /\ read = arrived)
    /\ stage \in {"header", "rest"} => read = Lead + 1
    /\ stage = "body" => read = Lead + 2
    /\ stage \in {"hello", "init", "dialing_mask"} => read = Lead + 3
    /\ stage = "dialing_centre" => read = Start

\* The ciphers stand at their beginning until they are built, and before a relay
\* they have used up the handshakes and no more.
CtxInv ==
    /\ stage \in Waiting \cup Answering =>
           ctx = [cltDec |-> 0, tgEnc |-> 0, tgDec |-> 0, cltEnc |-> 0]
    /\ stage = "dialing_centre" =>
           ctx = [cltDec |-> InitLen, tgEnc |-> InitLen, tgDec |-> 0, cltEnc |-> 0]

From == IF Masked THEN Lead ELSE Start

\* Before there is another side nothing is passed on; then what is read of one
\* side is written to the other, and two ciphers are moved on by as much.
CarryInv ==
    /\ remote = "none" => /\ toRemote = <<>> /\ toClient = <<>> /\ offered = 0
                          /\ stage \notin Late
    /\ remote # "none" =>
           /\ stage \notin Early
           /\ read >= From /\ Len(toRemote) = read - From
           /\ ~Masked => ctx = [cltDec |-> InitLen + Len(toRemote), tgEnc |-> InitLen + Len(toRemote),
                                tgDec |-> heard, cltEnc |-> heard]

\* The writers are closed only by a relay or by the end of the handler.
WriterInv ==
    /\ stage \in Early \cup {"greeting"} => writer = [s \in {"client", "remote"} |-> "open"]
    /\ stage \in Early \cup {"greeting"} => relay = [w \in Way |-> "reading"]
    /\ stage = "masked" /\ ~halted /\ relay["up"] \in {"reading", "draining"} =>
           writer["remote"] = "open"

\* Nothing more of the client is to come, or one of the two sides is broken.
UpDone ==
    \/ gone = "broken" \/ remote = "broken"
    \/ read = arrived /\ (gone = "eof" \/ writer["client"] = "closed")

\* The masking relay leaves the client only when it is done with it.
DoneInv ==
    /\ stage = "masked" /\ ~halted /\ relay["up"] \in {"closing", "over"} => UpDone
    /\ stage \in {"leaving", "done"} /\ Masked /\ remote = "open" /\ ~halted => UpDone

\* What has been written to the two sides.
Contents ==
    /\ toRemote = IF Masked THEN Plain(Lead, Len(toRemote))
                  ELSE [i \in 1 .. Len(toRemote) |-> <<i, InitLen + i - 1>>]
    /\ toClient = IF Masked THEN Plain(0, heard) ELSE [i \in 1 .. heard |-> <<i, i - 1>>]

Shape == RelayTyped /\ StageInv /\ CtxInv /\ CarryInv /\ WriterInv /\ DoneInv
RelayInv == Shape /\ Contents

\* The constants and settings as numbers and truth values.
LEMMA Settled ==
    ASSUME RelayTyped
    PROVE  /\ visit.masking \in BOOLEAN /\ visit.proxied \in BOOLEAN
           /\ InitLen \in Nat /\ InitLen > 1 /\ MaxBytes \in Nat /\ MaxOffer \in Nat
           /\ Lead \in {0, 1} /\ Lead \in Nat /\ Start \in Nat /\ Start >= Lead + InitLen
           /\ (visit.masking => Start = Lead + 3 + InitLen)
           /\ (~visit.masking => Start = Lead + InitLen)
           /\ (visit.proxied => Lead = 1)
           /\ From \in Nat /\ From >= Lead
  <1>1. visit \in Visit
    BY DEF RelayTyped
  <1>2. visit.masking \in BOOLEAN /\ visit.proxied \in BOOLEAN
    BY <1>1, RelayAssumption
  <1>3. InitLen \in Nat /\ InitLen > 1 /\ MaxBytes \in Nat /\ MaxOffer \in Nat
    BY RelayAssumption
  <1>4. Lead \in {0, 1} /\ Lead \in Nat /\ (visit.proxied => Lead = 1)
    BY DEF Lead
  <1>5. /\ visit.masking => Start = Lead + 3 + InitLen
        /\ ~visit.masking => Start = Lead + InitLen
    <2>1. CASE visit.masking
      BY <2>1, <1>3, <1>4 DEF Start
    <2>2. CASE ~visit.masking
      BY <2>2, <1>3, <1>4 DEF Start
    <2>3. QED
      BY <2>1, <2>2
  <1>6. Start \in Nat /\ Start >= Lead + InitLen
    BY <1>3, <1>4, <1>5
  <1>7. From \in Nat /\ From >= Lead
    BY <1>3, <1>4, <1>6 DEF From
  <1>8. QED
    BY <1>2, <1>3, <1>4, <1>5, <1>6, <1>7

\* What the lengths depend on.
LEMMA SameVisit ==
    /\ visit' = visit => Lead' = Lead /\ Start' = Start
    /\ visit' = visit /\ answer' = answer => (Masked' <=> Masked) /\ From' = From
  BY DEF Lead, Start, Masked, From

LEMMA PeersShape ==
    ASSUME RelayInv, VisitorWrites \/ VisitorEnds \/ RemoteWrites \/ RemoteEnds
    PROVE  Shape'
  <1> USE DEF RelayInv, Shape, RelayTyped, NumbersTyped, StagesTyped, dataVars, peerVars,
             Waiting, Answering, Dialing, Relaying, Early, Late
  <1>1. CASE VisitorWrites
    <2>1. RelayTyped'
      BY <1>1, Settled DEF VisitorWrites
    <2>2. StageInv'
      BY <1>1 DEF VisitorWrites, StageInv, Masked, Lead, Start
    <2>3. CtxInv' /\ CarryInv' /\ WriterInv'
      BY <1>1 DEF VisitorWrites, CtxInv, CarryInv, WriterInv, From, Masked, Lead, Start
    <2>4. DoneInv'
      BY <1>1 DEF VisitorWrites, DoneInv, UpDone, Masked
    <2>5. QED
      BY <2>1, <2>2, <2>3, <2>4
  <1>2. CASE VisitorEnds
    <2>1. RelayTyped'
      BY <1>2, Settled DEF VisitorEnds
    <2>2. StageInv'
      BY <1>2 DEF VisitorEnds, StageInv, Masked, Lead, Start
    <2>3. CtxInv' /\ CarryInv' /\ WriterInv'
      BY <1>2 DEF VisitorEnds, CtxInv, CarryInv, WriterInv, From, Masked, Lead, Start
    <2>4. DoneInv'
      BY <1>2 DEF VisitorEnds, DoneInv, UpDone, Masked
    <2>5. QED
      BY <2>1, <2>2, <2>3, <2>4
  <1>3. CASE RemoteWrites
    <2>1. RelayTyped'
      BY <1>3, Settled DEF RemoteWrites
    <2>2. StageInv'
      BY <1>3 DEF RemoteWrites, StageInv, Masked, Lead, Start
    <2>3. CtxInv' /\ CarryInv' /\ WriterInv'
      BY <1>3 DEF RemoteWrites, CtxInv, CarryInv, WriterInv, From, Masked, Lead, Start
    <2>4. DoneInv'
      BY <1>3 DEF RemoteWrites, DoneInv, UpDone, Masked
    <2>5. QED
      BY <2>1, <2>2, <2>3, <2>4
  <1>4. CASE RemoteEnds
    <2>1. RelayTyped'
      BY <1>4, Settled DEF RemoteEnds
    <2>2. StageInv'
      BY <1>4 DEF RemoteEnds, StageInv, Masked, Lead, Start
    <2>3. CtxInv' /\ CarryInv' /\ WriterInv'
      BY <1>4 DEF RemoteEnds, CtxInv, CarryInv, WriterInv, From, Masked, Lead, Start
    <2>4. DoneInv'
      BY <1>4 DEF RemoteEnds, DoneInv, UpDone, Masked
    <2>5. QED
      BY <2>1, <2>2, <2>3, <2>4
  <1>5. QED
    BY <1>1, <1>2, <1>3, <1>4

\* The handshake is read.
LEMMA ReadsShape ==
    ASSUME RelayInv, ReadLine \/ ReadFirst \/ ReadHeader \/ ReadBody
    PROVE  Shape'
  <1> USE DEF RelayInv, Shape, RelayTyped, NumbersTyped, StagesTyped, dataVars, peerVars,
             Waiting, Answering, Dialing, Relaying, Early, Late
  <1>1. CASE ReadLine
    <2>8. /\ stage = "line" /\ stage' = "first" /\ UNCHANGED <<visit, answer, gone, arrived>>
          /\ read' = IF Unread > 0 THEN read + 1 ELSE read
          /\ Unread > 0 \/ gone = "eof"
      BY <1>1 DEF ReadLine, Go
    <2>9. read = 0 /\ Lead' = 1 /\ answer = "none"
      BY <2>8, Settled, SameVisit DEF StageInv
    <2>1. RelayTyped'
      <3>1. read' \in Nat /\ read' <= arrived /\ (read' = 1 \/ (gone = "eof" /\ read' = arrived))
        BY <2>8, <2>9 DEF Unread
      <3>2. QED
        BY <1>1, <3>1 DEF ReadLine, Go
    <2>2. StageInv'
      <3>1. read' = 1 \/ (gone' = "eof" /\ read' = arrived')
        BY <2>8, <2>9 DEF Unread
      <3>2. QED
        BY <2>8, <2>9, <3>1 DEF StageInv
    <2>3. CtxInv'
      BY <1>1, Settled DEF ReadLine, Go, StageInv, CtxInv
    <2>4. CarryInv'
      BY <1>1, Settled DEF ReadLine, Go, StageInv, CarryInv, From, Masked, Lead, Start
    <2>5. WriterInv'
      BY <1>1 DEF ReadLine, Go, WriterInv
    <2>6. DoneInv'
      BY <1>1 DEF ReadLine, Go, CarryInv, WriterInv, DoneInv, UpDone, Masked
    <2>7. QED
      BY <2>1, <2>2, <2>3, <2>4, <2>5, <2>6
  <1>2. CASE ReadFirst
    <2>1. RelayTyped'
      BY <1>2, Settled DEF ReadFirst, Go, Get, Unread
    <2>2. StageInv'
      BY <1>2, Settled DEF ReadFirst, Go, Get, Unread, StageInv, Masked, Lead, Start
    <2>3. CtxInv'
      BY <1>2, Settled DEF ReadFirst, Go, Get, Unread, StageInv, CtxInv
    <2>4. CarryInv'
      BY <1>2, Settled DEF ReadFirst, Go, Get, Unread, StageInv, CarryInv, From, Masked, Lead, Start
    <2>5. WriterInv'
      BY <1>2 DEF ReadFirst, Go, Get, Unread, WriterInv
    <2>6. DoneInv'
      BY <1>2 DEF ReadFirst, Go, Get, Unread, CarryInv, WriterInv, DoneInv, UpDone, Masked
    <2>7. QED
      BY <2>1, <2>2, <2>3, <2>4, <2>5, <2>6
  <1>3. CASE ReadHeader
    <2>1. RelayTyped'
      BY <1>3, Settled DEF ReadHeader, Go, Get, Unread
    <2>2. StageInv'
      BY <1>3, Settled DEF ReadHeader, Go, Get, Unread, StageInv, Masked, Lead, Start
    <2>3. CtxInv'
      BY <1>3, Settled DEF ReadHeader, Go, Get, Unread, StageInv, CtxInv
    <2>4. CarryInv'
      BY <1>3, Settled DEF ReadHeader, Go, Get, Unread, StageInv, CarryInv, From, Masked, Lead, Start
    <2>5. WriterInv'
      BY <1>3 DEF ReadHeader, Go, Get, Unread, WriterInv
    <2>6. DoneInv'
      BY <1>3 DEF ReadHeader, Go, Get, Unread, CarryInv, WriterInv, DoneInv, UpDone, Masked
    <2>7. QED
      BY <2>1, <2>2, <2>3, <2>4, <2>5, <2>6
  <1>4. CASE ReadBody
    <2>1. RelayTyped'
      BY <1>4, Settled DEF ReadBody, Go, Get, Unread
    <2>2. StageInv'
      BY <1>4, Settled DEF ReadBody, Go, Get, Unread, StageInv, Masked, Lead, Start
    <2>3. CtxInv'
      BY <1>4, Settled DEF ReadBody, Go, Get, Unread, StageInv, CtxInv
    <2>4. CarryInv'
      BY <1>4, Settled DEF ReadBody, Go, Get, Unread, StageInv, CarryInv, From, Masked, Lead, Start
    <2>5. WriterInv'
      BY <1>4 DEF ReadBody, Go, Get, Unread, WriterInv
    <2>6. DoneInv'
      BY <1>4 DEF ReadBody, Go, Get, Unread, CarryInv, WriterInv, DoneInv, UpDone, Masked
    <2>7. QED
      BY <2>1, <2>2, <2>3, <2>4, <2>5, <2>6
  <1>5. QED
    BY <1>1, <1>2, <1>3, <1>4

\* It is answered, fails or is good.
LEMMA HandshakeShape ==
    ASSUME RelayInv, Answered \/ ReadFails \/ BadHandshake \/ GoodHandshake \/ HandOver \/ Drop
    PROVE  Shape'
  <1> USE DEF RelayInv, Shape, RelayTyped, NumbersTyped, StagesTyped, dataVars, peerVars,
             Waiting, Answering, Dialing, Relaying, Early, Late
  <1>1. CASE Answered
    <2>1. RelayTyped'
      BY <1>1, Settled DEF Answered, Go, Leave
    <2>2. StageInv'
      BY <1>1, Settled DEF Answered, Go, Leave, StageInv, Masked, Lead, Start
    <2>3. CtxInv'
      BY <1>1, Settled DEF Answered, Go, Leave, StageInv, CtxInv
    <2>4. CarryInv'
      BY <1>1, Settled DEF Answered, Go, Leave, StageInv, CarryInv, From, Masked, Lead, Start
    <2>5. WriterInv'
      BY <1>1 DEF Answered, Go, Leave, WriterInv
    <2>6. DoneInv'
      BY <1>1 DEF Answered, Go, Leave, CarryInv, WriterInv, DoneInv, UpDone, Masked
    <2>7. QED
      BY <2>1, <2>2, <2>3, <2>4, <2>5, <2>6
  <1>2. CASE ReadFails
    <2>1. RelayTyped'
      BY <1>2, Settled DEF ReadFails, Leave, Unread
    <2>2. StageInv'
      BY <1>2, Settled DEF ReadFails, Leave, Unread, StageInv, Masked, Lead, Start
    <2>3. CtxInv'
      BY <1>2, Settled DEF ReadFails, Leave, Unread, StageInv, CtxInv
    <2>4. CarryInv'
      BY <1>2, Settled DEF ReadFails, Leave, Unread, StageInv, CarryInv, From, Masked, Lead, Start
    <2>5. WriterInv'
      BY <1>2 DEF ReadFails, Leave, Unread, WriterInv
    <2>6. DoneInv'
      BY <1>2 DEF ReadFails, Leave, Unread, CarryInv, WriterInv, DoneInv, UpDone, Masked
    <2>7. QED
      BY <2>1, <2>2, <2>3, <2>4, <2>5, <2>6
  <1>3. CASE BadHandshake
    <2>1. RelayTyped'
      BY <1>3, Settled DEF BadHandshake, Go, Get, Unread, ReadInit, Wanted
    <2>2. StageInv'
      BY <1>3, Settled DEF BadHandshake, Go, Get, Unread, ReadInit, Wanted, StageInv, Masked, Lead, Start
    <2>3. CtxInv'
      BY <1>3, Settled DEF BadHandshake, Go, Get, Unread, ReadInit, Wanted, StageInv, CtxInv
    <2>4. CarryInv'
      BY <1>3, Settled DEF BadHandshake, Go, Get, Unread, ReadInit, Wanted, StageInv, CarryInv, From, Masked, Lead, Start
    <2>5. WriterInv'
      BY <1>3 DEF BadHandshake, Go, Get, Unread, ReadInit, Wanted, WriterInv
    <2>6. DoneInv'
      BY <1>3 DEF BadHandshake, Go, Get, Unread, ReadInit, Wanted, CarryInv, WriterInv, DoneInv, UpDone, Masked
    <2>7. QED
      BY <2>1, <2>2, <2>3, <2>4, <2>5, <2>6
  <1>4. CASE GoodHandshake
    <2>1. RelayTyped'
      <3>1. read' \in Nat /\ read' <= arrived
        BY <1>4, Settled DEF GoodHandshake, Get, Unread, ReadInit, Wanted
      <3>2. ctx' \in [cltDec : Nat, tgEnc : Nat, tgDec : Nat, cltEnc : Nat]
        BY <1>4, Settled DEF GoodHandshake, BuildCryptoCtx
      <3>3. QED
        BY <1>4, <3>1, <3>2 DEF GoodHandshake, Go, Leave
    <2>2. StageInv'
      BY <1>4, Settled DEF GoodHandshake, Go, Get, Unread, ReadInit, Wanted, Leave, BuildCryptoCtx, StageInv, Masked, Lead, Start
    <2>3. CtxInv'
      <3>1. stage \in {"init", "rest"} /\ stage' \in {"dialing_centre", "leaving"}
        BY <1>4 DEF GoodHandshake, Go, Leave, ReadInit
      <3>2. ctx = [cltDec |-> 0, tgEnc |-> 0, tgDec |-> 0, cltEnc |-> 0]
        BY <3>1 DEF CtxInv
      <3>3. ctx' = [ctx EXCEPT !.cltDec = InitLen, !.tgEnc = InitLen]
        BY <1>4 DEF GoodHandshake, BuildCryptoCtx
      <3>4. QED
        BY <3>1, <3>2, <3>3 DEF CtxInv
    <2>4. CarryInv'
      BY <1>4, Settled DEF GoodHandshake, Go, Get, Unread, ReadInit, Wanted, Leave, BuildCryptoCtx, StageInv, CarryInv, From, Masked, Lead, Start
    <2>5. WriterInv'
      BY <1>4 DEF GoodHandshake, Go, Get, Unread, ReadInit, Wanted, Leave, BuildCryptoCtx, WriterInv
    <2>6. DoneInv'
      BY <1>4 DEF GoodHandshake, Go, Get, Unread, ReadInit, Wanted, Leave, BuildCryptoCtx, CarryInv, WriterInv, DoneInv, UpDone, Masked
    <2>7. QED
      BY <2>1, <2>2, <2>3, <2>4, <2>5, <2>6
  <1>5. CASE HandOver
    <2>1. RelayTyped'
      <3>1. ctx' \in [cltDec : Nat, tgEnc : Nat, tgDec : Nat, cltEnc : Nat]
        BY <1>5, Settled DEF HandOver, BuildCryptoCtx
      <3>2. QED
        BY <1>5, <3>1, Settled DEF HandOver, Go
    <2>2. StageInv'
      BY <1>5, Settled DEF HandOver, Go, Unread, Wanted, BuildCryptoCtx, StageInv, Masked, Lead, Start
    <2>3. CtxInv'
      BY <1>5, Settled DEF HandOver, Go, Unread, Wanted, BuildCryptoCtx, StageInv, CtxInv
    <2>4. CarryInv'
      BY <1>5, Settled DEF HandOver, Go, Unread, Wanted, BuildCryptoCtx, StageInv, CarryInv, From, Masked, Lead, Start
    <2>5. WriterInv'
      BY <1>5 DEF HandOver, Go, Unread, Wanted, BuildCryptoCtx, WriterInv
    <2>6. DoneInv'
      BY <1>5 DEF HandOver, Go, Unread, Wanted, BuildCryptoCtx, CarryInv, WriterInv, DoneInv, UpDone, Masked
    <2>7. QED
      BY <2>1, <2>2, <2>3, <2>4, <2>5, <2>6
  <1>6. CASE Drop
    <2>1. RelayTyped'
      BY <1>6, Settled DEF Drop, Leave, Unread
    <2>2. StageInv'
      BY <1>6, Settled DEF Drop, Leave, Unread, StageInv, Masked, Lead, Start
    <2>3. CtxInv'
      BY <1>6, Settled DEF Drop, Leave, Unread, StageInv, CtxInv
    <2>4. CarryInv'
      BY <1>6, Settled DEF Drop, Leave, Unread, StageInv, CarryInv, From, Masked, Lead, Start
    <2>5. WriterInv'
      BY <1>6 DEF Drop, Leave, Unread, WriterInv
    <2>6. DoneInv'
      BY <1>6 DEF Drop, Leave, Unread, CarryInv, WriterInv, DoneInv, UpDone, Masked
    <2>7. QED
      BY <2>1, <2>2, <2>3, <2>4, <2>5, <2>6
  <1>7. QED
    BY <1>1, <1>2, <1>3, <1>4, <1>5, <1>6

\* The other side is connected to.
LEMMA DialShape ==
    ASSUME RelayInv, DialFails \/ DialOk \/ Greeted
    PROVE  Shape'
  <1> USE DEF RelayInv, Shape, RelayTyped, NumbersTyped, StagesTyped, dataVars, peerVars,
             Waiting, Answering, Dialing, Relaying, Early, Late
  <1>1. CASE DialFails
    <2>1. RelayTyped'
      BY <1>1, Settled DEF DialFails, Leave
    <2>2. StageInv'
      BY <1>1, Settled DEF DialFails, Leave, StageInv, Masked, Lead, Start
    <2>3. CtxInv'
      BY <1>1, Settled DEF DialFails, Leave, StageInv, CtxInv
    <2>4. CarryInv'
      BY <1>1, Settled DEF DialFails, Leave, StageInv, CarryInv, From, Masked, Lead, Start
    <2>5. WriterInv'
      BY <1>1 DEF DialFails, Leave, WriterInv
    <2>6. DoneInv'
      BY <1>1 DEF DialFails, Leave, CarryInv, WriterInv, DoneInv, UpDone, Masked
    <2>7. QED
      BY <2>1, <2>2, <2>3, <2>4, <2>5, <2>6
  <1>2. CASE DialOk
    <2>1. RelayTyped'
      BY <1>2, Settled DEF DialOk, Go, Plain
    <2>2. StageInv'
      BY <1>2, Settled DEF DialOk, Go, Plain, StageInv, Masked, Lead, Start
    <2>3. CtxInv'
      BY <1>2, Settled DEF DialOk, Go, Plain, StageInv, CtxInv
    <2>4. CarryInv'
      <3>1. /\ stage \in Dialing /\ stage' = "greeting" /\ remote' = "open"
            /\ UNCHANGED <<visit, answer, read, heard, ctx>>
            /\ toRemote' = IF stage = "dialing_mask" THEN Plain(Lead, read - Lead) ELSE <<>>
        BY <1>2 DEF DialOk, Go
      <3>2. heard = 0
        BY <3>1 DEF CarryInv
      <3>3. From' = From /\ (Masked' <=> Masked)
        BY <3>1, SameVisit
      <3>4. CASE stage = "dialing_mask"
        <4>1. Masked /\ From = Lead /\ read = Lead + 3 /\ Lead \in Nat
          BY <3>4, Settled DEF StageInv, Masked, From
        <4>2. Len(toRemote') = 3
          BY <3>1, <3>4, <4>1 DEF Plain
        <4>3. QED
          BY <3>1, <3>3, <4>1, <4>2 DEF CarryInv
      <3>5. CASE stage = "dialing_centre"
        <4>1. ~Masked /\ From = Start /\ read = Start /\ Start \in Nat
          BY <3>5, Settled DEF StageInv, From
        <4>2. toRemote' = <<>> /\ ctx = [cltDec |-> InitLen, tgEnc |-> InitLen, tgDec |-> 0, cltEnc |-> 0]
          BY <3>1, <3>5 DEF CtxInv
        <4>3. QED
          BY <3>1, <3>2, <3>3, <4>1, <4>2, Settled DEF CarryInv
      <3>6. QED
        BY <3>1, <3>4, <3>5
    <2>5. WriterInv'
      BY <1>2 DEF DialOk, Go, Plain, WriterInv
    <2>6. DoneInv'
      BY <1>2 DEF DialOk, Go, Plain, CarryInv, WriterInv, DoneInv, UpDone, Masked
    <2>7. QED
      BY <2>1, <2>2, <2>3, <2>4, <2>5, <2>6
  <1>3. CASE Greeted
    <2>1. RelayTyped'
      BY <1>3, Settled DEF Greeted, Go
    <2>2. StageInv'
      BY <1>3, Settled DEF Greeted, Go, StageInv, Masked, Lead, Start
    <2>3. CtxInv'
      BY <1>3, Settled DEF Greeted, Go, StageInv, CtxInv
    <2>4. CarryInv'
      BY <1>3, Settled DEF Greeted, Go, StageInv, CarryInv, From, Masked, Lead, Start
    <2>5. WriterInv'
      BY <1>3 DEF Greeted, Go, WriterInv
    <2>6. DoneInv'
      BY <1>3 DEF Greeted, Go, Way, WriterInv, DoneInv, UpDone
    <2>7. QED
      BY <2>1, <2>2, <2>3, <2>4, <2>5, <2>6
  <1>4. QED
    BY <1>1, <1>2, <1>3

\* The session ends.
LEMMA EndingShape ==
    ASSUME RelayInv, MaskedEnds \/ TunnelEnds \/ Closes \/ Halt
    PROVE  Shape'
  <1> USE DEF RelayInv, Shape, RelayTyped, NumbersTyped, StagesTyped, dataVars, peerVars,
             Waiting, Answering, Dialing, Relaying, Early, Late
  <1>1. CASE MaskedEnds
    <2>1. RelayTyped'
      BY <1>1, Settled DEF MaskedEnds, Leave
    <2>2. StageInv'
      BY <1>1, Settled DEF MaskedEnds, Leave, StageInv, Masked, Lead, Start
    <2>3. CtxInv'
      BY <1>1, Settled DEF MaskedEnds, Leave, StageInv, CtxInv
    <2>4. CarryInv'
      BY <1>1, Settled DEF MaskedEnds, Leave, StageInv, CarryInv, From, Masked, Lead, Start
    <2>5. WriterInv'
      BY <1>1 DEF MaskedEnds, Leave, WriterInv
    <2>6. DoneInv'
      BY <1>1 DEF MaskedEnds, Leave, Way, DoneInv, UpDone, Masked
    <2>7. QED
      BY <2>1, <2>2, <2>3, <2>4, <2>5, <2>6
  <1>2. CASE TunnelEnds
    <2>1. RelayTyped'
      BY <1>2, Settled DEF TunnelEnds, Close
    <2>2. StageInv'
      BY <1>2, Settled DEF TunnelEnds, Close, StageInv, Masked, Lead, Start
    <2>3. CtxInv'
      BY <1>2, Settled DEF TunnelEnds, Close, StageInv, CtxInv
    <2>4. CarryInv'
      BY <1>2, Settled DEF TunnelEnds, Close, StageInv, CarryInv, From, Masked, Lead, Start
    <2>5. WriterInv'
      BY <1>2 DEF TunnelEnds, Close, WriterInv
    <2>6. DoneInv'
      BY <1>2 DEF TunnelEnds, Close, CarryInv, WriterInv, DoneInv, UpDone, Masked
    <2>7. QED
      BY <2>1, <2>2, <2>3, <2>4, <2>5, <2>6
  <1>3. CASE Closes
    <2>1. RelayTyped'
      BY <1>3, Settled DEF Closes, Leave, Close, Go
    <2>2. StageInv'
      BY <1>3, Settled DEF Closes, Leave, Close, Go, StageInv, Masked, Lead, Start
    <2>3. CtxInv'
      BY <1>3, Settled DEF Closes, Leave, Close, Go, StageInv, CtxInv
    <2>4. CarryInv'
      BY <1>3, Settled DEF Closes, Leave, Close, Go, StageInv, CarryInv, From, Masked, Lead, Start
    <2>5. WriterInv'
      BY <1>3 DEF Closes, Leave, Close, Go, WriterInv
    <2>6. DoneInv'
      BY <1>3 DEF Closes, Leave, Close, Go, StageInv, DoneInv, UpDone, Masked
    <2>7. QED
      BY <2>1, <2>2, <2>3, <2>4, <2>5, <2>6
  <1>4. CASE Halt
    <2>1. RelayTyped'
      BY <1>4, Settled DEF Halt, Leave, Close, Go
    <2>2. StageInv'
      BY <1>4, Settled DEF Halt, Leave, Close, Go, StageInv, Masked, Lead, Start
    <2>3. CtxInv'
      BY <1>4, Settled DEF Halt, Leave, Close, Go, StageInv, CtxInv
    <2>4. CarryInv'
      BY <1>4, Settled DEF Halt, Leave, Close, Go, StageInv, CarryInv, From, Masked, Lead, Start
    <2>5. WriterInv'
      BY <1>4 DEF Halt, Leave, Close, Go, WriterInv
    <2>6. DoneInv'
      BY <1>4 DEF Halt, Leave, Close, Go, CarryInv, WriterInv, DoneInv, UpDone, Masked
    <2>7. QED
      BY <2>1, <2>2, <2>3, <2>4, <2>5, <2>6
  <1>5. QED
    BY <1>1, <1>2, <1>3, <1>4

\* A transport has written its buffer.
LEMMA FlushedShape ==
    ASSUME RelayInv, NEW side \in DOMAIN writer, Flushed(side)
    PROVE  Shape'
  <1> USE DEF RelayInv, Shape, RelayTyped, NumbersTyped, StagesTyped, dataVars, peerVars,
             Waiting, Answering, Dialing, Relaying, Early, Late, Way
  <1>0. side \in {"client", "remote"} /\ Flushed(side)
    OBVIOUS
  <1>1. RelayTyped'
    BY <1>0, Settled DEF Flushed
  <1>2. StageInv'
    BY <1>0, Settled DEF Flushed, StageInv, Masked, Lead, Start
  <1>3. CtxInv'
    BY <1>0, Settled DEF Flushed, StageInv, CtxInv
  <1>4. CarryInv'
    BY <1>0, Settled DEF Flushed, StageInv, CarryInv, From, Masked, Lead, Start
  <1>5. WriterInv'
    BY <1>0 DEF Flushed, WriterInv
  <1>6. DoneInv'
    BY <1>0 DEF Flushed, CarryInv, WriterInv, DoneInv, UpDone, Masked
  <1>7. QED
    BY <1>1, <1>2, <1>3, <1>4, <1>5, <1>6

\* One of the two coroutines ends, waits for its target or goes on.
LEMMA CoroutineShape ==
    ASSUME RelayInv, NEW way \in Way, Ends(way) \/ Drains(way) \/ TargetClosed(way)
    PROVE  Shape'
  <1> USE DEF RelayInv, Shape, RelayTyped, NumbersTyped, StagesTyped, dataVars, peerVars,
             Waiting, Answering, Dialing, Relaying, Early, Late, Way
  <1>1. CASE Ends(way)
    <2>1. RelayTyped'
      BY <1>1, Settled DEF Ends, Stop, Active, Close, Target, Source, SourceEnd, Ready, Unread
    <2>2. StageInv'
      BY <1>1, Settled DEF Ends, Stop, Active, Close, Target, Source, SourceEnd, Ready, Unread, StageInv, Masked, Lead, Start
    <2>3. CtxInv'
      BY <1>1, Settled DEF Ends, Stop, Active, Close, Target, Source, SourceEnd, Ready, Unread, StageInv, CtxInv
    <2>4. CarryInv'
      BY <1>1, Settled DEF Ends, Stop, Active, Close, Target, Source, SourceEnd, Ready, Unread, StageInv, CarryInv, From, Masked, Lead, Start
    <2>5. WriterInv'
      BY <1>1 DEF Ends, Stop, Active, Close, Target, Source, SourceEnd, Ready, Unread, WriterInv
    <2>6. DoneInv'
      BY <1>1 DEF Ends, Stop, Active, Close, Target, Source, SourceEnd, Ready, Unread, CarryInv, WriterInv, DoneInv, UpDone, Masked
    <2>7. QED
      BY <2>1, <2>2, <2>3, <2>4, <2>5, <2>6
  <1>2. CASE Drains(way)
    <2>1. RelayTyped'
      BY <1>2, Settled DEF Drains, Stop, Active, Close, Target, TargetEnd
    <2>2. StageInv'
      BY <1>2, Settled DEF Drains, Stop, Active, Close, Target, TargetEnd, StageInv, Masked, Lead, Start
    <2>3. CtxInv'
      BY <1>2, Settled DEF Drains, Stop, Active, Close, Target, TargetEnd, StageInv, CtxInv
    <2>4. CarryInv'
      BY <1>2, Settled DEF Drains, Stop, Active, Close, Target, TargetEnd, StageInv, CarryInv, From, Masked, Lead, Start
    <2>5. WriterInv'
      BY <1>2 DEF Drains, Stop, Active, Close, Target, TargetEnd, WriterInv
    <2>6. DoneInv'
      BY <1>2 DEF Drains, Stop, Active, Close, Target, TargetEnd, CarryInv, WriterInv, DoneInv, UpDone, Masked
    <2>7. QED
      BY <2>1, <2>2, <2>3, <2>4, <2>5, <2>6
  <1>3. CASE TargetClosed(way)
    <2>1. RelayTyped'
      BY <1>3, Settled DEF TargetClosed, Active, Target
    <2>2. StageInv'
      BY <1>3, Settled DEF TargetClosed, Active, Target, StageInv, Masked, Lead, Start
    <2>3. CtxInv'
      BY <1>3, Settled DEF TargetClosed, Active, Target, StageInv, CtxInv
    <2>4. CarryInv'
      BY <1>3, Settled DEF TargetClosed, Active, Target, StageInv, CarryInv, From, Masked, Lead, Start
    <2>5. WriterInv'
      BY <1>3 DEF TargetClosed, Active, Target, WriterInv
    <2>6. DoneInv'
      BY <1>3 DEF TargetClosed, Active, Target, CarryInv, WriterInv, DoneInv, UpDone, Masked
    <2>7. QED
      BY <2>1, <2>2, <2>3, <2>4, <2>5, <2>6
  <1>4. QED
    BY <1>1, <1>2, <1>3

\* The first k bytes, enciphered from place e of a key stream on.
Ciphered(e, k) == [i \in 1 .. k |-> <<i, e + i - 1>>]

\* A sequence is what two others make, one behind the other.
LEMMA ConcatIs ==
    ASSUME NEW S, NEW s \in Seq(S), NEW r \in Seq(S), NEW z \in Seq(S),
           Len(z) = Len(s) + Len(r),
           \A i \in 1 .. Len(s) : z[i] = s[i],
           \A i \in 1 .. Len(r) : z[Len(s) + i] = r[i]
    PROVE  s \o r = z
  <1>1. s \o r \in Seq(S) /\ Len(s \o r) = Len(s) + Len(r) /\ Len(s) \in Nat /\ Len(r) \in Nat
    OBVIOUS
  <1>2. ASSUME NEW i \in 1 .. Len(s \o r)
        PROVE  (s \o r)[i] = z[i]
    <2>1. CASE i <= Len(s)
      BY <1>1, <2>1
    <2>2. CASE i > Len(s)
      <3>1. i - Len(s) \in 1 .. Len(r) /\ Len(s) + (i - Len(s)) = i
        BY <1>1, <2>2
      <3>2. (s \o r)[i] = r[i - Len(s)]
        BY <1>1, <2>2
      <3>3. QED
        BY <3>1, <3>2
    <2>3. QED
      BY <1>1, <2>1, <2>2
  <1>3. QED
    BY <1>1, <1>2, SeqEqual

\* A relay that passes on its bytes piece by piece passes on their sequence.
LEMMA PlainMore ==
    ASSUME NEW k \in Nat, NEW n \in Nat, NEW m \in Nat
    PROVE  /\ Plain(k, n) \o Plain(k + n, m) = Plain(k, n + m)
           /\ Len(Plain(k, n)) = n
  <1>1. /\ Plain(k, n) \in Seq(Int \X Int) /\ Len(Plain(k, n)) = n
        /\ Plain(k + n, m) \in Seq(Int \X Int) /\ Len(Plain(k + n, m)) = m
        /\ Plain(k, n + m) \in Seq(Int \X Int) /\ Len(Plain(k, n + m)) = n + m
    BY DEF Plain, Raw
  <1>2. \A i \in 1 .. n : Plain(k, n + m)[i] = Plain(k, n)[i]
    BY DEF Plain
  <1>3. \A i \in 1 .. m : Plain(k, n + m)[n + i] = Plain(k + n, m)[i]
    BY DEF Plain
  <1>4. Plain(k, n) \o Plain(k + n, m) = Plain(k, n + m)
    <2> DEFINE S == Int \X Int
               s == Plain(k, n)
               q == Plain(k + n, m)
               z == Plain(k, n + m)
    <2>1. /\ s \in Seq(S) /\ q \in Seq(S) /\ z \in Seq(S) /\ Len(z) = Len(s) + Len(q)
          /\ \A i \in 1 .. Len(s) : z[i] = s[i]
          /\ \A i \in 1 .. Len(q) : z[Len(s) + i] = q[i]
      BY <1>1, <1>2, <1>3
    <2> HIDE DEF S, s, q, z
    <2>2. s \o q = z
      BY <2>1, ConcatIs
    <2>3. QED
      BY <2>2 DEF s, q, z
  <1>5. QED
    BY <1>1, <1>4

\* The n bytes that follow them.
NextCiphered(e, k, n) == [i \in 1 .. n |-> <<k + i, e + k + i - 1>>]

LEMMA RecodedIs ==
    ASSUME NEW e \in Nat, NEW offset \in Nat, NEW k \in Nat, NEW n \in Nat,
           NEW dec \in Nat, dec - offset = k, NEW enc \in Nat, enc - e = k
    PROVE  Recoded(k, n, offset, dec, enc) = NextCiphered(e, k, n)
  <1>1. dec = offset + k /\ enc = e + k
    OBVIOUS
  <1>2. QED
    BY <1>1 DEF Recoded, NextCiphered

LEMMA CipheredMore ==
    ASSUME NEW e \in Nat, NEW k \in Nat, NEW n \in Nat
    PROVE  Ciphered(e, k) \o NextCiphered(e, k, n) = Ciphered(e, k + n)
  <1> DEFINE S == Int \X Int
             s == Ciphered(e, k)
             r == NextCiphered(e, k, n)
             z == Ciphered(e, k + n)
  <1>1. /\ s \in Seq(S) /\ Len(s) = k
        /\ r \in Seq(S) /\ Len(r) = n
        /\ z \in Seq(S) /\ Len(z) = k + n
    BY DEF Ciphered, NextCiphered
  <1>2. \A i \in 1 .. k : z[i] = s[i]
    BY DEF Ciphered
  <1>3. \A i \in 1 .. n : z[k + i] = r[i]
    BY DEF Ciphered, NextCiphered
  <1>4. /\ Len(z) = Len(s) + Len(r)
        /\ \A i \in 1 .. Len(s) : z[i] = s[i]
        /\ \A i \in 1 .. Len(r) : z[Len(s) + i] = r[i]
    BY <1>1, <1>2, <1>3
  <1> HIDE DEF S, s, r, z
  <1>5. s \o r = z
    BY <1>1, <1>4, ConcatIs
  <1>6. QED
    BY <1>5 DEF s, r, z

\* Two ciphers that have been moved on together.
Ciphers(a, b) == [cltDec |-> a, tgEnc |-> a, tgDec |-> b, cltEnc |-> b]

LEMMA CiphersAre ==
    ASSUME NEW a \in Nat, NEW b \in Nat, NEW c, c = Ciphers(a, b)
    PROVE  /\ c \in [cltDec : Nat, tgEnc : Nat, tgDec : Nat, cltEnc : Nat]
           /\ c.cltDec = a /\ c.tgEnc = a /\ c.tgDec = b /\ c.cltEnc = b
  BY DEF Ciphers

LEMMA CiphersMove ==
    ASSUME NEW a \in Nat, NEW b \in Nat, NEW n \in Nat, NEW c, NEW d, c = Ciphers(a, b)
    PROVE  /\ d = [c EXCEPT !.cltDec = @ + n, !.tgEnc = @ + n] => d = Ciphers(a + n, b)
           /\ d = [c EXCEPT !.tgDec = @ + n, !.cltEnc = @ + n] => d = Ciphers(a, b + n)
  BY DEF Ciphers

\* A coroutine passes on what it has read: the client's bytes, ...
LEMMA CarriesUp ==
    ASSUME RelayInv, CarryUp
    PROVE  RelayInv'
  <1> USE DEF dataVars, peerVars
  <1>0. RelayTyped /\ StageInv /\ CtxInv /\ CarryInv /\ WriterInv /\ DoneInv /\ Contents
    BY DEF RelayInv, Shape
  <1> DEFINE k == Len(toRemote)
  <1>1. PICK n \in 1 .. Unread :
            /\ read' = read + n
            /\ toRemote' = toRemote \o
                  (IF Masked THEN Plain(read, n)
                   ELSE Recoded(read - Start, n, InitLen, ctx.cltDec, ctx.tgEnc))
            /\ ctx' = IF Masked THEN ctx ELSE [ctx EXCEPT !.cltDec = @ + n, !.tgEnc = @ + n]
    BY DEF CarryUp
  <1>2. /\ stage \in Relaying /\ relay["up"] = "reading" /\ gone # "broken"
        /\ relay' = [relay EXCEPT !["up"] = "draining"]
        /\ UNCHANGED <<visit, stage, answer, writer, halted, peerVars, heard, toClient>>
    BY DEF CarryUp, Active
  <1>3. /\ remote # "none" /\ read >= From /\ k = read - From
        /\ ~Masked => ctx = Ciphers(InitLen + k, heard)
    BY <1>0, <1>2 DEF CarryInv, Ciphers, Relaying, Late, Early
  <1>4. /\ n \in Nat /\ read + n <= arrived /\ k \in Nat /\ read = From + k
        /\ From \in Nat /\ Lead \in Nat /\ Start \in Nat /\ InitLen \in Nat
        /\ k + n \in Nat /\ InitLen + k \in Nat /\ heard \in Nat
    <2>1. From \in Nat /\ Lead \in Nat /\ Start \in Nat /\ InitLen \in Nat
      BY <1>0, Settled DEF RelayTyped, NumbersTyped
    <2>2. n \in 1 .. arrived - read /\ read \in Nat /\ arrived \in Nat /\ heard \in Nat
      BY <1>0, <1>1 DEF Unread, RelayTyped, NumbersTyped
    <2> HIDE DEF k
    <2>3. QED
      BY <1>3, <2>1, <2>2
  <1>5. /\ Lead' = Lead /\ Start' = Start /\ From' = From /\ (Masked' <=> Masked)
        /\ (Masked => From = Lead) /\ (~Masked => From = Start)
    BY <1>2, SameVisit DEF From
  <1> HIDE DEF k
  <1>6. /\ Len(toRemote') = k + n
        /\ toRemote' = IF Masked THEN Plain(Lead, k + n) ELSE Ciphered(InitLen, k + n)
    <2>1. CASE Masked
      <3>1. toRemote = Plain(Lead, k) /\ read = Lead + k
        BY <1>0, <1>4, <1>5, <2>1 DEF Contents, k
      <3>2. toRemote' = Plain(Lead, k) \o Plain(Lead + k, n)
        BY <1>1, <2>1, <3>1
      <3>3. toRemote' = Plain(Lead, k + n)
        BY <1>4, <3>2, PlainMore
      <3>4. QED
        BY <1>4, <2>1, <3>3, PlainMore
    <2>2. CASE ~Masked
      <3>1. toRemote = Ciphered(InitLen, k) /\ read - Start = k
        BY <1>0, <1>4, <1>5, <2>2 DEF Contents, Ciphered, k
      <3>2. ctx.cltDec = InitLen + k /\ ctx.tgEnc = InitLen + k
        BY <1>3, <1>4, <2>2, CiphersAre
      <3>3. toRemote' = Ciphered(InitLen, k) \o Recoded(k, n, InitLen, ctx.cltDec, ctx.tgEnc)
        BY <1>1, <2>2, <3>1
      <3>4. /\ ctx.cltDec \in Nat /\ ctx.cltDec - InitLen = k
            /\ ctx.tgEnc \in Nat /\ ctx.tgEnc - InitLen = k
        BY <1>4, <3>2
      <3>5. toRemote' = Ciphered(InitLen, k + n)
        <4>1. PICK dec \in Nat, enc \in Nat : dec = ctx.cltDec /\ enc = ctx.tgEnc
          BY <3>4
        <4>2. dec - InitLen = k /\ enc - InitLen = k
          BY <3>4, <4>1
        <4>3. Recoded(k, n, InitLen, dec, enc) = NextCiphered(InitLen, k, n)
          BY <1>4, <4>2, RecodedIs
        <4>4. Ciphered(InitLen, k) \o NextCiphered(InitLen, k, n) = Ciphered(InitLen, k + n)
          <5>1. InitLen \in Nat /\ k \in Nat /\ n \in Nat
            BY <1>4
          <5>2. QED
            BY <5>1, CipheredMore
        <4>5. QED
          BY <3>3, <4>1, <4>3, <4>4
      <3>6. Len(Ciphered(InitLen, k + n)) = k + n
        BY <1>4 DEF Ciphered
      <3>7. QED
        BY <2>2, <3>5, <3>6
    <2>3. QED
      BY <2>1, <2>2
  <1>7. ~Masked => ctx' = Ciphers(InitLen + (k + n), heard)
    <2>1. (InitLen + k) + n = InitLen + (k + n)
      BY <1>4
    <2>2. ASSUME ~Masked
          PROVE  ctx' = Ciphers((InitLen + k) + n, heard)
      <3>1. ctx' = [ctx EXCEPT !.cltDec = @ + n, !.tgEnc = @ + n]
        BY <1>1, <2>2
      <3>2. ctx = Ciphers(InitLen + k, heard)
        BY <1>3, <2>2
      <3>3. QED
        BY <1>4, <3>1, <3>2 DEF Ciphers
    <2>3. QED
      BY <2>1, <2>2
  <1>8. RelayTyped'
    <2>1. ctx' \in [cltDec : Nat, tgEnc : Nat, tgDec : Nat, cltEnc : Nat]
      <3>1. CASE Masked
        BY <1>0, <1>1, <3>1 DEF RelayTyped
      <3>2. CASE ~Masked
        BY <1>4, <1>7, <3>2, CiphersAre
      <3>3. QED
        BY <3>1, <3>2
    <2>2. QED
      <3>1. NumbersTyped'
        <4>1. read \in Nat /\ read' = read + n
          BY <1>0, <1>1 DEF RelayTyped, NumbersTyped
        <4>2. read' \in Nat /\ read' <= arrived
          BY <1>4, <4>1
        <4>3. QED
          BY <1>0, <1>2, <4>2 DEF RelayTyped, NumbersTyped
      <3>2. StagesTyped'
        BY <1>0, <1>2 DEF RelayTyped, StagesTyped, Way
      <3>3. QED
        BY <1>0, <1>2, <2>1, <3>1, <3>2 DEF RelayTyped
  <1>9. StageInv' /\ CtxInv' /\ WriterInv' /\ DoneInv'
    <2>1. StageInv' /\ CtxInv'
      BY <1>0, <1>2, <1>5 DEF StageInv, CtxInv, Relaying, Waiting, Answering
    <2>2. WriterInv'
      BY <1>0, <1>2 DEF WriterInv, StagesTyped, RelayTyped, Relaying, Early, Waiting, Answering, Dialing, Way
    <2>3. DoneInv'
      BY <1>0, <1>2 DEF DoneInv, StagesTyped, RelayTyped, Relaying, Way
    <2>4. QED
      BY <2>1, <2>2, <2>3
  <1>10. CarryInv'
    <2>1. remote' # "none" /\ stage' \notin Early /\ UNCHANGED heard
      BY <1>2, <1>3 DEF Relaying, Early, Waiting, Answering, Dialing
    <2>2. read' >= From' /\ Len(toRemote') = read' - From'
      <3>1. k \in Nat /\ n \in Nat /\ From \in Nat /\ read = From + k /\ read' = read + n
        BY <1>1, <1>4
      <3>2. read' = From + (k + n) /\ read' >= From
        BY <3>1
      <3>3. read' - From = k + n
        BY <3>1, <3>2
      <3>4. QED
        BY <1>5, <1>6, <3>2, <3>3
    <2>3. QED
      BY <1>5, <1>6, <1>7, <2>1, <2>2 DEF CarryInv, Ciphers
  <1>11. Contents'
    BY <1>0, <1>2, <1>5, <1>6 DEF Contents, Ciphered
  <1>12. QED
    BY <1>8, <1>9, <1>10, <1>11 DEF RelayInv, Shape

\* ... and those of the other side.
LEMMA CarriesDown ==
    ASSUME RelayInv, CarryDown
    PROVE  RelayInv'
  <1> USE DEF dataVars, peerVars
  <1>0. RelayTyped /\ StageInv /\ CtxInv /\ CarryInv /\ WriterInv /\ DoneInv /\ Contents
    BY DEF RelayInv, Shape
  <1>1. PICK n \in 1 .. offered - heard :
            /\ heard' = heard + n
            /\ toClient' = toClient \o
                  (IF Masked THEN Plain(heard, n)
                   ELSE Recoded(heard, n, 0, ctx.tgDec, ctx.cltEnc))
            /\ ctx' = IF Masked THEN ctx ELSE [ctx EXCEPT !.tgDec = @ + n, !.cltEnc = @ + n]
    BY DEF CarryDown
  <1>2. /\ stage \in Relaying /\ relay["down"] = "reading"
        /\ relay' = [relay EXCEPT !["down"] = "draining"]
        /\ UNCHANGED <<visit, stage, answer, writer, halted, peerVars, read, toRemote>>
    BY DEF CarryDown, Active
  <1>3. /\ remote # "none" /\ read >= From /\ Len(toRemote) = read - From
        /\ ~Masked => ctx = Ciphers(InitLen + Len(toRemote), heard)
    BY <1>0, <1>2 DEF CarryInv, Ciphers, Relaying, Late, Early
  <1>4. /\ n \in Nat /\ heard + n <= offered /\ heard \in Nat /\ heard + n \in Nat
        /\ InitLen + Len(toRemote) \in Nat
    <2>1. From \in Nat /\ InitLen \in Nat /\ read \in Nat
      BY <1>0, Settled DEF RelayTyped, NumbersTyped
    <2>2. Len(toRemote) \in Nat
      BY <1>3, <2>1
    <2>3. heard \in Nat /\ offered \in Nat
      BY <1>0 DEF RelayTyped, NumbersTyped
    <2>4. QED
      BY <1>1, <2>1, <2>2, <2>3
  <1>5. Lead' = Lead /\ Start' = Start /\ From' = From /\ (Masked' <=> Masked)
    BY <1>2, SameVisit
  <1>6. toClient' = IF Masked THEN Plain(0, heard + n) ELSE Ciphered(0, heard + n)
    <2>1. CASE Masked
      <3>1. toClient = Plain(0, heard) /\ 0 + heard = heard
        BY <1>0, <1>4, <2>1 DEF Contents
      <3>2. toClient' = Plain(0, heard) \o Plain(0 + heard, n)
        BY <1>1, <2>1, <3>1
      <3>3. toClient' = Plain(0, heard + n)
        BY <1>4, <3>2, PlainMore
      <3>4. QED
        BY <2>1, <3>3
    <2>2. CASE ~Masked
      <3>1. toClient = Ciphered(0, heard) /\ 0 + heard = heard
        BY <1>0, <1>4, <2>2 DEF Contents, Ciphered
      <3>2. ctx = Ciphers(InitLen + Len(toRemote), heard)
        BY <1>3, <2>2
      <3>3. ctx.tgDec = heard /\ ctx.cltEnc = heard
        BY <1>4, <3>2 DEF Ciphers
      <3>4. toClient' = Ciphered(0, heard) \o Recoded(heard, n, 0, ctx.tgDec, ctx.cltEnc)
        BY <1>1, <2>2, <3>1
      <3>5. ctx.tgDec - 0 = heard /\ ctx.cltEnc - 0 = heard
        BY <1>4, <3>3
      <3>6. toClient' = Ciphered(0, heard + n)
        <4>1. PICK dec \in Nat, enc \in Nat : dec = ctx.tgDec /\ enc = ctx.cltEnc
          BY <1>4, <3>3
        <4>2. dec - 0 = heard /\ enc - 0 = heard
          BY <3>5, <4>1
        <4>3. Recoded(heard, n, 0, dec, enc) = NextCiphered(0, heard, n)
          BY <1>4, <4>2, RecodedIs
        <4>4. Ciphered(0, heard) \o NextCiphered(0, heard, n) = Ciphered(0, heard + n)
          BY <1>4, CipheredMore
        <4>5. QED
          BY <3>4, <4>1, <4>3, <4>4
      <3>7. QED
        BY <2>2, <3>6
    <2>3. QED
      BY <2>1, <2>2
  <1>7. ~Masked => ctx' = Ciphers(InitLen + Len(toRemote), heard + n)
    <2>1. ASSUME ~Masked
          PROVE  ctx' = Ciphers(InitLen + Len(toRemote), heard + n)
      <3>1. ctx' = [ctx EXCEPT !.tgDec = @ + n, !.cltEnc = @ + n]
        BY <1>1, <2>1
      <3>2. ctx = Ciphers(InitLen + Len(toRemote), heard)
        BY <1>3, <2>1
      <3>3. QED
        BY <1>4, <3>1, <3>2 DEF Ciphers
    <2>2. QED
      BY <2>1
  <1>8. RelayTyped'
    <2>1. ctx' \in [cltDec : Nat, tgEnc : Nat, tgDec : Nat, cltEnc : Nat]
      <3>1. CASE Masked
        BY <1>0, <1>1, <3>1 DEF RelayTyped
      <3>2. CASE ~Masked
        BY <1>4, <1>7, <3>2, CiphersAre
      <3>3. QED
        BY <3>1, <3>2
    <2>2. QED
      <3>1. NumbersTyped'
        BY <1>0, <1>1, <1>2, <1>4 DEF RelayTyped, NumbersTyped
      <3>2. StagesTyped'
        BY <1>0, <1>2 DEF RelayTyped, StagesTyped, Way
      <3>3. QED
        BY <1>0, <1>2, <2>1, <3>1, <3>2 DEF RelayTyped
  <1>9. StageInv' /\ CtxInv' /\ WriterInv' /\ DoneInv'
    <2>1. StageInv' /\ CtxInv'
      BY <1>0, <1>2, <1>5 DEF StageInv, CtxInv, Relaying, Waiting, Answering
    <2>2. WriterInv'
      BY <1>0, <1>2 DEF WriterInv, StagesTyped, RelayTyped, Relaying, Early, Waiting, Answering, Dialing, Way
    <2>3. DoneInv'
      BY <1>0, <1>2, <1>5 DEF DoneInv, UpDone, StagesTyped, RelayTyped, Relaying, Way
    <2>4. QED
      BY <2>1, <2>2, <2>3
  <1>10. CarryInv'
    <2>1. remote' # "none" /\ stage' \notin Early
      BY <1>2, <1>3 DEF Relaying, Early, Waiting, Answering, Dialing
    <2>2. QED
      BY <1>1, <1>2, <1>3, <1>5, <1>7, <2>1 DEF CarryInv, Ciphers
  <1>11. Contents'
    <2>1. toRemote' = IF Masked' THEN Plain(Lead', Len(toRemote'))
                      ELSE [i \in 1 .. Len(toRemote') |-> <<i, InitLen + i - 1>>]
      BY <1>0, <1>2, <1>5 DEF Contents
    <2>2. Ciphered(0, heard + n) = [i \in 1 .. heard + n |-> <<i, i - 1>>]
      BY <1>4 DEF Ciphered
    <2>3. QED
      BY <1>1, <1>5, <1>6, <2>1, <2>2 DEF Contents
  <1>12. QED
    BY <1>8, <1>9, <1>10, <1>11 DEF RelayInv, Shape

\* What has been written stays, ...
LEMMA ContentsKept ==
    ASSUME RelayInv, UNCHANGED <<toRemote, toClient, heard, visit, answer>>
    PROVE  Contents'
  <1>1. Lead' = Lead /\ (Masked' <=> Masked)
    BY SameVisit
  <1>2. Contents
    BY DEF RelayInv
  <1>3. QED
    BY <1>1, <1>2 DEF Contents

\* ... and nothing has been before there is another side.
LEMMA NothingWritten ==
    ASSUME RelayInv, stage \in Early
    PROVE  remote = "none" /\ toRemote = <<>> /\ toClient = <<>> /\ heard = 0
  BY DEF RelayInv, Shape, CarryInv, RelayTyped, NumbersTyped

LEMMA ContentsEmpty ==
    ASSUME toRemote' = <<>>, toClient' = <<>>, heard' = 0
    PROVE  Contents'
  <1>1. /\ Plain(Lead', 0) = <<>> /\ Plain(0, 0) = <<>>
        /\ [i \in 1 .. 0 |-> <<i, InitLen + i - 1>>] = <<>> /\ [i \in 1 .. 0 |-> <<i, i - 1>>] = <<>>
    BY DEF Plain
  <1>2. Len(toRemote') = 0
    OBVIOUS
  <1>3. QED
    BY <1>1, <1>2 DEF Contents

LEMMA RelayBegins == RelayInit => RelayInv
  <1> SUFFICES ASSUME RelayInit PROVE RelayInv
    OBVIOUS
  <1> USE DEF RelayInit
  <1>1. RelayTyped
    <2>1. NumbersTyped
      BY RelayAssumption DEF NumbersTyped
    <2>2. StagesTyped
      BY DEF StagesTyped, Early, Waiting
    <2>3. QED
      BY <2>1, <2>2 DEF RelayTyped
  <1>2. StageInv
    BY Settled, <1>1 DEF StageInv, Lead
  <1>3. CtxInv /\ WriterInv /\ DoneInv
    BY <1>1 DEF CtxInv, WriterInv, DoneInv
  <1>4. CarryInv
    BY <1>1 DEF CarryInv, Late
  <1>5. Contents
    <2>1. /\ Plain(Lead, 0) = <<>> /\ Plain(0, 0) = <<>>
          /\ [i \in 1 .. 0 |-> <<i, InitLen + i - 1>>] = <<>> /\ [i \in 1 .. 0 |-> <<i, i - 1>>] = <<>>
      BY DEF Plain
    <2>2. toRemote = <<>> /\ Len(toRemote) = 0 /\ toClient = <<>> /\ heard = 0
      OBVIOUS
    <2>3. QED
      BY <2>1, <2>2 DEF Contents
  <1>6. QED
    BY <1>1, <1>2, <1>3, <1>4, <1>5 DEF RelayInv, Shape

LEMMA RelayStep == RelayInv /\ [RelayNext]_relayVars => RelayInv'
  <1> SUFFICES ASSUME RelayInv, [RelayNext]_relayVars PROVE RelayInv'
    OBVIOUS
  <1>1. CASE VisitorWrites \/ VisitorEnds \/ RemoteWrites \/ RemoteEnds
    <2>1. UNCHANGED <<toRemote, toClient, heard, visit, answer>>
      BY <1>1 DEF VisitorWrites, VisitorEnds, RemoteWrites, RemoteEnds, dataVars
    <2>2. QED
      BY <1>1, <2>1, PeersShape, ContentsKept DEF RelayInv
  <1>2. CASE ReadLine \/ ReadHeader
    <2>1. UNCHANGED <<toRemote, toClient, heard, visit, answer>>
      BY <1>2 DEF ReadLine, ReadHeader
    <2>2. QED
      BY <1>2, <2>1, ReadsShape, ContentsKept DEF RelayInv
  <1>3. CASE ReadFirst \/ ReadBody
    <2>1. stage \in Early /\ UNCHANGED <<toRemote, toClient, heard>>
      BY <1>3 DEF ReadFirst, ReadBody, Early, Waiting
    <2>2. QED
      BY <1>3, <2>1, ReadsShape, NothingWritten, ContentsEmpty DEF RelayInv
  <1>4. CASE Answered \/ ReadFails \/ BadHandshake \/ GoodHandshake \/ HandOver \/ Drop
    <2>1. UNCHANGED <<toRemote, toClient, heard, visit, answer>>
      BY <1>4 DEF Answered, ReadFails, BadHandshake, GoodHandshake, HandOver, Drop, dataVars
    <2>2. QED
      BY <1>4, <2>1, HandshakeShape, ContentsKept DEF RelayInv
  <1>5. CASE DialFails \/ Greeted
    <2>1. UNCHANGED <<toRemote, toClient, heard, visit, answer>>
      BY <1>5 DEF DialFails, Greeted, dataVars
    <2>2. QED
      BY <1>5, <2>1, DialShape, ContentsKept DEF RelayInv
  <1>6. CASE DialOk
    <2>1. Shape'
      BY <1>6, DialShape
    <2>2. /\ stage \in Dialing /\ stage \in Early /\ UNCHANGED <<toClient, heard, visit, answer>>
          /\ toRemote' = IF stage = "dialing_mask" THEN Plain(Lead, read - Lead) ELSE <<>>
      BY <1>6 DEF DialOk, Early, Dialing
    <2>3. toClient' = <<>> /\ heard' = 0
      BY <2>2, NothingWritten
    <2>4. CASE stage = "dialing_mask"
      <3>1. Masked' /\ Lead' = Lead
        BY <2>2, <2>4, SameVisit DEF RelayInv, Shape, StageInv, Masked
      <3>2. read = Lead + 3 /\ Lead \in Nat
        BY <2>4, Settled DEF RelayInv, Shape, StageInv
      <3>3. toRemote' = Plain(Lead, 3)
        BY <2>2, <2>4, <3>2
      <3>4. Len(toRemote') = 3 /\ Plain(0, 0) = <<>>
        BY <3>3 DEF Plain
      <3>5. QED
        BY <2>1, <2>3, <3>1, <3>3, <3>4 DEF RelayInv, Contents
    <2>5. CASE stage # "dialing_mask"
      BY <2>1, <2>2, <2>3, <2>5, ContentsEmpty DEF RelayInv
    <2>6. QED
      BY <2>4, <2>5
  <1>7. CASE MaskedEnds \/ TunnelEnds \/ Closes \/ Halt
    <2>1. UNCHANGED <<toRemote, toClient, heard, visit, answer>>
      BY <1>7 DEF MaskedEnds, TunnelEnds, Closes, Halt, dataVars
    <2>2. QED
      BY <1>7, <2>1, EndingShape, ContentsKept DEF RelayInv
  <1>8. CASE CarryUp \/ CarryDown
    BY <1>8, CarriesUp, CarriesDown
  <1>9. ASSUME NEW way \in Way, Ends(way) \/ Drains(way) \/ TargetClosed(way)
        PROVE  RelayInv'
    <2>1. UNCHANGED <<toRemote, toClient, heard, visit, answer>>
      BY <1>9 DEF Ends, Drains, TargetClosed, dataVars
    <2>2. QED
      BY <1>9, <2>1, CoroutineShape, ContentsKept DEF RelayInv
  <1>10. ASSUME NEW side \in DOMAIN writer, Flushed(side)
         PROVE  RelayInv'
    <2>1. UNCHANGED <<toRemote, toClient, heard, visit, answer>>
      BY <1>10 DEF Flushed, dataVars
    <2>2. QED
      BY <1>10, <2>1, FlushedShape, ContentsKept DEF RelayInv
  <1>11. CASE UNCHANGED relayVars
    <2> USE <1>11 DEF relayVars, peerVars, dataVars, RelayInv, Shape
    <2>1. RelayTyped'
      BY DEF RelayTyped, NumbersTyped, StagesTyped
    <2>2. StageInv'
      BY DEF StageInv, Masked, Lead, Start
    <2>3. CtxInv' /\ WriterInv'
      BY DEF CtxInv, WriterInv
    <2>4. CarryInv'
      BY DEF CarryInv, From, Masked, Lead, Start
    <2>5. DoneInv'
      BY DEF DoneInv, UpDone, Masked
    <2>6. QED
      BY <2>1, <2>2, <2>3, <2>4, <2>5, ContentsKept
  <1>12. QED
    BY <1>1, <1>2, <1>3, <1>4, <1>5, <1>6, <1>7, <1>8, <1>9, <1>10, <1>11
    DEF RelayNext, Handler, Coroutine

-----------------------------------------------------------------------------
(* The connection as a whole.                                              *)

\* Every session is one of the bridge: before the hand-over, and without one,
\* the bridge does nothing, and after it nothing else happens.
THEOREM SessionIsBridge == SessionSpec => Spec
  <1>1. SessionInit => Init
    BY DEF SessionInit
  <1>2. [SessionNext]_sessionVars => [Next]_vars
    BY DEF SessionNext, sessionVars, Bridged
  <1>3. QED
    BY <1>1, <1>2, PTL DEF SessionSpec, Spec

LEMMA RelayInvariant == SessionSpec => []RelayInv
  <1>1. SessionInit => RelayInv
    BY RelayBegins DEF SessionInit
  <1>2. [SessionNext]_sessionVars => [RelayNext]_relayVars
    BY DEF SessionNext, sessionVars, Bridged
  <1>3. QED
    BY <1>1, <1>2, RelayStep, PTL DEF SessionSpec

\* The places of the key streams, the bytes read of each side and the state of
\* the two transports stay what they are meant to be, whatever the two sides do.
THEOREM SessionsTyped == SessionSpec => []SessionTypeOK
  <1>1. BridgeInv => TypeOK
    BY DEF BridgeInv
  <1>2. RelayInv => RelayTypeOK
    <2> SUFFICES ASSUME RelayInv PROVE RelayTypeOK
      OBVIOUS
    <2> USE DEF RelayInv, Shape, RelayTyped
    <2>1. /\ arrived \in 0 .. MaxBytes /\ read \in 0 .. arrived
          /\ offered \in 0 .. MaxOffer /\ heard \in 0 .. offered
      BY RelayAssumption DEF NumbersTyped
    <2>2. stage \in Waiting \cup Answering \cup Dialing \cup Relaying \cup Closing
                    \cup {"drop", "greeting", "bridged", "done"}
      BY DEF StagesTyped, Early, Late, Relaying, Closing
    <2>3. remote = "none" => toRemote = <<>> /\ offered = 0
      BY DEF CarryInv
    <2>4. stage = "bridged" => ~(visit.masking /\ answer = "none")
      BY DEF StageInv, Masked
    <2>5. QED
      BY <2>1, <2>2, <2>3, <2>4 DEF RelayTypeOK, StagesTyped
  <1>3. QED
    BY <1>1, <1>2, SessionIsBridge, BridgeInvariant, RelayInvariant, PTL DEF SessionTypeOK

\* Whatever one side of a session has sent reaches the other, over a WebSocket,
\* to the masking site and to a data centre: once, in order, and each byte
\* enciphered at the place of the key stream where its reader stands.
THEOREM StreamsPassedOn == SessionSpec => []Delivered
  <1>1. RelayInv => Relayed
    <2> SUFFICES ASSUME RelayInv PROVE Relayed
      OBVIOUS
    <2>1. Contents
      BY DEF RelayInv
    <2>2. remote # "none" => Len(toRemote) = read - (IF Masked THEN Lead ELSE Start)
      BY DEF RelayInv, Shape, CarryInv, From
    <2>3. Masked /\ stage = "done" /\ gone = "eof" /\ remote = "open" /\ ~halted => read = arrived
      BY DEF RelayInv, Shape, DoneInv, UpDone
    <2>4. QED
      BY <2>1, <2>2, <2>3 DEF Relayed, Contents
  <1>2. QED
    BY <1>1, SessionIsBridge, ServerStreamDelivered, RelayInvariant, PTL DEF Delivered

=============================================================================
