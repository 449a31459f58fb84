---------------------------- MODULE RoutingProofs ----------------------------
(***************************************************************************)
(* Theorems about ClientRouting for any clients, keys, domains and         *)
(* workers: a session's ciphers are used towards one server, the counters  *)
(* account for every connection, a key is blacklisted only on the word of  *)
(* all its domains, and nobody is turned away before every method has been *)
(* tried.                                                                  *)
(***************************************************************************)
EXTENDS ClientRouting, FiniteSetTheorems, SequenceTheorems, TLAPS

Busy(h) == h.pc \notin {"idle", "closed"}

\* Attempts a fallback for k makes at workers, and at the Cloudflare domains.
ByWorkers(k) == IF k \in HasIp THEN Cardinality(Worker) ELSE 0
ByCf == IF UseCf THEN NCf ELSE 0

\* The methods behind "cf", and behind the workers.
LastMethod(k) == IF k \in HasIp THEN <<"tcp">> ELSE <<>>
AfterWorkers(k) ==
    IF UseCf THEN IF k \in HasIp THEN <<"cf", "tcp">> ELSE <<"cf">> ELSE LastMethod(k)

\* All workers and n Cloudflare domains have been tried, in this order.
Tried(made, k, n) ==
    /\ Len(made) = ByWorkers(k) + n
    /\ \A j \in DOMAIN made : IF j <= ByWorkers(k) THEN made[j] \in Worker ELSE made[j] = "cf"

\* The two flags say of the answers so far what GiveUp wants to know of them.
FlagsAgree(h) ==
    /\ h.failedRedirect <=> \E i \in DOMAIN h.answers : h.answers[i] = "redirect"
    /\ h.allRedirects <=> \A i \in DOMAIN h.answers : h.answers[i] = "redirect"

\* Where a handler is suspended tells what it has tried and what it has left.
Route(h) ==
    /\ h.pc \in {"idle", "handshake"} => h.answers = <<>>
    /\ h.pc \in {"idle", "handshake", "draining", "dialling"} => h.attempts = <<>>
    /\ h.pc = "dialling" => /\ h.at \in 1 .. NDomains /\ Len(h.answers) = h.at - 1
                            /\ FlagsAgree(h)
    /\ h.pc = "cf_worker" => /\ h.key \in HasIp /\ h.methods = AfterWorkers(h.key)
                             /\ h.at \in 1 .. Cardinality(Worker) /\ Len(h.attempts) = h.at
                             /\ \A j \in DOMAIN h.attempts : h.attempts[j] \in Worker
    /\ h.pc = "cf" => /\ UseCf /\ h.methods = LastMethod(h.key)
                      /\ h.at \in 1 .. NCf /\ Tried(h.attempts, h.key, h.at)
    /\ h.pc = "tcp" => /\ h.key \in HasIp /\ h.methods = <<>>
                       /\ \E made \in Seq(Worker \cup {"cf", "tcp"}) :
                             Tried(made, h.key, ByCf) /\ h.attempts = Append(made, "tcp")
    /\ h.inits = (IF h.pc \in {"sending", "bridging"} THEN 1
                  ELSE IF h.pc = "closed" THEN h.inits ELSE 0)
    /\ h.inits <= 1

TypedButCounts ==
    /\ cl \in [Client -> Handler]
    /\ blacklist \subseteq DcKey
    /\ cooling \subseteq DcKey
    /\ workers \in SetToSeqs(Worker)
    /\ stat \in [{"total", "active", "bad", "ws", "cfproxy", "tcp"} -> Nat]

\* Connections that may have been counted as bad.
Dropped == {c \in Client : cl[c].pc \in {"draining", "closed"}}

RouteInv ==
    /\ TypedButCounts
    /\ \A c \in Client : Route(cl[c])
    /\ CountersAgree
    /\ stat["bad"] <= Cardinality(Dropped)

-----------------------------------------------------------------------------
(* What a step does to the handler c, whose record becomes r.              *)

Accepts(c, r) ==
    /\ cl[c].pc = "idle" /\ r.pc = "handshake" /\ r.inits = cl[c].inits
    /\ stat' = [stat EXCEPT !["total"] = @ + 1, !["active"] = @ + 1]

Ends(c, r) ==
    /\ Busy(cl[c]) /\ r.pc = "closed" /\ r.inits = cl[c].inits
    /\ stat' = [stat EXCEPT !["active"] = @ - 1]
    /\ cl[c].pc \in Looking \ {"sending"} => Sought(c)

Opens(c, r) ==
    /\ Busy(cl[c]) /\ cl[c].pc # "draining" /\ r.pc = "sending"
    /\ cl[c].inits = 0 /\ r.inits = 1
    /\ \E s \in {"ws", "cfproxy", "tcp"} : stat' = Count(s)

GoesOn(c, r) ==
    /\ Busy(cl[c]) /\ cl[c].pc # "draining" /\ Busy(r) /\ r.inits = cl[c].inits
    /\ stat' = stat \/ (r.pc = "draining" /\ stat' = Count("bad"))

Turn(c, r) ==
    /\ cl' = [cl EXCEPT ![c] = r] /\ Route(r)
    /\ Accepts(c, r) \/ Ends(c, r) \/ Opens(c, r) \/ GoesOn(c, r)

\* The turn h is in the middle of: that of a handler that waits for an upstream.
InTurn(c, h) ==
    /\ h \in Handler /\ Busy(h) /\ h.pc # "draining" /\ h.pc = cl[c].pc
    /\ h.inits = 0 /\ cl[c].inits = 0

-----------------------------------------------------------------------------
(* Counting.                                                               *)

LEMMA WorkerCount == Cardinality(Worker) \in Nat /\ (Worker # {} => Cardinality(Worker) > 0)
  BY RoutingAssumption, FS_CardinalityType, FS_EmptySet

LEMMA WorkersLength ==
    ASSUME workers \in SetToSeqs(Worker)
    PROVE  /\ workers \in [1 .. Cardinality(Worker) -> Worker]
           /\ Len(workers) = Cardinality(Worker)
  BY WorkerCount DEF SetToSeqs

\* How often "cf" and "tcp" come after the workers.
LEMMA TriedCounts ==
    ASSUME NEW made \in Seq(Worker \cup {"cf", "tcp"}), NEW k \in DcKey, NEW n \in Nat,
           Tried(made, k, n)
    PROVE  /\ Cardinality({i \in DOMAIN made : made[i] = "cf"}) = n
           /\ Cardinality({i \in DOMAIN Append(made, "tcp") : Append(made, "tcp")[i] = "cf"}) = n
           /\ Cardinality({i \in DOMAIN Append(made, "tcp") : Append(made, "tcp")[i] = "tcp"}) = 1
  <1>1. ByWorkers(k) \in Nat
    BY WorkerCount DEF ByWorkers
  <1>2. \A w \in Worker : w # "cf" /\ w # "tcp"
    BY RoutingAssumption
  <1>3. {i \in DOMAIN made : made[i] = "cf"} = ByWorkers(k) + 1 .. ByWorkers(k) + n
    BY <1>1, <1>2 DEF Tried
  <1>4. {i \in DOMAIN Append(made, "tcp") : Append(made, "tcp")[i] = "cf"}
            = ByWorkers(k) + 1 .. ByWorkers(k) + n
    BY <1>1, <1>2 DEF Tried
  <1>5. {i \in DOMAIN Append(made, "tcp") : Append(made, "tcp")[i] = "tcp"} = {Len(made) + 1}
    BY <1>1, <1>2 DEF Tried
  <1>6. Cardinality(ByWorkers(k) + 1 .. ByWorkers(k) + n) = n
    BY <1>1, FS_Interval
  <1>7. Cardinality({Len(made) + 1}) = 1
    BY FS_Singleton
  <1>8. QED
    BY <1>3, <1>4, <1>5, <1>6, <1>7

-----------------------------------------------------------------------------
(* The pieces of a handler's step.                                         *)

LEMMA CloseTurn ==
    ASSUME NEW c \in Client, NEW h \in Handler, Busy(cl[c]), Close(c, h),
           h.inits = cl[c].inits, h.inits \in {0, 1},
           cl[c].pc \in Looking \ {"sending"} => Sought(c)
    PROVE  \E r \in Handler : Turn(c, r) /\ r.answers = h.answers /\ r.pc = "closed"
  <1> DEFINE r == [h EXCEPT !.pc = "closed"]
  <1>1. r \in Handler /\ r.pc = "closed" /\ r.inits = h.inits /\ r.answers = h.answers
    BY DEF Handler
  <1>2. Route(r)
    BY <1>1 DEF Route
  <1>3. QED
    BY <1>1, <1>2 DEF Close, Turn, Ends

LEMMA OpenTurn ==
    ASSUME NEW c \in Client, NEW h, InTurn(c, h), NEW s \in {"ws", "cfproxy", "tcp"},
           Open(c, h, s)
    PROVE  \E r \in Handler : Turn(c, r) /\ r.answers = h.answers /\ r.pc = "sending"
  <1> DEFINE r == [h EXCEPT !.pc = "sending", !.inits = @ + 1]
  <1>0. h \in Handler /\ h.inits = 0 /\ h.inits + 1 \in Nat /\ h.inits + 1 = 1
    BY DEF InTurn
  <1>1. r \in Handler /\ r.pc = "sending" /\ r.inits = 1 /\ r.answers = h.answers
    BY <1>0 DEF Handler
  <1>2. cl' = [cl EXCEPT ![c] = r] /\ stat' = Count(s)
    BY DEF Open
  <1> HIDE DEF r
  <1>3. Route(r)
    BY <1>1 DEF Route
  <1>4. Opens(c, r)
    BY <1>1, <1>2 DEF Opens, InTurn, Busy
  <1>5. QED
    BY <1>1, <1>2, <1>3, <1>4 DEF Turn

\* What becomes of h when it awaits the next attempt.
Waiting(h, m, i, what) == [h EXCEPT !.pc = m, !.at = i, !.attempts = Append(@, what)]

LEMMA WaitTurn ==
    ASSUME NEW c \in Client, NEW h, InTurn(c, h), NEW m \in {"cf_worker", "cf", "tcp"},
           NEW i \in Nat, NEW what \in Worker \cup {"cf", "tcp"}, Wait(c, h, m, i, what),
           NEW r, r = Waiting(h, m, i, what), Route(r)
    PROVE  r \in Handler /\ Turn(c, r) /\ r.answers = h.answers /\ r.pc = m
  <1>0. h \in Handler /\ h.inits = 0
    BY DEF InTurn
  <1>a. Append(h.attempts, what) \in Seq(Worker \cup {"cf", "tcp"})
    BY <1>0 DEF Handler
  <1>b. m \in {"idle", "handshake", "draining", "dialling", "cf_worker", "cf", "tcp",
                "sending", "bridging", "closed"}
    OBVIOUS
  <1>1. r \in Handler /\ r.pc = m /\ r.inits = 0 /\ r.answers = h.answers
    BY <1>0, <1>a, <1>b DEF Handler, Waiting
  <1>2. cl' = [cl EXCEPT ![c] = r] /\ stat' = stat
    BY DEF Wait, Waiting
  <1>3. GoesOn(c, r)
    BY <1>1, <1>2 DEF GoesOn, InTurn, Busy
  <1>4. QED
    BY <1>1, <1>2, <1>3 DEF Turn

\* The i-th turn of the worker loop.
LEMMA TryWorkerTurn ==
    ASSUME NEW c \in Client, NEW h, InTurn(c, h), h.key \in HasIp,
           NEW i \in 1 .. Cardinality(Worker), NEW list \in SetToSeqs(Worker),
           Len(h.attempts) = i - 1, \A j \in DOMAIN h.attempts : h.attempts[j] \in Worker,
           h.methods = AfterWorkers(h.key), TryWorker(c, h, i, list)
    PROVE  \E r \in Handler : Turn(c, r) /\ r.answers = h.answers
                               /\ r.pc \in {"sending", "cf_worker"}
  <1> DEFINE asked == [h EXCEPT !.attempts = Append(@, list[i])]
  <1>1. h \in Handler /\ list[i] \in Worker
    BY DEF InTurn, SetToSeqs
  <1>2. Append(h.attempts, list[i]) \in Seq(Worker \cup {"cf", "tcp"})
    BY <1>1 DEF Handler
  <1>3. CASE Open(c, asked, "cfproxy")
    <2>1. asked \in Handler /\ asked.pc = h.pc /\ asked.inits = h.inits
          /\ asked.answers = h.answers
      BY <1>1, <1>2 DEF Handler
    <2>2. InTurn(c, asked)
      BY <2>1 DEF InTurn, Busy
    <2> HIDE DEF asked
    <2>3. QED
      BY <1>3, <2>1, <2>2, OpenTurn
  <1>4. CASE Wait(c, h, "cf_worker", i, list[i])
    <2>0. PICK q : q = Waiting(h, "cf_worker", i, list[i])
      OBVIOUS
    <2>1. /\ q.pc = "cf_worker" /\ q.at = i /\ q.key = h.key /\ q.methods = h.methods
          /\ q.inits = 0 /\ q.attempts = Append(h.attempts, list[i])
      BY <1>1, <2>0 DEF Handler, InTurn, Waiting
    <2>2. h.attempts \in Seq(Worker \cup {"cf", "tcp"})
      BY <1>1 DEF Handler
    <2>3. Len(q.attempts) = i /\ \A j \in DOMAIN q.attempts : q.attempts[j] \in Worker
      BY <2>1, <2>2, <1>1, WorkerCount
    <2>4. Route(q)
      BY <2>1, <2>3 DEF Route
    <2>a. i \in Nat /\ list[i] \in Worker \cup {"cf", "tcp"}
      BY <1>1, WorkerCount
    <2>5. q \in Handler /\ Turn(c, q) /\ q.answers = h.answers /\ q.pc = "cf_worker"
      BY <1>4, <2>0, <2>a, <2>4, WaitTurn
    <2>6. QED
      BY <2>5
  <1>5. QED
    BY <1>3, <1>4 DEF TryWorker

\* What a handler may be left with when it is done with the workers or the domains.
Behind(h) ==
    \/ h.methods = AfterWorkers(h.key) /\ Tried(h.attempts, h.key, 0)
    \/ h.methods = LastMethod(h.key) /\ Tried(h.attempts, h.key, ByCf)

LEMMA ByCfType == ByCf \in Nat
  BY RoutingAssumption DEF ByCf

LEMMA AfterWorkersIs ==
    ASSUME NEW k
    PROVE  /\ UseCf => /\ AfterWorkers(k) # <<>> /\ Head(AfterWorkers(k)) = "cf"
                       /\ Tail(AfterWorkers(k)) = LastMethod(k)
           /\ ~UseCf => AfterWorkers(k) = LastMethod(k)
           /\ k \in HasIp => /\ LastMethod(k) # <<>> /\ Head(LastMethod(k)) = "tcp"
                             /\ Tail(LastMethod(k)) = <<>>
           /\ k \notin HasIp => LastMethod(k) = <<>>
  BY RoutingAssumption DEF AfterWorkers, LastMethod

LEMMA LastIs ==
    ASSUME NEW k
    PROVE  /\ LastMethod(k) \in Seq({"cf_worker", "cf", "tcp"})
           /\ ~(LastMethod(k) # <<>> /\ Head(LastMethod(k)) = "cf")
  <1>1. CASE k \in HasIp
    <2>1. LastMethod(k) = <<"tcp">>
      BY <1>1 DEF LastMethod
    <2>2. <<"tcp">> \in Seq({"cf_worker", "cf", "tcp"}) /\ Head(<<"tcp">>) = "tcp"
      OBVIOUS
    <2>3. QED
      BY <2>1, <2>2
  <1>2. CASE k \notin HasIp
    <2>1. LastMethod(k) = <<>>
      BY <1>2 DEF LastMethod
    <2>3. QED
      BY <2>1
  <1>3. QED
    BY <1>1, <1>2

\* The next method is awaited, or there is none and the client is turned away.
LEMMA TryCfOrTcpTurn ==
    ASSUME NEW c \in Client, NEW h, InTurn(c, h), Behind(h), TryCfOrTcp(c, h),
           h.key = cl[c].key \/ cl[c].pc = "handshake", h.attempts = cl[c].attempts
    PROVE  \E r \in Handler : Turn(c, r) /\ r.answers = h.answers
                               /\ r.pc \in {"cf", "tcp", "closed"}
  <1> DEFINE rest == IF h.methods # <<>> /\ Head(h.methods) = "cf" /\ NCf = 0
                     THEN Tail(h.methods) ELSE h.methods
  <1>0. h \in Handler /\ h.attempts \in Seq(Worker \cup {"cf", "tcp"}) /\ h.key \in DcKey
    BY DEF InTurn, Handler
  <1>1. \/ rest = AfterWorkers(h.key) /\ UseCf /\ NCf > 0 /\ Tried(h.attempts, h.key, 0)
        \/ rest = LastMethod(h.key) /\ Tried(h.attempts, h.key, ByCf)
    <2>1. CASE h.methods = AfterWorkers(h.key) /\ Tried(h.attempts, h.key, 0) /\ UseCf
      <3>1. CASE NCf = 0
        <4>1. rest = LastMethod(h.key)
          BY <2>1, <3>1, AfterWorkersIs
        <4>2. ByCf = 0
          BY <3>1 DEF ByCf
        <4>3. QED
          BY <2>1, <4>1, <4>2
      <3>2. CASE NCf > 0
        <4>1. rest = AfterWorkers(h.key)
          BY <2>1, <3>2, AfterWorkersIs
        <4>2. QED
          BY <2>1, <3>2, <4>1
      <3>3. QED
        BY <3>1, <3>2, RoutingAssumption
    <2>2. CASE h.methods = AfterWorkers(h.key) /\ Tried(h.attempts, h.key, 0) /\ ~UseCf
      BY <2>2, RoutingAssumption, LastIs, AfterWorkersIs DEF ByCf
    <2>3. CASE h.methods = LastMethod(h.key) /\ Tried(h.attempts, h.key, ByCf)
      BY <2>3, LastIs
    <2>4. QED
      BY <2>1, <2>2, <2>3 DEF Behind
  <1> HIDE DEF rest
  <1>2. CASE rest = AfterWorkers(h.key) /\ UseCf /\ NCf > 0 /\ Tried(h.attempts, h.key, 0)
    <2>a. PICK g : g = [h EXCEPT !.methods = Tail(rest)]
      OBVIOUS
    <2>b. PICK q : q = Waiting(g, "cf", 1, "cf")
      OBVIOUS
    <2>1. Wait(c, g, "cf", 1, "cf")
      BY <1>2, AfterWorkersIs, <2>a DEF TryCfOrTcp, rest
    <2>2. Tail(rest) = LastMethod(h.key) /\ Tail(rest) \in Seq({"cf_worker", "cf", "tcp"})
      BY <1>2, AfterWorkersIs, LastIs
    <2>3. g \in Handler /\ InTurn(c, g) /\ g.answers = h.answers /\ g.key = h.key
          /\ g.methods = LastMethod(h.key) /\ g.attempts = h.attempts
      BY <1>0, <2>2, <2>a DEF Handler, InTurn, Busy
    <2>4. /\ q.pc = "cf" /\ q.at = 1 /\ q.key = h.key /\ q.methods = LastMethod(h.key)
          /\ q.inits = 0 /\ q.attempts = Append(h.attempts, "cf")
      BY <2>3, <2>b DEF Handler, InTurn, Waiting
    <2>5. Tried(q.attempts, h.key, 1)
      BY <1>0, <1>2, <2>4, WorkerCount DEF Tried, ByWorkers
    <2>6. Route(q)
      BY <1>2, <2>4, <2>5, RoutingAssumption DEF Route
    <2>7. q \in Handler /\ Turn(c, q) /\ q.answers = h.answers /\ q.pc = "cf"
      BY <2>1, <2>3, <2>6, <2>b, WaitTurn
    <2>8. QED
      BY <2>7
  <1>3. CASE rest = LastMethod(h.key) /\ Tried(h.attempts, h.key, ByCf) /\ h.key \in HasIp
    <2>a. PICK g : g = [h EXCEPT !.methods = Tail(rest)]
      OBVIOUS
    <2>b. PICK q : q = Waiting(g, "tcp", 1, "tcp")
      OBVIOUS
    <2>1. Wait(c, g, "tcp", 1, "tcp")
      BY <1>3, AfterWorkersIs, <2>a DEF TryCfOrTcp, rest
    <2>c. Tail(rest) = <<>>
      BY <1>3, AfterWorkersIs
    <2>d. <<>> \in Seq({"cf_worker", "cf", "tcp"})
      OBVIOUS
    <2>2. Tail(rest) = <<>> /\ Tail(rest) \in Seq({"cf_worker", "cf", "tcp"})
      BY <2>c, <2>d, Zenon
    <2>3. g \in Handler /\ InTurn(c, g) /\ g.answers = h.answers /\ g.key = h.key
          /\ g.methods = <<>> /\ g.attempts = h.attempts
      BY <1>0, <2>2, <2>a DEF Handler, InTurn, Busy
    <2>4. /\ q.pc = "tcp" /\ q.at = 1 /\ q.key = h.key /\ q.methods = <<>>
          /\ q.inits = 0 /\ q.attempts = Append(h.attempts, "tcp")
      BY <2>3, <2>b DEF Handler, InTurn, Waiting
    <2>6. Route(q)
      BY <1>0, <1>3, <2>4, RoutingAssumption DEF Route
    <2>7. q \in Handler /\ Turn(c, q) /\ q.answers = h.answers /\ q.pc = "tcp"
      BY <2>1, <2>3, <2>6, <2>b, WaitTurn
    <2>8. QED
      BY <2>7
  <1>4. CASE rest = LastMethod(h.key) /\ Tried(h.attempts, h.key, ByCf) /\ h.key \notin HasIp
    <2>1. Close(c, h)
      BY <1>4, AfterWorkersIs DEF TryCfOrTcp, rest
    <2>2. Cardinality({i \in DOMAIN h.attempts : h.attempts[i] = "cf"}) = ByCf
      BY <1>0, <1>4, TriedCounts, ByCfType
    <2>3. cl[c].pc \in Looking \ {"sending"} => Sought(c)
      BY <1>4, <2>2 DEF Sought, Looking, ByCf
    <2>4. Busy(cl[c])
      BY DEF InTurn, Busy
    <2>5. QED
      BY <1>0, <2>1, <2>3, <2>4, CloseTurn DEF InTurn
  <1>5. QED
    BY <1>1, <1>2, <1>3, <1>4

LEMMA Joined ==
    ASSUME NEW a, NEW b, NEW d
    PROVE  /\ <<>> \o <<a>> = <<a>> /\ <<a>> \o <<>> = <<a>>
           /\ <<a>> \o <<b>> = <<a, b>> /\ <<a, b>> \o <<d>> = <<a, b, d>>
  <1>1. <<a>> \o <<b>> = <<a, b>>
    <2>1. <<a>> \in Seq({a, b}) /\ <<b>> \in Seq({a, b}) /\ <<a, b>> \in Seq({a, b})
      OBVIOUS
    <2>2. PICK s : s = <<a>> \o <<b>>
      OBVIOUS
    <2>3. s \in Seq({a, b}) /\ Len(s) = 2 /\ s[1] = a /\ s[2] = b
      BY <2>1, <2>2
    <2>4. \A i \in 1 .. Len(s) : s[i] = <<a, b>>[i]
      BY <2>3
    <2>5. QED
      BY <2>1, <2>2, <2>3, <2>4, SeqEqual
  <1>2. <<a, b>> \o <<d>> = <<a, b, d>>
    <2>1. <<a, b>> \in Seq({a, b, d}) /\ <<d>> \in Seq({a, b, d}) /\ <<a, b, d>> \in Seq({a, b, d})
      OBVIOUS
    <2>2. PICK s : s = <<a, b>> \o <<d>>
      OBVIOUS
    <2>3. s \in Seq({a, b, d}) /\ Len(s) = 3 /\ s[1] = a /\ s[2] = b /\ s[3] = d
      BY <2>1, <2>2
    <2>4. \A i \in 1 .. Len(s) : s[i] = <<a, b, d>>[i]
      BY <2>3
    <2>5. QED
      BY <2>1, <2>2, <2>3, <2>4, SeqEqual
  <1>3. QED
    BY <1>1, <1>2

\* do_fallback takes up its first method.
LEMMA MethodsAre ==
    ASSUME NEW k
    PROVE  \/ /\ Worker # {} /\ k \in HasIp /\ Methods(k) # <<>>
              /\ Head(Methods(k)) = "cf_worker" /\ Tail(Methods(k)) = AfterWorkers(k)
           \/ /\ Worker = {} \/ k \notin HasIp
              /\ Methods(k) = AfterWorkers(k)
              /\ ~(Methods(k) # <<>> /\ Head(Methods(k)) = "cf_worker")
  <1>1. CASE Worker # {} /\ k \in HasIp /\ UseCf
    <2>1. Methods(k) = <<"cf_worker">> \o <<"cf">> \o <<"tcp">>
      BY <1>1 DEF Methods
    <2>2. Methods(k) = <<"cf_worker", "cf", "tcp">>
      BY <2>1, Joined
    <2>3. AfterWorkers(k) = <<"cf", "tcp">>
      BY <1>1 DEF AfterWorkers
    <2>4. QED
      BY <1>1, <2>2, <2>3
  <1>2. CASE Worker # {} /\ k \in HasIp /\ ~UseCf
    <2>1. Methods(k) = <<"cf_worker">> \o <<>> \o <<"tcp">>
      BY <1>2 DEF Methods
    <2>2. Methods(k) = <<"cf_worker", "tcp">>
      BY <2>1, Joined
    <2>3. AfterWorkers(k) = <<"tcp">>
      BY <1>2 DEF AfterWorkers, LastMethod
    <2>4. QED
      BY <1>2, <2>2, <2>3
  <1>3. CASE ~(Worker # {} /\ k \in HasIp) /\ UseCf /\ k \in HasIp
    <2>1. Methods(k) = <<>> \o <<"cf">> \o <<"tcp">>
      BY <1>3 DEF Methods
    <2>2. Methods(k) = <<"cf", "tcp">>
      BY <2>1, Joined
    <2>3. AfterWorkers(k) = <<"cf", "tcp">>
      BY <1>3 DEF AfterWorkers
    <2>4. QED
      BY <1>3, <2>2, <2>3
  <1>4. CASE UseCf /\ k \notin HasIp
    <2>1. Methods(k) = <<>> \o <<"cf">> \o <<>>
      BY <1>4 DEF Methods
    <2>2. Methods(k) = <<"cf">>
      BY <2>1
    <2>3. AfterWorkers(k) = <<"cf">>
      BY <1>4 DEF AfterWorkers
    <2>4. QED
      BY <1>4, <2>2, <2>3
  <1>5. CASE ~(Worker # {} /\ k \in HasIp) /\ ~UseCf /\ k \in HasIp
    <2>1. Methods(k) = <<>> \o <<>> \o <<"tcp">>
      BY <1>5 DEF Methods
    <2>2. Methods(k) = <<"tcp">>
      BY <2>1, Joined
    <2>3. AfterWorkers(k) = <<"tcp">>
      BY <1>5 DEF AfterWorkers, LastMethod
    <2>4. QED
      BY <1>5, <2>2, <2>3
  <1>6. CASE ~UseCf /\ k \notin HasIp
    <2>1. Methods(k) = <<>> \o <<>> \o <<>>
      BY <1>6 DEF Methods
    <2>2. Methods(k) = <<>>
      BY <2>1
    <2>3. AfterWorkers(k) = <<>>
      BY <1>6 DEF AfterWorkers, LastMethod
    <2>4. QED
      BY <1>6, <2>2, <2>3
  <1>7. QED
    BY <1>1, <1>2, <1>3, <1>4, <1>5, <1>6

LEMMA StartFallbackTurn ==
    ASSUME NEW c \in Client, NEW h, InTurn(c, h), h.attempts = <<>>, cl[c].attempts = <<>>,
           h.key = cl[c].key \/ cl[c].pc = "handshake", workers \in SetToSeqs(Worker),
           StartFallback(c, h)
    PROVE  /\ workers' \in SetToSeqs(Worker)
           /\ \E r \in Handler : Turn(c, r) /\ r.answers = h.answers /\ r.pc # "dialling"
  <1> DEFINE m == Methods(h.key)
  <1>0. h \in Handler /\ h.key \in DcKey
    BY DEF InTurn, Handler
  <1>a. /\ AfterWorkers(h.key) \in Seq({"cf_worker", "cf", "tcp"})
        /\ h.attempts \in Seq(Worker \cup {"cf", "tcp"})
    <2>1. <<"cf", "tcp">> \in Seq({"cf_worker", "cf", "tcp"})
          /\ <<"cf">> \in Seq({"cf_worker", "cf", "tcp"})
      OBVIOUS
    <2>2. h.attempts \in Seq(Worker \cup {"cf", "tcp"})
      BY <1>0 DEF Handler
    <2>3. QED
      BY <2>1, <2>2, LastIs DEF AfterWorkers
  <1>1. CASE /\ Worker # {} /\ h.key \in HasIp /\ m # <<>>
             /\ Head(m) = "cf_worker" /\ Tail(m) = AfterWorkers(h.key)
    <2>1. PICK g : g = [h EXCEPT !.methods = Tail(m)]
      OBVIOUS
    <2>2. workers' \in SetToSeqs(Worker) /\ TryWorker(c, g, 1, workers')
      BY <1>1, <2>1 DEF StartFallback
    <2>3. InTurn(c, g) /\ g.answers = h.answers /\ g.key = h.key
          /\ g.methods = AfterWorkers(h.key) /\ g.attempts = <<>>
      BY <1>0, <1>1, <1>a, <2>1 DEF InTurn, Handler, Busy
    <2>4. 1 \in 1 .. Cardinality(Worker) /\ Len(g.attempts) = 1 - 1
          /\ \A j \in DOMAIN g.attempts : g.attempts[j] \in Worker
      BY <1>1, <2>3, WorkerCount
    <2>5. QED
      BY <1>1, <2>2, <2>3, <2>4, TryWorkerTurn
  <1>2. CASE /\ Worker = {} \/ h.key \notin HasIp
             /\ m = AfterWorkers(h.key)
             /\ ~(m # <<>> /\ Head(m) = "cf_worker")
    <2>1. PICK g : g = [h EXCEPT !.methods = m]
      OBVIOUS
    <2>2. TryCfOrTcp(c, g)
      BY <1>2, <2>1 DEF StartFallback
    <2>3. InTurn(c, g) /\ g.answers = h.answers /\ g.key = h.key
          /\ g.methods = AfterWorkers(h.key) /\ g.attempts = <<>>
      BY <1>0, <1>2, <1>a, <2>1 DEF InTurn, Handler, Busy
    <2>4. ByWorkers(h.key) = 0
      BY <1>2, FS_EmptySet DEF ByWorkers
    <2>5. Tried(g.attempts, h.key, 0)
      BY <2>3, <2>4 DEF Tried
    <2>6. Behind(g)
      BY <2>3, <2>5 DEF Behind
    <2>7. \E r \in Handler : Turn(c, r) /\ r.answers = g.answers /\ r.pc \in {"cf", "tcp", "closed"}
      BY <2>2, <2>3, <2>6, TryCfOrTcpTurn
    <2>8. workers' = workers
      BY <2>2 DEF TryCfOrTcp, Close
    <2>9. QED
      BY <2>3, <2>7, <2>8
  <1>3. QED
    BY <1>1, <1>2, MethodsAre

-----------------------------------------------------------------------------
(* Every step is a turn of one handler.                                    *)

\* A handler adds to the blacklist when, and only when, it has got no WebSocket and
\* all domains have redirected it.
Redirected(c, r) ==
    /\ cl[c].pc = "dialling" /\ r.pc # "dialling"
    /\ r.answers = [i \in 1 .. NDomains |-> "redirect"]
Justified(c, r) ==
    /\ \A k \in blacklist' \ blacklist : cl[c].key = k /\ Redirected(c, r)
    /\ Redirected(c, r) => cl[c].key \in blacklist'

Turns(c) ==
    /\ \E r \in Handler : Turn(c, r) /\ Justified(c, r)
    /\ workers' \in SetToSeqs(Worker)
    /\ blacklist' \subseteq DcKey /\ cooling' \subseteq DcKey

LEMMA GoodHandshakeTurns ==
    ASSUME RouteInv, NEW c \in Client, NEW k \in DcKey, GoodHandshake(c, k)
    PROVE  Turns(c)
  <1> USE DEF RouteInv, TypedButCounts
  <1>0. PICK h : h = [cl[c] EXCEPT !.key = k, !.failedRedirect = FALSE, !.allRedirects = TRUE]
    OBVIOUS
  <1>1. cl[c] \in Handler /\ Route(cl[c]) /\ cl[c].pc = "handshake"
    BY DEF GoodHandshake
  <1>2. h \in Handler /\ h.pc = cl[c].pc /\ h.inits = cl[c].inits /\ h.key = k
        /\ h.attempts = cl[c].attempts /\ h.answers = cl[c].answers
        /\ ~h.failedRedirect /\ h.allRedirects
    BY <1>0, <1>1 DEF Handler
  <1>3. cl[c].inits = 0 /\ cl[c].attempts = <<>> /\ cl[c].answers = <<>>
    BY <1>1 DEF Route
  <1>4. InTurn(c, h)
    BY <1>1, <1>2, <1>3 DEF InTurn, Busy
  <1>5. CASE StartFallback(c, h) /\ UNCHANGED <<blacklist, cooling>>
    <2>1. /\ workers' \in SetToSeqs(Worker)
          /\ \E r \in Handler : Turn(c, r) /\ r.answers = h.answers /\ r.pc # "dialling"
      <3>1. h.attempts = <<>> /\ cl[c].attempts = <<>> /\ workers \in SetToSeqs(Worker)
        BY <1>2, <1>3
      <3>2. QED
        BY <1>1, <1>4, <1>5, <3>1, StartFallbackTurn
    <2>2. QED
      BY <1>1, <1>5, <2>1 DEF Turns, Justified, Redirected
  <1>6. CASE WsUp(c, h)
    <2>1. \E r \in Handler : Turn(c, r)
      BY <1>4, <1>6, OpenTurn DEF WsUp
    <2>2. QED
      BY <1>1, <1>6, <2>1 DEF Turns, Justified, Redirected, WsUp
  <1>7. CASE /\ cl' = [cl EXCEPT ![c] = [h EXCEPT !.pc = "dialling", !.at = 1]]
             /\ UNCHANGED <<blacklist, cooling, workers, stat>>
    <2>1. PICK r : r = [h EXCEPT !.pc = "dialling", !.at = 1]
      OBVIOUS
    <2>2. r \in Handler /\ r.pc = "dialling" /\ r.at = 1 /\ r.inits = 0
          /\ r.attempts = <<>> /\ r.answers = <<>> /\ ~r.failedRedirect /\ r.allRedirects
      BY <1>2, <1>3, <2>1 DEF Handler
    <2>3. Route(r)
      BY <2>2, RoutingAssumption DEF Route, FlagsAgree
    <2>4. GoesOn(c, r)
      BY <1>1, <1>3, <1>7, <2>2 DEF GoesOn, Busy
    <2>5. QED
      BY <1>7, <2>1, <2>2, <2>3, <2>4 DEF Turns, Turn, Justified, Redirected
  <1>8. QED
    BY <1>0, <1>5, <1>6, <1>7 DEF GoodHandshake

LEMMA DialOkTurns ==
    ASSUME RouteInv, NEW c \in Client, DialOk(c)
    PROVE  Turns(c)
  <1>0. PICK h : h = [cl[c] EXCEPT !.allRedirects = FALSE]
    OBVIOUS
  <1>1. cl[c] \in Handler /\ Route(cl[c]) /\ cl[c].pc = "dialling"
    BY DEF DialOk, RouteInv, TypedButCounts
  <1>2. /\ h \in Handler /\ h.pc = cl[c].pc /\ h.inits = cl[c].inits
        /\ h.answers = cl[c].answers
    BY <1>0, <1>1 DEF Handler
  <1>3. InTurn(c, h)
    BY <1>1, <1>2 DEF InTurn, Busy, Route
  <1>4. WsUp(c, h)
    BY <1>0 DEF DialOk
  <1>5. PICK r \in Handler : Turn(c, r) /\ r.answers = h.answers
    BY <1>3, <1>4, OpenTurn DEF WsUp
  <1>6. r.answers # [i \in 1 .. NDomains |-> "redirect"]
    BY <1>1, <1>2, <1>5, RoutingAssumption DEF Route
  <1>7. QED
    BY <1>4, <1>5, <1>6 DEF Turns, Justified, Redirected, WsUp, RouteInv, TypedButCounts

Noted(h, answer) == [Flagged(h, answer) EXCEPT !.answers = Append(@, answer)]

\* One more answer: the flags go on agreeing with all of them.
LEMMA FlaggedAgrees ==
    ASSUME NEW h \in Handler, FlagsAgree(h), NEW answer \in Answers,
           NEW g, g = Noted(h, answer)
    PROVE  /\ g \in Handler /\ FlagsAgree(g) /\ g.answers = Append(h.answers, answer)
           /\ g.pc = h.pc /\ g.inits = h.inits /\ g.key = h.key /\ g.at = h.at
           /\ g.attempts = h.attempts
  <1>1. h.answers \in Seq(Answers) /\ Append(h.answers, answer) \in Seq(Answers)
    BY DEF Handler
  <1>2. PICK f : f = Flagged(h, answer)
    OBVIOUS
  <1>3. /\ f \in Handler /\ f.answers = h.answers
        /\ f.pc = h.pc /\ f.inits = h.inits /\ f.key = h.key /\ f.at = h.at
        /\ f.attempts = h.attempts
        /\ f.failedRedirect = (h.failedRedirect \/ answer = "redirect")
        /\ f.allRedirects = (h.allRedirects /\ answer = "redirect")
    BY <1>2 DEF Flagged, Handler, Answers
  <1>4. /\ g \in Handler /\ g.answers = Append(h.answers, answer)
        /\ g.pc = h.pc /\ g.inits = h.inits /\ g.key = h.key /\ g.at = h.at
        /\ g.attempts = h.attempts
        /\ g.failedRedirect = f.failedRedirect /\ g.allRedirects = f.allRedirects
    BY <1>1, <1>2, <1>3 DEF Handler, Noted
  <1>5. /\ DOMAIN g.answers = DOMAIN h.answers \cup {Len(h.answers) + 1}
        /\ g.answers[Len(h.answers) + 1] = answer
        /\ \A i \in DOMAIN h.answers : g.answers[i] = h.answers[i]
    BY <1>1, <1>4
  <1> DEFINE Some(k) == \E i \in DOMAIN k.answers : k.answers[i] = "redirect"
             Every(k) == \A i \in DOMAIN k.answers : k.answers[i] = "redirect"
  <1>6. Some(g) <=> Some(h) \/ answer = "redirect"
    BY <1>5
  <1>7. Every(g) <=> Every(h) /\ answer = "redirect"
    BY <1>5
  <1>8. (h.failedRedirect <=> Some(h)) /\ (h.allRedirects <=> Every(h))
    BY DEF FlagsAgree
  <1>9. /\ g.failedRedirect <=> h.failedRedirect \/ answer = "redirect"
        /\ g.allRedirects <=> h.allRedirects /\ answer = "redirect"
    BY <1>3, <1>4
  <1> HIDE DEF Some, Every
  <1>10. (g.failedRedirect <=> Some(g)) /\ (g.allRedirects <=> Every(g))
    BY <1>6, <1>7, <1>8, <1>9
  <1>11. FlagsAgree(g)
    BY <1>10 DEF FlagsAgree, Some, Every
  <1>12. QED
    BY <1>4, <1>11

LEMMA DialFailsTurns ==
    ASSUME RouteInv, NEW c \in Client, NEW answer \in Answers, DialFails(c, answer)
    PROVE  Turns(c)
  <1>0. PICK h : h = [Flagged(cl[c], answer) EXCEPT !.answers = Append(@, answer)]
    OBVIOUS
  <1>1. cl[c] \in Handler /\ Route(cl[c]) /\ cl[c].pc = "dialling"
        /\ workers \in SetToSeqs(Worker) /\ blacklist \subseteq DcKey /\ cooling \subseteq DcKey
    BY DEF DialFails, RouteInv, TypedButCounts
  <1>a. cl[c].answers \in Seq(Answers) /\ Append(cl[c].answers, answer) \in Seq(Answers)
    BY <1>1 DEF Handler
  <1>c. FlagsAgree(cl[c])
    BY <1>1 DEF Route
  <1>2. h \in Handler /\ h.pc = cl[c].pc /\ h.inits = cl[c].inits /\ h.key = cl[c].key
        /\ h.at = cl[c].at /\ h.attempts = cl[c].attempts
        /\ h.answers = Append(cl[c].answers, answer) /\ FlagsAgree(h)
    <2>1. PICK f : f = cl[c]
      OBVIOUS
    <2>2. f \in Handler /\ FlagsAgree(f)
      BY <1>1, <1>c, <2>1
    <2>3. h = Noted(f, answer)
      BY <1>0, <2>1 DEF Noted
    <2>4. /\ h \in Handler /\ FlagsAgree(h) /\ h.answers = Append(f.answers, answer)
          /\ h.pc = f.pc /\ h.inits = f.inits /\ h.key = f.key /\ h.at = f.at
          /\ h.attempts = f.attempts
      BY <2>2, <2>3, FlaggedAgrees
    <2>5. QED
      BY <2>1, <2>4
  <1>3. cl[c].inits = 0 /\ cl[c].attempts = <<>> /\ cl[c].at \in 1 .. NDomains
        /\ Len(cl[c].answers) = cl[c].at - 1
    BY <1>1 DEF Route
  <1>4. InTurn(c, h)
    BY <1>1, <1>2, <1>3 DEF InTurn, Busy
  <1>b. h.at \in 1 .. NDomains /\ Len(h.answers) = h.at /\ h.answers \in Seq(Answers)
    BY <1>2, <1>3, <1>a
  <1>5. CASE /\ h.at < NDomains
             /\ cl' = [cl EXCEPT ![c] = [h EXCEPT !.at = @ + 1]]
             /\ UNCHANGED <<blacklist, cooling, workers, stat>>
    <2>1. PICK r : r = [h EXCEPT !.at = @ + 1]
      OBVIOUS
    <2>a. h.at + 1 \in Nat /\ h.at + 1 \in 1 .. NDomains
      BY <1>b, <1>5, RoutingAssumption
    <2>2. r \in Handler /\ r.pc = "dialling" /\ r.at = h.at + 1 /\ r.inits = 0
          /\ r.attempts = <<>> /\ r.answers = h.answers
          /\ r.failedRedirect = h.failedRedirect /\ r.allRedirects = h.allRedirects
      BY <1>1, <1>2, <1>3, <2>1, <2>a DEF Handler
    <2>b. FlagsAgree(r)
      BY <1>2, <2>2 DEF FlagsAgree
    <2>3. Route(r)
      BY <1>b, <2>2, <2>a, <2>b DEF Route
    <2>4. GoesOn(c, r)
      BY <1>1, <1>3, <1>5, <2>2 DEF GoesOn, Busy
    <2>5. QED
      BY <1>1, <1>5, <2>1, <2>2, <2>3, <2>4 DEF Turns, Turn, Justified, Redirected
  <1>6. CASE h.at = NDomains /\ GiveUp(c, h)
    <2>1. StartFallback(c, h)
      BY <1>6 DEF GiveUp
    <2>b. h.attempts = <<>> /\ cl[c].attempts = <<>> /\ h.key = cl[c].key
      BY <1>2, <1>3
    <2>2. /\ workers' \in SetToSeqs(Worker)
          /\ \E r \in Handler : Turn(c, r) /\ r.answers = h.answers /\ r.pc # "dialling"
      BY <1>1, <1>4, <2>1, <2>b, StartFallbackTurn
    <2>3. PICK r \in Handler : Turn(c, r) /\ r.answers = h.answers /\ r.pc # "dialling"
      BY <2>2
    <2>a. h.key \in DcKey
      BY <1>2 DEF Handler
    <2>4. h.failedRedirect /\ h.allRedirects
              <=> h.answers = [i \in 1 .. NDomains |-> "redirect"]
      <3>1. DOMAIN h.answers = 1 .. NDomains /\ h.answers \in [1 .. NDomains -> Answers]
        BY <1>b, <1>6
      <3>2. 1 \in 1 .. NDomains
        BY RoutingAssumption
      <3>3. h.failedRedirect /\ h.allRedirects <=> \A i \in 1 .. NDomains : h.answers[i] = "redirect"
        BY <1>2, <3>1, <3>2 DEF FlagsAgree
      <3>4. QED
        BY <3>1, <3>3
    <2>5. CASE h.failedRedirect /\ h.allRedirects
      <3>1. blacklist' = blacklist \cup {h.key} /\ UNCHANGED cooling
        BY <1>6, <2>5 DEF GiveUp
      <3>2. Justified(c, r)
        BY <1>1, <1>2, <2>3, <2>4, <2>5, <3>1 DEF Justified, Redirected
      <3>3. QED
        BY <1>1, <2>a, <2>2, <2>3, <3>1, <3>2 DEF Turns
    <2>6. CASE ~(h.failedRedirect /\ h.allRedirects)
      <3>1. cooling' = cooling \cup {h.key} /\ UNCHANGED blacklist
        BY <1>6, <2>6 DEF GiveUp
      <3>2. Justified(c, r)
        BY <2>3, <2>4, <2>6, <3>1 DEF Justified, Redirected
      <3>3. QED
        BY <1>1, <2>a, <2>2, <2>3, <3>1, <3>2 DEF Turns
    <2>7. QED
      BY <2>5, <2>6
  <1>7. QED
    BY <1>0, <1>5, <1>6 DEF DialFails

LEMMA WorkerFailsTurns ==
    ASSUME RouteInv, NEW c \in Client, WorkerFails(c)
    PROVE  Turns(c)
  <1> USE DEF RouteInv, TypedButCounts
  <1>0. PICK h : h = cl[c]
    OBVIOUS
  <1>1. h \in Handler /\ Route(h) /\ h.pc = "cf_worker"
    BY <1>0 DEF WorkerFails
  <1>2. InTurn(c, h)
    BY <1>0, <1>1 DEF InTurn, Busy, Route
  <1>3. /\ h.key \in HasIp /\ h.methods = AfterWorkers(h.key)
        /\ h.at \in 1 .. Cardinality(Worker) /\ Len(h.attempts) = h.at
        /\ \A j \in DOMAIN h.attempts : h.attempts[j] \in Worker
    BY <1>1 DEF Route
  <1>a. Len(workers) = Cardinality(Worker) /\ Cardinality(Worker) \in Nat
    BY WorkersLength, WorkerCount
  <1>4. CASE h.at < Len(workers) /\ TryWorker(c, h, h.at + 1, workers) /\ UNCHANGED workers
    <2>1. h.at + 1 \in 1 .. Cardinality(Worker) /\ Len(h.attempts) = (h.at + 1) - 1
      BY <1>3, <1>4, <1>a
    <2>2. \E r \in Handler : Turn(c, r)
      BY <1>2, <1>3, <1>4, <2>1, TryWorkerTurn
    <2>3. QED
      BY <1>4, <2>2 DEF Turns, Justified, Redirected, WorkerFails
  <1>5. CASE h.at = Len(workers) /\ TryCfOrTcp(c, h)
    <2>1. Tried(h.attempts, h.key, 0)
      <3>1. h.attempts \in Seq(Worker \cup {"cf", "tcp"})
        BY <1>1 DEF Handler
      <3>2. QED
        BY <1>3, <1>5, <1>a, <3>1 DEF Tried, ByWorkers
    <2>2. Behind(h)
      BY <1>3, <2>1 DEF Behind
    <2>3. \E r \in Handler : Turn(c, r)
      BY <1>0, <1>2, <1>5, <2>2, TryCfOrTcpTurn
    <2>4. workers' = workers
      BY <1>5 DEF TryCfOrTcp, Close
    <2>5. QED
      BY <2>3, <2>4 DEF Turns, Justified, Redirected, WorkerFails
  <1>6. QED
    BY <1>0, <1>4, <1>5 DEF WorkerFails

LEMMA CfFailsTurns ==
    ASSUME RouteInv, NEW c \in Client, CfFails(c)
    PROVE  Turns(c)
  <1> USE DEF RouteInv, TypedButCounts
  <1>0. PICK h : h = cl[c]
    OBVIOUS
  <1>1. h \in Handler /\ Route(h) /\ h.pc = "cf"
    BY <1>0 DEF CfFails
  <1>2. InTurn(c, h)
    BY <1>0, <1>1 DEF InTurn, Busy, Route
  <1>3. /\ UseCf /\ h.methods = LastMethod(h.key)
        /\ h.at \in 1 .. NCf /\ Tried(h.attempts, h.key, h.at)
    BY <1>1 DEF Route
  <1>4. CASE h.at < NCf /\ Wait(c, h, "cf", h.at + 1, "cf") /\ UNCHANGED workers
    <2>1. PICK r : r = Waiting(h, "cf", h.at + 1, "cf")
      OBVIOUS
    <2>2. h.at + 1 \in Nat /\ h.at + 1 \in 1 .. NCf
      BY <1>3, <1>4, RoutingAssumption
    <2>3. /\ r.pc = "cf" /\ r.at = h.at + 1 /\ r.key = h.key /\ r.methods = h.methods
          /\ r.inits = 0 /\ r.attempts = Append(h.attempts, "cf")
      BY <1>1, <1>2, <2>1 DEF Waiting, Handler, InTurn
    <2>4. h.attempts \in Seq(Worker \cup {"cf", "tcp"})
      BY <1>1 DEF Handler
    <2>5. Tried(r.attempts, h.key, h.at + 1)
      <3>1. ByWorkers(h.key) \in Nat /\ h.at \in Nat \ {0}
        BY <1>3, WorkerCount, RoutingAssumption DEF ByWorkers
      <3>2. Len(h.attempts) = ByWorkers(h.key) + h.at
        BY <1>3 DEF Tried
      <3>3. /\ Len(r.attempts) = Len(h.attempts) + 1 /\ r.attempts[Len(h.attempts) + 1] = "cf"
            /\ \A j \in 1 .. Len(h.attempts) : r.attempts[j] = h.attempts[j]
            /\ DOMAIN r.attempts = 1 .. Len(h.attempts) + 1
            /\ DOMAIN h.attempts = 1 .. Len(h.attempts)
        BY <2>3, <2>4
      <3>4. Len(r.attempts) = ByWorkers(h.key) + (h.at + 1)
        BY <3>1, <3>2, <3>3
      <3>5. ASSUME NEW j \in DOMAIN r.attempts
            PROVE  IF j <= ByWorkers(h.key) THEN r.attempts[j] \in Worker ELSE r.attempts[j] = "cf"
        <4>1. CASE j \in 1 .. Len(h.attempts)
          BY <1>3, <3>3, <4>1 DEF Tried
        <4>2. CASE j = Len(h.attempts) + 1
          BY <3>1, <3>2, <3>3, <4>2
        <4>3. QED
          BY <3>1, <3>2, <3>3, <4>1, <4>2
      <3>6. QED
        BY <3>4, <3>5 DEF Tried
    <2>6. Route(r)
      BY <1>3, <2>2, <2>3, <2>5 DEF Route
    <2>7. r \in Handler /\ Turn(c, r)
      BY <1>2, <1>4, <2>1, <2>2, <2>6, WaitTurn
    <2>8. QED
      BY <1>4, <2>7 DEF Turns, Justified, Redirected, CfFails
  <1>5. CASE h.at = NCf /\ TryCfOrTcp(c, h)
    <2>2. Behind(h)
      BY <1>3, <1>5 DEF Behind, ByCf
    <2>3. \E r \in Handler : Turn(c, r)
      BY <1>0, <1>2, <1>5, <2>2, TryCfOrTcpTurn
    <2>4. workers' = workers
      BY <1>5 DEF TryCfOrTcp, Close
    <2>5. QED
      BY <2>3, <2>4 DEF Turns, Justified, Redirected, CfFails
  <1>6. QED
    BY <1>0, <1>4, <1>5 DEF CfFails

LEMMA TcpFailsTurns ==
    ASSUME RouteInv, NEW c \in Client, TcpFails(c)
    PROVE  Turns(c)
  <1> USE DEF RouteInv, TypedButCounts
  <1>0. PICK h : h = cl[c]
    OBVIOUS
  <1>1. h \in Handler /\ Route(h) /\ h.pc = "tcp"
    BY <1>0 DEF TcpFails
  <1>2. PICK made \in Seq(Worker \cup {"cf", "tcp"}) :
           Tried(made, h.key, ByCf) /\ h.attempts = Append(made, "tcp")
    BY <1>1 DEF Route
  <1>3. h.key \in HasIp /\ h.key \in DcKey /\ h.inits = 0
    BY <1>1 DEF Route, Handler
  <1>4. /\ Cardinality({i \in DOMAIN h.attempts : h.attempts[i] = "cf"}) = ByCf
        /\ Cardinality({i \in DOMAIN h.attempts : h.attempts[i] = "tcp"}) = 1
    <2>1. ByCf \in Nat /\ Tried(made, h.key, ByCf)
      BY <1>2, ByCfType
    <2>2. /\ Cardinality({i \in DOMAIN Append(made, "tcp") : Append(made, "tcp")[i] = "cf"}) = ByCf
          /\ Cardinality({i \in DOMAIN Append(made, "tcp") : Append(made, "tcp")[i] = "tcp"}) = 1
      BY <1>3, <2>1, TriedCounts
    <2>3. QED
      BY <1>2, <2>2
  <1>5. /\ Len(h.attempts) = Cardinality(Worker) + ByCf + 1
        /\ h.attempts[Len(h.attempts)] = "tcp"
    <2>1. Len(h.attempts) = Len(made) + 1 /\ h.attempts[Len(made) + 1] = "tcp"
      BY <1>2, AppendProperties
    <2>2. Len(made) = Cardinality(Worker) + ByCf
      BY <1>2, <1>3, ByCfType, WorkerCount DEF Tried, ByWorkers
    <2>3. QED
      BY <2>1, <2>2
  <1>6. Sought(c)
    BY <1>0, <1>4, <1>5 DEF Sought, Last, ByCf
  <1>7. \E r \in Handler : Turn(c, r)
    BY <1>0, <1>1, <1>3, <1>6, CloseTurn DEF TcpFails, Busy
  <1>8. QED
    BY <1>7 DEF Turns, Justified, Redirected, TcpFails, Close

\* The steps that end a handler or open its upstream, and the others.
LEMMA PlainTurns ==
    ASSUME RouteInv, NEW c \in Client,
           \/ HandshakeGone(c) \/ Drained(c) \/ BridgeEnds(c) \/ SendFails(c)
           \/ WorkerOk(c) \/ CfOk(c) \/ TcpOk(c)
           \/ Accept(c) \/ BadHandshake(c) \/ SendOk(c)
    PROVE  Turns(c)
  <1> USE DEF RouteInv, TypedButCounts
  <1>0. cl[c] \in Handler /\ Route(cl[c])
    OBVIOUS
  <1>1. CASE HandshakeGone(c) \/ Drained(c) \/ BridgeEnds(c)
    <2>1. Close(c, cl[c]) /\ UNCHANGED <<blacklist, cooling>> /\ Busy(cl[c])
          /\ cl[c].pc \notin Looking
      BY <1>1 DEF HandshakeGone, Drained, BridgeEnds, Busy, Looking
    <2>2. cl[c].inits \in {0, 1}
      BY <1>0, <2>1 DEF Route, Busy, Handler
    <2>3. \E r \in Handler : Turn(c, r)
      BY <1>0, <2>1, <2>2, CloseTurn
    <2>4. QED
      BY <2>1, <2>3 DEF Turns, Justified, Redirected, Close, Looking
  <1>2. CASE SendFails(c)
    <2>1. PICK h : h = [cl[c] EXCEPT !.cut = TRUE]
      OBVIOUS
    <2>2. Close(c, h) /\ UNCHANGED <<blacklist, cooling>> /\ cl[c].pc = "sending"
      BY <1>2, <2>1 DEF SendFails
    <2>3. h \in Handler /\ h.inits = cl[c].inits /\ h.inits \in {0, 1}
      BY <1>0, <2>1, <2>2 DEF Handler, Route
    <2>4. \E r \in Handler : Turn(c, r)
      BY <2>2, <2>3, CloseTurn DEF Busy
    <2>5. QED
      BY <2>2, <2>4 DEF Turns, Justified, Redirected, Close
  <1>3. CASE WorkerOk(c) \/ CfOk(c) \/ TcpOk(c)
    <2>1. InTurn(c, cl[c])
      BY <1>0, <1>3 DEF InTurn, Busy, Route, WorkerOk, CfOk, TcpOk
    <2>2. \E r \in Handler : Turn(c, r)
      BY <1>3, <2>1, OpenTurn DEF WorkerOk, CfOk, TcpOk
    <2>3. QED
      BY <1>3, <2>2 DEF Turns, Justified, Redirected, WorkerOk, CfOk, TcpOk
  <1>4. CASE Accept(c)
    <2>1. PICK r : r = [cl[c] EXCEPT !.pc = "handshake"]
      OBVIOUS
    <2>2. r \in Handler /\ Route(r) /\ r.pc = "handshake" /\ r.inits = cl[c].inits
      BY <1>0, <1>4, <2>1 DEF Accept, Handler, Route
    <2>3. QED
      BY <1>4, <2>1, <2>2 DEF Turns, Turn, Justified, Redirected, Accept, Accepts
  <1>5. CASE BadHandshake(c)
    <2>1. PICK r : r = [cl[c] EXCEPT !.pc = "draining"]
      OBVIOUS
    <2>2. r \in Handler /\ Route(r) /\ r.pc = "draining" /\ r.inits = cl[c].inits
      BY <1>0, <1>5, <2>1 DEF BadHandshake, Handler, Route
    <2>3. QED
      BY <1>5, <2>1, <2>2 DEF Turns, Turn, Justified, Redirected, BadHandshake, GoesOn, Busy
  <1>6. CASE SendOk(c)
    <2>1. PICK r : r = [cl[c] EXCEPT !.pc = "bridging"]
      OBVIOUS
    <2>2. r \in Handler /\ Route(r) /\ r.pc = "bridging" /\ r.inits = cl[c].inits
      BY <1>0, <1>6, <2>1 DEF SendOk, Handler, Route
    <2>3. QED
      BY <1>6, <2>1, <2>2 DEF Turns, Turn, Justified, Redirected, SendOk, GoesOn, Busy
  <1>7. QED
    BY <1>1, <1>2, <1>3, <1>4, <1>5, <1>6

LEMMA NextTurns == RouteInv /\ Next => \E c \in Client : Turns(c)
  <1> SUFFICES ASSUME RouteInv, Next PROVE \E c \in Client : Turns(c)
    OBVIOUS
  <1>1. PICK c \in Client :
           \/ Accept(c) \/ HandshakeGone(c) \/ BadHandshake(c) \/ Drained(c)
           \/ \E k \in DcKey : GoodHandshake(c, k)
           \/ Answered(c) \/ BridgeEnds(c)
    BY DEF Next
  <1>2. QED
    BY <1>1, PlainTurns, GoodHandshakeTurns, DialOkTurns, DialFailsTurns, WorkerFailsTurns,
       CfFailsTurns, TcpFailsTurns
       DEF Answered

-----------------------------------------------------------------------------
(* The counters.                                                           *)

LEMMA ClientSets ==
    /\ IsFiniteSet(Accepted) /\ IsFiniteSet(Handled) /\ IsFiniteSet(Served)
    /\ IsFiniteSet(Dropped)
    /\ Cardinality(Client) \in Nat
    /\ \A S \in SUBSET Client : Cardinality(S) \in Nat /\ Cardinality(S) <= Cardinality(Client)
  <1>1. /\ Accepted \subseteq Client /\ Handled \subseteq Client
        /\ Served \subseteq Client /\ Dropped \subseteq Client
    BY DEF Accepted, Handled, Served, Dropped
  <1>2. QED
    BY <1>1, RoutingAssumption, FS_Subset, FS_CardinalityType

LEMMA OneMoreDropped ==
    ASSUME NEW c \in Client
    PROVE  /\ Cardinality(Dropped) \in Nat /\ Cardinality(Dropped \cup {c}) \in Nat
           /\ Cardinality(Dropped) <= Cardinality(Dropped \cup {c})
  <1>1. IsFiniteSet(Dropped) /\ Cardinality(Dropped) \in Nat
    BY ClientSets, FS_CardinalityType
  <1>2. Cardinality(Dropped \cup {c}) =
            IF c \in Dropped THEN Cardinality(Dropped) ELSE Cardinality(Dropped) + 1
    BY <1>1, FS_AddElement
  <1>3. QED
    BY <1>1, <1>2

LEMMA CountersStep ==
    ASSUME RouteInv, NEW c \in Client, NEW r \in Handler, Turn(c, r)
    PROVE  /\ stat' \in [{"total", "active", "bad", "ws", "cfproxy", "tcp"} -> Nat]
           /\ CountersAgree'
           /\ stat["bad"]' <= Cardinality(Dropped')
  <1> USE DEF RouteInv, TypedButCounts, CountersAgree
  <1>1. \A d \in Client : cl'[d] = IF d = c THEN r ELSE cl[d]
    BY DEF Turn
  <1>2. CASE Accepts(c, r)
    <2>1. Accepted' = Accepted \cup {c} /\ c \notin Accepted
      BY <1>1, <1>2 DEF Accepts, Accepted
    <2>2. Handled' = Handled \cup {c} /\ c \notin Handled
      BY <1>1, <1>2 DEF Accepts, Handled
    <2>3. Served' = Served
      BY <1>1, <1>2 DEF Accepts, Served
    <2>4. Dropped' = Dropped
      BY <1>1, <1>2 DEF Accepts, Dropped
    <2>5. /\ Cardinality(Accepted') = Cardinality(Accepted) + 1
          /\ Cardinality(Handled') = Cardinality(Handled) + 1
      BY <2>1, <2>2, ClientSets, FS_AddElement
    <2>6. stat' = [stat EXCEPT !["total"] = @ + 1, !["active"] = @ + 1]
      BY <1>2 DEF Accepts
    <2>7. QED
      BY <2>3, <2>4, <2>5, <2>6
  <1>3. CASE Ends(c, r)
    <2>1. Accepted' = Accepted
      BY <1>1, <1>3 DEF Ends, Accepted, Busy
    <2>2. Handled' = Handled \ {c} /\ c \in Handled
      BY <1>1, <1>3 DEF Ends, Handled, Busy
    <2>3. Served' = Served
      BY <1>1, <1>3 DEF Ends, Served
    <2>4. Dropped' = Dropped \cup {c}
      BY <1>1, <1>3 DEF Ends, Dropped
    <2>5. Cardinality(Handled') = Cardinality(Handled) - 1 /\ Cardinality(Handled') \in Nat
      BY <2>2, ClientSets, FS_RemoveElement, FS_CardinalityType
    <2>6. Cardinality(Dropped) <= Cardinality(Dropped') /\ Cardinality(Dropped') \in Nat
          /\ Cardinality(Dropped) \in Nat
      BY <2>4, OneMoreDropped
    <2>7. stat' = [stat EXCEPT !["active"] = @ - 1]
      BY <1>3 DEF Ends
    <2>8. QED
      BY <2>1, <2>3, <2>5, <2>6, <2>7
  <1>4. CASE Opens(c, r)
    <2>1. Accepted' = Accepted
      BY <1>1, <1>4 DEF Opens, Accepted, Busy
    <2>2. Handled' = Handled
      BY <1>1, <1>4 DEF Opens, Handled, Busy
    <2>3. Served' = Served \cup {c} /\ c \notin Served
      BY <1>1, <1>4 DEF Opens, Served
    <2>4. Dropped' = Dropped
      BY <1>1, <1>4 DEF Opens, Dropped, Busy
    <2>5. Cardinality(Served') = Cardinality(Served) + 1
      BY <2>3, ClientSets, FS_AddElement
    <2>6. PICK s \in {"ws", "cfproxy", "tcp"} : stat' = [stat EXCEPT ![s] = @ + 1]
      BY <1>4 DEF Opens, Count
    <2>7. QED
      BY <2>1, <2>2, <2>4, <2>5, <2>6
  <1>5. CASE GoesOn(c, r)
    <2>1. Accepted' = Accepted
      BY <1>1, <1>5 DEF GoesOn, Accepted, Busy
    <2>2. Handled' = Handled
      BY <1>1, <1>5 DEF GoesOn, Handled, Busy
    <2>3. Served' = Served
      BY <1>1, <1>5 DEF GoesOn, Served
    <2>4. CASE stat' = stat
      <3>1. Dropped' = Dropped \/ Dropped' = Dropped \cup {c}
        BY <1>1, <1>5 DEF GoesOn, Dropped, Busy
      <3>2. Cardinality(Dropped) <= Cardinality(Dropped') /\ Cardinality(Dropped') \in Nat
            /\ Cardinality(Dropped) \in Nat
        <4>1. CASE Dropped' = Dropped
          <5>1. Cardinality(Dropped) \in Nat
            BY ClientSets, FS_CardinalityType
          <5>2. QED
            BY <4>1, <5>1
        <4>2. CASE Dropped' = Dropped \cup {c}
          BY <4>2, OneMoreDropped
        <4>3. QED
          BY <3>1, <4>1, <4>2
      <3>3. QED
        BY <2>1, <2>2, <2>3, <2>4, <3>2
    <2>5. CASE r.pc = "draining" /\ stat' = Count("bad")
      <3>1. Dropped' = Dropped \cup {c} /\ c \notin Dropped
        BY <1>1, <1>5, <2>5 DEF GoesOn, Dropped, Busy
      <3>2. Cardinality(Dropped') = Cardinality(Dropped) + 1 /\ Cardinality(Dropped) \in Nat
        BY <3>1, ClientSets, FS_AddElement, FS_CardinalityType
      <3>3. stat' = [stat EXCEPT !["bad"] = @ + 1]
        BY <2>5 DEF Count
      <3>4. QED
        BY <2>1, <2>2, <2>3, <3>2, <3>3
    <2>6. QED
      BY <1>5, <2>4, <2>5 DEF GoesOn
  <1>6. QED
    BY <1>2, <1>3, <1>4, <1>5 DEF Turn

-----------------------------------------------------------------------------
(* The theorems.                                                           *)

LEMMA RouteInit == Init => RouteInv
  <1> SUFFICES ASSUME Init PROVE RouteInv
    OBVIOUS
  <1>1. (CHOOSE k \in DcKey : TRUE) \in DcKey
    BY RoutingAssumption
  <1>2. \A c \in Client : cl[c] \in Handler /\ cl[c].pc = "idle" /\ cl[c].answers = <<>>
                          /\ cl[c].attempts = <<>> /\ cl[c].inits = 0
    BY <1>1 DEF Init, Handler
  <1>3. TypedButCounts
    BY <1>2 DEF Init, TypedButCounts
  <1>4. \A c \in Client : Route(cl[c])
    BY <1>2 DEF Route
  <1>5. Accepted = {} /\ Handled = {} /\ Served = {} /\ Dropped = {}
    BY <1>2 DEF Accepted, Handled, Served, Dropped
  <1>6. CountersAgree /\ stat["bad"] <= Cardinality(Dropped)
    BY <1>5, FS_EmptySet DEF Init, CountersAgree
  <1>7. QED
    BY <1>3, <1>4, <1>6 DEF RouteInv

LEMMA RouteStep == RouteInv /\ [Next]_vars => RouteInv'
  <1> SUFFICES ASSUME RouteInv, [Next]_vars PROVE RouteInv'
    OBVIOUS
  <1>1. CASE UNCHANGED vars
    BY <1>1 DEF vars, RouteInv, TypedButCounts, CountersAgree, Accepted, Handled, Served, Dropped
  <1>2. CASE Next
    <2>1. PICK c \in Client, r \in Handler :
             /\ Turn(c, r) /\ workers' \in SetToSeqs(Worker)
             /\ blacklist' \subseteq DcKey /\ cooling' \subseteq DcKey
      BY <1>2, NextTurns DEF Turns
    <2>2. cl' = [cl EXCEPT ![c] = r] /\ Route(r)
      BY <2>1 DEF Turn
    <2>3. cl' \in [Client -> Handler] /\ \A d \in Client : Route(cl'[d])
      BY <2>2 DEF RouteInv, TypedButCounts
    <2>4. QED
      BY <2>1, <2>3, CountersStep DEF RouteInv, TypedButCounts
  <1>3. QED
    BY <1>1, <1>2

LEMMA RouteInvariant == Spec => []RouteInv
  BY RouteInit, RouteStep, PTL DEF Spec

\* Every reachable state is well-typed: no counter exceeds the number of
\* connections, and the list of workers is at all times a shuffle of them.
THEOREM RoutingTyped == Spec => []TypeOK
  <1>1. RouteInv => TypeOK
    <2> SUFFICES ASSUME RouteInv PROVE TypeOK
      OBVIOUS
    <2>1. /\ Accepted \subseteq Client /\ Handled \subseteq Client
          /\ Served \subseteq Client /\ Dropped \subseteq Client
      BY DEF Accepted, Handled, Served, Dropped
    <2>2. \A s \in {"total", "active", "bad", "ws", "cfproxy", "tcp"} :
             stat[s] \in 0 .. Cardinality(Client)
      BY <2>1, ClientSets DEF RouteInv, TypedButCounts, CountersAgree
    <2>3. QED
      BY <2>2 DEF TypeOK, RouteInv, TypedButCounts
  <1>2. QED
    BY <1>1, RouteInvariant, PTL

\* The relay init of a session is written to one upstream at most: what a client
\* and its server decipher is never the key stream of another connection
\* (_handle_client, do_fallback: no method is tried after a send that failed).
THEOREM OneUpstream == Spec => []InitOnce
  <1>1. RouteInv => InitOnce
    BY DEF RouteInv, TypedButCounts, Handler, Route, InitOnce
  <1>2. QED
    BY <1>1, RouteInvariant, PTL

\* The counters of stats.py account for every connection.
THEOREM EveryoneCounted == Spec => []CountersAgree
  <1>1. RouteInv => CountersAgree
    BY DEF RouteInv
  <1>2. QED
    BY <1>1, RouteInvariant, PTL

\* ws_blacklist grows by the key of a handler that was told to go elsewhere by every
\* domain of that key, and by no other: the two flags of _handle_client, set and
\* cleared as the answers come, say at the end of its loop what the answers say.
THEOREM BlacklistedForCause == Spec => BlacklistJustified
  <1>1. RouteInv /\ [Next]_vars =>
          [/\ \A k \in blacklist' \ blacklist :
                 \E c \in Client : cl[c].key = k /\ RedirectedEverywhere(c)
           /\ \A c \in Client : RedirectedEverywhere(c) => cl[c].key \in blacklist']_vars
    <2> SUFFICES ASSUME RouteInv, Next
                 PROVE  /\ \A k \in blacklist' \ blacklist :
                              \E c \in Client : cl[c].key = k /\ RedirectedEverywhere(c)
                        /\ \A c \in Client :
                              RedirectedEverywhere(c) => cl[c].key \in blacklist'
      OBVIOUS
    <2>1. PICK c \in Client, r \in Handler : Turn(c, r) /\ Justified(c, r)
      BY NextTurns DEF Turns
    <2>2. \A d \in Client : cl'[d] = IF d = c THEN r ELSE cl[d]
      BY <2>1 DEF Turn, RouteInv, TypedButCounts
    <2>3. \A d \in Client : RedirectedEverywhere(d) <=> d = c /\ Redirected(c, r)
      BY <2>2 DEF RedirectedEverywhere, Redirected
    <2>4. QED
      BY <2>1, <2>3 DEF Justified
  <1>2. QED
    BY <1>1, RouteInvariant, PTL DEF Spec, BlacklistJustified

\* do_fallback gives a client up only when it has tried all of its methods.
THEOREM NobodyTurnedAwayEarly == Spec => TurnedAwayLast
  <1>1. RouteInv /\ [Next]_vars =>
          [\A c \in Client : cl[c].pc \in Looking \ {"sending"} /\ cl'[c].pc = "closed" =>
             Sought(c)]_vars
    <2> SUFFICES ASSUME RouteInv, Next, NEW d \in Client,
                        cl[d].pc \in Looking \ {"sending"}, cl'[d].pc = "closed"
                 PROVE  Sought(d)
      OBVIOUS
    <2>1. PICK c \in Client, r \in Handler : Turn(c, r)
      BY NextTurns DEF Turns
    <2>2. \A e \in Client : cl'[e] = IF e = c THEN r ELSE cl[e]
      BY <2>1 DEF Turn, RouteInv, TypedButCounts
    <2>3. d = c /\ r.pc = "closed"
      BY <2>2 DEF Looking
    <2>4. Ends(c, r)
      BY <2>1, <2>3 DEF Turn, Accepts, Opens, GoesOn, Busy
    <2>5. QED
      BY <2>3, <2>4 DEF Ends
  <1>2. QED
    BY <1>1, RouteInvariant, PTL DEF Spec, TurnedAwayLast

=============================================================================
