---------------------------- MODULE ClientRouting ----------------------------
(***************************************************************************)
(* How a client connection finds its way to Telegram: _handle_client of    *)
(* proxy/tg_ws_proxy.py and do_fallback with its three methods of          *)
(* proxy/bridge.py, for several clients at once on one asyncio loop.       *)
(*                                                                         *)
(* An action is what a handler does between two suspensions: it is resumed *)
(* with the outcome of what it awaited and runs to its next await, so the  *)
(* choice of the next attempt is part of the action that ends the previous *)
(* one.  The clients share the blacklist, the cooldowns, the counters and  *)
(* the list of Cloudflare Worker domains, which every fallback shuffles in *)
(* place while others iterate over it.                                     *)
(*                                                                         *)
(* How long an attempt takes is left open.  A cooldown only shortens the   *)
(* timeouts of later attempts, so of dc_fail_until the model keeps which   *)
(* keys have an entry, which may have run out.  What the pools do is in    *)
(* WsPool: here a get() hits or misses.                                    *)
(***************************************************************************)
EXTENDS Integers, Sequences, FiniteSets, SequencesExt

CONSTANTS Client,      \* client connections
          DcKey,       \* dc_key: a data centre, with or without "m"
          InConfig,    \* the keys whose dc is in proxy_config.dc_redirects
          HasIp,       \* the keys whose dc is in DC_DEFAULT_IPS
          NDomains,    \* length of ws_domains(): the domains of a key
          Worker,      \* proxy_config.cfproxy_worker_domains
          UseCf,       \* proxy_config.fallback_cfproxy
          NCf          \* how many domains the balancer yields

ASSUME RoutingAssumption ==
    /\ DcKey # {} /\ InConfig \subseteq DcKey /\ HasIp \subseteq DcKey
    /\ NDomains \in Nat \ {0} /\ NCf \in Nat
    /\ UseCf \in BOOLEAN /\ IsFiniteSet(Client)
    /\ IsFiniteSet(Worker) /\ Worker \cap {"cf", "tcp"} = {}

VARIABLES
    cl,         \* the handler of each client, see Handler below
    blacklist,  \* ws_blacklist
    cooling,    \* the keys of dc_fail_until
    workers,    \* the shared, shuffled list of worker domains
    stat        \* the counters of stats.py that count connections

vars == <<cl, blacklist, cooling, workers, stat>>

\* WsHandshakeError with a redirect, with another status, or another exception.
Answers == {"redirect", "refused", "error"}
Handler ==
    [pc : {"idle", "handshake", "draining", "dialling", "cf_worker", "cf", "tcp",
           "sending", "bridging", "closed"},
     key : DcKey,                  \* what the client asked for
     at : Nat,                     \* index of the domain being tried
     failedRedirect : BOOLEAN,     \* ws_failed_redirect
     allRedirects : BOOLEAN,       \* all_redirects
     methods : Seq({"cf_worker", "cf", "tcp"}),  \* fallbacks after this one
     answers : Seq(Answers),       \* history: what the WS domains answered
     attempts : Seq(Worker \cup {"cf", "tcp"}),  \* fallback attempts made
     inits : Nat,                  \* upstreams the relay init was written to
     cut : BOOLEAN]                \* that write failed

TypeOK ==
    /\ cl \in [Client -> Handler]
    /\ blacklist \subseteq DcKey
    /\ cooling \subseteq DcKey
    /\ workers \in SetToSeqs(Worker)
    /\ stat \in [{"total", "active", "bad", "ws", "cfproxy", "tcp"} -> 0 .. Cardinality(Client)]

Init ==
    /\ cl = [c \in Client |->
               [pc |-> "idle", key |-> CHOOSE k \in DcKey : TRUE, at |-> 0,
                failedRedirect |-> FALSE, allRedirects |-> TRUE,
                methods |-> <<>>, answers |-> <<>>,
                attempts |-> <<>>, inits |-> 0, cut |-> FALSE]]
    /\ blacklist = {}
    /\ cooling = {}
    /\ workers \in SetToSeqs(Worker)
    /\ stat = [s \in {"total", "active", "bad", "ws", "cfproxy", "tcp"} |-> 0]

Count(s) == [stat EXCEPT ![s] = @ + 1]

-----------------------------------------------------------------------------
(* Pieces of a handler's step.  `h` is the handler's record so far.        *)

\* Mutant: the handler ends without its finally clause.
CloseUncounted(c, h) ==
    /\ cl' = [cl EXCEPT ![c] = [h EXCEPT !.pc = "closed"]]
    /\ UNCHANGED <<workers, stat>>

\* The end of _handle_client: the finally clause.
Close(c, h) ==
    /\ cl' = [cl EXCEPT ![c] = [h EXCEPT !.pc = "closed"]]
    /\ stat' = [stat EXCEPT !["active"] = @ - 1]
    /\ UNCHANGED workers

\* An upstream is open: it is counted and the relay init is written to it.
Open(c, h, s) ==
    /\ cl' = [cl EXCEPT ![c] = [h EXCEPT !.pc = "sending", !.inits = @ + 1]]
    /\ stat' = Count(s)

Methods(k) ==
    (IF Worker # {} /\ k \in HasIp THEN <<"cf_worker">> ELSE <<>>)
    \o (IF UseCf THEN <<"cf">> ELSE <<>>)
    \o (IF k \in HasIp THEN <<"tcp">> ELSE <<>>)

Wait(c, h, m, i, what) ==
    /\ cl' = [cl EXCEPT ![c] = [h EXCEPT !.pc = m, !.at = i, !.attempts = Append(@, what)]]
    /\ UNCHANGED stat

\* The i-th turn of the worker loop: a pooled connection or a new one.
TryWorker(c, h, i, list) ==
    LET asked == [h EXCEPT !.attempts = Append(@, list[i])]
    IN  Open(c, asked, "cfproxy") \/ Wait(c, h, "cf_worker", i, list[i])

\* _cfproxy_fallback and _tcp_fallback; without domains the first is over at once.
TryCfOrTcp(c, h) ==
    LET rest == IF h.methods # <<>> /\ Head(h.methods) = "cf" /\ NCf = 0
                THEN Tail(h.methods) ELSE h.methods
    IN  IF rest = <<>> THEN Close(c, h)
        ELSE /\ Wait(c, [h EXCEPT !.methods = Tail(rest)], Head(rest), 1, Head(rest))
             /\ UNCHANGED workers

\* do_fallback takes up its first method.
StartFallback(c, h) ==
    LET m == Methods(h.key) IN
    \/ /\ m # <<>> /\ Head(m) = "cf_worker"
       /\ workers' \in SetToSeqs(Worker)
       /\ TryWorker(c, [h EXCEPT !.methods = Tail(m)], 1, workers')
    \/ /\ m = <<>> \/ Head(m) # "cf_worker"
       /\ TryCfOrTcp(c, [h EXCEPT !.methods = m])

\* A direct WebSocket is there, from the pool or just connected.
WsUp(c, h) ==
    /\ cooling' = cooling \ {h.key}
    /\ Open(c, h, "ws")
    /\ UNCHANGED <<blacklist, workers>>

-----------------------------------------------------------------------------
(* The handler's steps.                                                    *)

\* Mutant: the connection is not counted as active.
AcceptUncounted(c) ==
    /\ cl[c].pc = "idle"
    /\ cl' = [cl EXCEPT ![c].pc = "handshake"]
    /\ stat' = Count("total")
    /\ UNCHANGED <<blacklist, cooling, workers>>

Accept(c) ==
    /\ cl[c].pc = "idle"
    /\ cl' = [cl EXCEPT ![c].pc = "handshake"]
    /\ stat' = [stat EXCEPT !["total"] = @ + 1, !["active"] = @ + 1]
    /\ UNCHANGED <<blacklist, cooling, workers>>

\* The client leaves, is too slow, or was served by the masking relay.
HandshakeGone(c) ==
    /\ cl[c].pc = "handshake"
    /\ Close(c, cl[c])
    /\ UNCHANGED <<blacklist, cooling>>

BadHandshake(c) ==
    /\ cl[c].pc = "handshake"
    /\ cl' = [cl EXCEPT ![c].pc = "draining"]
    /\ stat' = Count("bad")
    /\ UNCHANGED <<blacklist, cooling, workers>>

Drained(c) ==
    /\ cl[c].pc = "draining"
    /\ Close(c, cl[c])
    /\ UNCHANGED <<blacklist, cooling>>

GoodHandshake(c, k) ==
    LET h == [cl[c] EXCEPT !.key = k, !.failedRedirect = FALSE, !.allRedirects = TRUE] IN
    /\ cl[c].pc = "handshake"
    /\ \/ /\ k \notin InConfig \/ k \in blacklist
          /\ StartFallback(c, h)
          /\ UNCHANGED <<blacklist, cooling>>
       \/ /\ k \in InConfig \ blacklist
          /\ \/ WsUp(c, h)
             \/ /\ cl' = [cl EXCEPT ![c] = [h EXCEPT !.pc = "dialling", !.at = 1]]
                /\ UNCHANGED <<blacklist, cooling, workers, stat>>

DialOk(c) ==
    /\ cl[c].pc = "dialling"
    /\ WsUp(c, [cl[c] EXCEPT !.allRedirects = FALSE])

\* Mutant: the flag stays where the handshake is refused without a redirect.
FlaggedLate(h, answer) ==
    CASE answer = "redirect" -> [h EXCEPT !.failedRedirect = TRUE]
      [] answer = "refused" -> h
      [] answer = "error" -> [h EXCEPT !.allRedirects = FALSE]

\* What the exception of an attempt does to the two flags.
Flagged(h, answer) ==
    CASE answer = "redirect" -> [h EXCEPT !.failedRedirect = TRUE]
      [] answer = "refused" -> [h EXCEPT !.allRedirects = FALSE]
      [] answer = "error" -> [h EXCEPT !.allRedirects = FALSE]

\* No domain is left: the key is blacklisted or put on cooldown.
GiveUp(c, h) ==
    /\ IF h.failedRedirect /\ h.allRedirects
       THEN blacklist' = blacklist \cup {h.key} /\ UNCHANGED cooling
       ELSE cooling' = cooling \cup {h.key} /\ UNCHANGED blacklist
    /\ StartFallback(c, h)

DialFails(c, answer) ==
    LET h == [Flagged(cl[c], answer) EXCEPT !.answers = Append(@, answer)] IN
    /\ cl[c].pc = "dialling"
    /\ \/ /\ h.at < NDomains
          /\ cl' = [cl EXCEPT ![c] = [h EXCEPT !.at = @ + 1]]
          /\ UNCHANGED <<blacklist, cooling, workers, stat>>
       \/ h.at = NDomains /\ GiveUp(c, h)

WorkerOk(c) ==
    /\ cl[c].pc = "cf_worker"
    /\ Open(c, cl[c], "cfproxy")
    /\ UNCHANGED <<blacklist, cooling, workers>>

\* Mutant: the fallbacks behind the workers are forgotten.
WorkerFailsLast(c) ==
    LET h == cl[c] IN
    /\ h.pc = "cf_worker"
    /\ \/ h.at < Len(workers) /\ TryWorker(c, h, h.at + 1, workers) /\ UNCHANGED workers
       \/ h.at = Len(workers) /\ Close(c, h)
    /\ UNCHANGED <<blacklist, cooling>>

WorkerFails(c) ==
    LET h == cl[c] IN
    /\ h.pc = "cf_worker"
    /\ \/ h.at < Len(workers) /\ TryWorker(c, h, h.at + 1, workers) /\ UNCHANGED workers
       \/ h.at = Len(workers) /\ TryCfOrTcp(c, h)
    /\ UNCHANGED <<blacklist, cooling>>

CfOk(c) ==
    /\ cl[c].pc = "cf"
    /\ Open(c, cl[c], "cfproxy")
    /\ UNCHANGED <<blacklist, cooling, workers>>

\* Mutant: the domains are gone through again and again.
CfFailsForever(c) ==
    /\ cl[c].pc = "cf"
    /\ cl' = [cl EXCEPT ![c].at = IF @ < NCf THEN @ + 1 ELSE 1]
    /\ UNCHANGED <<blacklist, cooling, workers, stat>>

CfFails(c) ==
    LET h == cl[c] IN
    /\ h.pc = "cf"
    /\ \/ h.at < NCf /\ Wait(c, h, "cf", h.at + 1, "cf") /\ UNCHANGED workers
       \/ h.at = NCf /\ TryCfOrTcp(c, h)
    /\ UNCHANGED <<blacklist, cooling>>

TcpOk(c) ==
    /\ cl[c].pc = "tcp"
    /\ Open(c, cl[c], "tcp")
    /\ UNCHANGED <<blacklist, cooling, workers>>

TcpFails(c) ==
    /\ cl[c].pc = "tcp"
    /\ Close(c, cl[c])
    /\ UNCHANGED <<blacklist, cooling>>

SendOk(c) ==
    /\ cl[c].pc = "sending"
    /\ cl' = [cl EXCEPT ![c].pc = "bridging"]
    /\ UNCHANGED <<blacklist, cooling, workers, stat>>

\* Mutant: a broken connection sends the client on to the next method.
SendRetries(c) ==
    LET h == cl[c] IN
    /\ h.pc = "sending"
    /\ TryCfOrTcp(c, h)
    /\ UNCHANGED <<blacklist, cooling>>

\* The pooled or new connection is dead: the exception ends the handler, out of
\* do_fallback as well.
SendFails(c) ==
    /\ cl[c].pc = "sending"
    /\ Close(c, [cl[c] EXCEPT !.cut = TRUE])
    /\ UNCHANGED <<blacklist, cooling>>

BridgeEnds(c) ==
    /\ cl[c].pc = "bridging"
    /\ Close(c, cl[c])
    /\ UNCHANGED <<blacklist, cooling>>

Answered(c) ==
    \/ \E answer \in Answers : DialFails(c, answer)
    \/ DialOk(c) \/ WorkerOk(c) \/ WorkerFails(c) \/ CfOk(c) \/ CfFails(c)
    \/ TcpOk(c) \/ TcpFails(c) \/ SendOk(c) \/ SendFails(c)

Next ==
    \E c \in Client :
          \/ Accept(c) \/ HandshakeGone(c) \/ BadHandshake(c) \/ Drained(c)
          \/ \E k \in DcKey : GoodHandshake(c, k)
          \/ Answered(c) \/ BridgeEnds(c)

Spec == Init /\ [][Next]_vars

\* Every attempt to connect or to write is ended by its answer or its timeout.
FairSpec == Spec /\ \A c \in Client : WF_vars(Answered(c))

-----------------------------------------------------------------------------
(* Properties.                                                             *)

Looking == {"dialling", "cf_worker", "cf", "tcp", "sending"}

\* The relay init goes to one upstream: the ciphers of a client's session are
\* never used towards two servers, whichever attempts failed before.
InitOnce == \A c \in Client : cl[c].inits <= 1

\* c has got no WebSocket: its last domain, like all before it, has redirected it.
RedirectedEverywhere(c) ==
    /\ cl[c].pc = "dialling" /\ cl'[c].pc # "dialling"
    /\ cl'[c].answers = [i \in 1 .. NDomains |-> "redirect"]

\* A key is blacklisted, until the proxy is restarted, when a client has heard a
\* redirect from every domain of that key and on no other account: the two flags
\* of _handle_client are, at the end of its loop, what all the answers together
\* say, whatever their order and whoever else blacklists or dials meanwhile.
BlacklistJustified ==
    [][/\ \A k \in blacklist' \ blacklist :
              \E c \in Client : cl[c].key = k /\ RedirectedEverywhere(c)
       /\ \A c \in Client : RedirectedEverywhere(c) => cl[c].key \in blacklist']_vars

\* A client whose handshake was good is turned away only after every configured
\* method has been tried, as often as it has domains, in the order of do_fallback.
Sought(c) ==
    LET made == cl[c].attempts
        times(m) == Cardinality({i \in DOMAIN made : made[i] = m})
    IN  /\ UseCf => times("cf") = NCf
        /\ cl[c].key \in HasIp =>
               /\ times("tcp") = 1 /\ Last(made) = "tcp"
               /\ Len(made) = Cardinality(Worker) + (IF UseCf THEN NCf ELSE 0) + 1
TurnedAwayLast ==
    [][\A c \in Client : cl[c].pc \in Looking \ {"sending"} /\ cl'[c].pc = "closed" =>
          Sought(c)]_vars

Accepted == {c \in Client : cl[c].pc # "idle"}
Handled == {c \in Client : cl[c].pc \notin {"idle", "closed"}}
Served == {c \in Client : cl[c].inits = 1}

\* The counters account for every connection: the active ones are those with a
\* handler, and each one that got an upstream is counted under one method.
CountersAgree ==
    /\ stat["total"] = Cardinality(Accepted)
    /\ stat["active"] = Cardinality(Handled)
    /\ stat["ws"] + stat["cfproxy"] + stat["tcp"] = Cardinality(Served)

\* A client that is looking for an upstream gets one or is turned away.
Settles == \A c \in Client : cl[c].pc \in Looking ~> cl[c].pc \in {"bridging", "closed"}

\* "Tried before other fallback methods, repeatable for multiple domains": when a
\* client turns to another method it has tried every worker domain.
WorkersAllTried ==
    \A c \in Client : cl[c].pc \in {"cf", "tcp"} /\ cl[c].key \in HasIp =>
        \A w \in Worker : \E i \in DOMAIN cl[c].attempts : cl[c].attempts[i] = w

=============================================================================
