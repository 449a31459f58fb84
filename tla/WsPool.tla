------------------------------- MODULE WsPool -------------------------------
(***************************************************************************)
(* The pool of pre-connected WebSockets of proxy/pool.py.  The two classes *)
(* _WsPool (direct connections, a key is <<dc, is_media>>) and             *)
(* _CfWorkerPool (Cloudflare Worker connections, a key is                  *)
(* <<dc, worker_domain>>) have the same code but for the address they dial *)
(* and are both instances of this module.                                  *)
(*                                                                         *)
(* Everything runs on one asyncio loop, so an action is what one coroutine *)
(* does between two suspensions.  get() never suspends.  A refill suspends *)
(* only while it awaits the connect tasks it has created, and it collects  *)
(* them in the order of creation.                                          *)
(*                                                                         *)
(* A pool entry is a record [ws, age]: the code stores the time the entry  *)
(* was made and takes the difference at get(); the age advances with Tick  *)
(* and saturates just above MaxAge, the only value it is compared with.    *)
(*                                                                         *)
(* The name of a socket that has been closed is used again, so a finite Ws *)
(* bounds the sockets that are open at once, not the length of a run.      *)
(***************************************************************************)
EXTENDS Integers, Sequences, FiniteSets

CONSTANTS Key,        \* the keys of the pool
          WarmKey,      \* the keys warmup() fills
          Ws,           \* names of sockets
          Task,         \* names of refill tasks
          PoolSize,     \* proxy_config.pool_size
          MaxAge,       \* WS_POOL_MAX_AGE, in ticks
          Pending,      \* a connect task that is still running
          Failed,       \* a connect task that has returned None
          NoKey         \* the key of a refill task name that is not in use

ASSUME PoolSizeAssumption == PoolSize \in Nat
ASSUME MaxAgeAssumption == MaxAge \in Nat
ASSUME KeyAssumption == WarmKey \subseteq Key /\ NoKey \notin Key
ASSUME OutcomeAssumption == Pending # Failed /\ Pending \notin Ws /\ Failed \notin Ws

VARIABLES
    idle,       \* _idle: the bucket of each key, oldest entry first
    refilling,  \* _refilling: the keys a refill has been scheduled for
    phase,      \* how far each refill task is
    keyOf,      \* the key a refill task fills
    conn,       \* its connect tasks that it has not collected, in order
    live,       \* sockets whose transport is open
    held,       \* sockets get() has given to a client handler
    closing,    \* sockets a _quiet_close task has yet to close
    warm        \* keys warmup() has still to schedule

refillVars == <<refilling, phase, keyOf, conn>>
vars == <<idle, refilling, phase, keyOf, conn, live, held, closing, warm>>

Entry == [ws : Ws, age : 0 .. MaxAge + 1]
Outcome == Ws \cup {Pending, Failed}

BucketSockets(k) == {idle[k][i].ws : i \in DOMAIN idle[k]}
Connected == {w \in Ws : \E t \in Task : \E i \in DOMAIN conn[t] : conn[t][i] = w}
Free == Ws \ ((UNION {BucketSockets(k) : k \in Key}) \cup Connected \cup held \cup closing)

\* What get() tests of an entry before it hands it out.
Usable(e) == e.age <= MaxAge /\ e.ws \in live

TypeOK ==
    /\ idle \in [Key -> Seq(Entry)]
    /\ refilling \subseteq Key
    /\ phase \in [Task -> {"none", "queued", "filling", "orphaned"}]
    /\ keyOf \in [Task -> Key \cup {NoKey}]
    /\ conn \in [Task -> Seq(Outcome)]
    /\ live \subseteq Ws /\ held \subseteq Ws /\ closing \subseteq Ws
    /\ warm \subseteq Key

Init ==
    /\ idle = [k \in Key |-> <<>>]
    /\ refilling = {}
    /\ phase = [t \in Task |-> "none"]
    /\ keyOf = [t \in Task |-> NoKey]
    /\ conn = [t \in Task |-> <<>>]
    /\ live = {} /\ held = {} /\ closing = {}
    /\ warm = WarmKey

-----------------------------------------------------------------------------
(* Operations of the pool.                                                 *)

NewTask(k) ==
    /\ refilling' = refilling \cup {k}
    /\ \E t \in Task :
          /\ phase[t] = "none"
          /\ phase' = [phase EXCEPT ![t] = "queued"]
          /\ keyOf' = [keyOf EXCEPT ![t] = k]
          /\ UNCHANGED conn

\* Mutant: the test of _refilling is lost.
ScheduleAlways(k) == NewTask(k)

ScheduleRefill(k) ==
    \/ k \in refilling /\ UNCHANGED refillVars
    \/ k \notin refilling /\ NewTask(k)

\* Mutant: the finally clause is lost.
FinishMarked(t) ==
    /\ phase' = [phase EXCEPT ![t] = "none"]
    /\ keyOf' = [keyOf EXCEPT ![t] = NoKey]
    /\ conn' = [conn EXCEPT ![t] = <<>>]
    /\ UNCHANGED refilling

\* The end of _refill: the task is over and the finally clause runs.
Finish(t) ==
    /\ refilling' = refilling \ {keyOf[t]}
    /\ phase' = [phase EXCEPT ![t] = "none"]
    /\ keyOf' = [keyOf EXCEPT ![t] = NoKey]
    /\ conn' = [conn EXCEPT ![t] = <<>>]

\* warmup() suspends nowhere, so nothing else happens until `warm` is empty.
Warmup(k) ==
    /\ k \in warm
    /\ warm' = warm \ {k}
    /\ ScheduleRefill(k)
    /\ UNCHANGED <<idle, live, held, closing>>

\* get() drops the entries in front that are too old or closed.
Skipped(k, n) ==
    /\ \A j \in 1 .. n : ~Usable(idle[k][j])
    /\ closing' = closing \cup {idle[k][j].ws : j \in 1 .. n}

\* Mutant: the entry handed out stays in the bucket.
GetHitKeeps(k) ==
    \E i \in DOMAIN idle[k] :
        /\ Usable(idle[k][i])
        /\ Skipped(k, i - 1)
        /\ idle' = [idle EXCEPT ![k] = SubSeq(idle[k], i, Len(idle[k]))]
        /\ held' = held \cup {idle[k][i].ws}
        /\ ScheduleRefill(k)
        /\ UNCHANGED <<live, warm>>

\* Mutant: the bucket is searched from its young end (pop() for popleft()).
GetHitLifo(k) ==
    \E i \in DOMAIN idle[k] :
        /\ Usable(idle[k][i])
        /\ \A j \in i + 1 .. Len(idle[k]) : ~Usable(idle[k][j])
        /\ idle' = [idle EXCEPT ![k] = SubSeq(idle[k], 1, i - 1)]
        /\ closing' = closing \cup {idle[k][j].ws : j \in i + 1 .. Len(idle[k])}
        /\ held' = held \cup {idle[k][i].ws}
        /\ ScheduleRefill(k)
        /\ UNCHANGED <<live, warm>>

GetHit(k) ==
    \E i \in DOMAIN idle[k] :
        /\ Usable(idle[k][i])
        /\ Skipped(k, i - 1)
        /\ idle' = [idle EXCEPT ![k] = SubSeq(idle[k], i + 1, Len(idle[k]))]
        /\ held' = held \cup {idle[k][i].ws}
        /\ ScheduleRefill(k)
        /\ UNCHANGED <<live, warm>>

GetMiss(k) ==
    /\ Skipped(k, Len(idle[k]))
    /\ idle' = [idle EXCEPT ![k] = <<>>]
    /\ ScheduleRefill(k)
    /\ UNCHANGED <<live, held, warm>>

-----------------------------------------------------------------------------
(* The refill task.                                                        *)

Needed(t) == PoolSize - Len(idle[keyOf[t]])

StartRefill(t) ==
    /\ phase[t] = "queued"
    /\ \/ Needed(t) <= 0 /\ Finish(t)
       \/ /\ Needed(t) > 0
          /\ phase' = [phase EXCEPT ![t] = "filling"]
          /\ conn' = [conn EXCEPT ![t] = [i \in 1 .. Needed(t) |-> Pending]]
          /\ UNCHANGED <<refilling, keyOf>>
    /\ UNCHANGED <<idle, live, held, closing, warm>>

\* _connect_one ends.  Which of its domains answered is not told apart.
ConnectOk(t) ==
    \E i \in DOMAIN conn[t], w \in Free :
        /\ conn[t][i] = Pending
        /\ conn' = [conn EXCEPT ![t] = [conn[t] EXCEPT ![i] = w]]
        /\ live' = live \cup {w}
        /\ UNCHANGED <<idle, refilling, phase, keyOf, held, closing, warm>>

ConnectFail(t) ==
    \E i \in DOMAIN conn[t] :
        /\ conn[t][i] = Pending
        /\ conn' = [conn EXCEPT ![t] = [conn[t] EXCEPT ![i] = Failed]]
        /\ UNCHANGED <<idle, refilling, phase, keyOf, live, held, closing, warm>>

\* Mutant: a connect task that returned None is put in the bucket as well.
CollectAnything(t) ==
    /\ phase[t] = "filling"
    /\ conn[t] # <<>> /\ Head(conn[t]) # Pending
    /\ idle' = [idle EXCEPT ![keyOf[t]] = Append(@, [ws |-> Head(conn[t]), age |-> 0])]
    /\ \/ Len(conn[t]) = 1 /\ Finish(t)
       \/ /\ Len(conn[t]) > 1
          /\ conn' = [conn EXCEPT ![t] = Tail(conn[t])]
          /\ UNCHANGED <<refilling, phase, keyOf>>
    /\ UNCHANGED <<live, held, closing, warm>>

\* `ws = await t` for the next connect task, which is over.  A task that is
\* already over is not waited for; collecting it one step later is the same
\* as its having ended one step later.
Collect(t) ==
    /\ phase[t] = "filling"
    /\ conn[t] # <<>>
    /\ LET ws == Head(conn[t])  k == keyOf[t]
       IN  /\ ws # Pending
           /\ \/ ws = Failed /\ UNCHANGED idle
              \/ /\ ws # Failed
                 /\ idle' = [idle EXCEPT ![k] = Append(idle[k], [ws |-> ws, age |-> 0])]
    /\ \/ Len(conn[t]) = 1 /\ Finish(t)
       \/ /\ Len(conn[t]) > 1
          /\ conn' = [conn EXCEPT ![t] = Tail(conn[t])]
          /\ UNCHANGED <<refilling, phase, keyOf>>
    /\ UNCHANGED <<live, held, closing, warm>>

QuietClose(w) ==
    /\ w \in closing
    /\ closing' = closing \ {w}
    /\ live' = live \ {w}
    /\ UNCHANGED <<idle, refilling, phase, keyOf, conn, held, warm>>

-----------------------------------------------------------------------------
(* The environment: the handler's session ends, the peer hangs up, time.   *)

Release(w) ==
    /\ w \in held
    /\ held' = held \ {w}
    /\ live' = live \ {w}
    /\ UNCHANGED <<idle, refilling, phase, keyOf, conn, closing, warm>>

PeerClose(w) ==
    /\ w \in live
    /\ live' = live \ {w}
    /\ UNCHANGED <<idle, refilling, phase, keyOf, conn, held, closing, warm>>

Older(a) == IF a <= MaxAge THEN a + 1 ELSE a

Tick ==
    /\ idle' = [k \in Key |-> [i \in DOMAIN idle[k] |->
                    [ws |-> idle[k][i].ws, age |-> Older(idle[k][i].age)]]]
    /\ UNCHANGED <<refilling, phase, keyOf, conn, live, held, closing, warm>>

Next ==
    \/ \E k \in Key : Warmup(k)
    \/ /\ warm = {}
       /\ \/ \E k \in Key : GetHit(k) \/ GetMiss(k)
          \/ \E t \in Task : StartRefill(t) \/ ConnectOk(t) \/ ConnectFail(t) \/ Collect(t)
          \/ \E w \in Ws : QuietClose(w) \/ Release(w) \/ PeerClose(w)
          \/ Tick

\* One run of the proxy.
Spec == Init /\ [][Next]_vars

\* The loop runs the tasks that are ready, and each connect attempt is ended by
\* its answer or by its timeouts.
Fairness ==
    /\ \A k \in Key : WF_vars(Warmup(k))
    /\ \A t \in Task :
          /\ WF_vars(warm = {} /\ StartRefill(t))
          /\ WF_vars(warm = {} /\ (ConnectOk(t) \/ ConnectFail(t)))
          /\ WF_vars(warm = {} /\ Collect(t))

FairSpec == Spec /\ Fairness

-----------------------------------------------------------------------------
(* Stopping the proxy and starting it again in the same process.           *)

\* loop.close() runs none of the tasks that are left, and _run() of the next
\* loop calls reset().  A refill that was suspended is destroyed by the garbage
\* collector some time later; one that had not started has no finally to run.
Restart ==
    /\ warm = {}
    /\ idle' = [k \in Key |-> <<>>]
    /\ refilling' = {}
    /\ phase' = [t \in Task |->
                   IF phase[t] \in {"filling", "orphaned"} THEN "orphaned" ELSE "none"]
    /\ keyOf' = [t \in Task |->
                   IF phase[t] \in {"filling", "orphaned"} THEN keyOf[t] ELSE NoKey]
    /\ conn' = [t \in Task |-> <<>>]
    /\ live' = {} /\ held' = {} /\ closing' = {}
    /\ warm' = WarmKey

\* Destroying the suspended coroutine runs its finally clause, on the
\* _refilling set the new run is using.
Destroy(t) ==
    /\ phase[t] = "orphaned"
    /\ Finish(t)
    /\ UNCHANGED <<idle, live, held, closing, warm>>

RestartSpec == Init /\ [][Next \/ Restart \/ \E t \in Task : Destroy(t)]_vars

-----------------------------------------------------------------------------
(* Properties.                                                             *)

\* A bucket never holds more than pool_size connections, although a refill
\* works out how many it needs before it waits for them and get() takes entries
\* in the meantime.
BucketBound == \A k \in Key : Len(idle[k]) <= PoolSize

\* A socket is in one place: one entry of one bucket, or one connect task, or
\* one handler, or about to be closed.  Two clients never share a socket.
ExclusiveOwner ==
    /\ \A k1, k2 \in Key : \A i \in DOMAIN idle[k1], j \in DOMAIN idle[k2] :
          idle[k1][i].ws = idle[k2][j].ws => k1 = k2 /\ i = j
    /\ \A t1, t2 \in Task : \A i \in DOMAIN conn[t1], j \in DOMAIN conn[t2] :
          conn[t1][i] = conn[t2][j] /\ conn[t1][i] \in Ws => t1 = t2 /\ i = j
    /\ \A k \in Key : BucketSockets(k) \cap (Connected \cup held \cup closing) = {}
    /\ Connected \cap (held \cup closing) = {}
    /\ held \cap closing = {}

\* Once get() has handed out an entry, nothing that is too old is left behind it
\* in the bucket, although get() stops looking at the first usable entry.
StaleSwept ==
    [][\A k \in Key : held' # held /\ Len(idle'[k]) < Len(idle[k]) =>
          \A i \in DOMAIN idle'[k] : idle'[k][i].age <= MaxAge]_vars

\* The pool does what SocketStore promises, whatever refills do.
Store == INSTANCE SocketStore WITH store <- [k \in Key |-> BucketSockets(k)], lent <- held
ImplementsStore == Store!Spec

\* A refill ends, so that the key can be refilled again.
RefillEnds == \A k \in Key : k \in refilling ~> k \notin refilling

=============================================================================
