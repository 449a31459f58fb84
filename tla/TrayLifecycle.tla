---------------------------- MODULE TrayLifecycle ----------------------------
(***************************************************************************)
(* How the tray application starts, stops and restarts the proxy thread:   *)
(* _run_proxy_thread, start_proxy, stop_proxy and restart_proxy of         *)
(* utils/tray_common.py, with the end of _run in proxy/tg_ws_proxy.py.     *)
(*                                                                         *)
(* The menu runs every restart in a thread of its own (a controller).      *)
(* Controllers and proxy threads share two globals without a lock: the     *)
(* handle `_async_stop` (a loop and its stop event, named here by the      *)
(* proxy thread that owns them) and `_proxy_thread`.  0 stands for None.   *)
(***************************************************************************)
EXTENDS Integers, FiniteSets

CONSTANTS Controller,  \* threads that restart the proxy
          MaxThreads   \* bound: proxy threads created in one process

ASSUME TrayAssumption == MaxThreads \in Nat \ {0} /\ IsFiniteSet(Controller)

ProxyThread == 1 .. MaxThreads

VARIABLES
    waits,        \* Server.wait_closed waits for open connections: Python 3.12 and up
    polite,       \* the user waits for one restart before asking for the next
    stage,        \* stage[t]: what proxy thread t is doing
    stopSet,      \* stopSet[t]: its stop event is set
    asyncStop,    \* _async_stop
    proxyThread,  \* _proxy_thread
    pc,           \* pc[c]: where controller c stands
    held,         \* held[c]: the handle c has read in stop_proxy, then the thread
                  \* it waits for
    refused       \* what only a property reads: the last start_proxy found a
                  \* configuration it could not apply

env == <<waits, polite>>
proxyVars == <<stage, stopSet>>
vars == <<env, proxyVars, asyncStop, proxyThread, pc, held, refused>>

Alive(t) == stage[t] \notin {"none", "dead"}
LoopOpen(t) == stage[t] \in {"binding", "serving", "draining", "closing"}

TypeOK ==
    /\ waits \in BOOLEAN /\ polite \in BOOLEAN
    /\ stage \in [ProxyThread -> {"none", "new", "binding", "serving", "draining",
                                  "closing", "ending", "dead"}]
    /\ stopSet \in [ProxyThread -> BOOLEAN]
    /\ asyncStop \in 0 .. MaxThreads /\ proxyThread \in 0 .. MaxThreads
    /\ asyncStop # 0 => stage[asyncStop] \notin {"none", "new"}
    /\ pc \in [Controller -> {"idle", "stop", "read", "signal", "join", "clear",
                              "reading", "waiting", "stopped", "start"}]
    /\ held \in [Controller -> 0 .. MaxThreads] /\ refused \in BOOLEAN
    /\ \A t \in ProxyThread : stopSet[t] => stage[t] \notin {"none", "new"}

\* run_tray starts the first thread before there is a menu, if it can.
Init ==
    /\ waits \in BOOLEAN /\ polite \in BOOLEAN
    /\ proxyThread \in {0, 1} /\ refused = (proxyThread = 0)
    /\ stage = [t \in ProxyThread |-> IF t = proxyThread THEN "new" ELSE "none"]
    /\ stopSet = [t \in ProxyThread |-> FALSE]
    /\ asyncStop = 0
    /\ pc = [c \in Controller |-> "idle"] /\ held = [c \in Controller |-> 0]

-----------------------------------------------------------------------------
(* _run_proxy_thread.                                                      *)

Move(t, from, to) == stage[t] = from /\ stage' = [stage EXCEPT ![t] = to]

StoresHandle(t) ==
    /\ Move(t, "new", "binding")
    /\ asyncStop' = t
    /\ UNCHANGED <<env, stopSet, proxyThread, pc, held, refused>>

\* start_server: the port is free, or the thread ends with an error.
Binds(t) ==
    /\ \/ (\A u \in ProxyThread : stage[u] # "serving") /\ Move(t, "binding", "serving")
       \/ (\E u \in ProxyThread : stage[u] = "serving") /\ Move(t, "binding", "closing")
    /\ UNCHANGED <<env, stopSet, asyncStop, proxyThread, pc, held, refused>>

\* The stop event: the listening socket is closed, then wait_closed.
StopsServing(t) ==
    /\ stopSet[t]
    /\ Move(t, "serving", IF waits THEN "draining" ELSE "closing")
    /\ UNCHANGED <<env, stopSet, asyncStop, proxyThread, pc, held, refused>>

LastClientLeaves(t) ==
    /\ Move(t, "draining", "closing")
    /\ UNCHANGED <<env, stopSet, asyncStop, proxyThread, pc, held, refused>>

ClosesLoop(t) ==
    /\ Move(t, "closing", "ending")
    /\ UNCHANGED <<env, stopSet, asyncStop, proxyThread, pc, held, refused>>

\* The handle is reset whoever owns it by now.
Ends(t) ==
    /\ Move(t, "ending", "dead")
    /\ asyncStop' = 0
    /\ UNCHANGED <<env, stopSet, proxyThread, pc, held, refused>>

-----------------------------------------------------------------------------
(* restart_proxy: stop_proxy, a pause, start_proxy.                        *)

GoTo(c, where) == pc' = [pc EXCEPT ![c] = where]

\* The user asks for a restart.
Restart(c) ==
    /\ pc[c] = "idle"
    /\ polite => /\ \A d \in Controller : pc[d] = "idle"
                 /\ \A t \in ProxyThread : stage[t] # "new"
    /\ Cardinality({t \in ProxyThread : stage[t] = "none"})
          > Cardinality({d \in Controller : pc[d] # "idle"})
    /\ GoTo(c, "stop")
    /\ refused' = FALSE
    /\ UNCHANGED <<env, proxyVars, asyncStop, proxyThread, held>>

\* if _async_stop:
TestHandle(c) ==
    /\ pc[c] = "stop"
    /\ GoTo(c, IF asyncStop = 0 THEN "clear" ELSE "read")
    /\ UNCHANGED <<env, proxyVars, asyncStop, proxyThread, held, refused>>

\* loop, stop_ev = _async_stop: unpacking None raises, and c ends.
ReadHandle(c) ==
    /\ pc[c] = "read"
    /\ held' = [held EXCEPT ![c] = asyncStop]
    /\ GoTo(c, IF asyncStop = 0 THEN "idle" ELSE "signal")
    /\ UNCHANGED <<env, proxyVars, asyncStop, proxyThread, refused>>

\* Mutant: the event is taken for that of the current proxy thread.
SignalCurrent(c) ==
    /\ pc[c] = "signal"
    /\ LoopOpen(held[c])
    /\ stopSet' = [t \in ProxyThread |-> stopSet[t] \/ t = proxyThread]
    /\ GoTo(c, "join")
    /\ UNCHANGED <<env, stage, asyncStop, proxyThread, held, refused>>

\* call_soon_threadsafe raises on a closed loop, and c ends.
Signal(c) ==
    /\ pc[c] = "signal"
    /\ \/ /\ LoopOpen(held[c])
          /\ stopSet' = [stopSet EXCEPT ![held[c]] = TRUE]
          /\ GoTo(c, "join") /\ UNCHANGED held
       \/ /\ ~LoopOpen(held[c])
          /\ GoTo(c, "idle") /\ held' = [held EXCEPT ![c] = 0] /\ UNCHANGED stopSet
    /\ UNCHANGED <<env, stage, asyncStop, proxyThread, refused>>

\* if _proxy_thread:
TestThread(c) ==
    /\ pc[c] = "join"
    /\ GoTo(c, IF proxyThread = 0 THEN "clear" ELSE "reading")
    /\ held' = IF proxyThread = 0 THEN [held EXCEPT ![c] = 0] ELSE held
    /\ UNCHANGED <<env, proxyVars, asyncStop, proxyThread, refused>>

\* _proxy_thread.join: None has none, which raises, and c ends.
ReadThread(c) ==
    /\ pc[c] = "reading"
    /\ held' = [held EXCEPT ![c] = proxyThread]
    /\ GoTo(c, IF proxyThread = 0 THEN "idle" ELSE "waiting")
    /\ UNCHANGED <<env, proxyVars, asyncStop, proxyThread, refused>>

\* Mutant: the thread is not waited for.
JoinNothing(c) ==
    /\ pc[c] = "waiting"
    /\ GoTo(c, "clear") /\ held' = [held EXCEPT ![c] = 0]
    /\ UNCHANGED <<env, proxyVars, asyncStop, proxyThread, refused>>

\* Mutant: join without a time-out.
JoinForever(c) ==
    /\ pc[c] = "waiting"
    /\ ~Alive(held[c])
    /\ GoTo(c, "clear") /\ held' = [held EXCEPT ![c] = 0]
    /\ UNCHANGED <<env, proxyVars, asyncStop, proxyThread, refused>>

\* join(timeout=5): five seconds are enough for a thread that has been told to
\* stop and does not wait for its clients.
Join(c) ==
    /\ pc[c] = "waiting"
    /\ Alive(held[c]) => ~stopSet[held[c]] \/ stage[held[c]] = "draining"
    /\ GoTo(c, "clear") /\ held' = [held EXCEPT ![c] = 0]
    /\ UNCHANGED <<env, proxyVars, asyncStop, proxyThread, refused>>

Clear(c) ==
    /\ pc[c] = "clear"
    /\ proxyThread' = 0
    /\ GoTo(c, "stopped")
    /\ UNCHANGED <<env, proxyVars, asyncStop, held, refused>>

\* "Proxy stopped" has been logged: 0.3 seconds pass.
Pause(c) ==
    /\ pc[c] = "stopped"
    /\ GoTo(c, "start")
    /\ UNCHANGED <<env, proxyVars, asyncStop, proxyThread, held, refused>>

Running == proxyThread # 0 /\ Alive(proxyThread)

\* start_proxy: nothing if the thread is alive, an error if apply_proxy_config
\* refuses the configuration, else a new one.
Start(c) ==
    /\ pc[c] = "start"
    /\ \/ Running /\ UNCHANGED <<stage, proxyThread, refused>>
       \/ ~Running /\ refused' = TRUE /\ UNCHANGED <<stage, proxyThread>>
       \/ /\ ~Running /\ refused' = FALSE
          /\ \E t \in ProxyThread :
                /\ stage[t] = "none" /\ \A u \in 1 .. t - 1 : stage[u] # "none"
                /\ stage' = [stage EXCEPT ![t] = "new"]
                /\ proxyThread' = t
    /\ GoTo(c, "idle")
    /\ UNCHANGED <<env, stopSet, asyncStop, held>>

-----------------------------------------------------------------------------
Proxy(t) ==
    StoresHandle(t) \/ Binds(t) \/ StopsServing(t) \/ ClosesLoop(t) \/ Ends(t)

Control(c) ==
    \/ TestHandle(c) \/ ReadHandle(c) \/ Signal(c)
    \/ TestThread(c) \/ ReadThread(c) \/ Join(c)
    \/ Clear(c) \/ Pause(c) \/ Start(c)

Next ==
    \/ \E t \in ProxyThread : Proxy(t) \/ LastClientLeaves(t)
    \/ \E c \in Controller : Restart(c) \/ Control(c)

Spec == Init /\ [][Next]_vars

\* Threads are scheduled.  Nothing makes a user restart or a client leave.
FairSpec ==
    /\ Spec
    /\ \A t \in ProxyThread : WF_vars(Proxy(t))
    /\ \A c \in Controller : WF_vars(Control(c))

-----------------------------------------------------------------------------
(* Properties.                                                             *)

\* When stop_proxy says so (utils/tray_common.py:305), no proxy thread of
\* the application takes clients any more.
ProxyStopped ==
    (\E c \in Controller : pc[c] = "stopped") => \A t \in ProxyThread : stage[t] # "serving"

\* Before Python 3.12 that is so for a user who asks for one restart at a
\* time.
StoppedMeansStopped == polite /\ ~waits => ProxyStopped

\* And such a restart ends with a proxy that serves, unless it has a configuration
\* that is refused: its port is free by the time the new thread binds it.
RestartServes ==
    \A c \in Controller :
        (polite /\ ~waits /\ pc[c] = "stop") ~>
            (refused \/ \E t \in ProxyThread : stage[t] = "serving" /\ ~stopSet[t])

\* With any Python and any number of restarts at once, no restart is held up
\* for good by clients that stay connected or by another restart.
RestartReturns == \A c \in Controller : (pc[c] = "stop") ~> (pc[c] = "idle")

\* utils/tray_common.py:305, "Proxy stopped", and docs/README.windows.md:17,
\* with any Python.
PoliteStopStops == polite => ProxyStopped

=============================================================================
