------------------------------ MODULE TrayProofs ------------------------------
(***************************************************************************)
(* The restarts of TrayLifecycle, for any number of controllers and proxy  *)
(* threads: where stop_proxy may say that the proxy has stopped.           *)
(***************************************************************************)
EXTENDS TrayLifecycle, TLAPS

\* The types hold when run_tray has created the first thread.
LEMMA TypeInit == Init => TypeOK
<1> SUFFICES ASSUME Init PROVE TypeOK
  OBVIOUS
<1>1. stopSet \in [ProxyThread -> BOOLEAN] /\ waits \in BOOLEAN /\ polite \in BOOLEAN
  BY DEF Init
<1>2. /\ stage \in [ProxyThread -> {"none", "new", "binding", "serving", "draining",
                                    "closing", "ending", "dead"}]
      /\ \A t \in ProxyThread : ~stopSet[t]
  BY DEF Init
<1>3. /\ asyncStop = 0 /\ proxyThread \in {0, 1} /\ refused \in BOOLEAN
      /\ pc \in [Controller -> {"idle", "stop", "read", "signal", "join", "clear",
                                "reading", "waiting", "stopped", "start"}]
      /\ held \in [Controller -> 0 .. MaxThreads]
  BY TrayAssumption DEF Init
<1> QED BY <1>1, <1>2, <1>3, TrayAssumption DEF TypeOK

\* Every step keeps the types.
LEMMA TypeNext == TypeOK /\ [Next]_vars => TypeOK'
<1> SUFFICES ASSUME TypeOK, [Next]_vars PROVE TypeOK'
  OBVIOUS
<1> USE TrayAssumption DEF ProxyThread
<1>1. CASE UNCHANGED vars
  BY <1>1 DEF TypeOK, vars, env, proxyVars
<1>2. ASSUME NEW t \in ProxyThread, StoresHandle(t) PROVE TypeOK'
  <2>1. /\ stage' = [stage EXCEPT ![t] = "binding"] /\ asyncStop' = t
        /\ UNCHANGED <<waits, polite, stopSet, proxyThread, pc, held, refused>>
    BY <1>2 DEF StoresHandle, Move, env
  <2>2. stage' \in [ProxyThread -> {"none", "new", "binding", "serving", "draining",
                                     "closing", "ending", "dead"}]
    BY <2>1 DEF TypeOK
  <2>3. /\ asyncStop' \in 0 .. MaxThreads
        /\ asyncStop' # 0 => stage'[asyncStop'] \notin {"none", "new"}
    BY <2>1 DEF TypeOK
  <2>4. \A u \in ProxyThread : stopSet'[u] => stage'[u] \notin {"none", "new"}
    BY <2>1 DEF TypeOK
  <2>5. /\ waits' \in BOOLEAN /\ polite' \in BOOLEAN /\ refused' \in BOOLEAN
        /\ stopSet' \in [ProxyThread -> BOOLEAN]
    BY <2>1 DEF TypeOK
  <2>6. /\ pc' \in [Controller -> {"idle", "stop", "read", "signal", "join", "clear",
                                   "reading", "waiting", "stopped", "start"}]
        /\ held' \in [Controller -> 0 .. MaxThreads] /\ proxyThread' \in 0 .. MaxThreads
    BY <2>1 DEF TypeOK
  <2> QED BY <2>2, <2>3, <2>4, <2>5, <2>6 DEF TypeOK
<1>3. ASSUME NEW t \in ProxyThread,
             Binds(t) \/ StopsServing(t) \/ LastClientLeaves(t) \/ ClosesLoop(t)
      PROVE  TypeOK'
  <2>1. UNCHANGED <<waits, polite, stopSet, asyncStop, proxyThread, pc, held, refused>>
    BY <1>3 DEF Binds, StopsServing, LastClientLeaves, ClosesLoop, env
  <2>2. /\ stage' \in [ProxyThread -> {"none", "new", "binding", "serving", "draining",
                                       "closing", "ending", "dead"}]
        /\ \A u \in ProxyThread :
              stage[u] \notin {"none", "new"} => stage'[u] \notin {"none", "new"}
    BY <1>3 DEF Binds, StopsServing, LastClientLeaves, ClosesLoop, Move, TypeOK
  <2> QED BY <2>1, <2>2 DEF TypeOK
<1>4. ASSUME NEW t \in ProxyThread, Ends(t) PROVE TypeOK'
  BY <1>4 DEF Ends, Move, TypeOK, env
<1>5. ASSUME NEW c \in Controller,
             \/ Restart(c) \/ TestHandle(c) \/ ReadHandle(c) \/ TestThread(c)
             \/ ReadThread(c) \/ Join(c) \/ Clear(c) \/ Pause(c)
      PROVE  TypeOK'
  <2>1. pc' \in [Controller -> {"idle", "stop", "read", "signal", "join", "clear",
                                "reading", "waiting", "stopped", "start"}]
    BY <1>5 DEF Restart, TestHandle, ReadHandle, TestThread, ReadThread, Join, Clear,
       Pause, GoTo, TypeOK
  <2>2. held' \in [Controller -> 0 .. MaxThreads]
    BY <1>5 DEF Restart, TestHandle, ReadHandle, TestThread, ReadThread, Join, Clear,
       Pause, TypeOK
  <2>3. UNCHANGED <<waits, polite, stage, stopSet, asyncStop>>
    BY <1>5 DEF Restart, TestHandle, ReadHandle, TestThread, ReadThread, Join, Clear,
       Pause, env, proxyVars
  <2>4. proxyThread' \in 0 .. MaxThreads
    BY <1>5 DEF Restart, TestHandle, ReadHandle, TestThread, ReadThread, Join, Clear,
       Pause, TypeOK
  <2>5. refused' = FALSE \/ refused' = refused
    BY <1>5 DEF Restart, TestHandle, ReadHandle, TestThread, ReadThread, Join, Clear,
       Pause
  <2>6. refused' \in BOOLEAN
    BY <2>5 DEF TypeOK
  <2> QED BY <2>1, <2>2, <2>3, <2>4, <2>6 DEF TypeOK
<1>6. ASSUME NEW c \in Controller, Signal(c) PROVE TypeOK'
  <2>1. UNCHANGED <<waits, polite, stage, asyncStop, proxyThread, refused>>
    BY <1>6 DEF Signal, env
  <2>2. pc' \in [Controller -> {"idle", "stop", "read", "signal", "join", "clear",
                                "reading", "waiting", "stopped", "start"}]
    BY <1>6 DEF Signal, GoTo, TypeOK
  <2>3. held' \in [Controller -> 0 .. MaxThreads]
    BY <1>6 DEF Signal, TypeOK
  <2>4. /\ stopSet' \in [ProxyThread -> BOOLEAN]
        /\ \A t \in ProxyThread : stopSet'[t] => stage[t] \notin {"none", "new"}
    BY <1>6 DEF Signal, LoopOpen, TypeOK
  <2> QED BY <2>1, <2>2, <2>3, <2>4 DEF TypeOK
<1>7. ASSUME NEW c \in Controller, Start(c) PROVE TypeOK'
  <2>1. /\ UNCHANGED <<waits, polite, stopSet, asyncStop, held>>
        /\ pc' \in [Controller -> {"idle", "stop", "read", "signal", "join", "clear",
                                   "reading", "waiting", "stopped", "start"}]
    BY <1>7 DEF Start, GoTo, TypeOK, env
  <2>2. refused' \in BOOLEAN
    BY <1>7 DEF Start, TypeOK
  <2>3. CASE UNCHANGED <<stage, proxyThread>>
    BY <2>1, <2>2, <2>3 DEF TypeOK
  <2>4. ASSUME NEW t \in ProxyThread, stage[t] = "none",
               stage' = [stage EXCEPT ![t] = "new"], proxyThread' = t
        PROVE  TypeOK'
    <3>1. /\ stage' \in [ProxyThread -> {"none", "new", "binding", "serving", "draining",
                                         "closing", "ending", "dead"}]
          /\ \A u \in ProxyThread : stage[u] \notin {"none", "new"} => stage'[u] = stage[u]
      BY <2>4 DEF TypeOK
    <3>2. asyncStop \in ProxyThread \cup {0}
      BY DEF TypeOK
    <3> QED BY <2>1, <2>2, <2>4, <3>1, <3>2 DEF TypeOK
  <2> QED BY <1>7, <2>3, <2>4 DEF Start
<1> QED
  BY <1>1, <1>2, <1>3, <1>4, <1>5, <1>6, <1>7 DEF Next, Proxy, Control

\* Threads, events, handles and controllers are well-typed throughout.
THEOREM TrayTyped == Spec => []TypeOK
  BY TypeInit, TypeNext, PTL DEF Spec

-----------------------------------------------------------------------------
\* The handle is that of the current thread for as long as it has one.
ThreadInv ==
    /\ \A t \in ProxyThread : t # proxyThread => stage[t] \in {"none", "dead"}
    /\ \A t \in ProxyThread : stage[t] # "draining"
    /\ asyncStop # 0 => asyncStop = proxyThread
    /\ proxyThread # 0 => (asyncStop = 0 <=> stage[proxyThread] \in {"none", "new", "dead"})
    /\ proxyThread = 0 => asyncStop = 0

\* One restart is under way, of a thread that has stored its handle; behind the
\* signal the thread is told to stop, and behind the join it is dead.
RestartInv ==
    /\ \A c, d \in Controller : pc[c] # "idle" /\ pc[d] # "idle" => c = d
    /\ \A c \in Controller :
          /\ pc[c] # "idle" /\ proxyThread # 0 => stage[proxyThread] # "new"
          /\ pc[c] \in {"signal", "join", "reading", "waiting"} =>
                 held[c] = proxyThread /\ held[c] # 0
          /\ pc[c] \in {"join", "reading", "waiting"} => stopSet[held[c]]
          /\ pc[c] = "clear" => proxyThread = 0 \/ ~Alive(proxyThread)
          /\ pc[c] \in {"stopped", "start"} => proxyThread = 0

PoliteInv == polite /\ ~waits => ThreadInv /\ RestartInv

\* The invariant of polite restarts holds when there is no menu yet.
LEMMA PoliteInit == Init => PoliteInv
  BY TrayAssumption DEF Init, PoliteInv, ThreadInv, RestartInv, ProxyThread

\* Every step keeps the invariant of polite restarts.
LEMMA PoliteNext == TypeOK /\ PoliteInv /\ [Next]_vars => PoliteInv'
<1> SUFFICES ASSUME TypeOK, PoliteInv, [Next]_vars, polite', ~waits'
             PROVE  ThreadInv' /\ RestartInv'
  BY DEF PoliteInv
<1> USE TrayAssumption DEF ProxyThread
<1>1. UNCHANGED env
  BY DEF Next, vars, env, Proxy, Control, StoresHandle, Binds, StopsServing,
     LastClientLeaves, ClosesLoop, Ends, Restart, TestHandle, ReadHandle, Signal,
     TestThread, ReadThread, Join, Clear, Pause, Start
<1>2. polite /\ ~waits /\ ThreadInv /\ RestartInv
  BY <1>1 DEF env, PoliteInv
<1>3. CASE UNCHANGED vars
  BY <1>2, <1>3 DEF ThreadInv, RestartInv, Alive, vars, proxyVars
<1>4. ASSUME NEW t \in ProxyThread, Proxy(t) \/ LastClientLeaves(t)
      PROVE  ThreadInv' /\ RestartInv'
  <2>1. /\ stage[t] \notin {"none", "dead", "draining"} /\ t = proxyThread
        /\ UNCHANGED <<stopSet, proxyThread, pc, held>>
    BY <1>2, <1>4 DEF Proxy, StoresHandle, Binds, StopsServing, ClosesLoop, Ends,
       LastClientLeaves, Move, ThreadInv
  <2>2. /\ stage'[t] \notin {"none", "new", "draining"}
        /\ \A u \in ProxyThread \ {t} : stage'[u] = stage[u]
    BY <1>2, <1>4, <2>1 DEF Proxy, StoresHandle, Binds, StopsServing, ClosesLoop, Ends,
       LastClientLeaves, Move, TypeOK
  <2>3. asyncStop' = IF stage'[t] = "dead" THEN 0 ELSE t
    BY <1>2, <1>4, <2>1 DEF Proxy, StoresHandle, Binds, StopsServing, ClosesLoop, Ends,
       LastClientLeaves, Move, TypeOK, ThreadInv
  <2>4. ThreadInv'
    BY <1>2, <2>1, <2>2, <2>3 DEF ThreadInv
  <2>5. RestartInv'
    BY <1>2, <2>1, <2>2 DEF RestartInv, Alive
  <2> QED BY <2>4, <2>5
<1>5. ASSUME NEW c \in Controller, Restart(c) PROVE ThreadInv' /\ RestartInv'
  <2>1. /\ UNCHANGED <<stage, stopSet, asyncStop, proxyThread, held>>
        /\ pc'[c] = "stop" /\ \A d \in Controller \ {c} : pc'[d] = pc[d] /\ pc[d] = "idle"
        /\ proxyThread # 0 => stage[proxyThread] # "new"
    BY <1>2, <1>5 DEF Restart, GoTo, TypeOK, proxyVars
  <2> QED BY <1>2, <2>1 DEF ThreadInv, RestartInv
<1>6. ASSUME NEW c \in Controller, Control(c) PROVE ThreadInv' /\ RestartInv'
  <2>1. /\ pc[c] # "idle" /\ \A d \in Controller \ {c} : pc[d] = "idle"
        /\ \A d \in Controller \ {c} : pc'[d] = "idle"
    BY <1>2, <1>6 DEF RestartInv, Control, TestHandle, ReadHandle, Signal, TestThread,
       ReadThread, Join, Clear, Pause, Start, GoTo, TypeOK
  <2>2. CASE TestHandle(c)
    BY <1>2, <2>1, <2>2 DEF TestHandle, GoTo, TypeOK, ThreadInv, RestartInv, Alive, proxyVars
  <2>3. CASE ReadHandle(c)
    BY <1>2, <2>1, <2>3 DEF ReadHandle, GoTo, TypeOK, ThreadInv, RestartInv, proxyVars
  <2>4. CASE Signal(c)
    BY <1>2, <2>1, <2>4 DEF Signal, GoTo, TypeOK, ThreadInv, RestartInv
  <2>5. CASE TestThread(c)
    BY <1>2, <2>1, <2>5 DEF TestThread, GoTo, TypeOK, ThreadInv, RestartInv, proxyVars
  <2>6. CASE ReadThread(c)
    BY <1>2, <2>1, <2>6 DEF ReadThread, GoTo, TypeOK, ThreadInv, RestartInv, proxyVars
  <2>7. CASE Join(c)
    BY <1>2, <2>1, <2>7 DEF Join, GoTo, TypeOK, ThreadInv, RestartInv, Alive, proxyVars
  <2>8. CASE Clear(c)
    <3>1. asyncStop = 0 /\ \A t \in ProxyThread : stage[t] \in {"none", "dead"}
      BY <1>2, <2>8 DEF Clear, ThreadInv, RestartInv, Alive
    <3> QED
      BY <1>2, <2>1, <2>8, <3>1 DEF Clear, GoTo, TypeOK, ThreadInv, RestartInv, proxyVars
  <2>9. CASE Pause(c)
    BY <1>2, <2>1, <2>9 DEF Pause, GoTo, TypeOK, ThreadInv, RestartInv, proxyVars
  <2>10. CASE Start(c)
    <3>1. proxyThread = 0
      BY <1>2, <2>10 DEF Start, RestartInv
    <3>2. asyncStop' = 0 /\ pc'[c] = "idle" /\ UNCHANGED held
      BY <1>2, <2>10, <3>1 DEF Start, GoTo, TypeOK, ThreadInv
    <3>3. CASE UNCHANGED <<stage, proxyThread>>
      BY <1>2, <2>1, <3>1, <3>2, <3>3 DEF ThreadInv, RestartInv
    <3>4. ASSUME NEW t \in ProxyThread, stage' = [stage EXCEPT ![t] = "new"], proxyThread' = t
          PROVE  ThreadInv' /\ RestartInv'
      <4>1. ThreadInv'
        BY <1>2, <3>1, <3>2, <3>4 DEF TypeOK, ThreadInv
      <4>2. RestartInv'
        BY <2>1, <3>2 DEF RestartInv
      <4> QED BY <4>1, <4>2
    <3> QED BY <2>10, <3>1, <3>3, <3>4 DEF Start
  <2> QED
    BY <1>6, <2>2, <2>3, <2>4, <2>5, <2>6, <2>7, <2>8, <2>9, <2>10 DEF Control
<1> QED
  BY <1>3, <1>4, <1>5, <1>6 DEF Next

\* stop_proxy: before Python 3.12 a user who asks for one restart at a time reads
\* "Proxy stopped" only when no proxy thread takes clients any more.
THEOREM StoppedIsStopped == Spec => []StoppedMeansStopped
<1>1. PoliteInv => StoppedMeansStopped
  BY DEF PoliteInv, ThreadInv, RestartInv, StoppedMeansStopped, ProxyStopped, ProxyThread
<1>2. Init => TypeOK /\ PoliteInv
  BY TypeInit, PoliteInit
<1>3. TypeOK /\ PoliteInv /\ [Next]_vars => (TypeOK /\ PoliteInv)'
  BY TypeNext, PoliteNext
<1> QED BY <1>1, <1>2, <1>3, PTL DEF Spec

=============================================================================
