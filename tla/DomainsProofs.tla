---------------------------- MODULE DomainsProofs ----------------------------
(***************************************************************************)
(* The refresh loops of Domains, for any number of runs, any lists and any *)
(* handlers: one loop serves a run, and no thread that is late with its    *)
(* update leaves the run a list it must not use.                           *)
(***************************************************************************)
EXTENDS Domains, TLAPS

\* What the fallback may use while it chooses its domains on its own.
Usable(list) ==
    list = Default \/ (list \in Fetchable /\ Cardinality(list) >= MinValid)

Automatic == enabled /\ user = {}

Shape ==
    /\ runs \in 0 .. MaxRuns /\ current \in 0 .. runs
    /\ phase \in {"stopped", "configured", "starting", "running"}
    /\ stop \in [Run -> BOOLEAN] /\ DOMAIN loop = Run
    /\ DOMAIN update = Thread /\ DOMAIN new = Thread

\* There is a run left to start, and one that is starting has its fallback.
PhaseInv ==
    /\ phase = "configured" => runs < MaxRuns
    /\ phase = "starting" => enabled

\* The events are set in the order of the runs, each when the next replaces
\* it: every loop but the current one has been told to stop.
StopInv ==
    /\ \A r \in Run : r >= current => ~stop[r]
    /\ \A r \in Run : r # current => loop[r] = "none" \/ stop[r]

\* The current loop belongs to the run that chooses domains on its own.
CurrentInv ==
    /\ phase = "starting" /\ Automatic => current \in Run
    /\ phase = "running" /\ Automatic => current \in Run /\ loop[current] # "none"

RefreshInv == Shape /\ PhaseInv /\ StopInv /\ CurrentInv

\* The event loop updates the list only while its run starts, and a refresh
\* loop has only usable lists to bring, however late it is.
UpdateInv ==
    /\ update[0] # "idle" => phase = "starting"
    /\ update[0] \in {"comparing", "replacing"} /\ Automatic => new[0] = Default
    /\ \A r \in Run : update[r] \in {"comparing", "replacing"} => Usable(new[r])

\* Once the event loop has compared and, if need be, replaced it, the list is
\* usable.
ListInv ==
    /\ phase = "starting" /\ Automatic /\ update[0] \notin {"comparing", "replacing"} =>
           Usable(domains)
    /\ phase = "running" /\ Automatic => Usable(domains)

PoolInv == RefreshInv /\ UpdateInv /\ ListInv

-----------------------------------------------------------------------------
\* The invariant of the loops holds at the start of the process.
LEMMA RefreshInvInit == Init => RefreshInv
  BY DomainAssumption DEF Init, RefreshInv, Shape, PhaseInv, StopInv, CurrentInv,
     Automatic, Run, Thread

\* What the clients' handlers do is no concern of the loops.
LEMMA HandleKeeps ==
  ASSUME NEW h \in Handler, Handle(h)
  PROVE  UNCHANGED <<runVars, domains, loopVars, updateVars>>
  BY DEF Handle, Begin, PreferredFails, NextFails, Succeeds, GivesUp, runVars,
     balancerVars, loopVars, updateVars

\* Nor is an update of the list, whichever thread makes it.
LEMMA UpdateKeeps ==
  ASSUME NEW t \in Thread, Update(t)
  PROVE  UNCHANGED <<runVars, loopVars>>
  BY DEF Update, Compare, Replace, Choose, Store, runVars, loopVars

\* A refresh loop that takes a step was started, and is not lost by it.
LEMMA LoopStep ==
  ASSUME NEW r \in Run, DOMAIN loop = Run,
         Check(r) \/ Fetched(r) \/ Updated(r) \/ Waits(r)
  PROVE  /\ UNCHANGED <<runVars, current, stop>>
         /\ DOMAIN loop' = Run
         /\ \A q \in Run : loop'[q] = "none" <=> loop[q] = "none"
  BY DEF Check, Fetched, Updated, Waits, GoTo, runVars

\* Every step keeps the invariant of the loops.
LEMMA RefreshInvNext == RefreshInv /\ [Next]_vars => RefreshInv'
<1> SUFFICES ASSUME RefreshInv, [Next]_vars PROVE RefreshInv'
  OBVIOUS
<1> USE DomainAssumption DEF Run, Thread
<1>1. CASE UNCHANGED vars
  BY <1>1 DEF RefreshInv, Shape, PhaseInv, StopInv, CurrentInv, Automatic, vars,
     runVars, loopVars, updateVars
<1>2. ASSUME NEW list \in UserLists, NEW on \in BOOLEAN, Configure(list, on)
      PROVE  RefreshInv'
  BY <1>2 DEF Configure, RefreshInv, Shape, PhaseInv, StopInv, CurrentInv, Automatic,
     loopVars, updateVars
<1>3. CASE Start
  <2>1. CASE StartWithoutFallback
    BY <1>3, <2>1 DEF Start, StartWithoutFallback, RefreshInv, Shape, PhaseInv,
       StopInv, CurrentInv, Automatic, loopVars
  <2>2. CASE StartWithUserDomains
    BY <1>3, <2>2 DEF Start, StartWithUserDomains, Call, RefreshInv, Shape,
       PhaseInv, StopInv, CurrentInv, Automatic, loopVars
  <2>3. CASE StartCfproxyDomainRefresh
    <3>1. Shape' /\ PhaseInv'
      <4>1. stop' \in [Run -> BOOLEAN]
        BY <2>3 DEF StartCfproxyDomainRefresh, RefreshInv, Shape
      <4>2. DOMAIN update' = Thread /\ DOMAIN new' = Thread
        BY <2>3 DEF StartCfproxyDomainRefresh, Call, RefreshInv, Shape
      <4>3. runs' \in 0 .. MaxRuns /\ current' \in 0 .. runs'
        BY <1>3, <2>3 DEF Start, StartCfproxyDomainRefresh, RefreshInv, Shape, PhaseInv
      <4> QED
        BY <1>3, <2>3, <4>1, <4>2, <4>3 DEF Start, StartCfproxyDomainRefresh,
           RefreshInv, Shape, PhaseInv
    <3>2. StopInv'
      BY <1>3, <2>3 DEF Start, StartCfproxyDomainRefresh, RefreshInv, Shape,
         PhaseInv, StopInv
    <3>3. CurrentInv'
      BY <1>3, <2>3 DEF Start, StartCfproxyDomainRefresh, RefreshInv, Shape,
         PhaseInv, CurrentInv
    <3> QED BY <3>1, <3>2, <3>3 DEF RefreshInv
  <2> QED BY <1>3, <2>1, <2>2, <2>3 DEF Start
<1>4. CASE Started
  <2>1. Shape' /\ PhaseInv'
    BY <1>4 DEF Started, RefreshInv, Shape, PhaseInv, updateVars
  <2>2. StopInv'
    BY <1>4 DEF Started, RefreshInv, Shape, StopInv
  <2>3. CurrentInv'
    BY <1>4 DEF Started, RefreshInv, Shape, CurrentInv, Automatic
  <2> QED BY <2>1, <2>2, <2>3 DEF RefreshInv
<1>5. CASE Stop
  BY <1>5 DEF Stop, RefreshInv, Shape, PhaseInv, StopInv, CurrentInv, Automatic,
     loopVars, updateVars
<1>6. ASSUME NEW t \in Thread, Update(t) PROVE RefreshInv'
  <2>1. UNCHANGED <<runVars, loopVars>>
    BY <1>6, UpdateKeeps
  <2>2. DOMAIN update' = Thread /\ DOMAIN new' = Thread
    BY <1>6 DEF Update, Compare, Replace, Choose, Store, RefreshInv, Shape
  <2> QED
    BY <2>1, <2>2 DEF RefreshInv, Shape, PhaseInv, StopInv, CurrentInv, Automatic,
       runVars, loopVars
<1>7. ASSUME NEW r \in Run, Check(r) \/ Fetched(r) \/ Updated(r) \/ Waits(r)
      PROVE  RefreshInv'
  <2>1. /\ UNCHANGED <<runVars, current, stop>>
        /\ DOMAIN loop' = Run
        /\ \A q \in Run : loop'[q] = "none" <=> loop[q] = "none"
    BY <1>7, LoopStep DEF RefreshInv, Shape
  <2>2. DOMAIN update' = Thread /\ DOMAIN new' = Thread
    BY <1>7 DEF Check, Fetched, Updated, Waits, Call, updateVars, RefreshInv, Shape
  <2> QED
    BY <2>1, <2>2 DEF RefreshInv, Shape, PhaseInv, StopInv, CurrentInv, Automatic,
       runVars
<1>8. ASSUME NEW h \in Handler, Handle(h) PROVE RefreshInv'
  <2>1. UNCHANGED <<runVars, domains, loopVars, updateVars>>
    BY <1>8, HandleKeeps
  <2> QED
    BY <2>1 DEF RefreshInv, Shape, PhaseInv, StopInv, CurrentInv, Automatic,
       runVars, loopVars, updateVars
<1> QED
  BY <1>1, <1>2, <1>3, <1>4, <1>5, <1>6, <1>7, <1>8 DEF Next, Refresh

\* start_cfproxy_domain_refresh: while a run chooses domains on its own, its
\* refresh loop is the only one that has not been told to stop.
THEOREM OneLoopServes == Spec => []OneRefresher
<1>1. RefreshInv => OneRefresher
  BY DomainAssumption DEF RefreshInv, Shape, StopInv, CurrentInv, Automatic,
     OneRefresher, Run
<1> QED BY <1>1, RefreshInvInit, RefreshInvNext, PTL DEF Spec

-----------------------------------------------------------------------------
\* The invariant of the list holds at the start of the process.
LEMMA PoolInvInit == Init => PoolInv
<1> SUFFICES ASSUME Init PROVE PoolInv
  OBVIOUS
<1>1. RefreshInv
  BY RefreshInvInit
<1>2. UpdateInv /\ ListInv
  BY DomainAssumption DEF Init, UpdateInv, ListInv, Run, Thread
<1> QED BY <1>1, <1>2 DEF PoolInv

\* Every step keeps the invariant of the list.
LEMMA PoolInvNext == PoolInv /\ [Next]_vars => PoolInv'
<1> SUFFICES ASSUME PoolInv, [Next]_vars PROVE PoolInv'
  OBVIOUS
<1> USE DomainAssumption DEF Run, Thread
<1> RefreshInv /\ RefreshInv'
  BY RefreshInvNext DEF PoolInv
<1> SUFFICES UpdateInv' /\ ListInv'
  BY DEF PoolInv
<1>1. CASE UNCHANGED vars
  BY <1>1 DEF PoolInv, UpdateInv, ListInv, Automatic, Usable, vars, runVars,
     balancerVars, updateVars
<1>2. ASSUME NEW list \in UserLists, NEW on \in BOOLEAN, Configure(list, on)
      PROVE  UpdateInv' /\ ListInv'
  BY <1>2 DEF Configure, PoolInv, UpdateInv, ListInv, Usable, updateVars, balancerVars
<1>3. CASE Start
  <2>1. CASE StartWithoutFallback
    BY <1>3, <2>1 DEF Start, StartWithoutFallback, PoolInv, UpdateInv, ListInv,
       Automatic, Usable, balancerVars
  <2>2. ASSUME NEW list, Call(0, list), phase' = "starting",
               user = {} => list = Default
        PROVE  UpdateInv' /\ ListInv'
    <3>1. update'[0] = "comparing" /\ new'[0] = list
      BY <2>2 DEF Call, RefreshInv, Shape
    <3>2. \A r \in Run : update'[r] = update[r] /\ new'[r] = new[r]
      BY <2>2 DEF Call, RefreshInv, Shape
    <3> QED
      BY <1>3, <2>2, <3>1, <3>2 DEF Start, PoolInv, UpdateInv, ListInv, Automatic,
         Usable, balancerVars
  <2> QED
    BY <1>3, <2>1, <2>2 DEF Start, StartWithUserDomains, StartCfproxyDomainRefresh
<1>4. CASE Started
  BY <1>4 DEF Started, PoolInv, UpdateInv, ListInv, Automatic, Usable, updateVars,
     balancerVars
<1>5. CASE Stop
  BY <1>5 DEF Stop, PoolInv, UpdateInv, ListInv, Usable, updateVars, balancerVars
<1>6. ASSUME NEW t \in Thread, Compare(t) \/ Replace(t) PROVE UpdateInv' /\ ListInv'
  <2>1. /\ update[t] \in {"comparing", "replacing"}
        /\ \A s \in Thread : s # t => update'[s] = update[s]
        /\ UNCHANGED <<runVars, new>>
    BY <1>6 DEF Compare, Replace, RefreshInv, Shape
  <2>2. \/ update'[t] = "replacing" /\ domains' = domains
        \/ update'[t] \in {"idle", "choosing"} /\ domains' = new[t]
    BY <1>6 DEF Compare, Replace, RefreshInv, Shape, balancerVars
  <2>3. UpdateInv'
    BY <2>1, <2>2 DEF PoolInv, UpdateInv, Automatic, Usable, runVars
  <2>4. CASE domains' = domains /\ update'[t] = "replacing"
    BY <2>1, <2>4 DEF PoolInv, ListInv, Automatic, Usable, runVars, UpdateInv
  <2>5. CASE domains' = new[t] /\ t = 0
    BY <2>1, <2>5 DEF PoolInv, UpdateInv, ListInv, Automatic, Usable, runVars
  <2>6. CASE domains' = new[t] /\ t # 0
    BY <2>1, <2>6 DEF PoolInv, UpdateInv, ListInv, Automatic, Usable, runVars
  <2> QED BY <2>2, <2>3, <2>4, <2>5, <2>6
<1>7. ASSUME NEW t \in Thread, Choose(t) \/ Store(t) PROVE UpdateInv' /\ ListInv'
  <2>1. /\ update[t] \in {"choosing", "storing"} /\ update'[t] \in {"idle", "storing"}
        /\ \A s \in Thread : s # t => update'[s] = update[s]
        /\ UNCHANGED <<runVars, new, domains>>
    BY <1>7 DEF Choose, Store, RefreshInv, Shape, balancerVars
  <2> QED
    BY <2>1 DEF PoolInv, UpdateInv, ListInv, Automatic, Usable, runVars
<1>8. ASSUME NEW r \in Run, Check(r) \/ Updated(r) \/ Waits(r)
      PROVE  UpdateInv' /\ ListInv'
  BY <1>8 DEF Check, Updated, Waits, PoolInv, UpdateInv, ListInv, Automatic, Usable,
     runVars, balancerVars, updateVars
<1>9. ASSUME NEW r \in Run, Fetched(r) PROVE UpdateInv' /\ ListInv'
  <2>1. UNCHANGED <<runVars, domains>>
    BY <1>9 DEF Fetched, balancerVars
  <2>2. CASE UNCHANGED <<update, new>>
    BY <2>1, <2>2 DEF PoolInv, UpdateInv, ListInv, Automatic, Usable, runVars
  <2>3. ASSUME NEW pool \in Fetchable, Cardinality(pool) >= MinValid, Call(r, pool)
        PROVE  UpdateInv' /\ ListInv'
    <3>1. /\ new'[r] = pool
          /\ \A s \in Thread : s # r => update'[s] = update[s] /\ new'[s] = new[s]
      BY <2>3 DEF Call, RefreshInv, Shape
    <3> QED
      BY <2>1, <2>3, <3>1 DEF PoolInv, UpdateInv, ListInv, Automatic, Usable, runVars
  <2> QED BY <1>9, <2>2, <2>3 DEF Fetched
<1>10. ASSUME NEW h \in Handler, Handle(h) PROVE UpdateInv' /\ ListInv'
  <2>1. UNCHANGED <<runVars, domains, loopVars, updateVars>>
    BY <1>10, HandleKeeps
  <2> QED
    BY <2>1 DEF PoolInv, UpdateInv, ListInv, Automatic, Usable, runVars, updateVars
<1> QED
  BY <1>1, <1>2, <1>3, <1>4, <1>5, <1>6, <1>7, <1>8, <1>9, <1>10
  DEF Next, Refresh, Update

\* update_domains_list: while a run chooses domains on its own, the list is
\* the built-in one or a fetched one that is long enough, however late the
\* threads of earlier runs are with theirs.
THEOREM ListIsUsable == Spec => []PoolUsable
<1>1. PoolInv => PoolUsable
  BY DEF PoolInv, ListInv, Automatic, Usable, PoolUsable
<1> QED BY <1>1, PoolInvInit, PoolInvNext, PTL DEF Spec

-----------------------------------------------------------------------------
\* The types hold at the start of the process.
LEMMA TypeInit == Init => TypeOK
<1> SUFFICES ASSUME Init PROVE TypeOK
  OBVIOUS
<1>1. runs \in Thread /\ current \in 0 .. runs /\ enabled \in BOOLEAN
  BY DomainAssumption DEF Init, Thread
<1>2. tries \in [Handler -> Seq(Domain)]
  BY DEF Init
<1> QED BY <1>1, <1>2, DomainAssumption DEF Init, TypeOK

\* Where a list comes from, its members are domains.
LEMMA ListsAreDomains ==
    /\ Default \subseteq Domain
    /\ \A list \in UserLists : list \subseteq Domain
    /\ \A pool \in Fetchable : pool \subseteq Domain
<1>1. Default \subseteq Domain
  BY DEF Domain
<1>2. ASSUME NEW list \in UserLists PROVE list \subseteq Domain
  BY DEF Domain
<1>3. ASSUME NEW pool \in Fetchable PROVE pool \subseteq Domain
  BY DEF Domain
<1> QED BY <1>1, <1>2, <1>3

\* The generator yields a domain and keeps the types.
LEMMA YieldTypes ==
  ASSUME TypeOK, NEW h \in Handler, NEW rest \in SUBSET Domain,
         NEW at \in {"preferred", "rest"}, Yield(h, rest, at)
  PROVE  /\ it' \in [Handler -> {"idle", "preferred", "rest", "over"}]
         /\ trying' \in [Handler -> Domain \cup {None}]
         /\ left' \in [Handler -> SUBSET Domain]
         /\ tries' \in [Handler -> Seq(Domain)]
<1>1. ASSUME NEW d \in rest, tries' = [tries EXCEPT ![h] = Append(@, d)]
      PROVE  tries' \in [Handler -> Seq(Domain)]
  <2>1. tries[h] \in Seq(Domain) /\ d \in Domain
    BY DEF TypeOK
  <2>2. Append(tries[h], d) \in Seq(Domain)
    BY <2>1
  <2> QED BY <1>1, <2>2 DEF TypeOK
<1>2. tries' \in [Handler -> Seq(Domain)]
  BY <1>1 DEF Yield, TypeOK
<1>3. trying' \in [Handler -> Domain \cup {None}]
  BY DEF Yield, TypeOK
<1>4. left' \in [Handler -> SUBSET Domain]
  <2>1. \E part \in SUBSET rest : left' = [left EXCEPT ![h] = part]
    BY DEF Yield
  <2> QED BY <2>1 DEF TypeOK
<1>5. it' \in [Handler -> {"idle", "preferred", "rest", "over"}]
  BY DEF Yield, TypeOK
<1> QED BY <1>2, <1>3, <1>4, <1>5

\* A handler that is done keeps the types.
LEMMA ForgetTypes ==
  ASSUME TypeOK, NEW h \in Handler, Forget(h)
  PROVE  /\ it' \in [Handler -> {"idle", "preferred", "rest", "over"}]
         /\ trying' \in [Handler -> Domain \cup {None}]
         /\ left' \in [Handler -> SUBSET Domain]
         /\ tries' \in [Handler -> Seq(Domain)]
         /\ listed' \in [Handler -> SUBSET Domain]
  BY DEF Forget, TypeOK

\* Every step keeps the types, given the invariant of the loops: it bounds the
\* number of runs.
LEMMA TypeNext == TypeOK /\ RefreshInv /\ [Next]_vars => TypeOK'
<1> SUFFICES ASSUME TypeOK, RefreshInv, [Next]_vars PROVE TypeOK'
  OBVIOUS
<1> USE DomainAssumption
<1>1. CASE UNCHANGED vars
  BY <1>1 DEF TypeOK, vars, runVars, balancerVars, loopVars, updateVars, handlerVars
<1>2. ASSUME NEW list \in UserLists, NEW on \in BOOLEAN, Configure(list, on)
      PROVE  TypeOK'
  BY <1>2 DEF Configure, TypeOK, balancerVars, loopVars, updateVars, handlerVars
<1>3. CASE Start
  <2>1. runs' \in Thread /\ current' \in 0 .. runs' /\ stop' \in [Run -> BOOLEAN]
    <3>1. runs' = runs + 1 /\ runs < MaxRuns
      BY <1>3 DEF Start, RefreshInv, PhaseInv
    <3>2. current' \in {current, runs + 1}
      BY <1>3 DEF Start, StartWithoutFallback, StartWithUserDomains,
         StartCfproxyDomainRefresh, loopVars
    <3>3. stop' \in [Run -> BOOLEAN]
      BY <1>3 DEF Start, StartWithoutFallback, StartWithUserDomains,
         StartCfproxyDomainRefresh, loopVars, TypeOK
    <3> QED BY <3>1, <3>2, <3>3 DEF TypeOK, Thread
  <2>2. /\ update' \in [Thread -> {"idle", "comparing", "replacing", "choosing", "storing"}]
        /\ new' \in [Thread -> SUBSET Domain]
    BY <1>3, ListsAreDomains DEF Start, StartWithoutFallback, StartWithUserDomains,
       StartCfproxyDomainRefresh, Call, TypeOK
  <2>3. phase' \in {"starting", "running"} /\ loop' = loop
    BY <1>3 DEF Start, StartWithoutFallback, StartWithUserDomains,
       StartCfproxyDomainRefresh, loopVars
  <2> QED
    BY <1>3, <2>1, <2>2, <2>3 DEF Start, TypeOK, balancerVars, handlerVars
<1>4. CASE Started
  <2>1. loop' \in [Run -> {"none", "checking", "fetching", "updating", "waiting", "gone"}]
    BY <1>4 DEF Started, TypeOK
  <2> QED BY <1>4, <2>1 DEF Started, TypeOK, balancerVars, updateVars, handlerVars
<1>5. CASE Stop
  <2>1. tries' \in [Handler -> Seq(Domain)]
    BY <1>5 DEF Stop
  <2> QED BY <1>5, <2>1 DEF Stop, TypeOK, balancerVars, loopVars, updateVars
<1>6. ASSUME NEW t \in Thread, Compare(t) \/ Replace(t) PROVE TypeOK'
  <2>1. CASE Compare(t)
    BY <2>1 DEF Compare, TypeOK, runVars, balancerVars, loopVars, handlerVars
  <2>2. CASE Replace(t)
    <3>1. domains' \subseteq Domain /\ listed' \in [Handler -> SUBSET Domain]
      BY <2>2 DEF Replace, TypeOK
    <3> QED BY <2>2, <3>1 DEF Replace, TypeOK, runVars, loopVars
  <2> QED BY <1>6, <2>1, <2>2
<1>7. ASSUME NEW t \in Thread, Choose(t) PROVE TypeOK'
  BY <1>7 DEF Choose, TypeOK, runVars, balancerVars, loopVars, handlerVars
<1>8. ASSUME NEW t \in Thread, Store(t) PROVE TypeOK'
  BY <1>8 DEF Store, TypeOK, runVars, loopVars, handlerVars
<1>9. ASSUME NEW r \in Run, Check(r) \/ Updated(r) \/ Waits(r) PROVE TypeOK'
  BY <1>9 DEF Check, Updated, Waits, GoTo, TypeOK, runVars, balancerVars, updateVars,
     handlerVars
<1>10. ASSUME NEW r \in Run, Fetched(r) PROVE TypeOK'
  <2>1. /\ update' \in [Thread -> {"idle", "comparing", "replacing", "choosing", "storing"}]
        /\ new' \in [Thread -> SUBSET Domain]
    <3>1. CASE UNCHANGED <<update, new>>
      BY <3>1 DEF TypeOK
    <3>2. ASSUME NEW pool \in Fetchable, Call(r, pool)
          PROVE  /\ update' \in [Thread -> {"idle", "comparing", "replacing", "choosing",
                                            "storing"}]
                 /\ new' \in [Thread -> SUBSET Domain]
      BY <3>2, ListsAreDomains DEF Call, TypeOK
    <3> QED BY <1>10, <3>1, <3>2 DEF Fetched
  <2>2. loop' \in [Run -> {"none", "checking", "fetching", "updating", "waiting", "gone"}]
    BY <1>10 DEF Fetched, GoTo, TypeOK
  <2> QED
    BY <1>10, <2>1, <2>2 DEF Fetched, TypeOK, runVars, balancerVars, handlerVars
<1>11. ASSUME NEW h \in Handler, Begin(h) PROVE TypeOK'
  <2>1. {preferred} \subseteq Domain \/ preferred = None
    BY DEF TypeOK
  <2>2. \E rest \in SUBSET Domain, at \in {"preferred", "rest"} : Yield(h, rest, at)
    BY <1>11, <2>1 DEF Begin, TypeOK
  <2>3. /\ it' \in [Handler -> {"idle", "preferred", "rest", "over"}]
        /\ trying' \in [Handler -> Domain \cup {None}]
        /\ left' \in [Handler -> SUBSET Domain]
        /\ tries' \in [Handler -> Seq(Domain)]
    BY <2>2, YieldTypes
  <2>4. listed' \in [Handler -> SUBSET Domain]
    BY <1>11 DEF Begin, TypeOK
  <2> QED
    BY <1>11, <2>3, <2>4 DEF Begin, TypeOK, runVars, balancerVars, loopVars, updateVars
<1>12. ASSUME NEW h \in Handler, PreferredFails(h) \/ NextFails(h) PROVE TypeOK'
  <2>1. \E rest \in SUBSET Domain : Yield(h, rest, "rest")
    <3>1. domains \ {trying[h]} \in SUBSET Domain /\ left[h] \in SUBSET Domain
      BY DEF TypeOK
    <3> QED BY <1>12, <3>1 DEF PreferredFails, NextFails
  <2>2. /\ it' \in [Handler -> {"idle", "preferred", "rest", "over"}]
        /\ trying' \in [Handler -> Domain \cup {None}]
        /\ left' \in [Handler -> SUBSET Domain]
        /\ tries' \in [Handler -> Seq(Domain)]
    BY <2>1, YieldTypes
  <2> QED
    BY <1>12, <2>2 DEF PreferredFails, NextFails, TypeOK, runVars, balancerVars,
       loopVars, updateVars
<1>13. ASSUME NEW h \in Handler, Succeeds(h) \/ GivesUp(h) PROVE TypeOK'
  <2>1. Forget(h) /\ preferred' \in Domain \cup {None}
    BY <1>13 DEF Succeeds, GivesUp, TypeOK, balancerVars
  <2> QED
    BY <1>13, <2>1, ForgetTypes DEF Succeeds, GivesUp, TypeOK, runVars, balancerVars,
       loopVars, updateVars
<1> QED
  BY <1>1, <1>2, <1>3, <1>4, <1>5, <1>6, <1>7, <1>8, <1>9, <1>10, <1>11, <1>12, <1>13
  DEF Next, Refresh, Handle, Update, Run, Thread

\* Runs, threads, lists and the handlers' iterations are well-typed throughout.
THEOREM DomainsTyped == Spec => []TypeOK
<1>1. TypeOK /\ RefreshInv /\ [Next]_vars => (TypeOK /\ RefreshInv)'
  BY TypeNext, RefreshInvNext
<1> QED BY <1>1, TypeInit, RefreshInvInit, PTL DEF Spec

-----------------------------------------------------------------------------
\* What a handler knows of its generator: what it has tried, what is left of
\* its copy, and that between the two nothing is lost that was listed all the
\* while.  Before the copy is taken all of that is still in the list.
GeneratorInv ==
    \A h \in Handler :
        /\ IsInjective(tries[h])
        /\ it[h] = "idle" => tries[h] = <<>>
        /\ it[h] = "preferred" => Range(tries[h]) = {trying[h]} /\ listed[h] \subseteq domains
        /\ it[h] = "rest" =>
              /\ left[h] \cap Range(tries[h]) = {}
              /\ listed[h] \subseteq Range(tries[h]) \cup left[h]
        /\ it[h] = "over" => listed[h] \subseteq Range(tries[h])

-----------------------------------------------------------------------------
\* Appending what is not there keeps a sequence free of repetitions.
LEMMA AppendUnrepeated ==
  ASSUME NEW s \in Seq(Domain), NEW d \in Domain, IsInjective(s), d \notin Range(s)
  PROVE  /\ IsInjective(Append(s, d))
         /\ Range(Append(s, d)) = Range(s) \cup {d}
<1>1. PICK t : t = Append(s, d)
  OBVIOUS
<1>2. /\ Len(s) \in Nat /\ DOMAIN s = 1 .. Len(s)
      /\ DOMAIN t = 1 .. Len(s) + 1 /\ t[Len(s) + 1] = d
      /\ \A i \in 1 .. Len(s) : t[i] = s[i]
  BY <1>1
<1>3. \A i \in DOMAIN s : s[i] # d
  BY DEF Range
<1>4. IsInjective(t)
  BY <1>2, <1>3 DEF IsInjective
<1>5. Range(t) = Range(s) \cup {d}
  BY <1>2 DEF Range
<1> QED BY <1>1, <1>4, <1>5

\* The empty sequence has no members.
LEMMA NothingTried == IsInjective(<<>>) /\ Range(<<>>) = {}
  BY DEF IsInjective, Range

\* The generator yields what has not been tried, and loses nothing of the rest.
LEMMA YieldStep ==
  ASSUME TypeOK, NEW h \in Handler, NEW rest \in SUBSET Domain, NEW at, Yield(h, rest, at),
         IsInjective(tries[h]), rest \cap Range(tries[h]) = {}
  PROVE  /\ IsInjective(tries'[h])
         /\ \/ /\ it'[h] = at /\ left'[h] \cap Range(tries'[h]) = {}
               /\ Range(tries'[h]) = Range(tries[h]) \cup {trying'[h]}
               /\ left'[h] = rest \ {trying'[h]}
            \/ it'[h] = "over" /\ rest = {} /\ tries'[h] = tries[h]
         /\ \A k \in Handler \ {h} :
               /\ it'[k] = it[k] /\ trying'[k] = trying[k]
               /\ left'[k] = left[k] /\ tries'[k] = tries[k]
<1>1. ASSUME NEW d \in rest,
             trying' = [trying EXCEPT ![h] = d],
             tries' = [tries EXCEPT ![h] = Append(@, d)],
             left' = [left EXCEPT ![h] = rest \ {d}],
             it' = [it EXCEPT ![h] = at]
      PROVE  /\ IsInjective(tries'[h])
             /\ it'[h] = at /\ left'[h] \cap Range(tries'[h]) = {}
             /\ Range(tries'[h]) = Range(tries[h]) \cup {trying'[h]}
             /\ left'[h] = rest \ {trying'[h]}
  <2>1. tries[h] \in Seq(Domain) /\ d \in Domain /\ d \notin Range(tries[h])
    BY DEF TypeOK
  <2>2. /\ tries'[h] = Append(tries[h], d) /\ trying'[h] = d
        /\ left'[h] = rest \ {d} /\ it'[h] = at
    BY <1>1 DEF TypeOK
  <2>3. /\ IsInjective(Append(tries[h], d))
        /\ Range(Append(tries[h], d)) = Range(tries[h]) \cup {d}
    BY <2>1, AppendUnrepeated
  <2> QED BY <2>2, <2>3
<1>2. \A k \in Handler \ {h} :
         /\ it'[k] = it[k] /\ trying'[k] = trying[k]
         /\ left'[k] = left[k] /\ tries'[k] = tries[k]
  BY DEF Yield, TypeOK
<1>3. ASSUME rest = {}, it' = [it EXCEPT ![h] = "over"], tries' = tries
      PROVE  it'[h] = "over" /\ IsInjective(tries'[h])
  BY <1>3 DEF TypeOK
<1> QED BY <1>1, <1>2, <1>3 DEF Yield

\* The invariant of the generators holds at the start of the process.
LEMMA GeneratorInvInit == Init => GeneratorInv
  BY NothingTried DEF Init, GeneratorInv

\* A handler that is done starts over.
LEMMA ForgetKeeps ==
  ASSUME TypeOK, GeneratorInv, NEW h \in Handler, Forget(h), domains' = domains
  PROVE  GeneratorInv'
<1>1. it'[h] = "idle" /\ tries'[h] = <<>>
  BY DEF Forget, TypeOK
<1>2. \A k \in Handler \ {h} :
         /\ it'[k] = it[k] /\ trying'[k] = trying[k] /\ left'[k] = left[k]
         /\ tries'[k] = tries[k] /\ listed'[k] = listed[k]
  BY DEF Forget, TypeOK
<1> QED BY <1>1, <1>2, NothingTried DEF GeneratorInv

\* Every step keeps the invariant of the generators.
LEMMA GeneratorInvNext == TypeOK /\ GeneratorInv /\ [Next]_vars => GeneratorInv'
<1> SUFFICES ASSUME TypeOK, GeneratorInv, [Next]_vars PROVE GeneratorInv'
  OBVIOUS
<1>1. CASE UNCHANGED <<domains, handlerVars>>
  BY <1>1 DEF GeneratorInv, handlerVars
<1>2. CASE Stop
  BY <1>2, NothingTried DEF Stop, GeneratorInv
<1>3. ASSUME NEW t \in Thread, Replace(t) PROVE GeneratorInv'
  <2>1. /\ UNCHANGED <<it, trying, left, tries>>
        /\ \A h \in Handler : listed'[h] \subseteq listed[h]
        /\ \A h \in Handler : listed[h] \subseteq domains => listed'[h] \subseteq domains'
    BY <1>3 DEF Replace, TypeOK
  <2> QED BY <2>1 DEF GeneratorInv
<1>4. ASSUME NEW h \in Handler, Begin(h) PROVE GeneratorInv'
  <2>1. it[h] = "idle" /\ domains' = domains /\ listed' = [listed EXCEPT ![h] = domains]
    BY <1>4 DEF Begin, balancerVars
  <2>2. tries[h] = <<>> /\ Range(tries[h]) = {} /\ IsInjective(tries[h])
    BY <2>1, NothingTried DEF GeneratorInv
  <2>3. listed'[h] = domains /\ \A k \in Handler \ {h} : listed'[k] = listed[k]
    BY <2>1 DEF TypeOK
  <2>4. CASE preferred # None /\ Yield(h, {preferred}, "preferred")
    <3>1. {preferred} \in SUBSET Domain /\ {preferred} \cap Range(tries[h]) = {}
      BY <2>2, <2>4 DEF TypeOK
    <3>2. /\ IsInjective(tries'[h])
          /\ \/ /\ it'[h] = "preferred"
                /\ Range(tries'[h]) = Range(tries[h]) \cup {trying'[h]}
             \/ it'[h] = "over" /\ {preferred} = {}
          /\ \A k \in Handler \ {h} :
               /\ it'[k] = it[k] /\ trying'[k] = trying[k]
               /\ left'[k] = left[k] /\ tries'[k] = tries[k]
      BY <2>2, <2>4, <3>1, YieldStep
    <3>3. it'[h] = "preferred" /\ Range(tries'[h]) = {trying'[h]}
      BY <2>2, <3>2
    <3> QED BY <2>1, <2>3, <3>2, <3>3 DEF GeneratorInv
  <2>5. CASE Yield(h, domains, "rest")
    <3>1. domains \in SUBSET Domain /\ domains \cap Range(tries[h]) = {}
      BY <2>2 DEF TypeOK
    <3>2. /\ IsInjective(tries'[h])
          /\ \/ /\ it'[h] = "rest" /\ left'[h] \cap Range(tries'[h]) = {}
                /\ Range(tries'[h]) = Range(tries[h]) \cup {trying'[h]}
                /\ left'[h] = domains \ {trying'[h]}
             \/ it'[h] = "over" /\ domains = {} /\ tries'[h] = tries[h]
          /\ \A k \in Handler \ {h} :
               /\ it'[k] = it[k] /\ trying'[k] = trying[k]
               /\ left'[k] = left[k] /\ tries'[k] = tries[k]
      BY <2>2, <2>5, <3>1, YieldStep
    <3> QED BY <2>1, <2>3, <3>2 DEF GeneratorInv
  <2> QED BY <1>4, <2>4, <2>5 DEF Begin
<1>5. ASSUME NEW h \in Handler, NEW rest \in SUBSET Domain, Yield(h, rest, "rest"),
             it[h] \in {"preferred", "rest"}, UNCHANGED <<domains, listed>>,
             rest \cap Range(tries[h]) = {},
             listed[h] \subseteq Range(tries[h]) \cup rest
      PROVE  GeneratorInv'
  <2>1. IsInjective(tries[h])
    BY DEF GeneratorInv
  <2>2. /\ IsInjective(tries'[h])
        /\ \/ /\ it'[h] = "rest" /\ left'[h] \cap Range(tries'[h]) = {}
              /\ Range(tries'[h]) = Range(tries[h]) \cup {trying'[h]}
              /\ left'[h] = rest \ {trying'[h]}
           \/ it'[h] = "over" /\ rest = {} /\ tries'[h] = tries[h]
        /\ \A k \in Handler \ {h} :
             /\ it'[k] = it[k] /\ trying'[k] = trying[k]
             /\ left'[k] = left[k] /\ tries'[k] = tries[k]
    BY <1>5, <2>1, YieldStep
  <2> QED BY <1>5, <2>2 DEF GeneratorInv
<1>6. ASSUME NEW h \in Handler, PreferredFails(h) PROVE GeneratorInv'
  <2>1. domains \ {trying[h]} \in SUBSET Domain
    BY DEF TypeOK
  <2>2. /\ it[h] = "preferred" /\ Yield(h, domains \ {trying[h]}, "rest")
        /\ UNCHANGED <<domains, listed>>
    BY <1>6 DEF PreferredFails, balancerVars
  <2>3. Range(tries[h]) = {trying[h]} /\ listed[h] \subseteq domains
    BY <2>2 DEF GeneratorInv
  <2> QED BY <1>5, <2>1, <2>2, <2>3
<1>7. ASSUME NEW h \in Handler, NextFails(h) PROVE GeneratorInv'
  <2>1. left[h] \in SUBSET Domain
    BY DEF TypeOK
  <2>2. it[h] = "rest" /\ Yield(h, left[h], "rest") /\ UNCHANGED <<domains, listed>>
    BY <1>7 DEF NextFails, balancerVars
  <2>3. /\ left[h] \cap Range(tries[h]) = {}
        /\ listed[h] \subseteq Range(tries[h]) \cup left[h]
    BY <2>2 DEF GeneratorInv
  <2> QED BY <1>5, <2>1, <2>2, <2>3
<1>8. ASSUME NEW h \in Handler, Succeeds(h) \/ GivesUp(h) PROVE GeneratorInv'
  BY <1>8, ForgetKeeps DEF Succeeds, GivesUp, balancerVars
<1>9. ASSUME ~UNCHANGED <<domains, handlerVars>> PROVE
        \/ Stop \/ (\E t \in Thread : Replace(t))
        \/ \E h \in Handler : Handle(h)
  BY <1>9, DomainAssumption DEF Next, Refresh, Update, Configure, Start, Started,
     Compare, Choose, Store, Check, Fetched, Updated, Waits, vars, balancerVars, Run, Thread
<1> QED
  BY <1>1, <1>2, <1>3, <1>4, <1>6, <1>7, <1>8, <1>9 DEF Handle

\* get_domains_for_dc in _cfproxy_fallback: a handler connects to no domain
\* twice, and one that gives up has connected to every domain that was listed
\* all the while, whatever the others did to the list and the preferred domain.
THEOREM ListIsTried == Spec => []EachListedTriedOnce
<1>1. GeneratorInv => EachListedTriedOnce
  BY DEF GeneratorInv, EachListedTriedOnce
<1> DEFINE Inv == TypeOK /\ RefreshInv /\ GeneratorInv
<1>2. Init => Inv
  BY TypeInit, RefreshInvInit, GeneratorInvInit
<1>3. Inv /\ [Next]_vars => Inv'
  BY TypeNext, RefreshInvNext, GeneratorInvNext
<1>4. Inv => EachListedTriedOnce
  BY <1>1
<1> HIDE DEF Inv
<1> QED BY <1>2, <1>3, <1>4, PTL DEF Spec

=============================================================================
