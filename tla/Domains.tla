------------------------------- MODULE Domains -------------------------------
(***************************************************************************)
(* The domains the Cloudflare fallback connects through: the balancer of   *)
(* proxy/balancer.py, its refresh threads (proxy/config.py), the part of   *)
(* _run that sets it up, and handlers that go through it in                *)
(* _cfproxy_fallback.                                                      *)
(*                                                                         *)
(* Three kinds of threads share the balancer without a lock: the thread    *)
(* that applies a configuration and starts a run, the event loop of the    *)
(* run, and one refresh loop for each run that chose domains on its own.   *)
(* Only single assignments are atomic.  A list of domains is the set of    *)
(* its members: they are compared as bags and used in random order.  The   *)
(* preferred domain is kept for one data centre.  Thread 0 is the event    *)
(* loop of the current run, thread r > 0 the refresh loop run r started.   *)
(***************************************************************************)
EXTENDS Integers, FiniteSets, Sequences, SequencesExt

CONSTANTS Default,     \* CFPROXY_DEFAULT_DOMAINS
          UserLists,   \* the lists users configure; {} is the automatic choice
          Fetchable,   \* the valid parts of the payloads a fetch can return
          MinValid,    \* _CFPROXY_MIN_VALID_DOMAINS
          Handler,     \* clients that reach the Cloudflare fallback
          MaxRuns,     \* bound: runs of the proxy in one process
          None

Domain == Default \cup (UNION UserLists) \cup (UNION Fetchable)

ASSUME DomainAssumption ==
    /\ IsFiniteSet(Domain) /\ Default # {} /\ {} \in UserLists
    /\ MinValid \in Nat \ {0} /\ MaxRuns \in Nat /\ None \notin Domain

Run == 1 .. MaxRuns
Thread == 0 .. MaxRuns

VARIABLES
    phase,      \* "stopped", "configured", "starting", "running"
    runs,       \* runs started so far
    enabled,    \* proxy_config.fallback_cfproxy
    user,       \* proxy_config.cfproxy_user_domains
    domains,    \* balancer.domains
    preferred,  \* balancer._dc_to_domain[dc]
    current,    \* the run whose event _refresh_stop is, 0 before the first
    stop,       \* stop[r]: that event is set
    loop,       \* where refresh loop r stands
    update,     \* update[t]: where thread t stands in update_domains_list
    new,        \* new[t]: the list it was given
    pick,       \* pick[t]: the domain it has chosen and not yet stored
    it,         \* it[h]: what the generator of handler h stands behind
    trying,     \* trying[h]: the domain h connects to
    left,       \* left[h]: what remains of its copy of the list
    tries,      \* tries[h]: the domains it has connected to, in order
    listed      \* history: the domains that were listed ever since h began

runVars == <<phase, runs, enabled, user>>
balancerVars == <<domains, preferred>>
loopVars == <<current, stop, loop>>
updateVars == <<update, new, pick>>
handlerVars == <<it, trying, left, tries, listed>>
vars == <<runVars, balancerVars, loopVars, updateVars, handlerVars>>

TypeOK ==
    /\ phase \in {"stopped", "configured", "starting", "running"}
    /\ runs \in Thread /\ enabled \in BOOLEAN /\ user \in UserLists
    /\ domains \subseteq Domain /\ preferred \in Domain \cup {None}
    /\ current \in 0 .. runs /\ stop \in [Run -> BOOLEAN]
    /\ loop \in [Run -> {"none", "checking", "fetching", "updating", "waiting", "gone"}]
    /\ update \in [Thread -> {"idle", "comparing", "replacing", "choosing", "storing"}]
    /\ new \in [Thread -> SUBSET Domain] /\ pick \in [Thread -> Domain \cup {None}]
    /\ it \in [Handler -> {"idle", "preferred", "rest", "over"}]
    /\ trying \in [Handler -> Domain \cup {None}]
    /\ left \in [Handler -> SUBSET Domain]
    /\ tries \in [Handler -> Seq(Domain)] /\ listed \in [Handler -> SUBSET Domain]

Init ==
    /\ phase = "stopped" /\ runs = 0 /\ enabled = TRUE /\ user = {}
    /\ domains = {} /\ preferred = None
    /\ current = 0 /\ stop = [r \in Run |-> FALSE] /\ loop = [r \in Run |-> "none"]
    /\ update = [t \in Thread |-> "idle"] /\ new = [t \in Thread |-> {}]
    /\ pick = [t \in Thread |-> None]
    /\ it = [h \in Handler |-> "idle"] /\ trying = [h \in Handler |-> None]
    /\ left = [h \in Handler |-> {}] /\ tries = [h \in Handler |-> <<>>]
    /\ listed = [h \in Handler |-> {}]

-----------------------------------------------------------------------------
(* update_domains_list, in the thread that calls it.                       *)

Call(t, list) ==
    /\ update' = [update EXCEPT ![t] = "comparing"]
    /\ new' = [new EXCEPT ![t] = list]

\* The same list again changes nothing.
Compare(t) ==
    /\ update[t] = "comparing"
    /\ update' = [update EXCEPT ![t] = IF domains = new[t] THEN "idle" ELSE "replacing"]
    /\ UNCHANGED <<runVars, balancerVars, loopVars, new, pick, handlerVars>>

\* Else the list is replaced first, even if another thread has done so by now.
Replace(t) ==
    /\ update[t] = "replacing"
    /\ domains' = new[t]
    /\ listed' = [h \in Handler |-> listed[h] \cap new[t]]
    /\ update' = [update EXCEPT ![t] = "choosing"]
    /\ UNCHANGED <<runVars, preferred, loopVars, new, pick, it, trying, left, tries>>

\* random.choice(self.domains): of the list as it is by now.
Choose(t) ==
    /\ update[t] = "choosing"
    /\ \E d \in domains : pick' = [pick EXCEPT ![t] = d]
    /\ update' = [update EXCEPT ![t] = "storing"]
    /\ UNCHANGED <<runVars, balancerVars, loopVars, new, handlerVars>>

Store(t) ==
    /\ update[t] = "storing"
    /\ preferred' = pick[t]
    /\ pick' = [pick EXCEPT ![t] = None]
    /\ update' = [update EXCEPT ![t] = "idle"]
    /\ UNCHANGED <<runVars, domains, loopVars, new, handlerVars>>

-----------------------------------------------------------------------------
(* A run: apply_proxy_config, the head of _run, its end.                   *)

Configure(list, on) ==
    /\ phase = "stopped" /\ runs < MaxRuns
    /\ phase' = "configured" /\ user' = list /\ enabled' = on
    /\ UNCHANGED <<runs, balancerVars, loopVars, updateVars, handlerVars>>

StartWithoutFallback ==
    /\ ~enabled
    /\ phase' = "running"
    /\ UNCHANGED <<loopVars, update, new>>

StartWithUserDomains ==
    /\ enabled /\ user # {}
    /\ phase' = "starting" /\ Call(0, user)
    /\ UNCHANGED loopVars

\* Mutant: the loop of the former run is not told to stop.
RefreshUnstopped ==
    /\ enabled /\ user = {}
    /\ phase' = "starting" /\ Call(0, Default)
    /\ current' = runs + 1
    /\ UNCHANGED <<stop, loop>>

\* start_cfproxy_domain_refresh up to the start of its thread.
StartCfproxyDomainRefresh ==
    /\ enabled /\ user = {}
    /\ phase' = "starting" /\ Call(0, Default)
    /\ stop' = [r \in Run |-> IF r = current THEN TRUE ELSE stop[r]]
    /\ current' = runs + 1
    /\ UNCHANGED loop

\* Mutant: the run is counted where it ends.
StartUncounted ==
    /\ phase = "configured"
    /\ StartWithoutFallback \/ StartWithUserDomains \/ StartCfproxyDomainRefresh
    /\ UNCHANGED <<runs, enabled, user, balancerVars, pick, handlerVars>>

Start ==
    /\ phase = "configured"
    /\ runs' = runs + 1
    /\ StartWithoutFallback \/ StartWithUserDomains \/ StartCfproxyDomainRefresh
    /\ UNCHANGED <<enabled, user, balancerVars, pick, handlerVars>>

\* update_domains_list has returned: the loop thread, if any, is started.
Started ==
    /\ phase = "starting" /\ update[0] = "idle"
    /\ phase' = "running"
    /\ loop' = [r \in Run |-> IF user = {} /\ r = current THEN "checking" ELSE loop[r]]
    /\ UNCHANGED <<runs, enabled, user, balancerVars, current, stop, updateVars, handlerVars>>

\* The event loop is closed over its handlers: they take no step any more.
Stop ==
    /\ phase = "running"
    /\ phase' = "stopped"
    /\ it' = [h \in Handler |-> "idle"] /\ trying' = [h \in Handler |-> None]
    /\ left' = [h \in Handler |-> {}] /\ tries' = [h \in Handler |-> <<>>]
    /\ listed' = [h \in Handler |-> {}]
    /\ UNCHANGED <<runs, enabled, user, balancerVars, loopVars, updateVars>>

-----------------------------------------------------------------------------
(* The loop of start_cfproxy_domain_refresh and refresh_cfproxy_domains.   *)

GoTo(r, where) == loop' = [loop EXCEPT ![r] = where]

Check(r) ==
    /\ loop[r] = "checking"
    /\ GoTo(r, IF user # {} THEN "waiting" ELSE "fetching")
    /\ UNCHANGED <<runVars, balancerVars, current, stop, updateVars, handlerVars>>

\* Mutant: any payload is taken.
FetchedAny(r) ==
    /\ loop[r] = "fetching"
    /\ \E pool \in Fetchable : Call(r, pool) /\ GoTo(r, "updating")
    /\ UNCHANGED <<runVars, balancerVars, current, stop, pick, handlerVars>>

\* The payload after _normalize_domain_pool; {} when the fetch failed.
Fetched(r) ==
    /\ loop[r] = "fetching"
    /\ \E pool \in Fetchable :
          \/ Cardinality(pool) >= MinValid /\ Call(r, pool) /\ GoTo(r, "updating")
          \/ Cardinality(pool) < MinValid /\ GoTo(r, "waiting") /\ UNCHANGED <<update, new>>
    /\ UNCHANGED <<runVars, balancerVars, current, stop, pick, handlerVars>>

Updated(r) ==
    /\ loop[r] = "updating" /\ update[r] = "idle"
    /\ GoTo(r, "waiting")
    /\ UNCHANGED <<runVars, balancerVars, current, stop, updateVars, handlerVars>>

\* Mutant: the loop waits on the global event, not on its own.
WaitsGlobally(r) ==
    /\ loop[r] = "waiting"
    /\ GoTo(r, IF stop[current] THEN "gone" ELSE "checking")
    /\ UNCHANGED <<runVars, balancerVars, current, stop, updateVars, handlerVars>>

\* stop.wait(3600): the event has been set, or an hour has passed.
Waits(r) ==
    /\ loop[r] = "waiting"
    /\ GoTo(r, IF stop[r] THEN "gone" ELSE "checking")
    /\ UNCHANGED <<runVars, balancerVars, current, stop, updateVars, handlerVars>>

-----------------------------------------------------------------------------
(* get_domains_for_dc as _cfproxy_fallback runs through it.                *)

\* The generator yields its next domain, and h connects to it; or it ends.
Yield(h, rest, at) ==
    \/ \E d \in rest :
          /\ trying' = [trying EXCEPT ![h] = d]
          /\ tries' = [tries EXCEPT ![h] = Append(@, d)]
          /\ left' = [left EXCEPT ![h] = rest \ {d}]
          /\ it' = [it EXCEPT ![h] = at]
    \/ /\ rest = {}
       /\ trying' = [trying EXCEPT ![h] = None]
       /\ left' = [left EXCEPT ![h] = {}]
       /\ it' = [it EXCEPT ![h] = "over"]
       /\ UNCHANGED tries

Begin(h) ==
    /\ phase = "running" /\ enabled /\ it[h] = "idle"
    /\ listed' = [listed EXCEPT ![h] = domains]
    /\ \/ preferred # None /\ Yield(h, {preferred}, "preferred")
       \/ preferred = None /\ Yield(h, domains, "rest")
    /\ UNCHANGED <<runVars, balancerVars, loopVars, updateVars>>

\* Mutant: the preferred domain is read again instead of remembered.
PreferredFailsReread(h) ==
    /\ it[h] = "preferred"
    /\ Yield(h, domains \ {preferred}, "rest")
    /\ UNCHANGED <<runVars, balancerVars, loopVars, updateVars, listed>>

\* The copy of the list is taken behind the first failure, not before it.
PreferredFails(h) ==
    /\ it[h] = "preferred"
    /\ Yield(h, domains \ {trying[h]}, "rest")
    /\ UNCHANGED <<runVars, balancerVars, loopVars, updateVars, listed>>

NextFails(h) ==
    /\ it[h] = "rest"
    /\ Yield(h, left[h], "rest")
    /\ UNCHANGED <<runVars, balancerVars, loopVars, updateVars, listed>>

\* The handler is done: h stands for the next client from here on.
Forget(h) ==
    /\ it' = [it EXCEPT ![h] = "idle"] /\ trying' = [trying EXCEPT ![h] = None]
    /\ left' = [left EXCEPT ![h] = {}] /\ tries' = [tries EXCEPT ![h] = <<>>]
    /\ listed' = [listed EXCEPT ![h] = {}]

\* The connection stands: update_domain_for_dc keeps its domain.
Succeeds(h) ==
    /\ it[h] \in {"preferred", "rest"}
    /\ preferred' = trying[h]
    /\ Forget(h)
    /\ UNCHANGED <<runVars, domains, loopVars, updateVars>>

GivesUp(h) ==
    /\ it[h] = "over"
    /\ Forget(h)
    /\ UNCHANGED <<runVars, balancerVars, loopVars, updateVars>>

-----------------------------------------------------------------------------
Update(t) == Compare(t) \/ Replace(t) \/ Choose(t) \/ Store(t)
Refresh(r) == Check(r) \/ Fetched(r) \/ Updated(r) \/ Waits(r) \/ Update(r)
Handle(h) == Begin(h) \/ PreferredFails(h) \/ NextFails(h) \/ Succeeds(h) \/ GivesUp(h)

Next ==
    \/ \E list \in UserLists, on \in BOOLEAN : Configure(list, on)
    \/ Start \/ Started \/ Stop \/ Update(0)
    \/ \E r \in Run : Refresh(r)
    \/ \E h \in Handler : Handle(h)

Spec == Init /\ [][Next]_vars

\* A refresh thread is scheduled, its fetch times out after ten seconds and
\* its wait after an hour.
FairSpec == Spec /\ \A r \in Run : WF_vars(Refresh(r))

-----------------------------------------------------------------------------
(* Properties.                                                             *)

\* While a run chooses domains on its own, its own refresh loop is the only
\* one that has not been told to stop.
OneRefresher ==
    phase = "running" /\ enabled /\ user = {} =>
        \A r \in Run : loop[r] # "none" /\ ~stop[r] <=> r = current

\* While such a run goes on, the domains are the built-in ones or a fetched
\* list of at least MinValid: neither a poor payload nor the list a user had
\* configured for an earlier run, whichever thread is late with its update.
PoolUsable ==
    phase = "running" /\ enabled /\ user = {} =>
        domains = Default \/ (domains \in Fetchable /\ Cardinality(domains) >= MinValid)

\* A handler that gives up has connected to each domain at most once and to
\* every domain that was listed all the while, whatever the other threads
\* and handlers did to the list and to the preferred domain meanwhile.
EachListedTriedOnce ==
    \A h \in Handler :
        /\ IsInjective(tries[h])
        /\ it[h] = "over" => listed[h] \subseteq Range(tries[h])

\* A refresh loop that has been told to stop ends.
StoppedLoopEnds ==
    \A r \in Run : (stop[r] /\ loop[r] # "none") ~> (loop[r] = "gone")

\* ui/ctk_tray_ui.py:67: a user's own domains are used instead of the
\* automatic choice.
UserDomainsUsed == phase = "running" /\ enabled /\ user # {} => domains = user

=============================================================================
