---------------------------- MODULE DiscoveryCache ----------------------------
(***************************************************************************)
(* DiscoveryService's copy of the listing, refreshed by a timer from a     *)
(* registry that keeps changing.  The registry is the abstract directory   *)
(* it implements (module StrikeDirectory).                                 *)
(*                                                                         *)
(* The map by service name is flattened to the set of cached instances: a  *)
(* refresh replaces the whole map, and an instance carries its name.       *)
(***************************************************************************)
EXTENDS Integers, FiniteSets

CONSTANTS Instance, MaxStrikes,
          RefreshInterval,  \* options.refreshInterval
          RefreshLag,       \* how late the event loop may run the due timer
          MaxDelay,         \* longest time a request or an answer is under way
          MaxFailures       \* failed refreshes in a row

ASSUME CacheAssumption ==
    /\ MaxStrikes \in Nat \ {0}
    /\ RefreshInterval \in Nat \ {0}
    /\ RefreshLag \in Nat /\ MaxDelay \in Nat /\ MaxFailures \in Nat

VARIABLES strikes,      \* the registry's directory
          phase,        \* "new", "loading", "running" or "destroyed"
          services,     \* the cached instances
          loads,        \* calls of loadInstances under way
          sinceRefresh, \* time since the timer was set or last fired
          failures,     \* failed loads since the last successful one
          age,          \* history: time since the cached answer was given, Never before any
          offFor        \* history: time since an instance was last listed as ON

Directory == INSTANCE StrikeDirectory

serviceVars == <<phase, services, loads, sinceRefresh, failures, age>>
cacheVars == <<strikes, serviceVars, offFor>>

On == {i \in Instance : strikes[i] = 0}

\* The oldest an entry can be: the answer's way, the failed refreshes and the
\* one that succeeds, and its way there and back.  The histories end above it.
FreshBound == (MaxFailures + 1) * (RefreshInterval + RefreshLag) + 3 * MaxDelay

Never == -1

Later(t) == IF t > FreshBound THEN t ELSE t + 1

\* One call: "asked" until the server answers, then the listing it was given.
\* "since" is the time since the call; the timer's period keeps calls apart.
Asked == [stage |-> "asked", listing |-> [i \in Instance |-> Directory!Unlisted],
          wait |-> 0, since |-> 0]

CacheInit ==
    /\ Directory!Init
    /\ phase = "new"
    /\ services = {}
    /\ loads = {}
    /\ sinceRefresh = 0
    /\ failures = 0
    /\ age = Never
    /\ offFor = [i \in Instance |-> FreshBound + 1]

-----------------------------------------------------------------------------
\* onModuleInit awaits a first load before it sets the timer.
ModuleInit ==
    /\ phase = "new"
    /\ phase' = "loading"
    /\ loads' = {Asked}
    /\ UNCHANGED <<strikes, services, sinceRefresh, failures, age, offFor>>

\* A slip: the timer's period is added to, not restarted.
RefreshAccumulating ==
    /\ phase = "running"
    /\ sinceRefresh >= RefreshInterval
    /\ sinceRefresh' = sinceRefresh + 1
    /\ loads' = loads \cup {Asked}
    /\ UNCHANGED <<strikes, phase, services, failures, age, offFor>>

\* A slip: the timer is set with the wrong unit and fires at any time.
RefreshAtOnce ==
    /\ phase = "running"
    /\ sinceRefresh' = 0
    /\ loads' = loads \cup {Asked}
    /\ UNCHANGED <<strikes, phase, services, failures, age, offFor>>

\* The timer does not wait for the load before.
Refresh ==
    /\ phase = "running"
    /\ sinceRefresh >= RefreshInterval
    /\ sinceRefresh' = 0
    /\ loads' = loads \cup {Asked}
    /\ UNCHANGED <<strikes, phase, services, failures, age, offFor>>

\* The server answers GET /nestro/services.
Listed(load) ==
    /\ load \in loads /\ load.stage = "asked"
    /\ loads' = (loads \ {load}) \cup
                  {[load EXCEPT !.stage = "listed", !.listing = strikes, !.wait = 0]}
    /\ UNCHANGED <<strikes, phase, services, sinceRefresh, failures, age, offFor>>

\* A load is over: the first one, whatever came of it, lets onModuleInit go on.
Over(load) ==
    /\ loads' = loads \ {load}
    /\ phase' = IF phase = "loading" THEN "running" ELSE phase
    /\ UNCHANGED <<strikes, sinceRefresh, offFor>>

\* A slip: the map is not cleared before the listing is put in.
LoadedWithoutClear(load) ==
    /\ load \in loads /\ load.stage = "listed"
    /\ services' = services \cup {i \in Instance : load.listing[i] = 0}
    /\ age' = load.wait
    /\ failures' = 0
    /\ Over(load)

\* The answer arrives: the map is cleared and the ON instances are put in.
Loaded(load) ==
    /\ load \in loads /\ load.stage = "listed"
    /\ services' = {i \in Instance : load.listing[i] = 0}
    /\ age' = load.wait
    /\ failures' = 0
    /\ Over(load)

\* A slip: the error is not caught, so onModuleInit never goes on.
LoadFailedUncaught(load) ==
    /\ load \in loads
    /\ failures < MaxFailures
    /\ failures' = failures + 1
    /\ loads' = loads \ {load}
    /\ UNCHANGED <<strikes, phase, services, sinceRefresh, age, offFor>>

\* The fetch rejects, or the answer is not ok or not JSON: the error is logged
\* and the map stays as it is.
LoadFailed(load) ==
    /\ load \in loads
    /\ failures < MaxFailures
    /\ failures' = failures + 1
    /\ Over(load)
    /\ UNCHANGED <<services, age>>

\* onModuleDestroy stops the timer; loads under way still finish.
ModuleDestroy ==
    /\ phase = "running"
    /\ phase' = "destroyed"
    /\ UNCHANGED <<strikes, services, loads, sinceRefresh, failures, age, offFor>>

\* The registry changes as its specification allows.
RegistryStep ==
    /\ Directory!Next
    /\ offFor' = [i \in Instance |-> IF strikes'[i] = 0 THEN 0 ELSE offFor[i]]
    /\ UNCHANGED serviceVars

Pass ==
    /\ \A load \in loads : load.wait < MaxDelay
    /\ phase = "running" => sinceRefresh < RefreshInterval + RefreshLag
    /\ loads' = {[load EXCEPT !.wait = @ + 1, !.since = @ + 1] : load \in loads}
    /\ sinceRefresh' = IF phase = "running" THEN sinceRefresh + 1 ELSE sinceRefresh
    /\ age' = IF age = Never THEN Never ELSE Later(age)
    /\ offFor' = [i \in Instance |-> IF i \in On THEN 0 ELSE Later(offFor[i])]
    /\ UNCHANGED <<strikes, phase, services, failures>>

Finish(load) == Listed(load) \/ Loaded(load) \/ LoadFailed(load)

CacheNext ==
    \/ ModuleInit
    \/ Refresh
    \/ \E load \in loads : Finish(load)
    \/ ModuleDestroy
    \/ RegistryStep
    \/ Pass

\* Time goes on, the module is initialized, and due timers and messages come.
CacheFairness ==
    /\ SF_cacheVars(Pass)
    /\ WF_cacheVars(ModuleInit)
    /\ WF_cacheVars(Refresh)
    /\ WF_cacheVars(\E load \in loads : load.wait = MaxDelay /\ Finish(load))

CacheSpec == CacheInit /\ [][CacheNext]_cacheVars /\ CacheFairness

-----------------------------------------------------------------------------
Loads ==
    [stage : {"asked", "listed"}, listing : [Instance -> -1 .. MaxStrikes - 1],
     wait : 0 .. MaxDelay, since : 0 .. 2 * MaxDelay]

CacheTypeOK ==
    /\ strikes \in [Instance -> -1 .. MaxStrikes - 1]
    /\ phase \in {"new", "loading", "running", "destroyed"}
    /\ services \subseteq Instance
    /\ loads \subseteq Loads
    /\ sinceRefresh \in 0 .. RefreshInterval + RefreshLag
    /\ failures \in 0 .. MaxFailures
    /\ age \in -1 .. FreshBound + 1
    /\ offFor \in [Instance -> 0 .. FreshBound + 1]

(* Traffic stops following the registry only for a known time: a cached    *)
(* instance was listed as ON at most FreshBound ago, whatever refreshes    *)
(* failed in between (a failed refresh keeps the old map).                 *)
CacheFresh ==
    phase = "running" => \A i \in services : offFor[i] <= FreshBound

(* The timer does not wait for the load before, so with an interval below  *)
(* the time of a load loads overlap and end in any order.  A slow registry *)
(* is nevertheless asked by one load per interval of the longest load, and *)
(* never by two where a load ends before the next one starts.              *)
LoadsBounded ==
    Cardinality(loads) * RefreshInterval <= 2 * MaxDelay + RefreshInterval

(* An instance that stays listed as ON is discovered, and one that stays   *)
(* off is forgotten, unless the service is destroyed.                      *)
Discovered ==
    \A i \in Instance :
        /\ <>[](i \in On) => <>[](i \in services \/ phase = "destroyed")
        /\ <>[](i \notin On) => <>[](i \notin services \/ phase = "destroyed")

=============================================================================
