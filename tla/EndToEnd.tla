------------------------------- MODULE EndToEnd -------------------------------
(***************************************************************************)
(* The whole way from a process to those who send requests to it: Cluster  *)
(* with one more process whose DiscoveryService keeps a copy of the        *)
(* listing.  The directory that DiscoveryCache reads is the cluster's      *)
(* registry; time passes for both, and the same network carries the        *)
(* requests of both.                                                       *)
(***************************************************************************)
EXTENDS Cluster

CONSTANTS RefreshInterval, RefreshLag, MaxFailures   \* as in DiscoveryCache

VARIABLES phase, services, loads, sinceRefresh, failures, age, offFor,
          endedFor,  \* history: as goneFor, up to Horizon
          steadyFor  \* history: time since a process began to serve, or was last
                     \* taken out of the instances listed as ON

Cache == INSTANCE DiscoveryCache
    WITH MaxStrikes <- EvictionThreshold,
         strikes <- [i \in Instance |-> IF Present(i) THEN missedHeartbeats[i] ELSE -1]

readerVars == <<phase, services, loads, sinceRefresh, failures, age>>
endVars == <<clusterVars, readerVars, offFor, endedFor, steadyFor>>

\* A process that ended is listed as ON no longer than this.
OnBound == MaxDelay + HeartbeatInterval + CleanupTTL + TimerLag

\* A process that serves is listed as ON after this time, unless it was taken out again:
\* its next heartbeat is due within a period, and may be late and delayed.
ListedBound == BeatPeriod + TimerLag + MaxDelay

\* A bound of the model, above all bounds it is compared with.
Horizon == GoneBound + OnBound + Cache!FreshBound

Aged(t) == IF t < Horizon THEN t + 1 ELSE Horizon

TakenOff(i) == status[i] = "ON" /\ status'[i] # "ON"

EndInit ==
    /\ ClusterInit
    /\ Cache!CacheInit
    /\ endedFor = [i \in Instance |-> Horizon]
    /\ steadyFor = [i \in Instance |-> 0]

\* The processes, the network and the server do something.
DeploymentStep ==
    /\ ClusterStep
    /\ offFor' = [i \in Instance |-> IF status'[i] = "ON" THEN 0 ELSE offFor[i]]
    /\ endedFor' = [i \in Instance |-> IF goneFor'[i] = 0 THEN 0 ELSE endedFor[i]]
    /\ steadyFor' = [i \in Instance |->
                       IF process'[i] = "serving" /\ ~TakenOff(i) THEN steadyFor[i] ELSE 0]
    /\ UNCHANGED readerVars

\* The reader does; only a server that is up answers it.
ReaderStep ==
    /\ UNCHANGED <<clusterVars, endedFor, steadyFor>>
    /\ \/ Cache!ModuleInit
       \/ Cache!Refresh
       \/ \E load \in loads :
             \/ Up /\ Cache!Listed(load)
             \/ Cache!Loaded(load)
             \/ Cache!LoadFailed(load)
       \/ Cache!ModuleDestroy

TimeStep ==
    /\ Pass
    /\ Cache!Pass
    /\ endedFor' = [i \in Instance |-> IF goneFor'[i] = 0 THEN 0 ELSE Aged(endedFor[i])]
    /\ steadyFor' = [i \in Instance |-> IF process[i] = "serving" THEN Aged(steadyFor[i]) ELSE 0]

EndNext == DeploymentStep \/ ReaderStep \/ TimeStep

EndSpec == EndInit /\ [][EndNext]_endVars

-----------------------------------------------------------------------------
(* Traffic to a process stops a known time after its end, whatever is lost *)
(* or delayed, whatever requests it left behind, and whether it crashed,   *)
(* was shut down or was cut off: after OnBound the registry lists it as ON *)
(* no longer, and after FreshBound more no reader has it in its copy.      *)
EndedForgotten ==
    phase = "running" => \A i \in services : endedFor[i] <= OnBound + Cache!FreshBound

(* Whatever takes a process that serves out of the listing (a crash of the *)
(* server, an operator, a late deregister of the process before it, a      *)
(* cleanup), its heartbeats put it back within ListedBound.                *)
ServingListed ==
    \A i \in Instance :
        process[i] = "serving" /\ i \notin refused /\ steadyFor[i] > ListedBound
            => status[i] = "ON"

(* And FreshBound later every reader that has had an answer has it.        *)
ServingKnown ==
    phase = "running" /\ age # Cache!Never =>
        \A i \in Instance :
            process[i] = "serving" /\ i \notin refused
                /\ steadyFor[i] > ListedBound + Cache!FreshBound => i \in services

(* The reader behaves as a cache of any directory does (DiscoveryCache).   *)
ImplementsCache == Cache!CacheInit /\ [][Cache!CacheNext]_(Cache!cacheVars)

=============================================================================
