------------------------------ MODULE Registry ------------------------------
(***************************************************************************)
(* The server's in-memory registry: MemoryStorage, as RegistryService and  *)
(* the two controllers drive it.  Every method body runs without yielding  *)
(* (heartbeat reaches register before its first suspension), so each is    *)
(* one action.                                                             *)
(*                                                                         *)
(* The nested map name -> id -> record is flattened: an id contains the    *)
(* name, and the service always passes instance.name as the key, so a      *)
(* record is found by its instance alone.  The outer map's own key set is  *)
(* kept in "keys", because the code creates and deletes entries of it.     *)
(*                                                                         *)
(* Time is relative.  silence[i] is now - lastHeartbeatAt, sinceCleanup    *)
(* the age of the setInterval timer; one unit is any resolution in which   *)
(* the options are whole numbers.                                          *)
(***************************************************************************)
EXTENDS Integers, FiniteSets

CONSTANTS Instance,           \* identities name:host:port
          Service,            \* service names
          ServiceOf,          \* the name inside an identity
          Metadata,           \* contents a registration may carry besides its identity
          HeartbeatInterval,  \* options.heartbeatInterval
          CleanupTTL,         \* options.cleanupTTL, the period of the cleanup timer
          EvictionThreshold,  \* options.evictionThreshold
          TimerLag            \* how late the event loop may run a due timer

\* setInterval treats a period below 1 as 1; a threshold of 0 acts as 1,
\* since cleanup counts before it compares.
ASSUME RegistryAssumption ==
    /\ ServiceOf \in [Instance -> Service]
    /\ HeartbeatInterval \in Nat
    /\ CleanupTTL \in Nat \ {0}
    /\ EvictionThreshold \in Nat \ {0}
    /\ TimerLag \in Nat

VARIABLES status,            \* "ON" or "OFF" for a stored record, "ABSENT" for none
          silence,           \* now - lastHeartbeatAt
          missedHeartbeats,
          metadata,          \* the rest of the stored record, NoMetadata for none
          keys,              \* names that have an inner map
          sinceCleanup       \* time since cleanup last ran

records == <<status, silence, missedHeartbeats, metadata, keys>>
registryVars == <<status, silence, missedHeartbeats, metadata, keys, sinceCleanup>>

NoMetadata == "none"

Present(i) == status[i] # "ABSENT"

\* What GET /nestro/services returns: every inner map under its name.
GetServices == [s \in keys |-> {i \in Instance : ServiceOf[i] = s /\ Present(i)}]

RegistryInit ==
    /\ status = [i \in Instance |-> "ABSENT"]
    /\ silence = [i \in Instance |-> 0]
    /\ missedHeartbeats = [i \in Instance |-> 0]
    /\ metadata = [i \in Instance |-> NoMetadata]
    /\ keys = {}
    /\ sinceCleanup = 0

-----------------------------------------------------------------------------
\* A slip: a record that exists keeps its metadata, as a heartbeat does.
RegisterKeepingMetadata(i, m) ==
    /\ status' = [status EXCEPT ![i] = "ON"]
    /\ silence' = [silence EXCEPT ![i] = 0]
    /\ missedHeartbeats' = [missedHeartbeats EXCEPT ![i] = 0]
    /\ metadata' = [metadata EXCEPT ![i] = IF Present(i) THEN @ ELSE m]
    /\ keys' = keys \cup {ServiceOf[i]}
    /\ UNCHANGED sinceCleanup

(* POST /nestro/register: the record is replaced whatever it was. *)
Register(i, m) ==
    /\ status' = [status EXCEPT ![i] = "ON"]
    /\ silence' = [silence EXCEPT ![i] = 0]
    /\ missedHeartbeats' = [missedHeartbeats EXCEPT ![i] = 0]
    /\ metadata' = [metadata EXCEPT ![i] = m]
    /\ keys' = keys \cup {ServiceOf[i]}
    /\ UNCHANGED sinceCleanup

\* A slip: a heartbeat refreshes the time but does not mark the record ON.
HeartbeatLeavingStatus(i, m) ==
    \/ ~Present(i) /\ Register(i, m)
    \/ /\ Present(i)
       /\ silence' = [silence EXCEPT ![i] = 0]
       /\ missedHeartbeats' = [missedHeartbeats EXCEPT ![i] = 0]
       /\ UNCHANGED <<status, metadata, keys, sinceCleanup>>

\* A slip: a heartbeat marks the record ON but keeps the missed heartbeats.
HeartbeatKeepingMisses(i, m) ==
    \/ ~Present(i) /\ Register(i, m)
    \/ /\ Present(i)
       /\ status' = [status EXCEPT ![i] = "ON"]
       /\ silence' = [silence EXCEPT ![i] = 0]
       /\ UNCHANGED <<missedHeartbeats, metadata, keys, sinceCleanup>>

\* A slip: a heartbeat leaves lastHeartbeatAt as it was.
HeartbeatLeavingTime(i, m) ==
    \/ ~Present(i) /\ Register(i, m)
    \/ /\ Present(i)
       /\ status' = [status EXCEPT ![i] = "ON"]
       /\ missedHeartbeats' = [missedHeartbeats EXCEPT ![i] = 0]
       /\ UNCHANGED <<silence, metadata, keys, sinceCleanup>>

\* A slip: a heartbeat of an instance the server does not know is ignored.
HeartbeatOfKnownOnly(i, m) ==
    /\ status' = [status EXCEPT ![i] = IF Present(i) THEN "ON" ELSE @]
    /\ silence' = [silence EXCEPT ![i] = 0]
    /\ missedHeartbeats' = [missedHeartbeats EXCEPT ![i] = 0]
    /\ UNCHANGED <<metadata, keys, sinceCleanup>>

(* POST /nestro/heartbeat: a known record is refreshed in place and keeps  *)
(* the metadata it was registered with; an unknown one is registered.      *)
Heartbeat(i, m) ==
    \/ /\ ~Present(i)
       /\ Register(i, m)
    \/ /\ Present(i)
       /\ status' = [status EXCEPT ![i] = "ON"]
       /\ silence' = [silence EXCEPT ![i] = 0]
       /\ missedHeartbeats' = [missedHeartbeats EXCEPT ![i] = 0]
       /\ UNCHANGED <<metadata, keys, sinceCleanup>>

\* A slip: the inner map that became empty is left in the outer one.
DeleteLeavingKeys(D, S) ==
    /\ silence' = [i \in Instance |-> IF i \in D THEN 0 ELSE silence[i]]
    /\ metadata' = [i \in Instance |-> IF i \in D THEN NoMetadata ELSE metadata[i]]
    /\ UNCHANGED keys

\* The records of D are deleted; then the inner maps of the names in S are
\* looked at and the empty ones deleted.
Delete(D, S) ==
    /\ silence' = [i \in Instance |-> IF i \in D THEN 0 ELSE silence[i]]
    /\ metadata' = [i \in Instance |-> IF i \in D THEN NoMetadata ELSE metadata[i]]
    /\ keys' = keys \ {s \in S : \A i \in Instance \ D : Present(i) => ServiceOf[i] # s}

(* DELETE /nestro/deregister, and the dashboard's DELETE. *)
Deregister(i) ==
    /\ status' = [status EXCEPT ![i] = "ABSENT"]
    /\ missedHeartbeats' = [missedHeartbeats EXCEPT ![i] = 0]
    /\ Delete({i}, {ServiceOf[i]})
    /\ UNCHANGED sinceCleanup

\* An off-by-one: a heartbeat is late when it is just due.
LateWhenDue == {i \in Instance : Present(i) /\ silence[i] >= HeartbeatInterval}

Late == {i \in Instance : Present(i) /\ silence[i] > HeartbeatInterval}

\* An off-by-one: one miss more than the threshold is waited for.
EvictedAfterThreshold == {i \in Late : missedHeartbeats[i] + 1 > EvictionThreshold}

Evicted == {i \in Late : missedHeartbeats[i] + 1 >= EvictionThreshold}

\* A slip: a pass forgives a miss of an instance that is not late, below zero.
CleanupForgiving ==
    /\ sinceCleanup >= CleanupTTL
    /\ status' = [i \in Instance |->
                    IF ~Present(i) \/ i \in Evicted THEN "ABSENT"
                    ELSE IF i \in Late THEN "OFF" ELSE "ON"]
    /\ missedHeartbeats' = [i \in Instance |->
                              IF i \in Late \ Evicted THEN missedHeartbeats[i] + 1
                              ELSE missedHeartbeats[i] - 1]
    /\ Delete(Evicted, keys)
    /\ sinceCleanup' = 0

(* The cleanup timer's callback: one pass over all records. *)
Cleanup ==
    /\ sinceCleanup >= CleanupTTL
    /\ status' = [i \in Instance |->
                    IF ~Present(i) \/ i \in Evicted THEN "ABSENT"
                    ELSE IF i \in Late THEN "OFF" ELSE "ON"]
    /\ missedHeartbeats' = [i \in Instance |->
                              IF i \in Late \ Evicted THEN missedHeartbeats[i] + 1 ELSE 0]
    /\ Delete(Evicted, keys)
    /\ sinceCleanup' = 0

(* One unit of time.  A due timer is run at most TimerLag late. *)
Tick ==
    /\ sinceCleanup < CleanupTTL + TimerLag
    /\ sinceCleanup' = sinceCleanup + 1
    /\ silence' = [i \in Instance |-> IF Present(i) THEN silence[i] + 1 ELSE silence[i]]
    /\ UNCHANGED <<status, missedHeartbeats, metadata, keys>>

RegistryNext ==
    \/ \E i \in Instance, m \in Metadata : Register(i, m) \/ Heartbeat(i, m)
    \/ \E i \in Instance : Deregister(i)
    \/ Cleanup
    \/ Tick

\* The registry alone, serving any requests in any order.
RegistrySpec == RegistryInit /\ [][RegistryNext]_registryVars

-----------------------------------------------------------------------------
(* Every variable holds a value of its kind. *)
RegistryTypeOK ==
    /\ status \in [Instance -> {"ABSENT", "ON", "OFF"}]
    /\ silence \in [Instance -> Nat]
    /\ missedHeartbeats \in [Instance -> Nat]
    /\ metadata \in [Instance -> Metadata \cup {NoMetadata}]
    /\ keys \subseteq Service
    /\ sinceCleanup \in 0 .. CleanupTTL + TimerLag

(* The listing never shows a name without instances and never hides an     *)
(* instance: the outer map's entries, created and deleted separately from  *)
(* the records, are exactly the names of the stored records.  The          *)
(* dashboard's "has services" and every reader of the listing rely on it.  *)
ListingExact == keys = {ServiceOf[i] : i \in {j \in Instance : Present(j)}}

(* The two liveness marks of a record agree although four methods write    *)
(* them: OFF exactly when heartbeats were counted as missed, and no record *)
(* that reached the threshold stays.                                       *)
MarksAgree ==
    \A i \in Instance :
        /\ status[i] = "OFF" <=> missedHeartbeats[i] > 0
        /\ missedHeartbeats[i] < EvictionThreshold

(* No record outlives its instance by more than this: an instance not      *)
(* heard of is gone after threshold + 1 cleanup periods at the latest,     *)
(* and is no longer advertised as ON after the first.                      *)
StaleBounded ==
    \A i \in Instance :
        LET period == CleanupTTL + TimerLag
        IN  /\ Present(i) => silence[i] <= HeartbeatInterval + EvictionThreshold * period
            /\ status[i] = "ON" => silence[i] <= HeartbeatInterval + period

(* Each counted miss needs a cleanup period of its own on top of an        *)
(* overdue heartbeat.                                                      *)
StrikesEarned ==
    \A i \in Instance :
        missedHeartbeats[i] > 0 =>
            silence[i] > HeartbeatInterval + (missedHeartbeats[i] - 1) * CleanupTTL + sinceCleanup

(* Cleanup removes a record only after the whole grace period: an instance *)
(* whose heartbeats arrive no further apart than heartbeatInterval plus    *)
(* (evictionThreshold - 1) cleanup periods is never evicted, whatever the  *)
(* phase of the two timers.                                                *)
EvictedOnlyWhenSilent ==
    [][\A i \in Instance :
          Present(i) /\ ~Present(i)' /\ sinceCleanup' = 0 /\ sinceCleanup > 0 =>
              silence[i] > HeartbeatInterval + (EvictionThreshold - 1) * CleanupTTL]_registryVars

(* The registry implements the directory its readers may rely on: in       *)
(* particular a cleanup never clears a strike.                             *)
Directory == INSTANCE StrikeDirectory
    WITH MaxStrikes <- EvictionThreshold,
         strikes <- [i \in Instance |-> IF Present(i) THEN missedHeartbeats[i] ELSE -1]

ImplementsDirectory == Directory!Spec

=============================================================================
