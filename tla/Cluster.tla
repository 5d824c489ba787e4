-------------------------------- MODULE Cluster --------------------------------
(***************************************************************************)
(* The registry with the processes that use it: PlainClientService or      *)
(* SecureClientService in each, the requests between them, and crashes,    *)
(* restarts and losses on both sides.                                      *)
(*                                                                         *)
(* Every request is a fetch of its own, so requests of one client may      *)
(* overtake each other, and one that is under way when its process dies    *)
(* is still delivered.  A fetch that fails rejects, and each of the three  *)
(* rejections ends the process: onModuleInit fails the start, the timer's  *)
(* sendHeartbeat is an unhandled rejection, and beforeApplicationShutdown  *)
(* fails a shutdown that was ending the process anyway.                    *)
(***************************************************************************)
EXTENDS Registry

CONSTANTS MaxDelay,     \* longest time a request or an answer is under way
          RestartDelay  \* shortest time between the end of a process and its restart

\* A restart takes time, so two equal requests of one instance differ in age:
\* "wire" can be a set.
ASSUME ClusterAssumption == MaxDelay \in Nat /\ RestartDelay \in Nat \ {0}

VARIABLES process,    \* "down", "registering", "serving" or "stopping"
          config,     \* the metadata of the running process
          pace,       \* the period of its heartbeat timer, Off without one
          sinceBeat,  \* time since that timer was set or last fired
          wire,       \* requests and answers under way
          server,     \* "up" or "down"
          refused,    \* instances whose signature SecurityMiddleware refuses
          goneFor,    \* history: time since the process ended, up to GoneBound
          rested      \* history: whether it was started after its last requests ended

clientVars == <<process, config, pace, sinceBeat, refused, goneFor, rested>>
clusterVars == <<registryVars, clientVars, wire, server>>

Off == -1

\* A bound of the model: long enough for every property below.
GoneBound == MaxDelay + HeartbeatInterval + EvictionThreshold * (CleanupTTL + TimerLag) + 1

Up == server = "up"

ClusterInit ==
    /\ RegistryInit
    /\ process = [i \in Instance |-> "down"]
    /\ config = [i \in Instance |-> NoMetadata]
    /\ pace = [i \in Instance |-> Off]
    /\ sinceBeat = [i \in Instance |-> 0]
    /\ wire = {}
    /\ server = "up"
    /\ refused \in SUBSET Instance
    /\ goneFor = [i \in Instance |-> GoneBound]
    /\ rested = [i \in Instance |-> FALSE]

\* "live" is lost when the process that awaits the answer ends.
Message(i, operation, m) ==
    [op |-> operation, from |-> i, meta |-> m, age |-> 0, live |-> TRUE]

Send(i, operation, m) == wire' = wire \cup {Message(i, operation, m)}

\* A period below 1 (or none at all) makes setInterval fire every millisecond.
Period(i) == IF pace[i] < 1 THEN 1 ELSE pace[i]

Beating(i) == pace[i] # Off

-----------------------------------------------------------------------------
(* The client. *)

\* onModuleInit: register() posts the instance and awaits the answer.
Start(i, m) ==
    /\ process[i] = "down"
    /\ goneFor[i] >= RestartDelay
    /\ process' = [process EXCEPT ![i] = "registering"]
    /\ config' = [config EXCEPT ![i] = m]
    /\ goneFor' = [goneFor EXCEPT ![i] = 0]
    /\ rested' = [rested EXCEPT ![i] = goneFor[i] > MaxDelay]
    /\ Send(i, "register", m)
    /\ UNCHANGED <<registryVars, pace, sinceBeat, refused, server>>

\* A slip: the interval of the answer is taken for another unit.
RegisteredRescaled(msg) ==
    LET i == msg.from
    IN  /\ msg \in wire /\ msg.op = "registered" /\ msg.live
        /\ wire' = wire \ {msg}
        /\ pace' = [pace EXCEPT ![i] = IF i \in refused THEN 0 ELSE 2 * HeartbeatInterval]
        /\ sinceBeat' = [sinceBeat EXCEPT ![i] = 0]
        /\ process' = [process EXCEPT ![i] = IF @ = "registering" THEN "serving" ELSE @]
        /\ UNCHANGED <<registryVars, config, refused, goneFor, rested, server>>

\* register() continues: the timer is set from the answer whatever its status
\* code; the body of a refusal has no heartbeatInterval.  The answer may find
\* the process already stopping.
Registered(msg) ==
    LET i == msg.from
    IN  /\ msg \in wire /\ msg.op = "registered" /\ msg.live
        /\ wire' = wire \ {msg}
        /\ pace' = [pace EXCEPT ![i] = IF i \in refused THEN 0 ELSE HeartbeatInterval]
        /\ sinceBeat' = [sinceBeat EXCEPT ![i] = 0]
        /\ process' = [process EXCEPT ![i] = IF @ = "registering" THEN "serving" ELSE @]
        /\ UNCHANGED <<registryVars, config, refused, goneFor, rested, server>>

\* The timer fires: sendHeartbeat posts the instance; nobody awaits it, and
\* the heartbeats before it may still be under way.
Beat(i) ==
    /\ Beating(i)
    /\ sinceBeat[i] >= Period(i)
    /\ sinceBeat' = [sinceBeat EXCEPT ![i] = 0]
    /\ Send(i, "heartbeat", config[i])
    /\ UNCHANGED <<registryVars, process, config, pace, refused, goneFor, rested, server>>

\* beforeApplicationShutdown: clearInterval, then deregister() is awaited.
Stop(i) ==
    /\ process[i] \in {"registering", "serving"}
    /\ process' = [process EXCEPT ![i] = "stopping"]
    /\ pace' = [pace EXCEPT ![i] = Off]
    /\ sinceBeat' = [sinceBeat EXCEPT ![i] = 0]
    /\ Send(i, "deregister", config[i])
    /\ UNCHANGED <<registryVars, config, refused, goneFor, rested, server>>

\* The process is gone; what it sent, the set "rest" of the messages, is not.
End(i, rest) ==
    /\ process' = [process EXCEPT ![i] = "down"]
    /\ config' = [config EXCEPT ![i] = NoMetadata]
    /\ pace' = [pace EXCEPT ![i] = Off]
    /\ sinceBeat' = [sinceBeat EXCEPT ![i] = 0]
    /\ goneFor' = [goneFor EXCEPT ![i] = 0]
    /\ rested' = [rested EXCEPT ![i] = FALSE]
    /\ UNCHANGED refused
    /\ wire' = {[msg EXCEPT !.live = @ /\ msg.from # i] : msg \in rest}

Deregistered(msg) ==
    /\ msg \in wire /\ msg.op = "deregistered" /\ msg.live
    /\ End(msg.from, wire \ {msg})
    /\ UNCHANGED <<registryVars, server>>

Crash(i) ==
    /\ process[i] # "down"
    /\ End(i, wire)
    /\ UNCHANGED <<registryVars, server>>

-----------------------------------------------------------------------------
(* The network and the server. *)

\* The answer awaited for a request; nothing depends on a heartbeat's.
Answer(msg) ==
    IF msg.live /\ msg.op # "heartbeat"
    THEN {[msg EXCEPT !.age = 0,
                      !.op = IF @ = "register" THEN "registered" ELSE "deregistered"]}
    ELSE {}

\* SecurityMiddleware lets the requests of i pass: security is off, or the
\* signature verifies.
Verified(i) == i \notin refused

\* A request reaches the controller, unless SecurityMiddleware throws first.
Deliver(msg) ==
    LET i == msg.from
    IN  /\ Up
        /\ msg \in wire
        /\ \/ msg.op = "register" /\ Verified(i) /\ Register(i, msg.meta)
           \/ msg.op = "heartbeat" /\ Verified(i) /\ Heartbeat(i, msg.meta)
           \/ msg.op = "deregister" /\ Verified(i) /\ Deregister(i)
           \/ /\ msg.op \in {"register", "heartbeat", "deregister"} /\ ~Verified(i)
              /\ UNCHANGED registryVars
        /\ wire' = (wire \ {msg}) \cup Answer(msg)
        /\ UNCHANGED <<clientVars, server>>

\* A request or an answer is lost, or finds no server: the fetch rejects.
Lose(msg) ==
    /\ msg \in wire
    /\ \/ msg.live /\ End(msg.from, wire \ {msg})
       \/ ~msg.live /\ wire' = wire \ {msg} /\ UNCHANGED clientVars
    /\ UNCHANGED <<registryVars, server>>

\* An operator deletes an instance on the dashboard.
AdminDeregister(i) ==
    /\ Up
    /\ Present(i)
    /\ Deregister(i)
    /\ UNCHANGED <<clientVars, wire, server>>

\* The records live in the memory of the server's process.
ServerCrash ==
    /\ Up
    /\ server' = "down"
    /\ status' = [i \in Instance |-> "ABSENT"]
    /\ silence' = [i \in Instance |-> 0]
    /\ missedHeartbeats' = [i \in Instance |-> 0]
    /\ metadata' = [i \in Instance |-> NoMetadata]
    /\ keys' = {}
    /\ sinceCleanup' = 0
    /\ UNCHANGED <<clientVars, wire>>

ServerStart ==
    /\ ~Up
    /\ server' = "up"
    /\ UNCHANGED <<registryVars, clientVars, wire>>

RunCleanup ==
    /\ Up
    /\ Cleanup
    /\ UNCHANGED <<clientVars, wire, server>>

Pass ==
    /\ \/ Up /\ Tick
       \/ ~Up /\ UNCHANGED registryVars
    /\ \A i \in Instance : Beating(i) => sinceBeat[i] < Period(i) + TimerLag
    /\ \A msg \in wire : msg.age < MaxDelay
    /\ wire' = {[msg EXCEPT !.age = @ + 1] : msg \in wire}
    /\ sinceBeat' = [i \in Instance |-> IF Beating(i) THEN sinceBeat[i] + 1 ELSE 0]
    /\ goneFor' = [i \in Instance |->
                     IF process[i] = "down" /\ goneFor[i] < GoneBound
                     THEN goneFor[i] + 1 ELSE goneFor[i]]
    /\ UNCHANGED <<process, config, pace, refused, rested, server>>

Arrive(msg) == Deliver(msg) \/ Lose(msg) \/ Registered(msg) \/ Deregistered(msg)

ClusterStep ==
    \/ \E i \in Instance, m \in Metadata : Start(i, m)
    \/ \E i \in Instance : Beat(i) \/ Stop(i) \/ Crash(i) \/ AdminDeregister(i)
    \/ \E msg \in wire : Arrive(msg)
    \/ ServerCrash
    \/ ServerStart
    \/ RunCleanup

ClusterNext == ClusterStep \/ Pass

\* Time goes on, due timers fire and due messages arrive or fail; nobody has
\* to start, stop, crash or remove anything.
ClusterFairness ==
    /\ SF_clusterVars(Pass)
    /\ WF_clusterVars(RunCleanup)
    /\ WF_clusterVars(\E msg \in wire : msg.age = MaxDelay /\ Arrive(msg))
    /\ \A i \in Instance : WF_clusterVars(Beat(i))

ClusterSpec == ClusterInit /\ [][ClusterNext]_clusterVars /\ ClusterFairness

-----------------------------------------------------------------------------
Messages ==
    [op : {"register", "heartbeat", "deregister", "registered", "deregistered"},
     from : Instance, meta : Metadata, age : 0 .. MaxDelay, live : BOOLEAN]

ClusterTypeOK ==
    /\ RegistryTypeOK
    /\ process \in [Instance -> {"down", "registering", "serving", "stopping"}]
    /\ config \in [Instance -> Metadata \cup {NoMetadata}]
    /\ pace \in [Instance -> {Off, 0, HeartbeatInterval}]
    /\ sinceBeat \in [Instance -> Nat]
    /\ goneFor \in [Instance -> 0 .. GoneBound]
    /\ rested \in [Instance -> BOOLEAN]
    /\ refused \subseteq Instance
    /\ server \in {"up", "down"}
    /\ wire \subseteq Messages

\* The period of a timer set from the answer to a verified registration.
BeatPeriod == IF HeartbeatInterval < 1 THEN 1 ELSE HeartbeatInterval

(* A serving process is never evicted: while its heartbeats, sent by a     *)
(* timer that may lag over a network that may delay and reorder them, are  *)
(* within the grace period, the cleanup that removes silent instances      *)
(* never takes the record of a live one.  The grace period must cover two  *)
(* delays (the answer to register and the first heartbeat), the lag, and   *)
(* the unit by which a timer of interval 0 is slower than its interval.    *)
NoLiveEviction ==
    [][BeatPeriod + 2 * MaxDelay + TimerLag
          <= HeartbeatInterval + (EvictionThreshold - 1) * CleanupTTL =>
          \A i \in Instance :
              RunCleanup /\ Present(i) /\ ~Present(i)' => process[i] # "serving"]_clusterVars

(* A process that ended is out of the listing after a known time, although *)
(* requests it left behind may register it again after its deregister.     *)
GhostBounded ==
    \A i \in Instance : Present(i) => goneFor[i] < GoneBound

(* The listing describes the process that runs, not the one before it: a   *)
(* heartbeat does not repair metadata, so this needs a restart that took   *)
(* longer than the slowest request.                                        *)
ListingCurrent ==
    \A i \in Instance :
        process[i] = "serving" /\ rested[i] /\ Present(i) => metadata[i] = config[i]

(* Self-healing: whatever removed the record of a serving process (an      *)
(* operator, a server that lost its memory, a late deregister), it is      *)
(* listed again or the process has ended.                                  *)
Relisted ==
    \A i \in Instance :
        process[i] = "serving" /\ i \notin refused ~> Present(i) \/ process[i] # "serving"

(* src/server/types.ts: the interval of the answer is the one "at which    *)
(* heartbeat signals should be sent".                                      *)
HeartbeatsPaced ==
    \A i \in Instance : Beating(i) => pace[i] = HeartbeatInterval

=============================================================================
