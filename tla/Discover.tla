-------------------------------- MODULE Discover --------------------------------
(***************************************************************************)
(* DiscoveryService.discover: calls under way at the same time, each       *)
(* trying the instances of one service one after the other.                *)
(*                                                                         *)
(* A call runs without yielding from one settled callback to the next, so  *)
(* the selection, the marking and the tracking of an attempt are one step. *)
(* Between these steps the callback runs: it may ask for another instance  *)
(* once or more often, may settle without waiting for that, and a callback *)
(* of an attempt long over may still ask.                                  *)
(***************************************************************************)
EXTENDS Balancers

CONSTANTS Call,         \* the calls of discover() that are made
          Listings,     \* the arrays refreshes may put in the map, as sets of positions from 1
          Strategies,   \* the strategies that may be configured
          MaxSamples,   \* response times kept per instance, 10 in the code
          Elapsed       \* response times, in units the averages can tell apart

ASSUME DiscoverAssumption ==
    /\ Listings \subseteq SUBSET (Nat \ {0})
    /\ \A listing \in Listings : IsFiniteSet(listing)
    /\ Strategies \subseteq {"random", "round-robin", "least-connections",
                            "weighted-round-robin", "response-time"}
    /\ MaxSamples \in Nat \ {0}
    /\ Elapsed \subseteq Nat

VARIABLES strategy,     \* the configured strategy
          services,     \* positions of the array the service maps to now
          pc,           \* "idle", "trying", or how the call ended
          instances,    \* the array a call got from getInstances
          attempts,     \* the instances a call has selected, in order
          asked,        \* asked[c][k]: attempt k asked for another instance (its shouldRetry)
          counter,      \* the round-robin counter of the service
          connections,  \* LeastConnectionsStrategy's connectionCounters
          samples       \* ResponseTimeStrategy's responseTimes, the latest last

balancerVars == <<counter, connections, samples>>
callVars == <<pc, instances, attempts, asked>>
discoverVars == <<strategy, services, callVars, balancerVars>>

Positions == UNION Listings

Weight == [p \in Positions |-> p]

Ended == {"returned", "threw", "exhausted", "not found"}

Tried(c) == Range(attempts[c])

Current(c) == attempts[c][Len(attempts[c])]

ShouldRetry(c) == asked[c][Len(attempts[c])]

DiscoverInit ==
    /\ strategy \in Strategies
    /\ services \in Listings
    /\ pc = [c \in Call |-> "idle"]
    /\ instances = [c \in Call |-> {}]
    /\ attempts = [c \in Call |-> << >>]
    /\ asked = [c \in Call |-> << >>]
    /\ counter = 0
    /\ connections = [p \in Positions |-> 0]
    /\ samples = [p \in Positions |-> << >>]

-----------------------------------------------------------------------------
\* loadBalancer.selectInstance: what it may return, and the counter it leaves.
Selections(R) ==
    CASE strategy = "random" -> R
      [] strategy = "round-robin" -> {RoundRobinPick(R, counter)}
      [] strategy = "weighted-round-robin" -> {WeightedPick(R, Weight, counter)}
      [] strategy = "least-connections" ->
           IF Single(R) THEN R ELSE LeastConnectionsPicks(R, connections)
      [] strategy = "response-time" -> ResponseTimePicks(R, samples)

CounterAfter(R) ==
    CASE strategy = "round-robin" -> RoundRobinCounter(R, counter)
      [] strategy = "weighted-round-robin" -> WeightedCounter(R, Weight, counter)
      [] OTHER -> counter

\* One turn of the loop: an instance not tried yet is selected, marked and
\* tracked, and the callback is called with it.
Attempt(c, R) ==
    \E p \in Selections(R) :
        /\ pc' = [pc EXCEPT ![c] = "trying"]
        /\ attempts' = [attempts EXCEPT ![c] = Append(@, p)]
        /\ asked' = [asked EXCEPT ![c] = Append(@, FALSE)]
        /\ counter' = CounterAfter(R)
        /\ connections' = IF strategy = "least-connections"
                          THEN [connections EXCEPT ![p] = @ + 1]
                          ELSE connections

Begin(c) ==
    /\ pc[c] = "idle"
    /\ instances' = [instances EXCEPT ![c] = services]
    /\ \/ /\ services = {}
          /\ pc' = [pc EXCEPT ![c] = "not found"]
          /\ UNCHANGED <<attempts, asked, balancerVars>>
       \/ /\ services # {}
          /\ Attempt(c, services)
          /\ UNCHANGED samples
    /\ UNCHANGED <<strategy, services>>

\* A slip: the connection count has no floor at 0.
TryAnotherInstanceUnfloored(c, k) ==
    /\ k \in DOMAIN attempts[c]
    /\ asked' = [asked EXCEPT ![c][k] = TRUE]
    /\ connections' = IF strategy = "least-connections"
                      THEN [connections EXCEPT ![attempts[c][k]] = @ - 1]
                      ELSE connections
    /\ UNCHANGED <<strategy, services, pc, instances, attempts, counter, samples>>

\* A slip: a request that comes after the end of its call is not uncounted.
TryAnotherInstanceInTime(c, k) ==
    /\ k \in DOMAIN attempts[c]
    /\ asked' = [asked EXCEPT ![c][k] = TRUE]
    /\ connections' = IF /\ strategy = "least-connections" /\ pc[c] = "trying"
                         /\ connections[attempts[c][k]] > 0
                      THEN [connections EXCEPT ![attempts[c][k]] = @ - 1]
                      ELSE connections
    /\ UNCHANGED <<strategy, services, pc, instances, attempts, counter, samples>>

\* The callback of attempt k calls tryAnotherInstance, in time or too late.
TryAnotherInstance(c, k) ==
    /\ k \in DOMAIN attempts[c]
    /\ asked' = [asked EXCEPT ![c][k] = TRUE]
    /\ connections' = IF strategy = "least-connections" /\ connections[attempts[c][k]] > 0
                      THEN [connections EXCEPT ![attempts[c][k]] = @ - 1]
                      ELSE connections
    /\ UNCHANGED <<strategy, services, pc, instances, attempts, counter, samples>>

\* A slip: the balancer is given the whole array, not what is left of it.
ContinueAmongAll(c) ==
    \/ /\ Len(attempts[c]) < Cardinality(instances[c])
       /\ Attempt(c, instances[c])
    \/ /\ Len(attempts[c]) >= Cardinality(instances[c])
       /\ pc' = [pc EXCEPT ![c] = "exhausted"]
       /\ UNCHANGED <<attempts, asked, counter, connections>>

\* An off-by-one: the last instance is never tried.
ContinueShort(c) ==
    LET R == instances[c] \ Tried(c)
    IN  \/ /\ R # {} /\ Len(attempts[c]) < Cardinality(instances[c]) - 1
           /\ Attempt(c, R)
        \/ /\ Len(attempts[c]) >= Cardinality(instances[c]) - 1
           /\ pc' = [pc EXCEPT ![c] = "exhausted"]
           /\ UNCHANGED <<attempts, asked, counter, connections>>

\* A slip: when none is left the last instance is called again and again.
ContinueForever(c) ==
    LET R == instances[c] \ Tried(c)
    IN  \/ R # {} /\ Attempt(c, R)
        \/ R = {} /\ UNCHANGED <<pc, attempts, asked, counter, connections>>

\* Whatever came of the attempt, the loop ends after as many as there are
\* instances, and when none is left.
Continue(c) ==
    LET R == instances[c] \ Tried(c)
    IN  \/ /\ R # {} /\ Len(attempts[c]) < Cardinality(instances[c])
           /\ Attempt(c, R)
        \/ /\ R = {} \/ Len(attempts[c]) >= Cardinality(instances[c])
           /\ pc' = [pc EXCEPT ![c] = "exhausted"]
           /\ UNCHANGED <<attempts, asked, counter, connections>>

Latest(times) ==
    IF Len(times) > MaxSamples
    THEN SubSeq(times, Len(times) - MaxSamples + 1, Len(times)) ELSE times

\* The callback's promise is resolved: the time is recorded, even of an
\* attempt that asked for another instance.
Resolve(c) ==
    /\ pc[c] = "trying"
    /\ \E t \in Elapsed :
          samples' = IF strategy = "response-time"
                     THEN [samples EXCEPT ![Current(c)] = Latest(Append(@, t))]
                     ELSE samples
    /\ \/ /\ ~ShouldRetry(c)
          /\ pc' = [pc EXCEPT ![c] = "returned"]
          /\ UNCHANGED <<attempts, asked, counter, connections>>
       \/ /\ ShouldRetry(c)
          /\ Continue(c)
    /\ UNCHANGED <<strategy, services, instances>>

Reject(c) ==
    /\ pc[c] = "trying"
    /\ \/ /\ ~ShouldRetry(c)
          /\ pc' = [pc EXCEPT ![c] = "threw"]
          /\ UNCHANGED <<attempts, asked, counter, connections>>
       \/ /\ ShouldRetry(c)
          /\ Continue(c)
    /\ UNCHANGED <<strategy, services, instances, samples>>

\* A refresh puts another array in the map; the calls keep the one they have.
Refresh ==
    /\ services' \in Listings
    /\ UNCHANGED <<strategy, callVars, balancerVars>>

DiscoverNext ==
    \/ \E c \in Call : Begin(c) \/ Resolve(c) \/ Reject(c)
    \/ \E c \in Call : \E k \in DOMAIN attempts[c] : TryAnotherInstance(c, k)
    \/ Refresh

\* Every callback settles in the end.
DiscoverSpec ==
    /\ DiscoverInit /\ [][DiscoverNext]_discoverVars
    /\ \A c \in Call : WF_discoverVars(Resolve(c) \/ Reject(c))

-----------------------------------------------------------------------------
DiscoverTypeOK ==
    /\ strategy \in Strategies
    /\ services \in Listings
    /\ pc \in [Call -> {"idle", "trying"} \cup Ended]
    /\ instances \in [Call -> Listings \cup {{}}]
    /\ attempts \in [Call -> Seq(Positions)]
    /\ asked \in [Call -> Seq(BOOLEAN)]
    /\ counter \in Nat
    /\ connections \in [Positions -> Nat]
    /\ samples \in [Positions -> UNION {[1 .. n -> Elapsed] : n \in 0 .. MaxSamples}]

(* A request goes to an instance of its own listing, and to none twice:    *)
(* neither a refresh, nor the other calls, nor a strategy whose counter    *)
(* belongs to another list make it.                                        *)
TriedOnce ==
    \A c \in Call :
        /\ Tried(c) \subseteq instances[c]
        /\ Cardinality(Tried(c)) = Len(attempts[c])

(* ALL_INSTANCES_FAILED is told only when every instance of the listing    *)
(* was tried, and asked for another one before its callback settled.       *)
ExhaustedMeansAll ==
    \A c \in Call :
        pc[c] = "exhausted" =>
            /\ Tried(c) = instances[c]
            /\ \A k \in DOMAIN asked[c] : asked[c][k]

\* The attempts on an instance that have not asked for another one.
Standing(p) ==
    UNION {{<<c, k>> : k \in {j \in DOMAIN attempts[c] : attempts[c][j] = p /\ ~asked[c][j]}} :
           c \in Call}

(* The least-connections strategy never holds a failure against an         *)
(* instance: its count is at most the attempts on it that did not ask for  *)
(* another one.  Whatever the order of the calls, an attempt that asks is  *)
(* uncounted once, also after its call has moved on or ended.  (It may be  *)
(* uncounted more often, as tryAnotherInstance does not look whether it    *)
(* was called before: the count is no lower bound.)                        *)
FailuresUncounted == \A p \in Positions : connections[p] <= Cardinality(Standing(p))

(* Every call ends once its callbacks settle: the loop cannot go round     *)
(* forever on a service none of whose instances work.                      *)
CallsEnd == \A c \in Call : pc[c] = "trying" ~> pc[c] \in Ended

\* The attempts on an instance that are neither over nor given up.
Active(p) == {c \in Call : pc[c] = "trying" /\ Current(c) = p /\ ~ShouldRetry(c)}

(* src/discovery/types.ts: "least-connections" is "the instance with the   *)
(* fewest active connections at the time of the request": what is counted  *)
(* for an instance are its active connections.                             *)
CountsActive ==
    strategy = "least-connections" =>
        \A p \in Positions : connections[p] = Cardinality(Active(p))

=============================================================================
