------------------------------- MODULE Balancers -------------------------------
(***************************************************************************)
(* The load-balancing strategies as functions of the list they choose from *)
(* and the state they keep.                                                *)
(*                                                                         *)
(* discover() hands selectInstance the instances of one service that the   *)
(* request has not tried yet, in the order of the listing.  That array is  *)
(* here the set R of their positions in the listing, never empty.  Both    *)
(* round-robin counters are kept per service name, so one counter is one   *)
(* service's.                                                              *)
(***************************************************************************)
EXTENDS Integers, FiniteSets, Sequences, FiniteSetsExt

\* The k-th position of R, from 0.
Nth(R, k) == CHOOSE p \in R : Cardinality({q \in R : q < p}) = k

Single(R) == Cardinality(R) = 1

-----------------------------------------------------------------------------
RoundRobinPick(R, counter) ==
    IF Single(R) THEN Nth(R, 0) ELSE Nth(R, counter % Cardinality(R))

\* A slip: the counter is not stored again.
RoundRobinCounterStuck(R, counter) == counter

\* A list of one is answered before the counter is touched.
RoundRobinCounter(R, counter) ==
    IF Single(R) THEN counter ELSE (counter + 1) % Cardinality(R)

-----------------------------------------------------------------------------
\* metadata.weight of each position, 1 where there is none.
WeightUpTo(R, weight, p) == MapThenSumSet(LAMBDA q : weight[q], {q \in R : q <= p})

TotalWeight(R, weight) == WeightUpTo(R, weight, Max(R))

\* A slip: the counter is not brought back below the total weight.
WeightedCounterUnbounded(R, weight, counter) ==
    IF Single(R) THEN counter ELSE counter + 1

WeightedCounter(R, weight, counter) ==
    IF Single(R) THEN counter ELSE (counter + 1) % TotalWeight(R, weight)

\* An off-by-one: <= instead of < in the walk over the weights.
ReachedEarly(R, weight, counter) == {p \in R : counter <= WeightUpTo(R, weight, p)}

\* The positions whose cumulated weight exceeds the counter that was just set.
Reached(R, weight, counter) == {p \in R : counter < WeightUpTo(R, weight, p)}

WeightedPick(R, weight, counter) ==
    LET reached == Reached(R, weight, WeightedCounter(R, weight, counter))
    IN  IF Single(R) \/ reached = {} THEN Min(R) ELSE Min(reached)

-----------------------------------------------------------------------------
\* One of those with the fewest counted connections, at random.
LeastConnectionsPicks(R, connections) ==
    {p \in R : \A q \in R : connections[p] <= connections[q]}

-----------------------------------------------------------------------------
\* samples[p]: the latest response times of a position.  Averages are compared
\* without dividing.
Total(times) == MapThenSumSet(LAMBDA k : times[k], DOMAIN times)

Faster(s, t) == Total(s) * Len(t) < Total(t) * Len(s)

\* Without a sample of the first instance any one is taken; with one, only
\* instances that have samples are, the first of the fastest.
ResponseTimePicks(R, samples) ==
    LET sampled == {p \in R : samples[p] # << >>}
        fastest == {p \in sampled : \A q \in sampled : ~Faster(samples[q], samples[p])}
    IN  IF Single(R) \/ Min(R) \notin sampled THEN R ELSE {Min(fastest)}

=============================================================================
