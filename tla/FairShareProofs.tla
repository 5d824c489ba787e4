---------------------------- MODULE FairShareProofs ----------------------------
(***************************************************************************)
(* Proofs about FairShare for any number of instances and any weights.     *)
(*                                                                         *)
(* A round-robin draws tickets in a cycle, of which each instance has as   *)
(* many as its share.  That the history of a round is a run of tickets     *)
(* (RoundInv) is what makes the shares even.                               *)
(***************************************************************************)
EXTENDS FairShare, SetLemmas

\* What no step changes.
GivenInv ==
    /\ strategy \in Strategies
    /\ \E n \in 2 .. MaxInstances : listing = 1 .. n
    /\ weight \in [listing -> 1 .. MaxWeight]
    /\ broken \subseteq listing
    /\ ~AnyBroken => broken = {} \/ (~Weighted /\ broken = {Max(listing)})

FairInv == GivenInv /\ FairTypeOK

\* A cycle has as many tickets as the shares add up to.  The next request that
\* is answered draws Ticket: if the last instance will be asked in vain, or has
\* just been, that is the first.
Cycle == IF Weighted THEN TotalWeight(listing, weight) ELSE Cardinality(Answering)

Ticket ==
    IF Weighted THEN (counter + 1) % Cycle
    ELSE IF remaining # listing \/ counter % Cardinality(listing) = Cycle THEN 0
    ELSE counter % Cardinality(listing)

\* The tickets of the instances before p, and those of p.
Before(p) == IF Weighted THEN SumOf(weight, {q \in listing : q < p}) ELSE p - 1

Slot(p) == Before(p) .. Before(p) + Share(p) - 1

\* The tickets from a on that have been drawn when t is the next, in a cycle of
\* k; never all of them.
Drawn(a, t, k) == IF a <= t THEN a .. t - 1 ELSE (a .. k - 1) \cup (0 .. t - 1)

\* The instance that does not answer is passed over at once.
PassedInv == remaining = listing \/ (remaining = Answering /\ counter = 0)

\* The round began with some ticket, and what an instance has served in it are
\* the tickets of its own that were drawn.
RoundInv ==
    \E a \in 0 .. Cycle - 1 :
        \A p \in Answering : served[p] = Cardinality(Drawn(a, Ticket, Cycle) \cap Slot(p))

EvenInv == PassedInv /\ RoundInv

-----------------------------------------------------------------------------
(* The list the next instance is taken from.                               *)

LEMMA GivenFacts ==
    ASSUME GivenInv
    PROVE  /\ Cardinality(listing) \in Nat /\ Cardinality(listing) > 1
           /\ Cardinality(listing) <= MaxInstances
           /\ listing = 1 .. Cardinality(listing)
           /\ IsFiniteSet(listing) /\ listing \subseteq Nat
           /\ Max(listing) = Cardinality(listing)
           /\ \A p \in listing : weight[p] \in Nat /\ weight[p] > 0 /\ weight[p] <= MaxWeight
           /\ \A p \in listing : Share(p) \in Nat /\ Share(p) > 0 /\ Share(p) <= MaxWeight
  <1>1. PICK n \in 2 .. MaxInstances : listing = 1 .. n
    BY DEF GivenInv
  <1>2. n \in Nat /\ n > 1 /\ n <= MaxInstances
    BY <1>1, FairShareAssumption
  <1>3. IsFiniteSet(1 .. n) /\ Cardinality(1 .. n) = n
    <2>1. 1 \in Int /\ n \in Int
      BY <1>2
    <2> QED
      BY <1>2, <2>1, FS_Interval
  <1>4. Cardinality(listing) = n /\ IsFiniteSet(listing) /\ listing \subseteq Nat
    BY <1>1, <1>3
  <1>5. Max(listing) = n
    <2>1. n \in listing /\ listing \in SUBSET Nat
      BY <1>1, <1>2
    <2>2. Max(listing) \in listing /\ n <= Max(listing)
      BY <1>4, <2>1, MaxIn
    <2> QED
      BY <1>1, <1>2, <2>2
  <1>6. \A p \in listing : weight[p] \in Nat /\ weight[p] > 0 /\ weight[p] <= MaxWeight
    BY FairShareAssumption DEF GivenInv
  <1>7. \A p \in listing : Share(p) \in Nat /\ Share(p) > 0 /\ Share(p) <= MaxWeight
    BY <1>6, FairShareAssumption DEF Share
  <1> QED
    BY <1>1, <1>2, <1>4, <1>5, <1>6, <1>7

(* The k-th of the first n, from 0. *)
LEMMA NthFirst ==
    ASSUME NEW n \in Nat, NEW k \in 0 .. n - 1
    PROVE  Nth(1 .. n, k) = k + 1
  <1>1. \A p \in 1 .. n : Cardinality({q \in 1 .. n : q < p}) = p - 1
    <2> SUFFICES ASSUME NEW p \in 1 .. n
                 PROVE  Cardinality({q \in 1 .. n : q < p}) = p - 1
      OBVIOUS
    <2>1. {q \in 1 .. n : q < p} = 1 .. p - 1
      OBVIOUS
    <2>2. 1 \in Int /\ p - 1 \in Int /\ 1 <= p
      OBVIOUS
    <2>3. Cardinality(1 .. p - 1) = p - 1
      <3>1. CASE p = 1
        <4>1. 1 .. p - 1 = {}
          BY <3>1
        <4> QED
          BY <3>1, <4>1, FS_EmptySet
      <3>2. CASE p > 1
        BY <2>2, <3>2, FS_Interval
      <3> QED
        BY <3>1, <3>2
    <2> QED
      BY <2>1, <2>3
  <1>2. k + 1 \in 1 .. n /\ Cardinality({q \in 1 .. n : q < k + 1}) = k
    <2>1. k + 1 \in 1 .. n /\ (k + 1) - 1 = k
      OBVIOUS
    <2> QED
      BY <1>1, <2>1
  <1>3. \A p \in 1 .. n : Cardinality({q \in 1 .. n : q < p}) = k => p = k + 1
    BY <1>1
  <1> DEFINE P == CHOOSE p \in 1 .. n : Cardinality({q \in 1 .. n : q < p}) = k
  <1>4. P \in 1 .. n /\ Cardinality({q \in 1 .. n : q < P}) = k
    BY <1>2
  <1>5. P = k + 1
    <2> HIDE DEF P
    <2> QED
      BY <1>3, <1>4
  <1> QED
    BY <1>5 DEF Nth

LEMMA SelectedIn ==
    ASSUME FairInv
    PROVE  Selected \in remaining
  <1>1. remaining \in SUBSET Nat /\ remaining # {} /\ IsFiniteSet(remaining)
    <2>1. remaining \subseteq listing /\ remaining # {}
      BY DEF FairInv, FairTypeOK
    <2>2. IsFiniteSet(listing) /\ listing \subseteq Nat
      BY GivenFacts DEF FairInv
    <2> QED
      BY <2>1, <2>2, FS_Subset
  <1>2. WeightedPick(remaining, weight, counter) \in remaining
    <2> DEFINE reached == Reached(remaining, weight, WeightedCounter(remaining, weight, counter))
    <2>1. reached \in SUBSET remaining
      BY DEF Reached
    <2> HIDE DEF reached
    <2>2. reached # {} => Min(reached) \in reached
      BY <1>1, <2>1, MinIn
    <2>3. Min(remaining) \in remaining
      BY <1>1, MinIn
    <2> QED
      BY <2>1, <2>2, <2>3 DEF WeightedPick, reached
  <1>3. RoundRobinPick(remaining, counter) \in remaining
    <2>1. Cardinality(remaining) \in Nat /\ Cardinality(remaining) > 0 /\ counter \in Nat
      BY <1>1, FS_CardinalityType, FS_EmptySet, FairShareAssumption DEF FairInv, FairTypeOK
    <2>2. \A k \in Nat : k < Cardinality(remaining) => Nth(remaining, k) \in remaining
      BY <1>1, RankTaken DEF Nth
    <2>3. counter % Cardinality(remaining) \in Nat /\ counter % Cardinality(remaining) < Cardinality(remaining)
      BY <2>1
    <2> QED
      BY <2>1, <2>2, <2>3 DEF RoundRobinPick
  <1> QED
    BY <1>2, <1>3 DEF Selected

-----------------------------------------------------------------------------
(* The counters.                                                           *)

LEMMA TotalFacts ==
    ASSUME GivenInv, NEW R \in SUBSET listing, R # {}
    PROVE  /\ TotalWeight(R, weight) = SumOf(weight, R)
           /\ TotalWeight(R, weight) \in Nat /\ TotalWeight(R, weight) > 0
           /\ TotalWeight(R, weight) <= MaxInstances * MaxWeight
  <1>1. IsFiniteSet(R) /\ R \in SUBSET Nat
    BY GivenFacts, FS_Subset
  <1>2. \A p \in R : weight[p] \in Nat /\ weight[p] > 0 /\ weight[p] \in 0 .. MaxWeight
    BY GivenFacts, FairShareAssumption
  <1>3. SumOf(weight, R) \in Nat /\ SumOf(weight, R) > 0
    <2>1. \A p \in R : weight[p] \in Nat
      BY <1>2
    <2>2. \A p \in R : weight[p] > 0
      BY <1>2
    <2> QED
      BY <1>1, <2>1, <2>2, SumNatural
  <1>4. SumOf(weight, R) <= MaxInstances * MaxWeight
    <2>1. MaxWeight \in Nat /\ \A p \in R : weight[p] \in 0 .. MaxWeight
      BY <1>2, FairShareAssumption
    <2>2. SumOf(weight, R) <= Cardinality(R) * MaxWeight
      BY <1>1, <2>1, SumBound
    <2>3. Cardinality(R) \in Nat /\ Cardinality(R) <= MaxInstances
      <3>1. Cardinality(R) <= Cardinality(listing) /\ Cardinality(R) \in Nat
        BY <1>1, GivenFacts, FS_Subset, FS_CardinalityType
      <3> QED
        BY <3>1, GivenFacts, FairShareAssumption
    <2>4. MaxInstances \in Nat /\ MaxWeight \in Nat
      BY FairShareAssumption
    <2>5. \A c, m, b \in Nat : c <= m => c * b <= m * b
      OBVIOUS
    <2>6. Cardinality(R) * MaxWeight <= MaxInstances * MaxWeight
      BY <2>3, <2>4, <2>5
    <2>7. Cardinality(R) * MaxWeight \in Nat /\ MaxInstances * MaxWeight \in Nat
      BY <2>3, <2>4
    <2> QED
      BY <1>3, <2>2, <2>6, <2>7
  <1>5. TotalWeight(R, weight) = SumOf(weight, R)
    <2> DEFINE all == {q \in R : q <= Max(R)}
    <2>1. TotalWeight(R, weight) = SumOf(weight, all)
      BY DEF TotalWeight, WeightUpTo, SumOf
    <2>2. all = R
      BY <1>1, MaxIn
    <2> HIDE DEF all
    <2> QED
      BY <2>1, <2>2
  <1> QED
    BY <1>3, <1>4, <1>5

LEMMA CounterIn ==
    ASSUME FairInv, AdvanceCounter
    PROVE  counter' \in 0 .. MaxInstances * MaxWeight - 1
  <1> DEFINE limit == MaxInstances * MaxWeight
  <1>1. limit \in Nat /\ MaxInstances <= limit
    <2>1. MaxInstances \in Nat /\ MaxWeight \in Nat /\ MaxWeight >= 1
      BY FairShareAssumption
    <2>2. \A m, b \in Nat : b >= 1 => m * b \in Nat /\ m <= m * b
      OBVIOUS
    <2> QED
      BY <2>1, <2>2
  <1>2. counter \in Nat /\ counter <= limit - 1
    BY <1>1 DEF FairInv, FairTypeOK
  <1> DEFINE total == TotalWeight(remaining, weight)
             size == Cardinality(remaining)
  <1>3. total \in Nat /\ total > 0 /\ total <= limit
    BY TotalFacts DEF FairInv, FairTypeOK
  <1>4. size \in Nat /\ size > 0 /\ size <= limit
    <2>1. remaining \subseteq listing /\ remaining # {} /\ GivenInv
      BY DEF FairInv, FairTypeOK
    <2>2. IsFiniteSet(listing) /\ Cardinality(listing) \in Nat /\ Cardinality(listing) <= MaxInstances
      BY <2>1, GivenFacts
    <2>3. IsFiniteSet(remaining) /\ size <= Cardinality(listing)
      BY <2>1, <2>2, FS_Subset
    <2>4. size \in Nat /\ size # 0
      BY <2>1, <2>3, FS_CardinalityType, FS_EmptySet
    <2>5. MaxInstances \in Nat
      BY FairShareAssumption
    <2> HIDE DEF limit, size
    <2> QED
      BY <1>1, <2>2, <2>3, <2>4, <2>5
  <1>5. counter' \in {counter, (counter + 1) % total, (counter + 1) % size}
    BY DEF AdvanceCounter, WeightedCounter, RoundRobinCounter
  <1> HIDE DEF limit, total, size
  <1>6. ASSUME NEW k \in Nat, k > 0, k <= limit
        PROVE  (counter + 1) % k \in 0 .. limit - 1
    BY <1>1, <1>2, <1>6
  <1>7. counter' \in 0 .. limit - 1
    BY <1>1, <1>2, <1>3, <1>4, <1>5, <1>6
  <1> QED
    BY <1>7 DEF limit

LEMMA SettledIn ==
    ASSUME GivenInv, NEW s \in [listing -> 0 .. MaxLead]
    PROVE  Settled(s) \in [listing -> 0 .. MaxLead]
  <1>1. MaxLead \in Nat
    BY FairShareAssumption DEF MaxLead
  <1>2. CASE \A p \in Answering : s[p] >= Share(p)
    <2>1. \A p \in listing : (IF p \in broken THEN 0 ELSE s[p] - Share(p)) \in 0 .. MaxLead
      <3> SUFFICES ASSUME NEW p \in listing, p \notin broken
                   PROVE  s[p] - Share(p) \in 0 .. MaxLead
        BY <1>1
      <3>1. Share(p) \in Nat /\ s[p] \in 0 .. MaxLead /\ s[p] >= Share(p)
        BY <1>2, GivenFacts DEF Answering
      <3> QED
        BY <1>1, <3>1
    <2> QED
      BY <1>2, <2>1 DEF Settled
  <1>3. CASE ~ \A p \in Answering : s[p] >= Share(p)
    BY <1>3 DEF Settled
  <1> QED
    BY <1>2, <1>3

-----------------------------------------------------------------------------
LEMMA FairInitially == FairInit => FairInv
  <1> SUFFICES ASSUME FairInit
               PROVE  FairInv
    OBVIOUS
  <1>1. PICK n \in 2 .. MaxInstances :
           /\ strategy \in Strategies
           /\ listing = 1 .. n
           /\ remaining = listing
           /\ weight \in [listing -> 1 .. IF Weighted THEN MaxWeight ELSE 1]
           /\ broken \in Failures(listing)
           /\ counter \in 0 .. MaxInstances * MaxWeight - 1
           /\ served = [p \in listing |-> 0]
    BY DEF FairInit
  <1>2. n \in Nat /\ n >= 2 /\ MaxWeight \in Nat /\ MaxWeight >= 1 /\ 1 \in listing
    BY <1>1, FairShareAssumption
  <1>3. weight \in [listing -> 1 .. MaxWeight]
    <2>1. CASE Weighted
      BY <1>1, <2>1
    <2>2. CASE ~Weighted
      <3>1. weight \in [listing -> 1 .. 1]
        BY <1>1, <2>2
      <3> QED
        BY <1>2, <3>1
    <2> QED
      BY <2>1, <2>2
  <1>4. Max(listing) \in listing
    <2>1. listing \in SUBSET Nat /\ listing # {}
      <3>1. listing \in SUBSET Nat
        BY <1>1
      <3> QED
        BY <1>2, <3>1
    <2>2. IsFiniteSet(listing)
      BY <1>1, <1>2, FS_Interval
    <2> QED
      BY <2>1, <2>2, MaxIn
  <1>5. broken \subseteq listing /\ (~AnyBroken => broken = {} \/ (~Weighted /\ broken = {Max(listing)}))
    BY <1>1, <1>4 DEF Failures
  <1>6. GivenInv
    BY <1>1, <1>3, <1>5 DEF GivenInv
  <1>7. served \in [listing -> 0 .. MaxLead] /\ listing \subseteq 1 .. MaxInstances
    BY <1>1, <1>2, FairShareAssumption DEF MaxLead
  <1>8. remaining \subseteq listing /\ remaining # {}
    <2>1. remaining = listing /\ 1 \in listing
      BY <1>1, <1>2
    <2> QED
      BY <2>1
  <1> QED
    BY <1>1, <1>3, <1>5, <1>6, <1>7, <1>8 DEF FairInv, FairTypeOK

LEMMA FairStep == FairInv /\ [FairNext]_fairVars => FairInv'
  <1> SUFFICES ASSUME FairInv, [FairNext]_fairVars
               PROVE  FairInv'
    OBVIOUS
  <1>1. UNCHANGED givenVars
    BY DEF FairNext, Answered, PassedOn, fairVars
  <1>2. GivenInv'
    BY <1>1 DEF givenVars, FairInv, GivenInv, Weighted
  <1>3. counter' \in 0 .. MaxInstances * MaxWeight - 1
    <2>1. CASE AdvanceCounter
      BY <2>1, CounterIn
    <2>2. CASE counter' = counter
      BY <2>2 DEF FairInv, FairTypeOK
    <2> QED
      BY <2>1, <2>2 DEF FairNext, Answered, PassedOn, fairVars
  <1>4. remaining' \subseteq listing /\ remaining' # {}
    <2>1. remaining \subseteq listing /\ remaining # {} /\ listing # {} /\ IsFiniteSet(remaining)
      <3>1. remaining \subseteq listing /\ remaining # {}
        BY DEF FairInv, FairTypeOK
      <3>2. IsFiniteSet(listing)
        BY GivenFacts DEF FairInv
      <3> QED
        BY <3>1, <3>2, FS_Subset
    <2>2. CASE remaining' = remaining \/ remaining' = listing
      BY <2>1, <2>2
    <2>3. CASE ~Single(remaining) /\ remaining' = remaining \ {Selected}
      <3>1. remaining # {Selected}
        BY <2>3, FS_Singleton DEF Single
      <3> QED
        BY <2>1, <2>3, <3>1
    <2> QED
      BY <2>2, <2>3 DEF FairNext, Answered, PassedOn, fairVars
  <1>5. served' \in [listing -> 0 .. MaxLead]
    <2>1. served \in [listing -> 0 .. MaxLead] /\ MaxLead \in Nat
      BY FairShareAssumption DEF FairInv, FairTypeOK, MaxLead
    <2>2. CASE Answered
      <3>1. [served EXCEPT ![Selected] = IF @ = MaxLead THEN @ ELSE @ + 1] \in [listing -> 0 .. MaxLead]
        <4>1. Selected \in listing
          BY SelectedIn DEF FairInv, FairTypeOK
        <4>2. served[Selected] \in 0 .. MaxLead
          BY <2>1, <4>1
        <4>3. (IF served[Selected] = MaxLead THEN served[Selected] ELSE served[Selected] + 1) \in 0 .. MaxLead
          BY <2>1, <4>2
        <4>4. \A v \in 0 .. MaxLead : [served EXCEPT ![Selected] = v] \in [listing -> 0 .. MaxLead]
          BY <2>1
        <4> QED
          BY <4>3, <4>4
      <3> QED
        BY <2>2, <3>1, SettledIn DEF Answered, FairInv
    <2> QED
      BY <2>1, <2>2 DEF FairNext, PassedOn, fairVars
  <1> QED
    BY <1>1, <1>2, <1>3, <1>4, <1>5 DEF givenVars, FairInv, FairTypeOK

(* Type correctness of both round-robins, with any weights and any         *)
(* instances out of order: the counter stays below the most a listing can  *)
(* weigh, although the list it was reduced for changes with every retry,   *)
(* and an instance is always found to select.                              *)
THEOREM FairTypeCorrect == FairSpec => []FairTypeOK
  <1>1. FairInv => FairTypeOK
    BY DEF FairInv
  <1> QED
    BY <1>1, FairInitially, FairStep, PTL DEF FairSpec

-----------------------------------------------------------------------------
(* The cycle.                                                              *)

(* Counting on from c in a cycle of k.                                     *)
LEMMA NextTurn ==
    ASSUME NEW c \in Nat, NEW k \in Nat \ {0}
    PROVE  /\ c % k \in 0 .. k - 1
           /\ c < k => c % k = c
           /\ (c + 1) % k = IF c % k = k - 1 THEN 0 ELSE (c % k) + 1
  <1> DEFINE q == c \div k
             r == c % k
             q1 == (c + 1) \div k
             r1 == (c + 1) % k
  <1>1. q \in Nat /\ r \in 0 .. k - 1 /\ c = k * q + r
    OBVIOUS
  <1>2. q1 \in Nat /\ r1 \in 0 .. k - 1 /\ c + 1 = k * q1 + r1
    OBVIOUS
  <1> HIDE DEF q, r, q1, r1
  <1>3. ASSUME NEW a \in Nat, NEW b \in Nat, NEW x \in 0 .. k - 1, NEW y \in 0 .. k - 1,
               k * a + x = k * b + y
        PROVE  x = y
    <2>1. k * (a - b) = y - x
      BY <1>3
    <2>2. CASE a - b >= 1
      <3>1. k * (a - b) >= k
        BY <2>2
      <3> QED
        BY <2>1, <3>1
    <2>3. CASE a - b <= -1
      <3>1. k * (a - b) <= -k
        BY <2>3
      <3> QED
        BY <2>1, <3>1
    <2>4. CASE a = b
      BY <1>3, <2>4
    <2> QED
      BY <2>2, <2>3, <2>4
  <1>4. c < k => r = c
    <2> SUFFICES ASSUME c < k
                 PROVE  r = c
      OBVIOUS
    <2>1. k * q + r = k * 0 + c
      BY <1>1
    <2> QED
      BY <1>1, <1>3, <2>1
  <1>5. CASE r = k - 1
    <2>1. k * q1 + r1 = k * (q + 1) + 0
      BY <1>1, <1>2, <1>5
    <2>2. r1 = 0
      BY <1>1, <1>2, <1>3, <2>1
    <2> QED
      BY <1>1, <1>4, <1>5, <2>2 DEF r, r1
  <1>6. CASE r # k - 1
    <2>1. k * q1 + r1 = k * q + (r + 1)
      BY <1>1, <1>2
    <2>2. r1 = r + 1
      BY <1>1, <1>2, <1>3, <1>6, <2>1
    <2> QED
      BY <1>1, <1>4, <1>6, <2>2 DEF r, r1
  <1> QED
    BY <1>5, <1>6

(* The walk over the weights ends at the instance whose ticket it is.      *)
LEMMA WeightedOwner ==
    ASSUME GivenInv, Weighted, NEW t \in 0 .. Cycle - 1
    PROVE  LET reached == Reached(listing, weight, t)
           IN  reached # {} /\ Min(reached) \in listing /\ t \in Slot(Min(reached))
  <1> DEFINE N == Cardinality(listing)
             reached == Reached(listing, weight, t)
             m == Min(reached)
             Upto(p) == SumOf(weight, {q \in listing : q <= p})
             Below(p) == SumOf(weight, {q \in listing : q < p})
  <1>1. N \in Nat /\ N > 1 /\ listing = 1 .. N /\ IsFiniteSet(listing) /\ listing \subseteq Nat
    BY GivenFacts
  <1>2. \A p \in listing : weight[p] \in Nat
    BY GivenFacts
  <1>3. Cycle \in Nat /\ Cycle = SumOf(weight, listing) /\ t \in Nat /\ t < Cycle
    <2>1. Cycle = TotalWeight(listing, weight)
      BY DEF Cycle
    <2>2. listing \in SUBSET listing /\ listing # {}
      BY <1>1
    <2>3. Cycle \in Nat /\ Cycle = SumOf(weight, listing)
      BY <2>1, <2>2, TotalFacts
    <2> QED
      BY <2>3
  <1>4. reached = {p \in listing : t < Upto(p)}
    BY DEF Reached, WeightUpTo, SumOf
  <1> HIDE DEF N, Upto, Below
  <1>5. \A p \in listing : Upto(p) \in Nat /\ Below(p) \in Nat /\ Upto(p) = weight[p] + Below(p)
    <2> SUFFICES ASSUME NEW p \in listing
                 PROVE  Upto(p) \in Nat /\ Below(p) \in Nat /\ Upto(p) = weight[p] + Below(p)
      OBVIOUS
    <2> DEFINE A == {q \in listing : q <= p}
               B == {q \in listing : q < p}
    <2>1. A \subseteq listing /\ p \in A /\ B = A \ {p}
      BY <1>1
    <2>2. Upto(p) = SumOf(weight, A) /\ Below(p) = SumOf(weight, B)
      BY DEF Upto, Below
    <2> HIDE DEF A, B
    <2>3. IsFiniteSet(A) /\ IsFiniteSet(B) /\ B \subseteq listing
      BY <1>1, <2>1, FS_Subset
    <2>4. SumOf(weight, A) \in Nat /\ SumOf(weight, B) \in Nat
      BY <1>2, <2>1, <2>3, SumNatural
    <2>5. SumOf(weight, A) = weight[p] + SumOf(weight, A \ {p})
      BY <1>2, <2>1, <2>3, SumWithout
    <2> QED
      BY <2>1, <2>2, <2>4, <2>5
  <1>6. N \in reached
    <2>1. {q \in listing : q <= N} = listing /\ N \in listing
      BY <1>1
    <2>2. Upto(N) = Cycle
      BY <1>3, <2>1 DEF Upto
    <2> QED
      BY <1>3, <1>4, <2>1, <2>2
  <1>7. m \in reached /\ \A p \in reached : m <= p
    <2>1. reached \in SUBSET Nat /\ reached # {}
      BY <1>1, <1>4, <1>6
    <2> HIDE DEF reached
    <2> QED
      BY <2>1, MinIn
  <1> HIDE DEF reached, m
  <1>8. m \in listing /\ m \in Nat /\ t < Upto(m)
    BY <1>1, <1>4, <1>7
  <1>9. Below(m) <= t
    <2>1. CASE m = 1
      <3>1. {q \in listing : q < m} = {}
        BY <1>1, <2>1
      <3>2. SumOf(weight, {}) = 0
        BY <1>1, <1>2, SumAny
      <3>3. Below(m) = 0
        BY <3>1, <3>2 DEF Below
      <3> QED
        BY <1>3, <3>3
    <2>2. CASE m # 1
      <3>1. m - 1 \in listing /\ {q \in listing : q < m} = {q \in listing : q <= m - 1}
        BY <1>1, <1>8, <2>2
      <3>2. m - 1 \notin reached
        BY <1>7, <1>8
      <3>3. ~ (t < Upto(m - 1))
        BY <1>4, <3>1, <3>2
      <3>4. Below(m) = Upto(m - 1)
        BY <3>1 DEF Below, Upto
      <3>5. Upto(m - 1) \in Nat
        BY <1>5, <3>1
      <3> QED
        BY <1>3, <3>3, <3>4, <3>5
    <2> QED
      BY <2>1, <2>2
  <1>10. t \in Slot(m)
    <2>1. Share(m) = weight[m] /\ Before(m) = Below(m)
      BY DEF Share, Before, Below
    <2>2. t < weight[m] + Below(m) /\ Below(m) \in Nat /\ weight[m] \in Nat
      BY <1>2, <1>5, <1>8
    <2> QED
      BY <1>3, <1>9, <2>1, <2>2 DEF Slot
  <1> QED
    BY <1>6, <1>8, <1>10 DEF reached, m

\* Every ticket is one instance's, which has as many as its share.
LEMMA SlotFacts ==
    ASSUME GivenInv, ~AnyBroken
    PROVE  /\ Cycle \in Nat /\ Cycle > 0
           /\ \A p \in Answering : /\ Slot(p) \subseteq 0 .. Cycle - 1
                                   /\ IsFiniteSet(Slot(p)) /\ Cardinality(Slot(p)) = Share(p)
           /\ \A p, q \in Answering : p # q => Slot(p) \cap Slot(q) = {}
           /\ \A t \in 0 .. Cycle - 1 : \E p \in Answering : t \in Slot(p)
           /\ ~Weighted => Answering = 1 .. Cycle
           /\ ~Weighted => IF broken = {} THEN Cycle = Cardinality(listing)
                           ELSE Cycle = Cardinality(listing) - 1 /\ broken = {Cardinality(listing)}
  <1> DEFINE N == Cardinality(listing)
  <1>1. /\ N \in Nat /\ N > 1 /\ listing = 1 .. N /\ IsFiniteSet(listing) /\ listing \subseteq Nat
        /\ Max(listing) = N
    BY GivenFacts
  <1>2. \A p \in listing : weight[p] \in Nat
    BY GivenFacts
  <1>3. Answering \subseteq listing /\ \A p \in Answering : Share(p) \in Nat /\ Share(p) > 0
    BY GivenFacts DEF Answering
  <1>4. ASSUME NEW p \in Answering, Before(p) \in Nat
        PROVE  IsFiniteSet(Slot(p)) /\ Cardinality(Slot(p)) = Share(p)
    <2> DEFINE a == Before(p)
               b == Before(p) + Share(p) - 1
    <2>1. a \in Int /\ b \in Int /\ a <= b /\ b - a + 1 = Share(p)
      BY <1>3, <1>4
    <2> HIDE DEF a, b
    <2>2. IsFiniteSet(a .. b) /\ Cardinality(a .. b) = b - a + 1
      BY <2>1, FS_Interval
    <2> QED
      BY <2>1, <2>2 DEF Slot, a, b
  <1>5. CASE Weighted
    <2>1. Answering = listing
      BY <1>5 DEF GivenInv, Answering
    <2>2. Cycle \in Nat /\ Cycle > 0 /\ Cycle = SumOf(weight, listing)
      <3>1. listing \in SUBSET listing /\ listing # {}
        BY <1>1
      <3> QED
        BY <1>5, <3>1, TotalFacts DEF Cycle
    <2> DEFINE Below(p) == {q \in listing : q < p}
               Upto(p) == {q \in listing : q <= p}
    <2>3. ASSUME NEW p \in listing
          PROVE  /\ Before(p) \in Nat /\ Before(p) = SumOf(weight, Below(p))
                 /\ Before(p) + Share(p) = SumOf(weight, Upto(p))
                 /\ Upto(p) \subseteq listing
      <3>1. Upto(p) \subseteq listing /\ p \in Upto(p) /\ Below(p) = Upto(p) \ {p}
        BY <1>1
      <3>2. Before(p) = SumOf(weight, Below(p)) /\ Share(p) = weight[p]
        BY <1>5 DEF Before, Share
      <3> HIDE DEF Below, Upto
      <3>3. IsFiniteSet(Upto(p)) /\ IsFiniteSet(Below(p)) /\ Below(p) \subseteq listing
        BY <1>1, <3>1, FS_Subset
      <3>4. SumOf(weight, Below(p)) \in Nat
        BY <1>2, <3>3, SumNatural
      <3>5. SumOf(weight, Upto(p)) = weight[p] + SumOf(weight, Upto(p) \ {p})
        BY <1>2, <3>1, <3>3, SumWithout
      <3> QED
        BY <1>2, <3>1, <3>2, <3>4, <3>5
    <2>4. \A p \in listing : Before(p) + Share(p) <= Cycle
      <3> SUFFICES ASSUME NEW p \in listing
                   PROVE  Before(p) + Share(p) <= Cycle
        OBVIOUS
      <3> HIDE DEF Below, Upto
      <3> QED
        BY <1>1, <1>2, <2>2, <2>3, SumMonotone
    <2>5. \A p, q \in listing : p < q => Before(p) + Share(p) <= Before(q)
      <3> SUFFICES ASSUME NEW p \in listing, NEW q \in listing, p < q
                   PROVE  Before(p) + Share(p) <= Before(q)
        OBVIOUS
      <3>1. Upto(p) \subseteq Below(q) /\ Below(q) \subseteq listing
        BY <1>1
      <3> HIDE DEF Below, Upto
      <3>2. IsFiniteSet(Below(q))
        BY <1>1, <3>1, FS_Subset
      <3>3. SumOf(weight, Upto(p)) <= SumOf(weight, Below(q))
        BY <1>2, <3>1, <3>2, SumMonotone
      <3> QED
        BY <2>3, <3>3
    <2>6. \A p \in Answering : Slot(p) \subseteq 0 .. Cycle - 1
      <3> HIDE DEF Below, Upto
      <3> QED
        BY <1>3, <2>1, <2>2, <2>3, <2>4 DEF Slot
    <2>7. \A p, q \in Answering : p # q => Slot(p) \cap Slot(q) = {}
      <3> SUFFICES ASSUME NEW p \in Answering, NEW q \in Answering, p # q
                   PROVE  Slot(p) \cap Slot(q) = {}
        OBVIOUS
      <3> HIDE DEF Below, Upto
      <3>1. p < q \/ q < p
        BY <1>1, <1>3
      <3>2. Before(p) \in Nat /\ Before(q) \in Nat /\ Share(p) \in Nat /\ Share(q) \in Nat
        BY <1>3, <2>3
      <3>3. Before(p) + Share(p) <= Before(q) \/ Before(q) + Share(q) <= Before(p)
        BY <1>3, <2>5, <3>1
      <3> QED
        BY <3>2, <3>3 DEF Slot
    <2>8. \A t \in 0 .. Cycle - 1 : \E p \in Answering : t \in Slot(p)
      BY <1>5, <2>1, WeightedOwner
    <2> HIDE DEF N, Below, Upto
    <2>9. \A p \in Answering : IsFiniteSet(Slot(p)) /\ Cardinality(Slot(p)) = Share(p)
      BY <1>4, <2>1, <2>3
    <2> QED
      BY <1>5, <2>2, <2>6, <2>7, <2>8, <2>9
  <1>6. CASE ~Weighted
    <2>1. broken = {} \/ broken = {N}
      BY <1>1, <1>6 DEF GivenInv
    <2>2. Answering = 1 .. IF broken = {} THEN N ELSE N - 1
      BY <1>1, <2>1 DEF Answering
    <2>3. Cycle = IF broken = {} THEN N ELSE N - 1
      <3>1. Cycle = Cardinality(Answering)
        BY <1>6 DEF Cycle
      <3>2. 1 \in Int /\ N \in Int /\ N - 1 \in Int
        BY <1>1
      <3> HIDE DEF N
      <3>3. Cardinality(1 .. N) = N /\ Cardinality(1 .. N - 1) = N - 1
        BY <1>1, <3>2, FS_Interval
      <3> QED
        BY <2>2, <3>1, <3>3
    <2>4. Cycle \in Nat /\ Cycle > 0 /\ Answering = 1 .. Cycle
      BY <1>1, <2>2, <2>3
    <2>5. \A p \in Answering : /\ Before(p) = p - 1 /\ Before(p) \in Nat
                               /\ Share(p) = 1 /\ Slot(p) = {p - 1}
      <3> SUFFICES ASSUME NEW p \in Answering
                   PROVE  Before(p) = p - 1 /\ Before(p) \in Nat /\ Share(p) = 1 /\ Slot(p) = {p - 1}
        OBVIOUS
      <3>1. Before(p) = p - 1 /\ Share(p) = 1
        BY <1>6 DEF Before, Share
      <3>2. p \in Nat /\ p - 1 \in Nat
        BY <2>4
      <3> QED
        BY <3>1, <3>2 DEF Slot
    <2>6. \A p \in Answering : Slot(p) \subseteq 0 .. Cycle - 1
      BY <2>4, <2>5
    <2>7. \A p, q \in Answering : p # q => Slot(p) \cap Slot(q) = {}
      BY <2>4, <2>5
    <2>8. \A t \in 0 .. Cycle - 1 : \E p \in Answering : t \in Slot(p)
      <3> SUFFICES ASSUME NEW t \in 0 .. Cycle - 1
                   PROVE  \E p \in Answering : t \in Slot(p)
        OBVIOUS
      <3>1. t + 1 \in Answering /\ (t + 1) - 1 = t
        BY <2>4
      <3>2. t \in Slot(t + 1)
        BY <2>5, <3>1
      <3> QED
        BY <3>1, <3>2
    <2>9. \A p \in Answering : IsFiniteSet(Slot(p)) /\ Cardinality(Slot(p)) = Share(p)
      BY <1>4, <2>5
    <2> HIDE DEF N
    <2> QED
      BY <1>6, <2>1, <2>3, <2>4, <2>6, <2>7, <2>8, <2>9 DEF N
  <1> QED
    BY <1>5, <1>6

\* The ticket after t in a cycle of k.
Following(t, k) == IF t = k - 1 THEN 0 ELSE t + 1

LEMMA TicketIn ==
    ASSUME FairInv, PassedInv, ~AnyBroken
    PROVE  Ticket \in 0 .. Cycle - 1
  <1> DEFINE N == Cardinality(listing)
  <1>1. GivenInv /\ counter \in Nat
    <2>1. counter \in 0 .. MaxInstances * MaxWeight - 1
      BY DEF FairInv, FairTypeOK
    <2>2. counter \in Nat
      BY <2>1
    <2> QED
      BY <2>2 DEF FairInv
  <1>2. Cycle \in Nat \ {0}
    BY <1>1, SlotFacts
  <1>3. CASE Weighted
    <2>1. Ticket = (counter + 1) % Cycle /\ counter + 1 \in Nat
      BY <1>1, <1>3 DEF Ticket
    <2> QED
      BY <1>2, <2>1, NextTurn
  <1>4. CASE ~Weighted
    <2>1. N \in Nat \ {0} /\ (Cycle = N \/ Cycle = N - 1)
      BY <1>1, <1>4, GivenFacts, SlotFacts
    <2>2. Ticket = 0 \/ (Ticket = counter % N /\ counter % N # Cycle)
      BY <1>4 DEF Ticket
    <2> HIDE DEF N
    <2>3. counter % N \in 0 .. N - 1
      BY <1>1, <2>1, NextTurn
    <2> QED
      BY <1>2, <2>1, <2>2, <2>3
  <1> QED
    BY <1>3, <1>4

(* The instance that answers holds the ticket that is drawn, and one that  *)
(* does not draws none.                                                    *)
LEMMA Turn ==
    ASSUME FairInv, PassedInv, ~AnyBroken, FairNext
    PROVE  /\ Ticket \in 0 .. Cycle - 1
           /\ PassedInv'
           /\ Answered => /\ Selected \in Answering /\ Ticket \in Slot(Selected)
                          /\ Ticket' = Following(Ticket, Cycle)
           /\ PassedOn => Ticket' = Ticket
  <1> DEFINE N == Cardinality(listing)
  <1>1. GivenInv /\ counter \in Nat /\ remaining \subseteq listing
    <2>1. counter \in 0 .. MaxInstances * MaxWeight - 1
      BY DEF FairInv, FairTypeOK
    <2>2. counter \in Nat
      BY <2>1
    <2> QED
      BY <2>2 DEF FairInv, FairTypeOK
  <1>2. N \in Nat /\ N > 1 /\ listing = 1 .. N /\ ~Single(listing)
    BY <1>1, GivenFacts DEF Single
  <1>3. UNCHANGED <<strategy, listing, weight, broken>> /\ AdvanceCounter
    BY DEF FairNext, Answered, PassedOn, givenVars
  <1>4. /\ Cycle' = Cycle /\ (Weighted' <=> Weighted) /\ Answering' = Answering
        /\ Cardinality(listing)' = Cardinality(listing)
    BY <1>3 DEF Cycle, Weighted, Answering
  <1>5. Cycle \in Nat \ {0}
    BY <1>1, SlotFacts
  <1>6. CASE Weighted
    <2>1. broken = {} /\ Answering = listing /\ remaining = listing
      BY <1>1, <1>6 DEF GivenInv, Answering, PassedInv
    <2>2. Cycle = TotalWeight(listing, weight) /\ Ticket = (counter + 1) % Cycle
      BY <1>6 DEF Cycle, Ticket
    <2>3. WeightedCounter(remaining, weight, counter) = Ticket
      BY <1>2, <2>1, <2>2 DEF WeightedCounter
    <2>4. Ticket \in 0 .. Cycle - 1
      BY TicketIn
    <2>5. Selected = Min(Reached(listing, weight, Ticket)) /\ Ticket \in Slot(Selected) /\ Selected \in listing
      <3>1. Reached(listing, weight, Ticket) # {}
        BY <1>1, <1>6, <2>4, WeightedOwner
      <3>2. Selected = Min(Reached(listing, weight, Ticket))
        BY <1>2, <1>6, <2>1, <2>3, <3>1 DEF Selected, WeightedPick
      <3> QED
        BY <1>1, <1>6, <2>4, <3>2, WeightedOwner
    <2>6. Answered /\ ~PassedOn /\ remaining' = listing
      BY <2>1, <2>5 DEF FairNext, PassedOn, Answered
    <2>7. counter' = Ticket
      BY <1>3, <1>6, <2>3 DEF AdvanceCounter
    <2>8. Ticket' = (Ticket + 1) % Cycle
      <3>1. Ticket' = (counter' + 1) % Cycle'
        BY <1>4, <1>6 DEF Ticket
      <3> QED
        BY <1>4, <2>7, <3>1
    <2>9. Ticket' = Following(Ticket, Cycle)
      <3> DEFINE x == Ticket
      <3>1. x \in Nat /\ x < Cycle
        BY <1>5, <2>4
      <3> HIDE DEF x
      <3>2. (x + 1) % Cycle = Following(x, Cycle)
        BY <1>5, <3>1, NextTurn DEF Following
      <3> QED
        BY <2>8, <3>2 DEF x
    <2>10. PassedInv'
      BY <1>3, <2>6 DEF PassedInv
    <2> QED
      BY <2>1, <2>4, <2>5, <2>6, <2>9, <2>10
  <1>7. CASE ~Weighted
    <2>1. Answering = 1 .. Cycle /\ \A p \in Answering : Slot(p) = {p - 1}
      <3>1. Answering = 1 .. Cycle
        BY <1>1, <1>7, SlotFacts
      <3>2. ASSUME NEW p \in Answering
            PROVE  Slot(p) = {p - 1}
        <4>1. Before(p) = p - 1 /\ Share(p) = 1 /\ p - 1 \in Int
          BY <1>5, <1>7, <3>1 DEF Before, Share
        <4> QED
          BY <4>1 DEF Slot
      <3> QED
        BY <3>1, <3>2
    <2>2. IF broken = {} THEN Cycle = N ELSE Cycle = N - 1 /\ broken = {N}
      BY <1>1, <1>7, SlotFacts
    <2> DEFINE c == counter % N
    <2>3. c \in 0 .. N - 1 /\ (counter + 1) % N = Following(c, N)
      <3>1. N \in Nat \ {0}
        BY <1>2
      <3> HIDE DEF N
      <3> QED
        BY <1>1, <3>1, NextTurn DEF Following
    <2>4. Ticket = IF remaining # listing \/ c = Cycle THEN 0 ELSE c
      BY <1>7 DEF Ticket
    <2>5. Ticket' = IF remaining' # listing \/ counter' % N = Cycle THEN 0 ELSE counter' % N
      BY <1>3, <1>4, <1>7 DEF Ticket
    <2>6. \A x \in Nat : x < N => x % N = x
      <3>1. N \in Nat \ {0}
        BY <1>2
      <3> HIDE DEF N
      <3> QED
        BY <3>1, NextTurn
    <2>7. Ticket \in 0 .. Cycle - 1
      BY TicketIn
    <2>8. CASE remaining = listing
      <3>1. Selected = c + 1 /\ counter' = Following(c, N)
        <4>1. Selected = Nth(1 .. N, c)
          BY <1>2, <1>7, <2>8 DEF Selected, RoundRobinPick
        <4>2. counter' = (counter + 1) % N
          BY <1>2, <1>3, <1>7, <2>8 DEF AdvanceCounter, RoundRobinCounter
        <4> HIDE DEF c, N
        <4> QED
          BY <1>2, <2>3, <4>1, <4>2, NthFirst
      <3> HIDE DEF c, N
      <3>2. counter' \in Nat /\ counter' < N /\ counter' % N = counter'
        BY <1>2, <2>3, <2>6, <3>1 DEF Following
      <3>3. CASE Answered
        <4>1. remaining' = listing /\ Selected \notin broken
          BY <3>3 DEF Answered
        <4>2. c < Cycle /\ Selected \in Answering
          <5>1. c < Cycle
            BY <1>2, <2>2, <2>3, <3>1, <4>1
          <5>2. c + 1 \in 1 .. Cycle
            BY <1>5, <2>3, <5>1
          <5> QED
            BY <2>1, <3>1, <5>1, <5>2
        <4>3. Ticket = c /\ Ticket \in Slot(Selected)
          <5>1. Ticket = c
            BY <2>3, <2>4, <2>8, <4>2, <1>5
          <5>2. (c + 1) - 1 = c
            BY <1>2, <2>3
          <5>3. Slot(Selected) = {Selected - 1}
            BY <2>1, <4>2
          <5> QED
            BY <3>1, <5>1, <5>2, <5>3
        <4>4. Ticket' = IF counter' = Cycle THEN 0 ELSE counter'
          BY <2>5, <3>2, <4>1
        <4>5. Ticket' = Following(c, Cycle)
          BY <1>2, <1>5, <2>2, <2>3, <3>1, <4>2, <4>4 DEF Following
        <4>6. PassedInv' /\ ~PassedOn
          BY <1>3, <4>1 DEF PassedInv, PassedOn
        <4> QED
          BY <2>7, <4>2, <4>3, <4>5, <4>6
      <3>4. CASE PassedOn
        <4>1. Selected \in broken /\ remaining' = listing \ {Selected}
          BY <1>2, <2>8, <3>4 DEF PassedOn
        <4>2. broken = {N} /\ Cycle = N - 1 /\ Selected = N
          BY <2>2, <4>1
        <4>3. c = N - 1
          BY <1>2, <2>3, <3>1, <4>2
        <4>4. counter' = 0
          BY <3>1, <4>3 DEF Following
        <4>5. remaining' = Answering /\ remaining' # listing
          BY <1>2, <4>1, <4>2 DEF Answering
        <4>6. PassedInv'
          BY <1>4, <4>4, <4>5 DEF PassedInv
        <4>7. Ticket = 0 /\ Ticket' = 0
          BY <2>4, <2>5, <4>2, <4>3, <4>5
        <4> QED
          BY <2>7, <3>4, <4>1, <4>6, <4>7 DEF Answered
      <3> QED
        BY <3>3, <3>4 DEF FairNext
    <2>9. CASE remaining # listing
      <3>1. remaining = 1 .. Cycle /\ counter = 0 /\ Ticket = 0
        BY <2>1, <2>4, <2>9 DEF PassedInv
      <3>2. Cycle = N - 1
        <4>1. Cycle # N
          BY <1>2, <2>9, <3>1
        <4> QED
          BY <2>2, <4>1
      <3>3. Cardinality(remaining) = Cycle
        <4>1. 1 \in Int /\ Cycle \in Int /\ 1 <= Cycle
          BY <1>5
        <4> QED
          BY <1>5, <3>1, <4>1, FS_Interval
      <3>4. Selected = 1 /\ Selected \in Answering
        <4>1. 0 \in 0 .. Cycle - 1 /\ 0 % Cycle = 0 /\ 0 + 1 = 1
          BY <1>5
        <4>2. Nth(1 .. Cycle, 0) = 1
          BY <1>5, <4>1, NthFirst
        <4>3. Selected = 1
          BY <1>7, <3>1, <3>3, <4>1, <4>2 DEF Selected, RoundRobinPick
        <4> QED
          BY <1>5, <2>1, <4>3
      <3>5. Answered /\ ~PassedOn /\ remaining' = listing
        BY <3>4 DEF FairNext, PassedOn, Answered, Answering
      <3>6. Ticket \in Slot(Selected)
        <4>1. 1 - 1 = 0
          OBVIOUS
        <4>2. Slot(Selected) = {Selected - 1}
          BY <2>1, <3>4
        <4> QED
          BY <3>1, <3>4, <4>1, <4>2
      <3>7. counter' = IF Cycle = 1 THEN 0 ELSE 1 % Cycle
        <4>1. counter' = IF Cardinality(remaining) = 1 THEN counter ELSE (counter + 1) % Cardinality(remaining)
          BY <1>3, <1>7 DEF AdvanceCounter, RoundRobinCounter, Single
        <4>2. 0 + 1 = 1
          OBVIOUS
        <4> QED
          BY <3>1, <3>3, <4>1, <4>2
      <3>8. counter' = IF Cycle = 1 THEN 0 ELSE 1
        <4>1. 1 \in Nat /\ (1 < Cycle => 1 % Cycle = 1)
          BY <1>5, NextTurn
        <4> QED
          BY <1>5, <3>7, <4>1
      <3> HIDE DEF c, N
      <3>9. counter' \in Nat /\ counter' < N /\ counter' % N = counter' /\ counter' # Cycle
        <4>1. counter' \in Nat /\ counter' < N /\ counter' # Cycle
          BY <1>2, <1>5, <3>2, <3>8
        <4> QED
          BY <2>6, <4>1
      <3>10. Ticket' = counter'
        BY <2>5, <3>5, <3>9
      <3>11. Ticket' = Following(0, Cycle)
        BY <1>5, <3>8, <3>10 DEF Following
      <3>12. PassedInv'
        BY <1>3, <3>5 DEF PassedInv
      <3> QED
        BY <2>7, <3>1, <3>4, <3>5, <3>6, <3>11, <3>12
    <2> QED
      BY <2>8, <2>9
  <1> QED
    BY <1>6, <1>7

-----------------------------------------------------------------------------
(* The rounds.                                                             *)

(* Drawing the next ticket: it is a new one, and ends the round if the     *)
(* following is the one the round began with.                              *)
LEMMA DrawOne ==
    ASSUME NEW k \in Nat \ {0}, NEW a \in 0 .. k - 1, NEW t \in 0 .. k - 1
    PROVE  /\ Following(t, k) \in 0 .. k - 1
           /\ t \notin Drawn(a, t, k)
           /\ IF Following(t, k) = a
              THEN Drawn(a, t, k) \cup {t} = 0 .. k - 1 /\ Drawn(a, a, k) = {}
              ELSE /\ Drawn(a, t, k) \cup {t} = Drawn(a, Following(t, k), k)
                   /\ Following(t, k) \notin Drawn(a, Following(t, k), k)
  <1>1. Following(t, k) \in 0 .. k - 1
    BY DEF Following
  <1>2. t \notin Drawn(a, t, k)
    BY DEF Drawn
  <1>3. CASE Following(t, k) = a
    <2>1. Drawn(a, a, k) = {}
      BY DEF Drawn
    <2>2. \A x \in 0 .. k - 1 : x \in Drawn(a, t, k) \cup {t}
      BY <1>3 DEF Drawn, Following
    <2>3. Drawn(a, t, k) \cup {t} \subseteq 0 .. k - 1
      BY DEF Drawn
    <2> QED
      BY <1>1, <1>2, <1>3, <2>1, <2>2, <2>3
  <1>4. CASE Following(t, k) # a
    <2>1. \A x \in Int : x \in Drawn(a, t, k) \cup {t} <=> x \in Drawn(a, Following(t, k), k)
      BY <1>4 DEF Drawn, Following
    <2>2. Drawn(a, t, k) \cup {t} \subseteq Int /\ Drawn(a, Following(t, k), k) \subseteq Int
      BY <1>1 DEF Drawn
    <2>3. Following(t, k) \notin Drawn(a, Following(t, k), k)
      BY <1>1 DEF Drawn
    <2> QED
      BY <1>1, <1>2, <1>4, <2>1, <2>2, <2>3
  <1> QED
    BY <1>3, <1>4

LEMMA EvenInitially == ~AnyBroken => (FairInit => EvenInv)
  <1> SUFFICES ASSUME ~AnyBroken, FairInit
               PROVE  EvenInv
    OBVIOUS
  <1>1. FairInv
    BY FairInitially
  <1>2. PassedInv /\ served = [p \in listing |-> 0]
    BY DEF FairInit, PassedInv
  <1>3. Cycle \in Nat \ {0}
    BY <1>1, SlotFacts DEF FairInv
  <1>4. Ticket \in 0 .. Cycle - 1
    BY <1>1, <1>2, TicketIn
  <1>5. Drawn(Ticket, Ticket, Cycle) = {}
    BY <1>3, <1>4 DEF Drawn
  <1>6. \A p \in Answering : served[p] = Cardinality(Drawn(Ticket, Ticket, Cycle) \cap Slot(p))
    <2> SUFFICES ASSUME NEW p \in Answering
                 PROVE  served[p] = Cardinality(Drawn(Ticket, Ticket, Cycle) \cap Slot(p))
      OBVIOUS
    <2>1. served[p] = 0
      BY <1>2 DEF Answering
    <2>2. Drawn(Ticket, Ticket, Cycle) \cap Slot(p) = {}
      BY <1>5
    <2> QED
      BY <2>1, <2>2, FS_EmptySet
  <1>7. RoundInv
    BY <1>4, <1>6 DEF RoundInv
  <1> QED
    BY <1>2, <1>7 DEF EvenInv

(* A request that is answered.                                             *)
LEMMA AnsweredEven ==
    ASSUME FairInv, EvenInv, ~AnyBroken, Answered
    PROVE  RoundInv'
  <1> DEFINE t == Ticket
             k == Cycle
             p == Selected
             next == Following(t, k)
             s == [served EXCEPT ![p] = @ + 1]
  <1>1. GivenInv /\ PassedInv /\ FairNext
    BY DEF FairInv, EvenInv, FairNext
  <1>2. k \in Nat \ {0}
    BY <1>1, SlotFacts
  <1>3. t \in 0 .. k - 1 /\ p \in Answering /\ t \in Slot(p) /\ Ticket' = next
    BY <1>1, Turn
  <1>4. PICK a \in 0 .. k - 1 : \A q \in Answering : served[q] = Cardinality(Drawn(a, t, k) \cap Slot(q))
    BY DEF EvenInv, RoundInv
  <1> DEFINE old == Drawn(a, t, k)
             new == old \cup {t}
  <1>5. /\ next \in 0 .. k - 1 /\ t \notin old
        /\ IF next = a THEN new = 0 .. k - 1 /\ Drawn(a, a, k) = {}
           ELSE new = Drawn(a, next, k) /\ next \notin new
    <2> HIDE DEF t, k
    <2> QED
      BY <1>2, <1>3, DrawOne
  <1>6. UNCHANGED <<strategy, listing, weight, broken>>
    BY DEF Answered, givenVars
  <1>7. /\ Cycle' = k /\ Answering' = Answering
        /\ \A q \in Answering : Slot(q)' = Slot(q)
    <2>1. Cycle' = k /\ Answering' = Answering /\ (Weighted' <=> Weighted)
      BY <1>6 DEF Cycle, Weighted, Answering
    <2>2. ASSUME NEW q \in Answering
          PROVE  Slot(q)' = Slot(q)
      BY <1>6 DEF Slot, Before, Share, Weighted
    <2> QED
      BY <2>1, <2>2
  <1>8. \A q \in Answering : /\ q \in listing /\ IsFiniteSet(Slot(q)) /\ Share(q) \in Nat
                             /\ Cardinality(Slot(q)) = Share(q)
                             /\ Slot(q) \subseteq 0 .. k - 1
    BY <1>1, GivenFacts, SlotFacts DEF Answering
  <1>9. served \in [listing -> 0 .. MaxLead]
    BY DEF FairInv, FairTypeOK
  <1> HIDE DEF t, k, p, next, old, new
  <1>10. ASSUME NEW q \in Answering
         PROVE  s[q] = Cardinality(new \cap Slot(q))
    <2>1. IsFiniteSet(old \cap Slot(q)) /\ Cardinality(old \cap Slot(q)) \in Nat
      <3>1. IsFiniteSet(old \cap Slot(q))
        BY <1>8, FS_Intersection
      <3> QED
        BY <3>1, FS_CardinalityType
    <2>2. CASE q = p
      <3>1. new \cap Slot(q) = (old \cap Slot(q)) \cup {t} /\ t \notin old \cap Slot(q)
        BY <1>3, <1>5, <2>2 DEF new
      <3>2. Cardinality((old \cap Slot(q)) \cup {t}) = Cardinality(old \cap Slot(q)) + 1
        BY <2>1, <3>1, FS_AddElement
      <3>3. s[q] = served[q] + 1
        BY <1>8, <1>9, <2>2
      <3>4. served[q] = Cardinality(old \cap Slot(q))
        BY <1>4 DEF old
      <3> HIDE DEF s
      <3> QED
        BY <3>1, <3>2, <3>3, <3>4
    <2>3. CASE q # p
      <3>1. Slot(p) \cap Slot(q) = {}
        BY <1>1, <1>3, <2>3, SlotFacts
      <3>2. new \cap Slot(q) = old \cap Slot(q)
        BY <1>3, <3>1 DEF new
      <3>3. s[q] = served[q]
        BY <1>8, <1>9, <2>3
      <3>4. served[q] = Cardinality(old \cap Slot(q))
        BY <1>4 DEF old
      <3> HIDE DEF s
      <3> QED
        BY <3>2, <3>3, <3>4
    <2> QED
      BY <2>2, <2>3
  <1>11. served' = Settled(s)
    <2>1. served[p] # MaxLead
      <3>1. old \cap Slot(p) \subseteq Slot(p) /\ IsFiniteSet(Slot(p))
        BY <1>3, <1>8
      <3>2. Cardinality(old \cap Slot(p)) <= Cardinality(Slot(p))
        BY <3>1, FS_Subset
      <3>3. served[p] <= Share(p) /\ Share(p) \in Nat
        BY <1>3, <1>4, <1>8, <3>2 DEF old
      <3>4. Share(p) <= MaxWeight /\ MaxWeight \in Nat /\ served[p] \in Int
        BY <1>1, <1>3, <1>8, <1>9, GivenFacts, FairShareAssumption
      <3> QED
        BY <3>3, <3>4 DEF MaxLead
    <2>2. served' = Settled([served EXCEPT ![p] = IF served[p] = MaxLead THEN served[p] ELSE served[p] + 1])
      BY DEF Answered, p
    <2>3. [served EXCEPT ![p] = IF served[p] = MaxLead THEN served[p] ELSE served[p] + 1] = s
      BY <2>1
    <2> HIDE DEF s
    <2> QED
      BY <2>2, <2>3
  <1> HIDE DEF s
  <1>12. CASE next = a
    <2>1. \A q \in Answering : s[q] = Share(q)
      <3> SUFFICES ASSUME NEW q \in Answering
                   PROVE  s[q] = Share(q)
        OBVIOUS
      <3>1. new \cap Slot(q) = Slot(q)
        BY <1>5, <1>8, <1>12
      <3> QED
        BY <1>8, <1>10, <3>1
    <2>2. \A q \in Answering : served'[q] = 0
      <3>1. \A q \in Answering : s[q] >= Share(q)
        BY <1>8, <2>1
      <3>2. Settled(s) = [q \in listing |-> IF q \in broken THEN 0 ELSE s[q] - Share(q)]
        BY <3>1 DEF Settled
      <3>3. ASSUME NEW q \in Answering
            PROVE  served'[q] = 0
        <4>1. q \in listing /\ q \notin broken
          BY DEF Answering
        <4>2. served'[q] = s[q] - Share(q)
          BY <1>11, <3>2, <4>1
        <4>3. s[q] = Share(q) /\ Share(q) \in Nat
          BY <1>8, <2>1
        <4> QED
          BY <4>2, <4>3
      <3> QED
        BY <3>3
    <2>3. \A q \in Answering : Cardinality(Drawn(a, next, k) \cap Slot(q)) = 0
      <3>1. \A q \in Answering : Drawn(a, next, k) \cap Slot(q) = {}
        BY <1>5, <1>12
      <3> QED
        BY <3>1, FS_EmptySet
    <2>4. \A q \in Answering' : served'[q] = Cardinality(Drawn(a, Ticket', Cycle') \cap Slot(q)')
      BY <1>3, <1>7, <2>2, <2>3
    <2>5. a \in 0 .. Cycle' - 1
      BY <1>7
    <2> QED
      BY <2>4, <2>5 DEF RoundInv
  <1>13. CASE next # a
    <2>1. PICK q \in Answering : next \in Slot(q)
      BY <1>1, <1>5, SlotFacts DEF k
    <2>2. s[q] < Share(q)
      <3>1. new \cap Slot(q) \subseteq Slot(q) \ {next}
        BY <1>5, <1>13
      <3>2. IsFiniteSet(Slot(q) \ {next}) /\ Cardinality(Slot(q) \ {next}) = Share(q) - 1
        BY <1>8, <2>1, SizeWithout
      <3>3. Cardinality(new \cap Slot(q)) <= Share(q) - 1 /\ IsFiniteSet(new \cap Slot(q))
        BY <3>1, <3>2, FS_Subset
      <3>4. Cardinality(new \cap Slot(q)) \in Nat
        BY <3>3, FS_CardinalityType
      <3> QED
        BY <1>8, <1>10, <3>3, <3>4
    <2>3. served' = s
      <3>1. s[q] \in Nat
        <4>1. IsFiniteSet(new \cap Slot(q))
          BY <1>8, FS_Intersection
        <4> QED
          BY <1>10, <4>1, FS_CardinalityType
      <3>2. ~ (s[q] >= Share(q))
        BY <1>8, <2>2, <3>1
      <3> QED
        BY <1>11, <3>2 DEF Settled
    <2>4. \A r \in Answering' : served'[r] = Cardinality(Drawn(a, Ticket', Cycle') \cap Slot(r)')
      BY <1>3, <1>5, <1>7, <1>10, <1>13, <2>3
    <2>5. a \in 0 .. Cycle' - 1
      BY <1>7
    <2> QED
      BY <2>4, <2>5 DEF RoundInv
  <1> QED
    BY <1>12, <1>13

LEMMA EvenStep == ~AnyBroken => (FairInv /\ EvenInv /\ [FairNext]_fairVars => EvenInv')
  <1> SUFFICES ASSUME ~AnyBroken, FairInv, EvenInv, [FairNext]_fairVars
               PROVE  EvenInv'
    OBVIOUS
  <1>1. CASE Answered
    <2>1. PassedInv'
      BY <1>1, Turn DEF EvenInv, FairNext
    <2> QED
      BY <1>1, <2>1, AnsweredEven DEF EvenInv
  <1>2. CASE PassedOn \/ UNCHANGED fairVars
    <2>1. UNCHANGED <<strategy, listing, weight, broken, served>>
      BY <1>2 DEF PassedOn, fairVars, givenVars
    <2>2. Cycle' = Cycle /\ Answering' = Answering
      BY <2>1 DEF Cycle, Weighted, Answering
    <2>3. \A q \in Answering : Slot(q)' = Slot(q)
      BY <2>1 DEF Slot, Before, Share, Weighted
    <2>4. PassedInv' /\ Ticket' = Ticket
      <3>1. CASE PassedOn
        BY <3>1, Turn DEF EvenInv, FairNext
      <3>2. CASE UNCHANGED fairVars
        BY <2>1, <2>2, <3>2 DEF fairVars, EvenInv, PassedInv, Ticket, Weighted
      <3> QED
        BY <1>2, <3>1, <3>2
    <2>5. RoundInv'
      BY <2>1, <2>2, <2>3, <2>4 DEF EvenInv, RoundInv
    <2> QED
      BY <2>4, <2>5 DEF EvenInv
  <1> QED
    BY <1>1, <1>2 DEF FairNext

(* With every instance answering, or all but the last of a plain           *)
(* round-robin, no instance is ever ahead of another by more than its      *)
(* share: for every number of instances, all weights, and whatever counter *)
(* an earlier listing left.                                                *)
THEOREM FairEvenShare == ~AnyBroken => (FairSpec => []EvenShare)
  <1> SUFFICES ASSUME ~AnyBroken
               PROVE  FairSpec => []EvenShare
    OBVIOUS
  <1>1. FairInv /\ EvenInv => EvenShare
    <2> SUFFICES ASSUME FairInv, EvenInv, NEW p \in Answering
                 PROVE  served[p] <= Share(p)
      BY DEF EvenShare
    <2>1. PICK a \in 0 .. Cycle - 1 : served[p] = Cardinality(Drawn(a, Ticket, Cycle) \cap Slot(p))
      BY DEF EvenInv, RoundInv
    <2>2. IsFiniteSet(Slot(p)) /\ Cardinality(Slot(p)) = Share(p)
      BY SlotFacts DEF FairInv
    <2>3. Drawn(a, Ticket, Cycle) \cap Slot(p) \subseteq Slot(p)
      OBVIOUS
    <2> QED
      BY <2>1, <2>2, <2>3, FS_Subset
  <1>2. FairInit => FairInv /\ EvenInv
    BY FairInitially, EvenInitially
  <1>3. FairInv /\ EvenInv /\ [FairNext]_fairVars => (FairInv /\ EvenInv)'
    BY FairStep, EvenStep
  <1> QED
    BY <1>1, <1>2, <1>3, PTL DEF FairSpec

=============================================================================
