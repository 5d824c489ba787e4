---------------------------- MODULE DiscoverProofs ----------------------------
(***************************************************************************)
(* Proofs about Discover for every number of calls, every listing and      *)
(* every strategy, whatever callbacks ask and whenever they do.            *)
(*                                                                         *)
(* What a call tells of its outcome rests on two facts: a strategy only    *)
(* ever returns an instance of the array it is given (SelectionsIn),       *)
(* and an attempt is followed by another only if it asked for it           *)
(* (CallOK).                                                               *)
(***************************************************************************)
EXTENDS Discover, SetLemmas, SequenceTheorems

\* What a call keeps: the two arrays grow together, and only after an attempt
\* that asked; the instances tried are of its listing, and none comes twice.
CallOK(tries, marks, phase, array) ==
    /\ Len(marks) = Len(tries)
    /\ phase \in {"idle", "not found"} <=> tries = << >>
    /\ \A k \in 1 .. Len(tries) :
          k < Len(tries) \/ phase = "exhausted" => marks[k] = TRUE
    /\ Range(tries) \subseteq array
    /\ Cardinality(Range(tries)) = Len(tries)
    /\ phase = "exhausted" => Range(tries) = array

CallsOK == \A c \in Call : CallOK(attempts[c], asked[c], pc[c], instances[c])

DiscoverInv ==
    /\ DiscoverTypeOK
    /\ CallsOK

Trace == UNION {[1 .. n -> Elapsed] : n \in 0 .. MaxSamples}

-----------------------------------------------------------------------------
\* What the strategies return, for every list, weight and state.
LEMMA NthIn ==
    ASSUME NEW R \in SUBSET Nat, IsFiniteSet(R), NEW k \in Nat, k < Cardinality(R)
    PROVE  Nth(R, k) \in R
  BY RankTaken DEF Nth

LEMMA RoundRobinIn ==
    ASSUME NEW R \in SUBSET Nat, IsFiniteSet(R), R # {}, NEW c \in Nat
    PROVE  RoundRobinPick(R, c) \in R /\ RoundRobinCounter(R, c) \in Nat
  <1>1. Cardinality(R) \in Nat /\ Cardinality(R) > 0
    BY FS_CardinalityType, FS_EmptySet
  <1>2. /\ c % Cardinality(R) \in Nat /\ c % Cardinality(R) < Cardinality(R)
        /\ (c + 1) % Cardinality(R) \in Nat
    BY <1>1
  <1>3. Nth(R, 0) \in R /\ Nth(R, c % Cardinality(R)) \in R
    BY <1>1, <1>2, NthIn
  <1> QED
    BY <1>2, <1>3 DEF RoundRobinPick, RoundRobinCounter

(* Whatever the weights and the counter are. *)
LEMMA WeightedPickIn ==
    ASSUME NEW R \in SUBSET Nat, R # {}, NEW weight, NEW c
    PROVE  WeightedPick(R, weight, c) \in R
  <1> DEFINE reached == Reached(R, weight, WeightedCounter(R, weight, c))
  <1>1. reached \in SUBSET R
    BY DEF Reached
  <1>2. Min(R) \in R /\ (reached # {} => Min(reached) \in R)
    <2>1. reached \in SUBSET Nat
      BY <1>1
    <2> HIDE DEF reached
    <2>2. reached # {} => Min(reached) \in reached
      BY <2>1, MinIn
    <2> QED
      BY <1>1, <2>2, MinIn
  <1> QED
    BY <1>2 DEF WeightedPick

LEMMA WeightedCounterNat ==
    ASSUME NEW R \in SUBSET Nat, IsFiniteSet(R), R # {},
           NEW weight, \A p \in R : weight[p] \in Nat \ {0}, NEW c \in Nat
    PROVE  WeightedCounter(R, weight, c) \in Nat
  <1> DEFINE all == {q \in R : q <= Max(R)}
  <1>1. all = R
    BY MaxIn
  <1>2. SumOf(weight, R) \in Nat /\ SumOf(weight, R) > 0
    <2>1. \A p \in R : weight[p] \in Nat
      OBVIOUS
    <2>2. \A p \in R : weight[p] > 0
      OBVIOUS
    <2> QED
      BY <2>1, <2>2, SumNatural
  <1>3. TotalWeight(R, weight) = SumOf(weight, R)
    <2>1. TotalWeight(R, weight) = SumOf(weight, all)
      BY DEF TotalWeight, WeightUpTo, SumOf
    <2> HIDE DEF all
    <2> QED
      BY <1>1, <2>1
  <1>4. TotalWeight(R, weight) \in Nat /\ TotalWeight(R, weight) > 0
    BY <1>2, <1>3
  <1>5. (c + 1) % TotalWeight(R, weight) \in Nat
    BY <1>4
  <1> QED
    BY <1>5 DEF WeightedCounter

LEMMA LeastConnectionsIn ==
    ASSUME NEW R, R # {}, NEW count, \A p \in R : count[p] \in Nat
    PROVE  /\ LeastConnectionsPicks(R, count) \subseteq R
           /\ LeastConnectionsPicks(R, count) # {}
  <1>1. PICK n \in {count[p] : p \in R} : \A m \in {count[p] : p \in R} : n <= m
    <2>1. {count[p] : p \in R} \in SUBSET Nat /\ {count[p] : p \in R} # {}
      OBVIOUS
    <2> QED
      BY <2>1, LeastNatural
  <1>2. PICK p \in R : n = count[p]
    OBVIOUS
  <1>3. p \in LeastConnectionsPicks(R, count)
    BY <1>1, <1>2 DEF LeastConnectionsPicks
  <1> QED
    BY <1>3 DEF LeastConnectionsPicks

-----------------------------------------------------------------------------
(* Comparing averages is transitive. *)
LEMMA FasterTransitive ==
    ASSUME NEW a \in Nat, NEW b \in Nat, NEW c \in Nat,
           NEW k \in Nat \ {0}, NEW l \in Nat \ {0}, NEW m \in Nat \ {0},
           a * l < b * k, b * m < c * l
    PROVE  a * m < c * k
  <1>1. (a * l) * m < (b * k) * m
    OBVIOUS
  <1>2. (b * m) * k < (c * l) * k
    OBVIOUS
  <1>3. (a * m) * l < (c * k) * l
    BY <1>1, <1>2
  <1>4. a * m \in Nat /\ c * k \in Nat
    OBVIOUS
  <1>5. ASSUME NEW x \in Nat, NEW y \in Nat, x * l < y * l
        PROVE  x < y
    BY <1>5
  <1> QED
    BY <1>3, <1>4, <1>5

LEMMA TotalNat ==
    ASSUME NEW n \in Nat, NEW times \in [1 .. n -> Nat]
    PROVE  Total(times) \in Nat
  <1>1. IsFiniteSet(1 .. n) /\ \A k \in 1 .. n : times[k] \in Nat
    <2>1. 1 \in Int /\ n \in Int
      OBVIOUS
    <2>2. IsFiniteSet(1 .. n)
      BY <2>1, FS_Interval
    <2> QED
      BY <2>2
  <1>2. SumOf(times, 1 .. n) \in Nat
    BY <1>1, SumNatural
  <1>3. Total(times) = SumOf(times, 1 .. n)
    <2>1. DOMAIN times = 1 .. n
      OBVIOUS
    <2> QED
      BY <2>1 DEF Total, SumOf
  <1> QED
    BY <1>2, <1>3

LEMMA ResponseTimeIn ==
    ASSUME NEW R \in SUBSET Nat, IsFiniteSet(R), R # {},
           NEW taken, \A p \in R : taken[p] \in Seq(Nat)
    PROVE  ResponseTimePicks(R, taken) \subseteq R
  <1> DEFINE sampled == {p \in R : taken[p] # << >>}
             fastest == {p \in sampled : \A q \in sampled : ~Faster(taken[q], taken[p])}
             less == {e \in sampled \X sampled : Faster(taken[e[1]], taken[e[2]])}
  <1>1. sampled \in SUBSET R /\ sampled \in SUBSET Nat /\ IsFiniteSet(sampled)
    <2>1. sampled \in SUBSET R /\ sampled \in SUBSET Nat
      OBVIOUS
    <2> HIDE DEF sampled
    <2> QED
      BY <2>1, FS_Subset
  <1>2. \A p \in sampled : Total(taken[p]) \in Nat /\ Len(taken[p]) \in Nat \ {0}
    <2> SUFFICES ASSUME NEW p \in sampled
                 PROVE  Total(taken[p]) \in Nat /\ Len(taken[p]) \in Nat \ {0}
      OBVIOUS
    <2>1. taken[p] \in Seq(Nat) /\ taken[p] # << >>
      OBVIOUS
    <2> DEFINE times == taken[p]
    <2> HIDE DEF sampled, times
    <2>2. times \in Seq(Nat) /\ times # << >>
      BY <2>1 DEF times
    <2>3. Len(times) \in Nat \ {0} /\ times \in [1 .. Len(times) -> Nat]
      BY <2>2
    <2>4. Total(times) \in Nat
      BY <2>3, TotalNat
    <2> QED
      BY <2>3, <2>4 DEF times
  <1>3. ASSUME NEW x \in sampled, NEW y \in sampled, NEW z \in sampled,
               Faster(taken[x], taken[y]), Faster(taken[y], taken[z])
        PROVE  Faster(taken[x], taken[z])
    <2> HIDE DEF sampled
    <2> QED
      BY <1>2, <1>3, FasterTransitive DEF Faster
  <1>4. \A x \in sampled : ~Faster(taken[x], taken[x])
    <2> HIDE DEF sampled
    <2>1. \A n, m \in Nat : ~ (n * m < n * m)
      OBVIOUS
    <2> QED
      BY <1>2, <2>1 DEF Faster
  <1>5. ASSUME sampled # {}
        PROVE  fastest # {}
    <2>1. \A x, y \in sampled : <<x, y>> \in less <=> Faster(taken[x], taken[y])
      <3> HIDE DEF sampled
      <3> SUFFICES ASSUME NEW x \in sampled, NEW y \in sampled
                   PROVE  <<x, y>> \in less <=> Faster(taken[x], taken[y])
        OBVIOUS
      <3>1. <<x, y>> \in sampled \X sampled /\ <<x, y>>[1] = x /\ <<x, y>>[2] = y
        OBVIOUS
      <3> QED
        BY <3>1
    <2>2. PICK m \in sampled : \A q \in sampled : <<q, m>> \notin less
      <3> HIDE DEF less, sampled
      <3>1. \A x, y, z \in sampled :
               <<x, y>> \in less /\ <<y, z>> \in less => <<x, z>> \in less
        BY <1>3, <2>1
      <3>2. \A x \in sampled : <<x, x>> \notin less
        BY <1>4, <2>1
      <3> QED
        BY <1>1, <1>5, <3>1, <3>2, FiniteMinimal
    <2>3. \A q \in sampled : ~Faster(taken[q], taken[m])
      <3> HIDE DEF less, sampled
      <3> QED
        BY <2>1, <2>2
    <2>4. m \in fastest
      <3> HIDE DEF less, sampled
      <3> QED
        BY <2>3
    <2> QED
      BY <2>4
  <1>6. fastest \in SUBSET R /\ fastest \in SUBSET Nat
    <2>1. fastest \in SUBSET sampled
      OBVIOUS
    <2> HIDE DEF fastest, sampled
    <2> QED
      BY <1>1, <2>1
  <1>7. sampled # {} => Min(fastest) \in R
    <2> HIDE DEF fastest, sampled
    <2> QED
      BY <1>5, <1>6, MinIn
  <1>8. ResponseTimePicks(R, taken) =
           IF Single(R) \/ Min(R) \notin sampled THEN R ELSE {Min(fastest)}
    BY DEF ResponseTimePicks
  <1> HIDE DEF fastest, sampled
  <1> QED
    BY <1>7, <1>8

-----------------------------------------------------------------------------
LEMMA ListingFacts ==
    ASSUME NEW L \in Listings \cup {{}}
    PROVE  /\ L \in SUBSET Positions /\ L \in SUBSET Nat
           /\ IsFiniteSet(L)
           /\ \A p \in L : Weight[p] \in Nat \ {0}
  <1>1. IsFiniteSet({})
    BY FS_EmptySet
  <1> QED
    BY <1>1, DiscoverAssumption DEF Positions, Weight

LEMMA TraceFacts ==
    ASSUME NEW times \in Trace
    PROVE  times \in Seq(Nat)
  <1>1. PICK n \in 0 .. MaxSamples : times \in [1 .. n -> Elapsed]
    BY DEF Trace
  <1>2. n \in Nat
    BY DiscoverAssumption
  <1>3. times \in [1 .. n -> Nat]
    <2>1. Elapsed \subseteq Nat
      BY DiscoverAssumption
    <2> QED
      BY <1>1, <2>1
  <1> QED
    BY <1>2, <1>3

(* The latest samples, with the one that is recorded. *)
LEMMA LatestFacts ==
    ASSUME NEW times \in Trace, NEW t \in Elapsed
    PROVE  Latest(Append(times, t)) \in Trace
  <1>1. PICK n \in 0 .. MaxSamples : times \in [1 .. n -> Elapsed]
    BY DEF Trace
  <1>2. MaxSamples \in Nat \ {0} /\ n \in Nat
    BY <1>1, DiscoverAssumption
  <1> DEFINE new == Append(times, t)
  <1>3. times \in Seq(Elapsed) /\ Len(times) = n
    BY <1>1, <1>2
  <1>4. new \in Seq(Elapsed) /\ Len(new) = n + 1
    BY <1>3
  <1> HIDE DEF new
  <1>5. CASE n < MaxSamples
    <2>1. Latest(new) = new
      BY <1>2, <1>4, <1>5 DEF Latest
    <2>2. n + 1 \in 0 .. MaxSamples /\ new \in [1 .. n + 1 -> Elapsed]
      BY <1>2, <1>4, <1>5
    <2> QED
      BY <2>1, <2>2 DEF Trace, new
  <1>6. CASE n = MaxSamples
    <2> DEFINE rest == SubSeq(new, Len(new) - MaxSamples + 1, Len(new))
    <2>1. Latest(new) = rest
      BY <1>2, <1>4, <1>6 DEF Latest
    <2>2. rest = SubSeq(new, 2, n + 1)
      BY <1>2, <1>4, <1>6
    <2>3. rest \in Seq(Elapsed) /\ Len(rest) = n
      <3>1. 2 \in Int /\ n + 1 \in Int /\ 2 <= n + 1
        BY <1>2, <1>6
      <3>2. \A i \in 2 .. n + 1 : new[i] \in Elapsed
        BY <1>2, <1>4
      <3> HIDE DEF rest
      <3>3. SubSeq(new, 2, n + 1) \in Seq(Elapsed)
        BY <3>1, <3>2, SubSeqProperties
      <3>4. Len(SubSeq(new, 2, n + 1)) = IF 2 <= n + 1 THEN n + 1 - 2 + 1 ELSE 0
        BY <3>1, <3>2, SubSeqProperties
      <3> QED
        BY <1>2, <2>2, <3>1, <3>3, <3>4
    <2> HIDE DEF rest
    <2>4. rest \in [1 .. n -> Elapsed] /\ n \in 0 .. MaxSamples
      BY <1>1, <2>3
    <2> QED
      BY <2>1, <2>4 DEF Trace, new
  <1> QED
    BY <1>1, <1>2, <1>5, <1>6

LEMMA AppendFacts ==
    ASSUME NEW S, NEW s \in Seq(S), NEW e \in S
    PROVE  /\ Append(s, e) \in Seq(S)
           /\ Len(Append(s, e)) = Len(s) + 1 /\ Len(s) \in Nat
           /\ \A k \in 1 .. Len(s) : Append(s, e)[k] = s[k]
           /\ Append(s, e)[Len(s) + 1] = e
           /\ Append(s, e) # << >>
           /\ DOMAIN s = 1 .. Len(s)
           /\ Range(Append(s, e)) = Range(s) \cup {e}
  <1> DEFINE t == Append(s, e)
  <1>1. /\ t \in Seq(S)
        /\ Len(t) = Len(s) + 1 /\ Len(s) \in Nat
        /\ \A k \in 1 .. Len(s) : t[k] = s[k]
        /\ t[Len(s) + 1] = e
        /\ DOMAIN s = 1 .. Len(s) /\ DOMAIN t = 1 .. Len(s) + 1
    OBVIOUS
  <1>2. t # << >>
    BY <1>1
  <1> HIDE DEF t
  <1>3. Range(t) = Range(s) \cup {e}
    <2>1. 1 .. Len(s) + 1 = (1 .. Len(s)) \cup {Len(s) + 1}
      BY <1>1
    <2>2. Range(t) = {t[k] : k \in 1 .. Len(s) + 1}
      BY <1>1 DEF Range
    <2>3. Range(s) = {s[k] : k \in 1 .. Len(s)}
      BY <1>1 DEF Range
    <2> QED
      BY <1>1, <2>1, <2>2, <2>3
  <1> QED
    BY <1>1, <1>2, <1>3 DEF t

(* Every strategy selects among the instances it is given, and leaves a    *)
(* counter it can go on with.                                              *)
LEMMA SelectionsIn ==
    ASSUME DiscoverTypeOK, NEW L \in Listings \cup {{}}, NEW R \in SUBSET L, R # {}
    PROVE  /\ Selections(R) \subseteq R
           /\ CounterAfter(R) \in Nat
  <1>1. R \in SUBSET Positions /\ R \in SUBSET Nat /\ IsFiniteSet(R)
    BY ListingFacts, FS_Subset
  <1>2. \A p \in R : Weight[p] \in Nat \ {0}
    BY ListingFacts
  <1>3. counter \in Nat
    BY DEF DiscoverTypeOK
  <1>4. CASE strategy = "random"
    BY <1>3, <1>4 DEF Selections, CounterAfter
  <1>5. CASE strategy = "round-robin"
    <2>1. RoundRobinPick(R, counter) \in R /\ RoundRobinCounter(R, counter) \in Nat
      BY <1>1, <1>3, RoundRobinIn
    <2> QED
      BY <1>5, <2>1 DEF Selections, CounterAfter
  <1>6. CASE strategy = "weighted-round-robin"
    <2>1. WeightedPick(R, Weight, counter) \in R
      BY <1>1, WeightedPickIn
    <2>2. WeightedCounter(R, Weight, counter) \in Nat
      BY <1>1, <1>2, <1>3, WeightedCounterNat
    <2> QED
      BY <1>6, <2>1, <2>2 DEF Selections, CounterAfter
  <1>7. CASE strategy = "least-connections"
    <2>1. \A p \in R : connections[p] \in Nat
      BY <1>1 DEF DiscoverTypeOK
    <2>2. LeastConnectionsPicks(R, connections) \subseteq R
      BY <2>1, LeastConnectionsIn
    <2> QED
      BY <1>3, <1>7, <2>2 DEF Selections, CounterAfter
  <1>8. CASE strategy = "response-time"
    <2>1. \A p \in R : samples[p] \in Seq(Nat)
      <3>1. \A p \in R : samples[p] \in Trace
        BY <1>1 DEF DiscoverTypeOK, Trace
      <3> QED
        BY <3>1, TraceFacts
    <2>2. ResponseTimePicks(R, samples) \subseteq R
      BY <1>1, <2>1, ResponseTimeIn
    <2> QED
      BY <1>3, <1>8, <2>2 DEF Selections, CounterAfter
  <1> QED
    BY <1>4, <1>5, <1>6, <1>7, <1>8, DiscoverAssumption DEF DiscoverTypeOK

-----------------------------------------------------------------------------
\* The steps of one call.
LEMMA AttemptOK ==
    ASSUME NEW tries \in Seq(Positions), NEW marks \in Seq(BOOLEAN), NEW phase,
           NEW array \in Listings \cup {{}}, CallOK(tries, marks, phase, array),
           NEW p \in array, p \notin Range(tries),
           tries # << >> => marks[Len(tries)] = TRUE
    PROVE  CallOK(Append(tries, p), Append(marks, FALSE), "trying", array)
  <1> DEFINE n == Len(tries)
             more == Append(tries, p)
             kept == Append(marks, FALSE)
  <1>1. p \in Positions
    BY ListingFacts
  <1>2. /\ Len(more) = n + 1 /\ n \in Nat /\ more # << >>
        /\ Range(more) = Range(tries) \cup {p}
    BY <1>1, AppendFacts
  <1>3. Len(kept) = n + 1 /\ \A k \in 1 .. n : kept[k] = marks[k]
    <2>1. Len(marks) = n
      BY DEF CallOK
    <2> DEFINE S == BOOLEAN
               e == FALSE
    <2>2. marks \in Seq(S) /\ e \in S
      OBVIOUS
    <2> HIDE DEF S, e
    <2>3. Len(Append(marks, e)) = Len(marks) + 1
      BY <2>2, AppendFacts
    <2>4. \A k \in 1 .. Len(marks) : Append(marks, e)[k] = marks[k]
      BY <2>2, AppendFacts
    <2> QED
      BY <2>1, <2>3, <2>4 DEF e
  <1>4. tries = << >> => n = 0
    OBVIOUS
  <1> HIDE DEF n, more, kept
  <1>5. /\ \A k \in 1 .. n : k < n => marks[k] = TRUE
        /\ tries # << >> => marks[n] = TRUE
        /\ Range(tries) \subseteq array
        /\ Cardinality(Range(tries)) = n
    BY DEF CallOK, n
  <1>6. ASSUME NEW k \in 1 .. n + 1, k < n + 1
        PROVE  kept[k] = TRUE
    <2>1. k \in 1 .. n /\ (k < n \/ k = n)
      BY <1>2, <1>6
    <2>2. tries # << >>
      BY <1>2, <1>4, <2>1
    <2> QED
      BY <1>3, <1>5, <2>1, <2>2
  <1>7. Cardinality(Range(more)) = n + 1
    <2>1. IsFiniteSet(Range(tries))
      BY <1>5, ListingFacts, FS_Subset
    <2>2. Cardinality(Range(tries) \cup {p}) = Cardinality(Range(tries)) + 1
      BY <2>1, FS_AddElement
    <2> QED
      BY <1>2, <1>5, <2>2
  <1>8. CallOK(more, kept, "trying", array)
    <2>1. Range(more) \subseteq array
      BY <1>2, <1>5
    <2>2. \A k \in 1 .. Len(more) :
             k < Len(more) \/ "trying" = "exhausted" => kept[k] = TRUE
      BY <1>2, <1>6
    <2> QED
      BY <1>2, <1>3, <1>7, <2>1, <2>2 DEF CallOK
  <1> QED
    BY <1>8 DEF more, kept

LEMMA ExhaustedOK ==
    ASSUME NEW tries \in Seq(Positions), NEW marks \in Seq(BOOLEAN),
           NEW array \in Listings \cup {{}}, CallOK(tries, marks, "trying", array),
           marks[Len(tries)] = TRUE,
           array \ Range(tries) = {} \/ Len(tries) >= Cardinality(array)
    PROVE  CallOK(tries, marks, "exhausted", array)
  <1>1. /\ Range(tries) \in SUBSET array
        /\ Cardinality(Range(tries)) = Len(tries)
        /\ Len(marks) = Len(tries) /\ tries # << >>
        /\ \A k \in 1 .. Len(tries) : k < Len(tries) => marks[k] = TRUE
    BY DEF CallOK
  <1>2. Range(tries) = array
    <2>1. CASE array \ Range(tries) = {}
      BY <1>1, <2>1
    <2>2. CASE Len(tries) >= Cardinality(array)
      <3>1. IsFiniteSet(array) /\ Cardinality(array) \in Nat
        BY ListingFacts, FS_CardinalityType
      <3>2. /\ Cardinality(Range(tries)) <= Cardinality(array)
            /\ Cardinality(array) = Cardinality(Range(tries)) => array = Range(tries)
        BY <1>1, <3>1, FS_Subset
      <3>3. Len(tries) \in Nat
        OBVIOUS
      <3>4. Cardinality(array) = Cardinality(Range(tries))
        BY <1>1, <2>2, <3>1, <3>2, <3>3
      <3> QED
        BY <3>2, <3>4
    <2> QED
      BY <2>1, <2>2
  <1>3. \A k \in 1 .. Len(tries) : marks[k] = TRUE
    <2>1. \A k \in 1 .. Len(tries) : k < Len(tries) \/ k = Len(tries)
      OBVIOUS
    <2> QED
      BY <1>1, <2>1
  <1> QED
    BY <1>1, <1>2, <1>3 DEF CallOK

LEMMA OverOK ==
    ASSUME NEW tries, NEW marks, NEW array, CallOK(tries, marks, "trying", array),
           NEW phase \in {"returned", "threw"}
    PROVE  CallOK(tries, marks, phase, array)
  BY DEF CallOK

LEMMA NothingTried ==
    ASSUME NEW S, NEW s \in Seq(S), Len(s) = 0
    PROVE  Range(s) = {} /\ 1 .. Len(s) = {}
  <1>1. DOMAIN s = 1 .. Len(s)
    OBVIOUS
  <1>2. 1 .. Len(s) = {}
    OBVIOUS
  <1> QED
    BY <1>1, <1>2 DEF Range

LEMMA NoneOK ==
    ASSUME NEW tries \in Seq(Positions), NEW marks, NEW array, NEW other,
           CallOK(tries, marks, "idle", array), NEW phase \in {"idle", "not found"}
    PROVE  CallOK(tries, marks, phase, other) /\ tries = << >>
  <1>1. tries = << >>
    BY DEF CallOK
  <1>2. Len(tries) = 0
    BY <1>1, EmptySeq
  <1>3. Range(tries) = {} /\ 1 .. Len(tries) = {}
    BY <1>2, NothingTried
  <1>4. /\ Len(marks) = Len(tries) /\ Cardinality(Range(tries)) = Len(tries)
        /\ phase # "exhausted"
    BY DEF CallOK
  <1>5. CallOK(tries, marks, phase, other)
    BY <1>1, <1>2, <1>3, <1>4 DEF CallOK
  <1> QED
    BY <1>1, <1>5

LEMMA MarkOK ==
    ASSUME NEW tries \in Seq(Positions), NEW marks \in Seq(BOOLEAN), NEW phase, NEW array,
           CallOK(tries, marks, phase, array), NEW k \in 1 .. Len(tries)
    PROVE  /\ [marks EXCEPT ![k] = TRUE] \in Seq(BOOLEAN)
           /\ CallOK(tries, [marks EXCEPT ![k] = TRUE], phase, array)
  <1> DEFINE new == [marks EXCEPT ![k] = TRUE]
  <1>1. Len(marks) = Len(tries) /\ k \in 1 .. Len(marks)
    BY DEF CallOK
  <1>2. /\ new \in Seq(BOOLEAN) /\ Len(new) = Len(marks)
        /\ \A j \in 1 .. Len(marks) : new[j] = IF j = k THEN TRUE ELSE marks[j]
    <2> DEFINE S == BOOLEAN
               e == TRUE
    <2>1. marks \in Seq(S) /\ e \in S
      OBVIOUS
    <2> HIDE DEF S, e, new
    <2>2. [marks EXCEPT ![k] = e] \in Seq(S)
      BY <1>1, <2>1, ExceptSeq
    <2>3. Len([marks EXCEPT ![k] = e]) = Len(marks)
      BY <1>1, <2>1, ExceptSeq
    <2>4. \A j \in 1 .. Len(marks) : [marks EXCEPT ![k] = e][j] = IF j = k THEN e ELSE marks[j]
      BY <1>1, <2>1, ExceptSeq
    <2> QED
      BY <2>2, <2>3, <2>4 DEF new, S, e
  <1> HIDE DEF new
  <1>3. \A j \in 1 .. Len(tries) :
           j < Len(tries) \/ phase = "exhausted" => new[j] = TRUE
    BY <1>1, <1>2 DEF CallOK
  <1>4. CallOK(tries, new, phase, array)
    BY <1>1, <1>2, <1>3 DEF CallOK
  <1> QED
    BY <1>2, <1>4 DEF new

-----------------------------------------------------------------------------
(* One turn of the loop, with what remains of the array. *)
LEMMA AttemptStep ==
    ASSUME DiscoverInv, NEW c \in Call, NEW L \in Listings \cup {{}},
           CallOK(attempts[c], asked[c], pc[c], L),
           attempts[c] # << >> => asked[c][Len(attempts[c])] = TRUE,
           NEW R \in SUBSET L, R # {}, R \cap Tried(c) = {},
           Attempt(c, R), instances' = [instances EXCEPT ![c] = L]
    PROVE  /\ pc' \in [Call -> {"idle", "trying"} \cup Ended]
           /\ instances' \in [Call -> Listings \cup {{}}]
           /\ attempts' \in [Call -> Seq(Positions)]
           /\ asked' \in [Call -> Seq(BOOLEAN)]
           /\ counter' \in Nat
           /\ connections' \in [Positions -> Nat]
           /\ CallsOK'
  <1> USE DEF DiscoverInv
  <1>1. PICK p \in Selections(R) :
           /\ pc' = [pc EXCEPT ![c] = "trying"]
           /\ attempts' = [attempts EXCEPT ![c] = Append(attempts[c], p)]
           /\ asked' = [asked EXCEPT ![c] = Append(asked[c], FALSE)]
           /\ counter' = CounterAfter(R)
           /\ connections' = IF strategy = "least-connections"
                             THEN [connections EXCEPT ![p] = connections[p] + 1]
                             ELSE connections
    BY DEF Attempt
  <1>2. p \in R /\ p \in L /\ p \in Positions /\ p \notin Tried(c)
    <2>1. p \in R
      BY SelectionsIn
    <2>2. L \in SUBSET Positions
      BY ListingFacts
    <2> QED
      BY <2>1, <2>2
  <1>3. /\ pc \in [Call -> {"idle", "trying"} \cup Ended]
        /\ instances \in [Call -> Listings \cup {{}}]
        /\ attempts \in [Call -> Seq(Positions)]
        /\ asked \in [Call -> Seq(BOOLEAN)]
        /\ connections \in [Positions -> Nat]
    BY DEF DiscoverTypeOK
  <1>4. Append(attempts[c], p) \in Seq(Positions)
    BY <1>2, <1>3
  <1>5. Append(asked[c], FALSE) \in Seq(BOOLEAN)
    BY <1>3
  <1>6. CallOK(Append(attempts[c], p), Append(asked[c], FALSE), "trying", L)
    BY <1>2, <1>3, AttemptOK DEF Tried
  <1>7. ASSUME NEW d \in Call
        PROVE  CallOK(attempts[d], asked[d], pc[d], instances[d])'
    <2>1. CASE d = c
      <3>1. /\ attempts'[d] = Append(attempts[c], p) /\ asked'[d] = Append(asked[c], FALSE)
            /\ pc'[d] = "trying" /\ instances'[d] = L
        BY <1>1, <1>3, <2>1
      <3> QED
        BY <1>6, <3>1 DEF CallOK
    <2>2. CASE d # c
      <3>1. /\ attempts'[d] = attempts[d] /\ asked'[d] = asked[d]
            /\ pc'[d] = pc[d] /\ instances'[d] = instances[d]
        BY <1>1, <1>3, <2>2
      <3> QED
        BY <3>1 DEF CallsOK, CallOK
    <2> QED
      BY <2>1, <2>2
  <1>8. connections' \in [Positions -> Nat]
    BY <1>1, <1>2, <1>3
  <1>9. counter' \in Nat
    BY <1>1, SelectionsIn
  <1>10. pc' \in [Call -> {"idle", "trying"} \cup Ended]
    BY <1>1, <1>3
  <1>11. instances' \in [Call -> Listings \cup {{}}]
    BY <1>3
  <1>12. attempts' \in [Call -> Seq(Positions)]
    BY <1>1, <1>3, <1>4
  <1>13. asked' \in [Call -> Seq(BOOLEAN)]
    BY <1>1, <1>3, <1>5
  <1> QED
    BY <1>7, <1>8, <1>9, <1>10, <1>11, <1>12, <1>13 DEF CallsOK

\* A call that ends, or is left without an instance.
LEMMA EndStep ==
    ASSUME DiscoverInv, NEW c \in Call, NEW phase \in Ended,
           NEW L \in Listings \cup {{}},
           CallOK(attempts[c], asked[c], phase, L),
           pc' = [pc EXCEPT ![c] = phase], instances' = [instances EXCEPT ![c] = L],
           UNCHANGED <<attempts, asked, counter, connections>>
    PROVE  /\ pc' \in [Call -> {"idle", "trying"} \cup Ended]
           /\ instances' \in [Call -> Listings \cup {{}}]
           /\ attempts' \in [Call -> Seq(Positions)]
           /\ asked' \in [Call -> Seq(BOOLEAN)]
           /\ counter' \in Nat
           /\ connections' \in [Positions -> Nat]
           /\ CallsOK'
  <1> USE DEF DiscoverInv
  <1>1. /\ pc' \in [Call -> {"idle", "trying"} \cup Ended]
        /\ instances' \in [Call -> Listings \cup {{}}]
        /\ attempts' \in [Call -> Seq(Positions)]
        /\ asked' \in [Call -> Seq(BOOLEAN)]
        /\ counter' \in Nat
        /\ connections' \in [Positions -> Nat]
    BY DEF DiscoverTypeOK
  <1>2. ASSUME NEW d \in Call
        PROVE  CallOK(attempts[d], asked[d], pc[d], instances[d])'
    <2>1. CASE d = c
      <3>1. pc'[d] = phase /\ instances'[d] = L
        BY <2>1 DEF DiscoverTypeOK
      <3> QED
        BY <2>1, <3>1 DEF CallOK
    <2>2. CASE d # c
      <3>1. pc'[d] = pc[d] /\ instances'[d] = instances[d]
        BY <2>2 DEF DiscoverTypeOK
      <3> QED
        BY <3>1 DEF CallsOK, CallOK
    <2> QED
      BY <2>1, <2>2
  <1> QED
    BY <1>1, <1>2 DEF CallsOK

(* A callback settles: the loop goes on, or the call ends. *)
LEMMA ContinueStep ==
    ASSUME DiscoverInv, NEW c \in Call, pc[c] = "trying", ShouldRetry(c),
           Continue(c), UNCHANGED instances
    PROVE  /\ pc' \in [Call -> {"idle", "trying"} \cup Ended]
           /\ instances' \in [Call -> Listings \cup {{}}]
           /\ attempts' \in [Call -> Seq(Positions)]
           /\ asked' \in [Call -> Seq(BOOLEAN)]
           /\ counter' \in Nat
           /\ connections' \in [Positions -> Nat]
           /\ CallsOK'
  <1> DEFINE L == instances[c]
             R == instances[c] \ Tried(c)
  <1>1. /\ L \in Listings \cup {{}} /\ instances' = [instances EXCEPT ![c] = L]
        /\ attempts[c] \in Seq(Positions) /\ asked[c] \in Seq(BOOLEAN)
    BY DEF DiscoverInv, DiscoverTypeOK
  <1>2. CallOK(attempts[c], asked[c], pc[c], L)
    BY DEF DiscoverInv, CallsOK
  <1>3. attempts[c] # << >> /\ asked[c][Len(attempts[c])] = TRUE
    <2>1. attempts[c] # << >>
      BY <1>2 DEF CallOK
    <2>2. Len(asked[c]) = Len(attempts[c]) /\ Len(attempts[c]) \in 1 .. Len(asked[c])
      BY <1>1, <1>2, <2>1 DEF CallOK
    <2>3. asked[c][Len(attempts[c])] \in BOOLEAN
      BY <1>1, <2>2
    <2> QED
      BY <2>1, <2>3 DEF ShouldRetry
  <1>4. CASE R # {} /\ Attempt(c, R)
    <2>1. R \in SUBSET L /\ R \cap Tried(c) = {}
      OBVIOUS
    <2> HIDE DEF L, R
    <2> QED
      BY <1>1, <1>2, <1>3, <1>4, <2>1, AttemptStep
  <1>5. CASE /\ R = {} \/ Len(attempts[c]) >= Cardinality(instances[c])
             /\ pc' = [pc EXCEPT ![c] = "exhausted"]
             /\ UNCHANGED <<attempts, asked, counter, connections>>
    <2>1. CallOK(attempts[c], asked[c], "exhausted", L)
      BY <1>1, <1>2, <1>3, <1>5, ExhaustedOK DEF Tried
    <2>2. "exhausted" \in Ended
      BY DEF Ended
    <2> HIDE DEF L, R
    <2> QED
      BY <1>1, <1>5, <2>1, <2>2, EndStep
  <1> QED
    BY <1>4, <1>5 DEF Continue

-----------------------------------------------------------------------------
LEMMA DiscoverInvInit == DiscoverInit => DiscoverInv
  <1> SUFFICES ASSUME DiscoverInit
               PROVE  DiscoverInv
    OBVIOUS
  <1> USE DEF DiscoverInit
  <1>1. << >> \in Seq(Positions) /\ << >> \in Seq(BOOLEAN)
    BY EmptySeq
  <1>2. Range(<< >>) = {} /\ Len(<< >>) = 0
    <2> DEFINE s == << >>
    <2>1. s \in Seq(Positions) /\ Len(s) = 0
      BY <1>1
    <2> HIDE DEF s
    <2>2. Range(s) = {}
      BY <2>1, NothingTried
    <2> QED
      BY <2>1, <2>2 DEF s
  <1>3. << >> \in Trace
    <2>1. 0 \in 0 .. MaxSamples /\ << >> \in [1 .. 0 -> Elapsed]
      BY DiscoverAssumption
    <2> QED
      BY <2>1 DEF Trace
  <1>4. DiscoverTypeOK
    BY <1>1, <1>3 DEF DiscoverTypeOK, Trace
  <1>5. ASSUME NEW c \in Call
        PROVE  CallOK(attempts[c], asked[c], pc[c], instances[c])
    <2>1. attempts[c] = << >> /\ asked[c] = << >> /\ pc[c] = "idle"
      OBVIOUS
    <2>2. Cardinality({}) = 0
      BY FS_EmptySet
    <2>3. 1 .. 0 = {}
      <3>1. ASSUME NEW n \in Nat, n = 0
            PROVE  1 .. n = {}
        BY <3>1
      <3> QED
        BY <3>1
    <2> QED
      BY <1>2, <2>1, <2>2, <2>3 DEF CallOK
  <1> QED
    BY <1>4, <1>5 DEF DiscoverInv, CallsOK

LEMMA TypedNext ==
    ASSUME NEW c \in Call, DiscoverInv, Begin(c) \/ Resolve(c) \/ Reject(c)
    PROVE  DiscoverInv'
  <1> USE DEF DiscoverInv
  <1> DEFINE Parts == /\ pc' \in [Call -> {"idle", "trying"} \cup Ended]
                      /\ instances' \in [Call -> Listings \cup {{}}]
                      /\ attempts' \in [Call -> Seq(Positions)]
                      /\ asked' \in [Call -> Seq(BOOLEAN)]
                      /\ counter' \in Nat
                      /\ connections' \in [Positions -> Nat]
                      /\ CallsOK'
  <1>1. UNCHANGED <<strategy, services>>
    BY DEF Begin, Resolve, Reject
  <1>2. /\ attempts[c] \in Seq(Positions) /\ asked[c] \in Seq(BOOLEAN)
        /\ instances[c] \in Listings \cup {{}} /\ services \in Listings
        /\ instances \in [Call -> Listings \cup {{}}]
        /\ CallOK(attempts[c], asked[c], pc[c], instances[c])
    BY DEF DiscoverTypeOK, CallsOK
  <1>3. CASE Begin(c)
    <2>1. /\ pc[c] = "idle" /\ instances' = [instances EXCEPT ![c] = services]
          /\ samples' = samples
      BY <1>3 DEF Begin, balancerVars
    <2>2. /\ CallOK(attempts[c], asked[c], "idle", services)
          /\ CallOK(attempts[c], asked[c], "not found", services)
          /\ attempts[c] = << >>
      <3>1. CallOK(attempts[c], asked[c], "idle", instances[c])
        BY <1>2, <2>1
      <3>2. CallOK(attempts[c], asked[c], "idle", services) /\ attempts[c] = << >>
        BY <1>2, <3>1, NoneOK
      <3>3. CallOK(attempts[c], asked[c], "not found", services)
        BY <1>2, <3>1, NoneOK
      <3> QED
        BY <3>2, <3>3
    <2>3. CASE /\ services = {}
               /\ pc' = [pc EXCEPT ![c] = "not found"]
               /\ UNCHANGED <<attempts, asked, balancerVars>>
      <3>1. "not found" \in Ended /\ services \in Listings \cup {{}}
        BY <1>2 DEF Ended
      <3>2. UNCHANGED <<attempts, asked, counter, connections>>
        BY <2>3 DEF balancerVars
      <3>3. Parts
        BY <2>1, <2>2, <2>3, <3>1, <3>2, EndStep
      <3> QED
        BY <1>1, <2>1, <3>3 DEF DiscoverTypeOK
    <2>4. CASE services # {} /\ Attempt(c, services)
      <3>1. services \in Listings \cup {{}} /\ services \in SUBSET services
        BY <1>2
      <3>2. services \cap Tried(c) = {}
        <4>1. Len(attempts[c]) = 0
          BY <2>2, EmptySeq
        <4> QED
          BY <1>2, <4>1, NothingTried DEF Tried
      <3>3. Parts
        BY <2>1, <2>2, <2>4, <3>1, <3>2, AttemptStep
      <3> QED
        BY <1>1, <2>1, <3>3 DEF DiscoverTypeOK
    <2> QED
      BY <1>3, <2>3, <2>4 DEF Begin
  <1>4. ASSUME pc[c] = "trying", NEW phase \in {"returned", "threw"},
               pc' = [pc EXCEPT ![c] = phase],
               UNCHANGED <<attempts, asked, counter, connections, instances>>
        PROVE  Parts
    <2>1. CallOK(attempts[c], asked[c], phase, instances[c])
      BY <1>2, <1>4, OverOK
    <2>2. phase \in Ended /\ instances' = [instances EXCEPT ![c] = instances[c]]
      BY <1>2, <1>4 DEF Ended
    <2> QED
      BY <1>2, <1>4, <2>1, <2>2, EndStep
  <1>5. CASE Resolve(c)
    <2>1. pc[c] = "trying" /\ UNCHANGED instances
      BY <1>5 DEF Resolve
    <2>2. Parts
      <3>1. CASE /\ pc' = [pc EXCEPT ![c] = "returned"]
                 /\ UNCHANGED <<attempts, asked, counter, connections>>
        BY <1>4, <2>1, <3>1
      <3>2. CASE ShouldRetry(c) /\ Continue(c)
        BY <2>1, <3>2, ContinueStep
      <3> QED
        BY <1>5, <3>1, <3>2 DEF Resolve
    <2>3. samples' \in [Positions -> Trace]
      <3>1. PICK t \in Elapsed :
               samples' = IF strategy = "response-time"
                          THEN [samples EXCEPT ![Current(c)] = Latest(Append(samples[Current(c)], t))]
                          ELSE samples
        BY <1>5 DEF Resolve
      <3>2. samples \in [Positions -> Trace]
        BY DEF DiscoverTypeOK, Trace
      <3>3. \A p \in Positions : Latest(Append(samples[p], t)) \in Trace
        BY <3>2, LatestFacts
      <3> QED
        BY <3>1, <3>2, <3>3
    <2> QED
      BY <1>1, <2>2, <2>3 DEF DiscoverTypeOK, Trace
  <1>6. CASE Reject(c)
    <2>1. pc[c] = "trying" /\ UNCHANGED <<instances, samples>>
      BY <1>6 DEF Reject
    <2>2. Parts
      <3>1. CASE /\ pc' = [pc EXCEPT ![c] = "threw"]
                 /\ UNCHANGED <<attempts, asked, counter, connections>>
        BY <1>4, <2>1, <3>1
      <3>2. CASE ShouldRetry(c) /\ Continue(c)
        BY <2>1, <3>2, ContinueStep
      <3> QED
        BY <1>6, <3>1, <3>2 DEF Reject
    <2> QED
      BY <1>1, <2>1, <2>2 DEF DiscoverTypeOK
  <1> QED
    BY <1>3, <1>5, <1>6

LEMMA AskStep ==
    ASSUME DiscoverInv, NEW c \in Call, NEW k \in DOMAIN attempts[c], TryAnotherInstance(c, k)
    PROVE  DiscoverInv'
  <1> USE DEF DiscoverInv
  <1>1. /\ attempts[c] \in Seq(Positions) /\ asked[c] \in Seq(BOOLEAN)
        /\ CallOK(attempts[c], asked[c], pc[c], instances[c])
        /\ asked \in [Call -> Seq(BOOLEAN)]
        /\ connections \in [Positions -> Nat]
    BY DEF DiscoverTypeOK, CallsOK
  <1>2. k \in 1 .. Len(attempts[c]) /\ attempts[c][k] \in Positions
    BY <1>1
  <1> DEFINE new == [asked[c] EXCEPT ![k] = TRUE]
  <1>3. asked' = [asked EXCEPT ![c] = new]
    BY DEF TryAnotherInstance
  <1>4. UNCHANGED <<strategy, services, pc, instances, attempts, counter, samples>>
    BY DEF TryAnotherInstance
  <1>5. /\ new \in Seq(BOOLEAN)
        /\ CallOK(attempts[c], new, pc[c], instances[c])
    BY <1>1, <1>2, MarkOK
  <1>6. connections' \in [Positions -> Nat]
    <2>1. connections' =
            IF strategy = "least-connections" /\ connections[attempts[c][k]] > 0
            THEN [connections EXCEPT ![attempts[c][k]] = connections[attempts[c][k]] - 1]
            ELSE connections
      BY DEF TryAnotherInstance
    <2> QED
      BY <1>1, <1>2, <2>1
  <1> HIDE DEF new
  <1>7. asked' \in [Call -> Seq(BOOLEAN)]
    BY <1>1, <1>3, <1>5
  <1>8. ASSUME NEW d \in Call
        PROVE  CallOK(attempts[d], asked[d], pc[d], instances[d])'
    <2>1. CASE d = c
      <3>1. asked'[d] = new
        BY <1>1, <1>3, <2>1
      <3> QED
        BY <1>4, <1>5, <2>1, <3>1 DEF CallOK
    <2>2. CASE d # c
      <3>1. asked'[d] = asked[d]
        BY <1>1, <1>3, <2>2
      <3> QED
        BY <1>4, <3>1 DEF CallsOK, CallOK
    <2> QED
      BY <2>1, <2>2
  <1> QED
    BY <1>4, <1>6, <1>7, <1>8 DEF DiscoverTypeOK, CallsOK

LEMMA DiscoverInvStep == DiscoverInv /\ [DiscoverNext]_discoverVars => DiscoverInv'
  <1> SUFFICES ASSUME DiscoverInv, [DiscoverNext]_discoverVars
               PROVE  DiscoverInv'
    OBVIOUS
  <1>1. CASE \E c \in Call : Begin(c) \/ Resolve(c) \/ Reject(c)
    BY <1>1, TypedNext
  <1>2. CASE \E c \in Call : \E k \in DOMAIN attempts[c] : TryAnotherInstance(c, k)
    BY <1>2, AskStep
  <1>3. CASE Refresh
    <2>1. services' \in Listings /\ UNCHANGED <<strategy, pc, instances, attempts, asked>>
          /\ UNCHANGED <<counter, connections, samples>>
      BY <1>3 DEF Refresh, callVars, balancerVars
    <2> QED
      BY <2>1 DEF DiscoverInv, DiscoverTypeOK, CallsOK, CallOK
  <1>4. CASE UNCHANGED discoverVars
    <2>1. UNCHANGED <<strategy, services, pc, instances, attempts, asked>>
          /\ UNCHANGED <<counter, connections, samples>>
      BY <1>4 DEF discoverVars, callVars, balancerVars
    <2> QED
      BY <2>1 DEF DiscoverInv, DiscoverTypeOK, CallsOK, CallOK
  <1> QED
    BY <1>1, <1>2, <1>3, <1>4 DEF DiscoverNext

LEMMA DiscoverInvHolds == DiscoverSpec => []DiscoverInv
  <1>1. DiscoverInit /\ [][DiscoverNext]_discoverVars => []DiscoverInv
    BY DiscoverInvInit, DiscoverInvStep, PTL
  <1> QED
    BY <1>1, PTL DEF DiscoverSpec

(* Type correctness: in particular no count of connections falls below 0,  *)
(* no counter ever divides by a weight of nothing, and no instance has     *)
(* more samples than are kept.                                             *)
THEOREM DiscoverTypeCorrect == DiscoverSpec => []DiscoverTypeOK
  <1>1. DiscoverInv => DiscoverTypeOK
    BY DEF DiscoverInv
  <1> QED
    BY <1>1, DiscoverInvHolds, PTL

(* No request is sent to an instance twice or to one outside its listing,  *)
(* for every strategy, with any number of calls sharing its counter and    *)
(* its counts, and with refreshes in between.                              *)
THEOREM DiscoverTriesOnce == DiscoverSpec => []TriedOnce
  <1>1. DiscoverInv => TriedOnce
    BY DEF DiscoverInv, CallsOK, CallOK, TriedOnce, Tried
  <1> QED
    BY <1>1, DiscoverInvHolds, PTL

(* A call tells that every instance failed only after each of them was     *)
(* tried and asked for another one.                                        *)
THEOREM DiscoverExhausts == DiscoverSpec => []ExhaustedMeansAll
  <1>1. DiscoverInv => ExhaustedMeansAll
    <2> SUFFICES ASSUME DiscoverInv, NEW c \in Call, pc[c] = "exhausted"
                 PROVE  Tried(c) = instances[c] /\ \A k \in DOMAIN asked[c] : asked[c][k]
      BY DEF ExhaustedMeansAll
    <2>1. CallOK(attempts[c], asked[c], pc[c], instances[c]) /\ asked[c] \in Seq(BOOLEAN)
      BY DEF DiscoverInv, DiscoverTypeOK, CallsOK
    <2>2. DOMAIN asked[c] = 1 .. Len(asked[c])
      BY <2>1
    <2>3. \A k \in DOMAIN asked[c] : asked[c][k] = TRUE
      BY <2>1, <2>2 DEF CallOK
    <2>4. Tried(c) = instances[c]
      BY <2>1 DEF CallOK, Tried
    <2> QED
      BY <2>3, <2>4
  <1> QED
    BY <1>1, DiscoverInvHolds, PTL

-----------------------------------------------------------------------------
\* Attempt k of call d is one of the attempts on q that did not ask.
Stands(q, d, k) == k \in DOMAIN attempts[d] /\ attempts[d][k] = q /\ ~asked[d][k]

UncountedInv ==
    /\ \A p \in Positions : IsFiniteSet(Standing(p))
    /\ strategy # "least-connections" => \A p \in Positions : connections[p] = 0
    /\ FailuresUncounted

LEMMA CallFacts ==
    ASSUME DiscoverInv, NEW c \in Call
    PROVE  /\ attempts \in [Call -> Seq(Positions)] /\ asked \in [Call -> Seq(BOOLEAN)]
           /\ attempts[c] \in Seq(Positions) /\ asked[c] \in Seq(BOOLEAN)
           /\ Len(asked[c]) = Len(attempts[c]) /\ Len(attempts[c]) \in Nat
           /\ DOMAIN asked[c] = DOMAIN attempts[c]
           /\ connections \in [Positions -> Nat]
  <1>1. /\ attempts \in [Call -> Seq(Positions)] /\ asked \in [Call -> Seq(BOOLEAN)]
        /\ connections \in [Positions -> Nat]
    BY DEF DiscoverInv, DiscoverTypeOK
  <1>2. attempts[c] \in Seq(Positions) /\ asked[c] \in Seq(BOOLEAN)
    BY <1>1
  <1>3. Len(asked[c]) = Len(attempts[c])
    BY DEF DiscoverInv, CallsOK, CallOK
  <1>4. DOMAIN asked[c] = 1 .. Len(asked[c]) /\ DOMAIN attempts[c] = 1 .. Len(attempts[c])
    BY <1>2
  <1> QED
    BY <1>1, <1>2, <1>3, <1>4

StandingMembers ==
    \A q : \A a : a \in Standing(q) <=> \E d \in Call : \E k : a = <<d, k>> /\ Stands(q, d, k)

LEMMA StandingIs == StandingMembers
  BY DEF StandingMembers, Standing, Stands

LEMMA StandingIsNext == StandingMembers'
  BY StandingIs, PTL

(* A new attempt stands, and changes nothing for another instance.         *)
LEMMA StandingAfterAttempt ==
    ASSUME DiscoverInv, NEW c \in Call, NEW p \in Positions, NEW q \in Positions,
           attempts' = [attempts EXCEPT ![c] = Append(attempts[c], p)],
           asked' = [asked EXCEPT ![c] = Append(asked[c], FALSE)]
    PROVE  /\ Standing(q)' = IF q = p THEN Standing(q) \cup {<<c, Len(attempts[c]) + 1>>}
                                      ELSE Standing(q)
           /\ <<c, Len(attempts[c]) + 1>> \notin Standing(q)
  <1> DEFINE n == Len(attempts[c])
  <1>1. /\ attempts \in [Call -> Seq(Positions)] /\ asked \in [Call -> Seq(BOOLEAN)]
        /\ attempts[c] \in Seq(Positions) /\ asked[c] \in Seq(BOOLEAN)
        /\ Len(asked[c]) = n /\ n \in Nat
    BY CallFacts
  <1>2. /\ DOMAIN attempts'[c] = 1 .. n + 1 /\ DOMAIN attempts[c] = 1 .. n
        /\ attempts'[c][n + 1] = p /\ asked'[c][n + 1] = FALSE
        /\ \A k \in 1 .. n : attempts'[c][k] = attempts[c][k] /\ asked'[c][k] = asked[c][k]
    <2>1. attempts'[c] = Append(attempts[c], p) /\ asked'[c] = Append(asked[c], FALSE)
      BY <1>1
    <2>2. /\ DOMAIN attempts'[c] = 1 .. n + 1 /\ DOMAIN attempts[c] = 1 .. n
          /\ attempts'[c][n + 1] = p
          /\ \A k \in 1 .. n : attempts'[c][k] = attempts[c][k]
      BY <1>1, <2>1
    <2>3. asked'[c][n + 1] = FALSE /\ \A k \in 1 .. n : asked'[c][k] = asked[c][k]
      <3> DEFINE S == BOOLEAN
                 e == FALSE
      <3>1. asked[c] \in Seq(S) /\ e \in S /\ asked'[c] = Append(asked[c], e)
        BY <1>1, <2>1
      <3> HIDE DEF S, e, n
      <3>2. Append(asked[c], e)[n + 1] = e /\ \A k \in 1 .. n : Append(asked[c], e)[k] = asked[c][k]
        BY <1>1, <3>1, AppendFacts
      <3> QED
        BY <3>1, <3>2 DEF e
    <2> QED
      BY <2>2, <2>3
  <1>3. \A d \in Call \ {c} : attempts'[d] = attempts[d] /\ asked'[d] = asked[d]
    BY <1>1
  <1> HIDE DEF n
  <1>4. ASSUME NEW d \in Call, NEW k
        PROVE  Stands(q, d, k)' <=> Stands(q, d, k) \/ (q = p /\ d = c /\ k = n + 1)
    <2>1. CASE d # c
      BY <1>3, <2>1 DEF Stands
    <2>2. CASE d = c /\ k = n + 1
      BY <1>1, <1>2, <2>2 DEF Stands
    <2>3. CASE d = c /\ k # n + 1
      <3>1. k \in 1 .. n + 1 <=> k \in 1 .. n
        BY <1>1, <2>3
      <3> QED
        BY <1>2, <2>3, <3>1 DEF Stands
    <2> QED
      BY <2>1, <2>2, <2>3
  <1>5. \A a : a \in Standing(q)' <=> \E d \in Call : \E k : a = <<d, k>> /\ Stands(q, d, k)'
    BY StandingIsNext DEF StandingMembers
  <1>6. <<c, n + 1>> \notin Standing(q)
    <2> SUFFICES ASSUME <<c, n + 1>> \in Standing(q)
                 PROVE  FALSE
      OBVIOUS
    <2>1. \E d \in Call : \E k : <<c, n + 1>> = <<d, k>> /\ Stands(q, d, k)
      BY StandingIs DEF StandingMembers
    <2>2. PICK d \in Call : \E k : <<c, n + 1>> = <<d, k>> /\ Stands(q, d, k)
      BY <2>1
    <2>3. PICK k : <<c, n + 1>> = <<d, k>> /\ Stands(q, d, k)
      BY <2>2
    <2>4. n + 1 \in 1 .. n
      BY <1>2, <2>3 DEF Stands
    <2> QED
      BY <1>1, <2>4
  <1>7. \A a : a \in Standing(q)' <=> a \in Standing(q) \/ (q = p /\ a = <<c, n + 1>>)
    <2>1. \A a : a \in Standing(q) <=> \E d \in Call : \E k : a = <<d, k>> /\ Stands(q, d, k)
      BY StandingIs DEF StandingMembers
    <2>2. ASSUME NEW a
          PROVE  a \in Standing(q)' <=> a \in Standing(q) \/ (q = p /\ a = <<c, n + 1>>)
      BY <1>4, <1>5, <2>1
    <2> QED
      BY <2>2
  <1> QED
    BY <1>6, <1>7 DEF n

(* An attempt that asks for another instance stands no longer.             *)
LEMMA StandingAfterAsk ==
    ASSUME DiscoverInv, NEW c \in Call, NEW k \in DOMAIN attempts[c], NEW q \in Positions,
           asked' = [asked EXCEPT ![c][k] = TRUE], attempts' = attempts
    PROVE  Standing(q)' = Standing(q) \ {<<c, k>>}
  <1>1. /\ attempts \in [Call -> Seq(Positions)] /\ asked \in [Call -> Seq(BOOLEAN)]
        /\ asked[c] \in Seq(BOOLEAN) /\ k \in DOMAIN asked[c] /\ DOMAIN asked[c] = DOMAIN attempts[c]
    BY CallFacts
  <1>2. /\ asked'[c][k] = TRUE
        /\ \A j \in DOMAIN attempts[c] \ {k} : asked'[c][j] = asked[c][j]
        /\ \A d \in Call \ {c} : asked'[d] = asked[d]
    BY <1>1
  <1>3. ASSUME NEW d \in Call, NEW j
        PROVE  Stands(q, d, j)' <=> Stands(q, d, j) /\ ~(d = c /\ j = k)
    BY <1>2 DEF Stands
  <1>4. \A a : a \in Standing(q)' <=> \E d \in Call : \E j : a = <<d, j>> /\ Stands(q, d, j)'
    BY StandingIsNext DEF StandingMembers
  <1>5. \A a : a \in Standing(q)' <=> a \in Standing(q) /\ a # <<c, k>>
    BY <1>3, <1>4, StandingIs DEF StandingMembers
  <1> QED
    BY <1>5

LEMMA UncountedAttempt ==
    ASSUME DiscoverInv, UncountedInv, NEW c \in Call, NEW R \in SUBSET Positions, Attempt(c, R),
           NEW L \in Listings \cup {{}}, R \in SUBSET L, R # {}, UNCHANGED strategy
    PROVE  UncountedInv'
  <1>1. PICK p \in Selections(R) :
           /\ attempts' = [attempts EXCEPT ![c] = Append(attempts[c], p)]
           /\ asked' = [asked EXCEPT ![c] = Append(asked[c], FALSE)]
           /\ connections' = IF strategy = "least-connections"
                             THEN [connections EXCEPT ![p] = connections[p] + 1]
                             ELSE connections
    BY DEF Attempt
  <1>2. p \in Positions /\ connections \in [Positions -> Nat]
    BY SelectionsIn DEF DiscoverInv, DiscoverTypeOK
  <1>3. ASSUME NEW q \in Positions
        PROVE  IsFiniteSet(Standing(q))' /\ (connections[q] <= Cardinality(Standing(q)))'
    <2>1. /\ IsFiniteSet(Standing(q)) /\ connections[q] <= Cardinality(Standing(q))
          /\ Cardinality(Standing(q)) \in Nat /\ connections[q] \in Nat
      BY <1>2, FS_CardinalityType DEF UncountedInv, FailuresUncounted
    <2>2. CASE q = p
      <3>0. /\ Standing(q)' = Standing(q) \cup {<<c, Len(attempts[c]) + 1>>}
            /\ <<c, Len(attempts[c]) + 1>> \notin Standing(q)
        BY <1>1, <1>2, <2>2, StandingAfterAttempt
      <3>1. /\ IsFiniteSet(Standing(q)')
            /\ Cardinality(Standing(q)') = Cardinality(Standing(q)) + 1
        <4> DEFINE S == Standing(q)
                   x == <<c, Len(attempts[c]) + 1>>
        <4>1. IsFiniteSet(S) /\ x \notin S /\ Standing(q)' = S \cup {x}
          BY <2>1, <3>0
        <4> HIDE DEF S, x
        <4>2. IsFiniteSet(S \cup {x}) /\ Cardinality(S \cup {x}) = Cardinality(S) + 1
          BY <4>1, FS_AddElement
        <4> QED
          BY <4>1, <4>2 DEF S
      <3>2. connections'[q] <= connections[q] + 1
        BY <1>1, <1>2, <2>1, <2>2
      <3>3. connections'[q] \in Nat
        BY <1>1, <1>2, <2>1, <2>2
      <3> QED
        BY <2>1, <3>1, <3>2, <3>3
    <2>3. CASE q # p
      <3>1. Standing(q)' = Standing(q) /\ connections'[q] = connections[q]
        BY <1>1, <1>2, <2>3, StandingAfterAttempt
      <3> QED
        BY <2>1, <3>1
    <2> QED
      BY <2>2, <2>3
  <1>4. (strategy # "least-connections" => \A q \in Positions : connections[q] = 0)'
    BY <1>1 DEF UncountedInv
  <1> QED
    BY <1>3, <1>4 DEF UncountedInv, FailuresUncounted

LEMMA UncountedAsk ==
    ASSUME DiscoverInv, UncountedInv, NEW c \in Call, NEW k \in DOMAIN attempts[c],
           TryAnotherInstance(c, k)
    PROVE  UncountedInv'
  <1> DEFINE p == attempts[c][k]
  <1>1. /\ asked' = [asked EXCEPT ![c][k] = TRUE] /\ attempts' = attempts
        /\ connections' = IF strategy = "least-connections" /\ connections[p] > 0
                          THEN [connections EXCEPT ![p] = connections[p] - 1]
                          ELSE connections
    BY DEF TryAnotherInstance
  <1>2. /\ p \in Positions /\ connections \in [Positions -> Nat]
        /\ UNCHANGED strategy
    <2>1. attempts[c][k] \in Positions
      BY CallFacts
    <2> QED
      BY <2>1, CallFacts DEF TryAnotherInstance
  <1> HIDE DEF p
  <1>3. /\ connections'[p] = IF connections[p] > 0 THEN connections[p] - 1 ELSE 0
        /\ \A q \in Positions \ {p} : connections'[q] = connections[q]
    BY <1>1, <1>2 DEF UncountedInv
  <1>4. ASSUME NEW q \in Positions
        PROVE  IsFiniteSet(Standing(q))' /\ (connections[q] <= Cardinality(Standing(q)))'
    <2>1. /\ IsFiniteSet(Standing(q)) /\ connections[q] <= Cardinality(Standing(q))
          /\ Cardinality(Standing(q)) \in Nat /\ connections[q] \in Nat
      BY <1>2, FS_CardinalityType DEF UncountedInv, FailuresUncounted
    <2>2. Standing(q)' = Standing(q) \ {<<c, k>>}
      BY <1>1, StandingAfterAsk
    <2>3. /\ IsFiniteSet(Standing(q)')
          /\ Cardinality(Standing(q)') >= Cardinality(Standing(q)) - 1
          /\ Cardinality(Standing(q)') \in Nat
      <3> DEFINE S == Standing(q)
                 x == <<c, k>>
      <3>1. IsFiniteSet(S) /\ Standing(q)' = S \ {x} /\ Cardinality(S) \in Nat
        BY <2>1, <2>2
      <3> HIDE DEF S, x
      <3>2. /\ IsFiniteSet(S \ {x})
            /\ Cardinality(S \ {x}) = IF x \in S THEN Cardinality(S) - 1 ELSE Cardinality(S)
        BY <3>1, FS_RemoveElement
      <3>3. Cardinality(S \ {x}) \in Nat
        BY <3>2, FS_CardinalityType
      <3>4. Cardinality(S \ {x}) >= Cardinality(S) - 1
        BY <3>1, <3>2
      <3> QED
        BY <3>1, <3>2, <3>3, <3>4 DEF S
    <2>4. CASE q = p
      <3>1. connections'[q] = IF connections[q] > 0 THEN connections[q] - 1 ELSE 0
        BY <1>3, <2>4
      <3>2. connections'[q] <= Cardinality(Standing(q)')
        BY <2>1, <2>3, <3>1
      <3> QED
        BY <2>3, <3>2
    <2>5. CASE q # p
      <3>1. <<c, k>> \notin Standing(q)
        BY <2>5, StandingIs DEF StandingMembers, Stands, p
      <3>2. Standing(q)' = Standing(q) /\ connections'[q] = connections[q]
        BY <1>3, <2>2, <2>5, <3>1
      <3> QED
        BY <2>1, <3>2
    <2> QED
      BY <2>4, <2>5
  <1>5. (strategy # "least-connections" => \A q \in Positions : connections[q] = 0)'
    BY <1>1, <1>2 DEF UncountedInv
  <1> QED
    BY <1>4, <1>5 DEF UncountedInv, FailuresUncounted

LEMMA UncountedSame ==
    ASSUME UncountedInv, UNCHANGED <<strategy, attempts, asked, connections>>
    PROVE  UncountedInv'
  BY DEF UncountedInv, FailuresUncounted, Standing

(* The loop goes on from an attempt, or the call ends.                     *)
LEMMA UncountedContinue ==
    ASSUME DiscoverInv, UncountedInv, NEW c \in Call, Continue(c), UNCHANGED strategy
    PROVE  UncountedInv'
  <1> DEFINE L == instances[c]
             R == L \ Tried(c)
  <1>1. L \in Listings \cup {{}} /\ R \in SUBSET L
    BY DEF DiscoverInv, DiscoverTypeOK
  <1>2. CASE R # {} /\ Attempt(c, R)
    <2>1. R \in SUBSET Positions
      BY <1>1, ListingFacts
    <2> HIDE DEF L, R
    <2> QED
      BY <1>1, <1>2, <2>1, UncountedAttempt
  <1>3. CASE UNCHANGED <<attempts, asked, connections>>
    BY <1>3, UncountedSame
  <1> QED
    BY <1>2, <1>3 DEF Continue

LEMMA UncountedStep ==
    DiscoverInv /\ UncountedInv /\ [DiscoverNext]_discoverVars => UncountedInv'
  <1> SUFFICES ASSUME DiscoverInv, UncountedInv, [DiscoverNext]_discoverVars
               PROVE  UncountedInv'
    OBVIOUS
  <1>1. ASSUME NEW c \in Call, Begin(c)
        PROVE  UncountedInv'
    <2>1. UNCHANGED strategy
      BY <1>1 DEF Begin
    <2>2. CASE services # {} /\ Attempt(c, services)
      <3>1. services \in Listings \cup {{}} /\ services \in SUBSET services
        BY DEF DiscoverInv, DiscoverTypeOK
      <3>2. services \in SUBSET Positions
        BY <3>1, ListingFacts
      <3> QED
        BY <2>1, <2>2, <3>1, <3>2, UncountedAttempt
    <2>3. CASE UNCHANGED <<attempts, asked, connections>>
      BY <2>1, <2>3, UncountedSame
    <2> QED
      BY <1>1, <2>2, <2>3 DEF Begin, balancerVars
  <1>2. ASSUME NEW c \in Call, Resolve(c) \/ Reject(c)
        PROVE  UncountedInv'
    <2>1. UNCHANGED strategy
      BY <1>2 DEF Resolve, Reject
    <2>2. Continue(c) \/ UNCHANGED <<attempts, asked, connections>>
      BY <1>2 DEF Resolve, Reject
    <2> QED
      BY <2>1, <2>2, UncountedContinue, UncountedSame
  <1>3. CASE \E c \in Call : \E k \in DOMAIN attempts[c] : TryAnotherInstance(c, k)
    BY <1>3, UncountedAsk
  <1>4. CASE Refresh \/ UNCHANGED discoverVars
    BY <1>4, UncountedSame DEF Refresh, discoverVars, callVars, balancerVars
  <1> QED
    BY <1>1, <1>2, <1>3, <1>4 DEF DiscoverNext

(* The counts of the least-connections strategy hold no failed attempt     *)
(* against an instance, with any number of calls, however late or often    *)
(* their callbacks ask for another instance.                               *)
THEOREM DiscoverFailuresUncounted == DiscoverSpec => []FailuresUncounted
  <1>1. ASSUME DiscoverInit
        PROVE  UncountedInv
    <2>1. ASSUME NEW p \in Positions
          PROVE  Standing(p) = {} /\ connections[p] = 0
      <3>1. connections[p] = 0
        BY <1>1 DEF DiscoverInit
      <3>2. \A c \in Call : DOMAIN attempts[c] = {}
        BY <1>1 DEF DiscoverInit
      <3> QED
        BY <3>1, <3>2, StandingIs DEF StandingMembers, Stands
    <2>2. \A p \in Positions : IsFiniteSet(Standing(p)) /\ connections[p] <= Cardinality(Standing(p))
      BY <2>1, FS_EmptySet
    <2> QED
      BY <2>1, <2>2 DEF UncountedInv, FailuresUncounted
  <1>2. UncountedInv => FailuresUncounted
    BY DEF UncountedInv
  <1>3. DiscoverSpec => DiscoverInit /\ [][DiscoverNext]_discoverVars
    BY PTL DEF DiscoverSpec
  <1> QED
    BY <1>1, <1>2, <1>3, UncountedStep, DiscoverInvHolds, PTL

=============================================================================
