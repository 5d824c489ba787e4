------------------------- MODULE DiscoveryCacheProofs -------------------------
(***************************************************************************)
(* Proofs about DiscoveryCache for every set of instances, refresh         *)
(* interval, lag, delay and number of failures in a row, with any number   *)
(* of loads under way at the same time and ending in any order.            *)
(*                                                                         *)
(* How old the cached answer is follows from how many refreshes were       *)
(* started after it.  Each of them failed or is under way, so the age is   *)
(* bounded by the failures counted and the loads still under way           *)
(* (AgeExplained), and each of these loads by the ones begun before it.    *)
(***************************************************************************)
EXTENDS DiscoveryCache, SetLemmas

Gap == RefreshInterval + RefreshLag

Begun == {load.since : load \in loads}

\* The loads under way that were begun more than t ago.
Before(t) == {s \in Begun : s > t}

\* Loads are told apart by when they began.
LoadsApart ==
    /\ \A load \in loads, other \in loads : load.since = other.since => load = other
    /\ \A load \in loads : load.wait <= load.since
    /\ \A load \in loads : load.stage = "asked" => load.wait = load.since
    /\ \A load \in loads : load.since <= load.wait + MaxDelay
    /\ phase = "new" => loads = {}
    /\ phase = "loading" => \A load \in loads, other \in loads : load = other
    /\ phase = "running" => \A load \in loads : sinceRefresh <= load.since

\* Whatever a listing shows as ON was so when it was given.
EntriesExplained ==
    /\ \A i \in On : offFor[i] = 0
    /\ \A load \in loads, i \in Instance :
          load.stage = "listed" /\ load.listing[i] = 0 => offFor[i] <= load.wait
    /\ \A i \in services : age # Never /\ offFor[i] <= age

AgeExplained ==
    /\ phase \in {"new", "loading"} => age = Never
    /\ phase = "running" /\ age # Never =>
          /\ age <= MaxDelay + (failures + Cardinality(Begun)) * Gap + sinceRefresh
          /\ \A t \in Begun :
                age - t <= MaxDelay + (failures + Cardinality(Before(t)) + 1) * Gap

CacheInv ==
    /\ CacheTypeOK
    /\ LoadsApart
    /\ EntriesExplained
    /\ AgeExplained

-----------------------------------------------------------------------------
LEMMA GapNat == Gap \in Nat \ {0} /\ RefreshInterval \in Nat \ {0} /\ MaxDelay \in Nat
  BY CacheAssumption DEF Gap

LEMMA FreshBoundNat ==
    /\ FreshBound \in Nat
    /\ (MaxFailures + 1) * Gap \in Nat
    /\ FreshBound = (MaxFailures + 1) * Gap + 3 * MaxDelay
  <1>1. MaxFailures + 1 \in Nat /\ RefreshInterval + RefreshLag \in Nat
    BY CacheAssumption
  <1>2. (MaxFailures + 1) * (RefreshInterval + RefreshLag) \in Nat
    BY <1>1
  <1> QED
    BY <1>2, GapNat DEF FreshBound, Gap

LEMMA LaterSteps ==
    ASSUME NEW t \in 0 .. FreshBound + 1
    PROVE  /\ Later(t) \in 0 .. FreshBound + 1
           /\ Later(t) <= t + 1 /\ t <= Later(t)
           /\ t <= FreshBound => Later(t) = t + 1
           /\ t > FreshBound => Later(t) = t
  BY FreshBoundNat DEF Later

(* A call that is answered, and one unit later. *)
LEMMA ListedLoad ==
    ASSUME CacheTypeOK, NEW load \in loads, load.stage = "asked",
           NEW new, new = [load EXCEPT !.stage = "listed", !.listing = strikes, !.wait = 0]
    PROVE  /\ new \in Loads
           /\ new.stage = "listed" /\ new.listing = strikes /\ new.wait = 0
           /\ new.since = load.since
  <1>1. 0 \in 0 .. MaxDelay
    BY GapNat
  <1> QED
    BY <1>1 DEF CacheTypeOK, Loads

LEMMA OlderLoad ==
    ASSUME CacheTypeOK, NEW load \in loads,
           NEW new, new = [load EXCEPT !.wait = @ + 1, !.since = @ + 1]
    PROVE  /\ new.stage = load.stage /\ new.listing = load.listing
           /\ new.wait = load.wait + 1 /\ new.since = load.since + 1
           /\ load.wait < MaxDelay /\ load.since < 2 * MaxDelay => new \in Loads
  <1>1. load \in Loads
    BY DEF CacheTypeOK
  <1>2. /\ new.stage = load.stage /\ new.listing = load.listing
        /\ new.wait = load.wait + 1 /\ new.since = load.since + 1
    BY <1>1 DEF Loads
  <1>3. ASSUME load.wait < MaxDelay, load.since < 2 * MaxDelay
        PROVE  new \in Loads
    <2>1. load.wait + 1 \in 0 .. MaxDelay /\ load.since + 1 \in 0 .. 2 * MaxDelay
      BY <1>1, <1>3, GapNat DEF Loads
    <2> QED
      BY <1>1, <2>1 DEF Loads
  <1> QED
    BY <1>2, <1>3

LEMMA LoadTypes ==
    ASSUME CacheTypeOK, NEW load \in loads
    PROVE  /\ load.stage \in {"asked", "listed"}
           /\ load.listing \in [Instance -> -1 .. MaxStrikes - 1]
           /\ load.wait \in Nat /\ load.wait <= MaxDelay
           /\ load.since \in Nat /\ load.since <= 2 * MaxDelay
  BY GapNat DEF CacheTypeOK, Loads

LEMMA DirectoryTypeStep ==
    ASSUME strikes \in [Instance -> -1 .. MaxStrikes - 1], Directory!Next
    PROVE  strikes' \in [Instance -> -1 .. MaxStrikes - 1]
  <1>1. MaxStrikes \in Nat /\ 0 \in -1 .. MaxStrikes - 1 /\ -1 \in -1 .. MaxStrikes - 1
    BY CacheAssumption
  <1>2. ASSUME NEW i \in Instance, Directory!Announce(i) \/ Directory!Withdraw(i)
        PROVE  strikes' \in [Instance -> -1 .. MaxStrikes - 1]
    BY <1>1, <1>2 DEF Directory!Announce, Directory!Withdraw, Directory!Unlisted
  <1>3. CASE Directory!Sweep
    <2>1. PICK S \in SUBSET Directory!Listed :
             strikes' = [i \in Instance |->
                           IF i \notin S THEN strikes[i]
                           ELSE IF strikes[i] + 1 >= MaxStrikes THEN Directory!Unlisted
                                ELSE strikes[i] + 1]
      BY <1>3 DEF Directory!Sweep
    <2>2. ASSUME NEW i \in Instance
          PROVE  (IF i \notin S THEN strikes[i]
                  ELSE IF strikes[i] + 1 >= MaxStrikes THEN Directory!Unlisted
                       ELSE strikes[i] + 1) \in -1 .. MaxStrikes - 1
      BY <1>1 DEF Directory!Unlisted
    <2> QED
      BY <2>1, <2>2
  <1>4. CASE Directory!Forget
    BY <1>1, <1>4 DEF Directory!Forget, Directory!Unlisted
  <1> QED
    BY <1>2, <1>3, <1>4 DEF Directory!Next

LEMMA CacheTypeStep ==
    ASSUME CacheTypeOK, LoadsApart, [CacheNext]_cacheVars
    PROVE  CacheTypeOK'
  <1> USE CacheAssumption
  <1>1. 0 \in 0 .. FreshBound + 1
    BY FreshBoundNat
  <1>2. CASE ModuleInit
    <2>1. Asked \in Loads
      BY DEF Asked, Loads, Directory!Unlisted
    <2> QED
      BY <1>2, <2>1 DEF ModuleInit, CacheTypeOK, Loads
  <1>3. CASE Refresh
    <2>1. Asked \in Loads
      BY DEF Asked, Loads, Directory!Unlisted
    <2> QED
      BY <1>3, <2>1 DEF Refresh, CacheTypeOK, Loads
  <1>4. ASSUME NEW load \in loads, Listed(load)
        PROVE  CacheTypeOK'
    <2>1. loads' \subseteq Loads
      BY <1>4, ListedLoad DEF Listed, CacheTypeOK
    <2> QED
      BY <1>4, <2>1 DEF Listed, CacheTypeOK, Loads
  <1>5. ASSUME NEW load \in loads, Loaded(load)
        PROVE  CacheTypeOK'
    <2>1. load.wait \in -1 .. FreshBound + 1
      <3>1. (MaxFailures + 1) * Gap \in Nat /\ FreshBound = (MaxFailures + 1) * Gap + 3 * MaxDelay
        BY FreshBoundNat
      <3>2. load.wait \in Nat /\ load.wait <= MaxDelay
        BY LoadTypes
      <3> QED
        BY <3>1, <3>2
    <2> QED
      BY <1>5, <2>1 DEF Loaded, Over, CacheTypeOK, Loads
  <1>6. ASSUME NEW load \in loads, LoadFailed(load)
        PROVE  CacheTypeOK'
    BY <1>6 DEF LoadFailed, Over, CacheTypeOK, Loads
  <1>7. CASE ModuleDestroy
    BY <1>7 DEF ModuleDestroy, CacheTypeOK, Loads
  <1>8. CASE RegistryStep
    <2>1. strikes' \in [Instance -> -1 .. MaxStrikes - 1]
      BY <1>8, DirectoryTypeStep DEF RegistryStep, CacheTypeOK
    <2>2. offFor' \in [Instance -> 0 .. FreshBound + 1]
      BY <1>1, <1>8 DEF RegistryStep, CacheTypeOK
    <2> QED
      BY <1>8, <2>1, <2>2 DEF RegistryStep, serviceVars, CacheTypeOK, Loads
  <1>9. CASE Pass
    <2>1. loads' \subseteq Loads
      <3>1. ASSUME NEW new \in loads'
            PROVE  new \in Loads
        <4>1. PICK load \in loads : new = [load EXCEPT !.wait = @ + 1, !.since = @ + 1]
          BY <1>9 DEF Pass
        <4>2. load.wait < MaxDelay /\ load.since <= load.wait + MaxDelay
          BY <1>9 DEF Pass, LoadsApart
        <4>3. load.since < 2 * MaxDelay
          BY <4>2, LoadTypes, GapNat
        <4> QED
          BY <4>1, <4>2, <4>3, OlderLoad
      <3> QED
        BY <3>1
    <2>2. age' \in -1 .. FreshBound + 1
      <3>1. age \in -1 .. FreshBound + 1 /\ age' = IF age = -1 THEN -1 ELSE Later(age)
        BY <1>9 DEF Pass, CacheTypeOK, Never
      <3>2. CASE age = -1
        BY <3>1, <3>2, FreshBoundNat
      <3>3. CASE age # -1
        <4>1. age \in 0 .. FreshBound + 1
          BY <3>1, <3>3, FreshBoundNat
        <4>2. Later(age) \in 0 .. FreshBound + 1
          BY <4>1, LaterSteps
        <4> QED
          BY <3>1, <3>3, <4>2, FreshBoundNat
      <3> QED
        BY <3>2, <3>3
    <2>3. offFor' \in [Instance -> 0 .. FreshBound + 1]
      BY <1>1, <1>9, LaterSteps DEF Pass, CacheTypeOK
    <2>4. sinceRefresh' \in 0 .. RefreshInterval + RefreshLag
      <3>1. sinceRefresh \in 0 .. RefreshInterval + RefreshLag
        BY DEF CacheTypeOK
      <3>2. /\ phase = "running" => sinceRefresh < RefreshInterval + RefreshLag
            /\ sinceRefresh' = IF phase = "running" THEN sinceRefresh + 1 ELSE sinceRefresh
        BY <1>9 DEF Pass
      <3> QED
        BY <3>1, <3>2
    <2> QED
      BY <1>9, <2>1, <2>2, <2>3, <2>4 DEF Pass, CacheTypeOK, Loads
  <1>10. CASE UNCHANGED cacheVars
    BY <1>10 DEF cacheVars, serviceVars, CacheTypeOK, Loads
  <1> QED
    BY <1>2, <1>3, <1>4, <1>5, <1>6, <1>7, <1>8, <1>9, <1>10 DEF CacheNext, Finish

LEMMA LoadsApartStep ==
    ASSUME CacheTypeOK, LoadsApart, [CacheNext]_cacheVars
    PROVE  LoadsApart'
  <1> USE GapNat
  <1>1. /\ \A load \in loads : /\ load.wait \in Nat /\ load.since \in Nat
                               /\ load.wait <= MaxDelay
        /\ sinceRefresh \in Nat
    BY LoadTypes DEF CacheTypeOK
  <1>2. CASE ModuleInit
    BY <1>2 DEF ModuleInit, LoadsApart, Asked
  <1>3. CASE Refresh
    <2>1. \A load \in loads : load.since > 0
      BY <1>1, <1>3 DEF Refresh, LoadsApart
    <2> QED
      BY <1>1, <1>3, <2>1 DEF Refresh, LoadsApart, Asked
  <1>4. ASSUME NEW load \in loads, Listed(load)
        PROVE  LoadsApart'
    <2> DEFINE new == [load EXCEPT !.stage = "listed", !.listing = strikes, !.wait = 0]
    <2>1. /\ new.stage = "listed" /\ new.wait = 0 /\ new.since = load.since
          /\ loads' = (loads \ {load}) \cup {new}
          /\ UNCHANGED <<phase, sinceRefresh>>
          /\ load.stage = "asked"
      BY <1>4, ListedLoad DEF Listed
    <2> HIDE DEF new
    <2>2. load.since <= MaxDelay
      BY <1>1, <2>1 DEF LoadsApart
    <2> QED
      BY <1>1, <2>1, <2>2 DEF LoadsApart
  <1>5. ASSUME NEW load \in loads, Loaded(load) \/ LoadFailed(load)
        PROVE  LoadsApart'
    <2>1. /\ loads' = loads \ {load} /\ UNCHANGED sinceRefresh
          /\ phase' = IF phase = "loading" THEN "running" ELSE phase
      BY <1>5 DEF Loaded, LoadFailed, Over
    <2> QED
      BY <1>1, <2>1 DEF LoadsApart
  <1>6. CASE ModuleDestroy
    BY <1>6 DEF ModuleDestroy, LoadsApart
  <1>7. CASE RegistryStep
    BY <1>7 DEF RegistryStep, serviceVars, LoadsApart
  <1>8. CASE Pass
    <2>1. ASSUME NEW new \in loads'
          PROVE  \E load \in loads : /\ new = [load EXCEPT !.wait = @ + 1, !.since = @ + 1]
                                     /\ new.stage = load.stage
                                     /\ new.wait = load.wait + 1 /\ new.since = load.since + 1
      <3>1. PICK load \in loads : new = [load EXCEPT !.wait = @ + 1, !.since = @ + 1]
        BY <1>8 DEF Pass
      <3> QED
        BY <3>1, OlderLoad
    <2>2. ASSUME NEW new \in loads', NEW other \in loads', new.since = other.since
          PROVE  new = other
      <3>1. PICK load \in loads : /\ new = [load EXCEPT !.wait = @ + 1, !.since = @ + 1]
                                  /\ new.since = load.since + 1
        BY <2>1
      <3>2. PICK second \in loads : /\ other = [second EXCEPT !.wait = @ + 1, !.since = @ + 1]
                                    /\ other.since = second.since + 1
        BY <2>1
      <3>3. load = second
        BY <1>1, <2>2, <3>1, <3>2 DEF LoadsApart
      <3> QED
        BY <3>1, <3>2, <3>3
    <2>3. /\ UNCHANGED phase
          /\ phase = "running" => sinceRefresh' = sinceRefresh + 1
      BY <1>8 DEF Pass
    <2>4. ASSUME NEW new \in loads'
          PROVE  /\ new.wait <= new.since
                 /\ new.stage = "asked" => new.wait = new.since
                 /\ new.since <= new.wait + MaxDelay
                 /\ phase = "running" => sinceRefresh' <= new.since
      <3>1. PICK load \in loads : /\ new.stage = load.stage
                                  /\ new.wait = load.wait + 1 /\ new.since = load.since + 1
        BY <2>1
      <3> QED
        BY <1>1, <2>3, <3>1 DEF LoadsApart
    <2>5. ASSUME NEW new \in loads', NEW other \in loads', phase = "loading"
          PROVE  new = other
      <3>1. PICK load \in loads : new = [load EXCEPT !.wait = @ + 1, !.since = @ + 1]
        BY <2>1
      <3>2. PICK second \in loads : other = [second EXCEPT !.wait = @ + 1, !.since = @ + 1]
        BY <2>1
      <3>3. load = second
        BY <2>5 DEF LoadsApart
      <3> QED
        BY <3>1, <3>2, <3>3
    <2>6. phase = "new" => loads' = {}
      BY <1>8 DEF Pass, LoadsApart
    <2> QED
      BY <2>2, <2>3, <2>4, <2>5, <2>6 DEF LoadsApart
  <1>9. CASE UNCHANGED cacheVars
    BY <1>9 DEF cacheVars, serviceVars, LoadsApart
  <1> QED
    BY <1>2, <1>3, <1>4, <1>5, <1>6, <1>7, <1>8, <1>9 DEF CacheNext, Finish

LEMMA EntriesExplainedStep ==
    ASSUME CacheTypeOK, CacheTypeOK', LoadsApart, EntriesExplained, [CacheNext]_cacheVars
    PROVE  EntriesExplained'
  <1> USE FreshBoundNat
  <1> DEFINE Shown == \A i \in Instance : strikes[i] = 0 => offFor[i] = 0
             Told == \A load \in loads, i \in Instance :
                        load.stage = "listed" /\ load.listing[i] = 0 => offFor[i] <= load.wait
             Cached == \A i \in services : age # Never /\ offFor[i] <= age
  <1>1. Shown /\ Told /\ Cached
    BY DEF EntriesExplained, On
  <1>2. SUFFICES Shown' /\ Told' /\ Cached'
    BY DEF EntriesExplained, On
  <1>3. /\ \A i \in Instance : offFor[i] \in 0 .. FreshBound + 1
        /\ age = Never \/ age \in 0 .. FreshBound + 1
        /\ services \subseteq Instance
        /\ \A load \in loads : load.wait \in Nat /\ load.wait <= MaxDelay
    BY LoadTypes DEF CacheTypeOK, Never
  <1>4. CASE ModuleInit
    BY <1>1, <1>4 DEF ModuleInit, Asked
  <1>5. CASE Refresh
    BY <1>1, <1>5 DEF Refresh, Asked
  <1>6. ASSUME NEW load \in loads, Listed(load)
        PROVE  Shown' /\ Told' /\ Cached'
    <2> DEFINE new == [load EXCEPT !.stage = "listed", !.listing = strikes, !.wait = 0]
    <2>1. /\ new.wait = 0 /\ new.listing = strikes
          /\ loads' = (loads \ {load}) \cup {new}
          /\ UNCHANGED <<strikes, services, age, offFor>>
      BY <1>6, ListedLoad DEF Listed
    <2> HIDE DEF new
    <2> QED
      BY <1>1, <1>3, <2>1
  <1>7. ASSUME NEW load \in loads, Loaded(load)
        PROVE  Shown' /\ Told' /\ Cached'
    <2>1. /\ load.stage = "listed" /\ loads' = loads \ {load}
          /\ services' = {i \in Instance : load.listing[i] = 0} /\ age' = load.wait
          /\ UNCHANGED <<strikes, offFor>>
      BY <1>7 DEF Loaded, Over
    <2> QED
      BY <1>1, <1>3, <2>1 DEF Never
  <1>8. ASSUME NEW load \in loads, LoadFailed(load)
        PROVE  Shown' /\ Told' /\ Cached'
    BY <1>1, <1>8 DEF LoadFailed, Over
  <1>9. CASE ModuleDestroy
    BY <1>1, <1>9 DEF ModuleDestroy
  <1>10. CASE RegistryStep
    <2>1. /\ UNCHANGED <<services, loads, age>>
          /\ \A i \in Instance : offFor'[i] = IF strikes'[i] = 0 THEN 0 ELSE offFor[i]
      BY <1>10 DEF RegistryStep, serviceVars
    <2>2. \A i \in Instance : offFor'[i] <= offFor[i]
      BY <1>3, <2>1
    <2>3. \A i \in Instance : offFor'[i] \in 0 .. FreshBound + 1
      BY DEF CacheTypeOK
    <2> QED
      BY <1>1, <1>3, <2>1, <2>2, <2>3
  <1>11. CASE Pass
    <2>1. /\ UNCHANGED <<strikes, services>>
          /\ age' = IF age = Never THEN Never ELSE Later(age)
          /\ \A i \in Instance : offFor'[i] = IF strikes[i] = 0 THEN 0 ELSE Later(offFor[i])
      BY <1>11 DEF Pass, On
    <2>2. \A i \in Instance : /\ offFor'[i] <= offFor[i] + 1
                              /\ offFor'[i] <= Later(offFor[i])
      BY <1>3, <2>1, LaterSteps
    <2>3. ASSUME NEW new \in loads', NEW i \in Instance,
                 new.stage = "listed", new.listing[i] = 0
          PROVE  offFor'[i] <= new.wait
      <3>1. PICK load \in loads : new = [load EXCEPT !.wait = @ + 1, !.since = @ + 1]
        BY <1>11 DEF Pass
      <3>2. /\ new.stage = load.stage /\ new.listing = load.listing
            /\ new.wait = load.wait + 1
        BY <3>1, OlderLoad
      <3>3. offFor'[i] \in 0 .. FreshBound + 1
        BY DEF CacheTypeOK
      <3>4. offFor[i] <= load.wait /\ offFor'[i] <= offFor[i] + 1
        BY <1>1, <2>2, <2>3, <3>2
      <3> QED
        BY <1>3, <3>2, <3>3, <3>4
    <2>4. ASSUME NEW i \in services
          PROVE  age' # Never /\ offFor'[i] <= age'
      <3>1. /\ age \in 0 .. FreshBound + 1 /\ offFor[i] \in 0 .. FreshBound + 1
            /\ age # Never /\ offFor[i] <= age
        BY <1>1, <1>3
      <3>2. age' = Later(age)
        BY <2>1, <3>1
      <3>3. Later(offFor[i]) <= Later(age)
        BY <3>1, LaterSteps DEF Later
      <3>4. Later(age) \in 0 .. FreshBound + 1 /\ Later(offFor[i]) \in 0 .. FreshBound + 1
        BY <3>1, LaterSteps
      <3>5. offFor'[i] <= Later(offFor[i]) /\ offFor'[i] \in 0 .. FreshBound + 1
        BY <1>3, <2>2 DEF CacheTypeOK
      <3> QED
        BY <3>2, <3>3, <3>4, <3>5 DEF Never
    <2> QED
      BY <1>1, <2>1, <2>3, <2>4
  <1>12. CASE UNCHANGED cacheVars
    BY <1>1, <1>12 DEF cacheVars, serviceVars
  <1> QED
    BY <1>4, <1>5, <1>6, <1>7, <1>8, <1>9, <1>10, <1>11, <1>12 DEF CacheNext, Finish

-----------------------------------------------------------------------------
(* Sizes of the set of the loads under way, and multiples of the gap. *)
LEMMA BegunFinite ==
    ASSUME CacheTypeOK
    PROVE  /\ Begun \in SUBSET Nat /\ IsFiniteSet(Begun) /\ Cardinality(Begun) \in Nat
           /\ \A t \in Begun : t <= 2 * MaxDelay
           /\ \A t \in Nat : IsFiniteSet(Before(t)) /\ Cardinality(Before(t)) \in Nat
  <1>1. \A t \in Begun : t \in Nat /\ t <= 2 * MaxDelay
    BY LoadTypes DEF Begun
  <1>2. 2 * MaxDelay \in Nat
    BY GapNat
  <1>3. IsFiniteSet(Begun)
    BY <1>1, <1>2, FS_BoundedSetOfNaturals
  <1>4. \A t \in Nat : Before(t) \in SUBSET Begun
    BY DEF Before
  <1>5. \A t \in Nat : IsFiniteSet(Before(t))
    BY <1>3, <1>4, FS_Subset
  <1> QED
    BY <1>1, <1>3, <1>5, FS_CardinalityType

LEMMA GapMultiples ==
    ASSUME NEW k \in Nat
    PROVE  k * Gap \in Nat /\ (k + 1) * Gap = k * Gap + Gap
  <1>1. Gap \in Nat
    BY GapNat
  <1> QED
    BY <1>1

LEMMA GapMonotone ==
    ASSUME NEW k \in Nat, NEW l \in Nat, k <= l
    PROVE  k * Gap <= l * Gap
  <1>1. Gap \in Nat
    BY GapNat
  <1> QED
    BY <1>1

\* A load that ends was counted once.
LEMMA OneLess ==
    ASSUME CacheTypeOK, LoadsApart, NEW load \in loads, loads' = loads \ {load}
    PROVE  /\ Begun' = Begun \ {load.since}
           /\ Cardinality(Begun') + 1 = Cardinality(Begun)
           /\ \A t \in Nat : /\ Cardinality(Before(t)') + 1 >= Cardinality(Before(t))
                             /\ Cardinality(Before(t)') \in Nat
  <1>1. load.since \in Begun
    BY DEF Begun
  <1>2. Begun' = Begun \ {load.since}
    BY DEF Begun, LoadsApart
  <1>3. IsFiniteSet(Begun) /\ Cardinality(Begun) \in Nat
    BY BegunFinite
  <1>4. Cardinality(Begun') = Cardinality(Begun) - 1
    BY <1>1, <1>2, <1>3, FS_RemoveElement
  <1>5. ASSUME NEW t \in Nat
        PROVE  /\ Cardinality(Before(t)') + 1 >= Cardinality(Before(t))
               /\ Cardinality(Before(t)') \in Nat
    <2>1. Before(t)' = Before(t) \ {load.since}
      BY <1>2 DEF Before
    <2>2. IsFiniteSet(Before(t)) /\ Cardinality(Before(t)) \in Nat
      BY BegunFinite
    <2> DEFINE rest == Before(t) \ {load.since}
    <2>3. /\ IsFiniteSet(rest)
          /\ Cardinality(rest) = IF load.since \in Before(t)
                                 THEN Cardinality(Before(t)) - 1
                                 ELSE Cardinality(Before(t))
      BY <2>2, FS_RemoveElement
    <2>4. Cardinality(rest) \in Nat
      BY <2>3, FS_CardinalityType
    <2>5. Cardinality(rest) + 1 >= Cardinality(Before(t))
      BY <2>2, <2>3
    <2> QED
      BY <2>1, <2>4, <2>5
  <1> QED
    BY <1>2, <1>3, <1>4, <1>5

LEMMA AgeExplainedStep ==
    ASSUME CacheTypeOK, CacheTypeOK', LoadsApart, AgeExplained, [CacheNext]_cacheVars
    PROVE  AgeExplained'
  <1> USE GapNat
  <1> DEFINE Overall == age <= MaxDelay + (failures + Cardinality(Begun)) * Gap + sinceRefresh
             Each(t) == age - t <= MaxDelay + (failures + Cardinality(Before(t)) + 1) * Gap
  <1>1. /\ phase \in {"new", "loading"} => age = Never
        /\ phase = "running" /\ age # Never => Overall /\ \A t \in Begun : Each(t)
    BY DEF AgeExplained
  <1>2. /\ sinceRefresh \in Nat /\ sinceRefresh <= Gap /\ failures \in Nat
        /\ age \in Int /\ age' \in Int
    BY FreshBoundNat DEF CacheTypeOK, Gap
  <1>3. /\ Begun \in SUBSET Nat /\ Cardinality(Begun) \in Nat
        /\ \A t \in Nat : Cardinality(Before(t)) \in Nat
    BY BegunFinite
  <1>4. SUFFICES /\ phase' \in {"new", "loading"} => age' = Never
                 /\ phase' = "running" /\ age' # Never => Overall' /\ \A t \in Begun' : Each(t)'
    BY DEF AgeExplained
  <1>5. ASSUME UNCHANGED <<phase, age, failures, sinceRefresh>>, Begun' = Begun
        PROVE  /\ phase' \in {"new", "loading"} => age' = Never
               /\ phase' = "running" /\ age' # Never => Overall' /\ \A t \in Begun' : Each(t)'
    BY <1>1, <1>5 DEF Before
  <1>6. CASE ModuleInit
    BY <1>1, <1>6 DEF ModuleInit
  <1>7. CASE Refresh
    <2>1. /\ phase = "running" /\ sinceRefresh' = 0
          /\ UNCHANGED <<phase, age, failures>>
          /\ Begun' = Begun \cup {0}
      <3>1. /\ phase = "running" /\ sinceRefresh' = 0
            /\ UNCHANGED <<phase, age, failures>>
            /\ loads' = loads \cup {Asked}
        BY <1>7 DEF Refresh
      <3>2. Asked.since = 0
        BY DEF Asked
      <3>3. Begun' = Begun \cup {0}
        BY <3>1, <3>2 DEF Begun
      <3> QED
        BY <3>1, <3>3
    <2>2. ASSUME NEW t \in Begun
          PROVE  t \in Nat /\ t > 0
      <3>1. PICK load \in loads : t = load.since
        BY DEF Begun
      <3>2. sinceRefresh <= load.since /\ sinceRefresh >= RefreshInterval
        BY <1>7 DEF Refresh, LoadsApart
      <3>3. load.since \in Nat
        BY LoadTypes
      <3> QED
        BY <1>2, <3>1, <3>2, <3>3
    <2>3. Cardinality(Begun \cup {0}) = Cardinality(Begun) + 1
      <3>1. 0 \notin Begun
        BY <2>2
      <3>2. IsFiniteSet(Begun)
        BY BegunFinite
      <3> QED
        BY <3>1, <3>2, FS_AddElement
    <2>4. Before(0)' = Begun
      <3>1. Before(0)' = {s \in Begun \cup {0} : s > 0}
        BY <2>1 DEF Before
      <3> QED
        BY <2>2, <3>1
    <2>5. \A t \in Begun : Before(t)' = Before(t)
      BY <1>3, <2>1, <2>2 DEF Before
    <2> DEFINE n == failures + Cardinality(Begun)
    <2>6. n \in Nat /\ n * Gap \in Nat /\ (n + 1) * Gap = n * Gap + Gap
      BY <1>2, <1>3, GapMultiples
    <2> SUFFICES ASSUME age # Never
                 PROVE  Overall' /\ \A t \in Begun' : Each(t)'
      BY <2>1
    <2>7. age <= MaxDelay + n * Gap + sinceRefresh
      BY <1>1, <2>1
    <2>8. failures + Cardinality(Begun \cup {0}) = n + 1
      BY <1>2, <1>3, <2>3
    <2>9. age <= MaxDelay + (n + 1) * Gap
      <3> HIDE DEF n
      <3> QED
        BY <1>2, <2>6, <2>7
    <2>10. Overall'
      <3> HIDE DEF n
      <3>1. age <= MaxDelay + (failures + Cardinality(Begun \cup {0})) * Gap + 0
        BY <1>2, <2>6, <2>8, <2>9
      <3> QED
        BY <2>1, <3>1
    <2>11. Each(0)'
      BY <1>2, <2>1, <2>4, <2>9
    <2>12. \A t \in Begun : Each(t)'
      BY <1>1, <2>1, <2>5
    <2> QED
      BY <2>1, <2>10, <2>11, <2>12
  <1>8. ASSUME NEW load \in loads, Listed(load)
        PROVE  /\ phase' \in {"new", "loading"} => age' = Never
               /\ phase' = "running" /\ age' # Never => Overall' /\ \A t \in Begun' : Each(t)'
    <2> DEFINE new == [load EXCEPT !.stage = "listed", !.listing = strikes, !.wait = 0]
    <2>1. /\ new.since = load.since /\ loads' = (loads \ {load}) \cup {new}
          /\ UNCHANGED <<phase, age, failures, sinceRefresh>>
      BY <1>8, ListedLoad DEF Listed
    <2> HIDE DEF new
    <2>2. Begun' = Begun
      BY <2>1 DEF Begun
    <2> QED
      BY <1>5, <2>1, <2>2
  <1>9. ASSUME NEW load \in loads, Loaded(load)
        PROVE  /\ phase' \in {"new", "loading"} => age' = Never
               /\ phase' = "running" /\ age' # Never => Overall' /\ \A t \in Begun' : Each(t)'
    <2>1. /\ loads' = loads \ {load} /\ phase' = IF phase = "loading" THEN "running" ELSE phase
          /\ age' = load.wait /\ failures' = 0 /\ UNCHANGED sinceRefresh
      BY <1>9 DEF Loaded, Over
    <2>2. load.wait \in Nat /\ load.wait <= MaxDelay
      BY LoadTypes
    <2>3. phase' \notin {"new", "loading"}
      BY <2>1 DEF LoadsApart
    <2>4. /\ Begun' \subseteq Nat /\ Cardinality(Begun') \in Nat
          /\ \A t \in Nat : Cardinality(Before(t)') \in Nat
      <3>1. /\ Begun' = Begun \ {load.since}
            /\ \A t \in Nat : Cardinality(Before(t)') \in Nat
        BY <2>1, OneLess
      <3>2. IsFiniteSet(Begun)
        BY BegunFinite
      <3>3. Cardinality(Begun \ {load.since}) \in Nat
        BY <3>2, FS_RemoveElement, FS_CardinalityType
      <3> QED
        BY <1>3, <3>1, <3>3
    <2>5. Overall'
      <3>1. (0 + Cardinality(Begun')) * Gap \in Nat
        BY <2>4, GapMultiples
      <3> QED
        BY <1>2, <2>1, <2>2, <3>1
    <2>6. ASSUME NEW t \in Begun'
          PROVE  Each(t)'
      <3>1. t \in Nat /\ 0 + Cardinality(Before(t)') + 1 \in Nat
        BY <2>4
      <3>2. (0 + Cardinality(Before(t)') + 1) * Gap \in Nat
        BY <3>1, GapMultiples
      <3> QED
        BY <2>1, <2>2, <3>1, <3>2
    <2> QED
      BY <2>3, <2>5, <2>6
  <1>10. ASSUME NEW load \in loads, LoadFailed(load)
         PROVE  /\ phase' \in {"new", "loading"} => age' = Never
                /\ phase' = "running" /\ age' # Never => Overall' /\ \A t \in Begun' : Each(t)'
    <2>1. /\ loads' = loads \ {load} /\ phase' = IF phase = "loading" THEN "running" ELSE phase
          /\ failures' = failures + 1 /\ UNCHANGED <<age, sinceRefresh>>
      BY <1>10 DEF LoadFailed, Over
    <2>2. /\ Begun' = Begun \ {load.since}
          /\ Cardinality(Begun') + 1 = Cardinality(Begun)
          /\ \A t \in Nat : /\ Cardinality(Before(t)') + 1 >= Cardinality(Before(t))
                            /\ Cardinality(Before(t)') \in Nat
      BY <2>1, OneLess
    <2>3. Cardinality(Begun') \in Nat
      BY <2>1, <2>2, BegunFinite, FS_RemoveElement, FS_CardinalityType
    <2>4. SUFFICES ASSUME phase = "running", age # Never
                   PROVE  Overall' /\ \A t \in Begun' : Each(t)'
      BY <1>1, <2>1
    <2>5. Overall'
      <3>1. failures + 1 + Cardinality(Begun') = failures + Cardinality(Begun)
        BY <1>2, <1>3, <2>2, <2>3
      <3> QED
        BY <1>1, <2>1, <2>4, <3>1
    <2>6. ASSUME NEW t \in Begun'
          PROVE  Each(t)'
      <3>1. t \in Begun /\ t \in Nat
        BY <1>3, <2>2
      <3> DEFINE c == failures + Cardinality(Before(t)) + 1
                 d == failures + 1 + Cardinality(Before(t)') + 1
      <3>2. c \in Nat /\ d \in Nat /\ c <= d
        BY <1>2, <1>3, <2>2, <3>1
      <3>3. age - t <= MaxDelay + c * Gap
        BY <1>1, <2>4, <3>1
      <3>4. c * Gap <= d * Gap /\ c * Gap \in Nat /\ d * Gap \in Nat
        BY <3>2, GapMonotone, GapMultiples
      <3>5. age - t <= MaxDelay + d * Gap
        <4> HIDE DEF c, d
        <4> QED
          BY <1>2, <3>1, <3>3, <3>4
      <3> QED
        BY <2>1, <3>5
    <2> QED
      BY <2>5, <2>6
  <1>11. CASE ModuleDestroy
    BY <1>11 DEF ModuleDestroy
  <1>12. CASE RegistryStep
    <2>1. UNCHANGED <<phase, age, failures, sinceRefresh>> /\ UNCHANGED loads
      BY <1>12 DEF RegistryStep, serviceVars
    <2> QED
      BY <1>5, <2>1 DEF Begun
  <1>13. CASE Pass
    <2>1. /\ UNCHANGED <<phase, failures>>
          /\ phase = "running" => sinceRefresh' = sinceRefresh + 1
          /\ age' = IF age = Never THEN Never ELSE Later(age)
      BY <1>13 DEF Pass
    <2>2. Begun' = {s + 1 : s \in Begun}
      <3>1. \A load \in loads : [load EXCEPT !.wait = @ + 1, !.since = @ + 1].since = load.since + 1
        BY OlderLoad
      <3>2. loads' = {[load EXCEPT !.wait = @ + 1, !.since = @ + 1] : load \in loads}
        BY <1>13 DEF Pass
      <3>3. ASSUME NEW u
            PROVE  u \in Begun' <=> \E load \in loads : u = load.since + 1
        <4>1. u \in Begun' <=> \E new \in loads' : u = new.since
          BY DEF Begun
        <4>2. ASSUME NEW new \in loads', u = new.since
              PROVE  \E load \in loads : u = load.since + 1
          <5>1. PICK load \in loads : new = [load EXCEPT !.wait = @ + 1, !.since = @ + 1]
            BY <3>2
          <5> QED
            BY <3>1, <4>2, <5>1
        <4>3. ASSUME NEW load \in loads, u = load.since + 1
              PROVE  \E new \in loads' : u = new.since
          <5> DEFINE new == [load EXCEPT !.wait = @ + 1, !.since = @ + 1]
          <5>1. new \in loads'
            BY <3>2
          <5>2. new.since = load.since + 1
            BY <3>1
          <5> HIDE DEF new
          <5> QED
            BY <4>3, <5>1, <5>2
        <4> QED
          BY <4>1, <4>2, <4>3
      <3>4. ASSUME NEW u
            PROVE  u \in {s + 1 : s \in Begun} <=> \E load \in loads : u = load.since + 1
        BY DEF Begun
      <3> QED
        BY <3>3, <3>4
    <2>3. Cardinality(Begun') = Cardinality(Begun)
      BY <2>2, BegunFinite, ShiftedSize
    <2>4. ASSUME NEW t \in Begun
          PROVE  Cardinality(Before(t + 1)') = Cardinality(Before(t))
      <3>1. Before(t + 1)' = {s + 1 : s \in Before(t)}
        BY <1>3, <2>2 DEF Before
      <3>2. Before(t) \in SUBSET Nat /\ IsFiniteSet(Before(t))
        BY <1>3, BegunFinite DEF Before
      <3> QED
        BY <3>1, <3>2, ShiftedSize
    <2>5. SUFFICES ASSUME phase = "running", age # Never
                   PROVE  Overall' /\ \A t \in Begun' : Each(t)'
      BY <1>1, <2>1
    <2>6. age' <= age + 1
      <3>1. age \in 0 .. FreshBound + 1
        BY <2>5, FreshBoundNat DEF CacheTypeOK, Never
      <3> QED
        BY <2>1, <2>5, <3>1, LaterSteps
    <2>7. Overall'
      <3> DEFINE n == (failures + Cardinality(Begun)) * Gap
      <3>1. n \in Nat /\ age <= MaxDelay + n + sinceRefresh
        BY <1>1, <1>2, <1>3, <2>5, GapMultiples
      <3>2. age' <= MaxDelay + n + sinceRefresh'
        <4> HIDE DEF n
        <4> QED
          BY <1>2, <2>1, <2>5, <2>6, <3>1
      <3> QED
        BY <2>1, <2>3, <3>2
    <2>8. ASSUME NEW u \in Begun'
          PROVE  Each(u)'
      <3>1. PICK t \in Begun : u = t + 1
        BY <2>2
      <3> DEFINE n == (failures + Cardinality(Before(t)) + 1) * Gap
      <3>2. t \in Nat /\ failures + Cardinality(Before(t)) + 1 \in Nat
        BY <1>2, <1>3
      <3>3. n \in Nat /\ age - t <= MaxDelay + n
        BY <1>1, <2>5, <3>2, GapMultiples
      <3>4. age' - u <= MaxDelay + n
        <4> HIDE DEF n
        <4> QED
          <5>1. age \in Int /\ age' \in Int /\ t \in Nat /\ n \in Nat
            BY <1>2, <3>2, <3>3
          <5>2. age' <= age + 1 /\ u = t + 1 /\ age - t <= MaxDelay + n
            BY <2>6, <3>1, <3>3
          <5>3. ASSUME NEW a \in Int, NEW b \in Int, b <= a + 1, a - t <= MaxDelay + n
                PROVE  b - (t + 1) <= MaxDelay + n
            BY <5>1, <5>3
          <5>4. age' - (t + 1) <= MaxDelay + n
            BY <5>1, <5>2, <5>3
          <5> QED
            BY <5>2, <5>4
      <3> QED
        BY <2>1, <2>4, <3>1, <3>4
    <2> QED
      BY <2>7, <2>8
  <1>14. CASE UNCHANGED cacheVars
    <2>1. UNCHANGED <<phase, age, failures, sinceRefresh>> /\ UNCHANGED loads
      BY <1>14 DEF cacheVars, serviceVars
    <2> QED
      BY <1>5, <2>1 DEF Begun
  <1> QED
    BY <1>6, <1>7, <1>8, <1>9, <1>10, <1>11, <1>12, <1>13, <1>14 DEF CacheNext, Finish

-----------------------------------------------------------------------------
LEMMA CacheInvInit == CacheInit => CacheInv
  <1> SUFFICES ASSUME CacheInit
               PROVE  CacheInv
    OBVIOUS
  <1> USE CacheAssumption, FreshBoundNat
  <1> USE DEF CacheInit, Directory!Init, Directory!Unlisted
  <1>1. CacheTypeOK
    BY DEF CacheTypeOK, Never
  <1>2. LoadsApart
    BY DEF LoadsApart
  <1>3. EntriesExplained
    BY DEF EntriesExplained, On
  <1>4. AgeExplained
    BY DEF AgeExplained
  <1> QED
    BY <1>1, <1>2, <1>3, <1>4 DEF CacheInv

LEMMA CacheInvStep == CacheInv /\ [CacheNext]_cacheVars => CacheInv'
  <1> SUFFICES ASSUME CacheInv, [CacheNext]_cacheVars
               PROVE  CacheInv'
    OBVIOUS
  <1> USE DEF CacheInv
  <1>1. CacheTypeOK'
    BY CacheTypeStep
  <1>2. LoadsApart'
    BY LoadsApartStep
  <1>3. EntriesExplained'
    BY <1>1, EntriesExplainedStep
  <1>4. AgeExplained'
    BY <1>1, AgeExplainedStep
  <1> QED
    BY <1>1, <1>2, <1>3, <1>4

LEMMA CacheInvHolds == CacheSpec => []CacheInv
  BY CacheInvInit, CacheInvStep, PTL DEF CacheSpec

(* Type correctness: in particular the timer of onModuleInit is never      *)
(* later than its lag, and no load outlives a request and its answer.      *)
THEOREM CacheTypeCorrect == CacheSpec => []CacheTypeOK
  <1>1. CacheInv => CacheTypeOK
    BY DEF CacheInv
  <1> QED
    BY <1>1, CacheInvHolds, PTL

\* The cached answer of a running service is no older than the bound.
LEMMA AgeBounded ==
    ASSUME CacheInv, phase = "running", age # Never
    PROVE  age <= FreshBound
  <1> USE GapNat, FreshBoundNat
  <1>1. /\ sinceRefresh \in Nat /\ sinceRefresh <= Gap
        /\ failures \in Nat /\ failures <= MaxFailures
        /\ age \in Int /\ MaxFailures \in Nat
    BY CacheAssumption DEF CacheInv, CacheTypeOK, Gap
  <1>2. failures + 0 \in Nat /\ failures + 0 + 1 \in Nat /\ failures + 0 + 1 <= MaxFailures + 1
    BY <1>1
  <1>3. (failures + 0) * Gap \in Nat /\ (failures + 0) * Gap + Gap = (failures + 0 + 1) * Gap
    BY <1>2, GapMultiples
  <1>4. (failures + 0 + 1) * Gap <= (MaxFailures + 1) * Gap
    BY <1>1, <1>2, GapMonotone
  <1> DEFINE most == (MaxFailures + 1) * Gap
             part == (failures + 0) * Gap
             next == (failures + 0 + 1) * Gap
  <1>5. /\ most \in Nat /\ part \in Nat /\ next \in Int /\ part + Gap = next /\ next <= most
        /\ FreshBound = most + 3 * MaxDelay
    BY <1>3, <1>4
  <1>6. CASE Begun = {}
    <2>1. Cardinality(Begun) = 0
      BY <1>6, FS_EmptySet
    <2>2. age <= MaxDelay + part + sinceRefresh
      BY <2>1 DEF CacheInv, AgeExplained
    <2> HIDE DEF most, part, next
    <2> QED
      BY <1>1, <1>5, <2>2
  <1>7. CASE Begun # {}
    <2>1. PICK t \in Begun : \A s \in Begun : s <= t
      <3>1. Begun \in SUBSET Nat /\ (\A s \in Begun : s <= 2 * MaxDelay) /\ 2 * MaxDelay \in Nat
        BY BegunFinite DEF CacheInv
      <3> QED
        BY <1>7, <3>1, GreatestNatural
    <2>2. t \in Nat /\ t <= 2 * MaxDelay /\ \A s \in Begun : s \in Nat
      BY BegunFinite DEF CacheInv
    <2>3. \A s \in Begun : ~ (s > t)
      BY <2>1, <2>2
    <2>4. Before(t) = {}
      BY <2>3 DEF Before
    <2>5. Cardinality(Before(t)) = 0
      BY <2>4, FS_EmptySet
    <2>6. age - t <= MaxDelay + next
      BY <2>5 DEF CacheInv, AgeExplained
    <2> HIDE DEF most, part, next
    <2>7. age <= MaxDelay + next + t
      BY <1>1, <1>5, <2>2, <2>6
    <2> QED
      BY <1>1, <1>5, <2>2, <2>7
  <1> QED
    BY <1>6, <1>7

LEMMA FreshByInv == CacheInv => CacheFresh
  <1> SUFFICES ASSUME CacheInv, phase = "running", NEW i \in services
               PROVE  offFor[i] <= FreshBound
    BY DEF CacheFresh
  <1>1. age # Never /\ offFor[i] <= age
    BY DEF CacheInv, EntriesExplained
  <1>2. age <= FreshBound
    BY <1>1, AgeBounded
  <1>3. i \in Instance /\ age \in Int /\ offFor[i] \in Int
    BY FreshBoundNat DEF CacheInv, CacheTypeOK
  <1> QED
    BY <1>1, <1>2, <1>3, FreshBoundNat

(* Traffic stops following the registry only for a known time, however     *)
(* many loads are under way and in whatever order they end: of the         *)
(* refreshes started since the cached answer at most MaxFailures failed,   *)
(* and the first of the others has been under way for two delays at most.  *)
THEOREM CacheStaysFresh == CacheSpec => []CacheFresh
  BY FreshByInv, CacheInvHolds, PTL

-----------------------------------------------------------------------------
\* Two loads were begun at least one period of the timer apart.
LoadsSpaced ==
    \A load \in loads, other \in loads :
        load.since < other.since => load.since + RefreshInterval <= other.since

LEMMA LoadsSpacedStep ==
    ASSUME CacheInv, LoadsSpaced, [CacheNext]_cacheVars
    PROVE  LoadsSpaced'
  <1> USE DEF CacheInv
  <1>1. Asked.since = 0
    BY DEF Asked
  <1>2. RefreshInterval \in Nat /\ \A load \in loads : load.since \in Nat
    BY LoadTypes, GapNat
  <1>3. CASE ModuleInit
    BY <1>1, <1>3 DEF ModuleInit, LoadsApart, LoadsSpaced
  <1>4. CASE Refresh
    <2>1. \A load \in loads : RefreshInterval <= load.since
      <3>1. sinceRefresh \in Nat /\ RefreshInterval <= sinceRefresh
        BY <1>2, <1>4 DEF Refresh, CacheTypeOK
      <3>2. \A load \in loads : sinceRefresh <= load.since
        BY <1>4 DEF Refresh, LoadsApart
      <3> QED
        BY <1>2, <3>1, <3>2
    <2>2. loads' = loads \cup {Asked}
      BY <1>4 DEF Refresh
    <2> QED
      BY <1>1, <1>2, <2>1, <2>2 DEF LoadsSpaced
  <1>5. ASSUME NEW load \in loads, Listed(load)
        PROVE  LoadsSpaced'
    <2> DEFINE new == [load EXCEPT !.stage = "listed", !.listing = strikes, !.wait = 0]
    <2>1. new.since = load.since /\ loads' = (loads \ {load}) \cup {new}
      BY <1>5, ListedLoad DEF Listed
    <2> HIDE DEF new
    <2> QED
      BY <2>1 DEF LoadsSpaced
  <1>6. ASSUME NEW load \in loads, Loaded(load) \/ LoadFailed(load)
        PROVE  LoadsSpaced'
    BY <1>6 DEF Loaded, LoadFailed, Over, LoadsSpaced
  <1>7. CASE ModuleDestroy
    BY <1>7 DEF ModuleDestroy, LoadsSpaced
  <1>8. CASE RegistryStep
    BY <1>8 DEF RegistryStep, serviceVars, LoadsSpaced
  <1>9. CASE Pass
    <2>1. ASSUME NEW new \in loads'
          PROVE  \E load \in loads : new.since = load.since + 1
      <3>1. PICK load \in loads : new = [load EXCEPT !.wait = @ + 1, !.since = @ + 1]
        BY <1>9 DEF Pass
      <3> QED
        BY <3>1, OlderLoad
    <2>2. SUFFICES ASSUME NEW new \in loads', NEW more \in loads', new.since < more.since
                   PROVE  new.since + RefreshInterval <= more.since
      BY DEF LoadsSpaced
    <2>3. PICK load \in loads : new.since = load.since + 1
      BY <2>1
    <2>4. PICK other \in loads : more.since = other.since + 1
      BY <2>1
    <2>5. load.since < other.since
      BY <1>2, <2>2, <2>3, <2>4
    <2>6. load.since + RefreshInterval <= other.since
      BY <2>5 DEF LoadsSpaced
    <2> QED
      BY <1>2, <2>3, <2>4, <2>6
  <1>10. CASE UNCHANGED cacheVars
    BY <1>10 DEF cacheVars, serviceVars, LoadsSpaced
  <1> QED
    BY <1>3, <1>4, <1>5, <1>6, <1>7, <1>8, <1>9, <1>10 DEF CacheNext, Finish

\* The periods that follow the loads' beginnings are disjoint and lie within
\* the longest load and one period more, which has room for so many only.
LEMMA BoundedBySpace == CacheInv /\ LoadsSpaced => LoadsBounded
  <1> SUFFICES ASSUME CacheInv, LoadsSpaced
               PROVE  LoadsBounded
    OBVIOUS
  <1> DEFINE period == 0 .. RefreshInterval - 1
             times == 0 .. 2 * MaxDelay + RefreshInterval - 1
             at == [e \in loads \X period |-> e[1].since + e[2]]
             begin == [load \in loads |-> load.since]
  <1>1. RefreshInterval \in Nat \ {0} /\ MaxDelay \in Nat
    BY GapNat
  <1>2. \A load \in loads : load.since \in Nat /\ load.since <= 2 * MaxDelay
    BY LoadTypes DEF CacheInv
  <1>3. begin \in Injection(loads, 0 .. 2 * MaxDelay)
    <2>1. begin \in [loads -> 0 .. 2 * MaxDelay]
      BY <1>1, <1>2
    <2>2. ASSUME NEW load \in loads, NEW other \in loads, begin[load] = begin[other]
          PROVE  load = other
      BY <2>2 DEF CacheInv, LoadsApart
    <2> HIDE DEF begin
    <2> QED
      BY <2>1, <2>2 DEF Injection, IsInjective
  <1>4. IsFiniteSet(loads) /\ Cardinality(loads) \in Nat
    <2>1. IsFiniteSet(0 .. 2 * MaxDelay)
      BY <1>1, FS_Interval
    <2>2. IsFiniteSet(loads)
      BY <1>3, <2>1, FS_Injection
    <2> QED
      BY <2>2, FS_CardinalityType
  <1>5. /\ IsFiniteSet(period) /\ Cardinality(period) = RefreshInterval
        /\ IsFiniteSet(times) /\ Cardinality(times) = 2 * MaxDelay + RefreshInterval
    <2>1. /\ 0 \in Int /\ RefreshInterval - 1 \in Int
          /\ 2 * MaxDelay + RefreshInterval - 1 \in Int
      BY <1>1
    <2>2. /\ IsFiniteSet(period)
          /\ Cardinality(period) = IF 0 > RefreshInterval - 1 THEN 0 ELSE RefreshInterval - 1 - 0 + 1
      BY <2>1, FS_Interval
    <2>3. /\ IsFiniteSet(times)
          /\ Cardinality(times) = IF 0 > 2 * MaxDelay + RefreshInterval - 1 THEN 0
                                  ELSE 2 * MaxDelay + RefreshInterval - 1 - 0 + 1
      BY <2>1, FS_Interval
    <2> HIDE DEF period, times
    <2> QED
      BY <1>1, <2>2, <2>3
  <1>6. at \in Injection(loads \X period, times)
    <2>1. ASSUME NEW e \in loads \X period
          PROVE  at[e] \in times
      <3>1. e[1] \in loads /\ e[2] \in period /\ at[e] = e[1].since + e[2]
        OBVIOUS
      <3> QED
        BY <1>1, <1>2, <3>1
    <2>2. ASSUME NEW e \in loads \X period, NEW d \in loads \X period, at[e] = at[d]
          PROVE  e = d
      <3>1. /\ e[1] \in loads /\ e[2] \in period /\ at[e] = e[1].since + e[2]
            /\ d[1] \in loads /\ d[2] \in period /\ at[d] = d[1].since + d[2]
        OBVIOUS
      <3>2. /\ e[1].since < d[1].since => e[1].since + RefreshInterval <= d[1].since
            /\ d[1].since < e[1].since => d[1].since + RefreshInterval <= e[1].since
        BY <3>1 DEF LoadsSpaced
      <3>3. e[1].since = d[1].since /\ e[2] = d[2]
        BY <1>1, <1>2, <2>2, <3>1, <3>2
      <3>4. e[1] = d[1]
        BY <3>1, <3>3 DEF CacheInv, LoadsApart
      <3> QED
        BY <3>3, <3>4
    <2>3. at \in [loads \X period -> times]
      BY <2>1
    <2> HIDE DEF at, times, period
    <2> QED
      BY <2>2, <2>3 DEF Injection, IsInjective
  <1>7. Cardinality(loads \X period) = Cardinality(loads) * RefreshInterval
    <2> HIDE DEF period
    <2> QED
      BY <1>4, <1>5, FS_Product
  <1>8. Cardinality(loads \X period) <= Cardinality(times)
    <2> HIDE DEF period, times, at
    <2> QED
      BY <1>5, <1>6, FS_Injection
  <1> QED
    BY <1>5, <1>7, <1>8 DEF LoadsBounded

(* However long the registry takes, and whichever load ends first, a       *)
(* reader has at most one load under way for each period of its timer that *)
(* the longest load lasts; where the period is longer than that, one load, *)
(* so no answer is then replaced by an earlier one.                        *)
THEOREM CacheLoadsBounded == CacheSpec => []LoadsBounded
  <1>1. CacheInit => LoadsSpaced
    BY DEF CacheInit, LoadsSpaced
  <1>2. CacheInv /\ LoadsSpaced /\ [CacheNext]_cacheVars => LoadsSpaced'
    BY LoadsSpacedStep
  <1>3. CacheInv /\ LoadsSpaced => LoadsBounded
    BY BoundedBySpace
  <1> QED
    BY <1>1, <1>2, <1>3, CacheInvHolds, PTL DEF CacheSpec

=============================================================================
