---------------------------- MODULE EndToEndProofs ----------------------------
(***************************************************************************)
(* Proofs about EndToEnd, from those about its two halves: the cluster is  *)
(* a directory (ClusterStepDirectory), so the reader's half of every step  *)
(* is a step of DiscoveryCache, and what is proved of a cache of any       *)
(* directory (Reader) holds of this one.                                   *)
(***************************************************************************)
EXTENDS EndToEnd, ClusterProofs

Reader == INSTANCE DiscoveryCacheProofs
    WITH MaxStrikes <- EvictionThreshold,
         strikes <- [i \in Instance |-> IF Present(i) THEN missedHeartbeats[i] ELSE -1]

\* The options of the reader (CacheAssumption).
Options == RefreshInterval \in Nat \ {0} /\ RefreshLag \in Nat /\ MaxFailures \in Nat

\* A process is counted as gone alike by both histories; what was listed as ON
\* some time ago had not been gone for long by then.
EndedInv ==
    /\ endedFor \in [Instance -> 0 .. Horizon]
    /\ \A i \in Instance : goneFor[i] < GoneBound => endedFor[i] = goneFor[i]
    /\ \A i \in Instance : offFor[i] <= Reader!FreshBound => endedFor[i] <= OnBound + offFor[i]

Serving(i) == process[i] = "serving" /\ i \notin refused

\* A registration under way, or its answer, that its process waits for.
Registering(msg) == msg.live /\ msg.op \in {"register", "registered"}

\* A process registers once, before it serves.
SentOnce ==
    /\ \A msg \in wire : Registering(msg) => process[msg.from] # "serving"
    /\ \A msg \in wire, other \in wire :
          Registering(msg) /\ Registering(other) /\ msg.from = other.from => msg = other

\* A heartbeat under way that explains how long i has been off the list.
OnItsWay(i) ==
    \E msg \in wire :
        /\ msg.from = i /\ msg.op = "heartbeat" /\ msg.live
        /\ steadyFor[i] <= BeatGap + msg.age

\* A process that serves and is off the list waits for its timer or its heartbeat.
SteadyInv ==
    /\ steadyFor \in [Instance -> 0 .. Horizon]
    /\ \A i \in Instance :
          /\ process[i] # "serving" => steadyFor[i] = 0
          /\ Serving(i) /\ status[i] # "ON" => steadyFor[i] <= sinceBeat[i] \/ OnItsWay(i)

\* Whatever an answer, or the copy made from it, does not show was off when the
\* answer was given.
KnownInv ==
    /\ \A load \in loads, i \in Instance :
          load.stage = "listed" /\ load.listing[i] # 0 /\ Serving(i)
              => steadyFor[i] <= ListedBound + load.wait
    /\ age # -1 /\ age <= Reader!FreshBound =>
          \A i \in Instance :
              Serving(i) /\ i \notin services => steadyFor[i] <= ListedBound + age

EndInv ==
    /\ ClusterInv
    /\ Reader!CacheInv
    /\ EndedInv
    /\ SentOnce
    /\ SteadyInv
    /\ KnownInv

-----------------------------------------------------------------------------
LEMMA Assumptions ==
    ASSUME Options
    PROVE  /\ EvictionThreshold \in Nat \ {0}
           /\ RefreshInterval \in Nat \ {0}
           /\ RefreshLag \in Nat /\ MaxDelay \in Nat /\ MaxFailures \in Nat
  BY RegistryAssumption, ClusterAssumption DEF Options

LEMMA Bounds ==
    ASSUME Options
    PROVE  /\ Reader!FreshBound \in Nat /\ Cache!FreshBound = Reader!FreshBound
           /\ OnBound \in Nat /\ GoneBound \in Nat
           /\ OnBound < GoneBound
           /\ Horizon \in Nat /\ GoneBound <= Horizon
  <1>1. Reader!FreshBound \in Nat
    BY Assumptions, Reader!FreshBoundNat
  <1>2. Cache!FreshBound = Reader!FreshBound
    BY DEF Cache!FreshBound, Reader!FreshBound
  <1>3. EvictionThreshold * (CleanupTTL + TimerLag) \in Nat
    BY RegistryAssumption, NextMultiple
  <1>4. CleanupTTL + TimerLag <= EvictionThreshold * (CleanupTTL + TimerLag)
    <2> DEFINE period == CleanupTTL + TimerLag
    <2>1. period \in Nat /\ EvictionThreshold \in Nat /\ EvictionThreshold >= 1
      BY RegistryAssumption
    <2> HIDE DEF period
    <2>2. EvictionThreshold * period = (EvictionThreshold - 1) * period + period
      BY <2>1
    <2>3. (EvictionThreshold - 1) * period \in Nat
      BY <2>1
    <2>4. period <= EvictionThreshold * period
      BY <2>1, <2>2, <2>3
    <2> QED
      BY <2>4 DEF period
  <1> DEFINE grace == EvictionThreshold * (CleanupTTL + TimerLag)
  <1> HIDE DEF grace
  <1>5. /\ GoneBound = MaxDelay + HeartbeatInterval + grace + 1
        /\ grace \in Nat /\ CleanupTTL + TimerLag <= grace
    BY <1>3, <1>4 DEF GoneBound, grace
  <1>6. OnBound \in Nat /\ GoneBound \in Nat /\ OnBound < GoneBound
    BY <1>5, RegistryAssumption, ClusterAssumption DEF OnBound
  <1>7. Horizon \in Nat /\ GoneBound <= Horizon
    BY <1>1, <1>2, <1>6 DEF Horizon
  <1> QED
    BY <1>1, <1>2, <1>6, <1>7

-----------------------------------------------------------------------------
(* The two halves. *)

\* What is listed as ON carries no strike, and the reverse.
LEMMA OnIsUnstruck ==
    ASSUME ClusterInv, NEW i \in Instance
    PROVE  status[i] = "ON" <=> Count[i] = 0
  <1>1. status[i] = "OFF" <=> missedHeartbeats[i] > 0
    BY DEF ClusterInv, RegistryInv, MarksAgree
  <1>2. status[i] \in {"ABSENT", "ON", "OFF"} /\ missedHeartbeats[i] \in Nat
    BY DEF ClusterInv, ClusterTypeOK, RegistryTypeOK
  <1> QED
    BY <1>1, <1>2 DEF Count, Present

\* A process that is listed as ON has not been gone for long.
LEMMA OnRecent ==
    ASSUME Options, ClusterInv, NEW i \in Instance, status[i] = "ON"
    PROVE  goneFor[i] <= OnBound /\ goneFor[i] < GoneBound
  <1>1. Present(i)
    BY DEF Present
  <1>2. silence[i] <= HeartbeatInterval + (CleanupTTL + TimerLag)
    BY StaleByInv DEF ClusterInv, StaleBounded
  <1>3. goneFor[i] <= MaxDelay + silence[i]
    BY <1>1 DEF ClusterInv, GoneInv
  <1>4. goneFor[i] \in Int /\ silence[i] \in Nat
    BY Bounds DEF ClusterInv, ClusterTypeOK, RegistryTypeOK
  <1>5. goneFor[i] <= OnBound
    BY <1>2, <1>3, <1>4, RegistryAssumption, ClusterAssumption DEF OnBound
  <1> QED
    BY <1>4, <1>5, Bounds

\* No step but the passing of time lets the time since an end grow.
LEMMA GoneForStep ==
    ASSUME ClusterInv, ClusterStep, NEW i \in Instance
    PROVE  goneFor'[i] = 0 \/ goneFor'[i] = goneFor[i]
  <1>1. goneFor \in [Instance -> 0 .. GoneBound]
    BY DEF ClusterInv, ClusterTypeOK
  <1>2. ASSUME NEW j, NEW rest, End(j, rest)
        PROVE  goneFor'[i] = 0 \/ goneFor'[i] = goneFor[i]
    BY <1>1, <1>2 DEF End
  <1>3. ASSUME UNCHANGED clientVars
        PROVE  goneFor'[i] = goneFor[i]
    BY <1>3 DEF clientVars
  <1>4. ASSUME NEW j \in Instance, NEW m \in Metadata, Start(j, m)
        PROVE  goneFor'[i] = 0 \/ goneFor'[i] = goneFor[i]
    BY <1>1, <1>4 DEF Start
  <1>5. ASSUME NEW j \in Instance, Beat(j) \/ Stop(j) \/ Crash(j) \/ AdminDeregister(j)
        PROVE  goneFor'[i] = 0 \/ goneFor'[i] = goneFor[i]
    BY <1>2, <1>3, <1>5 DEF Beat, Stop, Crash, AdminDeregister
  <1>6. ASSUME NEW msg \in wire, Arrive(msg)
        PROVE  goneFor'[i] = 0 \/ goneFor'[i] = goneFor[i]
    <2>1. CASE Deliver(msg)
      BY <1>3, <2>1 DEF Deliver
    <2>2. CASE Lose(msg)
      BY <1>2, <1>3, <2>2 DEF Lose
    <2>3. CASE Registered(msg)
      BY <2>3 DEF Registered
    <2>4. CASE Deregistered(msg)
      BY <1>2, <2>4 DEF Deregistered
    <2> QED
      BY <1>6, <2>1, <2>2, <2>3, <2>4 DEF Arrive
  <1>7. CASE ServerCrash \/ ServerStart \/ RunCleanup
    BY <1>3, <1>7 DEF ServerCrash, ServerStart, RunCleanup
  <1> QED
    BY <1>4, <1>5, <1>6, <1>7 DEF ClusterStep

\* Each step is one of the reader's specification, or none.
LEMMA ReaderSteps ==
    ASSUME Options, ClusterInv, ClusterInv', Reader!CacheInv, [EndNext]_endVars
    PROVE  [Reader!CacheNext]_(Reader!cacheVars)
  <1> DEFINE Same == UNCHANGED Reader!cacheVars
  <1>1. CASE DeploymentStep
    <2>1. [ClusterNext]_clusterVars
      BY <1>1 DEF DeploymentStep, ClusterNext
    <2>2. Directory!Next \/ UNCHANGED Count
      BY <2>1, ClusterStepDirectory
    <2>3. offFor' = [i \in Instance |-> IF Count'[i] = 0 THEN 0 ELSE offFor[i]]
      <3>1. \A i \in Instance : status'[i] = "ON" <=> Count'[i] = 0
        <4> SUFFICES ASSUME NEW i \in Instance
                     PROVE  status'[i] = "ON" <=> Count'[i] = 0
          OBVIOUS
        <4>1. (ClusterInv => (status[i] = "ON" <=> Count[i] = 0))'
          BY OnIsUnstruck, PTL
        <4> QED
          BY <4>1
      <3> QED
        BY <1>1, <3>1 DEF DeploymentStep
    <2>4. UNCHANGED Reader!serviceVars
      BY <1>1 DEF DeploymentStep, readerVars, Reader!serviceVars
    <2>5. CASE Directory!Next
      <3>1. Reader!Directory!Next
        BY <2>5 DEF Directory!Next, Reader!Directory!Next, Directory!Announce,
           Reader!Directory!Announce, Directory!Withdraw, Reader!Directory!Withdraw,
           Directory!Sweep, Reader!Directory!Sweep, Directory!Forget, Reader!Directory!Forget,
           Directory!Listed, Reader!Directory!Listed, Directory!Unlisted,
           Reader!Directory!Unlisted
      <3>2. Reader!RegistryStep
        BY <2>3, <2>4, <3>1 DEF Reader!RegistryStep, Count
      <3> QED
        BY <3>2 DEF Reader!CacheNext
    <2>6. CASE UNCHANGED Count
      <3>1. \A i \in Instance : Count[i] = 0 => offFor[i] = 0
        BY DEF Reader!CacheInv, Reader!EntriesExplained, Reader!On, Count
      <3>2. offFor \in [Instance -> 0 .. Reader!FreshBound + 1]
        BY DEF Reader!CacheInv, Reader!CacheTypeOK
      <3>3. offFor' = offFor
        BY <2>3, <2>6, <3>1, <3>2
      <3> QED
        BY <2>4, <2>6, <3>3 DEF Reader!cacheVars, Count
    <2> QED
      BY <2>2, <2>5, <2>6
  <1>2. CASE ReaderStep
    <2>1. Reader!ModuleInit \/ Reader!Refresh \/ Reader!ModuleDestroy
          \/ \E load \in loads : Reader!Finish(load)
      BY <1>2 DEF ReaderStep, Reader!Finish, Cache!ModuleInit, Reader!ModuleInit,
         Cache!Refresh, Reader!Refresh, Cache!ModuleDestroy, Reader!ModuleDestroy,
         Cache!Listed, Reader!Listed, Cache!Loaded, Reader!Loaded,
         Cache!LoadFailed, Reader!LoadFailed, Cache!Over, Reader!Over,
         Cache!Asked, Reader!Asked, Cache!Directory!Unlisted, Reader!Directory!Unlisted
    <2> QED
      BY <2>1 DEF Reader!CacheNext
  <1>3. CASE TimeStep
    <2>1. Reader!Pass
      BY <1>3 DEF TimeStep, Cache!Pass, Reader!Pass, Cache!On, Reader!On, Cache!Later,
         Reader!Later, Cache!Never, Reader!Never, Cache!FreshBound, Reader!FreshBound
    <2> QED
      BY <2>1 DEF Reader!CacheNext
  <1>4. CASE UNCHANGED endVars
    BY <1>4 DEF endVars, readerVars, clusterVars, registryVars, Present, Reader!cacheVars,
       Reader!serviceVars
  <1> QED
    BY <1>1, <1>2, <1>3, <1>4 DEF EndNext

LEMMA EndedInvStep ==
    ASSUME Options, EndInv, ClusterInv', Reader!CacheInv', [EndNext]_endVars
    PROVE  EndedInv'
  <1> USE Bounds
  <1>1. /\ endedFor \in [Instance -> 0 .. Horizon]
        /\ goneFor \in [Instance -> 0 .. GoneBound] /\ goneFor' \in [Instance -> 0 .. GoneBound]
        /\ offFor \in [Instance -> 0 .. Reader!FreshBound + 1]
        /\ offFor' \in [Instance -> 0 .. Reader!FreshBound + 1]
    BY DEF EndInv, EndedInv, ClusterInv, ClusterTypeOK, Reader!CacheInv, Reader!CacheTypeOK
  <1>2. \A i \in Instance : status'[i] = "ON" => goneFor'[i] <= OnBound /\ goneFor'[i] < GoneBound
    <2> SUFFICES ASSUME NEW i \in Instance
                 PROVE  status'[i] = "ON" => goneFor'[i] <= OnBound /\ goneFor'[i] < GoneBound
      OBVIOUS
    <2>1. (Options /\ ClusterInv /\ status[i] = "ON" =>
              goneFor[i] <= OnBound /\ goneFor[i] < GoneBound)'
      BY OnRecent, PTL
    <2> QED
      BY <2>1 DEF Options
  <1>3. CASE DeploymentStep
    <2>1. endedFor' = [i \in Instance |-> IF goneFor'[i] = 0 THEN 0 ELSE endedFor[i]]
      BY <1>3 DEF DeploymentStep
    <2>2. endedFor' \in [Instance -> 0 .. Horizon]
      BY <1>1, <2>1
    <2>3. ASSUME NEW i \in Instance, goneFor'[i] < GoneBound
          PROVE  endedFor'[i] = goneFor'[i]
      <3>1. goneFor'[i] = 0 \/ goneFor'[i] = goneFor[i]
        BY <1>3, GoneForStep DEF DeploymentStep, EndInv
      <3> QED
        BY <2>1, <2>3, <3>1 DEF EndInv, EndedInv
    <2>4. ASSUME NEW i \in Instance, offFor'[i] <= Reader!FreshBound
          PROVE  endedFor'[i] <= OnBound + offFor'[i]
      <3>1. CASE status'[i] = "ON"
        <4>1. offFor'[i] = 0
          BY <1>3, <3>1 DEF DeploymentStep
        <4>2. goneFor'[i] <= OnBound /\ endedFor'[i] = goneFor'[i]
          BY <1>2, <2>3, <3>1
        <4> QED
          BY <4>1, <4>2
      <3>2. CASE status'[i] # "ON"
        <4>1. offFor'[i] = offFor[i]
          BY <1>3, <3>2 DEF DeploymentStep
        <4>2. endedFor[i] <= OnBound + offFor[i]
          BY <2>4, <4>1 DEF EndInv, EndedInv
        <4>3. endedFor'[i] = 0 \/ endedFor'[i] = endedFor[i]
          BY <2>1
        <4>4. offFor[i] \in Nat
          BY <1>1
        <4> QED
          BY <4>1, <4>2, <4>3, <4>4
      <3> QED
        BY <3>1, <3>2
    <2> QED
      BY <2>2, <2>3, <2>4 DEF EndedInv, Reader!FreshBound
  <1>4. CASE ReaderStep \/ UNCHANGED endVars
    <2>1. UNCHANGED <<endedFor, goneFor, offFor>>
      BY <1>4 DEF ReaderStep, clusterVars, clientVars, endVars, Cache!ModuleInit,
         Cache!Refresh, Cache!ModuleDestroy, Cache!Listed, Cache!Loaded, Cache!LoadFailed,
         Cache!Over
    <2> QED
      BY <2>1 DEF EndInv, EndedInv, Reader!FreshBound
  <1>5. CASE TimeStep
    <2>1. endedFor' = [i \in Instance |->
                         IF goneFor'[i] = 0 THEN 0
                         ELSE IF endedFor[i] < Horizon THEN endedFor[i] + 1 ELSE Horizon]
      BY <1>5 DEF TimeStep, Aged
    <2>2. endedFor' \in [Instance -> 0 .. Horizon]
      BY <1>1, <2>1
    <2>3. ASSUME NEW i \in Instance, goneFor'[i] < GoneBound
          PROVE  endedFor'[i] = goneFor'[i]
      <3>1. goneFor'[i] = IF process[i] = "down" /\ goneFor[i] < GoneBound
                          THEN goneFor[i] + 1 ELSE goneFor[i]
        BY <1>5 DEF TimeStep, Pass
      <3>2. process[i] # "down" => goneFor[i] = 0
        BY DEF EndInv, ClusterInv, ProcessInv
      <3>3. goneFor[i] < GoneBound /\ goneFor[i] \in Nat
        BY <1>1, <2>3, <3>1
      <3>4. endedFor[i] = goneFor[i] /\ endedFor[i] < Horizon
        BY <3>3 DEF EndInv, EndedInv
      <3>5. CASE process[i] = "down"
        BY <2>1, <3>1, <3>3, <3>4, <3>5
      <3>6. CASE process[i] # "down"
        BY <2>1, <3>1, <3>2, <3>6
      <3> QED
        BY <3>5, <3>6
    <2>4. ASSUME NEW i \in Instance, offFor'[i] <= Reader!FreshBound
          PROVE  endedFor'[i] <= OnBound + offFor'[i]
      <3>1. offFor'[i] = IF i \in Cache!On THEN 0 ELSE Cache!Later(offFor[i])
        BY <1>5 DEF TimeStep, Cache!Pass
      <3>2. CASE i \in Cache!On
        <4>1. i \in Cache!On <=> Count[i] = 0
          BY DEF Cache!On, Count
        <4>2. status[i] = "ON"
          BY <3>2, <4>1, OnIsUnstruck DEF EndInv
        <4>3. status'[i] = "ON"
          BY <1>5, <4>2 DEF TimeStep, Pass, Tick, registryVars
        <4>4. goneFor'[i] <= OnBound /\ endedFor'[i] = goneFor'[i]
          BY <1>2, <2>3, <4>3
        <4> QED
          BY <3>1, <3>2, <4>4
      <3>3. CASE i \notin Cache!On
        <4>1. offFor[i] \in Nat /\ offFor[i] <= Reader!FreshBound + 1
          BY <1>1
        <4>2. offFor[i] <= Reader!FreshBound /\ offFor'[i] = offFor[i] + 1
          BY <2>4, <3>1, <3>3, <4>1 DEF Cache!Later
        <4>3. endedFor[i] <= OnBound + offFor[i] /\ endedFor[i] \in Nat
          BY <1>1, <4>2 DEF EndInv, EndedInv
        <4>4. endedFor'[i] <= endedFor[i] + 1
          BY <1>1, <2>1, <4>3
        <4>5. endedFor'[i] \in Int
          BY <2>2
        <4> QED
          BY <4>1, <4>2, <4>3, <4>4, <4>5
      <3> QED
        BY <3>2, <3>3
    <2> QED
      BY <2>2, <2>3, <2>4 DEF EndedInv, Reader!FreshBound
  <1> QED
    BY <1>3, <1>4, <1>5 DEF EndNext

-----------------------------------------------------------------------------
LEMMA ListedBoundNat == ListedBound \in Nat /\ ListedBound = BeatGap + MaxDelay /\ BeatGap \in Nat
  BY BeatGapNat DEF ListedBound, BeatGap

(* The histories reach beyond the bounds that the theorems compare them    *)
(* with: no state is left out because a history stopped counting.          *)
LEMMA HorizonBeyond ==
    ASSUME Options
    PROVE  /\ OnBound + Cache!FreshBound < Horizon
           /\ ListedBound + Cache!FreshBound < Horizon
  <1>1. /\ OnBound \in Nat /\ GoneBound \in Nat /\ OnBound < GoneBound
        /\ Cache!FreshBound \in Nat
    BY Bounds
  <1>2. ListedBound \in Nat /\ ListedBound <= OnBound
    BY ListedBoundNat, RegistryAssumption, ClusterAssumption
    DEF ListedBound, OnBound, BeatPeriod
  <1> QED
    BY <1>1, <1>2 DEF Horizon

LEMMA RefusedStays == [ClusterNext]_clusterVars => refused' = refused
  BY DEF ClusterNext, ClusterStep, Start, Beat, Stop, Crash, End, AdminDeregister, Arrive,
     Deliver, Lose, Registered, Deregistered, ServerCrash, ServerStart, RunCleanup, Pass,
     clusterVars, clientVars

LEMMA ServingBeats ==
    ASSUME ClusterInv, NEW i \in Instance, Serving(i)
    PROVE  Beating(i) /\ sinceBeat[i] \in Nat /\ sinceBeat[i] <= BeatGap
  <1>1. Beating(i)
    BY DEF Serving, ClusterInv, ProcessInv, Beating
  <1>2. pace[i] = HeartbeatInterval /\ sinceBeat[i] <= Period(i) + TimerLag
    BY <1>1 DEF Serving, ClusterInv, HeardInv
  <1>3. Period(i) = BeatPeriod
    BY <1>2 DEF Period, BeatPeriod
  <1> QED
    BY <1>1, <1>2, <1>3 DEF BeatGap, ClusterInv, ClusterTypeOK

LEMMA OffBounded ==
    ASSUME ClusterInv, SteadyInv, NEW i \in Instance, Serving(i), status[i] # "ON"
    PROVE  steadyFor[i] <= ListedBound
  <1>1. sinceBeat[i] \in Nat /\ sinceBeat[i] <= BeatGap /\ BeatGap \in Nat /\ MaxDelay \in Nat
        /\ ListedBound = BeatGap + MaxDelay
    BY ServingBeats, ListedBoundNat, BeatGapNat
  <1>2. steadyFor[i] \in 0 .. Horizon
    BY DEF SteadyInv
  <1>3. CASE steadyFor[i] <= sinceBeat[i]
    BY <1>1, <1>2, <1>3
  <1>4. CASE OnItsWay(i)
    <2>1. PICK msg \in wire : steadyFor[i] <= BeatGap + msg.age
      BY <1>4 DEF OnItsWay
    <2>2. msg.age \in Nat /\ msg.age <= MaxDelay
      BY ClusterAssumption DEF ClusterInv, ClusterTypeOK, Messages
    <2> QED
      BY <1>1, <1>2, <2>1, <2>2
  <1> QED
    BY <1>3, <1>4 DEF SteadyInv

(* How long a process that serves can be off the list.                     *)

LEMMA AnswerToRegister ==
    ASSUME NEW msg \in Messages, NEW new \in Answer(msg), Registering(new)
    PROVE  /\ Registering(msg) /\ new.from = msg.from
           /\ \A other \in Answer(msg) : other = new
  <1>1. /\ Answer(msg) = {[msg EXCEPT !.age = 0,
                                      !.op = IF @ = "register" THEN "registered"
                                             ELSE "deregistered"]}
        /\ msg.live
    BY DEF Answer
  <1>2. new.op = (IF msg.op = "register" THEN "registered" ELSE "deregistered")
        /\ new.from = msg.from
    BY <1>1 DEF Messages
  <1>3. new.op \in {"register", "registered"}
    BY DEF Registering
  <1>4. msg.op = "register"
    BY <1>2, <1>3
  <1> QED
    BY <1>1, <1>2, <1>4 DEF Registering

LEMMA SentOnceStep ==
    ASSUME ClusterTypeOK, ProcessInv, SentOnce, [ClusterNext]_clusterVars
    PROVE  SentOnce'
  <1> DEFINE Unserved(msg) == Registering(msg) => process[msg.from] # "serving"
             Alone(msg, other) == Registering(msg) /\ Registering(other)
                                      /\ msg.from = other.from => msg = other
  <1>1. /\ wire \subseteq Messages
        /\ \A msg \in wire : msg.from \in Instance /\ Unserved(msg)
        /\ \A msg \in wire, other \in wire : Alone(msg, other)
        /\ \A msg \in wire : msg.live => process[msg.from] # "down"
        /\ process \in [Instance -> {"down", "registering", "serving", "stopping"}]
    BY DEF ClusterTypeOK, Messages, SentOnce, ProcessInv
  <1>2. SUFFICES /\ \A msg \in wire' : Unserved(msg)'
                 /\ \A msg \in wire', other \in wire' : Alone(msg, other)'
    BY DEF SentOnce
  <1>3. ASSUME NEW i \in Instance, NEW m \in Metadata, Start(i, m)
        PROVE  /\ \A msg \in wire' : Unserved(msg)'
               /\ \A msg \in wire', other \in wire' : Alone(msg, other)'
    <2>1. /\ process[i] = "down" /\ process' = [process EXCEPT ![i] = "registering"]
          /\ wire' = wire \cup {Message(i, "register", m)}
      BY <1>3 DEF Start, Send
    <2>2. Message(i, "register", m).from = i
      BY DEF Message
    <2>3. \A msg \in wire : msg.from = i => ~Registering(msg)
      BY <1>1, <2>1 DEF Registering
    <2> QED
      BY <1>1, <2>1, <2>2, <2>3 DEF Registering
  <1>4. ASSUME NEW i \in Instance, Beat(i)
        PROVE  /\ \A msg \in wire' : Unserved(msg)'
               /\ \A msg \in wire', other \in wire' : Alone(msg, other)'
    <2>1. /\ UNCHANGED process
          /\ wire' = wire \cup {Message(i, "heartbeat", config[i])}
      BY <1>4 DEF Beat, Send
    <2>2. ~Registering(Message(i, "heartbeat", config[i]))
      BY DEF Registering, Message
    <2> QED
      BY <1>1, <2>1, <2>2 DEF Registering
  <1>5. ASSUME NEW i \in Instance, Stop(i)
        PROVE  /\ \A msg \in wire' : Unserved(msg)'
               /\ \A msg \in wire', other \in wire' : Alone(msg, other)'
    <2>1. /\ process' = [process EXCEPT ![i] = "stopping"]
          /\ wire' = wire \cup {Message(i, "deregister", config[i])}
      BY <1>5 DEF Stop, Send
    <2>2. ~Registering(Message(i, "deregister", config[i]))
      BY DEF Registering, Message
    <2> QED
      BY <1>1, <2>1, <2>2 DEF Registering
  <1>6. ASSUME NEW i \in Instance, Gone(i)
        PROVE  /\ \A msg \in wire' : Unserved(msg)'
               /\ \A msg \in wire', other \in wire' : Alone(msg, other)'
    <2>1. PICK rest \in SUBSET wire : End(i, rest)
      BY <1>6 DEF Gone
    <2>2. ASSUME NEW new \in wire', Registering(new)
          PROVE  new \in wire /\ new.from # i
      <3>1. PICK msg \in rest : new = [msg EXCEPT !.live = @ /\ msg.from # i]
        BY <2>1 DEF End
      <3>2. msg \in wire /\ msg \in Messages
        BY <1>1
      <3>3. new.live => msg.from # i
        BY <3>1, <3>2, LeftBehind
      <3>4. msg.from # i => new = msg
        BY <3>1, <3>2, LeftBehind
      <3> QED
        BY <2>2, <3>2, <3>3, <3>4 DEF Registering
    <2>3. process' = [process EXCEPT ![i] = "down"]
      BY <2>1 DEF End
    <2> QED
      BY <1>1, <2>2, <2>3 DEF Registering
  <1>7. ASSUME NEW msg \in wire, Deliver(msg)
        PROVE  /\ \A new \in wire' : Unserved(new)'
               /\ \A new \in wire', other \in wire' : Alone(new, other)'
    <2>1. UNCHANGED process /\ wire' = (wire \ {msg}) \cup Answer(msg)
      BY <1>7, DeliverRecords DEF clientVars
    <2>2. ASSUME NEW new \in Answer(msg), Registering(new)
          PROVE  /\ Registering(msg) /\ new.from = msg.from
                 /\ \A other \in Answer(msg) : other = new
      BY <1>1, <2>2, AnswerToRegister
    <2>3. \A new \in wire' : Unserved(new)'
      BY <1>1, <2>1, <2>2 DEF Registering
    <2>4. ASSUME NEW new \in wire', NEW other \in wire',
                 Registering(new), Registering(other), new.from = other.from
          PROVE  new = other
      <3>1. CASE new \in Answer(msg) \/ other \in Answer(msg)
        BY <1>1, <2>1, <2>2, <2>4, <3>1
      <3>2. CASE new \notin Answer(msg) /\ other \notin Answer(msg)
        BY <1>1, <2>1, <2>4, <3>2
      <3> QED
        BY <3>1, <3>2
    <2> QED
      BY <2>3, <2>4 DEF Registering
  <1>8. ASSUME NEW msg \in wire, Registered(msg)
        PROVE  /\ \A new \in wire' : Unserved(new)'
               /\ \A new \in wire', other \in wire' : Alone(new, other)'
    <2>1. /\ Registering(msg) /\ wire' = wire \ {msg}
          /\ \A i \in Instance : i # msg.from => process'[i] = process[i]
      BY <1>1, <1>8 DEF Registered, Registering
    <2>2. \A new \in wire' : Registering(new) => new.from # msg.from
      BY <1>1, <2>1
    <2> QED
      BY <1>1, <2>1, <2>2 DEF Registering
  <1>9. CASE Removal
    BY <1>1, <1>9 DEF Removal, clientVars, Registering
  <1>10. CASE Pass
    <2>1. /\ UNCHANGED process
          /\ wire' = {[msg EXCEPT !.age = @ + 1] : msg \in wire}
          /\ \A msg \in wire : msg.age < MaxDelay
      BY <1>10 DEF Pass
    <2>2. ASSUME NEW new \in wire'
          PROVE  \E msg \in wire : /\ new = [msg EXCEPT !.age = @ + 1]
                                   /\ new.from = msg.from
                                   /\ Registering(new) => Registering(msg)
      <3>1. PICK msg \in wire : new = [msg EXCEPT !.age = @ + 1]
        BY <2>1
      <3>2. new.from = msg.from /\ new.op = msg.op
        BY <1>1, <2>1, <3>1, OneUnitOlder
      <3>3. new.live = msg.live
        BY <1>1, <2>1, <3>1, OneUnitOlder
      <3> QED
        BY <3>1, <3>2, <3>3 DEF Registering
    <2>3. \A new \in wire' : Unserved(new)'
      BY <1>1, <2>1, <2>2 DEF Registering
    <2>4. ASSUME NEW new \in wire', NEW other \in wire',
                 Registering(new), Registering(other), new.from = other.from
          PROVE  new = other
      BY <1>1, <2>2, <2>4
    <2> QED
      BY <2>3, <2>4 DEF Registering
  <1> QED
    BY <1>3, <1>4, <1>5, <1>6, <1>7, <1>8, <1>9, <1>10, ClusterSteps

\* A unit of time passes, or none.
LEMMA OffAfterPass ==
    ASSUME ClusterInv, ClusterInv', SteadyInv, Pass, NEW i \in Instance,
           Serving(i), status[i] # "ON",
           steadyFor'[i] \in Nat, steadyFor'[i] <= steadyFor[i] + 1
    PROVE  steadyFor'[i] <= sinceBeat'[i] \/ OnItsWay(i)'
  <1> USE BeatGapNat
  <1>1. steadyFor[i] \in Nat /\ sinceBeat[i] \in Nat /\ sinceBeat'[i] = sinceBeat[i] + 1
    <2>1. Beating(i)
      BY DEF Serving, ClusterInv, ProcessInv, Beating
    <2> QED
      BY <2>1 DEF ClusterInv, ClusterTypeOK, Pass, SteadyInv
  <1>2. CASE steadyFor[i] <= sinceBeat[i]
    BY <1>1, <1>2
  <1>3. CASE OnItsWay(i)
    <2>1. PICK msg \in wire : /\ msg.from = i /\ msg.op = "heartbeat" /\ msg.live
                              /\ steadyFor[i] <= BeatGap + msg.age
      BY <1>3 DEF OnItsWay
    <2>2. msg \in Messages /\ msg.age \in Nat
      BY DEF ClusterInv, ClusterTypeOK, Messages
    <2> DEFINE new == [msg EXCEPT !.age = @ + 1]
    <2>3. msg.age < MaxDelay /\ new \in wire'
      BY DEF Pass
    <2>4. new.from = i /\ new.op = "heartbeat" /\ new.age = msg.age + 1
      BY <2>1, <2>2, <2>3, OneUnitOlder
    <2>5. new.live = msg.live
      BY <2>2, <2>3, OneUnitOlder
    <2> HIDE DEF new
    <2>6. steadyFor'[i] <= BeatGap + new.age
      BY <1>1, <2>1, <2>2, <2>4
    <2>7. new.live
      BY <2>1, <2>5
    <2> QED
      BY <2>3, <2>4, <2>6, <2>7 DEF OnItsWay
  <1> QED
    BY <1>2, <1>3 DEF SteadyInv

\* The rest: a process that was off and is off still has its timer or its
\* heartbeat to wait for.
LEMMA OffAfterStep ==
    ASSUME ClusterInv, ClusterInv', SentOnce, SteadyInv, [ClusterNext]_clusterVars,
           NEW i \in Instance, Serving(i), status[i] # "ON", Serving(i)', status'[i] # "ON",
           steadyFor'[i] \in Nat, steadyFor'[i] <= steadyFor[i]
    PROVE  steadyFor'[i] <= sinceBeat'[i] \/ OnItsWay(i)'
  <1> USE BeatGapNat
  <1>1. /\ steadyFor[i] \in Nat /\ sinceBeat[i] \in Nat
        /\ wire \subseteq Messages
        /\ \A msg \in wire : msg.from \in Instance /\ msg.age \in Nat
        /\ steadyFor[i] <= sinceBeat[i] \/ OnItsWay(i)
        /\ process[i] = "serving" /\ process'[i] = "serving"
    BY DEF ClusterInv, ClusterTypeOK, Messages, SteadyInv, Serving
  \* Its timer did not fire, and its heartbeats are under way still.
  <1>2. ASSUME sinceBeat'[i] = sinceBeat[i],
               \A msg \in wire : msg.from = i /\ msg.live /\ msg.op = "heartbeat" => msg \in wire'
        PROVE  steadyFor'[i] <= sinceBeat'[i] \/ OnItsWay(i)'
    <2>1. CASE steadyFor[i] <= sinceBeat[i]
      BY <1>1, <1>2, <2>1
    <2>2. CASE OnItsWay(i)
      <3>1. PICK msg \in wire : /\ msg.from = i /\ msg.op = "heartbeat" /\ msg.live
                                /\ steadyFor[i] <= BeatGap + msg.age
        BY <2>2 DEF OnItsWay
      <3>2. msg \in wire' /\ steadyFor'[i] <= BeatGap + msg.age
        BY <1>1, <1>2, <3>1
      <3> QED
        BY <3>1, <3>2 DEF OnItsWay
    <2> QED
      BY <1>1, <2>1, <2>2
  <1>3. ASSUME NEW j \in Instance, NEW m \in Metadata, Start(j, m)
        PROVE  steadyFor'[i] <= sinceBeat'[i] \/ OnItsWay(i)'
    BY <1>2, <1>3 DEF Start, Send
  <1>4. ASSUME NEW j \in Instance, Beat(j)
        PROVE  steadyFor'[i] <= sinceBeat'[i] \/ OnItsWay(i)'
    <2>1. /\ wire' = wire \cup {Message(j, "heartbeat", config[j])}
          /\ j # i => sinceBeat'[i] = sinceBeat[i]
      BY <1>4 DEF Beat, Send, ClusterInv, ClusterTypeOK
    <2>2. CASE steadyFor[i] <= sinceBeat[i] /\ j = i
      <3> DEFINE sent == Message(i, "heartbeat", config[i])
      <3>1. sent \in wire' /\ sent.from = i /\ sent.op = "heartbeat" /\ sent.age = 0
        BY <2>1, <2>2 DEF Message
      <3>2. sent.live
        BY DEF Message
      <3>3. steadyFor'[i] <= BeatGap + sent.age
        BY <1>1, <2>2, <3>1, ServingBeats
      <3> HIDE DEF sent
      <3> QED
        BY <3>1, <3>2, <3>3 DEF OnItsWay
    <2>3. CASE OnItsWay(i) /\ j = i
      <3>1. PICK msg \in wire : /\ msg.from = i /\ msg.op = "heartbeat" /\ msg.live
                                /\ steadyFor[i] <= BeatGap + msg.age
        BY <2>3 DEF OnItsWay
      <3>2. msg \in wire' /\ steadyFor'[i] <= BeatGap + msg.age
        BY <1>1, <2>1, <3>1
      <3> QED
        BY <3>1, <3>2 DEF OnItsWay
    <2> QED
      BY <1>1, <1>2, <2>1, <2>2, <2>3
  <1>5. ASSUME NEW j \in Instance, Stop(j)
        PROVE  steadyFor'[i] <= sinceBeat'[i] \/ OnItsWay(i)'
    <2>1. j # i
      BY <1>1, <1>5 DEF Stop, ClusterInv, ClusterTypeOK
    <2> QED
      BY <1>2, <1>5, <2>1 DEF Stop, Send, ClusterInv, ClusterTypeOK
  <1>6. ASSUME NEW j \in Instance, Gone(j)
        PROVE  steadyFor'[i] <= sinceBeat'[i] \/ OnItsWay(i)'
    <2>1. PICK rest \in SUBSET wire : /\ \A msg \in wire : msg.from # j => msg \in rest
                                      /\ End(j, rest)
      BY <1>6 DEF Gone
    <2>2. j # i
      BY <1>1, <2>1 DEF End, ClusterInv, ClusterTypeOK
    <2>3. sinceBeat'[i] = sinceBeat[i]
      BY <2>1, <2>2 DEF End, ClusterInv, ClusterTypeOK
    <2>4. ASSUME NEW msg \in wire, msg.from = i
          PROVE  msg \in wire'
      <3>1. msg \in rest /\ msg \in Messages
        BY <1>1, <2>1, <2>2, <2>4
      <3> DEFINE left == [msg EXCEPT !.live = @ /\ msg.from # j]
      <3>2. left \in wire'
        BY <2>1, <3>1 DEF End
      <3>3. left = [msg EXCEPT !.live = @ /\ msg.from # j]
        OBVIOUS
      <3> HIDE DEF left
      <3>4. left = msg
        BY <2>2, <2>4, <3>1, <3>3, LeftBehind
      <3> QED
        BY <3>2, <3>4
    <2> QED
      BY <1>2, <2>3, <2>4
  <1>7. ASSUME NEW msg \in wire, Deliver(msg)
        PROVE  steadyFor'[i] <= sinceBeat'[i] \/ OnItsWay(i)'
    <2>1. UNCHANGED sinceBeat /\ wire' = (wire \ {msg}) \cup Answer(msg)
      BY <1>7, DeliverRecords DEF clientVars, ClusterInv
    <2>2. ~(msg.from = i /\ msg.op = "heartbeat")
      <3> SUFFICES ASSUME msg.from = i, msg.op = "heartbeat"
                   PROVE  FALSE
        OBVIOUS
      <3>1. Heartbeat(i, msg.meta)
        BY <1>7 DEF Deliver, Verified, Serving
      <3>2. status'[i] = "ON"
        BY <3>1 DEF Heartbeat, Register, ClusterInv, ClusterTypeOK, RegistryTypeOK
      <3> QED
        BY <3>2
    <2> QED
      BY <1>2, <2>1, <2>2
  <1>8. ASSUME NEW msg \in wire, Registered(msg)
        PROVE  steadyFor'[i] <= sinceBeat'[i] \/ OnItsWay(i)'
    <2>1. Registering(msg) /\ wire' = wire \ {msg} /\ msg.op # "heartbeat"
      BY <1>8 DEF Registered, Registering
    <2>2. msg.from # i
      BY <1>1, <2>1 DEF SentOnce
    <2>3. sinceBeat'[i] = sinceBeat[i]
      BY <1>1, <1>8, <2>2 DEF Registered, ClusterInv, ClusterTypeOK
    <2> QED
      BY <1>2, <2>1, <2>3
  <1>9. CASE Removal
    BY <1>2, <1>9 DEF Removal, clientVars
  <1>10. CASE Pass
    BY <1>1, <1>10, OffAfterPass
  <1> QED
    BY <1>3, <1>4, <1>5, <1>6, <1>7, <1>8, <1>9, <1>10, ClusterSteps DEF ClusterInv

LEMMA SteadyInvStep ==
    ASSUME Options, EndInv, ClusterInv', [EndNext]_endVars
    PROVE  SteadyInv'
  <1>1. /\ Horizon \in Nat /\ BeatGap \in Nat
        /\ steadyFor \in [Instance -> 0 .. Horizon]
        /\ \A i \in Instance : process[i] # "serving" => steadyFor[i] = 0
        /\ \A i \in Instance :
              Serving(i) /\ status[i] # "ON" => steadyFor[i] <= sinceBeat[i] \/ OnItsWay(i)
        /\ ClusterInv /\ SentOnce /\ SteadyInv
    BY Bounds, BeatGapNat DEF EndInv, SteadyInv
  <1>2. \A i \in Instance : sinceBeat'[i] \in Nat
    BY DEF ClusterInv, ClusterTypeOK
  <1>3. CASE DeploymentStep
    <2>1. steadyFor' = [i \in Instance |->
                          IF process'[i] = "serving" /\ ~TakenOff(i) THEN steadyFor[i] ELSE 0]
      BY <1>3 DEF DeploymentStep
    <2>2. [ClusterNext]_clusterVars
      BY <1>3 DEF DeploymentStep, ClusterNext
    <2>3. steadyFor' \in [Instance -> 0 .. Horizon]
      BY <1>1, <2>1
    <2>4. ASSUME NEW i \in Instance, Serving(i)', status'[i] # "ON"
          PROVE  steadyFor'[i] <= sinceBeat'[i] \/ OnItsWay(i)'
      <3>1. CASE steadyFor'[i] = 0
        BY <1>2, <3>1
      <3>2. CASE steadyFor'[i] # 0
        <4>1. steadyFor'[i] = steadyFor[i] /\ ~TakenOff(i) /\ process[i] = "serving"
          BY <1>1, <2>1, <3>2
        <4>2. status[i] # "ON"
          BY <2>4, <4>1 DEF TakenOff
        <4>3. refused' = refused
          BY <2>2, RefusedStays
        <4>4. Serving(i)
          BY <2>4, <4>1, <4>3 DEF Serving
        <4>5. steadyFor'[i] \in Nat /\ steadyFor'[i] <= steadyFor[i]
          BY <1>1, <4>1
        <4> QED
          BY <1>1, <2>2, <2>4, <4>2, <4>4, <4>5, OffAfterStep
      <3> QED
        BY <3>1, <3>2
    <2> QED
      BY <2>1, <2>3, <2>4 DEF SteadyInv
  <1>4. CASE ReaderStep \/ UNCHANGED endVars
    <2>1. UNCHANGED <<steadyFor, process, refused, status, sinceBeat, wire>>
      BY <1>4 DEF ReaderStep, endVars, clusterVars, clientVars, registryVars
    <2> QED
      BY <1>1, <2>1 DEF SteadyInv, Serving, OnItsWay
  <1>5. CASE TimeStep
    <2>1. /\ steadyFor' = [i \in Instance |->
                             IF process[i] = "serving" THEN Aged(steadyFor[i]) ELSE 0]
          /\ Pass /\ UNCHANGED <<process, refused, status>>
      BY <1>5 DEF TimeStep, Pass, Tick, registryVars
    <2>2. \A t \in 0 .. Horizon : Aged(t) \in 0 .. Horizon /\ Aged(t) <= t + 1
      BY <1>1 DEF Aged
    <2>3. steadyFor' \in [Instance -> 0 .. Horizon]
      BY <1>1, <2>1, <2>2
    <2>4. ASSUME NEW i \in Instance, Serving(i)', status'[i] # "ON"
          PROVE  steadyFor'[i] <= sinceBeat'[i] \/ OnItsWay(i)'
      <3>1. Serving(i) /\ status[i] # "ON"
        BY <2>1, <2>4 DEF Serving
      <3>2. steadyFor'[i] \in Nat /\ steadyFor'[i] <= steadyFor[i] + 1
        BY <1>1, <2>1, <2>2, <3>1 DEF Serving
      <3> QED
        BY <1>1, <2>1, <3>1, <3>2, OffAfterPass
    <2> QED
      BY <2>1, <2>3, <2>4 DEF SteadyInv
  <1> QED
    BY <1>3, <1>4, <1>5 DEF EndNext

LEMMA KnownInvStep ==
    ASSUME Options, EndInv, ClusterInv', SteadyInv', Reader!CacheInv', [EndNext]_endVars
    PROVE  KnownInv'
  <1> DEFINE Bound == Reader!FreshBound
             Put(load) == \A i \in Instance :
                 load.stage = "listed" /\ load.listing[i] # 0 /\ Serving(i)
                     => steadyFor[i] <= ListedBound + load.wait
             Copied == age # -1 /\ age <= Bound =>
                 \A i \in Instance :
                     Serving(i) /\ i \notin services => steadyFor[i] <= ListedBound + age
  <1>1. /\ Bound \in Nat /\ Horizon \in Nat /\ ListedBound \in Nat
        /\ \A i \in Instance : /\ steadyFor[i] \in 0 .. Horizon
                               /\ steadyFor'[i] \in 0 .. Horizon
                               /\ process[i] # "serving" => steadyFor[i] = 0
        /\ age \in -1 .. Bound + 1
        /\ \A load \in loads : load.wait \in Nat
    BY Bounds, Assumptions, Reader!LoadTypes, ListedBoundNat
    DEF EndInv, SteadyInv, Reader!CacheInv, Reader!CacheTypeOK
  <1>2. (\A load \in loads : Put(load)) /\ Copied
    BY DEF EndInv, KnownInv
  <1>3. SUFFICES (\A load \in loads' : Put(load)') /\ Copied'
    BY DEF KnownInv, Reader!FreshBound
  <1>4. CASE DeploymentStep
    <2>1. UNCHANGED <<services, loads, age>>
      BY <1>4 DEF DeploymentStep, readerVars
    <2>2. ASSUME NEW i \in Instance, Serving(i)', steadyFor'[i] # 0
          PROVE  Serving(i) /\ steadyFor'[i] = steadyFor[i]
      <3>1. steadyFor'[i] = steadyFor[i]
        BY <1>4, <2>2 DEF DeploymentStep
      <3>2. process[i] = "serving"
        BY <1>1, <2>2, <3>1
      <3>3. refused' = refused
        BY <1>4, RefusedStays DEF DeploymentStep, ClusterNext
      <3> QED
        BY <2>2, <3>1, <3>2, <3>3 DEF Serving
    <2>3. ASSUME NEW load \in loads'
          PROVE  Put(load)'
      <3>1. load \in loads /\ load.wait \in Nat
        BY <1>1, <2>1
      <3> SUFFICES ASSUME NEW i \in Instance, load.stage = "listed", load.listing[i] # 0,
                          Serving(i)'
                   PROVE  steadyFor'[i] <= ListedBound + load.wait
        OBVIOUS
      <3>2. CASE steadyFor'[i] = 0
        BY <1>1, <3>1, <3>2
      <3>3. CASE steadyFor'[i] # 0
        BY <1>2, <2>2, <3>1, <3>3
      <3> QED
        BY <3>2, <3>3
    <2>4. Copied'
      <3> SUFFICES ASSUME age' # -1, age' <= Bound, NEW i \in Instance, Serving(i)',
                          i \notin services'
                   PROVE  steadyFor'[i] <= ListedBound + age'
        BY DEF Reader!FreshBound
      <3>1. age' = age /\ age \in Nat /\ i \notin services
        BY <1>1, <2>1
      <3>2. CASE steadyFor'[i] = 0
        BY <1>1, <3>1, <3>2
      <3>3. CASE steadyFor'[i] # 0
        BY <1>2, <2>2, <3>1, <3>3
      <3> QED
        BY <3>2, <3>3
    <2> QED
      BY <2>3, <2>4
  <1>5. CASE ReaderStep
    <2>1. UNCHANGED <<steadyFor, process, refused, status, missedHeartbeats>>
      BY <1>5 DEF ReaderStep, clusterVars, clientVars, registryVars
    <2>2. \A i \in Instance : (Serving(i)' <=> Serving(i)) /\ steadyFor'[i] = steadyFor[i]
      BY <2>1 DEF Serving
    <2>3. ASSUME loads' \subseteq loads, UNCHANGED <<services, age>>
          PROVE  (\A load \in loads' : Put(load)') /\ Copied'
      BY <1>2, <2>2, <2>3 DEF Reader!FreshBound
    <2>4. CASE Cache!ModuleInit \/ Cache!Refresh
      <3>1. /\ UNCHANGED <<services, age>>
            /\ \A load \in loads' : load \in loads \/ load.stage = "asked"
        BY <2>4 DEF Cache!ModuleInit, Cache!Refresh, Cache!Asked
      <3> QED
        BY <1>2, <2>2, <3>1 DEF Reader!FreshBound
    <2>5. ASSUME NEW load \in loads, Cache!Listed(load)
          PROVE  (\A other \in loads' : Put(other)') /\ Copied'
      <3>0. PICK new : new = [load EXCEPT !.stage = "listed", !.listing = Count, !.wait = 0]
        OBVIOUS
      <3>1. /\ UNCHANGED <<services, age>> /\ load.stage = "asked"
            /\ loads' = (loads \ {load}) \cup {new}
        BY <2>5, <3>0 DEF Cache!Listed, Count
      <3>2. Copied'
        BY <1>2, <2>2, <3>1 DEF Reader!FreshBound
      <3>3. new.listing = Count /\ new.wait = 0
        BY <3>0, <3>1, Assumptions, Reader!ListedLoad DEF EndInv, Reader!CacheInv, Count
      <3>4. Put(new)'
        <4> SUFFICES ASSUME NEW i \in Instance, new.listing[i] # 0, Serving(i)'
                     PROVE  steadyFor'[i] <= ListedBound + new.wait
          OBVIOUS
        <4>1. status[i] # "ON"
          BY <3>3, OnIsUnstruck DEF EndInv
        <4>2. steadyFor[i] <= ListedBound
          BY <2>2, <4>1, OffBounded DEF EndInv
        <4> QED
          BY <1>1, <2>2, <3>3, <4>2
      <3>5. ASSUME NEW other \in loads'
            PROVE  Put(other)'
        <4>1. CASE other = new
          BY <3>4, <4>1
        <4>2. CASE other \in loads
          BY <1>2, <2>2, <4>2
        <4> QED
          BY <3>1, <4>1, <4>2
      <3> QED
        BY <3>2, <3>5
    <2>6. ASSUME NEW load \in loads, Cache!Loaded(load)
          PROVE  (\A other \in loads' : Put(other)') /\ Copied'
      <3>1. /\ services' = {i \in Instance : load.listing[i] = 0}
            /\ age' = load.wait /\ load.stage = "listed" /\ loads' \subseteq loads
        BY <2>6 DEF Cache!Loaded, Cache!Over
      <3>2. \A other \in loads' : Put(other)'
        BY <1>2, <2>2, <3>1
      <3>3. Copied'
        BY <1>2, <2>2, <3>1 DEF Reader!FreshBound
      <3> QED
        BY <3>2, <3>3
    <2>7. ASSUME NEW load \in loads, Cache!LoadFailed(load)
          PROVE  (\A other \in loads' : Put(other)') /\ Copied'
      BY <2>3, <2>7 DEF Cache!LoadFailed, Cache!Over
    <2>8. CASE Cache!ModuleDestroy
      BY <2>3, <2>8 DEF Cache!ModuleDestroy
    <2> QED
      BY <1>5, <2>4, <2>5, <2>6, <2>7, <2>8 DEF ReaderStep
  <1>6. CASE TimeStep
    <2>1. /\ UNCHANGED <<process, refused, services>>
          /\ \A i \in Instance :
                steadyFor'[i] = IF process[i] = "serving" THEN Aged(steadyFor[i]) ELSE 0
          /\ loads' = {[load EXCEPT !.wait = @ + 1, !.since = @ + 1] : load \in loads}
          /\ age' = IF age = -1 THEN -1 ELSE Cache!Later(age)
      BY <1>6 DEF TimeStep, Pass, Cache!Pass, Cache!Never
    <2>2. ASSUME NEW i \in Instance, Serving(i)'
          PROVE  Serving(i) /\ steadyFor'[i] <= steadyFor[i] + 1
      <3>1. Serving(i)
        BY <2>1, <2>2 DEF Serving
      <3>2. steadyFor'[i] = Aged(steadyFor[i])
        BY <2>1, <3>1 DEF Serving
      <3> QED
        BY <1>1, <3>1, <3>2 DEF Aged
    <2>3. ASSUME NEW new \in loads'
          PROVE  Put(new)'
      <3>1. PICK load \in loads : new = [load EXCEPT !.wait = @ + 1, !.since = @ + 1]
        BY <2>1
      <3>2. /\ new.stage = load.stage /\ new.listing = load.listing
            /\ new.wait = load.wait + 1
        BY <3>1, Assumptions, Reader!OlderLoad DEF EndInv, Reader!CacheInv
      <3> SUFFICES ASSUME NEW i \in Instance, new.stage = "listed", new.listing[i] # 0,
                          Serving(i)'
                   PROVE  steadyFor'[i] <= ListedBound + new.wait
        OBVIOUS
      <3>3. Serving(i) /\ steadyFor'[i] <= steadyFor[i] + 1
        BY <2>2
      <3>4. steadyFor[i] <= ListedBound + load.wait
        BY <1>2, <3>2, <3>3
      <3> QED
        BY <1>1, <3>2, <3>3, <3>4
    <2>4. Copied'
      <3> SUFFICES ASSUME age' # -1, age' <= Bound, NEW i \in Instance, Serving(i)',
                          i \notin services'
                   PROVE  steadyFor'[i] <= ListedBound + age'
        BY DEF Reader!FreshBound
      <3>0. Cache!FreshBound = Bound
        BY Bounds
      <3>4. age' = IF age = -1 THEN -1 ELSE IF age > Bound THEN age ELSE age + 1
        BY <2>1, <3>0 DEF Cache!Later
      <3>5. age \in Int /\ age <= Bound + 1 /\ Bound \in Int
        BY <1>1
      <3>1. age # -1 /\ age <= Bound /\ age' = age + 1
        BY <3>4, <3>5
      <3>2. Serving(i) /\ steadyFor'[i] <= steadyFor[i] + 1 /\ i \notin services
        BY <2>1, <2>2
      <3>3. steadyFor[i] <= ListedBound + age
        BY <1>2, <3>1, <3>2
      <3> QED
        BY <1>1, <3>1, <3>2, <3>3
    <2> QED
      BY <2>3, <2>4
  <1>7. CASE UNCHANGED endVars
    BY <1>2, <1>7 DEF endVars, clusterVars, clientVars, readerVars, Serving, Reader!FreshBound
  <1> QED
    BY <1>4, <1>5, <1>6, <1>7 DEF EndNext

-----------------------------------------------------------------------------
LEMMA EndInvInit == Options /\ EndInit => EndInv
  <1> SUFFICES ASSUME Options, EndInit
               PROVE  EndInv
    OBVIOUS
  <1>1. ClusterInv
    BY ClusterInvInit DEF EndInit
  <1>2. Reader!CacheInit
    BY DEF EndInit, Cache!CacheInit, Reader!CacheInit, Cache!Directory!Init,
       Reader!Directory!Init, Cache!Directory!Unlisted, Reader!Directory!Unlisted,
       Cache!Never, Reader!Never, Cache!FreshBound, Reader!FreshBound
  <1>3. Reader!CacheInv
    BY <1>2, Assumptions, Reader!CacheInvInit
  <1>4. EndedInv
    <2>1. /\ endedFor = [i \in Instance |-> Horizon] /\ goneFor = [i \in Instance |-> GoneBound]
          /\ offFor = [i \in Instance |-> Reader!FreshBound + 1]
      BY <1>2 DEF EndInit, ClusterInit, Reader!CacheInit
    <2> QED
      BY <2>1, Bounds DEF EndedInv
  <1>5. wire = {} /\ loads = {} /\ age = -1
    BY <1>2 DEF EndInit, ClusterInit, Reader!CacheInit, Reader!Never
  <1>6. SentOnce /\ KnownInv
    BY <1>5 DEF SentOnce, KnownInv
  <1>7. SteadyInv
    <2>1. \A i \in Instance : steadyFor[i] = 0 /\ process[i] # "serving"
      BY DEF EndInit, ClusterInit
    <2> QED
      BY <2>1, Bounds DEF SteadyInv, Serving, EndInit
  <1> QED
    BY <1>1, <1>3, <1>4, <1>6, <1>7 DEF EndInv

LEMMA EndInvStep == Options /\ EndInv /\ [EndNext]_endVars => EndInv'
  <1> SUFFICES ASSUME Options, EndInv, [EndNext]_endVars
               PROVE  EndInv'
    OBVIOUS
  <1>1. [ClusterNext]_clusterVars
    BY DEF EndNext, DeploymentStep, ReaderStep, TimeStep, ClusterNext, endVars
  <1>2. ClusterInv'
    BY <1>1, ClusterInvStep DEF EndInv
  <1>3. Reader!CacheInv'
    <2>1. [Reader!CacheNext]_(Reader!cacheVars)
      BY <1>2, ReaderSteps DEF EndInv
    <2> QED
      BY <2>1, Assumptions, Reader!CacheInvStep DEF EndInv
  <1>4. EndedInv'
    BY <1>2, <1>3, EndedInvStep
  <1>5. SentOnce'
    BY <1>1, SentOnceStep DEF EndInv, ClusterInv
  <1>6. SteadyInv'
    BY <1>2, SteadyInvStep
  <1>7. KnownInv'
    BY <1>2, <1>3, <1>6, KnownInvStep
  <1> QED
    BY <1>2, <1>3, <1>4, <1>5, <1>6, <1>7 DEF EndInv

LEMMA EndInvHolds ==
    ASSUME Options
    PROVE  EndSpec => []EndInv
  <1>1. EndInit => EndInv
    BY EndInvInit
  <1>2. EndInv /\ [EndNext]_endVars => EndInv'
    BY EndInvStep
  <1> QED
    BY <1>1, <1>2, PTL DEF EndSpec

(* Traffic to a process stops a known time after its end: what            *)
(* ClusterGhostBounded says of the registry and CacheStaysFresh of a copy  *)
(* adds up, whatever the deployment and the reader do at the same time.    *)
THEOREM EndToEndForgotten ==
    ASSUME Options
    PROVE  EndSpec => []EndedForgotten
  <1>1. EndInv => EndedForgotten
    <2> SUFFICES ASSUME EndInv, phase = "running", NEW i \in services
                 PROVE  endedFor[i] <= OnBound + Cache!FreshBound
      BY DEF EndedForgotten
    <2>1. Reader!CacheFresh
      BY Assumptions, Reader!FreshByInv DEF EndInv
    <2>2. offFor[i] <= Reader!FreshBound
      BY <2>1 DEF Reader!CacheFresh
    <2>3. i \in Instance /\ offFor[i] \in Nat /\ endedFor[i] \in Nat
      BY Bounds DEF EndInv, EndedInv, Reader!CacheInv, Reader!CacheTypeOK
    <2>4. endedFor[i] <= OnBound + offFor[i]
      BY <2>2, <2>3 DEF EndInv, EndedInv
    <2> QED
      BY <2>2, <2>3, <2>4, Bounds
  <1> QED
    BY <1>1, EndInvHolds, PTL

(* A process that serves is on the list ListedBound after it came to be    *)
(* off it: this is how soon what Relisted promises in the end is done.     *)
THEOREM EndToEndServingListed ==
    ASSUME Options
    PROVE  EndSpec => []ServingListed
  <1>1. EndInv => ServingListed
    <2> SUFFICES ASSUME EndInv, NEW i \in Instance, Serving(i), status[i] # "ON"
                 PROVE  ~(steadyFor[i] > ListedBound)
      BY DEF ServingListed, Serving
    <2>1. steadyFor[i] <= ListedBound
      BY OffBounded DEF EndInv
    <2>2. steadyFor[i] \in Int /\ ListedBound \in Int
      BY ListedBoundNat DEF EndInv, SteadyInv
    <2> QED
      BY <2>1, <2>2
  <1> QED
    BY <1>1, EndInvHolds, PTL

(* And FreshBound later it is in every reader's copy, however many loads   *)
(* failed or overlap: how soon what Discovered promises is done.           *)
THEOREM EndToEndServingKnown ==
    ASSUME Options
    PROVE  EndSpec => []ServingKnown
  <1>1. EndInv => ServingKnown
    <2> SUFFICES ASSUME EndInv, phase = "running", age # -1,
                        NEW i \in Instance, Serving(i), i \notin services
                 PROVE  ~(steadyFor[i] > ListedBound + Cache!FreshBound)
      BY DEF ServingKnown, Serving, Cache!Never
    <2>1. age <= Reader!FreshBound
      BY Assumptions, Reader!AgeBounded DEF EndInv, Reader!Never
    <2>2. steadyFor[i] <= ListedBound + age
      BY <2>1 DEF EndInv, KnownInv
    <2>3. /\ steadyFor[i] \in Int /\ ListedBound \in Int /\ age \in Int
          /\ Reader!FreshBound \in Int /\ Cache!FreshBound = Reader!FreshBound
      BY Bounds, ListedBoundNat DEF EndInv, SteadyInv, Reader!CacheInv, Reader!CacheTypeOK
    <2> QED
      BY <2>1, <2>2, <2>3
  <1> QED
    BY <1>1, EndInvHolds, PTL

\* Reader is Cache, with what is proved of it.
LEMMA ReaderIsCache == Reader!CacheNext => Cache!CacheNext
  <1>1. Reader!ModuleInit => Cache!ModuleInit
    BY DEF Reader!ModuleInit, Cache!ModuleInit, Reader!Asked, Cache!Asked,
       Reader!Directory!Unlisted, Cache!Directory!Unlisted
  <1>2. Reader!Refresh => Cache!Refresh
    BY DEF Reader!Refresh, Cache!Refresh, Reader!Asked, Cache!Asked,
       Reader!Directory!Unlisted, Cache!Directory!Unlisted
  <1>3. ASSUME NEW load, Reader!Finish(load)
        PROVE  Cache!Finish(load)
    BY <1>3 DEF Reader!Finish, Cache!Finish, Reader!Listed, Cache!Listed, Reader!Loaded,
       Cache!Loaded, Reader!LoadFailed, Cache!LoadFailed, Reader!Over, Cache!Over
  <1>4. Reader!ModuleDestroy => Cache!ModuleDestroy
    BY DEF Reader!ModuleDestroy, Cache!ModuleDestroy
  <1>5. Reader!RegistryStep => Cache!RegistryStep
    <2>1. Reader!Directory!Next => Cache!Directory!Next
      BY DEF Reader!Directory!Next, Cache!Directory!Next, Reader!Directory!Announce,
         Cache!Directory!Announce, Reader!Directory!Withdraw, Cache!Directory!Withdraw,
         Reader!Directory!Sweep, Cache!Directory!Sweep, Reader!Directory!Forget,
         Cache!Directory!Forget, Reader!Directory!Listed, Cache!Directory!Listed,
         Reader!Directory!Unlisted, Cache!Directory!Unlisted
    <2> QED
      BY <2>1 DEF Reader!RegistryStep, Cache!RegistryStep, Reader!serviceVars, Cache!serviceVars
  <1>6. Reader!Pass => Cache!Pass
    BY DEF Reader!Pass, Cache!Pass, Reader!On, Cache!On, Reader!Later, Cache!Later,
       Reader!Never, Cache!Never, Reader!FreshBound, Cache!FreshBound
  <1> QED
    BY <1>1, <1>2, <1>3, <1>4, <1>5, <1>6 DEF Reader!CacheNext, Cache!CacheNext

(* To its reader the deployment is a directory like any other: every step  *)
(* of the processes, the network and the server is one of the directory,   *)
(* or none, so whatever holds of DiscoveryCache holds of the reader here.  *)
THEOREM EndToEndImplementsCache ==
    ASSUME Options
    PROVE  EndSpec => ImplementsCache
  <1>1. EndInv /\ EndInv' /\ [EndNext]_endVars => [Cache!CacheNext]_(Cache!cacheVars)
    <2> SUFFICES ASSUME EndInv, EndInv', [EndNext]_endVars
                 PROVE  [Cache!CacheNext]_(Cache!cacheVars)
      OBVIOUS
    <2>1. [Reader!CacheNext]_(Reader!cacheVars)
      BY ReaderSteps DEF EndInv
    <2> QED
      BY <2>1, ReaderIsCache DEF Reader!cacheVars, Cache!cacheVars, Reader!serviceVars,
         Cache!serviceVars
  <1>2. EndInit => Cache!CacheInit
    BY DEF EndInit
  <1> QED
    BY <1>1, <1>2, EndInvHolds, PTL DEF EndSpec, ImplementsCache

=============================================================================
