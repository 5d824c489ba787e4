---------------------------- MODULE ClusterProofs ----------------------------
(***************************************************************************)
(* Proofs about Registry and Cluster for every set of instances and every  *)
(* interval, delay, lag, threshold and restart delay.                      *)
(*                                                                         *)
(* Of the registry's invariants only ListingExact is inductive by itself.  *)
(* The two that bound a record's silence from above (StaleBounded) and     *)
(* from below (StrikesEarned) are proved from RegistryInv, which ties the  *)
(* silence of a record to its count of missed heartbeats and to the age of *)
(* the timer.                                                              *)
(*                                                                         *)
(* RegistryInv holds in the cluster too, crashes of the server included.   *)
(* What the cluster's own properties say of records and processes needs    *)
(* what is under way between them: a message is as old as the time its     *)
(* process has been gone (GoneInv), it carries the metadata of a process   *)
(* that was started rested (RestedInv), and a record that is silent for    *)
(* longer than the timer explains has a heartbeat under way (HeardInv).    *)
(***************************************************************************)
EXTENDS Cluster, TLAPS

CleanupPeriod == CleanupTTL + TimerLag

\* Each miss was counted within one period of the one before it.
SilenceExplained ==
    \A i \in Instance :
        Present(i) => silence[i] <= HeartbeatInterval
                                      + missedHeartbeats[i] * CleanupPeriod + sinceCleanup

RegistryInv ==
    /\ RegistryTypeOK
    /\ MarksAgree
    /\ StrikesEarned
    /\ SilenceExplained

-----------------------------------------------------------------------------
(* Products with a constant factor, for the solver. *)
LEMMA NextMultiple ==
    ASSUME NEW k \in Nat, NEW n \in Nat
    PROVE  /\ k * n \in Nat
           /\ (k + 1) * n = k * n + n
           /\ (k + 1 - 1) * n = k * n
           /\ 0 * n = 0
           /\ (1 - 1) * n = 0
    OBVIOUS

LEMMA MultipleMonotone ==
    ASSUME NEW k \in Nat, NEW l \in Nat, NEW n \in Nat, k <= l
    PROVE  k * n <= l * n
    OBVIOUS

LEMMA PreviousMultiple ==
    ASSUME NEW k \in Nat \ {0}, NEW n \in Nat
    PROVE  /\ (k - 1) * n \in Nat
           /\ (k - 1) * n + n = k * n
  <1>1. k - 1 \in Nat
    OBVIOUS
  <1> QED
    BY <1>1

LEMMA RegistryTypeStep ==
    RegistryTypeOK /\ [RegistryNext]_registryVars => RegistryTypeOK'
  <1> SUFFICES ASSUME RegistryTypeOK, [RegistryNext]_registryVars
               PROVE  RegistryTypeOK'
    OBVIOUS
  <1> USE RegistryAssumption
  <1> USE DEF RegistryTypeOK
  <1>1. ASSUME NEW i \in Instance, NEW m \in Metadata, Register(i, m)
        PROVE  RegistryTypeOK'
    BY <1>1 DEF Register
  <1>2. ASSUME NEW i \in Instance, NEW m \in Metadata, Heartbeat(i, m)
        PROVE  RegistryTypeOK'
    BY <1>2 DEF Heartbeat, Register
  <1>3. ASSUME NEW i \in Instance, Deregister(i)
        PROVE  RegistryTypeOK'
    BY <1>3 DEF Deregister, Delete
  <1>4. CASE Cleanup
    BY <1>4 DEF Cleanup, Delete
  <1>5. CASE Tick
    BY <1>5 DEF Tick
  <1>6. CASE UNCHANGED registryVars
    BY <1>6 DEF registryVars
  <1>7. QED
    BY <1>1, <1>2, <1>3, <1>4, <1>5, <1>6 DEF RegistryNext

(* Type correctness: each variable keeps its kind, the age of the cleanup  *)
(* timer included, whatever requests memory-storage.service.ts serves.     *)
THEOREM RegistryTypeCorrect == RegistrySpec => []RegistryTypeOK
  <1>1. RegistryInit => RegistryTypeOK
    BY RegistryAssumption DEF RegistryInit, RegistryTypeOK
  <1>2. QED
    BY <1>1, RegistryTypeStep, PTL DEF RegistrySpec

LEMMA ListingExactInit == RegistryInit => ListingExact
  BY DEF RegistryInit, ListingExact, Present

LEMMA ListingExactStep ==
    RegistryTypeOK /\ ListingExact /\ [RegistryNext]_registryVars => ListingExact'
  <1> SUFFICES ASSUME RegistryTypeOK, ListingExact, [RegistryNext]_registryVars
               PROVE  ListingExact'
    OBVIOUS
  <1> USE RegistryAssumption DEF RegistryTypeOK, ListingExact, Present
  <1>1. ASSUME NEW i \in Instance, NEW m \in Metadata, Register(i, m)
        PROVE  ListingExact'
    BY <1>1 DEF Register
  <1>2. ASSUME NEW i \in Instance, NEW m \in Metadata, Heartbeat(i, m)
        PROVE  ListingExact'
    BY <1>1, <1>2 DEF Heartbeat
  <1>3. ASSUME NEW i \in Instance, Deregister(i)
        PROVE  ListingExact'
    BY <1>3 DEF Deregister, Delete
  <1>4. CASE Cleanup
    <2>1. \A i \in Instance : Present(i)' <=> Present(i) /\ i \notin Evicted
      BY <1>4 DEF Cleanup, Evicted, Late
    <2> QED
      BY <1>4, <2>1 DEF Cleanup, Delete
  <1>5. CASE Tick
    BY <1>5 DEF Tick
  <1>6. CASE UNCHANGED registryVars
    BY <1>6 DEF registryVars
  <1>7. QED
    BY <1>1, <1>2, <1>3, <1>4, <1>5, <1>6 DEF RegistryNext

(* The outer map's entries are exactly the names of the stored records,    *)
(* although register, heartbeat, deregister and cleanup each create or     *)
(* delete entries on their own.                                            *)
THEOREM RegistryListingExact == RegistrySpec => []ListingExact
  BY ListingExactInit, ListingExactStep, RegistryTypeCorrect, PTL DEF RegistrySpec

-----------------------------------------------------------------------------
(* The strengthened invariant is inductive. *)
LEMMA RegistryInvStep ==
    RegistryInv /\ [RegistryNext]_registryVars => RegistryInv'
  <1> SUFFICES ASSUME RegistryInv, [RegistryNext]_registryVars
               PROVE  RegistryInv'
    OBVIOUS
  <1> USE RegistryAssumption
  <1>1. RegistryTypeOK'
    BY RegistryTypeStep DEF RegistryInv
  <1>2. CleanupPeriod \in Nat /\ CleanupTTL \in Nat /\ HeartbeatInterval \in Nat
    BY DEF CleanupPeriod
  <1> DEFINE Good(i) ==
               /\ status[i] = "OFF" <=> missedHeartbeats[i] > 0
               /\ missedHeartbeats[i] < EvictionThreshold
               /\ missedHeartbeats[i] > 0 =>
                    silence[i] > HeartbeatInterval
                                   + (missedHeartbeats[i] - 1) * CleanupTTL + sinceCleanup
               /\ Present(i) =>
                    silence[i] <= HeartbeatInterval
                                   + missedHeartbeats[i] * CleanupPeriod + sinceCleanup
  <1>3. RegistryTypeOK /\ \A i \in Instance : Good(i)
    BY DEF RegistryInv, MarksAgree, StrikesEarned, SilenceExplained
  <1>4. SUFFICES ASSUME NEW j \in Instance
                 PROVE  Good(j)'
    BY <1>1 DEF RegistryInv, MarksAgree, StrikesEarned, SilenceExplained
  <1>5. /\ Good(j)
        /\ status[j] \in {"ABSENT", "ON", "OFF"}
        /\ silence[j] \in Nat
        /\ missedHeartbeats[j] \in Nat
        /\ sinceCleanup \in 0 .. CleanupPeriod
    BY <1>3 DEF RegistryTypeOK, CleanupPeriod
  <1>6. 0 * CleanupPeriod = 0 /\ 0 * CleanupTTL = 0
    BY <1>2
  <1>7. ASSUME status'[j] \in {"ABSENT", "ON"}, missedHeartbeats'[j] = 0, silence'[j] = 0,
               NEW age \in Nat, sinceCleanup' = age
        PROVE  Good(j)'
    BY <1>2, <1>6, <1>7 DEF Present, CleanupPeriod
  <1>8. ASSUME UNCHANGED <<status[j], missedHeartbeats[j], silence[j], sinceCleanup>>
        PROVE  Good(j)'
    BY <1>5, <1>8 DEF Present
  <1>9. ASSUME NEW i \in Instance, NEW m \in Metadata, Register(i, m)
        PROVE  Good(j)'
    BY <1>3, <1>7, <1>8, <1>9 DEF Register, RegistryTypeOK
  <1>10. ASSUME NEW i \in Instance, NEW m \in Metadata, Heartbeat(i, m)
         PROVE  Good(j)'
    <2>1. CASE Register(i, m)
      BY <1>9, <2>1
    <2>2. CASE ~Register(i, m)
      BY <1>3, <1>7, <1>8, <1>10, <2>2 DEF Heartbeat, RegistryTypeOK
    <2> QED
      BY <2>1, <2>2
  <1>11. ASSUME NEW i \in Instance, Deregister(i)
         PROVE  Good(j)'
    BY <1>3, <1>7, <1>8, <1>11 DEF Deregister, Delete, RegistryTypeOK
  <1>12. CASE Cleanup
    <2>1. sinceCleanup >= CleanupTTL /\ sinceCleanup' = 0
      BY <1>12 DEF Cleanup
    <2>2. CASE j \in Evicted \/ ~Present(j)
      <3>1. status'[j] = "ABSENT" /\ missedHeartbeats'[j] = 0
        BY <1>12, <2>2 DEF Cleanup, Late
      <3> QED
        BY <1>2, <1>6, <2>1, <3>1 DEF Present
    <2>3. CASE j \in Late \ Evicted
      <3>1. status'[j] = "OFF" /\ missedHeartbeats'[j] = missedHeartbeats[j] + 1
        BY <1>12, <2>3 DEF Cleanup, Late
      <3>2. silence'[j] = silence[j] /\ silence[j] > HeartbeatInterval /\ Present(j)
        BY <1>12, <2>3 DEF Cleanup, Delete, Late
      <3>3. missedHeartbeats[j] + 1 < EvictionThreshold
        BY <1>5, <2>3 DEF Evicted
      <3>4. silence[j] <= HeartbeatInterval + (missedHeartbeats[j] + 1) * CleanupPeriod
        BY <1>2, <1>5, <3>2, NextMultiple
      <3>5. silence[j] > HeartbeatInterval + (missedHeartbeats[j] + 1 - 1) * CleanupTTL
        <4>1. CASE missedHeartbeats[j] = 0
          BY <1>2, <1>6, <3>2, <4>1
        <4>2. CASE missedHeartbeats[j] # 0
          <5> DEFINE k == missedHeartbeats[j]
                     less == (k - 1) * CleanupTTL
                     same == k * CleanupTTL
                     more == (k + 1 - 1) * CleanupTTL
          <5>1. k \in Nat \ {0} /\ CleanupTTL \in Nat
            BY <1>2, <1>5, <4>2
          <5> HIDE DEF k
          <5>2. less \in Nat /\ less + CleanupTTL = same /\ more = same
            BY <5>1, PreviousMultiple, NextMultiple
          <5>3. silence[j] > HeartbeatInterval + less + sinceCleanup
            BY <1>5, <3>2, <4>2 DEF k
          <5> HIDE DEF less, same, more
          <5>4. silence[j] > HeartbeatInterval + more
            BY <1>2, <1>5, <2>1, <5>1, <5>2, <5>3
          <5> QED
            BY <5>4 DEF k, more
        <4> QED
          BY <4>1, <4>2
      <3> HIDE DEF CleanupPeriod
      <3> QED
        BY <1>2, <1>5, <2>1, <3>1, <3>2, <3>3, <3>4, <3>5 DEF Present
    <2>4. CASE Present(j) /\ j \notin Late
      <3>1. status'[j] = "ON" /\ missedHeartbeats'[j] = 0 /\ silence'[j] = silence[j]
        BY <1>12, <2>4 DEF Cleanup, Delete, Evicted, Late
      <3>2. silence[j] <= HeartbeatInterval
        BY <1>2, <1>5, <2>4 DEF Late
      <3> QED
        BY <1>2, <1>5, <1>6, <2>1, <3>1, <3>2 DEF Present
    <2> QED
      BY <2>2, <2>3, <2>4
  <1>13. CASE Tick
    <2>1. /\ UNCHANGED <<status[j], missedHeartbeats[j]>>
          /\ sinceCleanup' = sinceCleanup + 1
          /\ silence'[j] = IF Present(j) THEN silence[j] + 1 ELSE silence[j]
      BY <1>13 DEF Tick
    <2>2. missedHeartbeats[j] * CleanupPeriod \in Nat
      BY <1>2, <1>5, NextMultiple
    <2>3. missedHeartbeats[j] > 0 => (missedHeartbeats[j] - 1) * CleanupTTL \in Nat
      BY <1>2, <1>5, PreviousMultiple
    <2> QED
      BY <1>2, <1>5, <2>1, <2>2, <2>3 DEF Present
  <1>14. CASE UNCHANGED registryVars
    BY <1>8, <1>14 DEF registryVars
  <1> QED
    BY <1>9, <1>10, <1>11, <1>12, <1>13, <1>14 DEF RegistryNext

LEMMA RegistryInitInv == RegistryInit => RegistryInv
  <1> SUFFICES ASSUME RegistryInit
               PROVE  RegistryInv
    OBVIOUS
  <1>1. RegistryTypeOK
    BY RegistryAssumption DEF RegistryInit, RegistryTypeOK
  <1>2. MarksAgree /\ StrikesEarned /\ SilenceExplained
    BY RegistryAssumption
    DEF RegistryInit, MarksAgree, StrikesEarned, SilenceExplained, Present
  <1> QED
    BY <1>1, <1>2 DEF RegistryInv

LEMMA RegistryInvHolds == RegistrySpec => []RegistryInv
  BY RegistryInitInv, RegistryInvStep, PTL DEF RegistrySpec

(* status and missedHeartbeats, written by four methods, always agree, and *)
(* no record at the eviction threshold stays stored.                       *)
THEOREM RegistryMarksAgree == RegistrySpec => []MarksAgree
  <1>1. RegistryInv => MarksAgree
    BY DEF RegistryInv
  <1>2. QED
    BY <1>1, RegistryInvHolds, PTL

(* A counted miss stands for a cleanup period in silence.                  *)
THEOREM RegistryStrikesEarned == RegistrySpec => []StrikesEarned
  <1>1. RegistryInv => StrikesEarned
    BY DEF RegistryInv
  <1>2. QED
    BY <1>1, RegistryInvHolds, PTL

LEMMA StaleByInv == RegistryInv => StaleBounded
  <1> SUFFICES ASSUME RegistryInv, NEW i \in Instance, Present(i)
               PROVE  /\ silence[i] <= HeartbeatInterval
                                         + EvictionThreshold * (CleanupTTL + TimerLag)
                      /\ status[i] = "ON" =>
                           silence[i] <= HeartbeatInterval + (CleanupTTL + TimerLag)
    BY DEF StaleBounded, Present
  <1> USE RegistryAssumption
  <1>1. /\ silence[i] \in Nat /\ missedHeartbeats[i] \in Nat
        /\ CleanupPeriod \in Nat /\ sinceCleanup \in Nat /\ sinceCleanup <= CleanupPeriod
    BY DEF RegistryInv, RegistryTypeOK, CleanupPeriod
  <1>2. silence[i] <= HeartbeatInterval + missedHeartbeats[i] * CleanupPeriod + sinceCleanup
    BY DEF RegistryInv, SilenceExplained
  <1>3. missedHeartbeats[i] + 1 <= EvictionThreshold
    BY <1>1 DEF RegistryInv, MarksAgree
  <1>4. (missedHeartbeats[i] + 1) * CleanupPeriod <= EvictionThreshold * CleanupPeriod
    BY <1>1, <1>3, MultipleMonotone
  <1>5. /\ missedHeartbeats[i] * CleanupPeriod \in Nat
        /\ (missedHeartbeats[i] + 1) * CleanupPeriod
             = missedHeartbeats[i] * CleanupPeriod + CleanupPeriod
        /\ EvictionThreshold * CleanupPeriod \in Nat
    BY <1>1, NextMultiple
  <1>6. silence[i] <= HeartbeatInterval + EvictionThreshold * CleanupPeriod
    BY <1>1, <1>2, <1>4, <1>5
  <1>7. status[i] = "ON" => missedHeartbeats[i] = 0
    BY <1>1 DEF RegistryInv, MarksAgree
  <1>8. ASSUME status[i] = "ON"
        PROVE  silence[i] <= HeartbeatInterval + CleanupPeriod
    <2>1. missedHeartbeats[i] * CleanupPeriod = 0
      BY <1>1, <1>7, <1>8, NextMultiple
    <2> QED
      BY <1>1, <1>2, <2>1
  <1> QED
    BY <1>6, <1>8 DEF CleanupPeriod

(* How long a record can outlive its instance, and how long it can still   *)
(* be listed as ON: cleanup cannot fall further behind than this.          *)
THEOREM RegistryStaleBounded == RegistrySpec => []StaleBounded
  BY StaleByInv, RegistryInvHolds, PTL

-----------------------------------------------------------------------------
(* What a cleanup does to one record, as memory-storage.service.ts has it  *)
(* in the body of its inner loop.                                          *)
LEMMA CleanupOf ==
    ASSUME RegistryTypeOK, Cleanup, NEW i \in Instance
    PROVE  /\ ~Present(i) => status'[i] = "ABSENT"
           /\ i \in Evicted => status'[i] = "ABSENT"
           /\ i \in Late \ Evicted =>
                status'[i] = "OFF" /\ missedHeartbeats'[i] = missedHeartbeats[i] + 1
           /\ Present(i) /\ i \notin Late =>
                status'[i] = "ON" /\ missedHeartbeats'[i] = 0
  BY DEF RegistryTypeOK, Cleanup, Late, Evicted

\* A record with a count stays overdue until it is heard of again.
LEMMA StrikesKeepLate ==
    ASSUME RegistryInv, NEW i \in Instance, Present(i), i \notin Late
    PROVE  missedHeartbeats[i] = 0
  <1> SUFFICES ASSUME missedHeartbeats[i] # 0
               PROVE  FALSE
    OBVIOUS
  <1> USE RegistryAssumption
  <1>1. /\ silence[i] \in Nat /\ missedHeartbeats[i] \in Nat
        /\ CleanupTTL \in Nat /\ sinceCleanup \in Nat
    BY DEF RegistryInv, RegistryTypeOK
  <1>2. (missedHeartbeats[i] - 1) * CleanupTTL \in Nat
    BY <1>1, PreviousMultiple
  <1>3. silence[i] > HeartbeatInterval + (missedHeartbeats[i] - 1) * CleanupTTL + sinceCleanup
    BY <1>1 DEF RegistryInv, StrikesEarned
  <1>4. silence[i] > HeartbeatInterval
    BY <1>1, <1>2, <1>3
  <1> QED
    BY <1>4 DEF Late

\* No other action both restarts the timer and removes a record.
LEMMA OnlyCleanupRestarts ==
    ASSUME RegistryTypeOK, [RegistryNext]_registryVars, sinceCleanup > 0, sinceCleanup' = 0
    PROVE  Cleanup
  BY RegistryAssumption
  DEF RegistryTypeOK, RegistryNext, registryVars, Register, Heartbeat, Deregister, Delete, Tick

LEMMA CleanupEvictsSilent ==
    ASSUME RegistryInv, Cleanup, NEW i \in Instance, Present(i), ~Present(i)'
    PROVE  silence[i] > HeartbeatInterval + (EvictionThreshold - 1) * CleanupTTL
  <1> USE RegistryAssumption
  <1>1. RegistryTypeOK
    BY DEF RegistryInv
  <1>2. i \in Evicted
    BY <1>1, CleanupOf DEF Present
  <1>3. /\ silence[i] \in Nat /\ missedHeartbeats[i] \in Nat /\ CleanupTTL \in Nat
        /\ sinceCleanup \in Nat /\ sinceCleanup >= CleanupTTL
    BY <1>1 DEF RegistryTypeOK, Cleanup
  <1>4. missedHeartbeats[i] = EvictionThreshold - 1 /\ silence[i] > HeartbeatInterval
    BY <1>2, <1>3 DEF RegistryInv, MarksAgree, Evicted, Late
  <1>5. CASE missedHeartbeats[i] = 0
    BY <1>3, <1>4, <1>5, NextMultiple
  <1>6. CASE missedHeartbeats[i] # 0
    <2>1. silence[i] > HeartbeatInterval
                         + (missedHeartbeats[i] - 1) * CleanupTTL + sinceCleanup
      BY <1>3, <1>6 DEF RegistryInv, StrikesEarned
    <2>2. /\ (missedHeartbeats[i] - 1) * CleanupTTL \in Nat
          /\ (missedHeartbeats[i] - 1) * CleanupTTL + CleanupTTL
               = missedHeartbeats[i] * CleanupTTL
      BY <1>3, <1>6, PreviousMultiple
    <2> QED
      BY <1>3, <1>4, <2>1, <2>2
  <1> QED
    BY <1>5, <1>6

(* Cleanup never removes a record before the whole grace period has        *)
(* passed, whatever the phase of the heartbeats and of the cleanup timer.  *)
THEOREM RegistryEvictedOnlyWhenSilent == RegistrySpec => EvictedOnlyWhenSilent
  <1>1. ASSUME RegistryInv, [RegistryNext]_registryVars, NEW i \in Instance,
               Present(i), ~Present(i)', sinceCleanup' = 0, sinceCleanup > 0
        PROVE  silence[i] > HeartbeatInterval + (EvictionThreshold - 1) * CleanupTTL
    BY <1>1, OnlyCleanupRestarts, CleanupEvictsSilent DEF RegistryInv
  <1>2. RegistryInv /\ [RegistryNext]_registryVars =>
          [\A i \in Instance :
             Present(i) /\ ~Present(i)' /\ sinceCleanup' = 0 /\ sinceCleanup > 0 =>
               silence[i] > HeartbeatInterval + (EvictionThreshold - 1) * CleanupTTL]_registryVars
    BY <1>1
  <1>3. QED
    BY <1>2, RegistryInvHolds, PTL DEF RegistrySpec, EvictedOnlyWhenSilent

-----------------------------------------------------------------------------
\* The strikes of the directory the registry implements.
Count == [i \in Instance |-> IF Present(i) THEN missedHeartbeats[i] ELSE -1]

LEMMA RegistryInitDirectory == RegistryInit => Directory!Init
  BY DEF RegistryInit, Directory!Init, Directory!Unlisted, Present

(* The case that needs the invariant is cleanup: its ON branch resets      *)
(* missedHeartbeats, and may not do so to a record with a count.           *)
LEMMA RegistryStepDirectory ==
    ASSUME RegistryInv, [RegistryNext]_registryVars
    PROVE  Directory!Next \/ UNCHANGED Count
  <1> USE RegistryAssumption DEF Count
  <1>1. RegistryTypeOK
    BY DEF RegistryInv
  <1>2. ASSUME NEW i \in Instance, NEW m \in Metadata, Register(i, m)
        PROVE  Directory!Announce(i)
    BY <1>1, <1>2 DEF Register, RegistryTypeOK, Present, Directory!Announce
  <1>3. ASSUME NEW i \in Instance, NEW m \in Metadata, Heartbeat(i, m)
        PROVE  Directory!Announce(i)
    <2>1. CASE Register(i, m)
      BY <1>2, <2>1
    <2>2. CASE ~Register(i, m)
      BY <1>1, <1>3, <2>2 DEF Heartbeat, RegistryTypeOK, Present, Directory!Announce
    <2> QED
      BY <2>1, <2>2
  <1>4. ASSUME NEW i \in Instance, Deregister(i)
        PROVE  Directory!Withdraw(i)
    BY <1>1, <1>4
    DEF Deregister, Delete, RegistryTypeOK, Present, Directory!Withdraw, Directory!Unlisted
  <1>5. CASE Cleanup
    <2>1. ASSUME NEW i \in Instance
          PROVE  Count'[i] = IF i \notin Late THEN Count[i]
                             ELSE IF Count[i] + 1 >= EvictionThreshold THEN -1
                             ELSE Count[i] + 1
      <3>1. CASE ~Present(i)
        BY <1>1, <1>5, <3>1, CleanupOf DEF Present, Late
      <3>2. CASE i \in Evicted
        BY <1>1, <1>5, <3>2, CleanupOf DEF Present, Evicted, Late
      <3>3. CASE i \in Late \ Evicted
        BY <1>1, <1>5, <3>3, CleanupOf DEF Present, Evicted, Late
      <3>4. CASE Present(i) /\ i \notin Late
        BY <1>1, <1>5, <3>4, CleanupOf, StrikesKeepLate DEF Present
      <3> QED
        BY <3>1, <3>2, <3>3, <3>4 DEF Evicted, Late
    <2>2. Count' = [i \in Instance |-> IF i \notin Late THEN Count[i]
                                        ELSE IF Count[i] + 1 >= EvictionThreshold THEN -1
                                        ELSE Count[i] + 1]
      <3> HIDE DEF Count
      <3>1. Count' = [i \in Instance |-> Count'[i]]
        BY DEF Count
      <3> QED
        BY <2>1, <3>1
    <2>3. Late \subseteq {i \in Instance : Count[i] # -1}
      BY <1>1 DEF Late, RegistryTypeOK
    <2> HIDE DEF Count
    <2> QED
      BY <2>2, <2>3
      DEF Directory!Next, Directory!Sweep, Directory!Listed, Directory!Unlisted, Count
  <1>6. CASE Tick
    BY <1>6 DEF Tick, Present
  <1>7. CASE UNCHANGED registryVars
    BY <1>7 DEF registryVars, Present
  <1>8. QED
    BY <1>2, <1>3, <1>4, <1>5, <1>6, <1>7 DEF RegistryNext, Directory!Next

(* The registry implements the directory: whatever is called in whatever   *)
(* order, only the instance itself clears its strikes, and a cleanup adds  *)
(* at most one, and removes the record with the last.                      *)
THEOREM RegistryImplementsDirectory == RegistrySpec => ImplementsDirectory
  <1>1. RegistryInv /\ [RegistryNext]_registryVars => [Directory!Next]_Count
    BY RegistryStepDirectory
  <1> QED
    BY <1>1, RegistryInitDirectory, RegistryInvHolds, PTL
    DEF RegistrySpec, ImplementsDirectory, Directory!Spec, Count

-----------------------------------------------------------------------------
\* What a process has and what it does go together; a server without memory
\* and a refused instance have no record.
ProcessInv ==
    /\ \A i \in Instance :
          /\ process[i] = "down" => pace[i] = Off
          /\ process[i] = "serving" => pace[i] # Off
          /\ process[i] # "down" => config[i] \in Metadata /\ goneFor[i] = 0
          /\ Present(i) => server = "up" /\ i \notin refused
    /\ \A msg \in wire : msg.live => process[msg.from] # "down"

\* A message of a process that ended was sent before it ended.
GoneInv ==
    /\ \A msg \in wire : goneFor[msg.from] <= msg.age \/ process[msg.from] # "down"
    /\ \A i \in Instance : Present(i) => goneFor[i] <= MaxDelay + silence[i]

\* An answer to register that its process still waits for.
Awaited(msg) == msg.op = "registered" /\ msg.live

RestedInv ==
    /\ \A msg \in wire :
          rested[msg.from] =>
              /\ msg.meta = config[msg.from]
              /\ Awaited(msg) /\ Present(msg.from) => metadata[msg.from] = config[msg.from]
    /\ ListingCurrent

\* Later than this after the last heartbeat the next one is sent.
BeatGap == BeatPeriod + TimerLag

\* A heartbeat under way that explains the silence of i.
Coming(i) ==
    \E msg \in wire :
        /\ msg.from = i /\ msg.op = "heartbeat" /\ msg.live
        /\ silence[i] <= MaxDelay + BeatGap + msg.age

HeardInv ==
    /\ \A i \in Instance :
          Beating(i) =>
              /\ i \notin refused => pace[i] = HeartbeatInterval
              /\ sinceBeat[i] <= Period(i) + TimerLag
              /\ Present(i) => silence[i] <= MaxDelay + sinceBeat[i] \/ Coming(i)
    /\ \A msg \in wire : Awaited(msg) /\ Present(msg.from) => silence[msg.from] <= msg.age

ClusterInv ==
    /\ ClusterTypeOK
    /\ RegistryInv
    /\ ProcessInv
    /\ GoneInv
    /\ RestedInv
    /\ HeardInv

-----------------------------------------------------------------------------
(* The steps, by what they do to the records, the processes and the wire.  *)

\* The process of i is gone, by whatever way.
Gone(i) ==
    /\ \E rest \in SUBSET wire :
          /\ \A msg \in wire : msg.from # i => msg \in rest
          /\ End(i, rest)
    /\ UNCHANGED <<registryVars, server>>

\* Records and messages nobody waits for may go, and nothing else changes.
Removal ==
    /\ UNCHANGED clientVars
    /\ wire' \subseteq wire /\ \A msg \in wire : msg.live => msg \in wire'
    /\ server' \in {"up", "down"}
    /\ \A i \in Instance :
          /\ Present(i)' => Present(i) /\ server' = "up"
          /\ Present(i)' => silence'[i] = silence[i] /\ metadata'[i] = metadata[i]

LEMMA ClusterSteps ==
    ASSUME ClusterTypeOK, ProcessInv, [ClusterNext]_clusterVars
    PROVE  \/ \E i \in Instance, m \in Metadata : Start(i, m)
           \/ \E i \in Instance : Beat(i) \/ Stop(i) \/ Gone(i)
           \/ \E msg \in wire : Deliver(msg) \/ Registered(msg)
           \/ Removal
           \/ Pass
  <1> USE DEF ClusterTypeOK, RegistryTypeOK
  <1>1. ASSUME NEW i \in Instance, Crash(i)
        PROVE  Gone(i)
    BY <1>1 DEF Crash, Gone
  <1>2. ASSUME NEW msg \in wire, Deregistered(msg)
        PROVE  msg.from \in Instance /\ Gone(msg.from)
    <2>1. msg.from \in Instance
      BY DEF Messages
    <2>2. \A other \in wire : other.from # msg.from => other \in wire \ {msg}
      OBVIOUS
    <2>3. End(msg.from, wire \ {msg}) /\ UNCHANGED <<registryVars, server>>
      BY <1>2 DEF Deregistered
    <2> QED
      BY <2>1, <2>2, <2>3 DEF Gone
  <1>3. ASSUME NEW msg \in wire, Lose(msg), msg.live
        PROVE  msg.from \in Instance /\ Gone(msg.from)
    <2>1. msg.from \in Instance
      BY DEF Messages
    <2>2. \A other \in wire : other.from # msg.from => other \in wire \ {msg}
      OBVIOUS
    <2>3. End(msg.from, wire \ {msg}) /\ UNCHANGED <<registryVars, server>>
      BY <1>3 DEF Lose
    <2> QED
      BY <2>1, <2>2, <2>3 DEF Gone
  <1>4. ASSUME UNCHANGED registryVars, server' \in {"up", "down"}, server = "up" => server' = "up",
               NEW i \in Instance
        PROVE  /\ Present(i)' => Present(i) /\ server' = "up"
               /\ Present(i)' => silence'[i] = silence[i] /\ metadata'[i] = metadata[i]
    BY <1>4 DEF registryVars, Present, ProcessInv
  <1>5. ASSUME NEW msg \in wire, Lose(msg), ~msg.live
        PROVE  Removal
    <2>1. /\ UNCHANGED clientVars /\ wire' = wire \ {msg}
          /\ UNCHANGED registryVars /\ UNCHANGED server
      BY <1>5 DEF Lose
    <2>2. wire' \subseteq wire /\ \A other \in wire : other.live => other \in wire'
      BY <1>5, <2>1
    <2> QED
      BY <1>4, <2>1, <2>2 DEF Removal
  <1>6. ASSUME NEW i \in Instance, AdminDeregister(i)
        PROVE  Removal
    <2>1. UNCHANGED <<clientVars, wire, server>> /\ server = "up" /\ Deregister(i)
      BY <1>6 DEF AdminDeregister, Up
    <2>2. ASSUME NEW j \in Instance
          PROVE  /\ Present(j)' => Present(j)
                 /\ Present(j)' => silence'[j] = silence[j] /\ metadata'[j] = metadata[j]
      BY <2>1 DEF Deregister, Delete, Present
    <2> QED
      BY <2>1, <2>2 DEF Removal
  <1>7. CASE ServerCrash
    <2>1. UNCHANGED <<clientVars, wire>> /\ server' = "down"
      BY <1>7 DEF ServerCrash
    <2>2. \A j \in Instance : ~Present(j)'
      BY <1>7 DEF ServerCrash, Present
    <2> QED
      BY <2>1, <2>2 DEF Removal
  <1>8. CASE ServerStart
    BY <1>4, <1>8 DEF ServerStart, Removal
  <1>9. CASE RunCleanup
    <2>1. UNCHANGED <<clientVars, wire, server>> /\ server = "up" /\ Cleanup
      BY <1>9 DEF RunCleanup, Up
    <2>2. ASSUME NEW j \in Instance, Present(j)'
          PROVE  Present(j) /\ silence'[j] = silence[j] /\ metadata'[j] = metadata[j]
      <3>1. Present(j) /\ j \notin Evicted
        BY <2>1, <2>2 DEF Cleanup, Present
      <3> QED
        BY <2>1, <3>1 DEF Cleanup, Delete
    <2> QED
      BY <2>1, <2>2 DEF Removal
  <1>10. CASE UNCHANGED clusterVars
    <2>1. UNCHANGED registryVars /\ UNCHANGED clientVars /\ UNCHANGED wire /\ UNCHANGED server
      BY <1>10 DEF clusterVars
    <2> QED
      BY <1>4, <2>1 DEF Removal
  <1> QED
    BY <1>1, <1>2, <1>3, <1>5, <1>6, <1>7, <1>8, <1>9, <1>10 DEF ClusterNext, ClusterStep, Arrive

-----------------------------------------------------------------------------
(* The messages a step leaves under way. *)
LEMMA SentIsMessage ==
    ASSUME NEW i \in Instance, NEW m \in Metadata,
           NEW operation \in {"register", "heartbeat", "deregister"}
    PROVE  Message(i, operation, m) \in Messages
  BY ClusterAssumption DEF Message, Messages

LEMMA AnswerIsMessage ==
    ASSUME NEW msg \in Messages,
           msg.op \in {"register", "heartbeat", "deregister"}, NEW new \in Answer(msg)
    PROVE  /\ new \in Messages
           /\ new.from = msg.from /\ new.meta = msg.meta /\ new.age = 0
           /\ new.live = msg.live /\ msg.live
           /\ new.op = "registered" <=> msg.op = "register"
           /\ new.op # "heartbeat"
  <1>1. /\ msg.live /\ msg.op # "heartbeat"
        /\ new = [msg EXCEPT !.age = 0,
                             !.op = IF @ = "register" THEN "registered" ELSE "deregistered"]
    BY DEF Answer
  <1>2. 0 \in 0 .. MaxDelay
    BY ClusterAssumption
  <1> QED
    BY <1>1, <1>2 DEF Messages

LEMMA DeliveredIsRequest ==
    ASSUME NEW msg \in wire, Deliver(msg)
    PROVE  msg.op \in {"register", "heartbeat", "deregister"}
  BY DEF Deliver

\* What is left of a message when the process of i ends.
LEMMA LeftBehind ==
    ASSUME NEW i \in Instance, NEW msg \in Messages,
           NEW left, left = [msg EXCEPT !.live = @ /\ msg.from # i]
    PROVE  /\ left \in Messages
           /\ left.op = msg.op /\ left.from = msg.from /\ left.meta = msg.meta
           /\ left.age = msg.age
           /\ left.live => msg.live /\ msg.from # i
           /\ msg.from # i => left = msg
  <1>1. msg.live \in BOOLEAN
    BY DEF Messages
  <1>2. (msg.live /\ msg.from # i) \in BOOLEAN
    OBVIOUS
  <1>3. /\ left \in Messages
        /\ left.op = msg.op /\ left.from = msg.from /\ left.meta = msg.meta
        /\ left.age = msg.age
    BY <1>2 DEF Messages
  <1>4. left.live = (msg.live /\ msg.from # i)
    BY DEF Messages
  <1>5. msg.from # i => left = msg
    BY <1>1 DEF Messages
  <1> QED
    BY <1>3, <1>4, <1>5

\* A message that is under way one unit later.
LEMMA OneUnitOlder ==
    ASSUME NEW msg \in Messages, msg.age < MaxDelay, NEW older, older = [msg EXCEPT !.age = @ + 1]
    PROVE  /\ older \in Messages
           /\ older.op = msg.op /\ older.from = msg.from /\ older.meta = msg.meta
           /\ older.live = msg.live
           /\ older.age = msg.age + 1
  BY ClusterAssumption DEF Messages

LEMMA ClusterTypeStep ==
    ASSUME ClusterTypeOK, ProcessInv, [ClusterNext]_clusterVars, RegistryTypeOK'
    PROVE  ClusterTypeOK'
  <1> USE RegistryAssumption, ClusterAssumption
  <1> DEFINE ClientTypeOK ==
               /\ process \in [Instance -> {"down", "registering", "serving", "stopping"}]
               /\ config \in [Instance -> Metadata \cup {NoMetadata}]
               /\ pace \in [Instance -> {Off, 0, HeartbeatInterval}]
               /\ sinceBeat \in [Instance -> Nat]
               /\ goneFor \in [Instance -> 0 .. GoneBound]
               /\ rested \in [Instance -> BOOLEAN]
               /\ refused \subseteq Instance
               /\ server \in {"up", "down"}
  <1>1. ClientTypeOK /\ wire \subseteq Messages
    BY DEF ClusterTypeOK
  <1>2. SUFFICES ClientTypeOK' /\ wire' \subseteq Messages
    BY DEF ClusterTypeOK, Messages
  <1>3. 0 \in 0 .. GoneBound
    <2>1. EvictionThreshold * (CleanupTTL + TimerLag) \in Nat
      BY NextMultiple
    <2> QED
      BY <2>1 DEF GoneBound
  <1>4. ASSUME NEW i \in Instance, NEW m \in Metadata, Start(i, m)
        PROVE  ClientTypeOK' /\ wire' \subseteq Messages
    BY <1>1, <1>3, <1>4, SentIsMessage DEF Start, Send
  <1>5. ASSUME NEW i \in Instance, Beat(i)
        PROVE  ClientTypeOK' /\ wire' \subseteq Messages
    <2>1. config[i] \in Metadata
      BY <1>1, <1>5 DEF Beat, Beating, ProcessInv
    <2> QED
      BY <1>1, <1>5, <2>1, SentIsMessage DEF Beat, Send
  <1>6. ASSUME NEW i \in Instance, Stop(i)
        PROVE  ClientTypeOK' /\ wire' \subseteq Messages
    <2>1. config[i] \in Metadata
      BY <1>1, <1>6 DEF Stop, ProcessInv
    <2> QED
      BY <1>1, <1>6, <2>1, SentIsMessage DEF Stop, Send
  <1>7. ASSUME NEW i \in Instance, Gone(i)
        PROVE  ClientTypeOK' /\ wire' \subseteq Messages
    <2>1. PICK rest \in SUBSET wire : End(i, rest)
      BY <1>7 DEF Gone
    <2>2. ClientTypeOK'
      BY <1>1, <1>3, <1>7, <2>1 DEF End, Gone
    <2>3. ASSUME NEW new \in wire'
          PROVE  new \in Messages
      <3>1. PICK msg \in rest : new = [msg EXCEPT !.live = @ /\ msg.from # i]
        BY <2>1 DEF End
      <3> QED
        BY <1>1, <3>1, LeftBehind
    <2> QED
      BY <2>2, <2>3
  <1>8. ASSUME NEW msg \in wire, Deliver(msg)
        PROVE  ClientTypeOK' /\ wire' \subseteq Messages
    <2>1. ClientTypeOK'
      BY <1>1, <1>8 DEF Deliver, clientVars
    <2>2. wire' = (wire \ {msg}) \cup Answer(msg)
      BY <1>8 DEF Deliver
    <2>3. Answer(msg) \subseteq Messages
      BY <1>1, <1>8, DeliveredIsRequest, AnswerIsMessage
    <2> QED
      BY <1>1, <2>1, <2>2, <2>3
  <1>9. ASSUME NEW msg \in wire, Registered(msg)
        PROVE  ClientTypeOK' /\ wire' \subseteq Messages
    <2>1. msg.from \in Instance
      BY <1>1 DEF Messages
    <2> QED
      BY <1>1, <1>9, <2>1 DEF Registered
  <1>10. CASE Removal
    BY <1>1, <1>10 DEF Removal, clientVars
  <1>11. CASE Pass
    <2>1. wire' \subseteq Messages
      <3>1. SUFFICES ASSUME NEW new \in wire'
                     PROVE  new \in Messages
        OBVIOUS
      <3>2. PICK msg \in wire : new = [msg EXCEPT !.age = @ + 1]
        BY <1>11 DEF Pass
      <3> QED
        BY <1>1, <1>11, <3>2, OneUnitOlder DEF Pass
    <2>2. GoneBound \in Nat
      BY NextMultiple DEF GoneBound
    <2>3. goneFor' \in [Instance -> 0 .. GoneBound]
      BY <1>1, <1>11, <2>2 DEF Pass
    <2>4. sinceBeat' \in [Instance -> Nat]
      BY <1>1, <1>11 DEF Pass
    <2> QED
      BY <1>1, <1>11, <2>1, <2>3, <2>4 DEF Pass
  <1> QED
    BY <1>4, <1>5, <1>6, <1>7, <1>8, <1>9, <1>10, <1>11, ClusterSteps

-----------------------------------------------------------------------------
(* The registry in the cluster does what it does alone, or starts afresh.  *)
LEMMA ClusterRegistrySteps ==
    ASSUME ClusterTypeOK, [ClusterNext]_clusterVars
    PROVE  [RegistryNext]_registryVars \/ RegistryInit'
  <1>1. ASSUME NEW msg \in wire, Deliver(msg)
        PROVE  [RegistryNext]_registryVars
    <2>1. msg.from \in Instance /\ msg.meta \in Metadata
      BY DEF ClusterTypeOK, Messages
    <2> QED
      BY <1>1, <2>1 DEF Deliver, RegistryNext
  <1>2. ASSUME NEW i \in Instance, AdminDeregister(i)
        PROVE  [RegistryNext]_registryVars
    BY <1>2 DEF AdminDeregister, RegistryNext
  <1>3. CASE ServerCrash
    BY <1>3 DEF ServerCrash, RegistryInit
  <1>4. CASE RunCleanup
    BY <1>4 DEF RunCleanup, RegistryNext
  <1>5. CASE Pass
    BY <1>5 DEF Pass, RegistryNext
  <1>6. CASE \/ \E i \in Instance, m \in Metadata : Start(i, m)
             \/ \E i \in Instance : Beat(i) \/ Stop(i) \/ Crash(i)
             \/ \E msg \in wire : Lose(msg) \/ Registered(msg) \/ Deregistered(msg)
             \/ ServerStart
             \/ UNCHANGED clusterVars
    BY <1>6
    DEF Start, Beat, Stop, Crash, Lose, Registered, Deregistered, ServerStart, clusterVars
  <1> QED
    BY <1>1, <1>2, <1>3, <1>4, <1>5, <1>6 DEF ClusterNext, ClusterStep, Arrive

LEMMA ClusterRegistryInvStep ==
    ASSUME ClusterTypeOK, RegistryInv, [ClusterNext]_clusterVars
    PROVE  RegistryInv'
  <1>1. (RegistryInit => RegistryInv)'
    BY RegistryInitInv, PTL
  <1> QED
    BY <1>1, ClusterRegistrySteps, RegistryInvStep

(* What the delivery of a message does to the records. *)
LEMMA DeliverRecords ==
    ASSUME ClusterTypeOK, NEW msg \in wire, Deliver(msg)
    PROVE  /\ UNCHANGED clientVars /\ server = "up" /\ server' = "up"
           /\ wire' = (wire \ {msg}) \cup Answer(msg)
           /\ \A j \in Instance :
                 j # msg.from =>
                     UNCHANGED <<status[j], silence[j], metadata[j]>>
           /\ \/ /\ ~Present(msg.from)'
              \/ /\ Present(msg.from)' /\ msg.from \notin refused
                 /\ silence'[msg.from] = 0
                 /\ metadata'[msg.from] =
                      IF msg.op = "heartbeat" /\ Present(msg.from)
                      THEN metadata[msg.from] ELSE msg.meta
              \/ /\ UNCHANGED <<status[msg.from], silence[msg.from], metadata[msg.from]>>
                 /\ msg.from \in refused
  <1> DEFINE i == msg.from
  <1>1. i \in Instance
    BY DEF ClusterTypeOK, Messages
  <1>2. /\ UNCHANGED clientVars /\ server = "up" /\ server' = "up"
        /\ wire' = (wire \ {msg}) \cup Answer(msg)
    BY DEF Deliver, Up
  <1> USE DEF ClusterTypeOK, RegistryTypeOK, Present, Verified
  <1>3. CASE msg.op = "register" /\ Verified(i) /\ Register(i, msg.meta)
    BY <1>1, <1>2, <1>3 DEF Register
  <1>4. CASE msg.op = "heartbeat" /\ Verified(i) /\ Heartbeat(i, msg.meta)
    BY <1>1, <1>2, <1>4 DEF Heartbeat, Register
  <1>5. CASE msg.op = "deregister" /\ Verified(i) /\ Deregister(i)
    BY <1>1, <1>2, <1>5 DEF Deregister, Delete
  <1>6. CASE ~Verified(i) /\ UNCHANGED registryVars
    BY <1>1, <1>2, <1>6 DEF registryVars
  <1> QED
    BY <1>3, <1>4, <1>5, <1>6 DEF Deliver

-----------------------------------------------------------------------------
LEMMA ProcessInvStep ==
    ASSUME ClusterTypeOK, ClusterTypeOK', ProcessInv, [ClusterNext]_clusterVars
    PROVE  ProcessInv'
  <1> DEFINE Good(j) ==
               /\ process[j] = "down" => pace[j] = Off
               /\ process[j] = "serving" => pace[j] # Off
               /\ process[j] # "down" => config[j] \in Metadata /\ goneFor[j] = 0
               /\ Present(j) => server = "up" /\ j \notin refused
             Held(msg) == msg.live => process[msg.from] # "down"
  <1>1. /\ wire \subseteq Messages
        /\ \A j \in Instance : Good(j)
        /\ \A msg \in wire : Held(msg) /\ msg.from \in Instance
    BY DEF ClusterTypeOK, Messages, ProcessInv
  <1>2. SUFFICES /\ \A j \in Instance : Good(j)'
                 /\ \A msg \in wire' : Held(msg)'
    BY DEF ProcessInv
  <1>3. ASSUME UNCHANGED <<status, server, refused>>, NEW j \in Instance
        PROVE  (Present(j) => server = "up" /\ j \notin refused)'
    BY <1>1, <1>3 DEF Present
  <1>4. ASSUME NEW i \in Instance, NEW m \in Metadata, Start(i, m)
        PROVE  (\A j \in Instance : Good(j)') /\ (\A msg \in wire' : Held(msg)')
    <2>1. \A j \in Instance : Good(j)'
      BY <1>1, <1>3, <1>4 DEF Start, ClusterTypeOK, registryVars
    <2>2. \A msg \in wire' : Held(msg)'
      BY <1>1, <1>4 DEF Start, Send, Message, ClusterTypeOK
    <2> QED
      BY <2>1, <2>2
  <1>5. ASSUME NEW i \in Instance, Beat(i)
        PROVE  (\A j \in Instance : Good(j)') /\ (\A msg \in wire' : Held(msg)')
    <2>1. \A j \in Instance : Good(j)'
      BY <1>1, <1>3, <1>5 DEF Beat, ClusterTypeOK, registryVars
    <2>2. \A msg \in wire' : Held(msg)'
      BY <1>1, <1>5 DEF Beat, Beating, Send, Message
    <2> QED
      BY <2>1, <2>2
  <1>6. ASSUME NEW i \in Instance, Stop(i)
        PROVE  (\A j \in Instance : Good(j)') /\ (\A msg \in wire' : Held(msg)')
    <2>1. \A j \in Instance : Good(j)'
      BY <1>1, <1>3, <1>6 DEF Stop, ClusterTypeOK, registryVars
    <2>2. \A msg \in wire' : Held(msg)'
      BY <1>1, <1>6 DEF Stop, Send, Message, ClusterTypeOK
    <2> QED
      BY <2>1, <2>2
  <1>7. ASSUME NEW i \in Instance, Gone(i)
        PROVE  (\A j \in Instance : Good(j)') /\ (\A msg \in wire' : Held(msg)')
    <2>1. PICK rest \in SUBSET wire : End(i, rest)
      BY <1>7 DEF Gone
    <2>2. \A j \in Instance : Good(j)'
      BY <1>1, <1>3, <1>7, <2>1 DEF End, Gone, ClusterTypeOK, registryVars
    <2>3. ASSUME NEW new \in wire'
          PROVE  Held(new)'
      <3>1. PICK msg \in rest : new = [msg EXCEPT !.live = @ /\ msg.from # i]
        BY <2>1 DEF End
      <3>2. msg \in wire /\ msg \in Messages
        BY <1>1
      <3>3. new.from = msg.from
        BY <3>1, <3>2, LeftBehind
      <3>4. new.live => msg.live
        BY <3>1, <3>2, LeftBehind
      <3>5. new.live => msg.from # i
        BY <3>1, <3>2, LeftBehind
      <3> QED
        BY <1>1, <2>1, <3>2, <3>3, <3>4, <3>5 DEF End, ClusterTypeOK
    <2> QED
      BY <2>2, <2>3
  <1>8. ASSUME NEW msg \in wire, Deliver(msg)
        PROVE  (\A j \in Instance : Good(j)') /\ (\A other \in wire' : Held(other)')
    <2>1. \A j \in Instance : Good(j)'
      BY <1>1, <1>8, DeliverRecords DEF clientVars, Present
    <2>2. ASSUME NEW other \in wire'
          PROVE  Held(other)'
      <3>1. CASE other \in wire
        BY <1>1, <1>8, <3>1, DeliverRecords DEF clientVars
      <3>2. CASE other \in Answer(msg)
        <4>1. other.from = msg.from /\ msg.live
          BY <1>1, <1>8, <3>2, DeliveredIsRequest, AnswerIsMessage
        <4> QED
          BY <1>1, <1>8, <4>1, DeliverRecords DEF clientVars
      <3> QED
        BY <1>8, <3>1, <3>2, DeliverRecords
    <2> QED
      BY <2>1, <2>2
  <1>9. ASSUME NEW msg \in wire, Registered(msg)
        PROVE  (\A j \in Instance : Good(j)') /\ (\A other \in wire' : Held(other)')
    <2>1. \A j \in Instance : Good(j)'
      <3>1. pace'[msg.from] # Off
        BY <1>1, <1>9, RegistryAssumption DEF Registered, ClusterTypeOK, Off
      <3>2. ASSUME NEW j \in Instance
            PROVE  (Present(j) => server = "up" /\ j \notin refused)'
        BY <1>3, <1>9 DEF Registered, registryVars
      <3> QED
        BY <1>1, <1>9, <3>1, <3>2 DEF Registered, ClusterTypeOK
    <2>2. \A other \in wire' : Held(other)'
      BY <1>1, <1>9 DEF Registered, ClusterTypeOK
    <2> QED
      BY <2>1, <2>2
  <1>10. CASE Removal
    BY <1>1, <1>10 DEF Removal, clientVars
  <1>11. CASE Pass
    <2>1. ASSUME NEW j \in Instance
          PROVE  Good(j)'
      <3>1. UNCHANGED <<process, config, pace, refused, server>> /\ UNCHANGED status
        BY <1>11 DEF Pass, Tick, registryVars
      <3>2. process[j] # "down" => goneFor'[j] = goneFor[j]
        BY <1>11 DEF Pass
      <3> QED
        BY <1>1, <1>3, <3>1, <3>2
    <2>2. ASSUME NEW new \in wire'
          PROVE  Held(new)'
      <3>1. PICK msg \in wire : new = [msg EXCEPT !.age = @ + 1]
        BY <1>11 DEF Pass
      <3>2. new.live = msg.live /\ new.from = msg.from
        BY <1>1, <1>11, <3>1, OneUnitOlder DEF Pass
      <3> QED
        BY <1>1, <1>11, <3>2 DEF Pass
    <2> QED
      BY <2>1, <2>2
  <1> QED
    BY <1>4, <1>5, <1>6, <1>7, <1>8, <1>9, <1>10, <1>11, ClusterSteps

-----------------------------------------------------------------------------
LEMMA GoneInvStep ==
    ASSUME ClusterTypeOK, ClusterTypeOK', ProcessInv, ProcessInv', GoneInv,
           [ClusterNext]_clusterVars
    PROVE  GoneInv'
  <1> USE ClusterAssumption
  <1> DEFINE Older(msg) == goneFor[msg.from] <= msg.age \/ process[msg.from] # "down"
             Quiet(j) == Present(j) => goneFor[j] <= MaxDelay + silence[j]
  <1>1. /\ wire \subseteq Messages
        /\ \A msg \in wire : /\ Older(msg) /\ msg.from \in Instance
                             /\ msg.age \in Nat /\ msg.age <= MaxDelay
        /\ \A j \in Instance : /\ Quiet(j)
                               /\ goneFor[j] \in Nat /\ silence[j] \in Nat
                               /\ goneFor'[j] \in Nat /\ silence'[j] \in Nat
    BY DEF ClusterTypeOK, RegistryTypeOK, Messages, GoneInv
  <1>2. SUFFICES /\ \A msg \in wire' : Older(msg)'
                 /\ \A j \in Instance : Quiet(j)'
    BY DEF GoneInv
  <1>3. ASSUME NEW j \in Instance, goneFor'[j] = 0
        PROVE  Quiet(j)'
    BY <1>1, <1>3
  <1>4. ASSUME NEW j \in Instance, goneFor'[j] = goneFor[j],
               Present(j)' => Present(j) /\ silence'[j] = silence[j]
        PROVE  Quiet(j)'
    BY <1>1, <1>4
  <1>5. ASSUME NEW i \in Instance, NEW m \in Metadata, Start(i, m)
        PROVE  (\A msg \in wire' : Older(msg)') /\ (\A j \in Instance : Quiet(j)')
    <2>1. \A msg \in wire' : Older(msg)'
      BY <1>1, <1>5 DEF Start, Send, Message, ClusterTypeOK
    <2>2. \A j \in Instance : Quiet(j)'
      BY <1>3, <1>4, <1>5 DEF Start, Present, registryVars, ClusterTypeOK
    <2> QED
      BY <2>1, <2>2
  <1>6. ASSUME NEW i \in Instance, Beat(i) \/ Stop(i)
        PROVE  (\A msg \in wire' : Older(msg)') /\ (\A j \in Instance : Quiet(j)')
    <2>1. process[i] # "down" /\ process'[i] # "down"
      BY <1>6 DEF Beat, Beating, Stop, ProcessInv, ClusterTypeOK
    <2>2. \A msg \in wire' : Older(msg)'
      BY <1>1, <1>6, <2>1 DEF Beat, Stop, Send, Message, ClusterTypeOK
    <2>3. \A j \in Instance : Quiet(j)'
      BY <1>4, <1>6 DEF Beat, Stop, Present, registryVars
    <2> QED
      BY <2>2, <2>3
  <1>7. ASSUME NEW i \in Instance, Gone(i)
        PROVE  (\A msg \in wire' : Older(msg)') /\ (\A j \in Instance : Quiet(j)')
    <2>1. PICK rest \in SUBSET wire : End(i, rest)
      BY <1>7 DEF Gone
    <2>2. ASSUME NEW new \in wire'
          PROVE  Older(new)'
      <3>1. PICK msg \in rest : new = [msg EXCEPT !.live = @ /\ msg.from # i]
        BY <2>1 DEF End
      <3>2. msg \in wire /\ msg \in Messages
        BY <1>1
      <3>3. new.from = msg.from /\ new.age = msg.age
        BY <3>1, <3>2, LeftBehind
      <3> QED
        BY <1>1, <2>1, <3>2, <3>3 DEF End, ClusterTypeOK
    <2>3. \A j \in Instance : Quiet(j)'
      BY <1>3, <1>4, <1>7, <2>1 DEF End, Gone, Present, registryVars, ClusterTypeOK
    <2> QED
      BY <2>2, <2>3
  <1>8. ASSUME NEW msg \in wire, Deliver(msg)
        PROVE  (\A other \in wire' : Older(other)') /\ (\A j \in Instance : Quiet(j)')
    <2>1. UNCHANGED <<process, goneFor>>
      BY <1>8, DeliverRecords DEF clientVars
    <2>2. ASSUME NEW other \in wire'
          PROVE  Older(other)'
      <3>1. CASE other \in wire
        BY <1>1, <2>1, <3>1
      <3>2. CASE other \in Answer(msg)
        <4>1. other.from = msg.from
          BY <1>1, <1>8, <3>2, DeliveredIsRequest, AnswerIsMessage
        <4>2. msg.live
          BY <1>1, <1>8, <3>2, DeliveredIsRequest, AnswerIsMessage
        <4> QED
          BY <2>1, <4>1, <4>2 DEF ProcessInv
      <3> QED
        BY <1>8, <3>1, <3>2, DeliverRecords
    <2>3. ASSUME NEW j \in Instance
          PROVE  Quiet(j)'
      <3>1. CASE j # msg.from
        BY <1>4, <1>8, <2>1, <3>1, DeliverRecords DEF Present
      <3>2. CASE j = msg.from
        <4>1. goneFor[j] <= MaxDelay
          BY <1>1, <3>2 DEF ProcessInv
        <4> QED
          BY <1>1, <1>8, <2>1, <3>2, <4>1, DeliverRecords DEF Present
      <3> QED
        BY <3>1, <3>2
    <2> QED
      BY <2>2, <2>3
  <1>9. ASSUME NEW msg \in wire, Registered(msg)
        PROVE  (\A other \in wire' : Older(other)') /\ (\A j \in Instance : Quiet(j)')
    <2>1. \A other \in wire' : Older(other)'
      BY <1>1, <1>9 DEF Registered, ClusterTypeOK
    <2>2. \A j \in Instance : Quiet(j)'
      BY <1>4, <1>9 DEF Registered, Present, registryVars
    <2> QED
      BY <2>1, <2>2
  <1>10. CASE Removal
    <2>1. UNCHANGED <<process, goneFor>> /\ wire' \subseteq wire
      BY <1>10 DEF Removal, clientVars
    <2>2. \A j \in Instance : Quiet(j)'
      BY <1>4, <1>10, <2>1 DEF Removal
    <2> QED
      BY <1>1, <2>1, <2>2
  <1>11. CASE Pass
    <2>1. ASSUME NEW j \in Instance
          PROVE  /\ process'[j] = process[j]
                 /\ goneFor'[j] <= goneFor[j] + 1
      BY <1>1, <1>11 DEF Pass
    <2>2. ASSUME NEW new \in wire'
          PROVE  Older(new)'
      <3>1. PICK msg \in wire : new = [msg EXCEPT !.age = @ + 1]
        BY <1>11 DEF Pass
      <3>2. new.age = msg.age + 1 /\ new.from = msg.from
        BY <1>1, <1>11, <3>1, OneUnitOlder DEF Pass
      <3> QED
        BY <1>1, <2>1, <3>2
    <2>3. ASSUME NEW j \in Instance, Present(j)'
          PROVE  Present(j) /\ silence'[j] = silence[j] + 1
      <3>1. CASE Up /\ Tick
        BY <2>3, <3>1 DEF Tick, Present
      <3>2. CASE ~Up /\ UNCHANGED registryVars
        BY <2>3, <3>2 DEF ProcessInv, Present, Up, registryVars
      <3> QED
        BY <1>11, <3>1, <3>2 DEF Pass
    <2>4. \A j \in Instance : Quiet(j)'
      BY <1>1, <2>1, <2>3
    <2> QED
      BY <2>2, <2>4
  <1> QED
    BY <1>5, <1>6, <1>7, <1>8, <1>9, <1>10, <1>11, ClusterSteps

-----------------------------------------------------------------------------
\* Nothing is under way from a process that has been gone for long enough.
LEMMA RestedStartsAlone ==
    ASSUME ClusterTypeOK, GoneInv, NEW i \in Instance, process[i] = "down",
           goneFor[i] > MaxDelay, NEW msg \in wire
    PROVE  msg.from # i
  <1>1. msg.age \in Nat /\ msg.age <= MaxDelay /\ MaxDelay \in Nat /\ goneFor[i] \in Nat
    BY ClusterAssumption DEF ClusterTypeOK, Messages
  <1>2. goneFor[msg.from] <= msg.age \/ process[msg.from] # "down"
    BY DEF GoneInv
  <1> QED
    BY <1>1, <1>2

LEMMA RestedInvStep ==
    ASSUME ClusterTypeOK, ClusterTypeOK', ProcessInv, GoneInv, RestedInv,
           [ClusterNext]_clusterVars
    PROVE  RestedInv'
  <1> DEFINE Told(msg) == rested[msg.from] => msg.meta = config[msg.from]
             Noted(msg) == rested[msg.from] /\ Awaited(msg) /\ Present(msg.from) =>
                               metadata[msg.from] = config[msg.from]
             Listed(j) == process[j] = "serving" /\ rested[j] /\ Present(j) =>
                               metadata[j] = config[j]
             Rest == /\ \A msg \in wire : Told(msg)
                     /\ \A msg \in wire : Noted(msg)
                     /\ \A j \in Instance : Listed(j)
  <1>1. wire \subseteq Messages /\ (\A msg \in wire : msg.from \in Instance) /\ Rest
    BY DEF ClusterTypeOK, Messages, RestedInv, ListingCurrent
  <1>2. SUFFICES Rest'
    BY DEF RestedInv, ListingCurrent
  <1>3. ASSUME UNCHANGED registryVars, NEW j \in Instance
        PROVE  metadata'[j] = metadata[j] /\ (Present(j)' <=> Present(j))
    BY <1>3 DEF registryVars, Present
  <1>4. ASSUME NEW i \in Instance, NEW m \in Metadata, Start(i, m)
        PROVE  Rest'
    <2>1. /\ wire' = wire \cup {Message(i, "register", m)}
          /\ config' = [config EXCEPT ![i] = m]
          /\ process' = [process EXCEPT ![i] = "registering"]
          /\ rested' = [rested EXCEPT ![i] = goneFor[i] > MaxDelay]
          /\ process[i] = "down"
          /\ UNCHANGED registryVars
      BY <1>4 DEF Start, Send
    <2>2. /\ \A j \in Instance : j # i => /\ config'[j] = config[j] /\ process'[j] = process[j]
                                          /\ rested'[j] = rested[j]
          /\ config'[i] = m /\ process'[i] = "registering"
          /\ rested'[i] <=> goneFor[i] > MaxDelay
      BY <2>1 DEF ClusterTypeOK
    <2>3. ASSUME NEW msg \in wire'
          PROVE  Told(msg)' /\ Noted(msg)'
      <3>1. CASE msg = Message(i, "register", m)
        BY <2>2, <3>1 DEF Message, Awaited
      <3>2. CASE msg \in wire /\ msg.from # i
        BY <1>1, <1>3, <2>1, <2>2, <3>2 DEF Awaited
      <3>3. CASE msg \in wire /\ msg.from = i
        <4>1. ~rested'[i]
          BY <2>1, <2>2, <3>3, RestedStartsAlone
        <4> QED
          BY <3>3, <4>1
      <3> QED
        BY <2>1, <3>1, <3>2, <3>3
    <2>4. \A j \in Instance : Listed(j)'
      BY <1>1, <1>3, <2>1, <2>2
    <2> QED
      BY <2>3, <2>4
  <1>5. ASSUME NEW i \in Instance, Beat(i) \/ Stop(i)
        PROVE  Rest'
    <2>1. /\ \E operation \in {"heartbeat", "deregister"} :
                wire' = wire \cup {Message(i, operation, config[i])}
          /\ UNCHANGED <<config, rested>> /\ UNCHANGED registryVars
          /\ \A j \in Instance : process'[j] = "serving" => process[j] = "serving"
      BY <1>5 DEF Beat, Stop, Send, ClusterTypeOK
    <2>2. ASSUME NEW msg \in wire'
          PROVE  Told(msg)' /\ Noted(msg)'
      <3>1. CASE msg \in wire
        BY <1>1, <1>3, <2>1, <3>1 DEF Awaited
      <3>2. CASE msg \notin wire
        <4>1. msg.from = i /\ msg.meta = config[i] /\ msg.op # "registered"
          BY <2>1, <3>2 DEF Message
        <4> QED
          BY <2>1, <4>1 DEF Awaited
      <3> QED
        BY <3>1, <3>2
    <2>3. \A j \in Instance : Listed(j)'
      BY <1>1, <1>3, <2>1
    <2> QED
      BY <2>2, <2>3
  <1>6. ASSUME NEW i \in Instance, Gone(i)
        PROVE  Rest'
    <2>1. PICK rest \in SUBSET wire : End(i, rest)
      BY <1>6 DEF Gone
    <2>2. /\ \A j \in Instance : j # i => /\ config'[j] = config[j] /\ process'[j] = process[j]
                                          /\ rested'[j] = rested[j]
          /\ ~rested'[i]
          /\ UNCHANGED registryVars
      BY <1>6, <2>1 DEF End, Gone, ClusterTypeOK
    <2>3. ASSUME NEW new \in wire'
          PROVE  Told(new)' /\ Noted(new)'
      <3>1. PICK msg \in rest : new = [msg EXCEPT !.live = @ /\ msg.from # i]
        BY <2>1 DEF End
      <3>2. msg \in wire /\ msg \in Messages
        BY <1>1
      <3>3. new.from = msg.from
        BY <3>1, <3>2, LeftBehind
      <3>4. msg.from # i => new = msg
        BY <3>1, <3>2, LeftBehind
      <3>5. CASE msg.from = i
        BY <2>2, <3>3, <3>5
      <3>6. CASE msg.from # i
        BY <1>1, <1>3, <2>2, <3>2, <3>4, <3>6 DEF Awaited
      <3> QED
        BY <3>5, <3>6
    <2>4. \A j \in Instance : Listed(j)'
      BY <1>1, <1>3, <2>2
    <2> QED
      BY <2>3, <2>4
  <1>7. ASSUME NEW msg \in wire, Deliver(msg)
        PROVE  Rest'
    <2>1. /\ UNCHANGED <<process, config, refused, rested>>
          /\ wire' = (wire \ {msg}) \cup Answer(msg)
      BY <1>7, DeliverRecords DEF clientVars
    <2>2. ASSUME NEW new \in wire'
          PROVE  /\ new \in wire \/ new \in Answer(msg)
                 /\ new \in Answer(msg) => /\ new.from = msg.from /\ new.meta = msg.meta
                                           /\ new.op = "registered" => msg.op = "register"
      BY <1>1, <1>7, <2>1, DeliveredIsRequest, AnswerIsMessage
    <2>3. \A other \in wire' : Told(other)'
      BY <1>1, <2>1, <2>2
    <2>4. ASSUME NEW j \in Instance, rested[j], Present(j)',
                 Present(j) => metadata[j] = config[j]
          PROVE  metadata'[j] = config[j]
      <3>1. CASE j # msg.from
        BY <1>7, <2>4, <3>1, DeliverRecords DEF Present
      <3>2. CASE j = msg.from
        BY <1>1, <1>7, <2>4, <3>2, DeliverRecords DEF Present
      <3> QED
        BY <3>1, <3>2
    <2>5. \A j \in Instance : Listed(j)'
      <3> SUFFICES ASSUME NEW j \in Instance, process[j] = "serving", rested[j], Present(j)'
                   PROVE  metadata'[j] = config[j]
        BY <2>1
      <3> QED
        BY <1>1, <2>4
    <2>6. ASSUME NEW new \in wire'
          PROVE  Noted(new)'
      <3> SUFFICES ASSUME rested[new.from], Awaited(new), Present(new.from)'
                   PROVE  metadata'[new.from] = config[new.from]
        BY <2>1 DEF Awaited
      <3>1. CASE new \in wire
        BY <1>1, <2>4, <3>1
      <3>2. CASE new \in Answer(msg)
        <4>1. new.from = msg.from /\ msg.op = "register" /\ msg.meta = config[msg.from]
          BY <1>1, <2>2, <3>2 DEF Awaited
        <4>2. msg.from \notin refused
          BY <1>1, <1>7, <4>1, DeliverRecords DEF ProcessInv, Present
        <4> QED
          BY <1>7, <4>1, <4>2, DeliverRecords DEF Present
      <3> QED
        BY <2>2, <3>1, <3>2
    <2> QED
      BY <2>3, <2>5, <2>6
  <1>8. ASSUME NEW msg \in wire, Registered(msg)
        PROVE  Rest'
    <2>1. /\ Awaited(msg)
          /\ wire' \subseteq wire /\ UNCHANGED <<config, rested>> /\ UNCHANGED registryVars
          /\ \A j \in Instance : j # msg.from => process'[j] = process[j]
      BY <1>1, <1>8 DEF Registered, Awaited, ClusterTypeOK
    <2>2. \A new \in wire' : Told(new)' /\ Noted(new)'
      BY <1>1, <1>3, <2>1 DEF Awaited
    <2>3. \A j \in Instance : Listed(j)'
      BY <1>1, <1>3, <2>1
    <2> QED
      BY <2>2, <2>3
  <1>9. CASE Removal
    <2>1. UNCHANGED <<process, config, rested>> /\ wire' \subseteq wire
      BY <1>9 DEF Removal, clientVars
    <2>2. \A j \in Instance : Present(j)' => Present(j) /\ metadata'[j] = metadata[j]
      BY <1>9 DEF Removal
    <2>3. \A new \in wire' : Told(new)' /\ Noted(new)'
      BY <1>1, <2>1, <2>2 DEF Awaited
    <2> QED
      BY <1>1, <2>1, <2>2, <2>3
  <1>10. CASE Pass
    <2>1. UNCHANGED <<process, config, rested, metadata, status>>
      BY <1>10 DEF Pass, Tick, registryVars
    <2>2. ASSUME NEW new \in wire'
          PROVE  Told(new)' /\ Noted(new)'
      <3>1. PICK msg \in wire : new = [msg EXCEPT !.age = @ + 1]
        BY <1>10 DEF Pass
      <3>2. new.op = msg.op /\ new.from = msg.from /\ new.meta = msg.meta
        BY <1>1, <1>10, <3>1, OneUnitOlder DEF Pass
      <3>3. new.live = msg.live
        BY <1>1, <1>10, <3>1, OneUnitOlder DEF Pass
      <3> QED
        BY <1>1, <2>1, <3>2, <3>3 DEF Awaited, Present
    <2> QED
      BY <1>1, <2>1, <2>2 DEF Present
  <1> QED
    BY <1>4, <1>5, <1>6, <1>7, <1>8, <1>9, <1>10, ClusterSteps

-----------------------------------------------------------------------------
LEMMA BeatGapNat ==
    /\ BeatPeriod \in Nat \ {0} /\ BeatGap \in Nat /\ MaxDelay \in Nat /\ TimerLag \in Nat
    /\ HeartbeatInterval <= BeatPeriod
  BY RegistryAssumption, ClusterAssumption DEF BeatPeriod, BeatGap

\* The silence that a heartbeat under way explains stays explained.
LEMMA StillComing ==
    ASSUME NEW i \in Instance, NEW msg \in wire, msg.from = i, msg.op = "heartbeat", msg.live,
           silence[i] <= MaxDelay + BeatGap + msg.age,
           msg \in wire', silence'[i] = silence[i]
    PROVE  Coming(i)'
  <1>1. silence'[i] <= MaxDelay + BeatGap + msg.age
    OBVIOUS
  <1> QED
    BY <1>1 DEF Coming

LEMMA HeardInvStep ==
    ASSUME ClusterTypeOK, ClusterTypeOK', ProcessInv, ProcessInv', HeardInv,
           [ClusterNext]_clusterVars
    PROVE  HeardInv'
  <1> USE BeatGapNat
  <1> DEFINE Paced(j) == Beating(j) /\ j \notin refused => pace[j] = HeartbeatInterval
             Timed(j) == Beating(j) => sinceBeat[j] <= Period(j) + TimerLag
             Heard(j) == Beating(j) /\ Present(j) =>
                             silence[j] <= MaxDelay + sinceBeat[j] \/ Coming(j)
             Fresh(msg) == Awaited(msg) /\ Present(msg.from) => silence[msg.from] <= msg.age
             Rest == /\ \A j \in Instance : Paced(j) /\ Timed(j)
                     /\ \A j \in Instance : Heard(j)
                     /\ \A msg \in wire : Fresh(msg)
  <1>1. Rest
    BY DEF HeardInv
  <1>2. /\ wire \subseteq Messages
        /\ \A msg \in wire : msg.from \in Instance /\ msg.age \in Nat /\ msg.age <= MaxDelay
        /\ \A j \in Instance : /\ silence[j] \in Nat /\ silence'[j] \in Nat
                               /\ sinceBeat[j] \in Nat /\ sinceBeat'[j] \in Nat
                               /\ pace[j] \in Int /\ Period(j) \in Nat
    BY RegistryAssumption
    DEF ClusterTypeOK, RegistryTypeOK, Messages, Period, Off
  <1>3. SUFFICES Rest'
    BY DEF HeardInv
  <1>4. ASSUME UNCHANGED registryVars, NEW j \in Instance
        PROVE  silence'[j] = silence[j] /\ (Present(j)' <=> Present(j))
    BY <1>4 DEF registryVars, Present
  \* A process whose timer did not change, and whose heartbeats are under way.
  <1>5. ASSUME NEW j \in Instance, UNCHANGED <<pace[j], sinceBeat[j]>>, Beating(j), Present(j)',
               Present(j), silence'[j] = silence[j],
               \A msg \in wire : msg.from = j /\ msg.live => msg \in wire'
        PROVE  silence'[j] <= MaxDelay + sinceBeat'[j] \/ Coming(j)'
    <2>1. CASE silence[j] <= MaxDelay + sinceBeat[j]
      BY <1>5, <2>1
    <2>2. CASE Coming(j)
      <3>1. PICK msg \in wire : /\ msg.from = j /\ msg.op = "heartbeat" /\ msg.live
                                /\ silence[j] <= MaxDelay + BeatGap + msg.age
        BY <2>2 DEF Coming
      <3> QED
        BY <1>5, <3>1, StillComing
    <2> QED
      BY <1>1, <1>5, <2>1, <2>2
  <1>6. ASSUME NEW i \in Instance, NEW m \in Metadata, Start(i, m)
        PROVE  Rest'
    <2>1. /\ UNCHANGED <<pace, sinceBeat, refused>> /\ UNCHANGED registryVars
          /\ wire' = wire \cup {Message(i, "register", m)}
      BY <1>6 DEF Start, Send
    <2>2. \A j \in Instance : Paced(j)' /\ Timed(j)'
      BY <1>1, <2>1 DEF Beating, Period
    <2>3. \A j \in Instance : Heard(j)'
      BY <1>4, <1>5, <2>1 DEF Beating
    <2>4. ASSUME NEW msg \in wire'
          PROVE  Fresh(msg)'
      <3>1. CASE msg \in wire
        BY <1>1, <1>2, <1>4, <2>1, <3>1 DEF Awaited
      <3>2. CASE msg \notin wire
        BY <2>1, <3>2 DEF Message, Awaited
      <3> QED
        BY <3>1, <3>2
    <2> QED
      BY <2>2, <2>3, <2>4
  <1>7. ASSUME NEW i \in Instance, Beat(i)
        PROVE  Rest'
    <2>1. /\ UNCHANGED <<pace, refused>> /\ UNCHANGED registryVars
          /\ wire' = wire \cup {Message(i, "heartbeat", config[i])}
          /\ Beating(i)
          /\ sinceBeat'[i] = 0
          /\ \A j \in Instance : j # i => sinceBeat'[j] = sinceBeat[j]
      BY <1>7 DEF Beat, Send, ClusterTypeOK
    <2>2. \A j \in Instance : Paced(j)' /\ Timed(j)'
      BY <1>1, <1>2, <2>1 DEF Beating, Period
    <2>3. ASSUME NEW j \in Instance, Beating(j)', Present(j)'
          PROVE  silence'[j] <= MaxDelay + sinceBeat'[j] \/ Coming(j)'
      <3>1. CASE j # i
        BY <1>4, <1>5, <2>1, <2>3, <3>1 DEF Beating
      <3>2. CASE j = i /\ silence[i] <= MaxDelay + sinceBeat[i]
        <4> DEFINE sent == Message(i, "heartbeat", config[i])
        <4>1. sent \in wire' /\ sent.from = i /\ sent.op = "heartbeat" /\ sent.age = 0
          BY <2>1 DEF Message
        <4>2. sent.live
          BY DEF Message
        <4>3. pace[i] = HeartbeatInterval
          BY <1>1, <1>4, <2>1, <2>3, <3>2 DEF ProcessInv
        <4>4. Period(i) = BeatPeriod
          BY <4>3 DEF Period, BeatPeriod
        <4>5. silence[i] <= MaxDelay + BeatGap
          BY <1>1, <1>2, <2>1, <3>2, <4>4 DEF BeatGap
        <4>6. silence'[i] <= MaxDelay + BeatGap + sent.age
          BY <1>2, <1>4, <2>1, <4>1, <4>5
        <4> HIDE DEF sent
        <4> QED
          BY <3>2, <4>1, <4>2, <4>6 DEF Coming
      <3>3. CASE j = i /\ Coming(i)
        <4>1. PICK msg \in wire : /\ msg.from = i /\ msg.op = "heartbeat" /\ msg.live
                                  /\ silence[i] <= MaxDelay + BeatGap + msg.age
          BY <3>3 DEF Coming
        <4> QED
          BY <1>4, <2>1, <3>3, <4>1, StillComing
      <3> QED
        BY <1>1, <1>4, <2>1, <2>3, <3>1, <3>2, <3>3 DEF Beating
    <2>4. ASSUME NEW msg \in wire'
          PROVE  Fresh(msg)'
      <3>1. CASE msg \in wire
        BY <1>1, <1>2, <1>4, <2>1, <3>1 DEF Awaited
      <3>2. CASE msg \notin wire
        BY <2>1, <3>2 DEF Message, Awaited
      <3> QED
        BY <3>1, <3>2
    <2> QED
      BY <2>2, <2>3, <2>4
  <1>8. ASSUME NEW i \in Instance, Stop(i)
        PROVE  Rest'
    <2>1. /\ UNCHANGED refused /\ UNCHANGED registryVars
          /\ wire' = wire \cup {Message(i, "deregister", config[i])}
          /\ ~Beating(i)'
          /\ \A j \in Instance : j # i => UNCHANGED <<pace[j], sinceBeat[j]>>
      BY <1>8 DEF Stop, Send, Beating, ClusterTypeOK
    <2>2. \A j \in Instance : Paced(j)' /\ Timed(j)'
      BY <1>1, <2>1 DEF Beating, Period
    <2>3. \A j \in Instance : Heard(j)'
      BY <1>4, <1>5, <2>1 DEF Beating
    <2>4. ASSUME NEW msg \in wire'
          PROVE  Fresh(msg)'
      <3>1. CASE msg \in wire
        BY <1>1, <1>2, <1>4, <2>1, <3>1 DEF Awaited
      <3>2. CASE msg \notin wire
        BY <2>1, <3>2 DEF Message, Awaited
      <3> QED
        BY <3>1, <3>2
    <2> QED
      BY <2>2, <2>3, <2>4
  <1>9. ASSUME NEW i \in Instance, Gone(i)
        PROVE  Rest'
    <2>1. PICK rest \in SUBSET wire : /\ \A msg \in wire : msg.from # i => msg \in rest
                                      /\ End(i, rest)
      BY <1>9 DEF Gone
    <2>2. /\ UNCHANGED refused /\ UNCHANGED registryVars
          /\ ~Beating(i)'
          /\ \A j \in Instance : j # i => UNCHANGED <<pace[j], sinceBeat[j]>>
      BY <1>9, <2>1 DEF End, Gone, Beating, ClusterTypeOK
    <2>3. \A j \in Instance : Paced(j)' /\ Timed(j)'
      BY <1>1, <2>2 DEF Beating, Period
    <2>4. ASSUME NEW msg \in wire, msg.from # i
          PROVE  msg \in wire'
      <3>1. msg \in rest /\ msg \in Messages
        BY <1>2, <2>1, <2>4
      <3> DEFINE left == [msg EXCEPT !.live = @ /\ msg.from # i]
      <3>2. left \in wire'
        BY <2>1, <3>1 DEF End
      <3>3. left = [msg EXCEPT !.live = @ /\ msg.from # i]
        OBVIOUS
      <3> HIDE DEF left
      <3>4. left = msg
        BY <2>4, <3>1, <3>3, LeftBehind
      <3> QED
        BY <3>2, <3>4
    <2>5. \A j \in Instance : Heard(j)'
      BY <1>4, <1>5, <2>2, <2>4 DEF Beating
    <2>6. ASSUME NEW new \in wire'
          PROVE  Fresh(new)'
      <3>1. PICK msg \in rest : new = [msg EXCEPT !.live = @ /\ msg.from # i]
        BY <2>1 DEF End
      <3>2. msg \in wire /\ msg \in Messages
        BY <1>2
      <3>3. new.live => msg.from # i
        BY <3>1, <3>2, LeftBehind
      <3>4. msg.from # i => new = msg
        BY <3>1, <3>2, LeftBehind
      <3>5. CASE new.live
        BY <1>1, <1>2, <1>4, <2>2, <3>2, <3>3, <3>4, <3>5
      <3>6. CASE ~new.live
        BY <3>6 DEF Awaited
      <3> QED
        BY <3>5, <3>6
    <2> QED
      BY <2>3, <2>5, <2>6
  <1>10. ASSUME NEW msg \in wire, Deliver(msg)
         PROVE  Rest'
    <2>1. /\ UNCHANGED <<pace, sinceBeat, refused>>
          /\ wire' = (wire \ {msg}) \cup Answer(msg)
      BY <1>10, DeliverRecords DEF clientVars
    <2>2. \A j \in Instance : Paced(j)' /\ Timed(j)'
      BY <1>1, <2>1 DEF Beating, Period
    <2>3. msg.from \in Instance /\ (Present(msg.from) => msg.from \notin refused)
      BY <1>2 DEF ProcessInv
    <2>4. Present(msg.from)' => silence'[msg.from] = 0
      BY <1>10, <2>3, DeliverRecords DEF Present
    <2>5. ASSUME NEW j \in Instance, Beating(j)', Present(j)'
          PROVE  silence'[j] <= MaxDelay + sinceBeat'[j] \/ Coming(j)'
      <3>1. CASE j = msg.from
        BY <1>2, <2>4, <2>5, <3>1
      <3>2. CASE j # msg.from
        <4>1. /\ Present(j) /\ Beating(j) /\ silence'[j] = silence[j]
              /\ UNCHANGED <<pace[j], sinceBeat[j]>>
              /\ \A other \in wire : other.from = j /\ other.live => other \in wire'
          BY <1>10, <2>1, <2>5, <3>2, DeliverRecords DEF Present, Beating
        <4> QED
          BY <1>5, <2>5, <4>1
      <3> QED
        BY <3>1, <3>2
    <2>6. ASSUME NEW new \in wire', Awaited(new), Present(new.from)'
          PROVE  silence'[new.from] <= new.age
      <3>1. CASE new \in wire /\ new.from # msg.from
        BY <1>1, <1>2, <1>10, <2>6, <3>1, DeliverRecords DEF Present
      <3>2. CASE new \in wire /\ new.from = msg.from
        BY <1>2, <2>4, <2>6, <3>2
      <3>3. CASE new \in Answer(msg)
        <4>1. new.from = msg.from /\ new.age = 0
          BY <1>2, <1>10, <3>3, DeliveredIsRequest, AnswerIsMessage
        <4> QED
          BY <2>4, <2>6, <4>1
      <3> QED
        BY <2>1, <3>1, <3>2, <3>3
    <2>7. \A new \in wire' : Fresh(new)'
      BY <2>6 DEF Awaited
    <2> QED
      BY <2>2, <2>5, <2>7
  <1>11. ASSUME NEW msg \in wire, Registered(msg)
         PROVE  Rest'
    <2> DEFINE i == msg.from
    <2>1. /\ Awaited(msg) /\ i \in Instance
          /\ UNCHANGED refused /\ UNCHANGED registryVars
          /\ wire' = wire \ {msg}
          /\ sinceBeat'[i] = 0
          /\ pace'[i] = IF i \in refused THEN 0 ELSE HeartbeatInterval
          /\ \A j \in Instance : j # i => UNCHANGED <<pace[j], sinceBeat[j]>>
      BY <1>2, <1>11 DEF Registered, Awaited, ClusterTypeOK
    <2>2. ASSUME NEW j \in Instance
          PROVE  Paced(j)' /\ Timed(j)'
      <3>1. CASE j # i
        BY <1>1, <2>1, <3>1 DEF Beating, Period
      <3>2. CASE j = i
        BY <2>1, <3>2, RegistryAssumption DEF Period
      <3> QED
        BY <3>1, <3>2
    <2>3. ASSUME NEW j \in Instance, Beating(j)', Present(j)'
          PROVE  silence'[j] <= MaxDelay + sinceBeat'[j] \/ Coming(j)'
      <3>1. CASE j # i
        BY <1>4, <1>5, <2>1, <2>3, <3>1 DEF Beating
      <3>2. CASE j = i
        BY <1>1, <1>2, <1>4, <2>1, <2>3, <3>2
      <3> QED
        BY <3>1, <3>2
    <2>4. \A new \in wire' : Fresh(new)'
      BY <1>1, <1>2, <1>4, <2>1 DEF Awaited
    <2> QED
      BY <2>2, <2>3, <2>4
  <1>12. CASE Removal
    <2>1. UNCHANGED <<pace, sinceBeat, refused>> /\ wire' \subseteq wire
      BY <1>12 DEF Removal, clientVars
    <2>2. \A msg \in wire : msg.live => msg \in wire'
      BY <1>12 DEF Removal
    <2>3. \A j \in Instance : Present(j)' => Present(j) /\ silence'[j] = silence[j]
      BY <1>12 DEF Removal
    <2>4. \A j \in Instance : Paced(j)' /\ Timed(j)'
      BY <1>1, <2>1 DEF Beating, Period
    <2>5. \A j \in Instance : Heard(j)'
      BY <1>5, <2>1, <2>2, <2>3 DEF Beating
    <2>6. \A new \in wire' : Fresh(new)'
      BY <1>1, <1>2, <2>1, <2>3 DEF Awaited
    <2> QED
      BY <2>4, <2>5, <2>6
  <1>13. CASE Pass
    <2>1. /\ UNCHANGED <<pace, refused>>
          /\ \A j \in Instance : Beating(j) => /\ sinceBeat[j] < Period(j) + TimerLag
                                               /\ sinceBeat'[j] = sinceBeat[j] + 1
          /\ wire' = {[msg EXCEPT !.age = @ + 1] : msg \in wire}
          /\ \A msg \in wire : msg.age < MaxDelay
      BY <1>13 DEF Pass
    <2>2. ASSUME NEW msg \in wire
          PROVE  [msg EXCEPT !.age = @ + 1] \in wire'
      BY <2>1
    <2>3. \A j \in Instance : Paced(j)' /\ Timed(j)'
      BY <1>1, <1>2, <2>1 DEF Beating, Period
    <2>4. ASSUME NEW j \in Instance, Present(j)'
          PROVE  Present(j) /\ silence'[j] = silence[j] + 1
      <3>1. CASE Up /\ Tick
        BY <2>4, <3>1 DEF Tick, Present
      <3>2. CASE ~Up /\ UNCHANGED registryVars
        BY <2>4, <3>2 DEF ProcessInv, Present, Up, registryVars
      <3> QED
        BY <1>13, <3>1, <3>2 DEF Pass
    <2>5. ASSUME NEW j \in Instance, Beating(j)', Present(j)'
          PROVE  silence'[j] <= MaxDelay + sinceBeat'[j] \/ Coming(j)'
      <3>1. Beating(j) /\ Present(j) /\ silence'[j] = silence[j] + 1
        BY <2>1, <2>4, <2>5 DEF Beating
      <3>2. CASE silence[j] <= MaxDelay + sinceBeat[j]
        BY <1>2, <2>1, <3>1, <3>2
      <3>3. CASE Coming(j)
        <4>1. PICK msg \in wire : /\ msg.from = j /\ msg.op = "heartbeat" /\ msg.live
                                  /\ silence[j] <= MaxDelay + BeatGap + msg.age
          BY <3>3 DEF Coming
        <4> DEFINE new == [msg EXCEPT !.age = @ + 1]
        <4>2. new.from = j /\ new.op = "heartbeat" /\ new.age = msg.age + 1
          BY <1>2, <2>1, <4>1, OneUnitOlder
        <4>3. new.live = msg.live
          BY <1>2, <2>1, <4>1, OneUnitOlder
        <4>4. new \in wire'
          BY <2>2
        <4> HIDE DEF new
        <4>5. silence'[j] <= MaxDelay + BeatGap + new.age
          BY <1>2, <3>1, <4>1, <4>2
        <4>6. new.live
          BY <4>1, <4>3
        <4> QED
          BY <4>2, <4>4, <4>5, <4>6 DEF Coming
      <3> QED
        BY <1>1, <3>1, <3>2, <3>3
    <2>6. ASSUME NEW new \in wire', Awaited(new), Present(new.from)'
          PROVE  silence'[new.from] <= new.age
      <3>1. PICK msg \in wire : new = [msg EXCEPT !.age = @ + 1]
        BY <2>1
      <3>2. new.op = msg.op /\ new.from = msg.from /\ new.age = msg.age + 1
        BY <1>2, <2>1, <3>1, OneUnitOlder
      <3>3. new.live = msg.live
        BY <1>2, <2>1, <3>1, OneUnitOlder
      <3>4. Awaited(msg)
        BY <2>6, <3>2, <3>3 DEF Awaited
      <3> QED
        BY <1>1, <1>2, <2>4, <2>6, <3>2, <3>4
    <2>7. \A new \in wire' : Fresh(new)'
      BY <2>6 DEF Awaited
    <2> QED
      BY <2>3, <2>5, <2>7
  <1> QED
    BY <1>6, <1>7, <1>8, <1>9, <1>10, <1>11, <1>12, <1>13, ClusterSteps

-----------------------------------------------------------------------------
LEMMA ClusterInvInit == ClusterInit => ClusterInv
  <1> SUFFICES ASSUME ClusterInit
               PROVE  ClusterInv
    OBVIOUS
  <1> USE DEF ClusterInit
  <1>1. RegistryInv
    BY RegistryInitInv
  <1>2. GoneBound \in Nat
    BY RegistryAssumption, ClusterAssumption, NextMultiple DEF GoneBound
  <1>3. ClusterTypeOK
    BY <1>1, <1>2 DEF RegistryInv, ClusterTypeOK
  <1>4. \A i \in Instance : ~Present(i) /\ ~Beating(i) /\ process[i] = "down"
    BY DEF RegistryInit, Present, Beating
  <1>5. ProcessInv /\ GoneInv /\ RestedInv /\ HeardInv
    BY <1>4 DEF ProcessInv, GoneInv, RestedInv, ListingCurrent, HeardInv, Beating
  <1> QED
    BY <1>1, <1>3, <1>5 DEF ClusterInv

LEMMA ClusterInvStep == ClusterInv /\ [ClusterNext]_clusterVars => ClusterInv'
  <1> SUFFICES ASSUME ClusterInv, [ClusterNext]_clusterVars
               PROVE  ClusterInv'
    OBVIOUS
  <1> USE DEF ClusterInv
  <1>1. RegistryInv'
    BY ClusterRegistryInvStep
  <1>2. ClusterTypeOK'
    BY <1>1, ClusterTypeStep DEF RegistryInv
  <1>3. ProcessInv'
    BY <1>2, ProcessInvStep
  <1>4. GoneInv'
    BY <1>2, <1>3, GoneInvStep
  <1>5. RestedInv'
    BY <1>2, RestedInvStep
  <1>6. HeardInv'
    BY <1>2, <1>3, HeardInvStep
  <1> QED
    BY <1>1, <1>2, <1>3, <1>4, <1>5, <1>6

LEMMA ClusterInvHolds == ClusterSpec => []ClusterInv
  BY ClusterInvInit, ClusterInvStep, PTL DEF ClusterSpec

(* Type correctness of the cluster: in particular every request under way  *)
(* carries metadata of a registration, whichever process sent it and       *)
(* whether that process still runs.                                        *)
THEOREM ClusterTypeCorrect == ClusterSpec => []ClusterTypeOK
  <1>1. ClusterInv => ClusterTypeOK
    BY DEF ClusterInv
  <1> QED
    BY <1>1, ClusterInvHolds, PTL

(* What the registry guarantees alone it guarantees with the clients, the  *)
(* network and crashes of its own process: the two liveness marks of a     *)
(* record agree, its strikes are earned, its staleness is bounded, and the *)
(* listing shows exactly the names of the stored records.                  *)
THEOREM ClusterRecordsSound ==
    ClusterSpec => [](MarksAgree /\ StrikesEarned /\ StaleBounded /\ ListingExact)
  <1>1. ClusterInv => MarksAgree /\ StrikesEarned /\ StaleBounded
    BY StaleByInv DEF ClusterInv, RegistryInv
  <1>2. ClusterInit => ListingExact
    BY ListingExactInit DEF ClusterInit
  <1>3. ClusterInv /\ ListingExact /\ [ClusterNext]_clusterVars => ListingExact'
    <2> SUFFICES ASSUME ClusterInv, ListingExact, [ClusterNext]_clusterVars
                 PROVE  ListingExact'
      OBVIOUS
    <2>1. (RegistryInit => ListingExact)'
      BY ListingExactInit, PTL
    <2>2. ClusterTypeOK /\ RegistryTypeOK
      BY DEF ClusterInv, ClusterTypeOK
    <2> QED
      BY <2>1, <2>2, ClusterRegistrySteps, ListingExactStep
  <1> QED
    BY <1>1, <1>2, <1>3, ClusterInvHolds, PTL DEF ClusterSpec

LEMMA ClusterStepDirectory == ClusterInv /\ [ClusterNext]_clusterVars => [Directory!Next]_Count
  <1> SUFFICES ASSUME ClusterInv, [ClusterNext]_clusterVars
               PROVE  Directory!Next \/ UNCHANGED Count
    OBVIOUS
  <1>1. ClusterTypeOK /\ RegistryInv
    BY DEF ClusterInv
  <1>2. CASE [RegistryNext]_registryVars
    BY <1>1, <1>2, RegistryStepDirectory
  <1>3. CASE RegistryInit'
    <2>1. \A i \in Instance : Count'[i] = Directory!Unlisted
      BY <1>3 DEF RegistryInit, Present, Count, Directory!Unlisted
    <2>2. Count' = [i \in Instance |-> Directory!Unlisted]
      BY <2>1 DEF Count
    <2> QED
      BY <2>2 DEF Count, Directory!Next, Directory!Forget
  <1> QED
    BY <1>1, <1>2, <1>3, ClusterRegistrySteps

(* To whoever reads the listing the whole deployment is the directory that *)
(* the registry alone implements: requests that overtake each other, are   *)
(* lost or outlive their process, and clients that crash, add no step to   *)
(* it, and a crash of the server is the one that forgets everything.       *)
THEOREM ClusterImplementsDirectory == ClusterSpec => ImplementsDirectory
  <1>1. ClusterInit => Directory!Init
    BY RegistryInitDirectory DEF ClusterInit
  <1> QED
    BY <1>1, ClusterStepDirectory, ClusterInvHolds, PTL
    DEF ClusterSpec, ImplementsDirectory, Directory!Spec, Count

(* A process that ended leaves the listing within GoneBound, although      *)
(* requests it left behind may register it again after its deregister:     *)
(* the last of them arrives within MaxDelay, and the silence after it is   *)
(* bounded by the cleanup.                                                 *)
THEOREM ClusterGhostBounded == ClusterSpec => []GhostBounded
  <1>1. ClusterInv => GhostBounded
    <2> SUFFICES ASSUME ClusterInv, NEW i \in Instance, Present(i)
                 PROVE  goneFor[i] < GoneBound
      BY DEF GhostBounded
    <2> USE RegistryAssumption, ClusterAssumption
    <2>1. silence[i] <= HeartbeatInterval + EvictionThreshold * (CleanupTTL + TimerLag)
      BY StaleByInv DEF ClusterInv, StaleBounded
    <2>2. goneFor[i] <= MaxDelay + silence[i]
      BY DEF ClusterInv, GoneInv
    <2>3. goneFor[i] \in Int /\ silence[i] \in Nat
      BY DEF ClusterInv, ClusterTypeOK, RegistryTypeOK
    <2>4. EvictionThreshold * (CleanupTTL + TimerLag) \in Nat
      BY NextMultiple
    <2> DEFINE grace == EvictionThreshold * (CleanupTTL + TimerLag)
    <2> HIDE DEF grace
    <2>5. GoneBound = MaxDelay + HeartbeatInterval + grace + 1
      BY DEF GoneBound, grace
    <2> QED
      BY <2>1, <2>2, <2>3, <2>4, <2>5 DEF grace
  <1> QED
    BY <1>1, ClusterInvHolds, PTL

(* The listing describes the process that runs: although a heartbeat does  *)
(* not repair metadata and requests overtake each other, no request of an  *)
(* earlier process is left when a rested one starts, and each of its own   *)
(* carries its own metadata.                                               *)
THEOREM ClusterListingCurrent == ClusterSpec => []ListingCurrent
  <1>1. ClusterInv => ListingCurrent
    BY DEF ClusterInv, RestedInv
  <1> QED
    BY <1>1, ClusterInvHolds, PTL

\* The longest silence of a serving process: its last heartbeat but one
\* arrived, and the last is still under way.
LEMMA ServingHeard ==
    ASSUME ClusterInv, NEW i \in Instance, process[i] = "serving", Present(i)
    PROVE  silence[i] <= BeatPeriod + 2 * MaxDelay + TimerLag
  <1> USE BeatGapNat
  <1>1. Beating(i) /\ i \notin refused
    BY DEF ClusterInv, ProcessInv, Beating
  <1>2. pace[i] = HeartbeatInterval /\ sinceBeat[i] <= Period(i) + TimerLag
    BY <1>1 DEF ClusterInv, HeardInv
  <1>3. Period(i) = BeatPeriod
    BY <1>2 DEF Period, BeatPeriod
  <1>4. sinceBeat[i] \in Nat /\ silence[i] \in Nat
    BY DEF ClusterInv, ClusterTypeOK, RegistryTypeOK
  <1>5. CASE silence[i] <= MaxDelay + sinceBeat[i]
    BY <1>2, <1>3, <1>4, <1>5
  <1>6. CASE Coming(i)
    <2>1. PICK msg \in wire : silence[i] <= MaxDelay + BeatGap + msg.age
      BY <1>6 DEF Coming
    <2>2. msg.age \in Nat /\ msg.age <= MaxDelay
      BY DEF ClusterInv, ClusterTypeOK, Messages
    <2> QED
      BY <1>4, <2>1, <2>2 DEF BeatGap
  <1> QED
    BY <1>1, <1>5, <1>6 DEF ClusterInv, HeardInv

(* A serving process is never evicted while its heartbeats, late by the    *)
(* timer and delayed by the network, are within the grace period.          *)
THEOREM ClusterNoLiveEviction == ClusterSpec => NoLiveEviction
  <1>1. ASSUME ClusterInv,
               BeatPeriod + 2 * MaxDelay + TimerLag
                 <= HeartbeatInterval + (EvictionThreshold - 1) * CleanupTTL,
               NEW i \in Instance, RunCleanup, Present(i), ~Present(i)'
        PROVE  process[i] # "serving"
    <2> USE RegistryAssumption, ClusterAssumption
    <2>1. silence[i] > HeartbeatInterval + (EvictionThreshold - 1) * CleanupTTL
      BY <1>1, CleanupEvictsSilent DEF ClusterInv, RunCleanup
    <2>2. silence[i] \in Nat /\ BeatPeriod \in Nat
      BY <1>1, BeatGapNat DEF ClusterInv, ClusterTypeOK, RegistryTypeOK
    <2>3. (EvictionThreshold - 1) * CleanupTTL \in Nat
      BY PreviousMultiple
    <2>4. ~(silence[i] <= BeatPeriod + 2 * MaxDelay + TimerLag)
      BY <1>1, <2>1, <2>2, <2>3
    <2> QED
      BY <1>1, <2>4, ServingHeard
  <1>2. ClusterInv =>
          [BeatPeriod + 2 * MaxDelay + TimerLag
              <= HeartbeatInterval + (EvictionThreshold - 1) * CleanupTTL =>
              \A i \in Instance :
                  RunCleanup /\ Present(i) /\ ~Present(i)' => process[i] # "serving"]_clusterVars
    BY <1>1
  <1> QED
    BY <1>2, ClusterInvHolds, PTL DEF ClusterSpec, NoLiveEviction

=============================================================================
