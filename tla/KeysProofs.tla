------------------------------ MODULE KeysProofs ------------------------------
(***************************************************************************)
(* Proofs about Keys for any set of servers and any number of pairs.       *)
(*                                                                         *)
(* HalvesMatch says nothing of a generation under way, which is when the   *)
(* files are in danger.  KeysInv adds what the generating server relies    *)
(* on: that it is alone, that at least one file is missing until it has    *)
(* opened both, and that the private key is its own when it writes the     *)
(* public one.                                                             *)
(***************************************************************************)
EXTENDS Keys, TLAPS

NobodyGenerates == \A p \in Server : ~Generating(p)

Alone == ~torn => \A p, q \in Server : Generating(p) /\ Generating(q) => p = q

Quiet == settled => NobodyGenerates /\ private # Absent /\ public # Absent

\* From here on a server takes it for granted that there is a private key.
PrivateSeen ==
    \A p \in Server :
        pc[p] \in {"check public", "write private", "open public", "write public"} => private # Absent

OwnHalves ==
    ~torn => \A p \in Server :
        /\ pc[p] = "generate" => private = Absent \/ public = Absent
        /\ pc[p] \in {"open public", "write public"} => private = mine[p]

WholeWhenQuiet ==
    ~torn /\ NobodyGenerates /\ private # Absent /\ public # Absent =>
        private = public /\ private \in Pairs

KeysInv == KeysTypeOK /\ Alone /\ Quiet /\ PrivateSeen /\ OwnHalves /\ WholeWhenQuiet

\* A fresh signature is of the key that is there, and has not been refused.
FreshKey == fresh => Stable /\ signed = private /\ verdict # "refused"

-----------------------------------------------------------------------------
LEMMA Distinct == Absent \notin Pairs /\ Empty \notin Pairs /\ Absent # Empty
  BY KeysAssumption DEF Absent, Empty, Pairs

LEMMA OwnPair ==
    ASSUME FilesTypeOK, NEW p \in Server
    PROVE  mine[p] \in Pairs
  BY DEF FilesTypeOK

LEMMA NextPair ==
    ASSUME NEW n \in Pairs, n < MaxPairs
    PROVE  n + 1 \in Pairs
  BY KeysAssumption DEF Pairs

LEMMA FilesTypeStep ==
    FilesTypeOK /\ [KeysNext]_keysVars => FilesTypeOK'
  <1> SUFFICES ASSUME FilesTypeOK, [KeysNext]_keysVars
               PROVE  FilesTypeOK'
    OBVIOUS
  <1> USE DEF FilesTypeOK, fileVars, clientVars, Goes
  <1>1. ASSUME NEW p \in Server, Start(p)
        PROVE  FilesTypeOK'
    BY <1>1 DEF Start
  <1>2. ASSUME NEW p \in Server, CheckPrivate(p)
        PROVE  FilesTypeOK'
    BY <1>2 DEF CheckPrivate, Decide
  <1>3. ASSUME NEW p \in Server, CheckPublic(p)
        PROVE  FilesTypeOK'
    BY <1>3 DEF CheckPublic, Decide, Up
  <1>4. ASSUME NEW p \in Server, Generate(p)
        PROVE  FilesTypeOK'
    <2>1. generated' \in Pairs
      BY <1>4, NextPair DEF Generate
    <2> QED
      BY <1>4, <2>1 DEF Generate
  <1>5. ASSUME NEW p \in Server, WritePrivate(p)
        PROVE  FilesTypeOK'
    BY <1>5 DEF WritePrivate
  <1>6. ASSUME NEW p \in Server, OpenPublic(p)
        PROVE  FilesTypeOK'
    BY <1>6 DEF OpenPublic
  <1>7. ASSUME NEW p \in Server, WritePublic(p)
        PROVE  FilesTypeOK'
    BY <1>7 DEF WritePublic, Up
  <1>8. ASSUME NEW p \in Server, Crash(p)
        PROVE  FilesTypeOK'
    BY <1>8 DEF Crash
  <1>9. CASE Remove
    BY <1>9 DEF Remove
  <1>10. CASE SignData
    BY <1>10 DEF SignData, Stable
  <1>11. CASE Verify
    BY <1>11 DEF Verify
  <1>12. CASE UNCHANGED keysVars
    BY <1>12 DEF keysVars
  <1>13. QED
    BY <1>1, <1>2, <1>3, <1>4, <1>5, <1>6, <1>7, <1>8, <1>9, <1>10, <1>11, <1>12 DEF KeysNext

LEMMA HistoryTypeStep ==
    HistoryTypeOK /\ [KeysNext]_keysVars => HistoryTypeOK'
  <1> SUFFICES ASSUME HistoryTypeOK, [KeysNext]_keysVars
               PROVE  HistoryTypeOK'
    OBVIOUS
  <1> USE DEF HistoryTypeOK, history
  <1>1. ASSUME NEW p \in Server, Start(p)
        PROVE  HistoryTypeOK'
    BY <1>1 DEF Start
  <1>2. ASSUME NEW p \in Server, CheckPrivate(p)
        PROVE  HistoryTypeOK'
    BY <1>2 DEF CheckPrivate, Decide
  <1>3. ASSUME NEW p \in Server, CheckPublic(p)
        PROVE  HistoryTypeOK'
    BY <1>3 DEF CheckPublic, Decide, Up
  <1>4. ASSUME NEW p \in Server, Generate(p)
        PROVE  HistoryTypeOK'
    BY <1>4 DEF Generate
  <1>5. ASSUME NEW p \in Server, WritePrivate(p)
        PROVE  HistoryTypeOK'
    BY <1>5 DEF WritePrivate
  <1>6. ASSUME NEW p \in Server, OpenPublic(p)
        PROVE  HistoryTypeOK'
    BY <1>6 DEF OpenPublic
  <1>7. ASSUME NEW p \in Server, WritePublic(p)
        PROVE  HistoryTypeOK'
    BY <1>7 DEF WritePublic, Up
  <1>8. ASSUME NEW p \in Server, Crash(p)
        PROVE  HistoryTypeOK'
    BY <1>8 DEF Crash
  <1>9. CASE Remove
    BY <1>9 DEF Remove
  <1>10. CASE SignData
    BY <1>10 DEF SignData, Stable
  <1>11. CASE Verify
    BY <1>11 DEF Verify
  <1>12. CASE UNCHANGED keysVars
    BY <1>12 DEF keysVars
  <1>13. QED
    BY <1>1, <1>2, <1>3, <1>4, <1>5, <1>6, <1>7, <1>8, <1>9, <1>10, <1>11, <1>12 DEF KeysNext

LEMMA KeysTypeStep ==
    KeysTypeOK /\ [KeysNext]_keysVars => KeysTypeOK'
  BY FilesTypeStep, HistoryTypeStep DEF KeysTypeOK

LEMMA KeysTypeInit == KeysInit => KeysTypeOK
  <1>1. KeysInit => FilesTypeOK
    BY KeysAssumption DEF KeysInit, FilesTypeOK, Pairs
  <1>2. KeysInit => HistoryTypeOK
    BY DEF KeysInit, HistoryTypeOK
  <1> QED
    BY <1>1, <1>2 DEF KeysTypeOK

(* Type correctness of the key files, the servers and the signatures.      *)
THEOREM KeysTypeCorrect == KeysSpec => []KeysTypeOK
  <1> QED
    BY KeysTypeInit, KeysTypeStep, PTL DEF KeysSpec

-----------------------------------------------------------------------------
(* What a server that decides to generate finds: it is alone, or torn.     *)
LEMMA DecideStep ==
    ASSUME KeysInv, KeysTypeOK', NEW p \in Server, ~Generating(p),
           private = Absent \/ public = Absent, Decide(p), UNCHANGED <<fileVars, mine>>
    PROVE  KeysInv'
  <1> USE DEF KeysInv, KeysTypeOK, FilesTypeOK, fileVars, Goes, Decide
  <1>1. \A q \in Server : Generating(q)' <=> q = p \/ Generating(q)
    BY DEF Generating
  <1>2. Alone'
    BY <1>1 DEF Alone
  <1>3. Quiet'
    BY DEF Quiet
  <1>4. PrivateSeen'
    BY DEF PrivateSeen
  <1>5. OwnHalves'
    BY <1>1 DEF OwnHalves, Generating
  <1>6. WholeWhenQuiet'
    BY <1>1 DEF WholeWhenQuiet, NobodyGenerates
  <1> QED
    BY <1>2, <1>3, <1>4, <1>5, <1>6

LEMMA CheckStep ==
    ASSUME KeysInv, KeysTypeOK', NEW p \in Server, CheckPrivate(p) \/ CheckPublic(p)
    PROVE  KeysInv'
  <1> USE DEF KeysInv, KeysTypeOK, FilesTypeOK, fileVars, history, Goes
  <1>1. ~Generating(p)
    BY DEF Generating, CheckPrivate, CheckPublic
  <1>2. CASE Decide(p)
    <2>1. pc'[p] = "generate"
      BY <1>2 DEF Decide
    <2>2. private = Absent \/ public = Absent
      BY <2>1 DEF CheckPrivate, CheckPublic, Up
    <2>3. UNCHANGED <<fileVars, mine>>
      BY DEF CheckPrivate, CheckPublic
    <2> HIDE DEF KeysInv, KeysTypeOK, Goes
    <2> QED
      BY <1>1, <1>2, <2>2, <2>3, DecideStep
  <1>3. CASE ~Decide(p)
    <2> UNCHANGED <<private, public, mine, torn>>
      BY <1>3 DEF CheckPrivate, CheckPublic, Up
    <2>1. \A q \in Server : Generating(q)' <=> Generating(q)
      BY <1>1, <1>3 DEF Generating, CheckPrivate, CheckPublic, Up
    <2>2. Alone'
      BY <2>1 DEF Alone
    <2>3. Quiet'
      BY <1>1, <1>3, <2>1 DEF Quiet, NobodyGenerates, CheckPrivate, CheckPublic, Up, PrivateSeen
    <2>4. PrivateSeen'
      BY <1>3 DEF PrivateSeen, CheckPrivate, CheckPublic, Up
    <2>5. OwnHalves'
      BY <1>3 DEF OwnHalves, CheckPrivate, CheckPublic, Up
    <2>6. WholeWhenQuiet'
      BY <2>1 DEF WholeWhenQuiet, NobodyGenerates
    <2> QED
      BY <2>2, <2>3, <2>4, <2>5, <2>6
  <1> QED
    BY <1>2, <1>3

(* The steps of a server that generates, up to its last write.             *)
LEMMA GenerateStep ==
    ASSUME KeysInv, KeysTypeOK', NEW p \in Server,
           Generate(p) \/ WritePrivate(p) \/ OpenPublic(p)
    PROVE  KeysInv'
  <1> USE DEF KeysInv, KeysTypeOK, FilesTypeOK, history, Goes
  <1>1. Generating(p) /\ Generating(p)'
    BY DEF Generating, Generate, WritePrivate, OpenPublic
  <1>2. UNCHANGED <<settled, torn>>
    BY DEF Generate, WritePrivate, OpenPublic
  <1>3. \A q \in Server : Generating(q)' <=> Generating(q)
    BY <1>1 DEF Generating, Generate, WritePrivate, OpenPublic
  <1>4. private' # Absent
    BY OwnPair, Distinct DEF Generate, WritePrivate, OpenPublic, PrivateSeen
  <1>5. Alone'
    BY <1>2, <1>3 DEF Alone
  <1>6. Quiet'
    BY <1>1, <1>2 DEF Quiet, NobodyGenerates
  <1>7. PrivateSeen'
    BY <1>4 DEF PrivateSeen
  <1>8. OwnHalves'
    <2> SUFFICES ASSUME ~torn, NEW q \in Server
                 PROVE  /\ pc'[q] = "generate" => private' = Absent \/ public' = Absent
                        /\ pc'[q] \in {"open public", "write public"} => private' = mine'[q]
      BY <1>2 DEF OwnHalves
    <2>1. CASE q = p
      BY <2>1 DEF Generate, WritePrivate, OpenPublic, OwnHalves
    <2>2. CASE q # p
      BY <1>1, <1>3, <2>2 DEF Alone, Generating
    <2> QED
      BY <2>1, <2>2
  <1>9. WholeWhenQuiet'
    BY <1>1 DEF WholeWhenQuiet, NobodyGenerates
  <1> QED
    BY <1>5, <1>6, <1>7, <1>8, <1>9

(* The last write makes the halves match, unless another generation was    *)
(* under way.                                                              *)
LEMMA WritePublicStep ==
    ASSUME KeysInv, KeysTypeOK', NEW p \in Server, WritePublic(p)
    PROVE  KeysInv'
  <1> USE DEF KeysInv, KeysTypeOK, FilesTypeOK, WritePublic, Up, Goes
  <1>1. Generating(p) /\ ~Generating(p)'
    BY DEF Generating
  <1>2. \A q \in Server \ {p} : Generating(q)' <=> Generating(q)
    BY DEF Generating
  <1>3. mine[p] \in Pairs /\ public' # Absent
    BY OwnPair, Distinct
  <1>4. private # Absent
    BY DEF PrivateSeen
  <1>5. Alone'
    BY <1>1, <1>2 DEF Alone
  <1>6. Quiet'
    BY <1>1, <1>2, <1>3, <1>4 DEF Quiet, NobodyGenerates
  <1>7. PrivateSeen'
    BY <1>4 DEF PrivateSeen
  <1>8. OwnHalves'
    BY <1>1, <1>2 DEF OwnHalves, Alone, Generating
  <1>9. WholeWhenQuiet'
    BY <1>3 DEF WholeWhenQuiet, OwnHalves
  <1> QED
    BY <1>5, <1>6, <1>7, <1>8, <1>9

(* A crash leaves one file missing, or is remembered as torn.              *)
LEMMA CrashStep ==
    ASSUME KeysInv, KeysTypeOK', NEW p \in Server, Crash(p)
    PROVE  KeysInv'
  <1> USE DEF KeysInv, KeysTypeOK, FilesTypeOK, Crash, fileVars, Goes
  <1>1. \A q \in Server : Generating(q)' <=> q # p /\ Generating(q)
    BY DEF Generating
  <1>2. Alone'
    BY <1>1 DEF Alone
  <1>3. Quiet'
    BY <1>1 DEF Quiet, NobodyGenerates
  <1>4. PrivateSeen'
    BY DEF PrivateSeen
  <1>5. OwnHalves'
    BY DEF OwnHalves
  <1>6. WholeWhenQuiet'
    BY <1>1 DEF WholeWhenQuiet, NobodyGenerates
  <1> QED
    BY <1>2, <1>3, <1>4, <1>5, <1>6

LEMMA KeysStep ==
    KeysInv /\ [KeysNext]_keysVars => KeysInv'
  <1> SUFFICES ASSUME KeysInv, [KeysNext]_keysVars
               PROVE  KeysInv'
    OBVIOUS
  <1>0. KeysTypeOK'
    BY KeysTypeStep DEF KeysInv
  <1>1. ASSUME NEW p \in Server, CheckPrivate(p) \/ CheckPublic(p)
        PROVE  KeysInv'
    BY <1>0, <1>1, CheckStep
  <1>2. ASSUME NEW p \in Server, Generate(p) \/ WritePrivate(p) \/ OpenPublic(p)
        PROVE  KeysInv'
    BY <1>0, <1>2, GenerateStep
  <1>3. ASSUME NEW p \in Server, WritePublic(p)
        PROVE  KeysInv'
    BY <1>0, <1>3, WritePublicStep
  <1>4. ASSUME NEW p \in Server, Crash(p)
        PROVE  KeysInv'
    BY <1>0, <1>4, CrashStep
  <1>5. ASSUME NEW p \in Server, Start(p)
        PROVE  KeysInv'
    <2> USE <1>5 DEF KeysInv, KeysTypeOK, FilesTypeOK, Start, Goes, fileVars, history
    <2>1. \A q \in Server : Generating(q)' <=> Generating(q)
      BY DEF Generating
    <2> QED
      BY <1>0, <2>1 DEF Alone, Quiet, NobodyGenerates, PrivateSeen, OwnHalves, WholeWhenQuiet
  <1>6. CASE Remove
    <2>1. NobodyGenerates' /\ NobodyGenerates
      BY <1>6 DEF Remove, NobodyGenerates, Generating
    <2> QED
      BY <1>0, <1>6, <2>1 DEF KeysInv, Remove, Alone, Quiet, NobodyGenerates, PrivateSeen,
                             OwnHalves, WholeWhenQuiet
  <1>7. CASE SignData \/ Verify \/ UNCHANGED keysVars
    <2> USE DEF KeysInv, Alone, Quiet, NobodyGenerates, PrivateSeen, OwnHalves, WholeWhenQuiet, Generating
    <2>1. UNCHANGED <<private, public, pc, mine, settled, torn>>
      BY <1>7 DEF SignData, Verify, keysVars, fileVars, history
    <2> QED
      BY <1>0, <2>1
  <1>8. QED
    BY <1>1, <1>2, <1>3, <1>4, <1>5, <1>6, <1>7 DEF KeysNext

LEMMA KeysInvariant == KeysSpec => []KeysInv
  <1>1. ASSUME KeysInit
        PROVE  KeysInv
    <2>1. KeysTypeOK
      BY <1>1, KeysTypeInit
    <2>2. Alone /\ Quiet /\ PrivateSeen
      BY <1>1 DEF KeysInit, Alone, Quiet, PrivateSeen, Generating
    <2>3. OwnHalves
      BY <1>1 DEF KeysInit, OwnHalves
    <2>4. WholeWhenQuiet
      <3>1. 0 \in Pairs
        BY KeysAssumption DEF Pairs
      <3> QED
        BY <1>1, <3>1 DEF KeysInit, WholeWhenQuiet
    <2> QED
      BY <2>1, <2>2, <2>3, <2>4 DEF KeysInv
  <1>2. QED
    BY <1>1, KeysStep, PTL DEF KeysSpec

LEMMA StableMatches == KeysInv => HalvesMatch
  BY DEF KeysInv, Quiet, WholeWhenQuiet, HalvesMatch, Stable

(* The two files that ensureKeyPair writes one after the other are halves  *)
(* of one pair once a start has ended, for any number of servers.          *)
THEOREM KeysHalvesMatch == KeysSpec => []HalvesMatch
  <1> QED
    BY KeysInvariant, StableMatches, PTL

-----------------------------------------------------------------------------
(* With a pair settled no generation is under way and none can begin.      *)
LEMMA NoneBegins ==
    ASSUME KeysInv, settled, NEW p \in Server
    PROVE  /\ ~(CheckPrivate(p) /\ Decide(p)) /\ ~(CheckPublic(p) /\ Decide(p))
           /\ ~Generate(p) /\ ~WritePrivate(p) /\ ~OpenPublic(p) /\ ~WritePublic(p)
  <1>1. private # Absent /\ public # Absent /\ ~Generating(p)
    BY DEF KeysInv, Quiet, NobodyGenerates
  <1>2. ~(CheckPrivate(p) /\ Decide(p)) /\ ~(CheckPublic(p) /\ Decide(p))
    BY <1>1 DEF KeysInv, KeysTypeOK, FilesTypeOK, CheckPrivate, CheckPublic, Decide, Up, Goes
  <1> QED
    BY <1>1, <1>2 DEF Generating, Generate, WritePrivate, OpenPublic, WritePublic

LEMMA FreshStep ==
    KeysInv /\ FreshKey /\ [KeysNext]_keysVars => FreshKey'
  <1> SUFFICES ASSUME KeysInv, FreshKey, [KeysNext]_keysVars, fresh'
               PROVE  (Stable /\ signed = private /\ verdict # "refused")'
    BY DEF FreshKey
  <1> DEFINE Kept == fresh /\ UNCHANGED <<private, signed, verdict>>
                     /\ settled' /\ torn' = torn
  <1>0. ASSUME Kept
        PROVE  (Stable /\ signed = private /\ verdict # "refused")'
    BY <1>0 DEF FreshKey, Stable
  <1>1. ASSUME NEW p \in Server, Start(p) \/ CheckPrivate(p) \/ CheckPublic(p) \/ Crash(p)
        PROVE  Kept
    <2>1. CASE Start(p)
      BY <2>1, Zenon DEF Start, FreshKey, Stable, fileVars, clientVars, history
    <2>2. CASE CheckPrivate(p)
      <3>1. fresh /\ settled
        BY <2>2 DEF CheckPrivate, Decide, history, FreshKey, Stable
      <3>2. UNCHANGED history
        BY <2>2, <3>1, NoneBegins DEF CheckPrivate
      <3> QED
        BY <2>2, <3>1, <3>2 DEF CheckPrivate, fileVars, clientVars, history
    <2>3. CASE CheckPublic(p)
      <3>1. fresh /\ settled
        BY <2>3 DEF CheckPublic, Decide, Up, FreshKey, Stable
      <3>2. Up(p)
        BY <2>3, <3>1, NoneBegins DEF CheckPublic
      <3>3. settled'
        BY <3>1, <3>2, Zenon DEF Up
      <3> QED
        BY <2>3, <3>1, <3>2, <3>3 DEF CheckPublic, Up, fileVars, clientVars
    <2>4. CASE Crash(p)
      <3>1. fresh /\ settled' /\ settled
        BY <2>4, Zenon DEF Crash, FreshKey, Stable
      <3>2. ~Generating(p)
        BY <3>1 DEF KeysInv, Quiet, NobodyGenerates
      <3>3. torn' = torn
        BY <2>4, <3>2 DEF Crash, KeysInv, KeysTypeOK, HistoryTypeOK
      <3> QED
        BY <2>4, <3>1, <3>3 DEF Crash, fileVars, clientVars
    <2> QED
      BY <1>1, <2>1, <2>2, <2>3, <2>4
  <1>2. ASSUME NEW p \in Server, Generate(p) \/ WritePrivate(p) \/ OpenPublic(p) \/ WritePublic(p)
        PROVE  FALSE
    <2>1. fresh
      BY <1>2 DEF Generate, WritePrivate, OpenPublic, WritePublic, Up, history
    <2> QED
      BY <1>2, <2>1, NoneBegins DEF FreshKey, Stable
  <1>3. CASE Remove
    BY <1>3 DEF Remove
  <1>4. CASE SignData
    <2>1. Stable /\ UNCHANGED <<settled, torn, private>>
      BY <1>4 DEF SignData, fileVars
    <2> QED
      BY <1>4, <2>1 DEF SignData, Stable
  <1>5. CASE Verify
    <2>1. fresh /\ UNCHANGED <<signed, private, settled, torn>>
      BY <1>5 DEF Verify, history, fileVars
    <2>2. Stable /\ signed = private /\ private = public
      BY <2>1, StableMatches DEF FreshKey, HalvesMatch
    <2>3. Stable' /\ (signed = private)'
      BY <2>1, <2>2 DEF Stable
    <2>4. verdict' = "accepted"
      BY <1>5, <2>2 DEF Verify
    <2> QED
      BY <2>3, <2>4
  <1>6. CASE UNCHANGED keysVars
    BY <1>6 DEF keysVars, fileVars, clientVars, history, FreshKey, Stable
  <1>7. QED
    BY <1>0, <1>1, <1>2, <1>3, <1>4, <1>5, <1>6 DEF KeysNext

(* A signature made with a settled pair is refused only after an operator  *)
(* has removed a file: no sequence of starts, crashes and restarts of any  *)
(* number of servers makes ensureKeyPair replace the pair.                 *)
THEOREM KeysSettledAccepted == KeysSpec => []SettledAccepted
  <1>1. KeysInit => FreshKey
    BY DEF KeysInit, FreshKey
  <1>2. FreshKey => SettledAccepted
    BY DEF FreshKey, SettledAccepted
  <1>3. QED
    BY <1>1, <1>2, FreshStep, KeysInvariant, PTL DEF KeysSpec

=============================================================================
