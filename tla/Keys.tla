---------------------------------- MODULE Keys ----------------------------------
(***************************************************************************)
(* The two key files of KeyService.  Registry servers (initKeys) check for *)
(* them when they start and generate what is missing; client processes     *)
(* read the private key whenever they sign, and a server reads the public  *)
(* key whenever it verifies.  Several servers may share the files, because *)
(* both default paths are in the package's own directory, and any of them  *)
(* may crash between two calls of the file system.                         *)
(*                                                                         *)
(* A file is Absent, Empty (opened and not written yet), or holds its half *)
(* of the pair with that number; pair 0 is an old one.                     *)
(***************************************************************************)
EXTENDS Integers

CONSTANTS Server,
          MaxPairs   \* bounds the pairs that are ever generated

ASSUME KeysAssumption == MaxPairs \in Nat

VARIABLES private, public,
          pc,          \* what a server does next, "up" or "down"
          mine,        \* the pair a server has generated
          generated,   \* how many pairs were
          signed,      \* the key of the latest signature
          verdict,     \* what a server made of it
          settled,     \* a start has ended and nothing was removed since (history)
          torn,        \* the latest generation was cut off or overlapped another (history)
          fresh        \* made with a settled pair, and nothing removed since (history)

fileVars == <<private, public>>
clientVars == <<signed, verdict>>
history == <<settled, torn, fresh>>
keysVars == <<fileVars, pc, mine, generated, clientVars, history>>

Absent == -2
Empty == -1
Pairs == 0 .. MaxPairs

Generating(p) == pc[p] \in {"generate", "write private", "open public", "write public"}
Stable == settled /\ ~torn

KeysInit ==
    /\ private \in {Absent, 0}
    /\ public \in {Absent, 0}
    /\ pc = [p \in Server |-> "down"]
    /\ mine = [p \in Server |-> 0]
    /\ generated = 0
    /\ signed = Absent /\ verdict = "none"
    /\ settled = FALSE /\ torn = FALSE /\ fresh = FALSE

Goes(p, next) == pc' = [pc EXCEPT ![p] = next]

-----------------------------------------------------------------------------
\* The constructor with initKeys.
Start(p) ==
    /\ pc[p] = "down"
    /\ Goes(p, "check private")
    /\ UNCHANGED <<fileVars, mine, generated, clientVars, history>>

\* A generation begins; it is torn from the start if another one is under way.
Decide(p) ==
    /\ Goes(p, "generate")
    /\ torn' = (\E q \in Server : Generating(q))
    /\ UNCHANGED <<settled, fresh>>

Up(p) ==
    /\ Goes(p, "up")
    /\ settled' = (settled \/ ~\E q \in Server \ {p} : Generating(q))
    /\ UNCHANGED <<torn, fresh>>

\* A slip: every start makes a pair of its own.
CheckPrivateAlways(p) ==
    /\ pc[p] = "check private"
    /\ Decide(p)
    /\ UNCHANGED <<fileVars, mine, generated, clientVars>>

\* existsSync of the private key, which decides alone if there is none.
CheckPrivate(p) ==
    /\ pc[p] = "check private"
    /\ \/ private = Absent /\ Decide(p)
       \/ private # Absent /\ Goes(p, "check public") /\ UNCHANGED history
    /\ UNCHANGED <<fileVars, mine, generated, clientVars>>

\* A slip: one file is enough.
CheckPublicIgnored(p) ==
    /\ pc[p] = "check public"
    /\ Up(p)
    /\ UNCHANGED <<fileVars, mine, generated, clientVars>>

CheckPublic(p) ==
    /\ pc[p] = "check public"
    /\ \/ public = Absent /\ Decide(p)
       \/ public # Absent /\ Up(p)
    /\ UNCHANGED <<fileVars, mine, generated, clientVars>>

\* A slip: a private key that is there is kept.
GenerateMissing(p) ==
    /\ pc[p] = "generate" /\ generated < MaxPairs
    /\ generated' = generated + 1
    /\ mine' = [mine EXCEPT ![p] = generated']
    /\ private' = IF private = Absent THEN Empty ELSE private
    /\ Goes(p, IF private = Absent THEN "write private" ELSE "open public")
    /\ UNCHANGED <<public, clientVars, history>>

\* generateKeyPairSync; the first writeFileSync opens its file.
Generate(p) ==
    /\ pc[p] = "generate" /\ generated < MaxPairs
    /\ generated' = generated + 1
    /\ mine' = [mine EXCEPT ![p] = generated']
    /\ private' = Empty
    /\ Goes(p, "write private")
    /\ UNCHANGED <<public, clientVars, history>>

WritePrivate(p) ==
    /\ pc[p] = "write private"
    /\ private' = mine[p]
    /\ Goes(p, "open public")
    /\ UNCHANGED <<public, mine, generated, clientVars, history>>

OpenPublic(p) ==
    /\ pc[p] = "open public"
    /\ public' = Empty
    /\ Goes(p, "write public")
    /\ UNCHANGED <<private, mine, generated, clientVars, history>>

WritePublic(p) ==
    /\ pc[p] = "write public"
    /\ public' = mine[p]
    /\ Up(p)
    /\ UNCHANGED <<private, mine, generated, clientVars>>

\* The end of a server.  A generation that is cut off when both files exist
\* is not repaired by the next start, which only looks for the files.
Crash(p) ==
    /\ pc[p] # "down"
    /\ Goes(p, "down")
    /\ torn' = (torn \/ (Generating(p) /\ private # Absent /\ public # Absent))
    /\ UNCHANGED <<fileVars, mine, generated, clientVars, settled, fresh>>

\* An operator takes a file away, for the next start to make a new pair.
Remove ==
    /\ \A p \in Server : pc[p] \in {"up", "down"}
    /\ \/ private # Absent /\ private' = Absent /\ UNCHANGED public
       \/ public # Absent /\ public' = Absent /\ UNCHANGED private
    /\ settled' = FALSE /\ fresh' = FALSE
    /\ UNCHANGED <<pc, mine, generated, clientVars, torn>>

-----------------------------------------------------------------------------
\* A slip: whatever the file holds is taken for a key.
SignDataUnchecked ==
    /\ private # Absent
    /\ signed' = private
    /\ verdict' = "none"
    /\ fresh' = Stable
    /\ UNCHANGED <<fileVars, pc, mine, generated, settled, torn>>

\* signData, in a client; it throws without a key.
SignData ==
    /\ private \in Pairs
    /\ signed' = private
    /\ verdict' = "none"
    /\ fresh' = Stable
    /\ UNCHANGED <<fileVars, pc, mine, generated, settled, torn>>

\* SecurityMiddleware.use and verifyData, in a server that is up.
Verify ==
    /\ signed # Absent
    /\ \E p \in Server : pc[p] = "up"
    /\ verdict' = IF public = signed THEN "accepted" ELSE "refused"
    /\ UNCHANGED <<fileVars, pc, mine, generated, signed, history>>

KeysNext ==
    \/ \E p \in Server :
          \/ Start(p) \/ CheckPrivate(p) \/ CheckPublic(p) \/ Generate(p)
          \/ WritePrivate(p) \/ OpenPublic(p) \/ WritePublic(p) \/ Crash(p)
    \/ Remove \/ SignData \/ Verify

KeysSpec == KeysInit /\ [][KeysNext]_keysVars

-----------------------------------------------------------------------------
FilesTypeOK ==
    /\ private \in Pairs \cup {Absent, Empty} /\ public \in Pairs \cup {Absent, Empty}
    /\ pc \in [Server -> {"down", "check private", "check public", "generate", "write private",
                          "open public", "write public", "up"}]
    /\ mine \in [Server -> Pairs] /\ generated \in Pairs
    /\ signed \in Pairs \cup {Absent} /\ verdict \in {"none", "accepted", "refused"}

HistoryTypeOK == settled \in BOOLEAN /\ torn \in BOOLEAN /\ fresh \in BOOLEAN

KeysTypeOK == FilesTypeOK /\ HistoryTypeOK

(* After any crashes and restarts, once a start has ended the two files    *)
(* are halves of one pair: what a crash or an operator left incomplete is  *)
(* generated again as a whole.  Only generations that overlap, or one cut  *)
(* off when both files exist already, break this, and only until a start   *)
(* that is alone generates a pair from its first step to its last.         *)
HalvesMatch == Stable => private = public /\ private \in Pairs

(* A signature made with a settled pair is never refused before an         *)
(* operator takes a file away: whatever servers start, restart or crash    *)
(* after it was made, none of them replaces the pair it was made with.     *)
(* Nothing but that removal ends fresh, so a start that generated although *)
(* both files are there would make a server refuse a fresh signature.      *)
SettledAccepted == verdict = "refused" => ~fresh

=============================================================================
