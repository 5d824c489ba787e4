--------------------------- MODULE StrikeDirectory ---------------------------
(***************************************************************************)
(* What the registry promises to its readers, without clocks, timers or    *)
(* requests: a directory in which every listed instance carries a number   *)
(* of strikes.  Only the instance itself can clear its strikes (Announce); *)
(* a sweep may add at most one strike to an instance, and removes it with  *)
(* the last one.  An instance with no strikes is advertised as ON, any     *)
(* other listed instance as OFF.  The directory may forget everything.     *)
(***************************************************************************)
EXTENDS Integers

CONSTANTS Instance,    \* every instance that can ever be listed
          MaxStrikes   \* strikes at which an instance is removed, at least 1

VARIABLE strikes       \* strikes[i]: Unlisted, or the strikes of a listed instance

Unlisted == -1

Init == strikes = [i \in Instance |-> Unlisted]

\* The instance registers or is heard of again.
Announce(i) == strikes' = [strikes EXCEPT ![i] = 0]

\* The instance, or an operator for it, takes it out of the directory.
Withdraw(i) == strikes' = [strikes EXCEPT ![i] = Unlisted]

Listed == {i \in Instance : strikes[i] # Unlisted}

\* A sweep strikes some of the listed instances.
Sweep ==
    \E S \in SUBSET Listed :
        strikes' = [i \in Instance |->
                      IF i \notin S THEN strikes[i]
                      ELSE IF strikes[i] + 1 >= MaxStrikes THEN Unlisted ELSE strikes[i] + 1]

\* The directory loses its memory, and every instance with it.
Forget == strikes' = [i \in Instance |-> Unlisted]

Next ==
    \/ \E i \in Instance : Announce(i) \/ Withdraw(i)
    \/ Sweep
    \/ Forget

Spec == Init /\ [][Next]_strikes

=============================================================================
