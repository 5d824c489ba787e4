------------------------------- MODULE FairShare -------------------------------
(***************************************************************************)
(* How the two round-robin strategies share requests that follow each      *)
(* other: discover() selects, and selects again among the rest as long as  *)
(* the instance it selected does not answer.                               *)
(***************************************************************************)
EXTENDS Balancers

CONSTANTS MaxInstances,  \* the longest listing
          MaxWeight,
          Strategies,    \* of "round-robin" and "weighted-round-robin"
          AnyBroken      \* whether any instances may not answer

ASSUME FairShareAssumption ==
    /\ MaxInstances \in Nat \ {0, 1}
    /\ MaxWeight \in Nat \ {0}
    /\ Strategies \subseteq {"round-robin", "weighted-round-robin"}
    /\ AnyBroken \in BOOLEAN

VARIABLES strategy,   \* the configured strategy
          listing,    \* the positions of the cached instances
          weight,     \* their weights
          broken,     \* positions of instances that are listed but do not answer
          counter,    \* the strategy's counter for the service
          remaining,  \* what the request being served has not tried
          served      \* history: requests answered, less the full rounds

givenVars == <<strategy, listing, weight, broken>>
fairVars == <<givenVars, counter, remaining, served>>

\* The histories end here: more than any share.
MaxLead == MaxWeight + 1

Weighted == strategy = "weighted-round-robin"

Share(p) == IF Weighted THEN weight[p] ELSE 1

Answering == listing \ broken

\* A round ends when every instance that answers has had its share.
Settled(s) ==
    IF \A p \in Answering : s[p] >= Share(p)
    THEN [p \in listing |-> IF p \in broken THEN 0 ELSE s[p] - Share(p)]
    ELSE s

Selected ==
    IF Weighted THEN WeightedPick(remaining, weight, counter)
                ELSE RoundRobinPick(remaining, counter)

\* Where shares are to be even, at most the last instance of a round-robin does
\* not answer: the counter, brought back into the shorter list, is then 0 as it
\* would be anyway.  Elsewhere in the list, and with weights, it would skip or
\* repeat instances.
Failures(all) ==
    IF AnyBroken THEN SUBSET all \ {all}
    ELSE IF Weighted THEN {{}} ELSE {{}, {Max(all)}}

\* The counter may stem from an earlier, longer listing.
FairInit ==
    \E n \in 2 .. MaxInstances :
        /\ strategy \in Strategies
        /\ listing = 1 .. n
        /\ remaining = listing
        /\ weight \in [listing -> 1 .. IF Weighted THEN MaxWeight ELSE 1]
        /\ broken \in Failures(listing)
        /\ counter \in 0 .. MaxInstances * MaxWeight - 1
        /\ served = [p \in listing |-> 0]

AdvanceCounter ==
    counter' = IF Weighted THEN WeightedCounter(remaining, weight, counter)
                           ELSE RoundRobinCounter(remaining, counter)

\* The selected instance answers: the next request starts with the whole list.
Answered ==
    /\ Selected \notin broken
    /\ AdvanceCounter
    /\ served' = Settled([served EXCEPT ![Selected] = IF @ = MaxLead THEN @ ELSE @ + 1])
    /\ remaining' = listing
    /\ UNCHANGED givenVars

\* It does not: tryAnotherInstance is called, and the loop selects among the
\* rest, or the request fails when there is no rest.
PassedOn ==
    /\ Selected \in broken
    /\ AdvanceCounter
    /\ remaining' = IF Single(remaining) THEN listing ELSE remaining \ {Selected}
    /\ UNCHANGED <<givenVars, served>>

FairNext == Answered \/ PassedOn

\* Requests keep coming.
FairSpec == FairInit /\ [][FairNext]_fairVars /\ WF_fairVars(FairNext)

-----------------------------------------------------------------------------
FairTypeOK ==
    /\ strategy \in Strategies
    /\ listing \subseteq 1 .. MaxInstances
    /\ broken \subseteq listing
    /\ remaining \subseteq listing /\ remaining # {}
    /\ weight \in [listing -> 1 .. MaxWeight]
    /\ counter \in 0 .. MaxInstances * MaxWeight - 1
    /\ served \in [listing -> 0 .. MaxLead]

(* Round-robin "distributes requests evenly across all available instances *)
(* in a cyclic manner" (src/discovery/types.ts): no instance that answers  *)
(* is asked more than its share before every other one has had its own.    *)
EvenShare == \A p \in Answering : served[p] <= Share(p)

(* The same sentence, about a listing with an instance that does not       *)
(* answer: every one that does is asked again and again.                   *)
NobodyStarves ==
    \A p \in 1 .. MaxInstances :
        p \in Answering => []<><<Answered /\ Selected = p>>_fairVars

=============================================================================
