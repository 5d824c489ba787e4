-------------------------------- MODULE Exchange --------------------------------
(***************************************************************************)
(* What a client of the gateway is promised for one HTTP request: at most  *)
(* one answer, from one source, that nothing is added to once it is over.  *)
(* HttpProxy implements it, with retries, timers and late answers.         *)
(***************************************************************************)
CONSTANT Source   \* who may answer: instances, or the gateway itself

VARIABLES source,   \* the source of the answer, {} before it begins
          over      \* the answer has ended

exchangeVars == <<source, over>>

Init == source = {} /\ over = FALSE

\* The first byte, which may be the whole answer.
Begin(s) ==
    /\ source = {}
    /\ source' = {s}
    /\ over' \in BOOLEAN

Finish ==
    /\ source # {} /\ ~over
    /\ over' = TRUE
    /\ UNCHANGED source

Next == (\E s \in Source : Begin(s)) \/ Finish

Spec == Init /\ [][Next]_exchangeVars

=============================================================================
