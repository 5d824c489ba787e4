------------------------------- MODULE BaseProxy -------------------------------
(***************************************************************************)
(* What both proxies share: BaseProxyService's executeProxy makes one      *)
(* promise of each attempt, and discover() makes one attempt after the     *)
(* other.  Which instance an attempt goes to is left to module Discover;   *)
(* here attempts are numbered.  A route with a fixed target is a service   *)
(* of one instance: asking for another has no effect on either.            *)
(*                                                                         *)
(* A method with @ProxyForward, or whoever calls executeWithOptions, uses  *)
(* the proxies without executeProxy: with one target, no promise that      *)
(* settles, no timer, and no callbacks.  Such a request is direct.         *)
(***************************************************************************)
EXTENDS Integers, FiniteSets

CONSTANT MaxInstances   \* the longest listing of the service

ASSUME ProxyAssumption == MaxInstances \in Nat \ {0}

VARIABLES instances,  \* how many instances the service has
          direct,     \* forwarded by executeWithOptions
          current,    \* the latest attempt, 0 before the first
          upstream,   \* an attempt's connection: "none", "open", "answered",
                      \* "tunnel" or "closed"
          done        \* proxyRequest has returned

attemptVars == <<current, upstream, done>>

Attempts == 1 .. MaxInstances

Gateway == 0   \* the gateway itself as the source of an answer

BaseInit ==
    /\ instances \in 0 .. MaxInstances
    /\ direct \in BOOLEAN
    /\ direct => instances = 1
    /\ current = 0
    /\ upstream = [k \in Attempts |-> "none"]
    /\ done = FALSE

Closed(k) == [upstream EXCEPT ![k] = "closed"]

Live(k) == upstream[k] \in {"open", "answered", "tunnel"}

\* The attempt's promise is not settled (isResolved is false); a direct
\* request is done as soon as it is sent.
Pending(k) == k = current /\ ~done

-----------------------------------------------------------------------------
BaseTypeOK ==
    /\ instances \in 0 .. MaxInstances
    /\ direct \in BOOLEAN
    /\ current \in 0 .. instances
    /\ upstream \in [Attempts -> {"none", "open", "answered", "tunnel", "closed"}]
    /\ done \in BOOLEAN

(* No two instances work on one request at a time: a retry begins only     *)
(* when the attempt before it is over on the wire, too.                    *)
OneUpstream == Cardinality({k \in Attempts : Live(k)}) <= 1

(* Every call of proxyRequest returns, whatever the instance and the       *)
(* client do.                                                              *)
Returns == <>done

=============================================================================
