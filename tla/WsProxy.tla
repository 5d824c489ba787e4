-------------------------------- MODULE WsProxy --------------------------------
(***************************************************************************)
(* One upgrade request through WsProxyService.  No 'upgrade' listener is   *)
(* registered, so Node hands the request to the controller with a response *)
(* of its own; the proxy writes past that response, on the socket.         *)
(*                                                                         *)
(* Unlike in HttpProxy a failed connection asks for another instance       *)
(* without settling the attempt, and only the client's departure or the    *)
(* 30 s timer settle it then.                                              *)
(***************************************************************************)
EXTENDS BaseProxy

VARIABLES socket,   \* the client's: "open", "ended" (by the gateway) or "closed"
          spoken,   \* whose answers were written to it
          asked     \* the current attempt asked for another (its shouldRetry)

wsVars == <<socket, spoken, asked>>

WsInit ==
    /\ socket = "open"
    /\ spoken = {}
    /\ asked = FALSE

\* socket.end(), where the socket is not gone.
End(s) == IF s = "open" THEN "ended" ELSE s

\* What is written when the socket is in state s; after its end it is dropped.
Say(who, s) == spoken' = IF s = "open" THEN spoken \cup {who} ELSE spoken

-----------------------------------------------------------------------------
\* proxyRequest ends with the error page, which the HTTP response writes.
WsRefuse(up, s) ==
    /\ done' = TRUE
    /\ upstream' = up
    /\ socket' = s
    /\ Say(Gateway, s)
    /\ UNCHANGED <<current, asked>>

\* discover() calls back with its k-th instance.  The attempts k to j - 1 fail
\* while they are set up: each rejects, asks for another and ends the socket.
\* Then one is made, or its request cannot be created, which asks but does not
\* settle; or none is left.
WsAttempt(k, up, s) ==
    \E j \in k .. instances + 1 :
        LET failed == [i \in Attempts |-> IF i \in k .. j - 1 THEN "closed" ELSE up[i]]
            left == IF j > k THEN End(s) ELSE s
        IN  \/ /\ j > instances
               /\ current' = instances
               /\ asked' = TRUE
               /\ done' = TRUE
               /\ upstream' = failed
               /\ socket' = left
               /\ Say(Gateway, left)
            \/ /\ j <= instances
               /\ current' = j
               /\ \E created \in BOOLEAN :
                     /\ upstream' = [failed EXCEPT ![j] = IF created THEN "open" ELSE "closed"]
                     /\ asked' = ~created
                     /\ socket' = IF created THEN left ELSE End(left)
               /\ done' = direct
               /\ UNCHANGED spoken

\* Attempt k is settled, unless it was before: discover() goes on if it asked,
\* else it returns or throws.
WsSettle(k, outcome, up, s) ==
    \/ /\ ~Pending(k)
       /\ upstream' = up
       /\ socket' = s
       /\ UNCHANGED <<current, done, spoken, asked>>
    \/ Pending(k) /\ asked /\ k < instances /\ WsAttempt(k + 1, up, s)
    \/ Pending(k) /\ asked /\ k = instances /\ WsRefuse(up, s)
    \/ Pending(k) /\ ~asked /\ outcome = "rejected" /\ WsRefuse(up, s)
    \/ /\ Pending(k) /\ ~asked /\ outcome = "resolved"
       /\ done' = TRUE
       /\ upstream' = up
       /\ socket' = s
       /\ UNCHANGED <<current, spoken, asked>>

\* A request that is no GET is cut off; its close resolves.
WsRequest ==
    /\ current = 0 /\ ~done
    /\ \/ instances = 0 /\ WsRefuse(upstream, socket)
       \/ instances > 0 /\ WsAttempt(1, upstream, socket)
       \/ /\ instances > 0
          /\ current' = 1 /\ done' = TRUE /\ socket' = "closed"
          /\ UNCHANGED <<upstream, spoken, asked>>

-----------------------------------------------------------------------------
(* The instance's connection. *)

\* A slip: the socket is kept for the next instance to answer on.
ConnectionErrorKeepingSocket(k) ==
    /\ upstream[k] \in {"open", "answered"}
    /\ upstream' = Closed(k)
    /\ asked' = (asked \/ Pending(k))
    /\ UNCHANGED <<current, done, spoken, socket>>

\* proxyReq 'error', accepted by isConnectionError.
ConnectionError(k) ==
    /\ upstream[k] \in {"open", "answered"}
    /\ upstream' = Closed(k)
    /\ asked' = (asked \/ Pending(k))
    /\ socket' = End(socket)
    /\ UNCHANGED <<current, done, spoken>>

\* Any other proxyReq 'error'.
OtherError(k) ==
    /\ upstream[k] \in {"open", "answered"}
    /\ WsSettle(k, "rejected", Closed(k), End(socket))

\* proxyReq 'response': the instance declines to upgrade and its answer is
\* piped to the socket; one with an Upgrade: websocket header is left unread.
Fallback(k) ==
    /\ upstream[k] = "open"
    /\ upstream' = [upstream EXCEPT ![k] = "answered"]
    /\ Say(k, socket) \/ UNCHANGED spoken
    /\ UNCHANGED <<current, done, socket, asked>>

\* The end of an answer that is piped ends the socket; if it breaks off, or is
\* left unread until its connection closes, nobody does.
FallbackOver(k) ==
    /\ upstream[k] = "answered"
    /\ upstream' = Closed(k)
    /\ socket' = socket \/ (k \in spoken /\ socket' = End(socket))
    /\ UNCHANGED <<current, done, spoken, asked>>

\* proxyReq 'upgrade': 101 is written and the two sockets are piped into each
\* other.  The write fails on a socket that was ended, which ends the other.
Upgrade(k) ==
    /\ upstream[k] = "open"
    /\ upstream' = [upstream EXCEPT ![k] = IF socket = "ended" THEN "closed" ELSE "tunnel"]
    /\ Say(k, socket)
    /\ UNCHANGED <<current, done, socket, asked>>

TunnelEnds(k) ==
    /\ upstream[k] = "tunnel"
    /\ upstream' = Closed(k)
    /\ socket' = End(socket)
    /\ UNCHANGED <<current, done, spoken, asked>>

\* proxySocket 'error': the pipe leaves the client's socket as it is, and
\* handleError ends it only where there is no promise to reject.
TunnelError(k) ==
    /\ upstream[k] = "tunnel"
    /\ WsSettle(k, "rejected", Closed(k), IF direct THEN End(socket) ELSE socket)

-----------------------------------------------------------------------------
(* executeProxy's timer and the client. *)

\* A slip: the timer settles the attempt but nothing is written.
WsTimeoutSilent(k) ==
    /\ Pending(k) /\ ~asked
    /\ done' = TRUE
    /\ UNCHANGED <<current, upstream, wsVars>>

\* 30 seconds after the attempt began, tunnel or not.
WsTimeout(k) ==
    /\ Pending(k)
    /\ WsSettle(k, "rejected", upstream, socket)

\* The client goes: a tunnel is ended with it, a request that waits for an
\* answer is not.  The response's 'close' resolves the attempt.
ClientGone ==
    LET up == [k \in Attempts |-> IF upstream[k] = "tunnel" THEN "closed" ELSE upstream[k]]
    IN  /\ current > 0
        /\ socket # "closed"
        /\ WsSettle(current, "resolved", up, "closed")

WsEvent(k) ==
    \/ ConnectionError(k) \/ OtherError(k)
    \/ Fallback(k) \/ FallbackOver(k)
    \/ Upgrade(k) \/ TunnelEnds(k) \/ TunnelError(k)
    \/ WsTimeout(k)

-----------------------------------------------------------------------------
WsTypeOK ==
    /\ socket \in {"open", "ended", "closed"}
    /\ spoken \subseteq 0 .. MaxInstances
    /\ asked \in BOOLEAN

(* A client hears from one instance only: every path that asks for another *)
(* ends the socket first, so a second instance's 101 never follows the     *)
(* first one's answer.                                                     *)
OneInstanceSpeaks == Cardinality(spoken \ {Gateway}) <= 1

(* When proxyRequest has returned, a client whose socket is still open has *)
(* an instance at the other end or was told by the gateway.  Behind        *)
(* executeWithOptions this does not hold: an instance that breaks off in   *)
(* the middle of its refusal to upgrade leaves the socket open, and no     *)
(* timer is set.                                                           *)
NobodyLeftWaiting ==
    done /\ socket = "open" /\ ~direct => Gateway \in spoken \/ \E k \in Attempts : Live(k)

(* ws-proxy.service.ts, above proxyRequest: it "returns a promise that     *)
(* resolves when the WebSocket connection is closed".                      *)
ReturnsAtClose ==
    done /\ ~direct => ~\E k \in Attempts : upstream[k] = "tunnel" /\ socket = "open"

=============================================================================
