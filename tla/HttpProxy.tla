------------------------------- MODULE HttpProxy -------------------------------
(***************************************************************************)
(* One client request through HttpProxyService to a service: discover()    *)
(* tries instances in turn, executeProxy wraps each attempt in a promise,  *)
(* and the events of the client's connection, of the instance's connection *)
(* and of two timers settle that promise and write the one response.       *)
(*                                                                         *)
(* An event's handlers run to their end, and with them the microtasks that *)
(* a settled promise wakes (the rest of discover() and of proxyRequest),   *)
(* before the next event: each event is one action.                        *)
(***************************************************************************)
EXTENDS BaseProxy, Outgoing

VARIABLES streamed,   \* the body is piped from the connection, not buffered
          timed,      \* the route has a timeout, which becomes proxyTimeout
          head,       \* req.headers, which every attempt changes in place
          sent,       \* the headers an attempt sent
          res,        \* the response to the client
          connected   \* the client's connection is open

requestVars == <<instances, direct, streamed, timed>>
headVars == <<head, sent>>
httpVars == <<streamed, timed, headVars, res, connected>>

NoHead == [host |-> Absent, forwardedHost |-> Absent]

\* status: whose status code is set; phrase: whose status message, Gateway for
\* the code's own; heads: whose headers are.
NoResponse ==
    [headersSent |-> FALSE, ended |-> FALSE, from |-> {}, status |-> Gateway,
     phrase |-> Gateway, heads |-> {}]

HttpInit ==
    /\ streamed \in BOOLEAN
    /\ timed \in BOOLEAN
    /\ head = ClientHead
    /\ sent = [k \in Attempts |-> NoHead]
    /\ res = NoResponse
    /\ connected = TRUE

-----------------------------------------------------------------------------
(* What the handlers do to the response; r is the response so far. *)

\* A slip: an error is logged but nothing is written.
RefusalUnwritten(r) == r

\* handleError: too late once a header is out.  writeHead sets the code, keeps
\* a message that is set already, and adds to the headers.
Refusal(r) ==
    IF r.headersSent THEN r
    ELSE [r EXCEPT !.headersSent = TRUE, !.ended = TRUE, !.from = {Gateway}, !.status = Gateway]

\* A slip: the end of an answer is not looked at.
WrittenAfterEnd(k, r) == [r EXCEPT !.headersSent = TRUE, !.from = @ \cup {k}]

\* A chunk of attempt k's answer; a write after the end is dropped.
Written(k, r) ==
    IF r.ended THEN r ELSE [r EXCEPT !.headersSent = TRUE, !.from = @ \cup {k}]

\* proxyRes 'error': what was sent already is ended as it is.
CutOff(r) == [r EXCEPT !.ended = @ \/ r.headersSent]

-----------------------------------------------------------------------------
\* Of a route both options are set (buildProxyOptions).
Flags == IF direct THEN BOOLEAN ELSE {TRUE}

\* The request to the k-th instance is sent.
Sent(k, up, r) ==
    /\ upstream' = [up EXCEPT ![k] = "open"]
    /\ \E xfwd, changeOrigin \in Flags : head' = OutgoingHead(k, head, xfwd, changeOrigin)
    /\ sent' = [sent EXCEPT ![k] = head']
    /\ res' = r
    /\ done' = direct

\* An option or a header is invalid: handleProxy throws, executeProxy rejects,
\* or the framework answers for who called executeWithOptions.
Invalid(k, up, r) ==
    /\ upstream' = [up EXCEPT ![k] = "closed"]
    /\ res' = Refusal(r)
    /\ done' = TRUE
    /\ UNCHANGED headVars

\* discover() calls back with its k-th instance.
Attempt(k, up, r) ==
    /\ current' = k
    /\ Sent(k, up, r) \/ Invalid(k, up, r)

\* proxyRequest ends.
Return(up, r) ==
    /\ done' = TRUE
    /\ upstream' = up
    /\ res' = r
    /\ UNCHANGED <<current, headVars>>

\* handleError without an onError, that is without a promise to reject.
Reported(outcome, r) == IF direct /\ outcome # "resolved" THEN Refusal(r) ELSE r

\* An off-by-one: discover() goes on after its last instance.
SettleBeyond(k, outcome, up, r) ==
    \/ /\ ~Pending(k)
       /\ upstream' = up
       /\ res' = Reported(outcome, r)
       /\ UNCHANGED <<current, headVars, done>>
    \/ Pending(k) /\ outcome = "resolved" /\ Return(up, r)
    \/ Pending(k) /\ outcome = "rejected" /\ Return(up, Refusal(r))
    \/ Pending(k) /\ outcome = "asked" /\ k <= instances /\ Attempt(k + 1, up, r)

\* The end of a handler that settles attempt k, unless one has before: up and
\* r are what the handler left of the instance's connection and of the
\* response.  discover() returns when the promise is "resolved", throws when
\* it is "rejected", and goes on when tryAnotherInstance was "asked" first.
Settle(k, outcome, up, r) ==
    \/ /\ ~Pending(k)
       /\ upstream' = up
       /\ res' = Reported(outcome, r)
       /\ UNCHANGED <<current, headVars, done>>
    \/ /\ Pending(k) /\ outcome = "resolved"
       /\ Return(up, r)
    \/ /\ Pending(k) /\ (outcome = "rejected" \/ (outcome = "asked" /\ k = instances))
       /\ Return(up, Refusal(r))
    \/ /\ Pending(k) /\ outcome = "asked" /\ k < instances
       /\ Attempt(k + 1, up, r)

ProxyRequest ==
    /\ current = 0 /\ ~done
    /\ \/ instances > 0 /\ Attempt(1, upstream, res)
       \/ instances = 0 /\ Return(upstream, Refusal(res))
    /\ UNCHANGED <<requestVars, connected>>

-----------------------------------------------------------------------------
(* The instance's connection. *)

\* A slip: a status that is set already is kept.
ResponseKeepingStatus(k) ==
    /\ upstream[k] = "open"
    /\ upstream' = [upstream EXCEPT ![k] = "answered"]
    /\ res' = IF res.headersSent \/ res.status # Gateway THEN res
              ELSE [res EXCEPT !.status = k, !.phrase = k, !.heads = @ \cup {k}]
    /\ UNCHANGED <<requestVars, current, headVars, connected, done>>

\* handleProxyResponse sets the instance's code and headers, and its message
\* unless that is empty.  Once a header is out this has no effect, or fails
\* and is caught.
Copied(k, r) ==
    IF r.headersSent THEN {r}
    ELSE {[r EXCEPT !.status = k, !.phrase = phrase, !.heads = @ \cup {k}] :
             phrase \in {r.phrase, k}}

\* proxyReq 'response'; the body is piped.
Response(k) ==
    /\ upstream[k] = "open"
    /\ upstream' = [upstream EXCEPT ![k] = "answered"]
    /\ res' \in Copied(k, res)
    /\ UNCHANGED <<requestVars, current, headVars, connected, done>>

Chunk(k) ==
    /\ upstream[k] = "answered"
    /\ res' = Written(k, res)
    /\ UNCHANGED <<requestVars, current, upstream, headVars, connected, done>>

\* proxyRes 'end': pipe ends the response, onEnd resolves.
ResponseEnd(k) ==
    /\ upstream[k] = "answered"
    /\ Settle(k, "resolved", Closed(k), CutOff(Written(k, res)))
    /\ UNCHANGED <<requestVars, connected>>

\* The connection fails: proxyReq 'error', which for an error isConnectionError
\* accepts asks for another instance before it rejects; an answer under way
\* fails with it, before anything else can come from a connection.
Fails(k, outcome) ==
    /\ upstream[k] \in {"open", "answered"}
    /\ Settle(k, outcome, Closed(k), IF upstream[k] = "answered" THEN CutOff(res) ELSE res)
    /\ UNCHANGED <<requestVars, connected>>

RequestError(k) == Fails(k, "asked") \/ Fails(k, "rejected")

\* The connection was idle for routeConfig.timeout and is destroyed.
ProxyTimeout(k) == timed /\ Fails(k, "asked")

\* A slip: an error after the headers is logged only.
ResponseErrorIgnored(k) ==
    /\ upstream[k] = "answered"
    /\ \/ ~res.headersSent /\ Settle(k, "rejected", Closed(k), res)
       \/ /\ res.headersSent
          /\ upstream' = Closed(k)
          /\ UNCHANGED <<current, headVars, res, done>>
    /\ UNCHANGED <<requestVars, connected>>

\* The instance closes the connection in the middle of its answer: proxyRes
\* 'error' rejects only if no header is out, else it ends the response.
ResponseError(k) ==
    /\ upstream[k] = "answered"
    /\ \/ ~res.headersSent /\ Settle(k, "rejected", Closed(k), res)
       \/ /\ res.headersSent
          /\ upstream' = Closed(k)
          /\ res' = CutOff(res)
          /\ UNCHANGED <<current, headVars, done>>
    /\ UNCHANGED <<requestVars, connected>>

-----------------------------------------------------------------------------
(* executeProxy's timer and the client's connection. *)

\* A slip: the timer asks for another instance, as proxyTimeout does.
TimeoutAsking(k) ==
    /\ Pending(k)
    /\ Settle(k, "asked", upstream, res)
    /\ UNCHANGED <<requestVars, connected>>

\* A slip: the timer is cleared when the instance begins to answer.
TimeoutBeforeAnswer(k) ==
    /\ Pending(k)
    /\ upstream[k] = "open"
    /\ Settle(k, "rejected", upstream, res)
    /\ UNCHANGED <<requestVars, connected>>

\* 30 seconds after the attempt began; its connection is left alone.
Timeout(k) ==
    /\ Pending(k)
    /\ Settle(k, "rejected", upstream, res)
    /\ UNCHANGED <<requestVars, connected>>

\* res 'finish' resolves whichever attempt is pending.
Finish(k) ==
    /\ Pending(k)
    /\ res.ended
    /\ Settle(k, "resolved", upstream, res)
    /\ UNCHANGED <<requestVars, connected>>

\* req 'aborted', when the body was still being read, destroys the requests
\* that pipe it; res 'close' resolves the attempt before they fail, and only
\* a direct request has their error handled.
ClientCloses ==
    /\ connected
    /\ connected' = FALSE
    /\ \E aborted \in {{}, {k \in Attempts : streamed /\ upstream[k] = "open"}} :
          LET up == [k \in Attempts |-> IF k \in aborted THEN "closed" ELSE upstream[k]]
              left == IF direct /\ aborted # {} THEN Refusal(res) ELSE res
          IN  \/ current > 0 /\ Settle(current, "resolved", up, left)
              \/ current = 0 /\ UNCHANGED <<current, upstream, headVars, res, done>>
    /\ UNCHANGED requestVars

HttpEvent(k) ==
    \/ Response(k) \/ Chunk(k) \/ ResponseEnd(k) \/ ResponseError(k)
    \/ RequestError(k) \/ ProxyTimeout(k)
    \/ Timeout(k) \/ Finish(k)

\* With proxyTimeout an answer ends, breaks off or goes idle.
AnswerOver(k) == timed /\ (ResponseEnd(k) \/ ResponseError(k) \/ ProxyTimeout(k))

-----------------------------------------------------------------------------
Sources == 0 .. MaxInstances

HeadSet == [host : Sources, forwardedHost : {Absent} \cup Sources]
           \cup {NoHead}

HttpTypeOK ==
    /\ streamed \in BOOLEAN /\ timed \in BOOLEAN /\ connected \in BOOLEAN
    /\ head \in HeadSet
    /\ sent \in [Attempts -> HeadSet]
    /\ res \in [headersSent : BOOLEAN, ended : BOOLEAN, from : SUBSET Sources,
                status : Sources, phrase : Sources, heads : SUBSET Attempts]

(* The gateway implements module Exchange: at most one answer, from one    *)
(* source, that nothing is added to after its end.  A retry after an       *)
(* answer has begun, the late answer of an attempt that timed out, or the  *)
(* error of a late timer would break it.                                   *)
Exch == INSTANCE Exchange WITH
    Source <- Sources,
    source <- res.from,
    over <- res.ended

ImplementsExchange == Exch!Spec

(* The status code of an answer is of who gives it: one that was set for   *)
(* an instance which then failed is replaced before it goes out.  This is  *)
(* not so of the message beside it, nor of the headers (OwnHead).          *)
StatusOfSource == res.headersSent => res.status \in res.from

(* Every instance a route's request goes to is told its own host and the   *)
(* host the client asked for, although setupOutgoing overwrites the host   *)
(* in req.headers, where the next attempt reads it.                        *)
OwnRequestHead ==
    ~direct => \A k \in Attempts :
        sent[k] \in {NoHead, [host |-> k, forwardedHost |-> Client]}


(* When proxyRequest has returned, a client that still waits has an        *)
(* instance that is answering it: no path through the places that may end  *)
(* a response leaves it open with nobody to end it.  A direct request is   *)
(* not waited for; its instance may still be silent.                       *)
NeverAbandoned ==
    done /\ connected /\ ~res.ended =>
        \E k \in Attempts : upstream[k] = "answered" \/ (direct /\ upstream[k] = "open")

(* On a route with a timeout every client that stays gets its answer to an *)
(* end, although the 30 s timer leaves an answer under way to itself.      *)
Answered == timed => <>(res.ended \/ ~connected)

(* http-proxy.service.ts, above handleProxyResponse: it "sets the status   *)
(* code and status message on the client response, copies headers from the *)
(* proxy response" and "streams the proxy response body to the client":    *)
(* the headers of an answer, and a message set for it, are of who gives it. *)
OwnHead ==
    res.headersSent => res.heads \subseteq res.from /\ res.phrase \in res.from \cup {Gateway}

=============================================================================
