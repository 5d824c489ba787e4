---------------------------- MODULE GatewayProofs ----------------------------
(***************************************************************************)
(* Proofs about Gateway, and with it about both proxies, for any number of *)
(* instances, services and guards.                                         *)
(*                                                                         *)
(* OneUpstream and Exchange say nothing of which attempt is at work, which *)
(* is what a late event must not confuse.  GatewayInv adds that an open    *)
(* connection is the latest attempt's, that an upgrade request which asked *)
(* for another instance has none, and that an answer under way is of the   *)
(* latest attempt and of nobody else.                                      *)
(***************************************************************************)
EXTENDS Gateway, SetLemmas, SequenceTheorems

\* The states of an attempt's connection.
Status == {"none", "open", "answered", "tunnel", "closed"}

ConnTypeOK == upstream \in [Attempts -> Status]

OpenIn(up, k) == up[k] \in {"open", "answered", "tunnel"}
OverIn(up) == \A k \in Attempts : ~OpenIn(up, k)

\* The connections of attempts that are over are closed.
LiveIsCurrent == \A k \in Attempts : OpenIn(upstream, k) => k = current

\* An upgrade request asks for another instance when its own has failed.
AskedIsOver == asked => OverIn(upstream)

ConnInv == ConnTypeOK /\ LiveIsCurrent /\ AskedIsOver

LEMMA CurrentOnly == LiveIsCurrent => OneUpstream
  <1> SUFFICES ASSUME LiveIsCurrent
               PROVE  OneUpstream
    OBVIOUS
  <1> DEFINE L == {k \in Attempts : Live(k)}
  <1>1. L \subseteq {current}
    BY DEF LiveIsCurrent, Live, OpenIn
  <1>2. IsFiniteSet({current}) /\ Cardinality({current}) = 1
    BY FS_Singleton
  <1>3. Cardinality(L) <= Cardinality({current})
    BY <1>1, <1>2, FS_Subset
  <1> QED
    BY <1>2, <1>3 DEF OneUpstream

(* After Settle only the connection of the latest attempt is open.         *)
LEMMA SettleConn ==
    ASSUME NEW k, NEW outcome, NEW up \in [Attempts -> Status], NEW r,
           \A j \in Attempts : OpenIn(up, j) => j = current,
           outcome = "asked" => OverIn(up),
           Settle(k, outcome, up, r)
    PROVE  ConnTypeOK' /\ LiveIsCurrent'
  <1> USE DEF ConnTypeOK, LiveIsCurrent, OpenIn, Status
  <1>1. CASE upstream' = up /\ current' = current
    BY <1>1
  <1>2. CASE outcome = "asked" /\ Attempt(k + 1, up, r)
    BY <1>2 DEF Attempt, Sent, Invalid, OverIn
  <1> QED
    BY <1>1, <1>2 DEF Settle, Return

(* Nor after an attempt that begins when none is open.                     *)
LEMMA AttemptConn ==
    ASSUME NEW k, NEW up \in [Attempts -> Status], NEW r, OverIn(up), Attempt(k, up, r)
    PROVE  ConnTypeOK' /\ LiveIsCurrent'
  BY DEF Attempt, Sent, Invalid, OverIn, ConnTypeOK, LiveIsCurrent, OpenIn, Status

(* Closing the one open connection leaves none.                            *)
LEMMA ClosedOver ==
    ASSUME ConnTypeOK, LiveIsCurrent, NEW k \in Attempts, OpenIn(upstream, k)
    PROVE  Closed(k) \in [Attempts -> Status] /\ OverIn(Closed(k))
  BY DEF ConnTypeOK, LiveIsCurrent, Closed, OverIn, OpenIn, Status

(* The events of an HTTP request keep to that.                             *)
LEMMA HttpConn ==
    ASSUME ConnTypeOK, LiveIsCurrent, NEW k \in Attempts, HttpEvent(k)
    PROVE  ConnTypeOK' /\ LiveIsCurrent'
  <1> USE DEF ConnTypeOK, LiveIsCurrent
  <1>1. CASE Response(k)
    BY <1>1 DEF Response, OpenIn, Status
  <1>2. CASE Chunk(k)
    BY <1>2 DEF Chunk, OpenIn
  <1>3. CASE ResponseEnd(k)
    <2>1. OverIn(Closed(k)) /\ Closed(k) \in [Attempts -> Status]
      BY <1>3, ClosedOver DEF ResponseEnd, OpenIn
    <2> QED
      BY <1>3, <2>1, SettleConn DEF ResponseEnd, OverIn
  <1>4. ASSUME NEW outcome, Fails(k, outcome)
        PROVE  ConnTypeOK' /\ LiveIsCurrent'
    <2>1. OverIn(Closed(k)) /\ Closed(k) \in [Attempts -> Status]
      BY <1>4, ClosedOver DEF Fails, OpenIn
    <2> QED
      BY <1>4, <2>1, SettleConn DEF Fails, OverIn
  <1>5. CASE ResponseError(k)
    <2>1. OverIn(Closed(k)) /\ Closed(k) \in [Attempts -> Status]
      BY <1>5, ClosedOver DEF ResponseError, OpenIn
    <2>2. CASE Settle(k, "rejected", Closed(k), res)
      BY <2>1, <2>2, SettleConn DEF OverIn
    <2>3. CASE upstream' = Closed(k)
      BY <2>1, <2>3 DEF OverIn, OpenIn
    <2> QED
      BY <1>5, <2>2, <2>3 DEF ResponseError
  <1>6. CASE Timeout(k)
    BY <1>6, SettleConn DEF Timeout
  <1>7. CASE Finish(k)
    BY <1>7, SettleConn DEF Finish
  <1> QED
    BY <1>1, <1>2, <1>3, <1>4, <1>5, <1>6, <1>7 DEF HttpEvent, RequestError, ProxyTimeout

-----------------------------------------------------------------------------
(* So do the attempts, the settling and the events of an upgrade request.  *)
LEMMA WsAttemptConn ==
    ASSUME NEW k, NEW up \in [Attempts -> Status], NEW s, OverIn(up),
           WsAttempt(k, up, s)
    PROVE  ConnInv'
  <1> USE DEF ConnInv, ConnTypeOK, LiveIsCurrent, AskedIsOver, OpenIn, OverIn, Status
  <1>1. PICK j \in k .. instances + 1 : WsAttempt(k, up, s)!(j)
    BY DEF WsAttempt
  <1> QED
    BY <1>1

LEMMA WsSettleConn ==
    ASSUME NEW k, NEW outcome, NEW up \in [Attempts -> Status], NEW s,
           \A j \in Attempts : OpenIn(up, j) => j = current,
           asked => OverIn(up),
           WsSettle(k, outcome, up, s)
    PROVE  ConnInv'
  <1> USE DEF ConnInv, ConnTypeOK, LiveIsCurrent, AskedIsOver
  <1>1. CASE upstream' = up /\ UNCHANGED <<current, asked>>
    BY <1>1 DEF OverIn, OpenIn
  <1>2. CASE asked /\ WsAttempt(k + 1, up, s)
    BY <1>2, WsAttemptConn
  <1> QED
    BY <1>1, <1>2 DEF WsSettle, WsRefuse

LEMMA WsConn ==
    ASSUME ConnInv, NEW k \in Attempts, WsEvent(k)
    PROVE  ConnInv'
  <1> USE DEF ConnInv, ConnTypeOK, LiveIsCurrent, AskedIsOver
  <1>0. ASSUME OpenIn(upstream, k)
        PROVE  OverIn(Closed(k)) /\ Closed(k) \in [Attempts -> Status] /\ k = current /\ ~asked
    BY <1>0, ClosedOver DEF OverIn
  <1>1. CASE ConnectionError(k)
    BY <1>0, <1>1 DEF ConnectionError, OpenIn, OverIn
  <1>2. CASE OtherError(k)
    BY <1>0, <1>2, WsSettleConn DEF OtherError, OpenIn, OverIn
  <1>3. CASE Fallback(k)
    BY <1>0, <1>3 DEF Fallback, OpenIn, Status
  <1>4. CASE FallbackOver(k)
    BY <1>0, <1>4 DEF FallbackOver, OpenIn, OverIn
  <1>5. CASE Upgrade(k)
    BY <1>0, <1>5 DEF Upgrade, OpenIn, Status
  <1>6. CASE TunnelEnds(k)
    BY <1>0, <1>6 DEF TunnelEnds, OpenIn, OverIn
  <1>7. CASE TunnelError(k)
    BY <1>0, <1>7, WsSettleConn DEF TunnelError, OpenIn, OverIn
  <1>8. CASE WsTimeout(k)
    BY <1>8, WsSettleConn DEF WsTimeout
  <1> QED
    BY <1>1, <1>2, <1>3, <1>4, <1>5, <1>6, <1>7, <1>8 DEF WsEvent

-----------------------------------------------------------------------------
\* The state of the proxy a request does not use.
KindInv ==
    /\ kind # "http" => connected = FALSE /\ res = NoResponse
    /\ kind # "ws" => socket = "closed" /\ spoken = {} /\ asked = FALSE

(* No step of one kind of request touches what another kind keeps.         *)
LEMMA KindStep == KindInv /\ [GatewayNext]_gatewayVars => KindInv'
  <1> SUFFICES ASSUME KindInv, [GatewayNext]_gatewayVars
               PROVE  KindInv'
    OBVIOUS
  <1> USE DEF KindInv, routeVars, wsVars, httpVars, headVars, requestVars, docsVars
  <1>1. CASE Handle
    BY <1>1 DEF Handle, Turned, Proxied, Arriving
  <1>2. CASE ProxyForward
    BY <1>2 DEF ProxyForward, Turned, Proxied, Arriving
  <1>3. CASE OnDocs(Use) \/ \E s \in Service : OnDocs(FetchOver(s))
    BY <1>3 DEF OnDocs
  <1>4. CASE OnHttp(ClientCloses) \/ \E k \in Attempts : OnHttp(HttpEvent(k))
    BY <1>4 DEF OnHttp
  <1>5. CASE OnWs(ClientGone) \/ \E k \in Attempts : OnWs(WsEvent(k))
    BY <1>5 DEF OnWs
  <1>6. CASE UNCHANGED gatewayVars
    BY <1>6 DEF gatewayVars
  <1> QED
    BY <1>1, <1>2, <1>3, <1>4, <1>5, <1>6 DEF GatewayNext

(* The first attempt finds no connection, since attempt 0 does not exist.  *)
LEMMA ConnBegins ==
    ASSUME ConnInv, KindInv, Arriving, Turned \/ Proxied
    PROVE  ConnInv'
  <1>1. current = 0 /\ ~(0 \in Attempts)
    BY DEF Arriving, Attempts
  <1>2. OverIn(upstream)
    BY <1>1 DEF ConnInv, LiveIsCurrent, OverIn
  <1>3. CASE kind = "http"
    <2>1. ConnTypeOK' /\ LiveIsCurrent'
      BY <1>2, <1>3, AttemptConn DEF ConnInv, ConnTypeOK, LiveIsCurrent, OpenIn, OverIn,
                                     Turned, Proxied, ProxyRequest, Return
    <2>2. ~asked'
      BY <1>3 DEF KindInv, Turned, Proxied, wsVars
    <2> QED
      BY <2>1, <2>2 DEF ConnInv, AskedIsOver
  <1>4. CASE kind = "ws"
    <2>1. CASE WsRefuse(upstream, socket)
      BY <2>1 DEF WsRefuse, ConnInv, ConnTypeOK, LiveIsCurrent, AskedIsOver, OpenIn, OverIn
    <2>2. CASE WsAttempt(1, upstream, socket)
      BY <1>2, <2>2, WsAttemptConn DEF ConnInv, ConnTypeOK
    <2>3. CASE current' = 1 /\ UNCHANGED <<upstream, asked>>
      BY <1>2, <2>3 DEF ConnInv, ConnTypeOK, LiveIsCurrent, AskedIsOver, OpenIn, OverIn
    <2> QED
      BY <1>4, <2>1, <2>2, <2>3 DEF Turned, Proxied, WsRequest
  <1> QED
    BY <1>3, <1>4 DEF Arriving

(* Every step of the gateway keeps ConnInv.                                *)
LEMMA ConnStep == ConnInv /\ KindInv /\ [GatewayNext]_gatewayVars => ConnInv'
  <1> SUFFICES ASSUME ConnInv, KindInv, [GatewayNext]_gatewayVars
               PROVE  ConnInv'
    OBVIOUS
  <1> USE DEF routeVars, wsVars, httpVars, headVars, requestVars, docsVars
  <1>1. CASE Handle \/ ProxyForward
    BY <1>1, ConnBegins DEF Handle, ProxyForward
  <1>2. CASE UNCHANGED <<current, upstream, asked>>
    BY <1>2 DEF ConnInv, ConnTypeOK, LiveIsCurrent, AskedIsOver, OpenIn, OverIn
  <1>3. ASSUME NEW k \in Attempts, OnHttp(HttpEvent(k))
        PROVE  ConnInv'
    BY <1>3, HttpConn DEF ConnInv, OnHttp, KindInv, AskedIsOver
  <1>4. CASE OnHttp(ClientCloses)
    <2>1. ~asked'
      BY <1>4 DEF OnHttp, KindInv
    <2>2. CASE current = 0
      BY <1>4, <2>1, <2>2 DEF OnHttp, ClientCloses, ConnInv, ConnTypeOK, LiveIsCurrent, AskedIsOver, OpenIn
    <2>3. CASE current # 0
      <3>1. PICK aborted \in {{}, {k \in Attempts : streamed /\ upstream[k] = "open"}} :
              LET up == [k \in Attempts |-> IF k \in aborted THEN "closed" ELSE upstream[k]]
                  left == IF direct /\ aborted # {} THEN Refusal(res) ELSE res
              IN  Settle(current, "resolved", up, left)
        BY <1>4, <2>3 DEF OnHttp, ClientCloses
      <3>2. ConnTypeOK' /\ LiveIsCurrent'
        <4> DEFINE up == [k \in Attempts |-> IF k \in aborted THEN "closed" ELSE upstream[k]]
        <4>1. up \in [Attempts -> Status] /\ \A k \in Attempts : OpenIn(up, k) => k = current
          BY DEF ConnInv, ConnTypeOK, LiveIsCurrent, OpenIn, Status
        <4>2. PICK left : Settle(current, "resolved", up, left)
          BY <3>1
        <4> HIDE DEF up
        <4> QED
          BY <4>1, <4>2, SettleConn
      <3> QED
        BY <2>1, <3>2 DEF ConnInv, AskedIsOver
    <2> QED
      BY <2>2, <2>3
  <1>5. ASSUME NEW k \in Attempts, OnWs(WsEvent(k))
        PROVE  ConnInv'
    BY <1>5, WsConn DEF OnWs
  <1>6. CASE OnWs(ClientGone)
    <2> DEFINE up == [k \in Attempts |-> IF upstream[k] = "tunnel" THEN "closed" ELSE upstream[k]]
    <2>1. /\ up \in [Attempts -> Status]
          /\ \A k \in Attempts : OpenIn(up, k) => k = current
          /\ asked => OverIn(up)
      BY DEF ConnInv, ConnTypeOK, LiveIsCurrent, AskedIsOver, OpenIn, OverIn, Status
    <2>2. WsSettle(current, "resolved", up, "closed")
      BY <1>6 DEF OnWs, ClientGone
    <2> HIDE DEF up
    <2> QED
      BY <2>1, <2>2, WsSettleConn
  <1> QED
    BY <1>1, <1>2, <1>3, <1>4, <1>5, <1>6 DEF GatewayNext, gatewayVars, attemptVars, OnDocs

LEMMA ConnInit == GatewayInit => ConnInv /\ KindInv
  <1> SUFFICES ASSUME GatewayInit
               PROVE  ConnInv /\ KindInv
    OBVIOUS
  <1>1. asked = FALSE /\ upstream = [k \in Attempts |-> "none"]
    BY DEF GatewayInit, BaseInit, WsInit, WithoutWs
  <1>2. ConnInv
    BY <1>1 DEF ConnInv, ConnTypeOK, LiveIsCurrent, AskedIsOver, OpenIn, Status
  <1>3. KindInv
    BY DEF GatewayInit, KindInv, WsInit, WithoutWs, WithoutHttp
  <1> QED
    BY <1>2, <1>3

-----------------------------------------------------------------------------
\* One answer, which one source gives.
Responses == [headersSent : BOOLEAN, ended : BOOLEAN, from : SUBSET Sources,
              status : Sources, phrase : Sources, heads : SUBSET Attempts]

OneAnswer(r) ==
    /\ r \in Responses
    /\ r.headersSent <=> r.from # {}
    /\ r.ended => r.headersSent
    /\ \E s \in Sources : r.from \subseteq {s}
    /\ r.headersSent => r.status \in r.from

\* An answer that has begun is over or is the latest attempt's.
AnswerOK(up, c, r) ==
    /\ OneAnswer(r)
    /\ \A k \in Attempts : up[k] = "answered" /\ ~r.headersSent => r.status = k
    /\ r.headersSent /\ ~r.ended => c \in Attempts /\ up[c] = "answered" /\ r.from = {c}

Begun(r) == r.headersSent /\ ~r.ended

LEMMA AttemptSource == Attempts \subseteq Sources /\ Gateway \in Sources
  BY ProxyAssumption DEF Attempts, Sources, Gateway

(* What the handlers make of one answer is one answer: handleError, the    *)
(* error of an answer under way, and a chunk.                              *)
LEMMA RefusalOver ==
    ASSUME NEW r, OneAnswer(r), ~Begun(r)
    PROVE  OneAnswer(Refusal(r)) /\ Refusal(r).headersSent /\ Refusal(r).ended
  BY AttemptSource DEF OneAnswer, Responses, Refusal, Begun

LEMMA RefusalOK ==
    ASSUME NEW up, NEW c, NEW r, AnswerOK(up, c, r)
    PROVE  AnswerOK(up, c, Refusal(r))
  <1>1. CASE Begun(r)
    BY <1>1 DEF Begun, Refusal, AnswerOK, OneAnswer, Responses
  <1>2. CASE ~Begun(r)
    BY <1>2, RefusalOver DEF AnswerOK
  <1> QED
    BY <1>1, <1>2

LEMMA CutOffOver ==
    ASSUME NEW r, OneAnswer(r)
    PROVE  OneAnswer(CutOff(r)) /\ ~Begun(CutOff(r)) /\ CutOff(r).headersSent = r.headersSent
                                /\ CutOff(r).status = r.status
  BY DEF OneAnswer, Responses, CutOff, Begun

LEMMA WrittenOK ==
    ASSUME NEW up, NEW c \in Attempts, NEW r, AnswerOK(up, c, r), up[c] = "answered"
    PROVE  AnswerOK(up, c, Written(c, r)) /\ Written(c, r).headersSent
  <1>1. CASE r.ended
    BY <1>1 DEF Written, AnswerOK, OneAnswer
  <1>2. CASE ~r.ended
    <2> DEFINE w == [r EXCEPT !.headersSent = TRUE, !.from = @ \cup {c}]
    <2>1. r.from \subseteq {c} /\ r.status = c
      BY <1>2 DEF AnswerOK, OneAnswer, Responses
    <2>2. w.from = {c} /\ w.headersSent /\ w.status = c /\ w \in Responses
      BY <2>1, AttemptSource DEF AnswerOK, OneAnswer, Responses
    <2>3. AnswerOK(up, c, w)
      <3> HIDE DEF w
      <3> QED
        BY <2>2, AttemptSource DEF AnswerOK, OneAnswer
    <2> QED
      BY <1>2, <2>2, <2>3 DEF Written
  <1> QED
    BY <1>1, <1>2

(* An attempt is asked for only when no answer is under way: what          *)
(* discover() does then begins none.                                       *)
LEMMA SettleAnswer ==
    ASSUME NEW k, NEW outcome, NEW up \in [Attempts -> Status], NEW r,
           AnswerOK(up, current, r),
           outcome = "asked" => OverIn(up) /\ ~Begun(r),
           Settle(k, outcome, up, r)
    PROVE  AnswerOK(upstream', current', res')
  <1>1. CASE upstream' = up /\ current' = current /\ (res' = r \/ res' = Refusal(r))
    BY <1>1, RefusalOK
  <1>2. CASE outcome = "asked" /\ Attempt(k + 1, up, r)
    BY <1>2, RefusalOver DEF Attempt, Sent, Invalid, AnswerOK, Begun, OverIn, OpenIn
  <1> QED
    BY <1>1, <1>2 DEF Settle, Return, Reported

LEMMA QuietOK ==
    ASSUME NEW up, NEW c, NEW r, OneAnswer(r), ~Begun(r), OverIn(up)
    PROVE  AnswerOK(up, c, r)
  BY DEF AnswerOK, Begun, OverIn, OpenIn

(* The events of an HTTP request keep the one answer.                      *)
LEMMA HttpAnswer ==
    ASSUME ConnInv, AnswerOK(upstream, current, res), NEW k \in Attempts, HttpEvent(k)
    PROVE  AnswerOK(upstream', current', res')
  <1> USE DEF ConnInv, ConnTypeOK, LiveIsCurrent
  <1>0. ASSUME OpenIn(upstream, k)
        PROVE  OverIn(Closed(k)) /\ Closed(k) \in [Attempts -> Status] /\ k = current
    BY <1>0, ClosedOver
  <1>00. OneAnswer(res)
    BY DEF AnswerOK
  <1>1. CASE Response(k)
    <2>1. k = current /\ upstream' = [upstream EXCEPT ![k] = "answered"] /\ current' = current
      BY <1>0, <1>1 DEF Response, OpenIn
    <2>2. ~Begun(res)
      BY <1>1, <2>1 DEF Response, AnswerOK, Begun
    <2>3. CASE res.headersSent
      <3>1. res' = res
        BY <1>1, <2>3 DEF Response, Copied
      <3> QED
        BY <2>1, <2>2, <2>3, <3>1 DEF AnswerOK, Begun
    <2>4. CASE ~res.headersSent
      <3>1. PICK phrase \in {res.phrase, k} :
              res' = [res EXCEPT !.status = k, !.phrase = phrase, !.heads = @ \cup {k}]
        BY <1>1, <2>4 DEF Response, Copied
      <3>2. OneAnswer(res') /\ res'.status = k /\ ~res'.headersSent
        BY <2>4, <3>1, AttemptSource DEF AnswerOK, OneAnswer, Responses
      <3>3. \A j \in Attempts : upstream'[j] = "answered" => j = k
        BY <2>1 DEF OpenIn
      <3> QED
        BY <3>2, <3>3 DEF AnswerOK
    <2> QED
      BY <2>3, <2>4
  <1>2. CASE Chunk(k)
    BY <1>0, <1>2, WrittenOK DEF Chunk, OpenIn
  <1>3. CASE ResponseEnd(k)
    <2>1. OneAnswer(Written(k, res))
      BY <1>0, <1>3, WrittenOK DEF ResponseEnd, OpenIn, AnswerOK
    <2>2. AnswerOK(Closed(k), current, CutOff(Written(k, res))) /\ ~Begun(CutOff(Written(k, res)))
      BY <1>0, <1>3, <2>1, CutOffOver, QuietOK DEF ResponseEnd, OpenIn
    <2> QED
      BY <1>0, <1>3, <2>2, SettleAnswer DEF ResponseEnd, OpenIn
  <1>4. ASSUME NEW outcome, Fails(k, outcome)
        PROVE  AnswerOK(upstream', current', res')
    <2> DEFINE r == IF upstream[k] = "answered" THEN CutOff(res) ELSE res
    <2>1. OneAnswer(r) /\ ~Begun(r)
      BY <1>0, <1>00, <1>4, CutOffOver DEF Fails, OpenIn, Begun, AnswerOK
    <2>2. OverIn(Closed(k)) /\ Closed(k) \in [Attempts -> Status] /\ Settle(k, outcome, Closed(k), r)
      BY <1>0, <1>4 DEF Fails, OpenIn
    <2> HIDE DEF r
    <2>3. AnswerOK(Closed(k), current, r)
      BY <2>1, <2>2, QuietOK
    <2> QED
      BY <2>1, <2>2, <2>3, SettleAnswer
  <1>5. CASE ResponseError(k)
    <2>1. OverIn(Closed(k)) /\ Closed(k) \in [Attempts -> Status]
      BY <1>0, <1>5 DEF ResponseError, OpenIn
    <2>2. CASE ~res.headersSent /\ Settle(k, "rejected", Closed(k), res)
      BY <1>00, <2>1, <2>2, QuietOK, SettleAnswer DEF Begun
    <2>3. CASE upstream' = Closed(k) /\ res' = CutOff(res)
      BY <1>00, <2>1, <2>3, CutOffOver, QuietOK
    <2> QED
      BY <1>5, <2>2, <2>3 DEF ResponseError
  <1>6. CASE Timeout(k)
    BY <1>6, SettleAnswer DEF Timeout
  <1>7. CASE Finish(k)
    BY <1>7, SettleAnswer DEF Finish
  <1> QED
    BY <1>1, <1>2, <1>3, <1>4, <1>5, <1>6, <1>7 DEF HttpEvent, RequestError, ProxyTimeout

(* So does the client's departure, which a direct request answers with an  *)
(* error nobody reads.                                                     *)
LEMMA ClosesAnswer ==
    ASSUME ConnInv, AnswerOK(upstream, current, res), ClientCloses
    PROVE  AnswerOK(upstream', current', res')
  <1>1. CASE UNCHANGED <<current, upstream, res>>
    BY <1>1
  <1>2. ASSUME NEW aborted \in {{}, {k \in Attempts : streamed /\ upstream[k] = "open"}},
               Settle(current, "resolved",
                      [k \in Attempts |-> IF k \in aborted THEN "closed" ELSE upstream[k]],
                      IF direct /\ aborted # {} THEN Refusal(res) ELSE res)
        PROVE  AnswerOK(upstream', current', res')
    <2> DEFINE up == [k \in Attempts |-> IF k \in aborted THEN "closed" ELSE upstream[k]]
               left == IF direct /\ aborted # {} THEN Refusal(res) ELSE res
    <2>1. up \in [Attempts -> Status] /\ \A k \in Attempts : up[k] = "answered" <=> upstream[k] = "answered"
      BY DEF ConnInv, ConnTypeOK, Status
    <2>2. AnswerOK(upstream, current, left)
      BY RefusalOK
    <2>3. Settle(current, "resolved", up, left)
      BY <1>2
    <2> HIDE DEF up, left
    <2>4. AnswerOK(up, current, left)
      BY <2>1, <2>2 DEF AnswerOK
    <2> QED
      BY <2>1, <2>3, <2>4, SettleAnswer
  <1> QED
    BY <1>1, <1>2 DEF ClientCloses

LEMMA ArrivingQuiet ==
    ASSUME ConnInv, current = 0
    PROVE  OverIn(upstream) /\ upstream \in [Attempts -> Status]
  BY DEF ConnInv, ConnTypeOK, LiveIsCurrent, OverIn, Attempts

(* And so does the beginning: nothing has been said yet.                   *)
LEMMA BeginsAnswer ==
    ASSUME ConnInv, AnswerOK(upstream, current, res), Arriving, kind = "http", Turned \/ Proxied
    PROVE  AnswerOK(upstream', current', res')
  <1>1. ~Begun(res) /\ OverIn(upstream)
    BY ArrivingQuiet DEF Arriving, AnswerOK, Begun, Attempts
  <1>2. CASE Return(upstream, Refusal(res))
    BY <1>2, RefusalOK DEF Return
  <1>3. CASE Attempt(1, upstream, res)
    BY <1>1, <1>3, RefusalOver DEF Attempt, Sent, Invalid, AnswerOK, Begun, OverIn, OpenIn,
                                   ConnInv, ConnTypeOK
  <1> QED
    BY <1>2, <1>3 DEF Turned, Proxied, ProxyRequest

AnswerInv == kind = "http" => AnswerOK(upstream, current, res)

(* Every step of the gateway keeps AnswerInv.                              *)
LEMMA AnswerStep == ConnInv /\ KindInv /\ AnswerInv /\ [GatewayNext]_gatewayVars => AnswerInv'
  <1> SUFFICES ASSUME ConnInv, KindInv, AnswerInv, [GatewayNext]_gatewayVars, kind' = "http"
               PROVE  AnswerOK(upstream', current', res')
    BY DEF AnswerInv
  <1>1. CASE Handle \/ ProxyForward
    BY <1>1, BeginsAnswer DEF Handle, ProxyForward, AnswerInv, routeVars
  <1>2. CASE OnDocs(Use) \/ \E s \in Service : OnDocs(FetchOver(s))
    BY <1>2 DEF OnDocs, routeVars
  <1>3. ASSUME NEW k \in Attempts, OnHttp(HttpEvent(k))
        PROVE  AnswerOK(upstream', current', res')
    BY <1>3, HttpAnswer DEF AnswerInv, OnHttp
  <1>4. CASE OnHttp(ClientCloses)
    BY <1>4, ClosesAnswer DEF AnswerInv, OnHttp
  <1>5. CASE OnWs(ClientGone) \/ \E k \in Attempts : OnWs(WsEvent(k))
    BY <1>5 DEF OnWs, routeVars
  <1>6. CASE UNCHANGED gatewayVars
    BY <1>6 DEF gatewayVars, routeVars, attemptVars, httpVars, AnswerInv
  <1> QED
    BY <1>1, <1>2, <1>3, <1>4, <1>5, <1>6 DEF GatewayNext

LEMMA NoResponseOne == OneAnswer(NoResponse) /\ ~NoResponse.headersSent
                       /\ NoResponse.status = Gateway
  BY AttemptSource DEF OneAnswer, Responses, NoResponse

LEMMA NoResponseOK ==
    ASSUME NEW up, NEW c, \A k \in Attempts : up[k] # "answered"
    PROVE  AnswerOK(up, c, NoResponse)
  BY NoResponseOne DEF AnswerOK

LEMMA AnswerInit == GatewayInit => AnswerInv
  BY NoResponseOK DEF GatewayInit, BaseInit, HttpInit, AnswerInv

GatewayInv == ConnInv /\ KindInv /\ AnswerInv

(* The inductive invariant that the theorems below rest on.                *)
LEMMA GatewayInvariant == GatewaySpec => []GatewayInv
  <1>1. GatewayInit => GatewayInv
    BY ConnInit, AnswerInit DEF GatewayInv
  <1>2. GatewayInv /\ [GatewayNext]_gatewayVars => GatewayInv'
    BY ConnStep, KindStep, AnswerStep DEF GatewayInv
  <1> QED
    BY <1>1, <1>2, PTL DEF GatewaySpec

LEMMA AnswerIsOne == GatewayInv => OneAnswer(res)
  BY NoResponseOne DEF GatewayInv, AnswerInv, KindInv, AnswerOK

(* However many instances a service has, a request, a retry or an upgrade  *)
(* never has two of them at work: discover() goes on only when the         *)
(* connection before is over.                                              *)
THEOREM GatewayOneUpstream == GatewaySpec => []OneUpstream
  <1> QED
    BY GatewayInvariant, CurrentOnly, PTL DEF GatewayInv, ConnInv

(* The status code a client reads is of the instance, or of the gateway,   *)
(* whose answer it is, whatever attempts failed before: Response sets it   *)
(* at every attempt, and handleError at the last.  This is not so of the   *)
(* status message, nor of the headers.                                     *)
THEOREM GatewayStatusOfSource == GatewaySpec => []StatusOfSource
  <1>1. GatewayInv => StatusOfSource
    BY AnswerIsOne DEF OneAnswer, StatusOfSource
  <1> QED
    BY <1>1, GatewayInvariant, PTL

-----------------------------------------------------------------------------
\* A step of Exchange from response r to response n.
Moves(r, n) ==
    \/ n.from = r.from /\ n.ended = r.ended
    \/ r.from = {} /\ (\E s \in Sources : n.from = {s}) /\ n.ended \in BOOLEAN
    \/ r.from # {} /\ ~r.ended /\ n.ended = TRUE /\ n.from = r.from

(* It is one step of Exchange, or none.                                    *)
LEMMA MovesExchange ==
    Moves(res, res') => [Exch!Next]_<<res.from, res.ended>>
  BY DEF Moves, Exch!Next, Exch!Begin, Exch!Finish

(* What the handlers do to a response is such a step.                      *)
LEMMA RefusalMoves ==
    ASSUME NEW r, OneAnswer(r)
    PROVE  Moves(r, Refusal(r)) /\ Moves(r, r)
  BY AttemptSource DEF OneAnswer, Responses, Refusal, Moves

LEMMA CutOffMoves ==
    ASSUME NEW r, OneAnswer(r)
    PROVE  Moves(r, CutOff(r)) /\ Moves(r, Refusal(CutOff(r)))
  BY AttemptSource DEF OneAnswer, Responses, Refusal, CutOff, Moves

LEMMA WrittenMoves ==
    ASSUME NEW up, NEW c \in Attempts, NEW r, AnswerOK(up, c, r), up[c] = "answered"
    PROVE  /\ Moves(r, Written(c, r))
           /\ Moves(r, CutOff(Written(c, r)))
           /\ Moves(r, Refusal(CutOff(Written(c, r))))
  <1>1. CASE r.ended
    <2>1. Written(c, r) = r
      BY <1>1 DEF Written
    <2> QED
      BY <2>1, CutOffMoves, RefusalMoves DEF AnswerOK
  <1>2. CASE ~r.ended
    <2> DEFINE w == [r EXCEPT !.headersSent = TRUE, !.from = @ \cup {c}]
    <2>1. r.from = {} \/ r.from = {c}
      BY <1>2 DEF AnswerOK, OneAnswer, Responses
    <2>2. w.from = {c} /\ w.headersSent = TRUE /\ w.ended = FALSE /\ w \in Responses
      BY <1>2, <2>1, AttemptSource DEF AnswerOK, OneAnswer, Responses
    <2>3. Written(c, r) = w /\ r.ended = FALSE
      BY <1>2 DEF Written, AnswerOK, OneAnswer, Responses
    <2>4. CutOff(w).from = {c} /\ CutOff(w).ended = TRUE /\ Refusal(CutOff(w)) = CutOff(w)
      BY <2>2 DEF CutOff, Refusal, Responses
    <2>5. {c} # {} /\ c \in Sources
      BY AttemptSource
    <2> HIDE DEF w
    <2>6. Moves(r, w)
      BY <2>1, <2>2, <2>3, <2>5 DEF Moves
    <2>7. Moves(r, CutOff(w))
      BY <2>1, <2>3, <2>4, <2>5 DEF Moves
    <2> QED
      BY <2>3, <2>4, <2>6, <2>7
  <1> QED
    BY <1>1, <1>2

LEMMA SettleResponse ==
    ASSUME NEW k, NEW outcome, NEW up, NEW r, Settle(k, outcome, up, r)
    PROVE  res' = r \/ res' = Refusal(r)
  BY DEF Settle, Return, Reported, Attempt, Sent, Invalid

LEMMA HttpMoves ==
    ASSUME ConnInv, AnswerOK(upstream, current, res), NEW k \in Attempts, HttpEvent(k)
    PROVE  Moves(res, res')
  <1>0. OneAnswer(res)
    BY DEF AnswerOK
  <1>1. CASE Response(k)
    BY <1>0, <1>1 DEF Response, Copied, Moves, OneAnswer, Responses
  <1>2. ASSUME upstream[k] = "answered"
        PROVE  /\ Moves(res, Written(k, res))
               /\ Moves(res, CutOff(Written(k, res)))
               /\ Moves(res, Refusal(CutOff(Written(k, res))))
    BY <1>2, WrittenMoves DEF ConnInv, LiveIsCurrent, OpenIn
  <1>3. CASE Chunk(k)
    BY <1>2, <1>3 DEF Chunk
  <1>4. CASE ResponseEnd(k)
    BY <1>2, <1>4, SettleResponse DEF ResponseEnd
  <1>5. ASSUME NEW outcome, Fails(k, outcome)
        PROVE  Moves(res, res')
    BY <1>0, <1>5, SettleResponse, RefusalMoves, CutOffMoves DEF Fails
  <1>6. CASE ResponseError(k)
    BY <1>0, <1>6, SettleResponse, RefusalMoves, CutOffMoves DEF ResponseError
  <1>7. CASE Timeout(k) \/ Finish(k)
    BY <1>0, <1>7, SettleResponse, RefusalMoves DEF Timeout, Finish
  <1> QED
    BY <1>1, <1>3, <1>4, <1>5, <1>6, <1>7 DEF HttpEvent, RequestError, ProxyTimeout

LEMMA RefusalTwice ==
    ASSUME NEW r, OneAnswer(r)
    PROVE  Refusal(Refusal(r)) = Refusal(r)
  BY DEF OneAnswer, Responses, Refusal

(* Every step of the gateway is a step of Exchange, or none.               *)
LEMMA GatewayMoves ==
    GatewayInv /\ [GatewayNext]_gatewayVars => Moves(res, res')
  <1> SUFFICES ASSUME GatewayInv, [GatewayNext]_gatewayVars
               PROVE  Moves(res, res')
    OBVIOUS
  <1>0. OneAnswer(res)
    BY AnswerIsOne
  <1>1. CASE res' = res \/ res' = Refusal(res)
    BY <1>0, <1>1, RefusalMoves
  <1>2. CASE Handle \/ ProxyForward
    BY <1>1, <1>2 DEF Handle, ProxyForward, Turned, Proxied, ProxyRequest, Return, Attempt, Sent, Invalid
  <1>3. ASSUME NEW k \in Attempts, OnHttp(HttpEvent(k))
        PROVE  Moves(res, res')
    BY <1>3, HttpMoves DEF OnHttp, GatewayInv, AnswerInv
  <1>4. CASE OnHttp(ClientCloses)
    BY <1>0, <1>1, <1>4, SettleResponse, RefusalTwice DEF OnHttp, ClientCloses
  <1>5. CASE (OnWs(ClientGone) \/ \E k \in Attempts : OnWs(WsEvent(k)))
             \/ OnDocs(Use) \/ (\E s \in Service : OnDocs(FetchOver(s)))
             \/ UNCHANGED gatewayVars
    BY <1>1, <1>5 DEF OnWs, OnDocs, httpVars, gatewayVars
  <1> QED
    BY <1>2, <1>3, <1>4, <1>5 DEF GatewayNext

(* The gateway implements Exchange: retries, late answers, timers and      *)
(* broken connections never give a client two answers, a mixed one, or     *)
(* anything after the end.                                                 *)
THEOREM GatewayImplementsExchange == GatewaySpec => ImplementsExchange
  <1>1. GatewayInit => Exch!Init
    BY DEF GatewayInit, HttpInit, WithoutHttp, NoResponse, Exch!Init
  <1>2. GatewayInv /\ [GatewayNext]_gatewayVars => [Exch!Next]_<<res.from, res.ended>>
    BY GatewayMoves, MovesExchange
  <1> QED
    BY <1>1, <1>2, GatewayInvariant, PTL DEF GatewaySpec, ImplementsExchange, Exch!Spec, Exch!exchangeVars

-----------------------------------------------------------------------------
\* A direct request is done when it is sent; a client of a request that is
\* done has an answer that has begun, or a direct request's instance.
HeldInv ==
    kind = "http" =>
        /\ direct /\ ~done => current = 0
        /\ done /\ connected =>
              res.headersSent \/ (direct /\ \E k \in Attempts : upstream[k] \in {"open", "answered"})

(* After handleError the headers are out.                                  *)
LEMMA RefusalSent ==
    ASSUME NEW r, OneAnswer(r)
    PROVE  Refusal(r).headersSent
  BY DEF OneAnswer, Responses, Refusal

(* An attempt that is settled leaves proxyRequest pending, or the client   *)
(* with an answer.                                                         *)
LEMMA SettleHeld ==
    ASSUME direct /\ ~done => current = 0, NEW k \in Attempts, NEW outcome, NEW up, NEW r,
           OneAnswer(r), Settle(k, outcome, up, r),
           outcome = "resolved" \/ (done /\ ~direct) => r.headersSent
    PROVE  (direct /\ ~done' => current' = 0) /\ (done' => res'.headersSent)
  <1>0. k # 0
    BY DEF Attempts
  <1>1. CASE ~Pending(k) /\ UNCHANGED <<current, done>> /\ res' = Reported(outcome, r)
    BY <1>1, RefusalSent DEF Reported
  <1>2. CASE Return(up, r) /\ outcome = "resolved"
    BY <1>2 DEF Return
  <1>3. CASE Return(up, Refusal(r))
    BY <1>3, RefusalSent DEF Return
  <1>4. CASE Pending(k) /\ Attempt(k + 1, up, r)
    <2>1. ~direct
      BY <1>0, <1>4 DEF Pending
    <2> QED
      BY <1>4, <2>1, RefusalSent DEF Attempt, Sent, Invalid
  <1> QED
    BY <1>1, <1>2, <1>3, <1>4 DEF Settle

(* The events of an HTTP request keep HeldInv.                             *)
LEMMA HttpHeld ==
    ASSUME GatewayInv, HeldInv, kind = "http", NEW k \in Attempts, HttpEvent(k)
    PROVE  /\ direct /\ ~done' => current' = 0
           /\ done' /\ connected =>
                res'.headersSent \/ (direct /\ \E j \in Attempts : upstream'[j] \in {"open", "answered"})
  <1> USE DEF HeldInv
  <1>0. OneAnswer(res)
    BY AnswerIsOne
  <1>1. CASE Response(k)
    <2>1. UNCHANGED <<current, done>> /\ upstream'[k] = "answered"
      BY <1>1 DEF Response, GatewayInv, ConnInv, ConnTypeOK
    <2>2. res'.headersSent = res.headersSent
      BY <1>0, <1>1 DEF Response, Copied, OneAnswer, Responses
    <2> QED
      BY <2>1, <2>2
  <1>2. ASSUME upstream[k] = "answered"
        PROVE  OneAnswer(Written(k, res)) /\ Written(k, res).headersSent
    BY <1>2, WrittenOK DEF GatewayInv, ConnInv, LiveIsCurrent, OpenIn, AnswerInv, AnswerOK
  <1>3. CASE Chunk(k)
    BY <1>2, <1>3 DEF Chunk
  <1>4. CASE ResponseEnd(k)
    <2>1. OneAnswer(CutOff(Written(k, res))) /\ CutOff(Written(k, res)).headersSent
      BY <1>2, <1>4, CutOffOver DEF ResponseEnd
    <2> QED
      BY <1>4, <2>1, SettleHeld DEF ResponseEnd
  <1>5. CASE ~connected
    <2>1. current # 0 /\ Pending(k) => ~direct
      BY DEF Pending
    <2> QED
      BY <1>5, <2>1 DEF HttpEvent, RequestError, ProxyTimeout, Chunk, Response, ResponseEnd,
          ResponseError, Timeout, Finish, Fails, Settle, Return, Attempt, Sent, Invalid, Pending, Attempts
  <1>6. ASSUME NEW outcome \in {"asked", "rejected"}, Fails(k, outcome), connected
        PROVE  /\ direct /\ ~done' => current' = 0
               /\ done' => res'.headersSent
    <2> DEFINE r == IF upstream[k] = "answered" THEN CutOff(res) ELSE res
    <2>1. OneAnswer(r) /\ r.headersSent = res.headersSent
      BY <1>0, CutOffOver
    <2>2. Settle(k, outcome, Closed(k), r)
      BY <1>6 DEF Fails
    <2> HIDE DEF r
    <2> QED
      BY <1>6, <2>1, <2>2, SettleHeld
  <1>7. CASE ResponseError(k) /\ connected
    BY <1>0, <1>7, CutOffOver, SettleHeld DEF ResponseError
  <1>8. CASE (Timeout(k) \/ Finish(k)) /\ connected
    BY <1>0, <1>8, SettleHeld DEF Timeout, Finish, OneAnswer
  <1> QED
    BY <1>1, <1>3, <1>4, <1>5, <1>6, <1>7, <1>8 DEF HttpEvent, RequestError, ProxyTimeout

(* What begins a request establishes it.                                   *)
LEMMA BeginsHeld ==
    ASSUME ConnInv, OneAnswer(res), Arriving, kind = "http", Turned \/ Proxied, direct' = direct
    PROVE  /\ direct /\ ~done' => current' = 0
           /\ done' => res'.headersSent \/ (direct /\ \E k \in Attempts : upstream'[k] = "open")
  <1>1. CASE Return(upstream, Refusal(res))
    BY <1>1, RefusalSent DEF Return
  <1>2. CASE Attempt(1, upstream, res)
    <2>1. 1 \in Attempts
      BY ProxyAssumption DEF Attempts
    <2>2. CASE Sent(1, upstream, res)
      <3>1. upstream'[1] = "open" /\ done' = direct
        BY <2>1, <2>2 DEF Sent, ConnInv, ConnTypeOK
      <3> QED
        BY <2>1, <3>1
    <2>3. CASE Invalid(1, upstream, res)
      BY <2>3, RefusalSent DEF Invalid
    <2> QED
      BY <1>2, <2>2, <2>3 DEF Attempt
  <1> QED
    BY <1>1, <1>2 DEF Turned, Proxied, ProxyRequest

(* Every step of the gateway keeps HeldInv.                                *)
LEMMA HeldStep == GatewayInv /\ HeldInv /\ [GatewayNext]_gatewayVars => HeldInv'
  <1> SUFFICES ASSUME GatewayInv, HeldInv, [GatewayNext]_gatewayVars, kind' = "http"
               PROVE  /\ direct' /\ ~done' => current' = 0
                      /\ done' /\ connected' =>
                            \/ res'.headersSent
                            \/ direct' /\ \E k \in Attempts : upstream'[k] \in {"open", "answered"}
    BY DEF HeldInv
  <1>1. CASE Handle \/ ProxyForward
    <2>1. kind = "http" /\ Arriving /\ (Turned \/ Proxied) /\ direct' = direct
      BY <1>1 DEF Handle, ProxyForward, routeVars, requestVars
    <2>2. ConnInv /\ OneAnswer(res)
      BY AnswerIsOne DEF GatewayInv
    <2> QED
      BY <2>1, <2>2, BeginsHeld
  <1>2. CASE OnDocs(Use) \/ \E s \in Service : OnDocs(FetchOver(s))
    BY <1>2 DEF OnDocs, routeVars
  <1>3. ASSUME NEW k \in Attempts, OnHttp(HttpEvent(k))
        PROVE  /\ direct' /\ ~done' => current' = 0
               /\ done' /\ connected' =>
                     \/ res'.headersSent
                     \/ direct' /\ \E j \in Attempts : upstream'[j] \in {"open", "answered"}
    <2>1. direct' = direct /\ connected' = connected
      BY <1>3 DEF OnHttp, HttpEvent, RequestError, ProxyTimeout, Chunk, Response, ResponseEnd,
                  ResponseError, Timeout, Finish, Fails, requestVars
    <2>2. HttpEvent(k) /\ kind = "http"
      BY <1>3 DEF OnHttp
    <2> QED
      BY <2>1, <2>2, HttpHeld
  <1>4. CASE OnHttp(ClientCloses)
    <2>1. ~connected' /\ direct' = direct /\ kind = "http"
      BY <1>4 DEF OnHttp, ClientCloses, requestVars
    <2>2. CASE UNCHANGED <<current, done>>
      BY <2>1, <2>2 DEF HeldInv
    <2>3. ASSUME NEW up, NEW r, Settle(current, "resolved", up, r)
          PROVE  UNCHANGED <<current, done>> \/ done'
      BY <2>3 DEF Settle, Return
    <2> QED
      BY <1>4, <2>1, <2>2, <2>3 DEF OnHttp, ClientCloses
  <1>5. CASE OnWs(ClientGone) \/ \E k \in Attempts : OnWs(WsEvent(k))
    BY <1>5 DEF OnWs, routeVars
  <1>6. CASE UNCHANGED gatewayVars
    BY <1>6 DEF gatewayVars, routeVars, attemptVars, httpVars, HeldInv
  <1> QED
    BY <1>1, <1>2, <1>3, <1>4, <1>5, <1>6 DEF GatewayNext

(* When proxyRequest has returned, no waiting client is left without an    *)
(* instance that is answering it, whichever of the handlers ended it.      *)
THEOREM GatewayNeverAbandoned == GatewaySpec => []NeverAbandoned
  <1>1. GatewayInit => HeldInv
    BY DEF GatewayInit, BaseInit, HeldInv
  <1>2. GatewayInv /\ HeldInv => NeverAbandoned
    <2> SUFFICES ASSUME GatewayInv, HeldInv, done, connected, ~res.ended
                 PROVE  \E k \in Attempts : upstream[k] = "answered" \/ (direct /\ upstream[k] = "open")
      BY DEF NeverAbandoned
    <2>1. kind = "http" /\ AnswerOK(upstream, current, res)
      BY DEF GatewayInv, KindInv, AnswerInv
    <2>2. CASE res.headersSent
      BY <2>1, <2>2 DEF AnswerOK
    <2>3. CASE direct /\ \E k \in Attempts : upstream[k] \in {"open", "answered"}
      BY <2>3
    <2> QED
      BY <2>1, <2>2, <2>3 DEF HeldInv
  <1>3. GatewayInv /\ HeldInv /\ [GatewayNext]_gatewayVars => HeldInv'
    BY HeldStep
  <1> QED
    BY <1>1, <1>2, <1>3, GatewayInvariant, PTL DEF GatewaySpec

-----------------------------------------------------------------------------
\* What an open socket has heard: nothing before its instance answers, then
\* that instance; and the gateway, once proxyRequest has returned.
SpeakInv ==
    /\ instances \in 0 .. MaxInstances /\ current \in 0 .. instances
    /\ \E x \in Sources : spoken \ {Gateway} \subseteq {x}
    /\ socket = "open" => spoken \ {Gateway} \subseteq {current}
    /\ socket = "open" => \A k \in Attempts : upstream[k] = "open" => spoken \subseteq {Gateway}
    /\ asked => socket # "open"
    /\ done /\ socket = "open" /\ ~direct => Gateway \in spoken
    /\ current = 0 /\ ~done => spoken = {}

LEMMA EndNotOpen == \A s : End(s) # "open"
  BY DEF End

(* The error page, an attempt, and the end of one keep SpeakInv: a retry   *)
(* finds the socket ended.                                                 *)
LEMMA RefuseSpeaks ==
    ASSUME SpeakInv, NEW up, NEW s, s = "open" => socket = "open",
           \A k \in Attempts : up[k] = "open" => upstream[k] = "open",
           UNCHANGED <<instances, direct>>, WsRefuse(up, s)
    PROVE  SpeakInv'
  <1>1. spoken' \ {Gateway} = spoken \ {Gateway}
    BY DEF WsRefuse, Say
  <1>2. s = "open" => Gateway \in spoken'
    BY DEF WsRefuse, Say
  <1>3. done' /\ socket' = s /\ upstream' = up /\ UNCHANGED <<current, asked>>
    BY DEF WsRefuse
  <1>4. spoken \subseteq {Gateway} => spoken' \subseteq {Gateway}
    BY <1>1
  <1> QED
    BY <1>1, <1>2, <1>3, <1>4 DEF SpeakInv

LEMMA AttemptSpeaks ==
    ASSUME SpeakInv, NEW k \in Attempts, k <= instances, NEW up \in [Attempts -> Status], NEW s,
           OverIn(up), s = "open" => spoken = {},
           UNCHANGED <<instances, direct>>, WsAttempt(k, up, s)
    PROVE  SpeakInv'
  <1>1. PICK j \in k .. instances + 1 : WsAttempt(k, up, s)!(j)
    BY DEF WsAttempt
  <1> DEFINE fell == [i \in Attempts |-> IF i \in k .. j - 1 THEN "closed" ELSE up[i]]
             left == IF j > k THEN End(s) ELSE s
  <1>2. k \in Nat \ {0} /\ instances \in Nat /\ j \in Nat \ {0}
    BY ProxyAssumption DEF Attempts, SpeakInv
  <1>3. left = "open" => s = "open"
    BY EndNotOpen
  <1>4. CASE /\ j > instances /\ current' = instances /\ asked' = TRUE /\ done' = TRUE
             /\ upstream' = fell /\ socket' = left /\ Say(Gateway, left)
    <2>1. j > k
      BY <1>2, <1>4
    <2>2. left # "open"
      BY <2>1, EndNotOpen
    <2>3. spoken' = spoken
      BY <1>4, <2>2 DEF Say
    <2>4. socket' # "open" /\ current' # 0 /\ current' \in 0 .. instances
      BY <1>2, <1>4, <2>2
    <2> HIDE DEF left, fell
    <2> QED
      BY <2>3, <2>4 DEF SpeakInv
  <1>5. CASE /\ j <= instances
             /\ current' = j
             /\ \E created \in BOOLEAN :
                   /\ upstream' = [fell EXCEPT ![j] = IF created THEN "open" ELSE "closed"]
                   /\ asked' = ~created
                   /\ socket' = IF created THEN left ELSE End(left)
             /\ done' = direct
             /\ UNCHANGED spoken
    <2>1. PICK created \in BOOLEAN :
                   /\ upstream' = [fell EXCEPT ![j] = IF created THEN "open" ELSE "closed"]
                   /\ asked' = ~created
                   /\ socket' = IF created THEN left ELSE End(left)
      BY <1>5
    <2> HIDE DEF fell, left
    <2>2. socket' = "open" => spoken' = {} /\ ~asked'
      BY <1>3, <1>5, <2>1, EndNotOpen
    <2>3. current' # 0 /\ current' \in 0 .. instances
      BY <1>2, <1>5
    <2>4. done' => direct'
      BY <1>5
    <2> QED
      BY <1>5, <2>2, <2>3, <2>4 DEF SpeakInv
  <1> QED
    BY <1>1, <1>4, <1>5

LEMMA SettleSpeaks ==
    ASSUME SpeakInv, NEW k \in Attempts, NEW outcome, NEW up \in [Attempts -> Status], NEW s,
           s = "open" => socket = "open",
           \A j \in Attempts : up[j] = "open" => upstream[j] = "open",
           asked => OverIn(up),
           outcome = "rejected" \/ s # "open",
           UNCHANGED <<instances, direct>>, WsSettle(k, outcome, up, s)
    PROVE  SpeakInv'
  <1>1. CASE /\ upstream' = up /\ socket' = s /\ UNCHANGED <<current, spoken, asked>>
             /\ UNCHANGED done \/ s # "open"
             /\ done' = done \/ done'
    BY <1>1 DEF SpeakInv
  <1>2. CASE Pending(k) /\ asked /\ k < instances /\ WsAttempt(k + 1, up, s)
    <2>1. s # "open"
      BY <1>2 DEF SpeakInv
    <2>2. k + 1 \in Attempts /\ k + 1 <= instances
      BY <1>2, ProxyAssumption DEF Attempts, SpeakInv
    <2> QED
      BY <1>2, <2>1, <2>2, AttemptSpeaks
  <1>3. CASE WsRefuse(up, s)
    BY <1>3, RefuseSpeaks
  <1> QED
    BY <1>1, <1>2, <1>3 DEF WsSettle

LEMMA ClosedNoneOpen ==
    ASSUME ConnTypeOK, NEW k \in Attempts, NEW j \in Attempts, Closed(k)[j] = "open"
    PROVE  upstream[j] = "open"
  BY DEF ConnTypeOK, Closed

(* An instance that answers is the first to be heard on the open socket.   *)
LEMMA AnswerSpeaks ==
    ASSUME ConnInv, SpeakInv, NEW k \in Attempts, upstream[k] = "open", Say(k, socket),
           NEW state \in Status \ {"open"}, upstream' = [upstream EXCEPT ![k] = state],
           UNCHANGED <<instances, direct, current, done, socket, asked>>
    PROVE  SpeakInv'
  <1>1. k = current /\ k # 0
    BY DEF ConnInv, LiveIsCurrent, OpenIn, Attempts
  <1>2. \A j \in Attempts : upstream'[j] # "open"
    BY <1>1 DEF ConnInv, ConnTypeOK, LiveIsCurrent, OpenIn
  <1>3. CASE socket = "open"
    <2>1. spoken' = spoken \cup {k} /\ spoken \subseteq {Gateway}
      BY <1>3 DEF SpeakInv, Say
    <2>2. spoken' \ {Gateway} \subseteq {k} /\ k \in Sources
      BY <2>1, AttemptSource
    <2>3. Gateway \in spoken => Gateway \in spoken'
      BY <2>1
    <2> QED
      BY <1>1, <1>2, <1>3, <2>2, <2>3 DEF SpeakInv
  <1>4. CASE socket # "open"
    BY <1>1, <1>4 DEF SpeakInv, Say
  <1> QED
    BY <1>3, <1>4

(* The events of an upgrade request keep SpeakInv.                         *)
LEMMA WsSpeaks ==
    ASSUME ConnInv, SpeakInv, NEW k \in Attempts, WsEvent(k), UNCHANGED <<instances, direct>>
    PROVE  SpeakInv'
  <1>0. ASSUME OpenIn(upstream, k)
        PROVE  /\ OverIn(Closed(k)) /\ Closed(k) \in [Attempts -> Status] /\ ~asked
               /\ \A j \in Attempts : Closed(k)[j] = "open" => upstream[j] = "open"
    BY <1>0, ClosedOver, ClosedNoneOpen DEF ConnInv, AskedIsOver, OverIn
  <1>1. ASSUME OpenIn(upstream, k), upstream' = Closed(k), UNCHANGED <<current, done, spoken>>,
               socket' = socket \/ socket' = End(socket), asked' => socket' # "open"
        PROVE  SpeakInv'
    BY <1>0, <1>1, EndNotOpen DEF SpeakInv
  <1>2. CASE ConnectionError(k)
    BY <1>1, <1>2, EndNotOpen DEF ConnectionError, OpenIn
  <1>3. CASE OtherError(k)
    BY <1>0, <1>3, SettleSpeaks, EndNotOpen DEF OtherError, OpenIn
  <1>4. CASE Fallback(k)
    <2>1. /\ upstream[k] = "open"
          /\ upstream' = [upstream EXCEPT ![k] = "answered"]
          /\ UNCHANGED <<instances, direct, current, done, socket, asked>>
      BY <1>4 DEF Fallback
    <2>2. CASE Say(k, socket)
      BY <2>1, <2>2, AnswerSpeaks DEF Status
    <2>3. CASE UNCHANGED spoken
      BY <2>1, <2>3 DEF SpeakInv, ConnInv, ConnTypeOK
    <2> QED
      BY <1>4, <2>2, <2>3 DEF Fallback
  <1>5. CASE FallbackOver(k)
    BY <1>0, <1>1, <1>5 DEF FallbackOver, OpenIn
  <1>6. CASE Upgrade(k)
    <2> DEFINE state == IF socket = "ended" THEN "closed" ELSE "tunnel"
    <2>1. /\ upstream[k] = "open" /\ Say(k, socket)
          /\ upstream' = [upstream EXCEPT ![k] = state]
          /\ UNCHANGED <<instances, direct, current, done, socket, asked>>
      BY <1>6 DEF Upgrade
    <2>2. state \in Status \ {"open"}
      BY DEF Status
    <2> HIDE DEF state
    <2> QED
      BY <2>1, <2>2, AnswerSpeaks
  <1>7. CASE TunnelEnds(k)
    BY <1>0, <1>1, <1>7 DEF TunnelEnds, OpenIn
  <1>8. CASE TunnelError(k)
    BY <1>0, <1>8, SettleSpeaks, EndNotOpen DEF TunnelError, OpenIn
  <1>9. CASE WsTimeout(k)
    BY <1>9, SettleSpeaks DEF WsTimeout, ConnInv, ConnTypeOK, AskedIsOver
  <1> QED
    BY <1>2, <1>3, <1>4, <1>5, <1>6, <1>7, <1>8, <1>9 DEF WsEvent

(* What begins one does, too.                                              *)
LEMMA BeginsSpeaks ==
    ASSUME ConnInv, SpeakInv, Arriving, kind = "ws", Turned \/ Proxied,
           UNCHANGED <<instances, direct>>
    PROVE  SpeakInv'
  <1>1. OverIn(upstream) /\ upstream \in [Attempts -> Status] /\ spoken = {}
    BY ArrivingQuiet DEF Arriving, SpeakInv
  <1>2. CASE WsRefuse(upstream, socket)
    BY <1>2, RefuseSpeaks
  <1>3. CASE instances > 0 /\ WsAttempt(1, upstream, socket)
    <2>1. 1 \in Attempts /\ 1 <= instances
      BY <1>3, ProxyAssumption DEF Attempts, SpeakInv
    <2> QED
      BY <1>1, <1>3, <2>1, AttemptSpeaks
  <1>4. CASE /\ instances > 0 /\ current' = 1 /\ socket' = "closed"
             /\ UNCHANGED <<upstream, spoken, asked>>
    <2>1. current' \in 0 .. instances /\ current' # 0
      BY <1>4 DEF SpeakInv
    <2> QED
      BY <1>4, <2>1 DEF SpeakInv
  <1> QED
    BY <1>2, <1>3, <1>4 DEF Turned, Proxied, WsRequest

WsInv ==
    kind = "ws" => SpeakInv

(* Every step of the gateway keeps WsInv.                                  *)
LEMMA SpeakKept == GatewayInv /\ WsInv /\ [GatewayNext]_gatewayVars => WsInv'
  <1> SUFFICES ASSUME GatewayInv, WsInv, [GatewayNext]_gatewayVars, kind' = "ws"
               PROVE  SpeakInv'
    BY DEF WsInv
  <1>1. CASE Handle \/ ProxyForward
    BY <1>1, BeginsSpeaks DEF Handle, ProxyForward, GatewayInv, WsInv, routeVars, requestVars
  <1>2. CASE OnDocs(Use) \/ \E s \in Service : OnDocs(FetchOver(s))
    BY <1>2 DEF OnDocs, routeVars
  <1>3. CASE OnHttp(ClientCloses) \/ \E k \in Attempts : OnHttp(HttpEvent(k))
    BY <1>3 DEF OnHttp, routeVars
  <1>4. ASSUME NEW k \in Attempts, OnWs(WsEvent(k))
        PROVE  SpeakInv'
    BY <1>4, WsSpeaks DEF OnWs, GatewayInv, WsInv
  <1>5. CASE OnWs(ClientGone)
    <2> DEFINE up == [k \in Attempts |-> IF upstream[k] = "tunnel" THEN "closed" ELSE upstream[k]]
    <2>1. /\ up \in [Attempts -> Status]
          /\ \A k \in Attempts : up[k] = "open" => upstream[k] = "open"
          /\ asked => OverIn(up)
      BY DEF GatewayInv, ConnInv, ConnTypeOK, AskedIsOver, OpenIn, OverIn, Status
    <2>2. WsSettle(current, "resolved", up, "closed") /\ current > 0 /\ UNCHANGED <<instances, direct>> /\ SpeakInv
      BY <1>5 DEF OnWs, ClientGone, WsInv
    <2>3. current \in Attempts
      BY <2>2, ProxyAssumption DEF SpeakInv, Attempts
    <2> HIDE DEF up
    <2> QED
      BY <2>1, <2>2, <2>3, SettleSpeaks
  <1>6. CASE UNCHANGED gatewayVars
    BY <1>6 DEF gatewayVars, routeVars, attemptVars, wsVars, WsInv, SpeakInv
  <1> QED
    BY <1>1, <1>2, <1>3, <1>4, <1>5, <1>6 DEF GatewayNext

(* Hence it always holds.                                                  *)
LEMMA WsInvariant == GatewaySpec => []WsInv
  <1>1. GatewayInit => WsInv
    <2> SUFFICES ASSUME GatewayInit, kind = "ws"
                 PROVE  SpeakInv
      BY DEF WsInv
    <2>1. spoken = {} /\ asked = FALSE /\ done = FALSE
      BY DEF GatewayInit, WsInit, BaseInit
    <2>2. instances \in 0 .. MaxInstances /\ current \in 0 .. instances
      BY ProxyAssumption DEF GatewayInit, BaseInit
    <2>3. Gateway \in Sources
      BY AttemptSource
    <2> QED
      BY <2>1, <2>2, <2>3 DEF SpeakInv
  <1> QED
    BY <1>1, SpeakKept, GatewayInvariant, PTL DEF GatewaySpec

(* A client of an upgrade request hears from one instance at most, however *)
(* many are tried: a retry never speaks on the socket.                     *)
THEOREM GatewayOneInstanceSpeaks == GatewaySpec => []OneInstanceSpeaks
  <1>1. GatewayInv /\ WsInv => OneInstanceSpeaks
    <2> SUFFICES ASSUME GatewayInv, WsInv
                 PROVE  Cardinality(spoken \ {Gateway}) <= 1
      BY DEF OneInstanceSpeaks
    <2>1. PICK x : spoken \ {Gateway} \subseteq {x}
      BY DEF GatewayInv, KindInv, WsInv, SpeakInv
    <2>2. IsFiniteSet({x}) /\ Cardinality({x}) = 1
      BY FS_Singleton
    <2> QED
      BY <2>1, <2>2, FS_Subset
  <1> QED
    BY <1>1, GatewayInvariant, WsInvariant, PTL

(* When proxyRequest has returned, an upgrade request's open socket has    *)
(* been told by the gateway, or has an instance at its other end.          *)
THEOREM GatewayNobodyLeftWaiting == GatewaySpec => []NobodyLeftWaiting
  <1>1. GatewayInv /\ WsInv => NobodyLeftWaiting
    BY DEF GatewayInv, KindInv, WsInv, SpeakInv, NobodyLeftWaiting
  <1> QED
    BY <1>1, GatewayInvariant, WsInvariant, PTL

-----------------------------------------------------------------------------
\* The headers an attempt leaves in req.headers and those it sends.
Named(k) == [host |-> k, forwardedHost |-> Client]

HeadInv ==
    /\ head \in HeadSet
    /\ sent \in [Attempts -> HeadSet]
    /\ ~direct => /\ head = ClientHead \/ \E k \in Attempts : head = Named(k)
                  /\ \A k \in Attempts : sent[k] \in {NoHead, Named(k)}

(* What addForwardedHeaders and setupOutgoing make of the headers: they    *)
(* stay headers, and on a route they name the instance and the client's    *)
(* host, after every retry, too.                                           *)
LEMMA OutgoingHeadType ==
    ASSUME NEW k \in Attempts, NEW h \in HeadSet, NEW xfwd \in BOOLEAN, NEW changeOrigin \in BOOLEAN
    PROVE  OutgoingHead(k, h, xfwd, changeOrigin) \in HeadSet
  <1>1. Forwarded(h) \in HeadSet
    BY DEF Forwarded, HeadSet, NoHead
  <1>2. ASSUME NEW g \in HeadSet
        PROVE  ChangedOrigin(k, g) \in HeadSet
    BY <1>2, AttemptSource DEF ChangedOrigin, HeadSet, NoHead
  <1> QED
    BY <1>1, <1>2 DEF OutgoingHead

LEMMA OutgoingHeadNamed ==
    ASSUME NEW k \in Attempts, NEW h, h = ClientHead \/ \E j \in Attempts : h = Named(j)
    PROVE  OutgoingHead(k, h, TRUE, TRUE) = Named(k)
  BY DEF OutgoingHead, Forwarded, ChangedOrigin, ClientHead, Named, Absent, Client

(* An attempt keeps HeadInv; so does what settles one.                     *)
LEMMA AttemptHead ==
    ASSUME HeadInv, NEW k \in Attempts, NEW up, NEW r, Attempt(k, up, r), direct' = direct
    PROVE  HeadInv'
  <1>1. CASE Invalid(k, up, r)
    BY <1>1 DEF Invalid, HeadInv, headVars
  <1>2. CASE Sent(k, up, r)
    <2>1. PICK xfwd \in Flags, changeOrigin \in Flags : head' = OutgoingHead(k, head, xfwd, changeOrigin)
      BY <1>2 DEF Sent
    <2>2. sent' = [sent EXCEPT ![k] = head']
      BY <1>2 DEF Sent
    <2>3. head' \in HeadSet
      BY <2>1, OutgoingHeadType DEF Flags, HeadInv
    <2>4. ~direct => head' = Named(k)
      BY <2>1, OutgoingHeadNamed DEF Flags, HeadInv
    <2> QED
      BY <2>2, <2>3, <2>4 DEF HeadInv
  <1> QED
    BY <1>1, <1>2 DEF Attempt

LEMMA SettleHead ==
    ASSUME HeadInv, NEW k \in Attempts, instances \in 0 .. MaxInstances, NEW outcome, NEW up, NEW r,
           Settle(k, outcome, up, r), direct' = direct
    PROVE  HeadInv'
  <1>1. CASE UNCHANGED headVars
    BY <1>1 DEF HeadInv, headVars
  <1>2. CASE k < instances /\ Attempt(k + 1, up, r)
    <2>1. k + 1 \in Attempts
      BY <1>2, ProxyAssumption DEF Attempts
    <2> QED
      BY <1>2, <2>1, AttemptHead
  <1> QED
    BY <1>1, <1>2 DEF Settle, Return, headVars

\* The types that the other parts of the invariant do not give.
TypeInv ==
    /\ instances \in 0 .. MaxInstances
    /\ direct \in BOOLEAN
    /\ current \in 0 .. instances
    /\ done \in BOOLEAN
    /\ streamed \in BOOLEAN
    /\ timed \in BOOLEAN
    /\ connected \in BOOLEAN
    /\ socket \in {"open", "ended", "closed"}
    /\ asked \in BOOLEAN

(* Every step of the gateway keeps HeadInv.                                *)
LEMMA HeadStep ==
    TypeInv /\ HeadInv /\ [GatewayNext]_gatewayVars => HeadInv'
  <1> SUFFICES ASSUME TypeInv, HeadInv, [GatewayNext]_gatewayVars
               PROVE  HeadInv'
    OBVIOUS
  <1>1. CASE UNCHANGED <<headVars, direct>>
    BY <1>1 DEF HeadInv, headVars
  <1>2. CASE Handle \/ ProxyForward
    <2>1. CASE instances > 0 /\ Attempt(1, upstream, res)
      <3>1. 1 \in Attempts
        BY ProxyAssumption DEF Attempts
      <3> QED
        BY <1>2, <2>1, <3>1, AttemptHead DEF Handle, ProxyForward, requestVars
    <2> QED
      BY <1>1, <1>2, <2>1 DEF Handle, ProxyForward, Turned, Proxied, ProxyRequest, Return, requestVars
  <1>3. ASSUME NEW k \in Attempts, OnHttp(HttpEvent(k))
        PROVE  HeadInv'
    BY <1>1, <1>3, SettleHead DEF OnHttp, HttpEvent, RequestError, ProxyTimeout, Chunk, Response,
       ResponseEnd, ResponseError, Timeout, Finish, Fails, requestVars, TypeInv
  <1>4. CASE OnHttp(ClientCloses)
    <2>1. CASE UNCHANGED headVars
      BY <1>1, <1>4, <2>1 DEF OnHttp, ClientCloses, requestVars
    <2>2. ASSUME NEW up, NEW r, current > 0, Settle(current, "resolved", up, r)
          PROVE  HeadInv'
      <3>1. current \in Attempts
        BY <2>2, ProxyAssumption DEF TypeInv, Attempts
      <3> QED
        BY <1>4, <2>2, <3>1, SettleHead DEF OnHttp, ClientCloses, requestVars, TypeInv
    <2> QED
      BY <1>4, <2>1, <2>2 DEF OnHttp, ClientCloses
  <1>5. CASE (OnWs(ClientGone) \/ \E k \in Attempts : OnWs(WsEvent(k)))
             \/ OnDocs(Use) \/ (\E s \in Service : OnDocs(FetchOver(s)))
             \/ UNCHANGED gatewayVars
    BY <1>1, <1>5 DEF OnWs, OnDocs, httpVars, gatewayVars
  <1> QED
    BY <1>2, <1>3, <1>4, <1>5 DEF GatewayNext

\* What an attempt changes of it.
AttemptType ==
    /\ current \in 0 .. instances
    /\ done \in BOOLEAN

SocketType ==
    /\ socket \in {"open", "ended", "closed"}
    /\ asked \in BOOLEAN

(* An attempt, its end and the events of an upgrade request keep the       *)
(* types.                                                                  *)
LEMMA SettleType ==
    ASSUME TypeInv, NEW k \in Attempts, NEW outcome, NEW up, NEW r, Settle(k, outcome, up, r),
           UNCHANGED <<instances, direct>>
    PROVE  AttemptType'
  <1>1. CASE UNCHANGED current /\ (UNCHANGED done \/ done' = TRUE)
    BY <1>1 DEF TypeInv, AttemptType
  <1>2. CASE k < instances /\ Attempt(k + 1, up, r)
    <2>1. current' \in 0 .. instances
      BY <1>2 DEF TypeInv, Attempts, Attempt
    <2>2. done' \in BOOLEAN
      BY <1>2 DEF TypeInv, Attempt, Sent, Invalid
    <2> QED
      BY <2>1, <2>2 DEF AttemptType
  <1> QED
    BY <1>1, <1>2 DEF Settle, Return

LEMMA WsAttemptType ==
    ASSUME TypeInv, NEW k \in Attempts, k <= instances, NEW up, NEW s \in {"open", "ended", "closed"},
           WsAttempt(k, up, s), UNCHANGED <<instances, direct>>
    PROVE  AttemptType' /\ SocketType'
  <1>1. PICK j \in k .. instances + 1 : WsAttempt(k, up, s)!(j)
    BY DEF WsAttempt
  <1>2. current' \in 0 .. instances
    BY <1>1 DEF TypeInv, Attempts
  <1>3. done' \in BOOLEAN /\ asked' \in BOOLEAN
    BY <1>1 DEF TypeInv
  <1>4. socket' \in {"open", "ended", "closed"}
    BY <1>1 DEF End
  <1> QED
    BY <1>2, <1>3, <1>4 DEF AttemptType, SocketType

LEMMA WsSettleType ==
    ASSUME TypeInv, NEW k \in Attempts, NEW outcome, NEW up, NEW s \in {"open", "ended", "closed"},
           WsSettle(k, outcome, up, s), UNCHANGED <<instances, direct>>
    PROVE  AttemptType' /\ SocketType'
  <1>1. CASE UNCHANGED <<current, asked>> /\ socket' = s /\ (UNCHANGED done \/ done' = TRUE)
    BY <1>1 DEF TypeInv, AttemptType, SocketType
  <1>2. CASE k < instances /\ WsAttempt(k + 1, up, s)
    <2>1. k + 1 \in Attempts /\ k + 1 <= instances
      BY <1>2, ProxyAssumption DEF TypeInv, Attempts
    <2> QED
      BY <1>2, <2>1, WsAttemptType
  <1> QED
    BY <1>1, <1>2 DEF WsSettle, WsRefuse

LEMMA WsEventType ==
    ASSUME TypeInv, NEW k \in Attempts, WsEvent(k), UNCHANGED <<instances, direct>>
    PROVE  AttemptType' /\ SocketType'
  <1>0. socket \in {"open", "ended", "closed"} /\ End(socket) \in {"open", "ended", "closed"}
    BY DEF TypeInv, End
  <1>1. CASE /\ UNCHANGED <<current, done>> /\ asked' \in BOOLEAN
             /\ socket' = socket \/ socket' = End(socket)
    BY <1>0, <1>1 DEF TypeInv, AttemptType, SocketType
  <1>2. asked \in BOOLEAN /\ (asked \/ Pending(k)) \in BOOLEAN
    BY DEF TypeInv
  <1>3. CASE ConnectionError(k)
    BY <1>1, <1>2, <1>3 DEF ConnectionError
  <1>4. CASE OtherError(k)
    BY <1>0, <1>4, WsSettleType DEF OtherError
  <1>5. CASE Fallback(k) \/ FallbackOver(k) \/ Upgrade(k) \/ TunnelEnds(k)
    BY <1>1, <1>2, <1>5 DEF Fallback, FallbackOver, Upgrade, TunnelEnds
  <1>6. CASE TunnelError(k)
    BY <1>0, <1>6, WsSettleType DEF TunnelError
  <1>7. CASE WsTimeout(k)
    BY <1>0, <1>7, WsSettleType DEF WsTimeout
  <1> QED
    BY <1>3, <1>4, <1>5, <1>6, <1>7 DEF WsEvent

LEMMA BeginsType ==
    ASSUME TypeInv, Arriving, Turned \/ Proxied, UNCHANGED <<instances, direct>>
    PROVE  AttemptType' /\ SocketType'
  <1>1. CASE /\ UNCHANGED <<current, asked>> /\ done' = TRUE
             /\ socket' = socket
    BY <1>1 DEF TypeInv, AttemptType, SocketType
  <1>2. CASE instances > 0 /\ Attempt(1, upstream, res) /\ UNCHANGED wsVars
    <2>1. current' \in 0 .. instances
      BY <1>2 DEF TypeInv, Attempt
    <2>2. done' \in BOOLEAN
      BY <1>2 DEF TypeInv, Attempt, Sent, Invalid
    <2> QED
      BY <1>2, <2>1, <2>2 DEF AttemptType, SocketType, TypeInv, wsVars
  <1>3. CASE instances > 0 /\ WsAttempt(1, upstream, socket)
    <2>1. 1 \in Attempts /\ 1 <= instances
      BY <1>3, ProxyAssumption DEF TypeInv, Attempts
    <2>2. socket \in {"open", "ended", "closed"}
      BY DEF TypeInv
    <2> QED
      BY <1>3, <2>1, <2>2, WsAttemptType
  <1>4. CASE instances > 0 /\ current' = 1 /\ done' = TRUE /\ socket' = "closed" /\ UNCHANGED asked
    BY <1>4 DEF TypeInv, AttemptType, SocketType
  <1> QED
    BY <1>1, <1>2, <1>3, <1>4 DEF Turned, Proxied, ProxyRequest, WsRequest, Return, WsRefuse, wsVars

(* Every step of the gateway keeps TypeInv.                                *)
LEMMA TypeStep == TypeInv /\ [GatewayNext]_gatewayVars => TypeInv'
  <1> SUFFICES ASSUME TypeInv, [GatewayNext]_gatewayVars
               PROVE  TypeInv'
    OBVIOUS
  <1>1. UNCHANGED <<instances, direct, streamed, timed>>
    BY DEF GatewayNext, Handle, ProxyForward, OnDocs, OnHttp, OnWs, HttpEvent, RequestError,
           ProxyTimeout, Chunk, Response, ResponseEnd, ResponseError, Timeout, Finish, Fails,
           ClientCloses, gatewayVars, httpVars, requestVars
  <1>2. connected' \in BOOLEAN
    BY DEF GatewayNext, Handle, ProxyForward, OnDocs, OnHttp, OnWs, HttpEvent, RequestError,
           ProxyTimeout, Chunk, Response, ResponseEnd, ResponseError, Timeout, Finish, Fails,
           ClientCloses, gatewayVars, httpVars, Proxied, ProxyRequest, TypeInv
  <1>3. AttemptType' /\ SocketType'
    <2>1. CASE UNCHANGED <<current, done, socket, asked>>
      BY <1>1, <2>1 DEF TypeInv, AttemptType, SocketType
    <2>2. CASE Handle \/ ProxyForward
      BY <1>1, <2>2, BeginsType DEF Handle, ProxyForward
    <2>3. CASE UNCHANGED wsVars /\ AttemptType'
      BY <2>3 DEF wsVars, TypeInv, SocketType
    <2>4. ASSUME NEW k \in Attempts, OnHttp(HttpEvent(k))
          PROVE  AttemptType'
      <3>1. CASE UNCHANGED <<current, done>>
        BY <1>1, <3>1 DEF TypeInv, AttemptType
      <3> QED
        BY <1>1, <2>4, <3>1, SettleType DEF OnHttp, HttpEvent, RequestError, ProxyTimeout, Chunk,
           Response, ResponseEnd, ResponseError, Timeout, Finish, Fails
    <2>5. CASE OnHttp(ClientCloses)
      <3>1. CASE UNCHANGED <<current, done>>
        BY <1>1, <2>3, <2>5, <3>1 DEF TypeInv, AttemptType, OnHttp
      <3>2. ASSUME NEW up, NEW r, current > 0, Settle(current, "resolved", up, r)
            PROVE  AttemptType'
        <4>1. current \in Attempts
          BY <3>2, ProxyAssumption DEF TypeInv, Attempts
        <4> QED
          BY <1>1, <3>2, <4>1, SettleType
      <3> QED
        BY <2>3, <2>5, <3>1, <3>2 DEF OnHttp, ClientCloses
    <2>6. ASSUME NEW k \in Attempts, OnWs(WsEvent(k))
          PROVE  AttemptType' /\ SocketType'
      BY <1>1, <2>6, WsEventType DEF OnWs
    <2>7. CASE OnWs(ClientGone)
      <3>1. PICK up : current > 0 /\ WsSettle(current, "resolved", up, "closed")
        BY <2>7 DEF OnWs, ClientGone
      <3>2. current \in Attempts
        BY <3>1, ProxyAssumption DEF TypeInv, Attempts
      <3> QED
        BY <1>1, <3>1, <3>2, WsSettleType
    <2>8. CASE OnDocs(Use) \/ \E s \in Service : OnDocs(FetchOver(s))
      <3>1. UNCHANGED current /\ UNCHANGED wsVars
        BY <2>8 DEF OnDocs
      <3>2. done' \in BOOLEAN
        BY <2>8 DEF OnDocs, Use, FetchOver, Fetched, FetchFailed, WhenAll
      <3> QED
        BY <1>1, <2>3, <3>1, <3>2 DEF TypeInv, AttemptType
    <2> QED
      BY <2>1, <2>2, <2>3, <2>4, <2>5, <2>6, <2>7, <2>8 DEF GatewayNext, gatewayVars, attemptVars, wsVars, OnHttp
  <1> QED
    BY <1>1, <1>2, <1>3 DEF TypeInv, AttemptType, SocketType

(* Hence both always hold.                                                 *)
LEMMA TypeInvariant == GatewaySpec => [](TypeInv /\ HeadInv)
  <1>1. GatewayInit => TypeInv
    <2> SUFFICES ASSUME GatewayInit
                 PROVE  TypeInv
      OBVIOUS
    <2>1. instances \in 0 .. MaxInstances /\ current \in 0 .. instances
      BY ProxyAssumption DEF GatewayInit, BaseInit
    <2>2. direct \in BOOLEAN /\ done \in BOOLEAN
      BY DEF GatewayInit, BaseInit
    <2>3. (HttpInit \/ WithoutHttp) /\ (WsInit \/ WithoutWs)
      BY DEF GatewayInit
    <2>4. streamed \in BOOLEAN /\ timed \in BOOLEAN /\ connected \in BOOLEAN
      BY <2>3 DEF HttpInit, WithoutHttp
    <2>5. socket \in {"open", "ended", "closed"} /\ asked \in BOOLEAN
      BY <2>3 DEF WsInit, WithoutWs
    <2> QED
      BY <2>1, <2>2, <2>4, <2>5 DEF TypeInv
  <1>2. GatewayInit => HeadInv
    <2> SUFFICES ASSUME GatewayInit
                 PROVE  HeadInv
      OBVIOUS
    <2>1. HttpInit \/ WithoutHttp
      BY DEF GatewayInit
    <2>2. head = ClientHead /\ sent = [k \in Attempts |-> NoHead]
      BY <2>1 DEF HttpInit, WithoutHttp
    <2>3. NoHead \in HeadSet
      BY DEF HeadSet
    <2>4. ClientHead \in HeadSet
      BY AttemptSource DEF ClientHead, HeadSet, Absent, Client, Gateway
    <2> QED
      BY <2>2, <2>3, <2>4 DEF HeadInv
  <1> QED
    BY <1>1, <1>2, TypeStep, HeadStep, PTL DEF GatewaySpec

(* Every instance a route's request goes to is sent its own host and the   *)
(* client's, however many attempts changed the shared headers before.      *)
THEOREM GatewayOwnRequestHead == GatewaySpec => []OwnRequestHead
  <1>1. HeadInv => OwnRequestHead
    BY DEF HeadInv, OwnRequestHead, Named
  <1> QED
    BY <1>1, TypeInvariant, PTL

-----------------------------------------------------------------------------
(* The page: a fold over the documents, in the order they came.            *)

\* The pages there may be: whose description of a path they have.
Pages == UNION {[D -> Service] : D \in SUBSET (Service \cup {Shared})}

LEMMA SpreadPage ==
    ASSUME NEW paths \in Pages, NEW s \in Service
    PROVE  /\ Spread(paths, s) \in Pages
           /\ DOMAIN Spread(paths, s) = DOMAIN paths \cup {s, Shared}
           /\ \A p \in DOMAIN Spread(paths, s) :
                 Spread(paths, s)[p] = IF p \in {s, Shared} THEN s ELSE paths[p]
  <1>1. PICK D \in SUBSET (Service \cup {Shared}) : paths \in [D -> Service]
    BY DEF Pages
  <1>2. Spread(paths, s) \in [D \cup {s, Shared} -> Service]
    BY <1>1 DEF Spread, Paths
  <1>3. D \cup {s, Shared} \in SUBSET (Service \cup {Shared})
    OBVIOUS
  <1> QED
    BY <1>1, <1>2, <1>3 DEF Pages, Spread, Paths

IsMerge(h, ds) ==
    h = [s \in SUBSET DOMAIN ds |->
            IF s = {} THEN NoDocument ELSE Spread(h[s \ {Max(s)}], ds[Max(s)])]

LEMMA MergeExists ==
    ASSUME NEW ds \in Seq(Service)
    PROVE  \E h : IsMerge(h, ds) /\ MergeDocs(ds) = h[DOMAIN ds]
  <1> DEFINE S == DOMAIN ds
             choose == [s \in SUBSET S |-> Max(s)]
             op == [i \in S |-> [paths \in Pages |-> Spread(paths, ds[i])]]
             Merges(h) == h = [s \in SUBSET S |->
                                 IF s = {} THEN NoDocument
                                 ELSE Spread(h[s \ {Max(s)}], ds[Max(s)])]
             h == CHOOSE f : Merges(f)
  <1>1. S = 1 .. Len(ds) /\ Len(ds) \in Nat /\ \A i \in S : ds[i] \in Service
    OBVIOUS
  <1>2. IsFiniteSet(S) /\ S \in SUBSET Nat
    BY <1>1, FS_Interval
  <1>3. \A s \in SUBSET S : s # {} => Max(s) \in s
    BY <1>2, FS_Subset, MaxIn
  <1>4. PICK f \in [SUBSET S -> Pages] : IsFold(f, S, NoDocument, choose, op)
    <2> DEFINE base == NoDocument
    <2>1. base \in Pages
      <3>1. NoDocument \in [{} -> Service] /\ {} \in SUBSET (Service \cup {Shared})
        BY DEF NoDocument
      <3> QED
        BY <3>1 DEF Pages
    <2>2. op \in [S -> [Pages -> Pages]]
      BY <1>1, SpreadPage
    <2>3. Chooses(choose, S)
      BY <1>3 DEF Chooses
    <2> HIDE DEF S, choose, op, base, h
    <2>4. \E f \in [SUBSET S -> Pages] : IsFold(f, S, base, choose, op)
      BY <1>2, <2>1, <2>2, <2>3, FoldExists
    <2> QED
      BY <2>4 DEF base
  <1>5. ASSUME NEW s \in SUBSET S, s # {}
        PROVE  op[choose[s]][f[s \ {choose[s]}]] = Spread(f[s \ {Max(s)}], ds[Max(s)])
    <2>1. choose[s] = Max(s) /\ Max(s) \in S /\ f[s \ {Max(s)}] \in Pages
      BY <1>3, <1>5
    <2> HIDE DEF choose
    <2> QED
      BY <2>1
  <1>6. Merges(f)
    <2> HIDE DEF op, choose, S
    <2> QED
      BY <1>4, <1>5 DEF IsFold
  <1>7. Merges(h)
    <2> HIDE DEF Merges
    <2> QED
      BY <1>6
  <1>8. MergeDocs(ds) = h[DOMAIN ds]
    BY DEF MergeDocs, FoldLeft, MapThenFoldSet
  <1>9. IsMerge(h, ds)
    <2> HIDE DEF h
    <2> QED
      BY <1>7 DEF IsMerge
  <1> HIDE DEF h
  <1> QED
    BY <1>8, <1>9

(* What the page made of some documents says, whose services are ds.       *)
DescribedBy(paths, services) ==
    /\ DOMAIN paths = UNION {Paths(s) : s \in services}
    /\ \A s \in services : paths[s] = s
    /\ services # {} => paths[Shared] \in services

LEMMA SpreadDescribes ==
    ASSUME NEW services \in SUBSET Service, NEW paths, DescribedBy(paths, services),
           NEW s \in Service
    PROVE  DescribedBy(Spread(paths, s), services \cup {s})
  <1>1. DOMAIN Spread(paths, s) = DOMAIN paths \cup {s, Shared}
    BY DEF Spread, Paths
  <1>2. \A p \in DOMAIN paths \cup {s, Shared} :
           Spread(paths, s)[p] = IF p \in {s, Shared} THEN s ELSE paths[p]
    BY DEF Spread, Paths
  <1>3. DOMAIN Spread(paths, s) = UNION {Paths(t) : t \in services \cup {s}}
    BY <1>1 DEF DescribedBy, Paths
  <1>4. \A t \in services \cup {s} : Spread(paths, s)[t] = t
    <2> SUFFICES ASSUME NEW t \in services \cup {s}
                 PROVE  Spread(paths, s)[t] = t
      OBVIOUS
    <2>1. t # Shared
      BY SwaggerAssumption
    <2>2. CASE t = s
      BY <1>2, <2>2
    <2>3. CASE t # s
      <3>1. t \in DOMAIN paths /\ paths[t] = t
        BY <2>3 DEF DescribedBy, Paths
      <3> QED
        BY <1>2, <2>1, <2>3, <3>1
    <2> QED
      BY <2>2, <2>3
  <1>5. Spread(paths, s)[Shared] = s
    BY <1>2
  <1> QED
    BY <1>3, <1>4, <1>5 DEF DescribedBy

(* One document at a time.                                                 *)
LEMMA MergeFacts ==
    ASSUME NEW ds \in Seq(Service)
    PROVE  DescribedBy(MergeDocs(ds), ToSet(ds))
  <1>1. PICK h : IsMerge(h, ds) /\ MergeDocs(ds) = h[DOMAIN ds]
    BY MergeExists
  <1> DEFINE N == Len(ds)
             First(n) == {ds[i] : i \in 1 .. n}
             Good(n) == DescribedBy(h[1 .. n], First(n))
             S == {n \in 0 .. N : Good(n)}
  <1>2. N \in Nat /\ DOMAIN ds = 1 .. N /\ \A i \in 1 .. N : ds[i] \in Service
    OBVIOUS
  <1>3. \A n \in 1 .. N : h[1 .. n] = Spread(h[1 .. (n - 1)], ds[n])
    <2> SUFFICES ASSUME NEW n \in 1 .. N
                 PROVE  h[1 .. n] = Spread(h[1 .. (n - 1)], ds[n])
      OBVIOUS
    <2>1. n \in Nat \ {0} /\ 1 .. n \in SUBSET DOMAIN ds
      BY <1>2
    <2>2. Max(1 .. n) = n /\ (1 .. n) \ {n} = 1 .. (n - 1) /\ 1 .. n # {}
      BY <2>1, FirstPositions
    <2>3. h[1 .. n] = Spread(h[(1 .. n) \ {Max(1 .. n)}], ds[Max(1 .. n)])
      BY <1>1, <2>1, <2>2 DEF IsMerge
    <2> QED
      BY <2>2, <2>3
  <1>4. Good(0)
    <2>1. 1 .. 0 = {} /\ First(0) = {}
      OBVIOUS
    <2>2. h[{}] = NoDocument
      BY <1>1 DEF IsMerge
    <2>3. DOMAIN NoDocument = {}
      BY DEF NoDocument
    <2>4. DescribedBy(NoDocument, {})
      BY <2>3 DEF DescribedBy
    <2> QED
      BY <2>1, <2>2, <2>4
  <1>5. \A n \in 1 .. N : Good(n - 1) => Good(n)
    <2> SUFFICES ASSUME NEW n \in 1 .. N, Good(n - 1)
                 PROVE  Good(n)
      OBVIOUS
    <2>1. First(n) = First(n - 1) \cup {ds[n]}
      <3>1. 1 .. n = (1 .. (n - 1)) \cup {n}
        OBVIOUS
      <3> QED
        BY <3>1
    <2>2. First(n - 1) \in SUBSET Service /\ ds[n] \in Service
      BY <1>2
    <2> HIDE DEF First
    <2>3. DescribedBy(Spread(h[1 .. (n - 1)], ds[n]), First(n - 1) \cup {ds[n]})
      BY <2>2, SpreadDescribes
    <2> QED
      BY <1>3, <2>1, <2>3
  <1>6. \A n \in 0 .. N : n \in S
    <2> HIDE DEF Good
    <2>1. 0 \in S /\ \A n \in 1 .. N : n - 1 \in S => n \in S
      BY <1>2, <1>4, <1>5
    <2> HIDE DEF S
    <2> QED
      BY <1>2, <2>1, StepByStep
  <1>7. Good(N)
    <2> HIDE DEF Good
    <2> QED
      BY <1>2, <1>6
  <1>8. ToSet(ds) = First(N)
    BY <1>2 DEF ToSet
  <1> QED
    BY <1>1, <1>2, <1>7, <1>8

-----------------------------------------------------------------------------
(* The chains of fetches.                                                  *)

\* No service has two documents.
OncePerService(ds) == \A i, j \in DOMAIN ds : ds[i] = ds[j] => i = j

\* A chain that fetches has its earlier instances behind it, and no document.
ChainOK(s) ==
    /\ asking[s] <= listed[s] /\ failed[s] <= listed[s]
    /\ asking[s] > 0 => failed[s] = asking[s] - 1 /\ s \notin ToSet(docs)

\* No chain fetches yet, or none any more.
Resting == \A s \in Service : asking[s] = 0

\* One that has ended has a document, unless all its instances failed.
ChainEnded(s) == asking[s] = 0 => (s \in ToSet(docs) <=> failed[s] < listed[s])

DocsStateOK ==
    /\ listed \in [Service -> 0 .. MaxInstances]
    /\ asking \in [Service -> Nat] /\ failed \in [Service -> Nat]
    /\ docs \in Seq(Service) /\ OncePerService(docs)

ChainsInv ==
    IF Resting /\ ~done
    THEN docs = << >> /\ \A s \in Service : failed[s] = 0
    ELSE \A s \in Service : ChainEnded(s)

PageInv ==
    /\ done => Resting
    /\ page = IF done THEN MergeDocs(docs) ELSE NoDocument

\* The kinds of request that are not the documents' keep none of this state.
DocsUnused ==
    /\ listed = NoService /\ failed = NoService /\ Resting
    /\ docs = << >> /\ page = NoDocument

DocsInv ==
    /\ DocsStateOK
    /\ kind # "docs" => DocsUnused
    /\ kind = "docs" => ChainsInv /\ PageInv /\ \A s \in Service : ChainOK(s)

RouteInv ==
    /\ kind \in {"http", "ws", "docs"}
    /\ route \in {"none", "unset", "set"}
    /\ guards \subseteq Hook

LEMMA ToSetAppend ==
    ASSUME NEW ds \in Seq(Service), NEW s \in Service
    PROVE  Append(ds, s) \in Seq(Service) /\ ToSet(Append(ds, s)) = ToSet(ds) \cup {s}
  <1> DEFINE e == Append(ds, s)
  <1>1. e \in Seq(Service) /\ DOMAIN e = 1 .. (Len(ds) + 1) /\ Len(ds) \in Nat
    OBVIOUS
  <1>2. DOMAIN ds = 1 .. Len(ds)
    OBVIOUS
  <1>3. \A i \in DOMAIN ds : e[i] = ds[i] /\ i \in DOMAIN e
    OBVIOUS
  <1>4. e[Len(ds) + 1] = s
    OBVIOUS
  <1>5. \A i \in DOMAIN e : i \in DOMAIN ds \/ i = Len(ds) + 1
    BY <1>1, <1>2
  <1>6. Len(ds) + 1 \in DOMAIN e
    BY <1>1
  <1> HIDE DEF e
  <1>7. ToSet(e) \subseteq ToSet(ds) \cup {s}
    BY <1>3, <1>4, <1>5 DEF ToSet
  <1>8. ToSet(ds) \cup {s} \subseteq ToSet(e)
    BY <1>3, <1>4, <1>6 DEF ToSet
  <1> QED
    BY <1>1, <1>7, <1>8 DEF e

(* A service that has no document yet makes the documents no less one per  *)
(* service.                                                                *)
LEMMA AppendOnce ==
    ASSUME NEW ds \in Seq(Service), OncePerService(ds), NEW s \in Service, s \notin ToSet(ds)
    PROVE  OncePerService(Append(ds, s))
  <1> DEFINE e == Append(ds, s)
  <1>1. DOMAIN e = DOMAIN ds \cup {Len(ds) + 1}
    OBVIOUS
  <1>2. \A i \in DOMAIN ds : e[i] = ds[i]
    OBVIOUS
  <1>3. e[Len(ds) + 1] = s
    OBVIOUS
  <1>4. \A i \in DOMAIN ds : ds[i] # s
    BY DEF ToSet
  <1> HIDE DEF e
  <1>5. ASSUME NEW i \in DOMAIN e, NEW j \in DOMAIN e, e[i] = e[j]
        PROVE  i = j
    <2>1. CASE i \in DOMAIN ds /\ j \in DOMAIN ds
      BY <1>2, <1>5, <2>1 DEF OncePerService
    <2> QED
      BY <1>1, <1>2, <1>3, <1>4, <1>5, <2>1
  <1>6. OncePerService(e)
    BY <1>5 DEF OncePerService
  <1> QED
    BY <1>6 DEF e

LEMMA NoDocs == << >> \in Seq(Service) /\ ToSet(<< >>) = {} /\ OncePerService(<< >>)
  BY DEF ToSet, OncePerService

LEMMA DocsInitOK == GatewayInit => DocsInv /\ RouteInv
  <1> SUFFICES ASSUME GatewayInit
               PROVE  DocsInv /\ RouteInv
    OBVIOUS
  <1>1. RouteInv
    BY DEF GatewayInit, RouteInv
  <1>2. MaxInstances \in Nat /\ 0 \in 0 .. MaxInstances
    BY ProxyAssumption
  <1>3. PICK listing \in [Service -> 0 .. MaxInstances] : DocsInit(listing) /\ (kind = "docs" \/ listing = NoService)
    <2>1. NoService \in [Service -> 0 .. MaxInstances]
      BY <1>2 DEF NoService
    <2> QED
      BY <2>1 DEF GatewayInit
  <1>4. DocsStateOK
    BY <1>2, <1>3, NoDocs DEF DocsInit, DocsStateOK
  <1>5. Resting /\ ~done /\ \A s \in Service : failed[s] = 0
    BY <1>3 DEF DocsInit, Resting, GatewayInit, BaseInit
  <1>6. docs = << >> /\ page = NoDocument /\ failed = NoService
    BY <1>3 DEF DocsInit, NoService
  <1>7. kind # "docs" => DocsUnused
    BY <1>3, <1>5, <1>6 DEF DocsUnused, DocsInit
  <1>8. ChainsInv /\ PageInv
    BY <1>5, <1>6 DEF ChainsInv, PageInv
  <1>9. \A s \in Service : ChainOK(s)
    <2> SUFFICES ASSUME NEW s \in Service
                 PROVE  ChainOK(s)
      OBVIOUS
    <2>1. asking[s] = 0 /\ failed[s] = 0 /\ listed[s] \in Nat
      BY <1>2, <1>3, <1>5 DEF Resting, DocsInit
    <2> QED
      BY <2>1 DEF ChainOK
  <1> QED
    BY <1>1, <1>4, <1>7, <1>8, <1>9 DEF DocsInv

\* What a step of the documents' kind does to one chain; the others wait.
ChainStep(s, next, ds) ==
    /\ asking' = [asking EXCEPT ![s] = next]
    /\ docs' = ds
    /\ UNCHANGED listed

(* An event of one chain.                                                  *)
LEMMA FetchKept ==
    ASSUME DocsStateOK, ChainsInv, PageInv, \A t \in Service : ChainOK(t),
           NEW s \in Service, FetchOver(s)
    PROVE  DocsStateOK' /\ ChainsInv' /\ PageInv' /\ \A t \in Service : ChainOK(t)'
  <1>1. asking[s] \in Nat /\ asking[s] > 0 /\ listed[s] \in Nat /\ failed[s] = asking[s] - 1
    /\ asking[s] <= listed[s]
    <2>1. listed[s] \in 0 .. MaxInstances /\ MaxInstances \in Nat
      BY ProxyAssumption DEF DocsStateOK
    <2> QED
      BY <2>1 DEF FetchOver, Fetched, FetchFailed, ChainOK, DocsStateOK
  <1>2. s \notin ToSet(docs) /\ docs \in Seq(Service)
    BY <1>1 DEF ChainOK, DocsStateOK
  <1>3. ~done /\ page = NoDocument /\ \A t \in Service : ChainEnded(t)
    BY <1>1 DEF Resting, ChainsInv, PageInv
  <1>4. listed' = listed /\ PageInv'
    <2>1. ASSUME NEW chains, NEW ds, WhenAll(chains, ds)
          PROVE  PageInv'
      BY <1>3, <2>1 DEF WhenAll, PageInv, Resting
    <2> QED
      BY <2>1 DEF FetchOver, Fetched, FetchFailed
  <1>5. Resting' => done'
    BY DEF FetchOver, Fetched, FetchFailed, WhenAll, Resting
  <1>6. DocsStateOK'
    <2>1. asking' \in [Service -> Nat] /\ failed' \in [Service -> Nat]
      <3>1. \A n \in Nat : /\ [asking EXCEPT ![s] = n] \in [Service -> Nat]
                           /\ [failed EXCEPT ![s] = n] \in [Service -> Nat]
        BY DEF DocsStateOK
      <3>2. asking[s] + 1 \in Nat /\ failed[s] + 1 \in Nat /\ failed' \in {failed, [failed EXCEPT ![s] = @ + 1]}
        BY <1>1 DEF FetchOver, Fetched, FetchFailed
      <3>3. failed' \in [Service -> Nat]
        BY <3>1, <3>2 DEF DocsStateOK
      <3>4. CASE Fetched(s)
        BY <3>1, <3>3, <3>4 DEF Fetched, WhenAll
      <3>5. CASE FetchFailed(s)
        <4>1. (IF asking[s] < listed[s] THEN asking[s] + 1 ELSE 0) \in Nat
          BY <1>1
        <4>2. asking' = [asking EXCEPT ![s] = IF asking[s] < listed[s] THEN asking[s] + 1 ELSE 0]
          BY <3>5 DEF FetchFailed, WhenAll
        <4> QED
          BY <3>1, <3>3, <4>1, <4>2
      <3> QED
        BY <3>4, <3>5 DEF FetchOver
    <2>2. docs' \in Seq(Service) /\ OncePerService(docs')
      <3>1. CASE docs' = docs
        BY <1>2, <3>1 DEF DocsStateOK
      <3>2. CASE docs' = Append(docs, s)
        <4>1. Append(docs, s) \in Seq(Service)
          BY <1>2, ToSetAppend
        <4>2. OncePerService(docs)
          BY DEF DocsStateOK
        <4>3. OncePerService(Append(docs, s))
          BY <1>2, <4>2, AppendOnce
        <4> QED
          BY <3>2, <4>1, <4>3
      <3> QED
        BY <3>1, <3>2 DEF FetchOver, Fetched, FetchFailed, WhenAll
    <2> QED
      BY <1>4, <2>1, <2>2 DEF DocsStateOK
  <1>7. ASSUME NEW t \in Service, t # s
        PROVE  /\ asking'[t] = asking[t] /\ failed'[t] = failed[t]
               /\ t \in ToSet(docs') <=> t \in ToSet(docs)
    <2>1. asking'[t] = asking[t] /\ failed'[t] = failed[t]
      BY <1>7 DEF FetchOver, Fetched, FetchFailed, WhenAll, DocsStateOK
    <2>2. docs' = docs \/ docs' = Append(docs, s)
      BY DEF FetchOver, Fetched, FetchFailed, WhenAll
    <2>3. t \in ToSet(docs') <=> t \in ToSet(docs)
      BY <1>2, <1>7, <2>2, ToSetAppend
    <2> QED
      BY <2>1, <2>3
  <1>8. \/ asking'[s] = 0 /\ failed'[s] = failed[s] /\ s \in ToSet(docs')
        \/ asking'[s] = 0 /\ failed'[s] = listed[s] /\ s \notin ToSet(docs')
        \/ /\ asking'[s] = asking[s] + 1 /\ asking[s] < listed[s]
           /\ failed'[s] = asking[s] /\ s \notin ToSet(docs')
    <2>1. CASE Fetched(s)
      <3>1. asking'[s] = 0 /\ failed'[s] = failed[s] /\ docs' = Append(docs, s)
        BY <2>1 DEF Fetched, WhenAll, DocsStateOK
      <3> QED
        BY <1>2, <3>1, ToSetAppend
    <2>2. CASE FetchFailed(s)
      <3>1. failed'[s] = failed[s] + 1 /\ docs' = docs
        BY <2>2 DEF FetchFailed, WhenAll, DocsStateOK
      <3>2. asking'[s] = IF asking[s] < listed[s] THEN asking[s] + 1 ELSE 0
        BY <2>2 DEF FetchFailed, WhenAll, DocsStateOK
      <3> QED
        BY <1>1, <1>2, <3>1, <3>2
    <2> QED
      BY <2>1, <2>2 DEF FetchOver
  <1>9. ASSUME NEW t \in Service
        PROVE  ChainOK(t)' /\ ChainEnded(t)'
    <2>1. CASE t = s
      BY <1>1, <1>4, <1>8, <2>1 DEF ChainOK, ChainEnded
    <2>2. CASE t # s
      <3>1. ChainOK(t) /\ ChainEnded(t)
        BY <1>3
      <3> QED
        BY <1>4, <1>7, <2>2, <3>1 DEF ChainOK, ChainEnded
    <2> QED
      BY <2>1, <2>2
  <1>10. ChainsInv'
    BY <1>5, <1>9 DEF ChainsInv
  <1> QED
    BY <1>4, <1>6, <1>9, <1>10

(* The middleware's beginning.                                             *)
LEMMA UseKept ==
    ASSUME DocsStateOK, ChainsInv, PageInv, \A s \in Service : ChainOK(s), Use
    PROVE  DocsStateOK' /\ ChainsInv' /\ PageInv' /\ \A s \in Service : ChainOK(s)'
  <1>1. ~done /\ Resting /\ docs = << >> /\ page = NoDocument /\ \A s \in Service : failed[s] = 0
    BY DEF Use, ChainsInv, Resting, PageInv
  <1>2. /\ listed' = listed /\ failed' = failed /\ docs' = docs
        /\ asking' = [s \in Service |-> IF listed[s] > 0 THEN 1 ELSE 0]
    BY DEF Use, WhenAll
  <1>3. DocsStateOK'
    BY <1>2 DEF DocsStateOK
  <1>4. PageInv' /\ (Resting' => done')
    BY <1>1 DEF Use, WhenAll, PageInv, Resting
  <1>5. ASSUME NEW s \in Service
        PROVE  ChainOK(s)' /\ ChainEnded(s)'
    <2>1. listed[s] \in Nat
      BY ProxyAssumption DEF DocsStateOK
    <2>2. s \notin ToSet(docs') /\ failed'[s] = 0 /\ listed'[s] = listed[s]
      BY <1>1, <1>2, NoDocs
    <2>3. asking'[s] = IF listed[s] > 0 THEN 1 ELSE 0
      BY <1>2
    <2> QED
      BY <2>1, <2>2, <2>3 DEF ChainOK, ChainEnded
  <1>6. ChainsInv'
    BY <1>4, <1>5 DEF ChainsInv
  <1> QED
    BY <1>3, <1>4, <1>5, <1>6

(* Every step of the gateway keeps DocsInv.                                *)
LEMMA DocsStep == DocsInv /\ RouteInv /\ [GatewayNext]_gatewayVars => DocsInv' /\ RouteInv'
  <1> SUFFICES ASSUME DocsInv, RouteInv, [GatewayNext]_gatewayVars
               PROVE  DocsInv' /\ RouteInv'
    OBVIOUS
  <1>1. UNCHANGED <<kind, route, guards>>
    BY DEF GatewayNext, Handle, ProxyForward, OnDocs, OnHttp, OnWs, gatewayVars, routeVars
  <1>2. RouteInv'
    BY <1>1 DEF RouteInv
  <1>3. CASE kind = "docs" /\ (Use \/ \E s \in Service : FetchOver(s))
    BY <1>1, <1>2, <1>3, UseKept, FetchKept DEF DocsInv
  <1>4. CASE UNCHANGED docsVars /\ (kind = "docs" => UNCHANGED done)
    <2>1. UNCHANGED <<listed, asking, failed, docs, page>>
      BY <1>4 DEF docsVars
    <2>2. DocsStateOK' /\ (DocsUnused => DocsUnused')
      BY <2>1 DEF DocsInv, DocsStateOK, DocsUnused, Resting
    <2>3. (\A s \in Service : ChainOK(s)) => \A s \in Service : ChainOK(s)'
      BY <2>1 DEF ChainOK
    <2>4. UNCHANGED done /\ ChainsInv => ChainsInv'
      BY <2>1 DEF ChainsInv, Resting, ChainEnded
    <2>5. UNCHANGED done /\ PageInv => PageInv'
      BY <2>1 DEF PageInv, Resting
    <2> QED
      BY <1>1, <1>2, <1>4, <2>2, <2>3, <2>4, <2>5 DEF DocsInv
  <1> QED
    BY <1>3, <1>4 DEF GatewayNext, Handle, ProxyForward, Arriving, OnDocs, OnHttp, OnWs,
                      gatewayVars, attemptVars

(* Hence it always holds, and the request stays of one kind.               *)
LEMMA DocsInvariant == GatewaySpec => [](DocsInv /\ RouteInv)
  BY DocsInitOK, DocsStep, PTL DEF GatewaySpec

(* The API documents' page: a service is described on it if and only if one *)
(* of its instances gave a document, whatever the order the chains ended in, *)
(* and its own path by nobody else; the shared path by one of the described. *)
THEOREM GatewayAllDocsMerged == GatewaySpec => []AllDocsMerged
  <1>1. ASSUME DocsInv, RouteInv
        PROVE  AllDocsMerged
    <2> DEFINE documented == {s \in Service : failed[s] < listed[s]}
    <2>1. SUFFICES ASSUME done
                   PROVE  DescribedBy(page, documented)
      BY DEF AllDocsMerged, DescribedBy
    <2>2. CASE kind = "docs"
      <3>1. page = MergeDocs(docs) /\ \A s \in Service : ChainEnded(s) /\ asking[s] = 0
        BY <1>1, <2>1, <2>2 DEF DocsInv, PageInv, ChainsInv, Resting
      <3>2. docs \in Seq(Service) /\ ToSet(docs) \subseteq Service
        BY <1>1 DEF DocsInv, DocsStateOK, ToSet
      <3>3. documented = ToSet(docs)
        BY <3>1, <3>2 DEF ChainEnded
      <3> QED
        BY <3>1, <3>2, <3>3, MergeFacts
    <2>3. CASE kind # "docs"
      <3>1. DocsUnused
        BY <1>1, <2>3 DEF DocsInv
      <3>2. documented = {}
        BY <3>1 DEF DocsUnused, NoService
      <3>3. page = << >>
        BY <3>1 DEF DocsUnused, NoDocument
      <3> QED
        BY <3>2, <3>3 DEF DescribedBy
    <2> QED
      BY <2>2, <2>3
  <1> QED
    BY <1>1, DocsInvariant, PTL

(* Type correctness of the gateway, of all three kinds of request: in       *)
(* particular no attempt is numbered beyond the listing.                   *)
THEOREM GatewayTypeCorrect == GatewaySpec => []GatewayTypeOK
  <1>1. TypeInv /\ HeadInv /\ GatewayInv /\ WsInv => BaseTypeOK /\ HttpTypeOK /\ WsTypeOK
    <2> SUFFICES ASSUME TypeInv, HeadInv, GatewayInv, WsInv
                 PROVE  BaseTypeOK /\ HttpTypeOK /\ WsTypeOK
      OBVIOUS
    <2>1. res \in Responses
      BY AnswerIsOne DEF OneAnswer
    <2>2. spoken \subseteq 0 .. MaxInstances
      BY AttemptSource DEF GatewayInv, KindInv, WsInv, SpeakInv, Sources
    <2> QED
      BY <2>1, <2>2 DEF TypeInv, HeadInv, GatewayInv, ConnInv, ConnTypeOK, Status, Responses,
                        BaseTypeOK, HttpTypeOK, WsTypeOK
  <1>2. DocsInv => DocsTypeOK
    <2> SUFFICES ASSUME DocsInv
                 PROVE  DocsTypeOK
      OBVIOUS
    <2>1. OncePerService(docs) /\ docs \in Seq(Service) /\ listed \in [Service -> 0 .. MaxInstances]
      BY DEF DocsInv, DocsStateOK
    <2>2. IsInjective(docs)
      BY <2>1 DEF OncePerService, IsInjective
    <2>3. ToSet(docs) \subseteq Service
      BY <2>1 DEF ToSet
    <2>4. ASSUME NEW s \in Service
          PROVE  asking[s] \in 0 .. listed[s] /\ failed[s] \in 0 .. listed[s]
      <3>1. listed[s] \in Nat /\ asking[s] \in Nat /\ failed[s] \in Nat
        BY <2>1, ProxyAssumption DEF DocsInv, DocsStateOK
      <3>2. asking[s] <= listed[s] /\ failed[s] <= listed[s]
        <4>1. CASE kind = "docs"
          BY <4>1 DEF DocsInv, ChainOK
        <4>2. CASE kind # "docs"
          BY <3>1, <4>2 DEF DocsInv, DocsUnused, Resting, NoService
        <4> QED
          BY <4>1, <4>2
      <3> QED
        BY <3>1, <3>2
    <2>5. DOMAIN page \subseteq Service \cup {Shared}
      <3>1. CASE page = NoDocument
        BY <3>1 DEF NoDocument
      <3>2. CASE page = MergeDocs(docs)
        <4>1. DescribedBy(page, ToSet(docs))
          BY <2>1, <3>2, MergeFacts
        <4> QED
          BY <2>3, <4>1 DEF DescribedBy, Paths
      <3> QED
        BY <3>1, <3>2 DEF DocsInv, DocsUnused, PageInv
    <2> QED
      BY <2>1, <2>2, <2>3, <2>4, <2>5 DEF DocsTypeOK
  <1>3. TypeInv /\ HeadInv /\ GatewayInv /\ WsInv /\ DocsInv /\ RouteInv => GatewayTypeOK
    BY <1>1, <1>2 DEF RouteInv, GatewayTypeOK
  <1> QED
    BY <1>3, TypeInvariant, GatewayInvariant, WsInvariant, DocsInvariant, PTL

-----------------------------------------------------------------------------
(* The paths.  The folds of Letters and Squeezed are read one character at *)
(* a time; then what holds of one step holds of a text of any length.      *)

Text == Seq(Character)

\* One character of Letters and of Squeezed.
KeptStep(kept, c) == IF c = "/" THEN kept ELSE Append(kept, c)

SqueezeStep(made, c) == IF c = "/" /\ IsSuffix(<<"/">>, made) THEN made ELSE Append(made, c)

\* What Letters and Squeezed have made of a text's first characters.
LettersUpTo(g, text) ==
    g[0] = << >> /\ \A n \in 1 .. Len(text) : g[n] = KeptStep(g[n - 1], text[n])

SqueezedUpTo(g, text) ==
    g[0] = << >> /\ \A n \in 1 .. Len(text) : g[n] = SqueezeStep(g[n - 1], text[n])

LEMMA LettersExist ==
    ASSUME NEW text \in Text
    PROVE  \E g : LettersUpTo(g, text) /\ Letters(text) = g[Len(text)]
  <1> DEFINE S == DOMAIN text
             choose == [s \in SUBSET S |-> Max(s)]
             op == [c \in Character |-> [kept \in Text |-> KeptStep(kept, c)]]
             step == [i \in S |-> op[text[i]]]
             Folds(f) == f = [s \in SUBSET S |->
                                IF s = {} THEN << >>
                                ELSE IF text[Max(s)] = "/" THEN f[s \ {Max(s)}]
                                     ELSE Append(f[s \ {Max(s)}], text[Max(s)])]
             h == CHOOSE f : Folds(f)
  <1>1. S = 1 .. Len(text) /\ Len(text) \in Nat /\ \A i \in S : text[i] \in Character
    BY DEF Text
  <1>2. IsFiniteSet(S) /\ S \in SUBSET Nat
    BY <1>1, FS_Interval
  <1>3. \A s \in SUBSET S : s # {} => Max(s) \in s
    BY <1>2, FS_Subset, MaxIn
  <1>4. op \in [Character -> [Text -> Text]]
    BY DEF KeptStep, Text
  <1>5. PICK f \in [SUBSET S -> Text] : IsFold(f, S, << >>, choose, step)
    <2> DEFINE base == << >>
    <2>1. base \in Text
      BY DEF Text
    <2>2. step \in [S -> [Text -> Text]]
      <3> HIDE DEF op
      <3> QED
        BY <1>1, <1>4
    <2>3. Chooses(choose, S)
      BY <1>3 DEF Chooses
    <2> HIDE DEF S, choose, step, base, h
    <2>4. \E f \in [SUBSET S -> Text] : IsFold(f, S, base, choose, step)
      BY <1>2, <2>1, <2>2, <2>3, FoldExists
    <2> QED
      BY <2>4 DEF base
  <1>6. ASSUME NEW s \in SUBSET S, s # {}
        PROVE  step[choose[s]][f[s \ {choose[s]}]] = KeptStep(f[s \ {Max(s)}], text[Max(s)])
    <2>1. choose[s] = Max(s) /\ Max(s) \in S /\ f[s \ {Max(s)}] \in Text /\ text[Max(s)] \in Character
      BY <1>1, <1>3, <1>6
    <2>2. step[Max(s)] = op[text[Max(s)]]
      BY <2>1
    <2> HIDE DEF choose
    <2>3. op[text[Max(s)]][f[s \ {Max(s)}]] = KeptStep(f[s \ {Max(s)}], text[Max(s)])
      BY <2>1
    <2> QED
      BY <2>1, <2>2, <2>3
  <1>7. Folds(f)
    <2> HIDE DEF step, choose, S
    <2> QED
      BY <1>5, <1>6 DEF IsFold, KeptStep
  <1>8. Folds(h)
    <2> HIDE DEF Folds
    <2> QED
      BY <1>7
  <1>9. Letters(text) = h[S]
    BY DEF Letters, FoldLeft, MapThenFoldSet
  <1> DEFINE g == [n \in 0 .. Len(text) |-> h[1 .. n]]
  <1> HIDE DEF h
  <1>10. g[0] = << >>
    <2>1. 1 .. 0 = {}
      OBVIOUS
    <2> QED
      BY <1>1, <1>8, <2>1
  <1>11. ASSUME NEW n \in 1 .. Len(text)
         PROVE  g[n] = KeptStep(g[n - 1], text[n])
    <2>1. n \in Nat \ {0} /\ 1 .. n \in SUBSET S /\ n \in 0 .. Len(text) /\ n - 1 \in 0 .. Len(text)
      BY <1>1
    <2>2. Max(1 .. n) = n /\ (1 .. n) \ {n} = 1 .. (n - 1) /\ 1 .. n # {}
      BY <2>1, FirstPositions
    <2>3. h[1 .. n] = KeptStep(h[(1 .. n) \ {Max(1 .. n)}], text[Max(1 .. n)])
      BY <1>8, <2>1, <2>2 DEF KeptStep
    <2> QED
      BY <2>1, <2>2, <2>3
  <1>12. Letters(text) = g[Len(text)]
    BY <1>1, <1>9
  <1> HIDE DEF g
  <1> QED
    BY <1>10, <1>11, <1>12 DEF LettersUpTo

LEMMA SqueezedExist ==
    ASSUME NEW text \in Text
    PROVE  \E g : SqueezedUpTo(g, text) /\ Squeezed(text) = g[Len(text)]
  <1> DEFINE S == DOMAIN text
             choose == [s \in SUBSET S |-> Max(s)]
             op == [c \in Character |-> [made \in Text |-> SqueezeStep(made, c)]]
             step == [i \in S |-> op[text[i]]]
             Folds(f) == f = [s \in SUBSET S |->
                                IF s = {} THEN << >>
                                ELSE IF text[Max(s)] = "/" /\ IsSuffix(<<"/">>, f[s \ {Max(s)}])
                                     THEN f[s \ {Max(s)}]
                                     ELSE Append(f[s \ {Max(s)}], text[Max(s)])]
             h == CHOOSE f : Folds(f)
  <1>1. S = 1 .. Len(text) /\ Len(text) \in Nat /\ \A i \in S : text[i] \in Character
    BY DEF Text
  <1>2. IsFiniteSet(S) /\ S \in SUBSET Nat
    BY <1>1, FS_Interval
  <1>3. \A s \in SUBSET S : s # {} => Max(s) \in s
    BY <1>2, FS_Subset, MaxIn
  <1>4. op \in [Character -> [Text -> Text]]
    BY DEF SqueezeStep, Text
  <1>5. PICK f \in [SUBSET S -> Text] : IsFold(f, S, << >>, choose, step)
    <2> DEFINE base == << >>
    <2>1. base \in Text
      BY DEF Text
    <2>2. step \in [S -> [Text -> Text]]
      <3> HIDE DEF op
      <3> QED
        BY <1>1, <1>4
    <2>3. Chooses(choose, S)
      BY <1>3 DEF Chooses
    <2> HIDE DEF S, choose, step, base, h
    <2>4. \E f \in [SUBSET S -> Text] : IsFold(f, S, base, choose, step)
      BY <1>2, <2>1, <2>2, <2>3, FoldExists
    <2> QED
      BY <2>4 DEF base
  <1>6. ASSUME NEW s \in SUBSET S, s # {}
        PROVE  step[choose[s]][f[s \ {choose[s]}]] = SqueezeStep(f[s \ {Max(s)}], text[Max(s)])
    <2>1. choose[s] = Max(s) /\ Max(s) \in S /\ f[s \ {Max(s)}] \in Text /\ text[Max(s)] \in Character
      BY <1>1, <1>3, <1>6
    <2>2. step[Max(s)] = op[text[Max(s)]]
      BY <2>1
    <2> HIDE DEF choose
    <2>3. op[text[Max(s)]][f[s \ {Max(s)}]] = SqueezeStep(f[s \ {Max(s)}], text[Max(s)])
      BY <2>1
    <2> QED
      BY <2>1, <2>2, <2>3
  <1>7. Folds(f)
    <2> HIDE DEF step, choose, S
    <2> QED
      BY <1>5, <1>6 DEF IsFold, SqueezeStep
  <1>8. Folds(h)
    <2> HIDE DEF Folds
    <2> QED
      BY <1>7
  <1>9. Squeezed(text) = h[S]
    BY DEF Squeezed, FoldLeft, MapThenFoldSet
  <1> DEFINE g == [n \in 0 .. Len(text) |-> h[1 .. n]]
  <1> HIDE DEF h
  <1>10. g[0] = << >>
    <2>1. 1 .. 0 = {}
      OBVIOUS
    <2> QED
      BY <1>1, <1>8, <2>1
  <1>11. ASSUME NEW n \in 1 .. Len(text)
         PROVE  g[n] = SqueezeStep(g[n - 1], text[n])
    <2>1. n \in Nat \ {0} /\ 1 .. n \in SUBSET S /\ n \in 0 .. Len(text) /\ n - 1 \in 0 .. Len(text)
      BY <1>1
    <2>2. Max(1 .. n) = n /\ (1 .. n) \ {n} = 1 .. (n - 1) /\ 1 .. n # {}
      BY <2>1, FirstPositions
    <2>3. h[1 .. n] = SqueezeStep(h[(1 .. n) \ {Max(1 .. n)}], text[Max(1 .. n)])
      BY <1>8, <2>1, <2>2 DEF SqueezeStep
    <2> QED
      BY <2>1, <2>2, <2>3
  <1>12. Squeezed(text) = g[Len(text)]
    BY <1>1, <1>9
  <1> HIDE DEF g
  <1> QED
    BY <1>10, <1>11, <1>12 DEF SqueezedUpTo

LEMMA SlashIs == "/" \in Character /\ Letter \subseteq Character /\ \A c \in Letter : c # "/"
  BY OutgoingAssumption DEF Character

LEMMA LettersTyped ==
    ASSUME NEW text \in Text, NEW g, LettersUpTo(g, text)
    PROVE  \A n \in 0 .. Len(text) : g[n] \in Text
  <1> DEFINE S == {n \in 0 .. Len(text) : g[n] \in Text}
  <1>1. Len(text) \in Nat /\ \A n \in 1 .. Len(text) : text[n] \in Character
    BY DEF Text
  <1>2. 0 \in S
    <2>1. << >> \in Text
      BY DEF Text
    <2>2. 0 \in 0 .. Len(text)
      BY <1>1
    <2> QED
      BY <2>1, <2>2 DEF LettersUpTo
  <1>3. ASSUME NEW n \in 1 .. Len(text), n - 1 \in S
        PROVE  n \in S
    <2>1. g[n] = KeptStep(g[n - 1], text[n]) /\ g[n - 1] \in Text /\ n \in 0 .. Len(text)
      BY <1>1, <1>3 DEF LettersUpTo
    <2>2. \A kept \in Text, c \in Character : KeptStep(kept, c) \in Text
      BY DEF KeptStep, Text
    <2> QED
      BY <1>1, <2>1, <2>2
  <1>4. \A n \in 0 .. Len(text) : n \in S
    <2> HIDE DEF S
    <2> QED
      BY <1>1, <1>2, <1>3, StepByStep
  <1> QED
    BY <1>4

(* The letters of a text that begins with another begin with its letters. *)
LEMMA LettersOfBeginning ==
    ASSUME NEW a \in Text, NEW b \in Text, NEW g, LettersUpTo(g, a),
           NEW k, LettersUpTo(k, a \o b)
    PROVE  \A n \in 0 .. Len(a) : k[n] = g[n]
  <1> DEFINE S == {n \in 0 .. Len(a) : k[n] = g[n]}
  <1>1. Len(a) \in Nat /\ Len(b) \in Nat /\ Len(a \o b) = Len(a) + Len(b)
    BY DEF Text
  <1>2. 0 \in S
    BY <1>1 DEF LettersUpTo
  <1>3. ASSUME NEW n \in 1 .. Len(a), n - 1 \in S
        PROVE  n \in S
    <2>1. (a \o b)[n] = a[n] /\ n \in 1 .. Len(a \o b)
      BY <1>1 DEF Text
    <2> QED
      BY <1>1, <1>3, <2>1 DEF LettersUpTo
  <1>4. \A n \in 0 .. Len(a) : n \in S
    <2> HIDE DEF S
    <2> QED
      BY <1>1, <1>2, <1>3, StepByStep
  <1> QED
    BY <1>4

LEMMA LettersConcat ==
    ASSUME NEW a \in Text, NEW b \in Text
    PROVE  Letters(a \o b) = Letters(a) \o Letters(b)
  <1>1. /\ Len(a) \in Nat /\ Len(b) \in Nat /\ Len(a \o b) = Len(a) + Len(b)
        /\ a \o b \in Text
    BY DEF Text
  <1>2. PICK g : LettersUpTo(g, a) /\ Letters(a) = g[Len(a)]
    BY LettersExist
  <1>3. PICK h : LettersUpTo(h, b) /\ Letters(b) = h[Len(b)]
    BY LettersExist
  <1>4. PICK k : LettersUpTo(k, a \o b) /\ Letters(a \o b) = k[Len(a \o b)]
    BY <1>1, LettersExist
  <1> DEFINE Same(n) == k[Len(a) + n] = g[Len(a)] \o h[n]
             S == {n \in 0 .. Len(b) : Same(n)}
  <1>5. g[Len(a)] \in Text /\ \A n \in 0 .. Len(b) : h[n] \in Text
    BY <1>1, <1>2, <1>3, LettersTyped
  <1>6. 0 \in S
    <2>1. k[Len(a)] = g[Len(a)]
      BY <1>1, <1>2, <1>4, LettersOfBeginning
    <2>2. h[0] = << >>
      BY <1>3 DEF LettersUpTo
    <2>3. g[Len(a)] \o << >> = g[Len(a)]
      BY <1>5, ConcatEmptySeq DEF Text
    <2>4. Same(0)
      BY <1>1, <2>1, <2>2, <2>3
    <2> HIDE DEF Same
    <2> QED
      BY <1>1, <2>4
  <1>7. ASSUME NEW n \in 1 .. Len(b), n - 1 \in S
        PROVE  n \in S
    <2>1. (a \o b)[Len(a) + n] = b[n] /\ Len(a) + n \in 1 .. Len(a \o b) /\ b[n] \in Character
      BY <1>1 DEF Text
    <2>2. k[Len(a) + n] = KeptStep(k[(Len(a) + n) - 1], b[n])
      BY <1>4, <2>1 DEF LettersUpTo
    <2>3. (Len(a) + n) - 1 = Len(a) + (n - 1) /\ n - 1 \in 0 .. Len(b)
      BY <1>1
    <2>4. k[Len(a) + n] = KeptStep(g[Len(a)] \o h[n - 1], b[n])
      BY <1>7, <2>2, <2>3
    <2>5. h[n] = KeptStep(h[n - 1], b[n])
      BY <1>3 DEF LettersUpTo
    <2>6. h[n - 1] \in Text
      BY <1>5, <2>3
    <2> DEFINE x == g[Len(a)]
               y == h[n - 1]
               c == b[n]
    <2>7. Append(x \o y, c) = x \o Append(y, c)
      <3>1. x \in Seq(Character) /\ y \in Seq(Character) /\ c \in Character
        BY <1>5, <2>1, <2>6 DEF Text
      <3> HIDE DEF x, y, c
      <3> QED
        BY <3>1
    <2>8. KeptStep(x \o y, c) = x \o KeptStep(y, c)
      BY <2>7 DEF KeptStep
    <2>9. Same(n)
      BY <2>4, <2>5, <2>8
    <2> HIDE DEF Same
    <2> QED
      BY <1>1, <2>9
  <1>8. \A n \in 0 .. Len(b) : n \in S
    <2> HIDE DEF S
    <2> QED
      BY <1>1, <1>6, <1>7, StepByStep
  <1>9. Same(Len(b))
    <2> HIDE DEF Same
    <2> QED
      BY <1>1, <1>8
  <1> QED
    BY <1>1, <1>2, <1>3, <1>4, <1>9

LEMMA LettersOfOne ==
    ASSUME NEW c \in Character
    PROVE  Letters(<<c>>) = IF c = "/" THEN << >> ELSE <<c>>
  <1>1. <<c>> \in Text /\ Len(<<c>>) = 1 /\ <<c>>[1] = c
    BY DEF Text
  <1>2. PICK g : LettersUpTo(g, <<c>>) /\ Letters(<<c>>) = g[1]
    BY <1>1, LettersExist
  <1>3. g[1] = KeptStep(<< >>, c)
    BY <1>1, <1>2 DEF LettersUpTo
  <1>4. Append(<< >>, c) = <<c>>
    OBVIOUS
  <1> QED
    BY <1>2, <1>3, <1>4 DEF KeptStep

LEMMA LettersIn ==
    ASSUME NEW text \in Text
    PROVE  Letters(text) \in Text
  <1>1. PICK g : LettersUpTo(g, text) /\ Letters(text) = g[Len(text)]
    BY LettersExist
  <1>2. Len(text) \in 0 .. Len(text)
    BY DEF Text
  <1> QED
    BY <1>1, <1>2, LettersTyped

(* A slash more or less changes none of the letters. *)
LEMMA LettersOverSlash ==
    ASSUME NEW a \in Text, NEW b \in Text
    PROVE  Letters((a \o <<"/">>) \o b) = Letters(a \o b)
  <1>1. "/" \in Character /\ <<"/">> \in Text /\ a \o <<"/">> \in Text
    BY SlashIs DEF Text
  <1>2. Letters(<<"/">>) = << >>
    BY <1>1, LettersOfOne
  <1>3. Letters(a \o <<"/">>) = Letters(a) \o << >>
    BY <1>1, <1>2, LettersConcat
  <1>4. Letters(a) \o << >> = Letters(a)
    BY LettersIn, ConcatEmptySeq DEF Text
  <1> DEFINE x == a \o <<"/">>
  <1>5. x \in Text /\ Letters(x) = Letters(a)
    BY <1>1, <1>3, <1>4
  <1> HIDE DEF x
  <1>6. Letters(x \o b) = Letters(x) \o Letters(b)
    BY <1>5, LettersConcat
  <1>7. Letters(x \o b) = Letters(a \o b)
    BY <1>5, <1>6, LettersConcat
  <1> QED
    BY <1>7 DEF x

(* What the tests for a slash at the beginning or the end look at. *)
LEMMA BeginsWithSlash ==
    ASSUME NEW p \in Text
    PROVE  IsPrefix(<<"/">>, p) <=> Len(p) >= 1 /\ p[1] = "/"
  <1>1. SubSeq(<<"/">>, 1, Len(<<"/">>)) = <<"/">> /\ Len(<<"/">>) = 1
    <2>1. <<"/">> \in Seq(Character)
      BY SlashIs
    <2> QED
      BY <2>1, SubSeqFull
  <1>2. CASE Len(p) >= 1
    <2> DEFINE q == SubSeq(p, 1, 1)
    <2>1. q \in Seq(Character) /\ Len(q) = 1 /\ q[1] = p[1]
      BY <1>2, SubSeqProperties DEF Text
    <2> HIDE DEF q
    <2>2. q = <<"/">> <=> p[1] = "/"
      <3>1. q = <<q[1]>>
        BY <2>1
      <3> QED
        BY <2>1, <3>1
    <2> USE DEF q
    <2> QED
      BY <1>1, <1>2, <2>1, <2>2 DEF IsPrefix
  <1>3. CASE ~(Len(p) >= 1)
    <2>1. ~(1 <= Len(p))
      BY <1>3 DEF Text
    <2> QED
      BY <1>1, <1>3, <2>1 DEF IsPrefix
  <1> QED
    BY <1>2, <1>3

LEMMA EndsWithSlash ==
    ASSUME NEW p \in Text
    PROVE  IsSuffix(<<"/">>, p) <=> Len(p) >= 1 /\ p[Len(p)] = "/"
  <1> DEFINE r == Reverse(p)
  <1>1. r \in Text /\ Len(r) = Len(p) /\ (Len(p) >= 1 => r[1] = p[Len(p)])
    BY DEF Text, Reverse
  <1>2. Reverse(<<"/">>) = <<"/">>
    BY DEF Reverse
  <1> HIDE DEF r
  <1>3. IsSuffix(<<"/">>, p) <=> IsPrefix(<<"/">>, r)
    BY <1>2 DEF IsSuffix, r
  <1> QED
    BY <1>1, <1>3, BeginsWithSlash

LEMMA NamesHostIs ==
    ASSUME NEW p \in Text
    PROVE  NamesHost(p) <=> Len(p) >= 2 /\ p[1] = "/" /\ p[2] = "/"
  <1>1. SubSeq(<<"/", "/">>, 1, Len(<<"/", "/">>)) = <<"/", "/">> /\ Len(<<"/", "/">>) = 2
    <2>1. <<"/", "/">> \in Seq(Character)
      BY SlashIs
    <2> QED
      BY <2>1, SubSeqFull
  <1>2. CASE Len(p) >= 2
    <2> DEFINE q == SubSeq(p, 1, 2)
    <2>1. q \in Seq(Character) /\ Len(q) = 2 /\ q[1] = p[1] /\ q[2] = p[2]
      BY <1>2, SubSeqProperties DEF Text
    <2> HIDE DEF q
    <2>2. q = <<"/", "/">> <=> p[1] = "/" /\ p[2] = "/"
      <3>1. q = <<q[1], q[2]>>
        BY <2>1
      <3> QED
        BY <2>1, <3>1
    <2> USE DEF q
    <2> QED
      BY <1>1, <1>2, <2>1, <2>2 DEF IsPrefix, NamesHost
  <1>3. CASE ~(Len(p) >= 2)
    <2>1. ~(2 <= Len(p))
      BY <1>3 DEF Text
    <2> QED
      BY <1>1, <1>3, <2>1 DEF IsPrefix, NamesHost
  <1> QED
    BY <1>2, <1>3

\* No two slashes next to each other.
Single(path) == \A i \in 2 .. Len(path) : path[i] # "/" \/ path[i - 1] # "/"

(* One step of Squeezed keeps the letters, and never doubles a slash.      *)
LEMMA SqueezeStepIs ==
    ASSUME NEW d \in Text, NEW c \in Character, Single(d)
    PROVE  /\ SqueezeStep(d, c) \in Text
           /\ Letters(SqueezeStep(d, c)) = KeptStep(Letters(d), c)
           /\ Single(SqueezeStep(d, c))
           /\ d # << >> => SqueezeStep(d, c) # << >> /\ SqueezeStep(d, c)[1] = d[1]
           /\ d = << >> => SqueezeStep(d, c) = <<c>>
  <1>1. CASE c = "/" /\ IsSuffix(<<"/">>, d)
    <2>1. SqueezeStep(d, c) = d /\ KeptStep(Letters(d), c) = Letters(d)
      BY <1>1 DEF SqueezeStep, KeptStep
    <2>2. Len(d) >= 1
      BY <1>1, EndsWithSlash
    <2> QED
      BY <2>1, <2>2
  <1>2. CASE ~(c = "/" /\ IsSuffix(<<"/">>, d))
    <2> DEFINE x == d \o <<c>>
    <2>1. SqueezeStep(d, c) = Append(d, c)
      BY <1>2 DEF SqueezeStep
    <2>2. Append(d, c) = x
      BY DEF Text
    <2>3. x \in Text /\ Len(x) = Len(d) + 1 /\ Len(d) \in Nat
      BY DEF Text
    <2>4. x[Len(d) + 1] = c /\ \A i \in 1 .. Len(d) : x[i] = d[i]
      BY DEF Text
    <2>5. Letters(x) = KeptStep(Letters(d), c)
      <3>1. <<c>> \in Text
        BY DEF Text
      <3>2. Letters(x) = Letters(d) \o Letters(<<c>>)
        BY <3>1, LettersConcat
      <3> DEFINE a == Letters(d)
      <3>3. a \in Seq(Character)
        BY LettersIn DEF Text
      <3>4. a \o << >> = a /\ a \o <<c>> = Append(a, c)
        <4> HIDE DEF a
        <4> QED
          BY <3>3, ConcatEmptySeq, AppendIsConcat
      <3>5. CASE c = "/"
        BY <3>2, <3>4, <3>5, LettersOfOne DEF KeptStep
      <3>6. CASE c # "/"
        BY <3>2, <3>4, <3>6, LettersOfOne DEF KeptStep
      <3> QED
        BY <3>5, <3>6
    <2>6. Single(x)
      <3>1. ASSUME NEW i \in 2 .. Len(x)
            PROVE  x[i] # "/" \/ x[i - 1] # "/"
        <4> HIDE DEF x
        <4>1. CASE i \in 2 .. Len(d)
          BY <2>3, <2>4, <4>1 DEF Single
        <4>2. CASE i = Len(d) + 1
          <5>1. i - 1 = Len(d) /\ Len(d) \in 1 .. Len(d) /\ Len(d) >= 1
            BY <2>3, <3>1, <4>2
          <5>2. x[i] = c /\ x[i - 1] = d[Len(d)]
            BY <2>4, <4>2, <5>1
          <5> QED
            BY <1>2, <5>1, <5>2, EndsWithSlash
        <4> QED
          BY <2>3, <3>1, <4>1, <4>2
      <3> HIDE DEF x
      <3> QED
        BY <3>1 DEF Single
    <2>7. d # << >> => x # << >> /\ x[1] = d[1]
      <3>1. SUFFICES ASSUME d # << >>
                     PROVE  x # << >> /\ x[1] = d[1]
        OBVIOUS
      <3>2. Len(d) >= 1
        BY <3>1 DEF Text
      <3> QED
        BY <2>3, <2>4, <3>2
    <2>8. d = << >> => x = <<c>>
      OBVIOUS
    <2> HIDE DEF x
    <2> QED
      BY <2>1, <2>2, <2>3, <2>5, <2>6, <2>7, <2>8
  <1> QED
    BY <1>1, <1>2

(* A squeezed text has the letters of the text, single slashes, and the    *)
(* first character of the text.                                            *)
LEMMA SqueezedIs ==
    ASSUME NEW text \in Text
    PROVE  /\ Squeezed(text) \in Text
           /\ Letters(Squeezed(text)) = Letters(text)
           /\ Single(Squeezed(text))
           /\ text # << >> => Squeezed(text) # << >> /\ Squeezed(text)[1] = text[1]
  <1>1. Len(text) \in Nat /\ \A n \in 1 .. Len(text) : text[n] \in Character
    BY DEF Text
  <1>2. PICK g : SqueezedUpTo(g, text) /\ Squeezed(text) = g[Len(text)]
    BY SqueezedExist
  <1>3. PICK k : LettersUpTo(k, text) /\ Letters(text) = k[Len(text)]
    BY LettersExist
  <1> DEFINE Good(n) == /\ g[n] \in Text
                        /\ Letters(g[n]) = k[n]
                        /\ Single(g[n])
                        /\ n >= 1 => g[n] # << >> /\ g[n][1] = text[1]
                        /\ n = 0 => g[n] = << >>
             S == {n \in 0 .. Len(text) : Good(n)}
  <1>4. 0 \in S
    <2>1. << >> \in Text /\ Single(<< >>)
      BY DEF Text, Single
    <2>2. Letters(<< >>) = << >>
      <3>1. PICK h : LettersUpTo(h, << >>) /\ Letters(<< >>) = h[Len(<< >>)]
        BY <2>1, LettersExist
      <3> QED
        BY <3>1 DEF LettersUpTo
    <2>3. g[0] = << >> /\ k[0] = << >>
      BY <1>2, <1>3 DEF SqueezedUpTo, LettersUpTo
    <2>4. Good(0)
      BY <2>1, <2>2, <2>3
    <2> HIDE DEF Good
    <2> QED
      BY <1>1, <2>4
  <1>5. ASSUME NEW n \in 1 .. Len(text), n - 1 \in S
        PROVE  n \in S
    <2>1. Good(n - 1) /\ n - 1 \in Nat /\ text[n] \in Character
      BY <1>1, <1>5
    <2>2. g[n] = SqueezeStep(g[n - 1], text[n]) /\ k[n] = KeptStep(k[n - 1], text[n])
      BY <1>2, <1>3 DEF SqueezedUpTo, LettersUpTo
    <2>3. /\ g[n] \in Text
          /\ Letters(g[n]) = KeptStep(Letters(g[n - 1]), text[n])
          /\ Single(g[n])
          /\ g[n - 1] # << >> => g[n] # << >> /\ g[n][1] = g[n - 1][1]
          /\ g[n - 1] = << >> => g[n] = <<text[n]>>
      BY <2>1, <2>2, SqueezeStepIs
    <2>4. g[n] # << >> /\ g[n][1] = text[1]
      <3>1. CASE n = 1
        BY <2>1, <2>3, <3>1
      <3>2. CASE n # 1
        BY <2>1, <2>3, <3>2
      <3> QED
        BY <3>1, <3>2
    <2>5. Good(n)
      BY <2>1, <2>2, <2>3, <2>4
    <2> HIDE DEF Good
    <2> QED
      BY <1>1, <2>5
  <1>6. \A n \in 0 .. Len(text) : n \in S
    <2> HIDE DEF S
    <2> QED
      BY <1>1, <1>4, <1>5, StepByStep
  <1>7. Good(Len(text))
    <2> HIDE DEF Good
    <2> QED
      BY <1>1, <1>6
  <1>8. text # << >> => Len(text) >= 1
    BY DEF Text
  <1> QED
    BY <1>2, <1>3, <1>7, <1>8

(* Rewriting exchanges the prefix. *)
LEMMA RewritePathIs ==
    ASSUME NEW rule, rule.prefix \in Text, rule.replacement \in Text, NEW rest \in Text
    PROVE  RewritePath(rule.prefix \o rest, rule) = rule.replacement \o rest
  <1> DEFINE p == rule.prefix
             path == p \o rest
  <1>1. p \in Text /\ path \in Text /\ Len(p) \in Nat /\ Len(path) = Len(p) + Len(rest)
    BY DEF Text
  <1>2. SubSeq(path, 1, Len(p)) = p /\ SubSeq(p, 1, Len(p)) = p
    <2>1. p \in Seq(Character) /\ rest \in Seq(Character)
      BY <1>1 DEF Text
    <2> HIDE DEF p
    <2> QED
      BY <2>1, SubSeqOfConcat1, SubSeqFull
  <1>3. SubSeq(path, Len(p) + 1, Len(path)) = rest
    <2>1. p \in Seq(Character) /\ rest \in Seq(Character)
      BY <1>1 DEF Text
    <2> HIDE DEF p
    <2> QED
      BY <2>1
  <1>4. IsPrefix(p, path)
    <2> HIDE DEF p, path
    <2> QED
      BY <1>1, <1>2 DEF IsPrefix, Text
  <1> HIDE DEF path
  <1>5. RewritePath(path, rule) = rule.replacement \o rest
    BY <1>3, <1>4 DEF RewritePath
  <1> QED
    BY <1>5 DEF path

(* A path that names no host is read as it is, or with a slash before it. *)
LEMMA PathnameIs ==
    ASSUME NEW path \in Text, ~NamesHost(path)
    PROVE  /\ Pathname(path) \in Text
           /\ Letters(Pathname(path)) = Letters(path)
           /\ Pathname(path) # << >> /\ Pathname(path)[1] = "/"
  <1>1. CASE IsPrefix(<<"/">>, path)
    <2>1. Pathname(path) = path
      BY <1>1 DEF Pathname, Unparsable
    <2> QED
      BY <1>1, <2>1, BeginsWithSlash
  <1>2. CASE ~IsPrefix(<<"/">>, path)
    <2> DEFINE x == <<"/">> \o path
    <2>1. Pathname(path) = x
      BY <1>2 DEF Pathname
    <2>2. x \in Text /\ x # << >> /\ x[1] = "/"
      BY SlashIs DEF Text
    <2>3. Letters(x) = Letters(path)
      <3>1. << >> \in Text
        BY DEF Text
      <3>2. Letters((<< >> \o <<"/">>) \o path) = Letters(<< >> \o path)
        BY <3>1, LettersOverSlash
      <3>3. << >> \o <<"/">> = <<"/">> /\ << >> \o path = path
        BY ConcatEmptySeq DEF Text
      <3> QED
        BY <3>2, <3>3
    <2> HIDE DEF x
    <2> QED
      BY <2>1, <2>2, <2>3
  <1> QED
    BY <1>1, <1>2

(* Joining loses nothing of either path. *)
LEMMA JoinPathsIs ==
    ASSUME NEW base \in Text, base # << >> => base[1] = "/",
           NEW path \in Text, path # << >>, path[1] = "/"
    PROVE  /\ Letters(JoinPaths(base, path)) = Letters(base \o path)
           /\ Single(JoinPaths(base, path))
           /\ IsPrefix(<<"/">>, JoinPaths(base, path))
  <1> DEFINE x == IF base = << >> THEN path ELSE base \o <<"/">> \o path
  <1>1. x \in Text /\ Letters(x) = Letters(base \o path) /\ x # << >> /\ x[1] = "/"
    <2>1. CASE base = << >>
      <3>1. << >> \o path = path
        BY ConcatEmptySeq DEF Text
      <3> QED
        BY <2>1, <3>1
    <2>2. CASE base # << >>
      <3> DEFINE y == (base \o <<"/">>) \o path
      <3>1. x = y
        BY <2>2
      <3>2. y \in Text /\ y # << >> /\ y[1] = base[1]
        BY <2>2, SlashIs DEF Text
      <3>3. Letters(y) = Letters(base \o path)
        BY LettersOverSlash
      <3> HIDE DEF x, y
      <3> QED
        BY <2>2, <3>1, <3>2, <3>3
    <2> QED
      BY <2>1, <2>2
  <1>2. JoinPaths(base, path) = Squeezed(x)
    BY DEF JoinPaths
  <1> HIDE DEF x
  <1>3. /\ Squeezed(x) \in Text /\ Letters(Squeezed(x)) = Letters(x) /\ Single(Squeezed(x))
        /\ Squeezed(x) # << >> /\ Squeezed(x)[1] = "/"
    BY <1>1, SqueezedIs
  <1>4. Len(Squeezed(x)) >= 1
    BY <1>3 DEF Text
  <1>5. IsPrefix(<<"/">>, Squeezed(x))
    BY <1>3, <1>4, BeginsWithSlash
  <1> QED
    BY <1>1, <1>2, <1>3, <1>5

(* Whatever the target's path, the rule and the request, of any length: an *)
(* instance is asked for the target's path, the replacement and the rest   *)
(* of the client's path (buildPath), in this order and with single         *)
(* slashes, unless the rewritten path is read as a host name.              *)
THEOREM PathsArrive ==
    ASSUME NEW base \in Seq(Character), base # << >> => base[1] = "/",
           NEW rule, rule.prefix \in Seq(Character), rule.replacement \in Seq(Character),
           NEW rest \in Seq(Character), ~NamesHost(rule.replacement \o rest)
    PROVE  Kept(base, rule, rest)
  <1> DEFINE new == rule.replacement \o rest
             path == Pathname(new)
             whole == rule.prefix \o rest
  <1>1. base \in Text /\ rest \in Text /\ rule.replacement \in Text /\ rule.prefix \in Text
    BY DEF Text
  <1>2. new \in Text /\ ~NamesHost(new)
    BY DEF Text
  <1>3. RewritePath(whole, rule) = new
    BY <1>1, RewritePathIs
  <1> HIDE DEF new
  <1>4. path \in Text /\ Letters(path) = Letters(new) /\ path # << >> /\ path[1] = "/"
    BY <1>2, PathnameIs
  <1>5. BuildPath(base, whole, rule) = JoinPaths(base, path)
    BY <1>3 DEF BuildPath
  <1> HIDE DEF path, whole
  <1>6. /\ Letters(JoinPaths(base, path)) = Letters(base \o path)
        /\ Single(JoinPaths(base, path))
        /\ IsPrefix(<<"/">>, JoinPaths(base, path))
    BY <1>1, <1>4, JoinPathsIs
  <1>7. Letters(base \o path) = Letters(base \o new)
    <2>1. Letters(base \o path) = Letters(base) \o Letters(path)
      BY <1>1, <1>4, LettersConcat
    <2>2. Letters(base \o new) = Letters(base) \o Letters(new)
      BY <1>1, <1>2, LettersConcat
    <2> QED
      BY <1>4, <2>1, <2>2
  <1> QED
    BY <1>5, <1>6, <1>7 DEF Kept, Arrives, new, whole, Single

\* The host that a path announces ends with its n-th character, and q is the
\* pathname: what follows the host, or a slash where nothing does.
CutAfter(p, n, q) ==
    /\ n \in 1 .. Len(p) /\ HostEnds(p, n)
    /\ q \in Text /\ q # << >> /\ q[1] = "/"
    /\ SubSeq(p, n + 1, Len(p)) \in Text
    /\ q = SubSeq(p, n + 1, Len(p)) \/ (q = <<"/">> /\ SubSeq(p, n + 1, Len(p)) = << >>)

(* new URL takes slashes and what follows them, up to the next, for a host. *)
LEMMA PathnameCuts ==
    ASSUME NEW p \in Text, NamesHost(p), ~Unparsable(p)
    PROVE  \E n : CutAfter(p, n, Pathname(p))
  <1> DEFINE I == {i \in 1 .. Len(p) : p[i] # "/"}
             a == Min(I)
             u == Unslashed(p)
             J == {i \in 1 .. Len(u) : u[i] = "/"}
             b == Min(J)
  <1>1. Len(p) \in Nat /\ I \in SUBSET Nat /\ p \in Seq(Character)
    BY DEF Text
  <1>2. I # {} /\ u = SubSeq(p, a, Len(p))
    <2>1. u = IF (IF I # {} THEN a ELSE 0) = 0 THEN << >> ELSE SubSeq(p, IF I # {} THEN a ELSE 0, Len(p))
      BY DEF Unslashed, SelectInSeq
    <2>2. u # << >>
      BY DEF Unparsable
    <2> HIDE DEF I, a, u
    <2> QED
      BY <2>1, <2>2
  <1>3. a \in I /\ \A i \in I : a <= i
    <2> HIDE DEF I
    <2> QED
      BY <1>1, <1>2, MinIn
  <1>4. a \in 1 .. Len(p) /\ p[a] # "/" /\ \A i \in 1 .. a - 1 : p[i] = "/"
    <2> HIDE DEF a
    <2> QED
      BY <1>1, <1>3
  <1> HIDE DEF I, a, u
  <1>5. /\ u \in Text /\ Len(u) = Len(p) - a + 1
        /\ \A i \in 1 .. Len(u) : u[i] = p[a + i - 1]
    BY <1>1, <1>2, <1>4, SubSeqProperties DEF Text
  <1>6. Pathname(p) = FromSlash(u)
    <2>1. IsPrefix(<<"/">>, p)
      BY <1>1, NamesHostIs, BeginsWithSlash
    <2> QED
      BY <2>1 DEF Pathname, u
  <1>7. FromSlash(u) = IF (IF J # {} THEN b ELSE 0) = 0 THEN <<"/">>
                       ELSE SubSeq(u, IF J # {} THEN b ELSE 0, Len(u))
    BY DEF FromSlash, SelectInSeq
  <1>8. CASE J = {}
    <2> DEFINE n == Len(p)
    <2>1. FromSlash(u) = <<"/">>
      <3> HIDE DEF J
      <3> QED
        BY <1>7, <1>8
    <2>2. \A i \in 1 .. Len(u) : u[i] # "/"
      BY <1>8
    <2>3. \A j \in a .. n : p[j] # "/"
      <3> SUFFICES ASSUME NEW j \in a .. n
                   PROVE  p[j] # "/"
        OBVIOUS
      <3>1. j - a + 1 \in 1 .. Len(u) /\ a + (j - a + 1) - 1 = j
        BY <1>1, <1>4, <1>5
      <3> QED
        BY <1>5, <2>2, <3>1
    <2>4. HostEnds(p, n)
      <3>1. n \in a .. n
        BY <1>1, <1>4
      <3>2. \A i, j \in 1 .. n : i < j /\ p[j] = "/" => p[i] = "/"
        <4> SUFFICES ASSUME NEW i \in 1 .. n, NEW j \in 1 .. n, i < j, p[j] = "/"
                     PROVE  p[i] = "/"
          OBVIOUS
        <4>1. ~(j \in a .. n)
          BY <2>3
        <4>2. i \in 1 .. a - 1
          BY <1>1, <1>4, <4>1
        <4> QED
          BY <1>4, <4>2
      <3> QED
        BY <1>1, <2>3, <3>1, <3>2 DEF HostEnds
    <2>5. n \in 1 .. Len(p)
      BY <1>1, <1>4
    <2>6. SubSeq(p, n + 1, Len(p)) = << >>
      BY <1>1, SubSeqEmpty
    <2>7. <<"/">> \in Text /\ <<"/">> # << >> /\ <<"/">>[1] = "/" /\ << >> \in Text
      BY SlashIs DEF Text
    <2>8. CutAfter(p, n, <<"/">>)
      BY <2>4, <2>5, <2>6, <2>7 DEF CutAfter
    <2> QED
      BY <1>6, <2>1, <2>8
  <1>9. CASE J # {}
    <2>1. J \in SUBSET Nat
      BY <1>5 DEF Text
    <2>2. b \in J /\ \A i \in J : b <= i
      <3> HIDE DEF J
      <3> QED
        BY <1>9, <2>1, MinIn
    <2>3. b \in 1 .. Len(u) /\ u[b] = "/" /\ \A i \in 1 .. b - 1 : u[i] # "/"
      <3>1. Len(u) \in Nat
        BY <1>5 DEF Text
      <3> HIDE DEF b
      <3> QED
        BY <2>2, <3>1
    <2>4. FromSlash(u) = SubSeq(u, b, Len(u))
      <3>1. b # 0
        BY <2>3
      <3> HIDE DEF J, b
      <3> QED
        BY <1>7, <1>9, <3>1
    <2> HIDE DEF J, b
    <2> DEFINE n == a + b - 2
    <2>5. b \in Nat /\ b >= 2 /\ b <= Len(u)
      <3>1. 1 \in 1 .. Len(u) /\ a + 1 - 1 = a /\ b \in Nat /\ b >= 1 /\ b <= Len(u)
        BY <1>4, <2>3
      <3>2. u[1] # "/"
        BY <1>4, <1>5, <3>1
      <3> QED
        BY <2>3, <3>1, <3>2
    <2>6. n \in a .. Len(p) - 1 /\ n \in 1 .. Len(p)
      BY <1>1, <1>4, <1>5, <2>5
    <2>7. \A j \in a .. n : p[j] # "/"
      <3> SUFFICES ASSUME NEW j \in a .. n
                   PROVE  p[j] # "/"
        OBVIOUS
      <3>1. j - a + 1 \in 1 .. Len(u) /\ j - a + 1 \in 1 .. b - 1 /\ a + (j - a + 1) - 1 = j
        BY <1>1, <1>4, <1>5, <2>5
      <3> QED
        BY <1>5, <2>3, <3>1
    <2>8. p[n + 1] = "/"
      <3>1. a + b - 1 = n + 1 /\ b \in 1 .. Len(u)
        BY <1>4, <2>5
      <3> QED
        BY <1>5, <2>3, <3>1
    <2>9. HostEnds(p, n)
      <3>1. n \in a .. n
        BY <2>6
      <3>2. \A i, j \in 1 .. n : i < j /\ p[j] = "/" => p[i] = "/"
        <4> SUFFICES ASSUME NEW i \in 1 .. n, NEW j \in 1 .. n, i < j, p[j] = "/"
                     PROVE  p[i] = "/"
          OBVIOUS
        <4>1. ~(j \in a .. n)
          BY <2>7
        <4>2. i \in 1 .. a - 1
          BY <1>1, <1>4, <2>6, <4>1
        <4> QED
          BY <1>4, <4>2
      <3> QED
        BY <2>7, <2>8, <3>1, <3>2 DEF HostEnds
    <2> DEFINE q == SubSeq(u, b, Len(u))
               tail == SubSeq(p, n + 1, Len(p))
    <2>10. /\ q \in Text /\ Len(q) = Len(u) - b + 1
           /\ \A i \in 1 .. Len(q) : q[i] = u[b + i - 1]
      BY <1>5, <2>5, SubSeqProperties DEF Text
    <2>11. /\ tail \in Text /\ Len(tail) = Len(p) - n
           /\ \A i \in 1 .. Len(tail) : tail[i] = p[n + i]
      BY <1>1, <2>6, SubSeqProperties DEF Text
    <2> HIDE DEF q, tail
    <2>12. Len(q) = Len(tail) /\ Len(q) \in Nat /\ Len(q) >= 1
      BY <1>1, <1>4, <1>5, <2>5, <2>10, <2>11
    <2>13. \A i \in 1 .. Len(q) : q[i] = tail[i]
      <3> SUFFICES ASSUME NEW i \in 1 .. Len(q)
                   PROVE  q[i] = tail[i]
        OBVIOUS
      <3>1. b + i - 1 \in 1 .. Len(u) /\ a + (b + i - 1) - 1 = n + i /\ i \in 1 .. Len(tail)
        BY <1>4, <1>5, <2>5, <2>10, <2>12
      <3> QED
        BY <1>5, <2>10, <2>11, <3>1
    <2>14. q = tail
      BY <2>10, <2>11, <2>12, <2>13 DEF Text
    <2>15. q # << >> /\ q[1] = "/"
      <3>1. 1 \in 1 .. Len(q) /\ b + 1 - 1 = b
        BY <2>5, <2>12
      <3> QED
        BY <2>3, <2>10, <2>12, <3>1
    <2>16. CutAfter(p, n, q)
      BY <2>6, <2>9, <2>10, <2>14, <2>15 DEF CutAfter, tail
    <2> QED
      BY <1>6, <2>4, <2>16 DEF q
  <1> QED
    BY <1>8, <1>9

(* What is lost where the rewritten path begins with two slashes, as with  *)
(* the README's rule "^/api/user": "/": the first part, whole, which is    *)
(* taken for a host (setupOutgoing, new URL), and nothing after it, unless *)
(* there is no such part and the attempt fails.                            *)
THEOREM HostsAreCut ==
    ASSUME NEW base \in Seq(Character), base # << >> => base[1] = "/",
           NEW rule, rule.prefix \in Seq(Character), rule.replacement \in Seq(Character),
           NEW rest \in Seq(Character), NamesHost(rule.replacement \o rest),
           ~Unparsable(rule.replacement \o rest)
    PROVE  HostCut(base, rule, rest)
  <1> DEFINE new == rule.replacement \o rest
             path == Pathname(new)
             whole == rule.prefix \o rest
  <1>1. base \in Text /\ rest \in Text /\ rule.replacement \in Text /\ rule.prefix \in Text
    BY DEF Text
  <1>2. new \in Text /\ NamesHost(new) /\ ~Unparsable(new)
    BY DEF Text
  <1>3. RewritePath(whole, rule) = new
    BY <1>1, RewritePathIs
  <1> HIDE DEF new
  <1>4. PICK n : CutAfter(new, n, path)
    BY <1>2, PathnameCuts
  <1>5. BuildPath(base, whole, rule) = JoinPaths(base, path)
    BY <1>3 DEF BuildPath
  <1> HIDE DEF path, whole
  <1> DEFINE tail == SubSeq(new, n + 1, Len(new))
  <1>6. /\ path \in Text /\ path # << >> /\ path[1] = "/" /\ tail \in Text
        /\ path = tail \/ (path = <<"/">> /\ tail = << >>)
        /\ n \in 1 .. Len(new) /\ HostEnds(new, n)
    BY <1>4 DEF CutAfter
  <1> HIDE DEF tail
  <1>7. /\ Letters(JoinPaths(base, path)) = Letters(base \o path)
        /\ Single(JoinPaths(base, path))
        /\ IsPrefix(<<"/">>, JoinPaths(base, path))
    BY <1>1, <1>6, JoinPathsIs
  <1>8. Letters(base \o path) = Letters(base \o tail)
    <2>1. CASE path = tail
      BY <2>1
    <2>2. CASE path = <<"/">> /\ tail = << >>
      <3>1. Letters((base \o <<"/">>) \o tail) = Letters(base \o tail)
        BY <1>1, <1>6, LettersOverSlash
      <3>2. (base \o <<"/">>) \o tail = base \o path
        <4>1. base \o <<"/">> \in Seq(Character)
          BY <1>1, SlashIs DEF Text
        <4> QED
          BY <2>2, <4>1, ConcatEmptySeq
      <3> QED
        BY <3>1, <3>2
    <2> QED
      BY <1>6, <2>1, <2>2
  <1>9. Arrives(base, rule, rest, tail)
    BY <1>5, <1>7, <1>8 DEF Arrives, whole, Single
  <1> QED
    BY <1>6, <1>9 DEF HostCut, new, tail

=============================================================================
