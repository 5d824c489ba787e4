-------------------------------- MODULE Gateway --------------------------------
(***************************************************************************)
(* One request to an application with a gateway.  The path of the API      *)
(* documents is answered by a middleware; another is the gateway's:        *)
(* GatewayService finds the route, has the guards checked and hands the    *)
(* request to one of the two proxies; or a method of the application       *)
(* forwards it with @ProxyForward.  All of this runs without waiting for   *)
(* I/O, up to the first attempt, and is one action with it.                *)
(***************************************************************************)
EXTENDS HttpProxy, WsProxy, SwaggerMerge

VARIABLES kind,    \* "http", "ws" (isSocketRequest) or "docs"
          route,   \* "none" matches, "unset" (neither service nor target) or "set"
          guards   \* the global guards and those of the route

routeVars == <<kind, route, guards>>
gatewayVars == <<routeVars, instances, direct, attemptVars, httpVars, wsVars, docsVars>>

\* A guard is a class, or a hook {instance: class, includes, excludes}; the two
\* lists are absent, or match the request, or do not.  static: the class itself
\* has a canActivate, which answers true.
Hook == [form : {"class", "hook"}, includes : {"absent", "match", "other"},
         excludes : {"absent", "match", "other"}, static : BOOLEAN]

\* shouldApplyHook, which global guards and bare classes skip.
Applies(g) ==
    g.form = "class" \/ (g.includes # "other" /\ g.excludes # "match")

\* executeGuard looks canActivate up on the class itself and not on an instance
\* of it.  A guard is no static method: what it would answer is never asked, and
\* the TypeError is caught and counts as a refusal, as a static one's false does.
Allowed(g) == g.static

\* checkGuards stops at the first guard that refuses.
Refused == \E g \in guards : Applies(g) /\ ~Allowed(g)

\* findMatchingRoute finds none.
Unrouted == route = "none"

\* validateRouteConfig throws.
Misconfigured == route = "unset"

-----------------------------------------------------------------------------
(* The kinds of request keep different state; the others' is fixed. *)

NoService == [s \in Service |-> 0]

WithoutHttp ==
    /\ streamed = FALSE /\ timed = FALSE /\ connected = FALSE
    /\ head = ClientHead /\ sent = [k \in Attempts |-> NoHead] /\ res = NoResponse

WithoutWs == socket = "closed" /\ spoken = {} /\ asked = FALSE

\* Neither middleware nor @ProxyForward knows the gateway's routes and guards.
GatewayInit ==
    /\ BaseInit
    /\ guards \in {{}} \cup {{g} : g \in Hook}
    /\ \/ kind = "http" /\ HttpInit /\ WithoutWs /\ DocsInit(NoService)
          /\ route \in {"none", "unset", "set"}
       \/ kind = "ws" /\ WsInit /\ WithoutHttp /\ DocsInit(NoService)
          /\ route \in {"none", "unset", "set"}
       \/ kind = "docs" /\ WithoutHttp /\ WithoutWs
          /\ route = "none" /\ instances = 0
          /\ \E listing \in [Service -> 0 .. MaxInstances] : DocsInit(listing)
    /\ kind = "docs" \/ direct => route = "none" /\ guards = {}

-----------------------------------------------------------------------------
\* 404, 401, or the 500 of the framework's exception filter.
Turned ==
    \/ kind = "http" /\ Return(upstream, Refusal(res)) /\ UNCHANGED wsVars
    \/ kind = "ws" /\ WsRefuse(upstream, socket) /\ UNCHANGED <<headVars, res>>

Proxied ==
    \/ kind = "ws" /\ WsRequest /\ UNCHANGED <<headVars, res, connected>>
    \/ kind = "http" /\ ProxyRequest /\ UNCHANGED wsVars

Arriving == kind \in {"http", "ws"} /\ current = 0 /\ ~done

\* GatewayService.proxyRequest.
Handle ==
    /\ Arriving /\ ~direct
    /\ \/ (Unrouted \/ Refused \/ Misconfigured) /\ Turned /\ UNCHANGED connected
       \/ ~(Unrouted \/ Refused \/ Misconfigured) /\ Proxied
    /\ UNCHANGED <<routeVars, requestVars, docsVars>>

\* @ProxyForward's method, which throws when it has no request, no raw body or
\* no gateway; and executeWithOptions.
ProxyForward ==
    /\ Arriving /\ direct
    /\ (Turned /\ UNCHANGED connected) \/ Proxied
    /\ UNCHANGED <<routeVars, requestVars, docsVars>>

OnHttp(A) == kind = "http" /\ A /\ UNCHANGED <<routeVars, wsVars, docsVars>>
OnWs(A) == kind = "ws" /\ A /\ UNCHANGED <<routeVars, instances, direct, httpVars, docsVars>>
OnDocs(A) ==
    kind = "docs" /\ A /\ UNCHANGED <<routeVars, instances, direct, current, upstream, httpVars, wsVars>>

GatewayNext ==
    \/ Handle
    \/ ProxyForward
    \/ OnDocs(Use)
    \/ \E k \in Attempts : OnHttp(HttpEvent(k)) \/ OnWs(WsEvent(k))
    \/ \E s \in Service : OnDocs(FetchOver(s))
    \/ OnHttp(ClientCloses)
    \/ OnWs(ClientGone)

\* What Node guarantees: the handlers run, the timers fire, and a fetch ends
\* (by its own timeouts, if not before).
GatewayFairness ==
    /\ WF_gatewayVars(Handle)
    /\ WF_gatewayVars(ProxyForward)
    /\ WF_gatewayVars(OnDocs(Use))
    /\ \A k \in Attempts :
          /\ WF_gatewayVars(OnHttp(Timeout(k)))
          /\ WF_gatewayVars(OnHttp(AnswerOver(k)))
          /\ WF_gatewayVars(OnWs(WsTimeout(k)))
    /\ \A s \in Service : WF_gatewayVars(OnDocs(FetchOver(s)))

GatewaySpec == GatewayInit /\ [][GatewayNext]_gatewayVars /\ GatewayFairness

-----------------------------------------------------------------------------
GatewayTypeOK ==
    /\ BaseTypeOK /\ HttpTypeOK /\ WsTypeOK /\ DocsTypeOK
    /\ kind \in {"http", "ws", "docs"}
    /\ route \in {"none", "unset", "set"}
    /\ guards \subseteq Hook

=============================================================================
