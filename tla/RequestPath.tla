----------------------------- MODULE RequestPath -----------------------------
(***************************************************************************)
(* The way of a request from one browser page to a service and back: the   *)
(* web client's interceptors with their shared silent refresh, the         *)
(* gateway's route table, authentication, rate limit and proxy, and the    *)
(* circuit breaker in front of the service.                                *)
(*                                                                         *)
(* The services behind the gateway are reduced to answering or failing,    *)
(* and to what the auth routes do to the page's cookies and session.       *)
(***************************************************************************)
EXTENDS CircuitBreaker, FiniteSets

CONSTANTS Requests,    \* requests of the page, used again and again
          Refreshes,   \* slots for calls of /auth/refresh
          UsedRoutes,  \* the routes the page calls
          DefaultCapacity, AuthCapacity,  \* RATE_LIMIT_..._CAPACITY
          None

VARIABLES
  req,             \* every request: where it is, its route, _retry, the answer
  refreshPromise,  \* the running refresh, shared by all that wait for it
  isLoggingOut, isRedirecting,
  token,           \* is the access token cookie valid?
  session,         \* is the session behind the refresh token alive?
  bucket,          \* Redis: tokens left for the user and for the address
  breaker          \* one circuit per service

pageVars == <<refreshPromise, isLoggingOut, isRedirecting>>
accountVars == <<token, session>>
vars == <<req, pageVars, accountVars, bucket, breaker>>

Calls == Requests \cup Refreshes

-----------------------------------------------------------------------------
(* The route table, without the prefixes that differ in nothing from one   *)
(* of these, and with the booking stream named apart.                      *)

route(name, upstream, auth, rateLimit) ==
  [name |-> name, upstream |-> upstream, auth |-> auth, rateLimit |-> rateLimit]

routes ==
  {route("sessions", "user-service", "required", "default"),
   route("logout", "user-service", "optional", "default"),
   route("login", "user-service", "none", "auth"),
   route("refresh", "user-service", "none", "auth"),
   route("users", "user-service", "required", "default"),
   route("admin", "admin-service", "admin", "default"),
   route("bookings", "booking-service", "required", "default"),
   route("stream", "booking-service", "required", "default"),
   route("search", "search-service", "none", "default"),
   route("payments", "payment-service", "required", "default")}

ASSUME PathAssumption ==
  /\ UsedRoutes \subseteq {r.name : r \in routes}
  /\ {DefaultCapacity, AuthCapacity} \subseteq Nat \ {0}
  /\ Refreshes # {} /\ Requests \cap Refreshes = {} /\ None \notin Refreshes

named(name) == CHOOSE r \in routes : r.name = name
Used == {named(n) : n \in UsedRoutes}
upstreams == {r.upstream : r \in Used} \cup {"user-service"}

capacity(preset) == IF preset = "auth" THEN AuthCapacity ELSE DefaultCapacity

Idle == [at |-> "idle", route |-> named("refresh"), retry |-> FALSE,
         answer |-> None]

(* Answers: done (2xx), AUTH_REQUIRED (the gateway's 401), refused (a 401  *)
(* of the service), error (429 and every other 4xx and 5xx).               *)
Answers == {"done", "AUTH_REQUIRED", "refused", "error"}

TypeOK ==
  /\ req \in [Calls -> [at : {"idle", "sent", "proxied",
                              "response", "waiting"},
                        route : Used \cup {named("refresh")},
                        retry : BOOLEAN, answer : Answers \cup {None}]]
  /\ refreshPromise \in Refreshes \cup {None}
  /\ {isLoggingOut, isRedirecting, token, session} \subseteq BOOLEAN
  /\ bucket \in [{"user", "ip"} -> 0..DefaultCapacity]
  /\ breaker \in [upstreams -> Breakers]

(* One circuit for each name, made on its first use and shared by all.     *)
registry == [u \in upstreams |-> NewBreaker]

Init ==
  /\ req = [r \in Calls |-> Idle]
  /\ refreshPromise = None
  /\ isLoggingOut = FALSE /\ isRedirecting = FALSE
  /\ token \in BOOLEAN /\ session = TRUE
  /\ bucket = [k \in {"user", "ip"} |-> DefaultCapacity]
  /\ breaker = registry

goto(r, at) == req' = [req EXCEPT ![r].at = at]
reply(r, a) == req' = [req EXCEPT ![r].at = "response", ![r].answer = a]

-----------------------------------------------------------------------------
(* The page sends a request; the request interceptor looks at its URL.     *)
Send(r, x) ==
  /\ req[r].at = "idle" /\ x \in Used
  /\ req' = [req EXCEPT ![r] = [Idle EXCEPT !.at = "sent", !.route = x]]
  /\ isLoggingOut' = (x.name = "logout" \/ (isLoggingOut /\ x.name # "login"))
  /\ isRedirecting' = (isRedirecting /\ x.name # "login")
  /\ UNCHANGED <<refreshPromise, accountVars, bucket, breaker>>

(* gatewayAuthMiddleware and its siblings: "required" asks for the access  *)
(* token, "admin" for an admin's token, and a passenger's page has none.   *)
(* An "optional" route goes on without a user.                             *)
verifyAccessToken == token
verifyAdminToken == FALSE
passesAuth(level) ==
  \/ level \in {"none", "optional"}
  \/ level = "required" /\ verifyAccessToken
  \/ level = "admin" /\ verifyAdminToken
hasUser(x) == x.auth \in {"required", "optional"} /\ verifyAccessToken

(* The bucket is the user's where the route knows the user, whatever the   *)
(* preset: a route with the smaller capacity cuts the shared bucket down.  *)
buildKey(x) == IF hasUser(x) THEN "user" ELSE "ip"

available(x) ==
  LET c == capacity(x.rateLimit)
      b == bucket[buildKey(x)]
  IN  IF b > c THEN c ELSE b

(* breaker.execute, as far as the call of the service over its one proxy.  *)
forward(r) == goto(r, "proxied")

proxy(r) ==
  LET u == req[r].route.upstream IN
    /\ breaker' = [breaker EXCEPT ![u] = execute(@)]
    /\ IF refusal(breaker[u]) = "none" THEN forward(r)
       ELSE reply(r, "error")

(* Auth middleware, token bucket script, proxy handler: the gateway's part *)
(* up to the service.                                                      *)
Enter(r) ==
  /\ req[r].at = "sent"
  /\ LET x == req[r].route
         k == buildKey(x)
     IN  \/ /\ ~passesAuth(x.auth) /\ UNCHANGED <<bucket, breaker>>
            /\ reply(r, IF x.auth = "admin" THEN "refused" ELSE "AUTH_REQUIRED")
         \/ /\ passesAuth(x.auth) /\ available(x) >= 1
            /\ bucket' = [bucket EXCEPT ![k] = available(x) - 1]
            /\ proxy(r)
         \/ /\ passesAuth(x.auth) /\ available(x) = 0
            /\ bucket' = [bucket EXCEPT ![k] = 0]
            /\ reply(r, "error") /\ UNCHANGED breaker
  /\ UNCHANGED <<pageVars, accountVars>>

(* Redis does not answer: the limiter lets the request through.            *)
FailOpen(r) ==
  /\ req[r].at = "sent" /\ passesAuth(req[r].route.auth)
  /\ proxy(r)
  /\ UNCHANGED <<pageVars, accountVars, bucket>>

Refill(k) ==
  /\ bucket[k] < DefaultCapacity
  /\ bucket' = [bucket EXCEPT ![k] = @ + 1]
  /\ UNCHANGED <<req, pageVars, accountVars, breaker>>

-----------------------------------------------------------------------------
(* The proxy behind its breaker.                                           *)

(* What the service does with the call; the cookies come with the answer.  *)
answerOf(x) == IF x.name = "refresh" /\ ~session THEN "refused" ELSE "done"
sessionAfter(x) == CASE x.name = "login" -> TRUE
                     [] x.name = "logout" -> FALSE
                     [] OTHER -> session
tokenAfter(x) == CASE x.name = "login" -> TRUE
                   [] x.name = "logout" -> FALSE
                   [] x.name = "refresh" -> session
                   [] OTHER -> token

(* The service's Express app: its router's answer, or notFoundHandler and  *)
(* errorHandler speak.                                                     *)
createApp(x) == {answerOf(x), "error"}

settled(u, b) == breaker' = [breaker EXCEPT ![u] = b]

(* runProxy: the response was closed, a success for the breaker even if it *)
(* is a 5xx. A stream is not over while it is open.                        *)
closes(x) == x.name # "stream"

Answered(r) ==
  /\ req[r].at = "proxied"
  /\ LET x == req[r].route IN
       /\ closes(x)
       /\ settled(x.upstream, handleSuccess(breaker[x.upstream]))
       /\ \E a \in createApp(x) :
            /\ reply(r, a)
            /\ IF a = "error" THEN UNCHANGED accountVars
               ELSE token' = tokenAfter(x) /\ session' = sessionAfter(x)
  /\ UNCHANGED <<pageVars, bucket>>

(* Connection refused or reset (502), or no end within timeoutMs (504; a   *)
(* stream that had begun is cut off): a failure for the breaker. The       *)
(* service may have done its work all the same, only the answer is lost.   *)
ProxyFails(r) ==
  /\ req[r].at = "proxied"
  /\ LET x == req[r].route IN
       /\ settled(x.upstream, handleFailure(breaker[x.upstream]))
       /\ reply(r, "error")
       /\ \/ UNCHANGED accountVars
          \/ session' = sessionAfter(x) /\ UNCHANGED token
  /\ UNCHANGED <<pageVars, bucket>>

(* recoveryTimeout (30 s) is longer than the timeout of any call (10 s),   *)
(* so no call that began before the circuit opened is still running.       *)
inFlight(u) == {r \in Calls : req[r].at = "proxied" /\ req[r].route.upstream = u}

RecoveryTimeout(u) ==
  /\ breaker[u].state = "OPEN" /\ ~breaker[u].rested /\ inFlight(u) = {}
  /\ breaker' = [breaker EXCEPT ![u].rested = TRUE]
  /\ UNCHANGED <<req, pageVars, accountVars, bucket>>

-----------------------------------------------------------------------------
(* The page gets the answer.                                               *)

(* isRefreshRequest, isLoggingOut and _retry keep a 401 from a refresh.    *)
shouldRefreshAlways(r) == req[r].answer \in {"AUTH_REQUIRED", "refused"}

shouldRefresh(r) ==
  /\ req[r].answer = "AUTH_REQUIRED"
  /\ r \notin Refreshes /\ ~req[r].retry /\ ~isLoggingOut

(* refreshPromise ??= post("/auth/refresh")                                *)
freeSlot == CHOOSE f \in Refreshes : req[f].at = "idle"
needsNewRefreshAlways == \E f \in Refreshes : req[f].at = "idle"
needsNewRefresh == refreshPromise = None

(* A request whose token was refused waits for the shared refresh.         *)
StartRefresh(r) ==
  /\ req[r].at = "response" /\ shouldRefresh(r)
  /\ LET waiting == [req EXCEPT ![r].at = "waiting", ![r].retry = TRUE,
                                ![r].answer = None]
     IN  IF needsNewRefresh
         THEN /\ req' = [waiting EXCEPT ![freeSlot] = [Idle EXCEPT !.at = "sent"]]
              /\ refreshPromise' = freeSlot
         ELSE req' = waiting /\ UNCHANGED refreshPromise
  /\ UNCHANGED <<isLoggingOut, isRedirecting, accountVars, bucket, breaker>>

(* Any other answer goes to the caller; a retried request that fails in    *)
(* whatever way sends the page to the login.                               *)
Receive(r) ==
  /\ r \in Requests /\ req[r].at = "response" /\ ~shouldRefresh(r)
  /\ req' = [req EXCEPT ![r] = Idle]
  /\ isRedirecting' = (isRedirecting \/ (req[r].retry /\ req[r].answer # "done"))
  /\ UNCHANGED <<refreshPromise, isLoggingOut, accountVars, bucket, breaker>>

(* The refresh is over: those that waited send their request again, or     *)
(* give up when it failed or a logout began meanwhile.                     *)
RefreshEnds(f) ==
  /\ f \in Refreshes /\ req[f].at = "response" /\ ~shouldRefresh(f)
  /\ LET retries == req[f].answer = "done" /\ ~isLoggingOut
         waiters == {r \in Requests : req[r].at = "waiting"}
     IN  /\ req' = [r \in Calls |->
                      CASE r = f -> Idle
                        [] r \in waiters ->
                             IF retries THEN [req[r] EXCEPT !.at = "sent"] ELSE Idle
                        [] OTHER -> req[r]]
         /\ isRedirecting' = (isRedirecting \/ req[f].answer = "refused"
                                \/ (waiters # {} /\ ~retries))
  /\ refreshPromise' = None
  /\ UNCHANGED <<isLoggingOut, accountVars, bucket, breaker>>

(* The login page is loaded: its client starts with fresh flags. (What the *)
(* navigation would abort is let run to its end first.)                    *)
Navigate ==
  /\ isRedirecting /\ \A r \in Calls : req[r].at = "idle"
  /\ isRedirecting' = FALSE /\ isLoggingOut' = FALSE
  /\ UNCHANGED <<req, refreshPromise, accountVars, bucket, breaker>>

-----------------------------------------------------------------------------
(* The world.                                                              *)

AccessTokenExpires ==
  /\ token /\ token' = FALSE
  /\ UNCHANGED <<req, pageVars, session, bucket, breaker>>

SessionEnds ==
  /\ session /\ session' = FALSE
  /\ UNCHANGED <<req, pageVars, token, bucket, breaker>>

ProxyStep(r) == Answered(r) \/ ProxyFails(r)
PageStep(r) == StartRefresh(r) \/ Receive(r) \/ RefreshEnds(r)

Next ==
  \/ \E r \in Requests, x \in Used : Send(r, x)
  \/ \E r \in Calls : Enter(r) \/ ProxyStep(r) \/ PageStep(r) \/ FailOpen(r)
  \/ \E k \in {"user", "ip"} : Refill(k)
  \/ \E u \in upstreams : RecoveryTimeout(u)
  \/ Navigate \/ AccessTokenExpires \/ SessionEnds

Spec == Init /\ [][Next]_vars

(* Requests under way go on, time passes, and people keep logging in: the  *)
(* traffic that a breaker needs to find out that its service is back.      *)
Fairness ==
  /\ \A r \in Calls : /\ WF_vars(Enter(r)) /\ WF_vars(ProxyStep(r))
                      /\ WF_vars(PageStep(r))
  /\ \E r \in Requests : SF_vars(Send(r, named("login")))
  /\ \A k \in {"user", "ip"} : WF_vars(Refill(k))
  /\ \A u \in upstreams : WF_vars(RecoveryTimeout(u))
  /\ WF_vars(Navigate)

FairSpec == Spec /\ Fairness

-----------------------------------------------------------------------------
(* The page never has two refreshes under way, and a request that waits    *)
(* waits for a refresh that runs: concurrent 401s, late 401s and logouts   *)
(* share one rotation of the refresh token (api-client.ts).                *)
RefreshIsShared ==
  /\ Cardinality({f \in Refreshes : req[f].at # "idle"}) <= 1
  /\ (\E r \in Requests : req[r].at = "waiting") =>
       refreshPromise # None /\ req[refreshPromise].at # "idle"

(* While the circuit is half open the service is tried by at most          *)
(* halfOpenMaxTrials calls at a time, and each of them is counted: the     *)
(* calls left over from before the circuit opened have ended.              *)
TrialsBounded ==
  \A u \in upstreams : breaker[u].state = "HALF_OPEN" =>
    /\ Cardinality(inFlight(u)) = breaker[u].activeTrialsCount
    /\ breaker[u].activeTrialsCount <= HalfOpenMaxTrials

(* Every request of the page comes to an end: none waits for ever on the   *)
(* refresh, the refresh does not wait on itself, and a hung service is     *)
(* given up (api-client.ts, circuitBreaker.ts).                            *)
RequestsEnd == \A r \in Requests : req[r].at # "idle" ~> req[r].at = "idle"

(* A circuit does not stay open or half open over a service that is back   *)
(* for good, as long as there is traffic (circuitBreaker.ts).              *)
CircuitCloses ==
  <>[][\A r \in Calls : ~ProxyFails(r)]_vars =>
    \A u \in upstreams : <>[](breaker[u].state = "CLOSED")
=============================================================================
