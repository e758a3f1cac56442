---------------------------- MODULE ServiceProofs ----------------------------
(***************************************************************************)
(* Proofs about a service process: the path of the requests it serves and  *)
(* its life from the first connection to the exit.                         *)
(*                                                                         *)
(* RequestPath and CircuitBreaker, for any number of requests and          *)
(* services' routes and any thresholds, trials and capacities: a page has  *)
(* one silent refresh at a time, and a half-open circuit lets no more      *)
(* calls through than it counts.  The count of trials is right only        *)
(* because the circuit starts to try again when the calls from before it   *)
(* opened have ended.                                                      *)
(*                                                                         *)
(* ServiceLifecycle, for every service and any number of faults: what is   *)
(* connected outlives its use, and the exit code tells what is left open.  *)
(* That rests on the wiring of each service (ServiceWiring), which is      *)
(* checked service by service.                                             *)
(***************************************************************************)
EXTENDS RequestPath, ServiceLifecycle, FiniteSetTheorems, TLAPS

-----------------------------------------------------------------------------
(* The path of a request.                                                  *)

ReqType == [Calls -> [at : {"idle", "sent", "proxied", "response", "waiting"},
                      route : Used \cup {named("refresh")},
                      retry : BOOLEAN, answer : Answers \cup {None}]]

(* The refresh that runs is the shared one, and only requests wait for it. *)
RefreshRuns ==
  /\ \A f \in Refreshes : req[f].at # "idle" <=> refreshPromise = f
  /\ \A r \in Calls : req[r].at = "waiting" => r \in Requests /\ refreshPromise # None

(* A breaker below its thresholds.                                         *)
BelowThresholds(b) ==
  /\ b.state = "CLOSED" => b.failureCount < FailureThreshold
  /\ b.state = "HALF_OPEN" => b.successCount < SuccessThreshold

(* While half open a breaker counts the calls under way; there are none    *)
(* when it is about to become half open.                                   *)
CountsTrials(u) ==
  /\ breaker[u].state = "HALF_OPEN" =>
       IsFiniteSet(inFlight(u)) /\ Cardinality(inFlight(u)) = breaker[u].activeTrialsCount
  /\ breaker[u].state = "OPEN" /\ breaker[u].rested => inFlight(u) = {}

PathInv ==
  /\ TypeOK /\ RefreshRuns
  /\ \A u \in upstreams : BelowThresholds(breaker[u]) /\ CountsTrials(u)

-----------------------------------------------------------------------------
(* Routes.                                                                 *)

LEMMA NamedRoute ==
  ASSUME NEW n \in {r.name : r \in routes}
  PROVE  named(n) \in routes /\ named(n).name = n
BY DEF named

LEMMA RoutesHaveUpstreams ==
  /\ \A x \in Used \cup {named("refresh")} : x.upstream \in upstreams
  /\ named("refresh").name = "refresh" /\ named("refresh").auth = "none"
<1>1. route("refresh", "user-service", "none", "auth") \in routes
  BY DEF routes
<1>2. named("refresh") \in routes /\ named("refresh").name = "refresh"
  BY <1>1 DEF named, route
<1>3. named("refresh") = route("refresh", "user-service", "none", "auth")
  BY <1>2 DEF routes, route
<1> QED BY <1>3 DEF upstreams, route

-----------------------------------------------------------------------------
(* The breaker.                                                            *)

LEMMA NewBreakerFits == NewBreaker \in Breakers /\ BelowThresholds(NewBreaker)
BY BreakerOptions DEF ValidOptions, NewBreaker, Breakers, BelowThresholds

LEMMA TransitionFits ==
  ASSUME NEW b \in Breakers, NEW s \in {"CLOSED", "OPEN", "HALF_OPEN"}, b.state # s
  PROVE  /\ transitionTo(b, s) \in Breakers /\ BelowThresholds(transitionTo(b, s))
         /\ transitionTo(b, s).state = s
         /\ transitionTo(b, s).activeTrialsCount = 0
         /\ transitionTo(b, s).rested = FALSE
<1> USE BreakerOptions, NewBreakerFits DEF ValidOptions, BelowThresholds
<1>1. CASE s = "CLOSED" BY <1>1 DEF transitionTo, NewBreaker
<1>2. CASE s = "OPEN"
  <2>1. transitionTo(b, s) = [b EXCEPT !.state = "OPEN", !.activeTrialsCount = 0, !.rested = FALSE]
    BY <1>2 DEF transitionTo
  <2>2. 0 \in 0..HalfOpenMaxTrials OBVIOUS
  <2> QED BY <1>2, <2>1, <2>2 DEF Breakers
<1>3. CASE s = "HALF_OPEN"
  <2>1. transitionTo(b, s) = [NewBreaker EXCEPT !.state = "HALF_OPEN"]
    BY <1>3 DEF transitionTo
  <2>2. transitionTo(b, s) = [state |-> "HALF_OPEN", failureCount |-> 0, successCount |-> 0,
                              activeTrialsCount |-> 0, rested |-> FALSE]
    BY <2>1 DEF NewBreaker
  <2>3. 0 \in 0..HalfOpenMaxTrials /\ 0 \in 0..FailureThreshold /\ 0 \in 0..SuccessThreshold OBVIOUS
  <2>4. transitionTo(b, s) \in Breakers BY <2>2, <2>3 DEF Breakers
  <2> QED BY <1>3, <2>2, <2>4
<1> QED BY <1>1, <1>2, <1>3

(* execute counts the call it admits to a half-open circuit, and changes   *)
(* nothing about the circuit when it refuses one.                          *)
LEMMA ExecuteFits ==
  ASSUME NEW b \in Breakers, BelowThresholds(b)
  PROVE  /\ execute(b) \in Breakers /\ BelowThresholds(execute(b))
         /\ refusal(b) # "none" => execute(b) = b
         /\ execute(b).state = "OPEN" => execute(b) = b /\ refusal(b) # "none"
         /\ execute(b).state = "HALF_OPEN" /\ refusal(b) = "none" =>
              \/ b.state = "HALF_OPEN" /\ execute(b).activeTrialsCount = b.activeTrialsCount + 1
              \/ b.state = "OPEN" /\ b.rested /\ execute(b).activeTrialsCount = 1
<1> USE BreakerOptions DEF ValidOptions
<1> DEFINE c == checkRecovery(b)
<1>1. /\ c \in Breakers /\ BelowThresholds(c)
      /\ \/ c = b /\ ~(b.state = "OPEN" /\ b.rested)
         \/ b.state = "OPEN" /\ b.rested /\ c.state = "HALF_OPEN" /\ c.activeTrialsCount = 0
  BY TransitionFits DEF checkRecovery
<1>2. refusal(b) = "none" <=> /\ c.state # "OPEN"
                              /\ c.state = "HALF_OPEN" => ~(c.activeTrialsCount >= HalfOpenMaxTrials)
  BY DEF refusal
<1>3. execute(b) = IF c.state = "HALF_OPEN" /\ refusal(b) = "none"
                   THEN [c EXCEPT !.activeTrialsCount = c.activeTrialsCount + 1] ELSE c
  BY DEF execute
<1> HIDE DEF c
<1>4. CASE c.state = "HALF_OPEN" /\ refusal(b) = "none"
  <2>1. /\ execute(b) = [c EXCEPT !.activeTrialsCount = c.activeTrialsCount + 1]
        /\ c.activeTrialsCount + 1 \in 0..HalfOpenMaxTrials
    BY <1>1, <1>2, <1>3, <1>4 DEF Breakers
  <2>2. /\ execute(b) \in Breakers /\ execute(b).state = "HALF_OPEN"
        /\ execute(b).successCount = c.successCount
        /\ execute(b).activeTrialsCount = c.activeTrialsCount + 1
    BY <1>1, <1>4, <2>1 DEF Breakers
  <2> QED BY <1>1, <1>4, <2>2 DEF BelowThresholds, Breakers
<1>5. CASE ~(c.state = "HALF_OPEN" /\ refusal(b) = "none")
  BY <1>1, <1>2, <1>3, <1>5 DEF Breakers
<1> QED BY <1>4, <1>5

LEMMA TrialsLess ==
  ASSUME NEW b \in Breakers
  PROVE  /\ trialsLess(b) \in Breakers /\ trialsLess(b).state = b.state
         /\ trialsLess(b).successCount = b.successCount
         /\ b.activeTrialsCount > 0 => trialsLess(b).activeTrialsCount = b.activeTrialsCount - 1
<1>1. trialsLess(b) = [b EXCEPT !.activeTrialsCount =
                         IF b.activeTrialsCount > 0 THEN b.activeTrialsCount - 1 ELSE 0]
  BY DEF trialsLess
<1>2. (IF b.activeTrialsCount > 0 THEN b.activeTrialsCount - 1 ELSE 0) \in 0..HalfOpenMaxTrials
  BY BreakerOptions DEF ValidOptions, Breakers
<1> QED BY <1>1, <1>2 DEF Breakers

(* What a call that ends does to its breaker.                              *)
Settles(b, c) ==
  /\ c \in Breakers /\ BelowThresholds(c)
  /\ c.state = "HALF_OPEN" =>
       /\ b.state = "HALF_OPEN"
       /\ b.activeTrialsCount > 0 => c.activeTrialsCount = b.activeTrialsCount - 1
  /\ c.state = "OPEN" /\ c.rested => c = b

LEMMA SuccessSettles ==
  ASSUME NEW b \in Breakers, BelowThresholds(b)
  PROVE  Settles(b, handleSuccess(b))
<1> USE BreakerOptions DEF ValidOptions
<1>1. CASE b.state = "HALF_OPEN"
  <2> DEFINE d == trialsLess(b)
             c == [d EXCEPT !.successCount = d.successCount + 1]
  <2>1. handleSuccess(b) = IF c.successCount >= SuccessThreshold THEN transitionTo(c, "CLOSED") ELSE c
    BY <1>1 DEF handleSuccess
  <2>2. /\ d \in Breakers /\ d.state = "HALF_OPEN" /\ d.successCount = b.successCount
        /\ b.activeTrialsCount > 0 => d.activeTrialsCount = b.activeTrialsCount - 1
    BY <1>1, TrialsLess
  <2>3. d.successCount + 1 \in 0..SuccessThreshold
    BY <1>1, <2>2 DEF BelowThresholds, Breakers
  <2> HIDE DEF d
  <2>4. /\ c \in Breakers /\ c.state = "HALF_OPEN" /\ c.successCount = d.successCount + 1
        /\ c.activeTrialsCount = d.activeTrialsCount
    BY <2>2, <2>3 DEF Breakers
  <2> HIDE DEF c
  <2>5. CASE c.successCount >= SuccessThreshold
    BY <2>1, <2>4, <2>5, TransitionFits DEF Settles
  <2>6. CASE ~(c.successCount >= SuccessThreshold)
    <3>1. BelowThresholds(c) BY <2>4, <2>6 DEF BelowThresholds, Breakers
    <3> QED BY <1>1, <2>1, <2>2, <2>4, <2>6, <3>1 DEF Settles
  <2> QED BY <2>5, <2>6
<1>2. CASE b.state = "CLOSED"
  <2>1. handleSuccess(b) = [b EXCEPT !.failureCount = 0] BY <1>2 DEF handleSuccess
  <2> QED BY <1>2, <2>1 DEF Settles, Breakers, BelowThresholds
<1>3. CASE b.state = "OPEN"
  <2>1. handleSuccess(b) = b BY <1>3 DEF handleSuccess
  <2> QED BY <1>3, <2>1 DEF Settles
<1> QED BY <1>1, <1>2, <1>3 DEF Breakers

LEMMA FailureSettles ==
  ASSUME NEW b \in Breakers, BelowThresholds(b)
  PROVE  Settles(b, handleFailure(b))
<1> USE BreakerOptions DEF ValidOptions
<1>1. CASE b.state = "HALF_OPEN"
  <2>1. handleFailure(b) = transitionTo(trialsLess(b), "OPEN") BY <1>1 DEF handleFailure
  <2>2. trialsLess(b) \in Breakers /\ trialsLess(b).state # "OPEN" BY <1>1, TrialsLess
  <2> QED BY <2>1, <2>2, TransitionFits DEF Settles
<1>2. CASE b.state = "CLOSED"
  <2> DEFINE c == [b EXCEPT !.failureCount = b.failureCount + 1]
  <2>1. handleFailure(b) = IF c.failureCount >= FailureThreshold THEN transitionTo(c, "OPEN") ELSE c
    BY <1>2 DEF handleFailure
  <2>2. b.failureCount + 1 \in 0..FailureThreshold
    BY <1>2 DEF BelowThresholds, Breakers
  <2>3. c \in Breakers /\ c.state = "CLOSED"
    BY <1>2, <2>2 DEF Breakers
  <2> HIDE DEF c
  <2>4. CASE c.failureCount >= FailureThreshold
    BY <2>1, <2>3, <2>4, TransitionFits DEF Settles
  <2>5. CASE ~(c.failureCount >= FailureThreshold)
    <3>1. BelowThresholds(c) BY <2>3, <2>5 DEF BelowThresholds, Breakers
    <3> QED BY <2>1, <2>3, <2>5, <3>1 DEF Settles
  <2> QED BY <2>4, <2>5
<1>3. CASE b.state = "OPEN"
  <2>1. handleFailure(b) = b BY <1>3 DEF handleFailure
  <2> QED BY <1>3, <2>1 DEF Settles
<1> QED BY <1>1, <1>2, <1>3 DEF Breakers

-----------------------------------------------------------------------------
(* Calls.                                                                  *)

Rec == [at : {"idle", "sent", "proxied", "response", "waiting"},
        route : Used \cup {named("refresh")}, retry : BOOLEAN, answer : Answers \cup {None}]

(* Call r alone changes, to rec.                                           *)
Becomes(r, rec) ==
  /\ req' \in ReqType /\ req'[r] = rec
  /\ \A q \in Calls \ {r} : req'[q] = req[q]

LEMMA CallBecomes ==
  ASSUME req \in ReqType, NEW r \in Calls, NEW rec \in Rec, req' = [req EXCEPT ![r] = rec]
  PROVE  Becomes(r, rec)
BY DEF Becomes, ReqType, Rec

LEMMA GoesOn ==
  ASSUME req \in ReqType, NEW r \in Calls
  PROVE  /\ \A place \in {"idle", "sent", "proxied", "response", "waiting"} :
              goto(r, place) => Becomes(r, [req[r] EXCEPT !.at = place])
         /\ \A a \in Answers : reply(r, a) => Becomes(r, [req[r] EXCEPT !.at = "response", !.answer = a])
<1>1. req[r] \in Rec BY DEF ReqType, Rec
<1>2. ASSUME NEW place \in {"idle", "sent", "proxied", "response", "waiting"}, goto(r, place)
      PROVE  Becomes(r, [req[r] EXCEPT !.at = place])
  <2>1. [req[r] EXCEPT !.at = place] \in Rec BY <1>1 DEF Rec
  <2>2. req' = [req EXCEPT ![r] = [req[r] EXCEPT !.at = place]] BY <1>2 DEF goto
  <2> QED BY <2>1, <2>2, CallBecomes
<1>3. ASSUME NEW a \in Answers, reply(r, a)
      PROVE  Becomes(r, [req[r] EXCEPT !.at = "response", !.answer = a])
  <2>1. [req[r] EXCEPT !.at = "response", !.answer = a] \in Rec BY <1>1 DEF Rec
  <2>2. req' = [req EXCEPT ![r] = [req[r] EXCEPT !.at = "response", !.answer = a]] BY <1>3 DEF reply
  <2> QED BY <2>1, <2>2, CallBecomes
<1> QED BY <1>2, <1>3

(* The calls under way at a service when r alone changes.                  *)
LEMMA FlightAfter ==
  ASSUME NEW r \in Calls, NEW u, \A q \in Calls \ {r} : req'[q] = req[q]
  PROVE  inFlight(u)' = IF req'[r].at = "proxied" /\ req'[r].route.upstream = u
                        THEN inFlight(u) \cup {r} ELSE inFlight(u) \ {r}
BY DEF inFlight

LEMMA FlightStays ==
  ASSUME \A q \in Calls : req'[q].at = "proxied" \/ req[q].at = "proxied" => req'[q] = req[q],
         UNCHANGED breaker, NEW u, CountsTrials(u)
  PROVE  CountsTrials(u)'
<1>1. inFlight(u)' = inFlight(u) BY DEF inFlight
<1> QED BY <1>1 DEF CountsTrials

(* A call that stays the page's keeps the refresh that runs.               *)
LEMMA RefreshStays ==
  ASSUME RefreshRuns, NEW r \in Calls, \A q \in Calls \ {r} : req'[q] = req[q],
         UNCHANGED refreshPromise, req[r].at # "idle", req'[r].at \notin {"idle", "waiting"}
  PROVE  RefreshRuns'
BY DEF RefreshRuns, Calls

-----------------------------------------------------------------------------
(* The gateway and the proxy.                                              *)

LEMMA ProxyKeeps ==
  ASSUME PathInv, NEW r \in Calls, req[r].at = "sent", proxy(r)
  PROVE  /\ req' \in ReqType /\ breaker' \in [upstreams -> Breakers]
         /\ \A q \in Calls \ {r} : req'[q] = req[q]
         /\ req'[r].at \in {"proxied", "response"}
         /\ \A u \in upstreams : BelowThresholds(breaker'[u]) /\ CountsTrials(u)'
<1>v. PICK v : v = req[r].route.upstream OBVIOUS
<1>0. /\ req \in ReqType /\ req[r].route \in Used \cup {named("refresh")}
      /\ breaker \in [upstreams -> Breakers]
  BY DEF PathInv, TypeOK, ReqType
<1>1. v \in upstreams /\ breaker[v] \in Breakers /\ BelowThresholds(breaker[v]) /\ CountsTrials(v)
  BY <1>v, <1>0, RoutesHaveUpstreams DEF PathInv
<1>2. breaker' = [breaker EXCEPT ![v] = execute(breaker[v])] BY <1>v DEF proxy
<1>3. /\ execute(breaker[v]) \in Breakers /\ BelowThresholds(execute(breaker[v]))
      /\ refusal(breaker[v]) # "none" => execute(breaker[v]) = breaker[v]
      /\ execute(breaker[v]).state = "OPEN" =>
           execute(breaker[v]) = breaker[v] /\ refusal(breaker[v]) # "none"
      /\ execute(breaker[v]).state = "HALF_OPEN" /\ refusal(breaker[v]) = "none" =>
           \/ /\ breaker[v].state = "HALF_OPEN"
              /\ execute(breaker[v]).activeTrialsCount = breaker[v].activeTrialsCount + 1
           \/ /\ breaker[v].state = "OPEN" /\ breaker[v].rested
              /\ execute(breaker[v]).activeTrialsCount = 1
  BY <1>1, ExecuteFits
<1>4. /\ Becomes(r, req'[r]) /\ req'[r].route = req[r].route
      /\ req'[r].at = IF refusal(breaker[v]) = "none" THEN "proxied" ELSE "response"
  <2>1. CASE refusal(breaker[v]) = "none"
    <3>1. Becomes(r, [req[r] EXCEPT !.at = "proxied"])
      BY <1>v, <1>0, <2>1, GoesOn DEF proxy, forward
    <3> QED BY <1>0, <2>1, <3>1 DEF Becomes, ReqType
  <2>2. CASE refusal(breaker[v]) # "none"
    <3>1. Becomes(r, [req[r] EXCEPT !.at = "response", !.answer = "error"])
      BY <1>v, <1>0, <2>2, GoesOn DEF proxy, Answers
    <3> QED BY <1>0, <2>2, <3>1 DEF Becomes, ReqType
  <2> QED BY <2>1, <2>2
<1>5. breaker' \in [upstreams -> Breakers] BY <1>0, <1>2, <1>3
<1>6. \A u \in upstreams : BelowThresholds(breaker'[u])
  BY <1>0, <1>1, <1>2, <1>3 DEF PathInv
<1>7. ASSUME NEW u \in upstreams \ {v} PROVE CountsTrials(u)'
  <2>1. inFlight(u)' = inFlight(u)
    BY <1>v, <1>4, <1>7, FlightAfter DEF Becomes, inFlight
  <2> QED BY <1>0, <1>2, <1>7, <2>1 DEF PathInv, CountsTrials
<1>8. CountsTrials(v)'
  <2>1. breaker'[v] = execute(breaker[v]) /\ r \notin inFlight(v)
    BY <1>0, <1>1, <1>2 DEF inFlight
  <2>2. CASE refusal(breaker[v]) # "none"
    <3>0. inFlight(v)' = inFlight(v) \ {r}
      BY <1>4, <2>2, FlightAfter DEF Becomes
    <3>1. inFlight(v)' = inFlight(v) BY <2>1, <3>0
    <3> QED BY <1>1, <1>3, <2>1, <2>2, <3>1 DEF CountsTrials
  <2>3. CASE refusal(breaker[v]) = "none"
    <3>1. inFlight(v)' = inFlight(v) \cup {r}
      BY <1>v, <1>4, <2>3, FlightAfter DEF Becomes
    <3>2. ASSUME execute(breaker[v]).state = "HALF_OPEN"
          PROVE  /\ IsFiniteSet(inFlight(v) \cup {r})
                 /\ Cardinality(inFlight(v) \cup {r}) = execute(breaker[v]).activeTrialsCount
      <4>1. CASE breaker[v].state = "HALF_OPEN"
        <5>1. /\ IsFiniteSet(inFlight(v)) /\ Cardinality(inFlight(v)) = breaker[v].activeTrialsCount
              /\ execute(breaker[v]).activeTrialsCount = breaker[v].activeTrialsCount + 1
          BY <1>1, <1>3, <2>3, <3>2, <4>1 DEF CountsTrials
        <5>2. /\ IsFiniteSet(inFlight(v) \cup {r})
              /\ Cardinality(inFlight(v) \cup {r}) = Cardinality(inFlight(v)) + 1
          BY <2>1, <5>1, FS_AddElement
        <5> QED BY <5>1, <5>2
      <4>2. CASE breaker[v].state # "HALF_OPEN"
        <5>1. inFlight(v) = {} /\ execute(breaker[v]).activeTrialsCount = 1
          BY <1>1, <1>3, <2>3, <3>2, <4>2 DEF CountsTrials
        <5>2. inFlight(v) \cup {r} = {r} BY <5>1
        <5>3. IsFiniteSet({r}) /\ Cardinality({r}) = 1 BY FS_Singleton
        <5> QED BY <5>1, <5>2, <5>3
      <4> QED BY <4>1, <4>2
    <3> QED BY <1>3, <2>1, <2>3, <3>1, <3>2 DEF CountsTrials
  <2> QED BY <2>2, <2>3
<1> QED BY <1>4, <1>5, <1>6, <1>7, <1>8 DEF Becomes

LEMMA SettledKeeps ==
  ASSUME PathInv, NEW r \in Calls, req[r].at = "proxied",
         \A q \in Calls \ {r} : req'[q] = req[q], req'[r].at # "proxied",
         NEW c, Settles(breaker[req[r].route.upstream], c), settled(req[r].route.upstream, c)
  PROVE  /\ breaker' \in [upstreams -> Breakers]
         /\ \A u \in upstreams : BelowThresholds(breaker'[u]) /\ CountsTrials(u)'
<1>v. PICK v : v = req[r].route.upstream OBVIOUS
<1>0. /\ req \in ReqType /\ req[r].route \in Used \cup {named("refresh")}
      /\ breaker \in [upstreams -> Breakers]
  BY DEF PathInv, TypeOK, ReqType
<1>1. v \in upstreams /\ CountsTrials(v) /\ c \in Breakers /\ BelowThresholds(c)
  BY <1>v, <1>0, RoutesHaveUpstreams DEF PathInv, Settles
<1>2. breaker' = [breaker EXCEPT ![v] = c] BY <1>v DEF settled
<1>3. ASSUME NEW u \in upstreams \ {v} PROVE CountsTrials(u)'
  <2>1. inFlight(u)' = inFlight(u)
    BY <1>v, <1>3, FlightAfter DEF inFlight
  <2> QED BY <1>0, <1>2, <1>3, <2>1 DEF PathInv, CountsTrials
<1>4. CountsTrials(v)'
  <2>1. breaker'[v] = c /\ r \in inFlight(v) /\ inFlight(v)' = inFlight(v) \ {r}
    BY <1>v, <1>0, <1>1, <1>2, FlightAfter DEF inFlight
  <2>2. ASSUME c.state = "HALF_OPEN"
        PROVE  IsFiniteSet(inFlight(v) \ {r}) /\ Cardinality(inFlight(v) \ {r}) = c.activeTrialsCount
    <3>1. breaker[v].state = "HALF_OPEN" BY <1>v, <2>2 DEF Settles
    <3>2. IsFiniteSet(inFlight(v)) /\ Cardinality(inFlight(v)) = breaker[v].activeTrialsCount
      BY <1>1, <3>1 DEF CountsTrials
    <3>3. Cardinality(inFlight(v)) \in Nat /\ Cardinality(inFlight(v)) # 0
      BY <2>1, <3>2, FS_CardinalityType, FS_EmptySet
    <3>4. c.activeTrialsCount = breaker[v].activeTrialsCount - 1
      BY <1>v, <2>2, <3>2, <3>3 DEF Settles
    <3> QED BY <2>1, <3>2, <3>4, FS_RemoveElement
  <2>3. c.state = "OPEN" /\ c.rested => inFlight(v) = {}
    BY <1>v, <1>1 DEF Settles, CountsTrials
  <2> QED BY <2>1, <2>2, <2>3 DEF CountsTrials
<1> QED BY <1>0, <1>1, <1>2, <1>3, <1>4 DEF PathInv

LEMMA BucketFits ==
  ASSUME TypeOK, NEW x \in Used \cup {named("refresh")}
  PROVE  /\ buildKey(x) \in {"user", "ip"} /\ available(x) \in 0..DefaultCapacity
         /\ [bucket EXCEPT ![buildKey(x)] = 0] \in [{"user", "ip"} -> 0..DefaultCapacity]
         /\ available(x) >= 1 =>
              [bucket EXCEPT ![buildKey(x)] = available(x) - 1] \in [{"user", "ip"} -> 0..DefaultCapacity]
<1>1. buildKey(x) \in {"user", "ip"} BY DEF buildKey
<1>2. bucket[buildKey(x)] \in 0..DefaultCapacity BY <1>1 DEF TypeOK
<1>3. available(x) \in 0..DefaultCapacity
  BY <1>2, PathAssumption DEF available, capacity
<1>4. 0 \in 0..DefaultCapacity BY PathAssumption
<1>5. available(x) >= 1 => available(x) - 1 \in 0..DefaultCapacity BY <1>3, PathAssumption
<1> QED BY <1>1, <1>3, <1>4, <1>5 DEF TypeOK

LEMMA EnterKeeps ==
  ASSUME PathInv, NEW r \in Calls, Enter(r) \/ FailOpen(r)
  PROVE  PathInv'
<1> DEFINE x == req[r].route
<1>0. TypeOK /\ RefreshRuns /\ req \in ReqType /\ x \in Used \cup {named("refresh")}
  BY DEF PathInv, TypeOK, ReqType
<1>1. req[r].at = "sent" /\ UNCHANGED <<pageVars, accountVars>> BY DEF Enter, FailOpen
<1>2. CASE proxy(r) /\ bucket' \in [{"user", "ip"} -> 0..DefaultCapacity]
  <2>1. /\ req' \in ReqType /\ breaker' \in [upstreams -> Breakers]
        /\ \A q \in Calls \ {r} : req'[q] = req[q]
        /\ req'[r].at \in {"proxied", "response"}
        /\ \A u \in upstreams : BelowThresholds(breaker'[u]) /\ CountsTrials(u)'
    BY <1>1, <1>2, ProxyKeeps
  <2>2. RefreshRuns' BY <1>0, <1>1, <2>1, RefreshStays DEF pageVars
  <2>3. TypeOK' BY <1>0, <1>1, <1>2, <2>1 DEF TypeOK, ReqType, pageVars, accountVars
  <2> QED BY <2>1, <2>2, <2>3 DEF PathInv, upstreams
<1>3. ASSUME NEW a \in Answers, reply(r, a), UNCHANGED breaker,
             bucket' \in [{"user", "ip"} -> 0..DefaultCapacity]
      PROVE  PathInv'
  <2>1. Becomes(r, [req[r] EXCEPT !.at = "response", !.answer = a]) BY <1>0, <1>3, GoesOn
  <2>2. /\ req' \in ReqType /\ \A q \in Calls \ {r} : req'[q] = req[q]
        /\ req'[r].at = "response"
    BY <1>0, <2>1 DEF Becomes, ReqType
  <2>3. RefreshRuns' BY <1>0, <1>1, <2>2, RefreshStays DEF pageVars
  <2>4. TypeOK' BY <1>0, <1>1, <1>3, <2>2 DEF TypeOK, ReqType, pageVars, accountVars
  <2>5. \A u \in upstreams : CountsTrials(u)' BY <1>1, <1>3, <2>2, FlightStays DEF PathInv
  <2> QED BY <1>3, <2>3, <2>4, <2>5 DEF PathInv, upstreams
<1>4. CASE Enter(r)
  <2>1. \/ /\ UNCHANGED <<bucket, breaker>> /\ (reply(r, "refused") \/ reply(r, "AUTH_REQUIRED"))
        \/ /\ available(x) >= 1 /\ bucket' = [bucket EXCEPT ![buildKey(x)] = available(x) - 1]
           /\ proxy(r)
        \/ /\ bucket' = [bucket EXCEPT ![buildKey(x)] = 0]
           /\ reply(r, "error") /\ UNCHANGED breaker
    BY <1>4 DEF Enter
  <2>2. bucket' \in [{"user", "ip"} -> 0..DefaultCapacity]
    BY <1>0, <2>1, BucketFits DEF TypeOK
  <2> QED BY <1>2, <1>3, <2>1, <2>2 DEF Answers
<1>5. CASE FailOpen(r)
  BY <1>0, <1>2, <1>5 DEF FailOpen, TypeOK
<1> QED BY <1>4, <1>5

LEMMA ProxyStepKeeps ==
  ASSUME PathInv, NEW r \in Calls, ProxyStep(r)
  PROVE  PathInv'
<1> DEFINE x == req[r].route
           u == req[r].route.upstream
<1>0. /\ TypeOK /\ RefreshRuns /\ req \in ReqType /\ x \in Used \cup {named("refresh")}
      /\ u \in upstreams /\ breaker[u] \in Breakers /\ BelowThresholds(breaker[u])
  BY RoutesHaveUpstreams DEF PathInv, TypeOK, ReqType
<1>1. req[r].at = "proxied" /\ UNCHANGED <<pageVars, bucket>>
  BY DEF ProxyStep, Answered, ProxyFails
<1>2. PICK a \in Answers : reply(r, a)
  BY DEF ProxyStep, Answered, ProxyFails, createApp, answerOf, Answers
<1>3. settled(u, handleSuccess(breaker[u])) \/ settled(u, handleFailure(breaker[u]))
  BY DEF ProxyStep, Answered, ProxyFails
<1>4. token' \in BOOLEAN /\ session' \in BOOLEAN
  <2>1. {tokenAfter(x), sessionAfter(x)} \subseteq BOOLEAN
    BY <1>0 DEF tokenAfter, sessionAfter, TypeOK
  <2> QED BY <1>0, <2>1 DEF ProxyStep, Answered, ProxyFails, accountVars, TypeOK
<1>5. Becomes(r, [req[r] EXCEPT !.at = "response", !.answer = a]) BY <1>0, <1>2, GoesOn
<1>6. /\ req' \in ReqType /\ \A q \in Calls \ {r} : req'[q] = req[q]
      /\ req'[r].at = "response"
  BY <1>0, <1>5 DEF Becomes, ReqType
<1>7. RefreshRuns' BY <1>0, <1>1, <1>6, RefreshStays DEF pageVars
<1>8. PICK c : settled(u, c) /\ Settles(breaker[u], c)
  BY <1>0, <1>3, SuccessSettles, FailureSettles
<1>9. /\ breaker' \in [upstreams -> Breakers]
      /\ \A v \in upstreams : BelowThresholds(breaker'[v]) /\ CountsTrials(v)'
  BY <1>1, <1>6, <1>8, SettledKeeps
<1>10. TypeOK'
  BY <1>0, <1>1, <1>4, <1>6, <1>9 DEF TypeOK, ReqType, pageVars
<1> QED BY <1>7, <1>9, <1>10 DEF PathInv, upstreams

-----------------------------------------------------------------------------
(* The page.                                                               *)

(* Steps of the page leave the calls at the services alone.                *)
LEMMA PageKeeps ==
  ASSUME PathInv, UNCHANGED <<accountVars, bucket, breaker>>,
         \A q \in Calls : req'[q].at = "proxied" \/ req[q].at = "proxied" => req'[q] = req[q],
         req' \in ReqType, RefreshRuns', refreshPromise' \in Refreshes \cup {None},
         {isLoggingOut', isRedirecting'} \subseteq BOOLEAN
  PROVE  PathInv'
<1>1. \A u \in upstreams : CountsTrials(u)' BY FlightStays DEF PathInv
<1>2. TypeOK' BY DEF PathInv, TypeOK, ReqType, accountVars
<1> QED BY <1>1, <1>2 DEF PathInv, upstreams

LEMMA IdleIsCall ==
  /\ Idle \in Rec /\ Idle.at = "idle"
  /\ \A x \in Used \cup {named("refresh")} : [Idle EXCEPT !.at = "sent", !.route = x] \in Rec
  /\ [Idle EXCEPT !.at = "sent"] \in Rec
BY DEF Idle, Rec

LEMMA SendKeeps ==
  ASSUME PathInv, NEW r \in Requests, NEW x \in Used, Send(r, x)
  PROVE  PathInv'
<1> DEFINE rec == [Idle EXCEPT !.at = "sent", !.route = x]
<1>0. TypeOK /\ RefreshRuns /\ req \in ReqType /\ r \in Calls /\ r \notin Refreshes
  BY PathAssumption DEF PathInv, TypeOK, ReqType, Calls
<1>1. rec \in Rec /\ rec.at = "sent" BY IdleIsCall DEF Idle
<1>2. Becomes(r, rec) BY <1>0, <1>1, CallBecomes DEF Send
<1> HIDE DEF rec
<1>3. RefreshRuns' BY <1>0, <1>1, <1>2 DEF RefreshRuns, Becomes, Send, Calls
<1>4. \A q \in Calls : req'[q].at = "proxied" \/ req[q].at = "proxied" => req'[q] = req[q]
  BY <1>1, <1>2 DEF Becomes, Send
<1>5. {isLoggingOut', isRedirecting'} \subseteq BOOLEAN BY <1>0 DEF Send, TypeOK
<1> QED BY <1>0, <1>2, <1>3, <1>4, <1>5, PageKeeps DEF Send, Becomes, TypeOK

LEMMA StartRefreshKeeps ==
  ASSUME PathInv, NEW r \in Calls, StartRefresh(r)
  PROVE  PathInv'
<1>0. TypeOK /\ RefreshRuns /\ req \in ReqType
  BY DEF PathInv, TypeOK, ReqType
<1>1. req[r].at = "response" /\ r \notin Refreshes /\ r \in Requests
  BY DEF StartRefresh, shouldRefresh, Calls
<1> DEFINE rec == [req[r] EXCEPT !.at = "waiting", !.retry = TRUE, !.answer = None]
           waiting == [req EXCEPT ![r] = rec]
<1>2. rec \in Rec /\ rec.at = "waiting" BY <1>0 DEF ReqType, Rec
<1>3. waiting \in ReqType /\ waiting[r].at = "waiting" /\ \A q \in Calls \ {r} : waiting[q] = req[q]
  BY <1>0, <1>2 DEF ReqType, Rec
<1>4. IF needsNewRefresh
        THEN /\ req' = [waiting EXCEPT ![freeSlot] = [Idle EXCEPT !.at = "sent"]]
             /\ refreshPromise' = freeSlot
        ELSE req' = waiting /\ UNCHANGED refreshPromise
  BY DEF StartRefresh
<1> HIDE DEF waiting, rec
<1>5. CASE needsNewRefresh
  <2>1. \A f \in Refreshes : req[f].at = "idle"
    BY <1>0, <1>5, PathAssumption DEF needsNewRefresh, RefreshRuns
  <2>2. freeSlot \in Refreshes /\ req[freeSlot].at = "idle"
    BY <2>1, PathAssumption DEF freeSlot
  <2>3. freeSlot \in Calls /\ freeSlot # r BY <1>1, <2>2 DEF Calls
  <2>4. req' = [waiting EXCEPT ![freeSlot] = [Idle EXCEPT !.at = "sent"]] /\ refreshPromise' = freeSlot
    BY <1>4, <1>5
  <2>5. [Idle EXCEPT !.at = "sent"].at = "sent" BY DEF Idle
  <2>6. /\ req' \in ReqType /\ req'[freeSlot].at = "sent" /\ req'[r].at = "waiting"
        /\ \A q \in Calls \ {r, freeSlot} : req'[q] = req[q]
    BY <1>3, <2>3, <2>4, <2>5, IdleIsCall DEF ReqType, Rec
  <2>7. RefreshRuns'
    BY <1>0, <1>1, <2>1, <2>2, <2>4, <2>6, PathAssumption DEF RefreshRuns, Calls
  <2>8. \A q \in Calls : req'[q].at = "proxied" \/ req[q].at = "proxied" => req'[q] = req[q]
    BY <1>1, <2>2, <2>6
  <2> QED BY <1>0, <2>2, <2>4, <2>6, <2>7, <2>8, PageKeeps DEF StartRefresh, TypeOK
<1>6. CASE ~needsNewRefresh
  <2>1. req' = waiting /\ refreshPromise' = refreshPromise BY <1>4, <1>6
  <2>2. RefreshRuns'
    BY <1>0, <1>1, <1>3, <1>6, <2>1 DEF RefreshRuns, Calls, needsNewRefresh
  <2>3. \A q \in Calls : req'[q].at = "proxied" \/ req[q].at = "proxied" => req'[q] = req[q]
    BY <1>1, <1>3, <2>1
  <2> QED BY <1>0, <1>3, <2>1, <2>2, <2>3, PageKeeps DEF StartRefresh, TypeOK
<1> QED BY <1>5, <1>6

LEMMA ReceiveKeeps ==
  ASSUME PathInv, NEW r \in Calls, Receive(r)
  PROVE  PathInv'
<1>0. TypeOK /\ RefreshRuns /\ req \in ReqType /\ r \notin Refreshes /\ req[r].at = "response"
  BY PathAssumption DEF PathInv, TypeOK, ReqType, Receive
<1>1. Becomes(r, Idle) BY <1>0, IdleIsCall, CallBecomes DEF Receive
<1>2. RefreshRuns' BY <1>0, <1>1, IdleIsCall DEF RefreshRuns, Becomes, Receive, Calls
<1>3. \A q \in Calls : req'[q].at = "proxied" \/ req[q].at = "proxied" => req'[q] = req[q]
  BY <1>0, <1>1, IdleIsCall DEF Becomes
<1>4. {isLoggingOut', isRedirecting'} \subseteq BOOLEAN BY <1>0 DEF Receive, TypeOK
<1> QED BY <1>0, <1>1, <1>2, <1>3, <1>4, PageKeeps DEF Receive, Becomes, TypeOK

LEMMA RefreshEndsKeeps ==
  ASSUME PathInv, NEW f \in Calls, RefreshEnds(f)
  PROVE  PathInv'
<1>0. TypeOK /\ RefreshRuns /\ req \in ReqType /\ f \in Refreshes /\ req[f].at = "response"
  BY DEF PathInv, TypeOK, ReqType, RefreshEnds
<1> DEFINE retries == req[f].answer = "done" /\ ~isLoggingOut
           after(q) == CASE q = f -> Idle
                         [] q \in {r \in Requests : req[r].at = "waiting"} ->
                              IF retries THEN [req[q] EXCEPT !.at = "sent"] ELSE Idle
                         [] OTHER -> req[q]
<1>1. req' = [q \in Calls |-> after(q)] /\ refreshPromise' = None BY DEF RefreshEnds
<1>2. f \notin Requests BY <1>0, PathAssumption
<1>3. ASSUME NEW q \in Calls
      PROVE  /\ after(q) \in Rec
             /\ q = f => after(q) = Idle
             /\ q # f /\ req[q].at = "waiting" => after(q).at \in {"sent", "idle"}
             /\ q # f /\ req[q].at # "waiting" => after(q) = req[q]
  <2>1. req[q] \in Rec BY <1>0 DEF ReqType, Rec
  <2>2. [req[q] EXCEPT !.at = "sent"] \in Rec /\ [req[q] EXCEPT !.at = "sent"].at = "sent"
    BY <2>1 DEF Rec
  <2>3. req[q].at = "waiting" => q \in Requests BY <1>0 DEF RefreshRuns
  <2>4. CASE q = f
    <3>1. after(q) = Idle BY <1>2, <2>4
    <3> QED BY <2>4, <3>1, IdleIsCall
  <2>5. CASE q # f /\ req[q].at = "waiting" BY <2>2, <2>3, <2>5, IdleIsCall
  <2>6. CASE q # f /\ req[q].at # "waiting" BY <2>1, <2>6
  <2> QED BY <2>4, <2>5, <2>6
<1> HIDE DEF after
<1>4. /\ req' \in ReqType /\ req'[f].at = "idle"
      /\ \A q \in Calls : q # f /\ req[q].at # "waiting" => req'[q] = req[q]
      /\ \A q \in Calls : req'[q].at # "waiting"
  <2>1. \A q \in Calls : req'[q] = after(q) /\ after(q) \in Rec
    BY <1>1, <1>3
  <2>2. req' \in ReqType
    BY <1>1, <2>1 DEF ReqType, Rec
  <2>3. req'[f].at = "idle"
    BY <1>3, <2>1, IdleIsCall
  <2>4. \A q \in Calls : req'[q].at # "waiting"
    <3> SUFFICES ASSUME NEW q \in Calls PROVE req'[q].at # "waiting"
      OBVIOUS
    <3>1. CASE q = f
      BY <2>3, <3>1
    <3>2. CASE q # f /\ req[q].at = "waiting"
      BY <1>3, <2>1, <3>2
    <3>3. CASE q # f /\ req[q].at # "waiting"
      BY <1>3, <2>1, <3>3
    <3> QED BY <3>1, <3>2, <3>3
  <2> QED BY <1>3, <2>1, <2>2, <2>3, <2>4
<1>5. \A q \in Refreshes : q \in Calls /\ req[q].at # "waiting"
  BY <1>0, PathAssumption DEF RefreshRuns, Calls
<1>6. RefreshRuns'
  BY <1>0, <1>1, <1>4, <1>5, PathAssumption DEF RefreshRuns
<1>7. \A q \in Calls : req'[q].at = "proxied" \/ req[q].at = "proxied" => req'[q] = req[q]
  BY <1>0, <1>1, <1>3, <1>4, IdleIsCall
<1>8. {isLoggingOut', isRedirecting'} \subseteq BOOLEAN BY <1>0 DEF RefreshEnds, TypeOK
<1> QED BY <1>1, <1>4, <1>6, <1>7, <1>8, PageKeeps DEF RefreshEnds

-----------------------------------------------------------------------------
(* The invariant.                                                          *)

LEMMA NextKeeps ==
  ASSUME PathInv, [Next]_vars
  PROVE  PathInv'
<1>0. TypeOK /\ RefreshRuns /\ req \in ReqType BY DEF PathInv, TypeOK, ReqType
<1>1. ASSUME UNCHANGED <<req, refreshPromise, breaker>>,
             {isLoggingOut', isRedirecting', token', session'} \subseteq BOOLEAN,
             bucket' \in [{"user", "ip"} -> 0..DefaultCapacity]
      PROVE  PathInv'
  <2>1. TypeOK' BY <1>0, <1>1 DEF TypeOK
  <2>2. RefreshRuns' BY <1>0, <1>1 DEF RefreshRuns
  <2>3. \A u \in upstreams : CountsTrials(u)' BY <1>1, FlightStays DEF PathInv
  <2> QED BY <1>1, <2>1, <2>2, <2>3 DEF PathInv, upstreams
<1>2. CASE \E k \in {"user", "ip"} : Refill(k)
  <2>1. PICK k \in {"user", "ip"} : Refill(k) BY <1>2
  <2>2. bucket[k] + 1 \in 0..DefaultCapacity
    BY <1>0, <2>1, PathAssumption DEF Refill, TypeOK
  <2>3. bucket' \in [{"user", "ip"} -> 0..DefaultCapacity]
    BY <1>0, <2>1, <2>2 DEF Refill, TypeOK
  <2> QED BY <1>0, <1>1, <2>1, <2>3 DEF Refill, TypeOK, pageVars, accountVars
<1>3. CASE \E u \in upstreams : RecoveryTimeout(u)
  <2>1. PICK u \in upstreams : RecoveryTimeout(u) BY <1>3
  <2>2. breaker \in [upstreams -> Breakers] /\ breaker[u] \in Breakers
    BY <1>0 DEF TypeOK
  <2>3. breaker' = [breaker EXCEPT ![u] = [breaker[u] EXCEPT !.rested = TRUE]]
    BY <2>1 DEF RecoveryTimeout
  <2>4. /\ [breaker[u] EXCEPT !.rested = TRUE] \in Breakers
        /\ [breaker[u] EXCEPT !.rested = TRUE].state = "OPEN"
    BY <2>1, <2>2 DEF Breakers, RecoveryTimeout
  <2>5. breaker' \in [upstreams -> Breakers] /\ breaker'[u].state = "OPEN"
        /\ \A v \in upstreams \ {u} : breaker'[v] = breaker[v]
    BY <2>2, <2>3, <2>4
  <2>6. \A v : inFlight(v)' = inFlight(v) BY <2>1 DEF inFlight, RecoveryTimeout
  <2>7. inFlight(u) = {} BY <2>1 DEF RecoveryTimeout
  <2>8. \A v \in upstreams : BelowThresholds(breaker'[v]) /\ CountsTrials(v)'
    BY <2>5, <2>6, <2>7 DEF PathInv, BelowThresholds, CountsTrials
  <2>9. TypeOK' /\ RefreshRuns'
    BY <1>0, <2>1, <2>5 DEF TypeOK, RefreshRuns, RecoveryTimeout, pageVars, accountVars
  <2> QED BY <2>8, <2>9 DEF PathInv, upstreams
<1>4. CASE Navigate \/ AccessTokenExpires \/ SessionEnds
  BY <1>0, <1>1, <1>4 DEF Navigate, AccessTokenExpires, SessionEnds, TypeOK, pageVars, accountVars
<1>5. CASE UNCHANGED vars
  BY <1>0, <1>1, <1>5 DEF vars, TypeOK, pageVars, accountVars
<1> QED BY <1>2, <1>3, <1>4, <1>5, SendKeeps, EnterKeeps, ProxyStepKeeps, StartRefreshKeeps,
           ReceiveKeeps, RefreshEndsKeeps DEF Next, PageStep

LEMMA InitPath ==
  ASSUME Init
  PROVE  PathInv
<1>1. \A r \in Calls : req[r] = Idle BY DEF Init
<1>2. req \in ReqType BY IdleIsCall DEF Init, ReqType, Rec
<1>3. \A u \in upstreams : breaker[u] = NewBreaker BY DEF Init, registry
<1>4. breaker \in [upstreams -> Breakers] BY NewBreakerFits DEF Init, registry
<1>5. bucket \in [{"user", "ip"} -> 0..DefaultCapacity]
  BY PathAssumption DEF Init
<1>6. TypeOK BY <1>2, <1>4, <1>5 DEF Init, TypeOK, ReqType
<1>7. RefreshRuns BY <1>1, IdleIsCall, PathAssumption DEF Init, RefreshRuns, Calls
<1>8. \A u \in upstreams : BelowThresholds(breaker[u]) /\ CountsTrials(u)
  BY <1>3, NewBreakerFits DEF CountsTrials, NewBreaker
<1> QED BY <1>6, <1>7, <1>8 DEF PathInv

LEMMA PathAlways == Spec => []PathInv
BY InitPath, NextKeeps, PTL DEF Spec

(* The page, the buckets and the breakers keep their types.                *)
THEOREM PathTypes == Spec => []TypeOK
<1>1. PathInv => TypeOK BY DEF PathInv
<1> QED BY <1>1, PathAlways, PTL

(* The page never has two refreshes under way, and whoever waits waits for *)
(* one that runs, for any number of requests that are refused at once      *)
(* (api-client.ts: refreshPromise ??= ..., and its reset at the end).      *)
THEOREM OneRefreshAtATime == Spec => []RefreshIsShared
<1>1. PathInv => RefreshIsShared
  <2> SUFFICES ASSUME PathInv PROVE RefreshIsShared OBVIOUS
  <2> DEFINE refreshing == {f \in Refreshes : req[f].at # "idle"}
  <2>1. RefreshRuns /\ refreshPromise \in Refreshes \cup {None} BY DEF PathInv, TypeOK
  <2>2. refreshing = {} \/ refreshing = {refreshPromise} BY <2>1 DEF RefreshRuns
  <2>3. Cardinality(refreshing) <= 1
    <3>1. Cardinality({}) = 0 /\ Cardinality({refreshPromise}) = 1 BY FS_EmptySet, FS_Singleton
    <3> HIDE DEF refreshing
    <3> QED BY <2>2, <3>1
  <2>4. (\E r \in Requests : req[r].at = "waiting") =>
          refreshPromise # None /\ req[refreshPromise].at # "idle"
    BY <2>1 DEF RefreshRuns, Calls
  <2> QED BY <2>3, <2>4 DEF RefreshIsShared
<1> QED BY <1>1, PathAlways, PTL

(* A half-open circuit counts every call it lets through and lets through  *)
(* no more than halfOpenMaxTrials at a time, for any thresholds, calls     *)
(* and services (circuitBreaker.ts: execute, handleSuccess, handleFailure, *)
(* transitionTo).                                                          *)
THEOREM TrialsAreCounted == Spec => []TrialsBounded
<1>1. PathInv => TrialsBounded
  <2> SUFFICES ASSUME PathInv, NEW u \in upstreams, breaker[u].state = "HALF_OPEN"
               PROVE  /\ Cardinality(inFlight(u)) = breaker[u].activeTrialsCount
                      /\ breaker[u].activeTrialsCount <= HalfOpenMaxTrials
    BY DEF TrialsBounded
  <2>1. breaker[u] \in Breakers BY DEF PathInv, TypeOK
  <2> QED BY <2>1, BreakerOptions DEF PathInv, CountsTrials, Breakers, ValidOptions
<1> QED BY <1>1, PathAlways, PTL

-----------------------------------------------------------------------------
(* The life of a process.                                                  *)

(* A bootstrap that failed or hangs, and a shutdown one step of which did. *)
failedBoots == {"failed", "failedAfter", "stuck"}
slipped == hadError \/ down = "hung"
(* Where the shutdown stands once the HTTP server is closed. *)
stepsBehind == {"after", "telemetry", "exit"}

(* The stop and start steps of service s: its gRPC server and its          *)
(* container.                                                              *)
Stops(s) == server[s].grpc \o container[s].stop
Starts(s) == container[s].start \o server[s].grpc

(* Bootstrap and shutdown.  The shutdown begins only in a process that has *)
(* its shutdown context or whose bootstrap failed, and with code 0 only in *)
(* the first; only a connect that was given up leaves something to come up *)
(* late; workers start only between listening and the end of the           *)
(* bootstrap.                                                              *)
StageInv ==
  /\ boot \in {"connect", "build"} => down = "no"
  /\ down = "no" => ~hadError /\ ~wasReady
  /\ down # "no" => context \/ boot = "failed"
  /\ down # "no" /\ code = 0 => context
  /\ boot # "failed" => late = {}
  /\ boot \notin {"after", "failedAfter", "stuck"} => starting = {}
  /\ wasReady => boot = "ready"
  /\ request => http \in {"listening", "closing"}
  /\ exit \in {"0", "1"} => down = "exit"
  /\ exit = "0" => ~hadError /\ code = 0

(* Each list of steps is worked off within its length, and a start that is *)
(* awaited is one of the list.                                             *)
StepInv ==
  /\ boot = "connect" => at <= Len(server[svc].connect)
  /\ boot = "after" => at <= Len(Starts(svc)) + 1
  /\ boot = "after" /\ starting # {} => at <= Len(Starts(svc))
  /\ down = "before" => sat <= Len(Stops(svc)) + 1
  /\ down = "after" => sat <= Len(cleanup) + 1

(* A failed bootstrap and a shutdown in which a step failed each took a    *)
(* fault of its own.                                                       *)
FaultInv ==
  /\ boot \in failedBoots \/ slipped => faults > 0
  /\ boot \in failedBoots /\ slipped => faults > 1

(* The connections server.ts of service s makes before it serves. *)
Connects(s) == {server[s].connect[i] : i \in 1..Len(server[s].connect)}

(* Nothing is open but what the bootstrap connected, the channels of the   *)
(* container and what came up late.  While nothing has failed, what was    *)
(* connected stays open until the HTTP server is closed.                   *)
OpenInv ==
  /\ open \subseteq Connects(svc) \cup channelsOf(svc) \cup late
  /\ boot \in {"connect", "build", "failed"} =>
       open \subseteq Connects(svc) \cup late
  /\ faults = 0 /\ down \in {"no", "before", "http"} =>
       \A i \in 1..Len(server[svc].connect) :
         boot # "connect" \/ i < at => server[svc].connect[i] \in open

(* Stop step i is behind; so far no step of the shutdown has failed. *)
Stopped(i) == down # "before" \/ i < sat
inOrder == down \notin {"no", "hung"} /\ ~hadError

(* What a stop step that is behind has stopped stays stopped: no channel   *)
(* it closed is open, and, as no worker starts after the bootstrap was     *)
(* complete, none that it stopped is at work.  The HTTP server is closed   *)
(* when the connections go.                                                *)
StopInv ==
  /\ inOrder /\ context =>
       \A i \in 1..Len(Stops(svc)) : Stopped(i) => open \cap Stops(svc)[i] = {}
  /\ inOrder /\ wasReady /\ (svc # "search" \/ faults = 0) =>
       \A i \in 1..Len(Stops(svc)) : Stopped(i) => running \cap Stops(svc)[i] = {}
  /\ faults = 0 /\ wasReady /\ down \in stepsBehind => http \in {"down", "closed"}

(* What a step of the cleanup that is behind has disconnected stays so,    *)
(* unless it came up late.                                                 *)
CloseInv ==
  down \in stepsBehind /\ (IF context THEN ~hadError ELSE faults = 1) =>
    \A i \in 1..Len(cleanup) : down # "after" \/ i < sat => cleanup[i] \notin open \ late

ProcessInv == ProcessTypeOK /\ StageInv /\ StepInv /\ FaultInv /\ OpenInv /\ StopInv /\ CloseInv

(* The lists of steps are short: positions in them, and the one behind the *)
(* last, are in 1..6.                                                      *)
Short(steps) == Len(steps) \in Nat /\ Len(steps) <= 5

(* The wiring of service s.  What it connects to, both lists of the        *)
(* cleanup disconnect, and what its workers and routes use is connected    *)
(* before it serves.                                                       *)
ConnectionsWired(s) ==
  LET connects == server[s].connect
      close == server[s].close
      fallback == server[s].fallback
  IN  /\ Short(connects) /\ Short(close) /\ Short(fallback) /\ 1 <= Len(connects)
      /\ \A i \in 1..Len(connects) :
           /\ connects[i] \in Connections
           /\ \E j \in 1..Len(close) : close[j] = connects[i]
           /\ \E j \in 1..Len(fallback) : fallback[j] = connects[i]
      /\ \A w \in DOMAIN uses[s] : \A d \in uses[s][w] \cap Connections :
           \E i \in 1..Len(connects) : connects[i] = d

(* Each server.ts, checked against its connections and its workers. *)
LEMMA ConnectionsAreWired == \A s \in Services : ConnectionsWired(s)
<1>1. ConnectionsWired("booking")
  <2>1. /\ server["booking"].connect = <<"prisma", "redis", "kafka">>
        /\ server["booking"].close = <<"inventoryChannel", "paymentChannel", "kafka", "redis", "prisma">>
        /\ server["booking"].fallback = <<"inventoryChannel", "paymentChannel", "kafka", "redis", "prisma">>
    BY DEF server, bookingServer, Database, DatabaseClosed, inventoryClient, paymentClient
  <2>2. \A w \in DOMAIN uses["booking"] :
        uses["booking"][w] \cap Connections \subseteq {"prisma", "redis", "kafka"}
    BY DEF uses, bookingUses, Connections, Database, DatabaseClosed, inventoryClient,
        paymentClient
  <2> QED BY <2>1, <2>2 DEF ConnectionsWired, Connections, Short
<1>2. ConnectionsWired("inventory")
  <2>1. /\ server["inventory"].connect = <<"prisma", "redis", "kafka">>
        /\ server["inventory"].close = <<"kafka", "redis", "prisma">>
        /\ server["inventory"].fallback = <<"kafka", "redis", "prisma">>
    BY DEF server, inventoryServer, Database, DatabaseClosed
  <2>2. \A w \in DOMAIN uses["inventory"] :
        uses["inventory"][w] \cap Connections \subseteq {"prisma", "redis", "kafka"}
    BY DEF uses, inventoryUses, Connections
  <2> QED BY <2>1, <2>2 DEF ConnectionsWired, Connections, Short
<1>3. ConnectionsWired("payment")
  <2>1. /\ server["payment"].connect = <<"prisma", "redis", "kafka">>
        /\ server["payment"].close = <<"kafka", "redis", "prisma">>
        /\ server["payment"].fallback = <<"kafka", "redis", "prisma">>
    BY DEF server, paymentServer, Database, DatabaseClosed
  <2>2. \A w \in DOMAIN uses["payment"] :
        uses["payment"][w] \cap Connections \subseteq {"prisma", "redis", "kafka"}
    BY DEF uses, paymentUses, Connections
  <2> QED BY <2>1, <2>2 DEF ConnectionsWired, Connections, Short
<1>4. ConnectionsWired("user")
  <2>1. /\ server["user"].connect = <<"prisma", "redis", "kafka">>
        /\ server["user"].close = <<"kafka", "redis", "prisma">>
        /\ server["user"].fallback = <<"kafka", "redis", "prisma">>
    BY DEF server, userServer, Database, DatabaseClosed
  <2>2. \A w \in DOMAIN uses["user"] :
        uses["user"][w] \cap Connections \subseteq {"prisma", "redis", "kafka"}
    BY DEF uses, userUses, Connections
  <2> QED BY <2>1, <2>2 DEF ConnectionsWired, Connections, Short
<1>5. ConnectionsWired("admin")
  <2>1. /\ server["admin"].connect = <<"prisma", "kafka">>
        /\ server["admin"].close = <<"kafka", "prisma">>
        /\ server["admin"].fallback = <<"kafka", "prisma">>
    BY DEF server, adminServer
  <2>2. \A w \in DOMAIN uses["admin"] :
        uses["admin"][w] \cap Connections \subseteq {"prisma", "kafka"}
    BY DEF uses, adminUses, Connections
  <2> QED BY <2>1, <2>2 DEF ConnectionsWired, Connections, Short
<1>6. ConnectionsWired("search")
  <2>1. /\ server["search"].connect = <<"elasticsearch", "redis", "kafka">>
        /\ server["search"].close = <<"kafka", "redis", "elasticsearch">>
        /\ server["search"].fallback = <<"kafka", "redis", "elasticsearch">>
    BY DEF server, searchServer, searchClient
  <2>2. \A w \in DOMAIN uses["search"] :
        uses["search"][w] \cap Connections \subseteq {"elasticsearch", "redis", "kafka"}
    BY DEF uses, searchUses, Connections, searchClient
  <2> QED BY <2>1, <2>2 DEF ConnectionsWired, Connections, Short
<1>7. ConnectionsWired("notification")
  <2>1. /\ server["notification"].connect = <<"redis", "kafka">>
        /\ server["notification"].close = <<"kafka", "redis">>
        /\ server["notification"].fallback = <<"kafka", "redis">>
    BY DEF server, notificationServer
  <2>2. \A w \in DOMAIN uses["notification"] :
        uses["notification"][w] \cap Connections \subseteq {"redis", "kafka"}
    BY DEF uses, notificationUses, Connections
  <2> QED BY <2>1, <2>2 DEF ConnectionsWired, Connections, Short
<1>8. ConnectionsWired("gateway")
  <2>1. /\ server["gateway"].connect = <<"redis">>
        /\ server["gateway"].close = <<"redis">>
        /\ server["gateway"].fallback = <<"redis">>
    BY DEF server, gatewayServer
  <2>2. \A w \in DOMAIN uses["gateway"] : uses["gateway"][w] \cap Connections \subseteq {"redis"}
    BY DEF uses, gatewayUses, Connections
  <2> QED BY <2>1, <2>2 DEF ConnectionsWired, Connections, Short
<1> QED BY <1>1, <1>2, <1>3, <1>4, <1>5, <1>6, <1>7, <1>8 DEF Services

(* Every worker the container or the gRPC server may run has a stop step,  *)
(* no stop step touches a connection, and every channel is closed by a     *)
(* stop step or by the cleanup.                                            *)
WorkersWired(s) ==
  LET starts == Starts(s)
      stops == Stops(s)
      close == server[s].close
  IN  /\ Short(starts) /\ Short(stops)
      /\ \A i \in 1..Len(starts) : starts[i] \subseteq workersOf(s)
      /\ \A i \in 1..Len(stops) : stops[i] \cap Connections = {}
      /\ \A w \in workersOf(s) : \E i \in 1..Len(stops) : w \in stops[i]
      /\ \A c \in channelsOf(s) :
           \/ \E i \in 1..Len(stops) : c \in stops[i]
           \/ \E j \in 1..Len(close) : close[j] = c
      /\ s = "search" => stops[1] \cap (Connections \cup Channels) = {}

(* Sequences: what the wiring needs of their lengths and of joined lists. *)
LEMMA FewSteps ==
  ASSUME NEW steps, NEW n \in 0..5, Len(steps) = n
  PROVE  Short(steps)
BY DEF Short

LEMMA Joined ==
  ASSUME NEW S, NEW a \in Seq(S), NEW b \in Seq(S)
  PROVE  /\ Len(a \o b) = Len(a) + Len(b) /\ Len(a) \in Nat /\ Len(b) \in Nat
         /\ \A i \in 1..Len(a) : (a \o b)[i] = a[i]
         /\ \A i \in 1..Len(b) : (a \o b)[Len(a) + i] = b[i]
OBVIOUS

LEMMA JoinedToNone ==
  ASSUME NEW S, NEW a \in Seq(S)
  PROVE  <<>> \o a = a /\ a \o <<>> = a
OBVIOUS

(* Each container, its start and stop steps against its workers. *)
LEMMA WorkersAreWired == \A s \in Services : WorkersWired(s)
<1>1. WorkersWired("booking")
  <2>1. /\ server["booking"].grpc = <<>>
        /\ container["booking"].start = <<{"outbox"}, {"statusBroadcast"}, {"seatsResult"}, {"paymentResult"}>>
        /\ container["booking"].stop = <<{"statusBroadcast"}, {"seatsResult"}, {"paymentResult"}, {"outbox"}>>
        /\ server["booking"].close = <<"inventoryChannel", "paymentChannel", "kafka", "redis", "prisma">>
    BY DEF server, container, bookingServer, bookingContainer, inventoryClient, paymentClient,
        DatabaseClosed
  <2>2. /\ container["booking"].start \in Seq({{"outbox"}, {"statusBroadcast"}, {"seatsResult"}, {"paymentResult"}})
        /\ container["booking"].stop \in Seq({{"outbox"}, {"statusBroadcast"}, {"seatsResult"}, {"paymentResult"}})
    BY <2>1
  <2>3. /\ Starts("booking") = <<{"outbox"}, {"statusBroadcast"}, {"seatsResult"}, {"paymentResult"}>>
        /\ Stops("booking") = <<{"statusBroadcast"}, {"seatsResult"}, {"paymentResult"}, {"outbox"}>>
    BY <2>1, <2>2, JoinedToNone DEF Starts, Stops
  <2>4. workersOf("booking") = {"outbox", "statusBroadcast", "seatsResult", "paymentResult"}
    BY DEF workersOf, uses, bookingUses
  <2>5. \A w \in DOMAIN uses["booking"] :
        uses["booking"][w] \cap Channels \subseteq {"inventoryChannel", "paymentChannel"}
    BY DEF uses, bookingUses, Channels, inventoryClient, paymentClient
  <2>6. channelsOf("booking") \subseteq {"inventoryChannel", "paymentChannel"}
    BY <2>5 DEF channelsOf
  <2>7. Len(Starts("booking")) = 4 /\ Len(Stops("booking")) = 4
    BY <2>3
  <2>8. Short(Starts("booking")) /\ Short(Stops("booking"))
    BY <2>7, FewSteps
  <2>9. \A i \in 1..Len(Starts("booking")) : Starts("booking")[i] \subseteq workersOf("booking")
    BY <2>3, <2>4, <2>7
  <2>10. \A i \in 1..Len(Stops("booking")) : Stops("booking")[i] \cap Connections = {}
    BY <2>3, <2>7 DEF Connections
  <2>11. \A w \in workersOf("booking") : \E i \in 1..Len(Stops("booking")) :
        w \in Stops("booking")[i]
    BY <2>3, <2>4, <2>7
  <2>12. \A c \in channelsOf("booking") :
           \/ \E i \in 1..Len(Stops("booking")) : c \in Stops("booking")[i]
           \/ \E j \in 1..Len(server["booking"].close) : server["booking"].close[j] = c
    BY <2>1, <2>3, <2>6, <2>7
  <2>13. "booking" = "search" => Stops("booking")[1] \cap (Connections \cup Channels) = {}
    BY <2>3 DEF Connections, Channels
  <2> QED BY <2>8, <2>9, <2>10, <2>11, <2>12, <2>13 DEF WorkersWired
<1>2. WorkersWired("inventory")
  <2>1. /\ server["inventory"].grpc = <<{"grpcServer"}>>
        /\ container["inventory"].start = <<{"outbox"}, inventoryConsumers>>
        /\ container["inventory"].stop = <<{"outbox"} \cup inventoryConsumers>>
    BY DEF server, container, inventoryServer, inventoryContainer, inventoryGrpc
  <2>2. /\ server["inventory"].grpc \in Seq({{"grpcServer"}, {"outbox"}, inventoryConsumers, {"outbox"} \cup inventoryConsumers})
        /\ container["inventory"].start \in Seq({{"grpcServer"}, {"outbox"}, inventoryConsumers, {"outbox"} \cup inventoryConsumers})
        /\ container["inventory"].stop \in Seq({{"grpcServer"}, {"outbox"}, inventoryConsumers, {"outbox"} \cup inventoryConsumers})
    BY <2>1
  <2>3. /\ Len(Starts("inventory")) = 3 /\ Starts("inventory")[1] = {"outbox"}
        /\ Starts("inventory")[2] = inventoryConsumers
        /\ Starts("inventory")[3] = {"grpcServer"}
        /\ Len(Stops("inventory")) = 2 /\ Stops("inventory")[1] = {"grpcServer"}
        /\ Stops("inventory")[2] = {"outbox"} \cup inventoryConsumers
    BY <2>1, <2>2, Joined DEF Starts, Stops
  <2>4. workersOf("inventory") = {"outbox", "grpcServer", "scheduleCreated",
                                  "scheduleStatusChanged", "holdSeats", "bookingStatusChanged"}
    BY DEF workersOf, uses, inventoryUses
  <2>5. \A w \in DOMAIN uses["inventory"] : uses["inventory"][w] \cap Channels \subseteq {}
    BY DEF uses, inventoryUses, Channels
  <2>6. channelsOf("inventory") \subseteq {}
    BY <2>5 DEF channelsOf
  <2>7. Len(Starts("inventory")) = 3 /\ Len(Stops("inventory")) = 2
    BY <2>3
  <2>8. Short(Starts("inventory")) /\ Short(Stops("inventory"))
    BY <2>7, FewSteps
  <2> QED BY <2>1, <2>3, <2>4, <2>6, <2>7, <2>8 DEF WorkersWired, Connections, Channels,
      inventoryConsumers
<1>3. WorkersWired("payment")
  <2>1. /\ server["payment"].grpc = <<{"grpcServer"}>>
        /\ container["payment"].start = <<{"outbox"}>>
        /\ container["payment"].stop = <<{"outbox"}>>
    BY DEF server, container, paymentServer, paymentContainer, paymentGrpc
  <2>2. /\ server["payment"].grpc \in Seq({{"grpcServer"}, {"outbox"}})
        /\ container["payment"].start \in Seq({{"grpcServer"}, {"outbox"}})
        /\ container["payment"].stop \in Seq({{"grpcServer"}, {"outbox"}})
    BY <2>1
  <2>3. /\ Len(Starts("payment")) = 2 /\ Starts("payment")[1] = {"outbox"}
        /\ Starts("payment")[2] = {"grpcServer"}
        /\ Len(Stops("payment")) = 2 /\ Stops("payment")[1] = {"grpcServer"}
        /\ Stops("payment")[2] = {"outbox"}
    BY <2>1, <2>2, Joined DEF Starts, Stops
  <2>4. workersOf("payment") = {"outbox", "grpcServer"}
    BY DEF workersOf, uses, paymentUses
  <2>5. \A w \in DOMAIN uses["payment"] : uses["payment"][w] \cap Channels \subseteq {}
    BY DEF uses, paymentUses, Channels
  <2>6. channelsOf("payment") \subseteq {}
    BY <2>5 DEF channelsOf
  <2>7. Len(Starts("payment")) = 2 /\ Len(Stops("payment")) = 2
    BY <2>3
  <2>8. Short(Starts("payment")) /\ Short(Stops("payment"))
    BY <2>7, FewSteps
  <2> QED BY <2>1, <2>3, <2>4, <2>6, <2>7, <2>8 DEF WorkersWired, Connections, Channels
<1>4. WorkersWired("user")
  <2>1. /\ server["user"].grpc = <<>>
        /\ container["user"].start = <<>>
        /\ container["user"].stop = <<>>
    BY DEF server, container, userServer, NoContainer
  <2>2. /\ container["user"].start \in Seq({{}})
        /\ container["user"].stop \in Seq({{}})
    BY <2>1
  <2>3. Starts("user") = <<>> /\ Stops("user") = <<>>
    BY <2>1, <2>2, JoinedToNone DEF Starts, Stops
  <2>4. workersOf("user") = {}
    BY DEF workersOf, uses, userUses
  <2>5. \A w \in DOMAIN uses["user"] : uses["user"][w] \cap Channels \subseteq {}
    BY DEF uses, userUses, Channels
  <2>6. channelsOf("user") \subseteq {}
    BY <2>5 DEF channelsOf
  <2>7. Len(Starts("user")) = 0 /\ Len(Stops("user")) = 0
    BY <2>3
  <2>8. Short(Starts("user")) /\ Short(Stops("user"))
    BY <2>7, FewSteps
  <2> QED BY <2>1, <2>3, <2>4, <2>6, <2>7, <2>8 DEF WorkersWired, Connections, Channels
<1>5. WorkersWired("admin")
  <2>1. /\ server["admin"].grpc = <<>>
        /\ container["admin"].start = <<{"outbox"}>>
        /\ container["admin"].stop = <<{"outbox"}>>
    BY DEF server, container, adminServer, adminContainer
  <2>2. /\ container["admin"].start \in Seq({{"outbox"}})
        /\ container["admin"].stop \in Seq({{"outbox"}})
    BY <2>1
  <2>3. Starts("admin") = <<{"outbox"}>> /\ Stops("admin") = <<{"outbox"}>>
    BY <2>1, <2>2, JoinedToNone DEF Starts, Stops
  <2>4. workersOf("admin") = {"outbox"}
    BY DEF workersOf, uses, adminUses
  <2>5. \A w \in DOMAIN uses["admin"] : uses["admin"][w] \cap Channels \subseteq {}
    BY DEF uses, adminUses, Channels
  <2>6. channelsOf("admin") \subseteq {}
    BY <2>5 DEF channelsOf
  <2>7. Len(Starts("admin")) = 1 /\ Len(Stops("admin")) = 1
    BY <2>3
  <2>8. Short(Starts("admin")) /\ Short(Stops("admin"))
    BY <2>7, FewSteps
  <2> QED BY <2>1, <2>3, <2>4, <2>6, <2>7, <2>8 DEF WorkersWired, Connections, Channels
<1>6. WorkersWired("search")
  <2>1. /\ server["search"].grpc = <<>>
        /\ container["search"].start = <<ensureStationIndex, ensureTrainIndex, {"station"}, {"schedule"}>>
        /\ container["search"].stop = <<{"station", "schedule"}, {"inventoryChannel"}>>
        /\ server["search"].close = <<"kafka", "redis", "elasticsearch">>
    BY DEF server, container, searchServer, searchContainer, searchClient
  <2>2. /\ container["search"].start \in Seq({{}, {"station"}, {"schedule"}, {"station", "schedule"}, {"inventoryChannel"}})
        /\ container["search"].stop \in Seq({{}, {"station"}, {"schedule"}, {"station", "schedule"}, {"inventoryChannel"}})
    BY <2>1 DEF ensureStationIndex, ensureTrainIndex
  <2>3. /\ Starts("search") = <<ensureStationIndex, ensureTrainIndex, {"station"}, {"schedule"}>>
        /\ Stops("search") = <<{"station", "schedule"}, {"inventoryChannel"}>>
    BY <2>1, <2>2, JoinedToNone DEF Starts, Stops
  <2>4. workersOf("search") = {"station", "schedule"}
    BY DEF workersOf, uses, searchUses
  <2>5. \A w \in DOMAIN uses["search"] :
        uses["search"][w] \cap Channels \subseteq {"inventoryChannel"}
    BY DEF uses, searchUses, Channels, searchClient
  <2>6. channelsOf("search") \subseteq {"inventoryChannel"}
    BY <2>5 DEF channelsOf
  <2>7. Len(Starts("search")) = 4 /\ Len(Stops("search")) = 2
    BY <2>3
  <2>8. Short(Starts("search")) /\ Short(Stops("search"))
    BY <2>7, FewSteps
  <2>9. \A i \in 1..Len(Starts("search")) : Starts("search")[i] \subseteq workersOf("search")
    BY <2>3, <2>4, <2>7 DEF ensureStationIndex, ensureTrainIndex
  <2>10. \A i \in 1..Len(Stops("search")) : Stops("search")[i] \cap Connections = {}
    BY <2>3, <2>7 DEF Connections
  <2>11. \A w \in workersOf("search") : \E i \in 1..Len(Stops("search")) :
        w \in Stops("search")[i]
    BY <2>3, <2>4, <2>7
  <2>12. \A c \in channelsOf("search") :
           \/ \E i \in 1..Len(Stops("search")) : c \in Stops("search")[i]
           \/ \E j \in 1..Len(server["search"].close) : server["search"].close[j] = c
    BY <2>1, <2>3, <2>6, <2>7
  <2>13. "search" = "search" => Stops("search")[1] \cap (Connections \cup Channels) = {}
    BY <2>3 DEF Connections, Channels
  <2> QED BY <2>8, <2>9, <2>10, <2>11, <2>12, <2>13 DEF WorkersWired
<1>7. WorkersWired("notification")
  <2>1. /\ server["notification"].grpc = <<>>
        /\ container["notification"].start = <<{"otp", "welcome"}>>
        /\ container["notification"].stop = <<{"otp", "welcome"}>>
    BY DEF server, container, notificationServer, notificationContainer
  <2>2. /\ container["notification"].start \in Seq({{"otp", "welcome"}})
        /\ container["notification"].stop \in Seq({{"otp", "welcome"}})
    BY <2>1
  <2>3. /\ Starts("notification") = <<{"otp", "welcome"}>>
        /\ Stops("notification") = <<{"otp", "welcome"}>>
    BY <2>1, <2>2, JoinedToNone DEF Starts, Stops
  <2>4. workersOf("notification") = {"otp", "welcome"}
    BY DEF workersOf, uses, notificationUses
  <2>5. \A w \in DOMAIN uses["notification"] : uses["notification"][w] \cap Channels \subseteq {}
    BY DEF uses, notificationUses, Channels
  <2>6. channelsOf("notification") \subseteq {}
    BY <2>5 DEF channelsOf
  <2>7. Len(Starts("notification")) = 1 /\ Len(Stops("notification")) = 1
    BY <2>3
  <2>8. Short(Starts("notification")) /\ Short(Stops("notification"))
    BY <2>7, FewSteps
  <2> QED BY <2>1, <2>3, <2>4, <2>6, <2>7, <2>8 DEF WorkersWired, Connections, Channels
<1>8. WorkersWired("gateway")
  <2>1. /\ server["gateway"].grpc = <<>>
        /\ container["gateway"].start = <<>>
        /\ container["gateway"].stop = <<>>
    BY DEF server, container, gatewayServer, NoContainer
  <2>2. /\ container["gateway"].start \in Seq({{}})
        /\ container["gateway"].stop \in Seq({{}})
    BY <2>1
  <2>3. Starts("gateway") = <<>> /\ Stops("gateway") = <<>>
    BY <2>1, <2>2, JoinedToNone DEF Starts, Stops
  <2>4. workersOf("gateway") = {}
    BY DEF workersOf, uses, gatewayUses
  <2>5. \A w \in DOMAIN uses["gateway"] : uses["gateway"][w] \cap Channels \subseteq {}
    BY DEF uses, gatewayUses, Channels
  <2>6. channelsOf("gateway") \subseteq {}
    BY <2>5 DEF channelsOf
  <2>7. Len(Starts("gateway")) = 0 /\ Len(Stops("gateway")) = 0
    BY <2>3
  <2>8. Short(Starts("gateway")) /\ Short(Stops("gateway"))
    BY <2>7, FewSteps
  <2> QED BY <2>1, <2>3, <2>4, <2>6, <2>7, <2>8 DEF WorkersWired, Connections, Channels
<1> QED BY <1>1, <1>2, <1>3, <1>4, <1>5, <1>6, <1>7, <1>8 DEF Services

-----------------------------------------------------------------------------
(* The wiring as the service of the process has it. *)
ShortSteps ==
  /\ Short(server[svc].connect) /\ Short(server[svc].close) /\ Short(server[svc].fallback)
  /\ Short(Starts(svc)) /\ Short(Stops(svc))
  /\ 1 <= Len(server[svc].connect)
  /\ startSteps = Starts(svc) /\ stopSteps = Stops(svc)

LEMMA Lengths == ASSUME ProcessTypeOK PROVE ShortSteps
<1>1. svc \in Services
  BY DeployedAssumption DEF ProcessTypeOK
<1>2. ConnectionsWired(svc) /\ WorkersWired(svc)
  BY <1>1, ConnectionsAreWired, WorkersAreWired
<1> QED BY <1>2 DEF ShortSteps, ConnectionsWired, WorkersWired, startSteps, stopSteps, Starts,
    Stops

WellWired ==
  /\ \A i \in 1..Len(server[svc].connect) : server[svc].connect[i] \in Connects(svc)
  /\ Connects(svc) \subseteq Connections
  /\ \A d \in Connects(svc) :
       /\ \E j \in 1..Len(server[svc].close) : server[svc].close[j] = d
       /\ \E j \in 1..Len(server[svc].fallback) : server[svc].fallback[j] = d
  /\ \A c \in channelsOf(svc) :
       \/ \E i \in 1..Len(Stops(svc)) : c \in Stops(svc)[i]
       \/ \E j \in 1..Len(server[svc].close) : server[svc].close[j] = c
  /\ channelsOf(svc) \subseteq Channels
  /\ \A i \in 1..Len(Starts(svc)) : Starts(svc)[i] \subseteq workersOf(svc)
  /\ \A i \in 1..Len(Stops(svc)) : Stops(svc)[i] \cap Connections = {}
  /\ \A w \in workersOf(svc) : \E i \in 1..Len(Stops(svc)) : w \in Stops(svc)[i]
  /\ svc = "search" => Stops(svc)[1] \cap (Connections \cup Channels) = {}

LEMMA Wired == ASSUME ProcessTypeOK PROVE WellWired
<1>1. svc \in Services
  BY DeployedAssumption DEF ProcessTypeOK
<1>2. ConnectionsWired(svc) /\ WorkersWired(svc)
  BY <1>1, ConnectionsAreWired, WorkersAreWired
<1>3. /\ \A i \in 1..Len(server[svc].connect) : server[svc].connect[i] \in Connects(svc)
      /\ \A d \in Connects(svc) : \E i \in 1..Len(server[svc].connect) :
            d = server[svc].connect[i]
      /\ channelsOf(svc) \subseteq Channels
  BY DEF Connects, channelsOf
<1>4. \A i \in 1..Len(server[svc].connect) :
        /\ server[svc].connect[i] \in Connections
        /\ \E j \in 1..Len(server[svc].close) : server[svc].close[j] = server[svc].connect[i]
        /\ \E j \in 1..Len(server[svc].fallback) : server[svc].fallback[j] = server[svc].connect[i]
  BY <1>2 DEF ConnectionsWired
<1>5. Connects(svc) \subseteq Connections
  BY <1>3, <1>4
<1>6. \A d \in Connects(svc) :
        /\ \E j \in 1..Len(server[svc].close) : server[svc].close[j] = d
        /\ \E j \in 1..Len(server[svc].fallback) : server[svc].fallback[j] = d
  <2> SUFFICES ASSUME NEW d \in Connects(svc)
               PROVE  /\ \E j \in 1..Len(server[svc].close) : server[svc].close[j] = d
                      /\ \E j \in 1..Len(server[svc].fallback) : server[svc].fallback[j] = d
    OBVIOUS
  <2>1. PICK i \in 1..Len(server[svc].connect) : d = server[svc].connect[i]
    BY <1>3
  <2> QED BY <1>4, <2>1
<1> QED BY <1>2, <1>3, <1>5, <1>6 DEF WellWired, WorkersWired

(* The type invariant in two parts: where bootstrap and shutdown stand     *)
(* with what they run and opened, and the rest.                            *)
ProgressTypes ==
  /\ svc \in Deployed
  /\ boot \in {"connect", "build", "listen", "after", "ready", "failed", "failedAfter", "stuck"}
  /\ at \in 1..6 /\ sat \in 1..6
  /\ starting \subseteq workersOf(svc) /\ running \subseteq workersOf(svc)
  /\ open \subseteq Connections \cup Channels
  /\ late \subseteq Connections

OtherTypes ==
  /\ http \in {"down", "listening", "closing", "closed"}
  /\ request \in BOOLEAN /\ hadError \in BOOLEAN /\ wasReady \in BOOLEAN
  /\ down \in {"no", "before", "hung", "http", "after", "telemetry", "exit"}
  /\ code \in {0, 1}
  /\ exit \in {"none", "0", "1", "killed"}
  /\ probe \in [probes[svc] -> {"none", "pending"}]
  /\ readiness \in {"none", "waiting", "failing", "ready", "unhealthy"}
  /\ faults \in 0..MaxFaults

(* One lemma per part of the invariant, one step in it per action. *)
LEMMA ProgressTypesStep ==
  ASSUME ProcessInv, ProcessNext
  PROVE  ProgressTypes'
<1> USE LifecycleBoundsAssumption
<1>0. ProcessTypeOK /\ ShortSteps /\ WellWired
  BY Lengths, Wired DEF ProcessInv
<1>1. CASE requestArrives \/ requestServed \/ readyRequested \/ probeSettles \/ probeTimesOut
  BY <1>0, <1>1
  DEF ProcessInv, ProcessTypeOK, ProgressTypes, requestArrives, alive, bootVars, downVars,
      probeVars, requestServed, readyRequested, probeSettles, Fault, answer, settledProbe,
      probeTimesOut
<1>2. CASE connect
  <2>1. at \in 1..6 /\ at <= Len(server[svc].connect)
    BY <1>2 DEF ProcessInv, ProcessTypeOK, connect
  <2>2. at + 1 \in 1..6
    BY <1>0, <2>1 DEF ShortSteps, Short
  <2>3. at' \in 1..6
    BY <1>2, <2>1, <2>2 DEF connect
  <2>4. server[svc].connect[at] \in Connections
    BY <1>0, <2>1 DEF ShortSteps, Short, WellWired
  <2>5. open' \subseteq Connections \cup Channels
    BY <1>2, <2>4 DEF ProcessInv, ProcessTypeOK, connect
  <2> QED BY <1>2, <2>3, <2>5 DEF ProcessInv, ProcessTypeOK, ProgressTypes, connect, downVars
<1>3. CASE connectFails
  <2>1. at \in 1..6 /\ boot = "connect" /\ at <= Len(server[svc].connect)
    BY <1>3 DEF ProcessInv, ProcessTypeOK, StepInv, connectFails
  <2>2. server[svc].connect[at] \in Connections
    BY <1>0, <2>1 DEF ShortSteps, Short, WellWired
  <2>3. late' \subseteq Connections
    BY <1>3, <2>2 DEF ProcessInv, ProcessTypeOK, connectFails
  <2> QED BY <1>3, <2>3 DEF ProcessInv, ProcessTypeOK, ProgressTypes, connectFails, Fault,
      downVars
<1>4. CASE lateConnect
  BY <1>0, <1>4
  DEF ProcessInv, ProcessTypeOK, ProgressTypes, WellWired, lateConnect, alive, bootVars,
      downVars, probeVars
<1>5. CASE buildContainer
  BY <1>0, <1>5
  DEF ProcessInv, ProcessTypeOK, ProgressTypes, WellWired, buildContainer, alive, downVars,
      probeVars
<1>6. CASE listen \/ bootDone \/ startFails \/ startHangs
  BY <1>0, <1>6
  DEF ProcessInv, ProcessTypeOK, ProgressTypes, listen, alive, downVars, probeVars, bootDone,
      startFails, Fault, startHangs
<1>7. CASE startStep
  <2>1. at \in 1..6 /\ at <= Len(startSteps)
    BY <1>7 DEF ProcessInv, ProcessTypeOK, startStep
  <2>2. at + 1 \in 1..6 /\ at \in 1..Len(Starts(svc))
    BY <1>0, <2>1 DEF ShortSteps, Short
  <2>3. startSteps[at] \subseteq workersOf(svc)
    BY <1>0, <2>2 DEF ShortSteps, Short, WellWired
  <2>4. at' \in 1..6 /\ starting' \subseteq workersOf(svc)
    BY <1>7, <2>1, <2>2, <2>3 DEF startStep
  <2> QED BY <1>7, <2>4 DEF ProcessInv, ProcessTypeOK, ProgressTypes, startStep, downVars
<1>8. CASE workerStarted
  <2>1. PICK w \in starting :
          /\ starting' = starting \ {w} /\ running' = running \cup {w}
          /\ at' = IF boot = "after" /\ starting = {w} THEN at + 1 ELSE at
    BY <1>8 DEF workerStarted
  <2>2. at \in 1..6 /\ (boot = "after" => at <= Len(Starts(svc)))
    BY <2>1 DEF ProcessInv, ProcessTypeOK, StepInv
  <2>3. boot = "after" => at + 1 \in 1..6
    BY <1>0, <2>2 DEF ShortSteps, Short
  <2>4. at' \in 1..6
    BY <2>1, <2>2, <2>3
  <2>5. starting' \subseteq workersOf(svc) /\ running' \subseteq workersOf(svc)
    BY <2>1 DEF ProcessInv, ProcessTypeOK
  <2> QED BY <1>8, <2>4, <2>5 DEF ProcessInv, ProcessTypeOK, ProgressTypes, workerStarted,
      downVars
<1>9. CASE bootstrapFailed \/ signal \/ uncaughtException
  BY <1>0, <1>9
  DEF ProcessInv, ProcessTypeOK, ProgressTypes, bootstrapFailed, alive, beginShutdown, bootVars,
      probeVars, signal, context, downVars, uncaughtException, Fault
<1>10. CASE stopStep
  <2>1. sat \in 1..6 /\ sat <= Len(stopSteps)
    BY <1>10 DEF ProcessInv, ProcessTypeOK, stopStep
  <2>2. sat + 1 \in 1..6
    BY <1>0, <2>1 DEF ShortSteps, Short
  <2> QED BY <1>10, <2>2 DEF ProcessInv, ProcessTypeOK, ProgressTypes, stopStep, bootVars
<1>11. CASE beforeDone
  BY <1>0, <1>11
  DEF ProcessInv, ProcessTypeOK, ProgressTypes, beforeDone, alive, context, stepDone, bootVars,
      probeVars
<1>12. CASE stopFails
  BY <1>0, <1>12
  DEF ProcessInv, ProcessTypeOK, ProgressTypes, ShortSteps, Short, StepInv, stopFails, alive,
      context, Fault, stepFailed, stopErrorsLogged, bootVars, probeVars
<1>13. CASE stopHangs
  BY <1>0, <1>13
  DEF ProcessInv, ProcessTypeOK, ProgressTypes, stopHangs, alive, context, Fault, bootVars,
      probeVars
<1>14. CASE shutdownTimesOut
  BY <1>0, <1>14
  DEF ProcessInv, ProcessTypeOK, ProgressTypes, shutdownTimesOut, alive, stepFailed,
      withTimeout, bootVars, probeVars
<1>15. CASE closeHttp \/ closeHttpTimesOut
  BY <1>0, <1>15
  DEF ProcessInv, ProcessTypeOK, ProgressTypes, closeHttp, alive, stepDone, bootVars, probeVars,
      closeHttpTimesOut, Fault, stepFailed
<1>16. CASE disconnectDone \/ shutdownTelemetry \/ processExit
  BY <1>0, <1>16
  DEF ProcessInv, ProcessTypeOK, ProgressTypes, disconnectDone, alive, context, stepDone,
      bootVars, probeVars, shutdownTelemetry, Fault, stepFailed, processExit, downVars
<1>17. CASE disconnect
  <2>1. sat \in 1..6 /\ sat <= Len(cleanup)
    BY <1>17 DEF ProcessInv, ProcessTypeOK, disconnect
  <2>2. sat + 1 \in 1..6
    BY <1>0, <2>1 DEF ShortSteps, Short, cleanup
  <2> QED BY <1>17, <2>2 DEF ProcessInv, ProcessTypeOK, ProgressTypes, disconnect, stepFailed,
      bootVars
<1>18. CASE disconnectFails
  <2>1. sat \in 1..6 /\ sat <= Len(cleanup)
    BY <1>18 DEF ProcessInv, ProcessTypeOK, disconnectFails
  <2>2. sat + 1 \in 1..6
    BY <1>0, <2>1 DEF ShortSteps, Short, cleanup
  <2> QED BY <1>18, <2>2 DEF ProcessInv, ProcessTypeOK, ProgressTypes, disconnectFails,
      stepFailed, bootVars
<1> QED
  BY <1>1, <1>2, <1>3, <1>4, <1>5, <1>6, <1>7, <1>8, <1>9, <1>10, <1>11, <1>12, <1>13, <1>14,
      <1>15, <1>16, <1>17, <1>18
  DEF ProcessNext, Bootstrap, Shutdown, Failure, Traffic

LEMMA OtherTypesStep ==
  ASSUME ProcessInv, ProcessNext
  PROVE  OtherTypes'
<1> USE LifecycleBoundsAssumption
<1>0. ProcessTypeOK /\ ShortSteps /\ WellWired
  BY Lengths, Wired DEF ProcessInv
<1>1. CASE requestArrives
  BY <1>0, <1>1
  DEF ProcessInv, ProcessTypeOK, OtherTypes, requestArrives, alive, bootVars, downVars,
      probeVars
<1>2. CASE requestServed
  BY <1>0, <1>2 DEF ProcessInv, ProcessTypeOK, OtherTypes, requestServed, alive, bootVars,
      downVars, probeVars
<1>3. CASE readyRequested
  BY <1>0, <1>3 DEF ProcessInv, ProcessTypeOK, OtherTypes, readyRequested, alive, bootVars,
      downVars
<1>4. CASE probeSettles
  BY <1>0, <1>4
  DEF ProcessInv, ProcessTypeOK, OtherTypes, probeSettles, alive, Fault, answer, settledProbe,
      bootVars, downVars
<1>5. CASE probeTimesOut
  BY <1>0, <1>5 DEF ProcessInv, ProcessTypeOK, OtherTypes, probeTimesOut, alive, Fault,
      bootVars, downVars
<1>6. CASE connect \/ connectFails \/ lateConnect \/ buildContainer
  BY <1>0, <1>6
  DEF ProcessInv, ProcessTypeOK, OtherTypes, connect, alive, downVars, probeVars, connectFails,
      Fault, lateConnect, bootVars, buildContainer
<1>7. CASE listen \/ startStep \/ workerStarted \/ bootDone \/ startFails \/ startHangs
  BY <1>0, <1>7
  DEF ProcessInv, ProcessTypeOK, OtherTypes, listen, alive, downVars, probeVars, startStep,
      workerStarted, bootDone, startFails, Fault, startHangs
<1>8. CASE bootstrapFailed
  BY <1>0, <1>8
  DEF ProcessInv, ProcessTypeOK, OtherTypes, bootstrapFailed, alive, beginShutdown, bootVars,
      probeVars
<1>9. CASE signal
  <2>1. wasReady' \in BOOLEAN /\ hadError' \in BOOLEAN
    BY <1>9 DEF ProcessInv, ProcessTypeOK, signal, beginShutdown, downVars
  <2>2. /\ down' \in {"no", "before", "hung", "http", "after", "telemetry", "exit"}
        /\ code' \in {0, 1} /\ exit' \in {"none", "0", "1", "killed"}
    BY <1>9 DEF ProcessInv, ProcessTypeOK, signal, beginShutdown, downVars
  <2> QED BY <1>9, <2>1, <2>2 DEF ProcessInv, ProcessTypeOK, OtherTypes, signal, bootVars,
      probeVars
<1>10. CASE uncaughtException
  <2>1. faults' \in 0..MaxFaults
    BY <1>10 DEF ProcessInv, ProcessTypeOK, uncaughtException, Fault
  <2>2. hadError' \in BOOLEAN /\ wasReady' \in BOOLEAN
    BY <1>10 DEF uncaughtException, beginShutdown
  <2> QED BY <1>10, <2>1, <2>2 DEF ProcessInv, ProcessTypeOK, OtherTypes, uncaughtException,
      beginShutdown, bootVars, probeVars
<1>11. CASE stopStep
  BY <1>0, <1>11 DEF ProcessInv, ProcessTypeOK, OtherTypes, stopStep, alive, context,
      bootVars, probeVars
<1>12. CASE beforeDone
  BY <1>0, <1>12
  DEF ProcessInv, ProcessTypeOK, OtherTypes, beforeDone, alive, context, stepDone, bootVars,
      probeVars
<1>13. CASE stopFails
  <2>1. faults' \in 0..MaxFaults
    BY <1>13 DEF ProcessInv, ProcessTypeOK, stopFails, Fault
  <2>2. hadError' \in BOOLEAN
    BY <1>13 DEF ProcessInv, ProcessTypeOK, stopFails, stepFailed
  <2> QED BY <1>13, <2>1, <2>2 DEF ProcessInv, ProcessTypeOK, OtherTypes, stopFails,
      stepFailed, bootVars, probeVars
<1>14. CASE stopHangs
  BY <1>0, <1>14
  DEF ProcessInv, ProcessTypeOK, OtherTypes, stopHangs, alive, context, Fault, bootVars,
      probeVars
<1>15. CASE shutdownTimesOut
  BY <1>0, <1>15
  DEF ProcessInv, ProcessTypeOK, OtherTypes, shutdownTimesOut, alive, stepFailed, withTimeout,
      bootVars, probeVars
<1>16. CASE closeHttp
  BY <1>0, <1>16 DEF ProcessInv, ProcessTypeOK, OtherTypes, closeHttp, alive, stepDone,
      bootVars, probeVars
<1>17. CASE closeHttpTimesOut
  BY <1>0, <1>17
  DEF ProcessInv, ProcessTypeOK, OtherTypes, closeHttpTimesOut, alive, Fault, stepFailed,
      bootVars, probeVars
<1>18. CASE disconnect \/ disconnectDone \/ processExit
  BY <1>0, <1>18
  DEF ProcessInv, ProcessTypeOK, OtherTypes, disconnect, alive, context, bootVars, probeVars,
      disconnectDone, stepDone, processExit, downVars
<1>19. CASE disconnectFails
  <2>1. faults' \in 0..MaxFaults
    BY <1>19 DEF ProcessInv, ProcessTypeOK, disconnectFails, Fault
  <2>2. hadError' \in BOOLEAN
    BY <1>19 DEF ProcessInv, ProcessTypeOK, disconnectFails, stepFailed
  <2> QED BY <1>19, <2>1, <2>2 DEF ProcessInv, ProcessTypeOK, OtherTypes, disconnectFails,
      stepFailed, bootVars, probeVars
<1>20. CASE shutdownTelemetry
  <2>1. faults' \in 0..MaxFaults
    BY <1>20 DEF ProcessInv, ProcessTypeOK, shutdownTelemetry, Fault
  <2>2. hadError' \in BOOLEAN
    BY <1>20 DEF ProcessInv, ProcessTypeOK, shutdownTelemetry, stepFailed, stepDone
  <2> QED BY <1>20, <2>1, <2>2 DEF ProcessInv, ProcessTypeOK, OtherTypes, shutdownTelemetry,
      stepFailed, stepDone, bootVars, probeVars
<1> QED
  BY <1>1, <1>2, <1>3, <1>4, <1>5, <1>6, <1>7, <1>8, <1>9, <1>10, <1>11, <1>12, <1>13, <1>14,
      <1>15, <1>16, <1>17, <1>18, <1>19, <1>20
  DEF ProcessNext, Bootstrap, Shutdown, Failure, Traffic

LEMMA StageStep ==
  ASSUME ProcessInv, ProcessNext
  PROVE  StageInv'
<1> USE LifecycleBoundsAssumption
<1>0. ProcessTypeOK /\ ShortSteps /\ WellWired
  BY Lengths, Wired DEF ProcessInv
<1>1. CASE requestArrives \/ requestServed \/ readyRequested \/ probeSettles \/ probeTimesOut
  BY <1>0, <1>1
  DEF ProcessInv, StageInv, context, ProcessTypeOK, requestArrives, alive, bootVars, downVars,
      probeVars, requestServed, readyRequested, probeSettles, Fault, answer, settledProbe,
      probeTimesOut
<1>2. CASE connect \/ connectFails \/ lateConnect \/ buildContainer
  BY <1>0, <1>2
  DEF ProcessInv, StageInv, context, ProcessTypeOK, connect, alive, downVars, probeVars,
      connectFails, Fault, lateConnect, bootVars, buildContainer
<1>3. CASE listen \/ startStep \/ workerStarted \/ bootDone \/ startFails \/ startHangs
  BY <1>0, <1>3
  DEF ProcessInv, StageInv, context, ProcessTypeOK, listen, alive, downVars, probeVars,
      startStep, workerStarted, bootDone, startFails, Fault, startHangs
<1>4. CASE bootstrapFailed \/ signal \/ uncaughtException
  BY <1>0, <1>4
  DEF ProcessInv, StageInv, context, ProcessTypeOK, bootstrapFailed, alive, beginShutdown,
      bootVars, probeVars, signal, downVars, uncaughtException, Fault
<1>5. CASE stopStep \/ beforeDone \/ stopFails \/ stopHangs \/ shutdownTimesOut
  BY <1>0, <1>5
  DEF ProcessInv, StageInv, context, ProcessTypeOK, stopStep, alive, bootVars, probeVars,
      beforeDone, stepDone, stopFails, Fault, stepFailed, stopErrorsLogged, stopHangs,
      shutdownTimesOut, withTimeout
<1>6. CASE closeHttp \/ closeHttpTimesOut
  BY <1>0, <1>6
  DEF ProcessInv, StageInv, context, ProcessTypeOK, closeHttp, alive, stepDone, bootVars,
      probeVars, closeHttpTimesOut, Fault, stepFailed
<1>7. CASE disconnect \/ disconnectFails \/ disconnectDone \/ shutdownTelemetry \/ processExit
  BY <1>0, <1>7
  DEF ProcessInv, StageInv, context, ProcessTypeOK, disconnect, alive, cleanup, bootVars,
      probeVars, disconnectFails, Fault, stepFailed, disconnectDone, stepDone,
      shutdownTelemetry, processExit, downVars
<1> QED
  BY <1>1, <1>2, <1>3, <1>4, <1>5, <1>6, <1>7
  DEF ProcessNext, Bootstrap, Shutdown, Failure, Traffic

LEMMA StepStep ==
  ASSUME ProcessInv, ProcessNext
  PROVE  StepInv'
<1> USE LifecycleBoundsAssumption
<1>0. ProcessTypeOK /\ ShortSteps /\ WellWired
  BY Lengths, Wired DEF ProcessInv
<1>1. CASE requestArrives \/ requestServed \/ readyRequested \/ probeSettles \/ probeTimesOut
  BY <1>0, <1>1
  DEF ProcessInv, StepInv, StageInv, cleanup, context, ProcessTypeOK, ShortSteps, Short,
      requestArrives, alive, bootVars, downVars, probeVars, requestServed, readyRequested,
      probeSettles, Fault, answer, settledProbe, probeTimesOut
<1>2. CASE connect
  BY <1>0, <1>2
  DEF ProcessInv, StepInv, StageInv, cleanup, context, ProcessTypeOK, ShortSteps, Short,
      connect, alive, downVars, probeVars
<1>3. CASE connectFails
  BY <1>0, <1>3
  DEF ProcessInv, StepInv, StageInv, cleanup, context, ProcessTypeOK, ShortSteps, Short,
      connectFails, alive, Fault, downVars, probeVars
<1>4. CASE lateConnect
  BY <1>0, <1>4
  DEF ProcessInv, StepInv, StageInv, cleanup, context, ProcessTypeOK, ShortSteps, Short,
      lateConnect, alive, bootVars, downVars, probeVars
<1>5. CASE buildContainer
  BY <1>0, <1>5
  DEF ProcessInv, StepInv, StageInv, cleanup, context, ProcessTypeOK, ShortSteps, Short,
      buildContainer, alive, downVars, probeVars
<1>6. CASE listen
  BY <1>0, <1>6
  DEF ProcessInv, StepInv, StageInv, cleanup, context, ProcessTypeOK, ShortSteps, Short, listen,
      alive, downVars, probeVars
<1>7. CASE startStep
  BY <1>0, <1>7
  DEF ProcessInv, StepInv, StageInv, cleanup, context, ProcessTypeOK, ShortSteps, Short,
      startStep, alive, downVars, probeVars
<1>8. CASE workerStarted
  BY <1>0, <1>8
  DEF ProcessInv, StepInv, StageInv, cleanup, context, ProcessTypeOK, ShortSteps, Short,
      workerStarted, alive, downVars, probeVars
<1>9. CASE bootDone
  BY <1>0, <1>9
  DEF ProcessInv, StepInv, StageInv, cleanup, context, ProcessTypeOK, ShortSteps, Short,
      bootDone, alive, downVars, probeVars
<1>10. CASE startFails
  BY <1>0, <1>10
  DEF ProcessInv, StepInv, StageInv, cleanup, context, ProcessTypeOK, ShortSteps, Short,
      startFails, alive, Fault, downVars, probeVars
<1>11. CASE startHangs
  BY <1>0, <1>11
  DEF ProcessInv, StepInv, StageInv, cleanup, context, ProcessTypeOK, ShortSteps, Short,
      startHangs, alive, Fault, downVars, probeVars
<1>12. CASE bootstrapFailed
  BY <1>0, <1>12
  DEF ProcessInv, StepInv, StageInv, cleanup, context, ProcessTypeOK, ShortSteps, Short,
      bootstrapFailed, alive, beginShutdown, bootVars, probeVars
<1>13. CASE signal
  BY <1>0, <1>13
  DEF ProcessInv, StepInv, StageInv, cleanup, context, ProcessTypeOK, ShortSteps, Short, signal,
      alive, beginShutdown, bootVars, downVars, probeVars
<1>14. CASE uncaughtException
  BY <1>0, <1>14
  DEF ProcessInv, StepInv, StageInv, cleanup, context, ProcessTypeOK, ShortSteps, Short,
      uncaughtException, alive, Fault, beginShutdown, probeVars
<1>15. CASE stopStep \/ beforeDone \/ stopFails \/ stopHangs \/ shutdownTimesOut
  BY <1>0, <1>15
  DEF ProcessInv, StepInv, StageInv, cleanup, context, ProcessTypeOK, ShortSteps, Short,
      stopStep, alive, bootVars, probeVars, beforeDone, stepDone, stopFails, Fault, stepFailed,
      stopErrorsLogged, stopHangs, shutdownTimesOut, withTimeout
<1>16. CASE closeHttp \/ closeHttpTimesOut
  BY <1>0, <1>16
  DEF ProcessInv, StepInv, StageInv, cleanup, context, ProcessTypeOK, ShortSteps, Short,
      closeHttp, alive, stepDone, bootVars, probeVars, closeHttpTimesOut, Fault, stepFailed
<1>17. CASE shutdownTelemetry \/ processExit
  BY <1>0, <1>17
  DEF ProcessInv, StepInv, StageInv, cleanup, context, ProcessTypeOK, ShortSteps, Short,
      shutdownTelemetry, alive, Fault, stepFailed, stepDone, bootVars, probeVars, processExit,
      downVars
<1>18. CASE disconnect
  <2>1. sat \in 1..6 /\ sat <= Len(cleanup) /\ Len(cleanup) \in Nat
    BY <1>0, <1>18 DEF disconnect, ProcessTypeOK, cleanup, ShortSteps, Short
  <2>2. sat' <= Len(cleanup) + 1 /\ down' = "after" /\ boot' = boot
    BY <2>1, <1>18 DEF disconnect, bootVars
  <2>3. cleanup' = cleanup
    BY <1>18 DEF disconnect, bootVars, cleanup, context
  <2> QED BY <1>18, <2>2, <2>3 DEF ProcessInv, StepInv, StageInv, context, disconnect, bootVars
<1>19. CASE disconnectFails
  BY <1>0, <1>19
  DEF ProcessInv, StepInv, StageInv, cleanup, context, ProcessTypeOK, ShortSteps, Short,
      disconnectFails, alive, Fault, stepFailed, bootVars, probeVars
<1>20. CASE disconnectDone
  BY <1>0, <1>20
  DEF ProcessInv, StepInv, StageInv, cleanup, context, ProcessTypeOK, ShortSteps, Short,
      disconnectDone, alive, stepDone, bootVars, probeVars
<1> QED
  BY <1>1, <1>2, <1>3, <1>4, <1>5, <1>6, <1>7, <1>8, <1>9, <1>10, <1>11, <1>12, <1>13, <1>14,
      <1>15, <1>16, <1>17, <1>18, <1>19, <1>20
  DEF ProcessNext, Bootstrap, Shutdown, Failure, Traffic

LEMMA FaultStep ==
  ASSUME ProcessInv, ProcessNext
  PROVE  FaultInv'
<1> USE LifecycleBoundsAssumption
<1>0. ProcessTypeOK /\ ShortSteps /\ WellWired
  BY Lengths, Wired DEF ProcessInv
<1>1. CASE requestArrives \/ requestServed \/ readyRequested \/ probeSettles \/ probeTimesOut
  BY <1>0, <1>1
  DEF ProcessInv, FaultInv, failedBoots, slipped, StageInv, ProcessTypeOK, requestArrives,
      alive, bootVars, downVars, probeVars, requestServed, readyRequested, probeSettles, Fault,
      answer, settledProbe, probeTimesOut
<1>2. CASE connect \/ connectFails \/ lateConnect \/ buildContainer
  BY <1>0, <1>2
  DEF ProcessInv, FaultInv, failedBoots, slipped, StageInv, ProcessTypeOK, connect, alive,
      downVars, probeVars, connectFails, Fault, lateConnect, bootVars, buildContainer
<1>3. CASE listen \/ startStep \/ workerStarted \/ bootDone \/ startFails \/ startHangs
  BY <1>0, <1>3
  DEF ProcessInv, FaultInv, failedBoots, slipped, StageInv, ProcessTypeOK, listen, alive,
      downVars, probeVars, startStep, workerStarted, bootDone, startFails, Fault, startHangs
<1>4. CASE bootstrapFailed \/ signal \/ uncaughtException
  BY <1>0, <1>4
  DEF ProcessInv, FaultInv, failedBoots, slipped, StageInv, ProcessTypeOK, bootstrapFailed,
      alive, beginShutdown, bootVars, probeVars, signal, context, downVars, uncaughtException,
      Fault
<1>5. CASE stopStep \/ beforeDone \/ stopFails \/ stopHangs \/ shutdownTimesOut
  BY <1>0, <1>5
  DEF ProcessInv, FaultInv, failedBoots, slipped, StageInv, ProcessTypeOK, stopStep, alive,
      context, bootVars, probeVars, beforeDone, stepDone, stopFails, Fault, stepFailed,
      stopErrorsLogged, stopHangs, shutdownTimesOut, withTimeout
<1>6. CASE closeHttp \/ closeHttpTimesOut
  BY <1>0, <1>6
  DEF ProcessInv, FaultInv, failedBoots, slipped, StageInv, ProcessTypeOK, closeHttp, alive,
      stepDone, bootVars, probeVars, closeHttpTimesOut, Fault, stepFailed
<1>7. CASE disconnect \/ disconnectFails \/ disconnectDone \/ shutdownTelemetry \/ processExit
  BY <1>0, <1>7
  DEF ProcessInv, FaultInv, failedBoots, slipped, StageInv, ProcessTypeOK, disconnect, alive,
      context, cleanup, bootVars, probeVars, disconnectFails, Fault, stepFailed, disconnectDone,
      stepDone, shutdownTelemetry, processExit, downVars
<1> QED
  BY <1>1, <1>2, <1>3, <1>4, <1>5, <1>6, <1>7
  DEF ProcessNext, Bootstrap, Shutdown, Failure, Traffic

LEMMA OpenStep ==
  ASSUME ProcessInv, ProcessNext
  PROVE  OpenInv'
<1> USE LifecycleBoundsAssumption
<1>0. ProcessTypeOK /\ ShortSteps /\ WellWired
  BY Lengths, Wired DEF ProcessInv
<1>1. CASE requestArrives \/ requestServed \/ readyRequested \/ probeSettles \/ probeTimesOut
  BY <1>0, <1>1
  DEF ProcessInv, OpenInv, StageInv, FaultInv, failedBoots, slipped, ProcessTypeOK, ShortSteps,
      Short, WellWired, requestArrives, alive, bootVars, downVars, probeVars, requestServed,
      readyRequested, probeSettles, Fault, answer, settledProbe, probeTimesOut
<1>2. CASE connect
  <2>1. /\ at \in 1..Len(server[svc].connect)
        /\ server[svc].connect[at] \in Connects(svc)
    BY <1>0, <1>2 DEF connect, ProcessTypeOK, ShortSteps, Short, WellWired
  <2>2. open' \subseteq Connects(svc) \cup late
    BY <1>2, <2>1 DEF connect, ProcessInv, OpenInv
  <2>3. ASSUME faults = 0, NEW i \in 1..Len(server[svc].connect),
               boot' # "connect" \/ i < at'
        PROVE  server[svc].connect[i] \in open'
    <3>1. i <= at
      BY <1>0, <1>2, <2>1, <2>3 DEF connect, ProcessTypeOK, ShortSteps, Short
    <3>2. CASE i = at
      BY <1>2, <3>2 DEF connect
    <3>3. CASE i < at
      BY <1>2, <3>3, <2>3 DEF connect, ProcessInv, OpenInv, StageInv
    <3> QED BY <1>0, <2>1, <3>1, <3>2, <3>3 DEF ProcessTypeOK
  <2>4. boot = "connect" /\ svc' = svc /\ late' = late /\ faults' = faults /\ down' = "no"
    BY <1>2 DEF connect, downVars, ProcessInv, StageInv
  <2> QED BY <1>2, <2>2, <2>3, <2>4 DEF OpenInv, Connects, channelsOf
<1>3. CASE connectFails
  BY <1>0, <1>3
  DEF ProcessInv, OpenInv, StageInv, FaultInv, failedBoots, slipped, ProcessTypeOK, ShortSteps,
      Short, WellWired, connectFails, alive, Fault, downVars, probeVars
<1>4. CASE lateConnect
  BY <1>0, <1>4
  DEF ProcessInv, OpenInv, StageInv, FaultInv, failedBoots, slipped, ProcessTypeOK, ShortSteps,
      Short, WellWired, lateConnect, alive, bootVars, downVars, probeVars
<1>5. CASE buildContainer
  BY <1>0, <1>5
  DEF ProcessInv, OpenInv, StageInv, FaultInv, failedBoots, slipped, ProcessTypeOK, ShortSteps,
      Short, WellWired, buildContainer, alive, downVars, probeVars
<1>6. CASE listen
  BY <1>0, <1>6
  DEF ProcessInv, OpenInv, StageInv, FaultInv, failedBoots, slipped, ProcessTypeOK, ShortSteps,
      Short, WellWired, listen, alive, downVars, probeVars
<1>7. CASE startStep
  BY <1>0, <1>7
  DEF ProcessInv, OpenInv, StageInv, FaultInv, failedBoots, slipped, ProcessTypeOK, ShortSteps,
      Short, WellWired, startStep, alive, downVars, probeVars
<1>8. CASE workerStarted
  BY <1>0, <1>8
  DEF ProcessInv, OpenInv, StageInv, FaultInv, failedBoots, slipped, ProcessTypeOK, ShortSteps,
      Short, WellWired, workerStarted, alive, downVars, probeVars
<1>9. CASE bootDone
  BY <1>0, <1>9
  DEF ProcessInv, OpenInv, StageInv, FaultInv, failedBoots, slipped, ProcessTypeOK, ShortSteps,
      Short, WellWired, bootDone, alive, downVars, probeVars
<1>10. CASE startFails
  BY <1>0, <1>10
  DEF ProcessInv, OpenInv, StageInv, FaultInv, failedBoots, slipped, ProcessTypeOK, ShortSteps,
      Short, WellWired, startFails, alive, Fault, downVars, probeVars
<1>11. CASE startHangs
  BY <1>0, <1>11
  DEF ProcessInv, OpenInv, StageInv, FaultInv, failedBoots, slipped, ProcessTypeOK, ShortSteps,
      Short, WellWired, startHangs, alive, Fault, downVars, probeVars
<1>12. CASE bootstrapFailed
  BY <1>0, <1>12
  DEF ProcessInv, OpenInv, StageInv, FaultInv, failedBoots, slipped, ProcessTypeOK, ShortSteps,
      Short, WellWired, bootstrapFailed, alive, beginShutdown, bootVars, probeVars
<1>13. CASE signal
  BY <1>0, <1>13
  DEF ProcessInv, OpenInv, StageInv, FaultInv, failedBoots, slipped, ProcessTypeOK, ShortSteps,
      Short, WellWired, signal, alive, context, beginShutdown, bootVars, downVars, probeVars
<1>14. CASE uncaughtException
  BY <1>0, <1>14
  DEF ProcessInv, OpenInv, StageInv, FaultInv, failedBoots, slipped, ProcessTypeOK, ShortSteps,
      Short, WellWired, uncaughtException, alive, context, Fault, beginShutdown, probeVars
<1>15. CASE stopStep
  BY <1>0, <1>15
  DEF ProcessInv, OpenInv, StageInv, FaultInv, failedBoots, slipped, ProcessTypeOK, ShortSteps,
      Short, WellWired, stopStep, alive, context, bootVars, probeVars
<1>16. CASE beforeDone
  BY <1>0, <1>16
  DEF ProcessInv, OpenInv, StageInv, FaultInv, failedBoots, slipped, ProcessTypeOK, ShortSteps,
      Short, WellWired, beforeDone, alive, context, stepDone, bootVars, probeVars
<1>17. CASE stopFails
  BY <1>0, <1>17
  DEF ProcessInv, OpenInv, StageInv, FaultInv, failedBoots, slipped, ProcessTypeOK, ShortSteps,
      Short, WellWired, stopFails, alive, context, Fault, stepFailed, stopErrorsLogged,
      bootVars, probeVars
<1>18. CASE stopHangs
  BY <1>0, <1>18
  DEF ProcessInv, OpenInv, StageInv, FaultInv, failedBoots, slipped, ProcessTypeOK, ShortSteps,
      Short, WellWired, stopHangs, alive, context, Fault, bootVars, probeVars
<1>19. CASE shutdownTimesOut
  BY <1>0, <1>19
  DEF ProcessInv, OpenInv, StageInv, FaultInv, failedBoots, slipped, ProcessTypeOK, ShortSteps,
      Short, WellWired, shutdownTimesOut, alive, stepFailed, withTimeout, bootVars, probeVars
<1>20. CASE closeHttp \/ closeHttpTimesOut
  BY <1>0, <1>20
  DEF ProcessInv, OpenInv, StageInv, FaultInv, failedBoots, slipped, ProcessTypeOK, ShortSteps,
      Short, WellWired, closeHttp, alive, stepDone, bootVars, probeVars, closeHttpTimesOut,
      Fault, stepFailed
<1>21. CASE disconnect \/ disconnectFails \/ disconnectDone \/ shutdownTelemetry \/ processExit
  BY <1>0, <1>21
  DEF ProcessInv, OpenInv, StageInv, FaultInv, failedBoots, slipped, ProcessTypeOK, ShortSteps,
      Short, WellWired, disconnect, alive, context, cleanup, bootVars, probeVars,
      disconnectFails, Fault, stepFailed, disconnectDone, stepDone, shutdownTelemetry,
      processExit, downVars
<1> QED
  BY <1>1, <1>2, <1>3, <1>4, <1>5, <1>6, <1>7, <1>8, <1>9, <1>10, <1>11, <1>12, <1>13, <1>14,
      <1>15, <1>16, <1>17, <1>18, <1>19, <1>20, <1>21
  DEF ProcessNext, Bootstrap, Shutdown, Failure, Traffic

LEMMA StopStep ==
  ASSUME ProcessInv, ProcessNext
  PROVE  StopInv'
<1> USE LifecycleBoundsAssumption
<1>0. ProcessTypeOK /\ ShortSteps /\ WellWired
  BY Lengths, Wired DEF ProcessInv
<1>1. CASE requestArrives \/ requestServed \/ readyRequested \/ probeSettles \/ probeTimesOut
  BY <1>0, <1>1
  DEF ProcessInv, StopInv, StageInv, FaultInv, failedBoots, slipped, stepsBehind, Stopped,
      inOrder, ProcessTypeOK, context, ShortSteps, Short, WellWired, requestArrives, alive,
      bootVars, downVars, probeVars, requestServed, readyRequested, probeSettles, Fault, answer,
      settledProbe, probeTimesOut
<1>2. CASE connect \/ connectFails \/ lateConnect \/ buildContainer
  BY <1>0, <1>2
  DEF ProcessInv, StopInv, StageInv, FaultInv, failedBoots, slipped, stepsBehind, Stopped,
      inOrder, ProcessTypeOK, context, ShortSteps, Short, WellWired, connect, alive, downVars,
      probeVars, connectFails, Fault, lateConnect, bootVars, buildContainer
<1>3. CASE listen
  BY <1>0, <1>3
  DEF ProcessInv, StopInv, StageInv, FaultInv, failedBoots, slipped, stepsBehind, Stopped,
      inOrder, ProcessTypeOK, context, ShortSteps, Short, WellWired, listen, alive, downVars,
      probeVars
<1>4. CASE startStep
  BY <1>0, <1>4
  DEF ProcessInv, StopInv, StageInv, FaultInv, failedBoots, slipped, stepsBehind, Stopped,
      inOrder, ProcessTypeOK, context, ShortSteps, Short, WellWired, startStep, alive, downVars,
      probeVars
<1>5. CASE workerStarted
  BY <1>0, <1>5
  DEF ProcessInv, StopInv, StageInv, FaultInv, failedBoots, slipped, stepsBehind, Stopped,
      inOrder, ProcessTypeOK, context, ShortSteps, Short, WellWired, workerStarted, alive,
      downVars, probeVars
<1>6. CASE bootDone
  BY <1>0, <1>6
  DEF ProcessInv, StopInv, StageInv, FaultInv, failedBoots, slipped, stepsBehind, Stopped,
      inOrder, ProcessTypeOK, context, ShortSteps, Short, WellWired, bootDone, alive, downVars,
      probeVars
<1>7. CASE startFails
  BY <1>0, <1>7
  DEF ProcessInv, StopInv, StageInv, FaultInv, failedBoots, slipped, stepsBehind, Stopped,
      inOrder, ProcessTypeOK, context, ShortSteps, Short, WellWired, startFails, alive, Fault,
      downVars, probeVars
<1>8. CASE startHangs
  BY <1>0, <1>8
  DEF ProcessInv, StopInv, StageInv, FaultInv, failedBoots, slipped, stepsBehind, Stopped,
      inOrder, ProcessTypeOK, context, ShortSteps, Short, WellWired, startHangs, alive, Fault,
      downVars, probeVars
<1>9. CASE bootstrapFailed \/ signal \/ uncaughtException
  BY <1>0, <1>9
  DEF ProcessInv, StopInv, StageInv, FaultInv, failedBoots, slipped, stepsBehind, Stopped,
      inOrder, ProcessTypeOK, context, ShortSteps, Short, WellWired, bootstrapFailed, alive,
      beginShutdown, bootVars, probeVars, signal, downVars, uncaughtException, Fault
<1>10. CASE stopStep
  <2>1. sat \in 1..6 /\ sat <= Len(Stops(svc)) /\ Len(Stops(svc)) \in Nat
    BY <1>0, <1>10 DEF stopStep, ProcessTypeOK, ShortSteps, Short
  <2>2. /\ down = "before" /\ down' = "before" /\ context /\ context' = context
        /\ svc' = svc /\ sat' = sat + 1
        /\ UNCHANGED <<hadError, wasReady, faults>>
    BY <1>10 DEF stopStep, bootVars, context
  <2>3. /\ open' = open \ Stops(svc)[sat]
        /\ running' = running \ Stops(svc)[sat]
    BY <1>0, <1>10 DEF stopStep, ShortSteps
  <2>4. \A i \in 1..Len(Stops(svc)) : Stopped(i)' => Stopped(i) \/ i = sat
    BY <2>1, <2>2 DEF Stopped
  <2>5. inOrder' = inOrder
    BY <2>2 DEF inOrder
  <2>6. inOrder /\ context =>
          \A i \in 1..Len(Stops(svc)) : Stopped(i)' => open' \cap Stops(svc)[i] = {}
    BY <2>3, <2>4 DEF ProcessInv, StopInv
  <2>7. inOrder /\ wasReady /\ (svc # "search" \/ faults = 0) =>
          \A i \in 1..Len(Stops(svc)) : Stopped(i)' => running' \cap Stops(svc)[i] = {}
    BY <2>3, <2>4 DEF ProcessInv, StopInv
  <2> QED BY <2>2, <2>5, <2>6, <2>7 DEF StopInv, stepsBehind
<1>11. CASE beforeDone
  BY <1>0, <1>11
  DEF ProcessInv, StopInv, StageInv, FaultInv, failedBoots, slipped, stepsBehind, Stopped,
      inOrder, ProcessTypeOK, context, ShortSteps, Short, WellWired, beforeDone, alive,
      stepDone, bootVars, probeVars
<1>12. CASE stopFails
  BY <1>0, <1>12
  DEF ProcessInv, StopInv, StageInv, FaultInv, failedBoots, slipped, stepsBehind, Stopped,
      inOrder, ProcessTypeOK, context, ShortSteps, Short, WellWired, stopFails, alive, Fault,
      stepFailed, stopErrorsLogged, bootVars, probeVars
<1>13. CASE stopHangs
  BY <1>0, <1>13
  DEF ProcessInv, StopInv, StageInv, FaultInv, failedBoots, slipped, stepsBehind, Stopped,
      inOrder, ProcessTypeOK, context, ShortSteps, Short, WellWired, stopHangs, alive, Fault,
      bootVars, probeVars
<1>14. CASE shutdownTimesOut
  BY <1>0, <1>14
  DEF ProcessInv, StopInv, StageInv, FaultInv, failedBoots, slipped, stepsBehind, Stopped,
      inOrder, ProcessTypeOK, context, ShortSteps, Short, WellWired, shutdownTimesOut, alive,
      stepFailed, withTimeout, bootVars, probeVars
<1>15. CASE closeHttp \/ closeHttpTimesOut
  BY <1>0, <1>15
  DEF ProcessInv, StopInv, StageInv, FaultInv, failedBoots, slipped, stepsBehind, Stopped,
      inOrder, ProcessTypeOK, context, ShortSteps, Short, WellWired, closeHttp, alive, stepDone,
      bootVars, probeVars, closeHttpTimesOut, Fault, stepFailed
<1>16. CASE disconnect
  BY <1>0, <1>16
  DEF ProcessInv, StopInv, StageInv, FaultInv, failedBoots, slipped, stepsBehind, Stopped,
      inOrder, ProcessTypeOK, context, ShortSteps, Short, WellWired, disconnect, alive, cleanup,
      bootVars, probeVars
<1>17. CASE disconnectFails
  BY <1>0, <1>17
  DEF ProcessInv, StopInv, StageInv, FaultInv, failedBoots, slipped, stepsBehind, Stopped,
      inOrder, ProcessTypeOK, context, ShortSteps, Short, WellWired, disconnectFails, alive,
      Fault, stepFailed, cleanup, bootVars, probeVars
<1>18. CASE disconnectDone
  BY <1>0, <1>18
  DEF ProcessInv, StopInv, StageInv, FaultInv, failedBoots, slipped, stepsBehind, Stopped,
      inOrder, ProcessTypeOK, context, ShortSteps, Short, WellWired, disconnectDone, alive,
      stepDone, cleanup, bootVars, probeVars
<1>19. CASE shutdownTelemetry
  BY <1>0, <1>19
  DEF ProcessInv, StopInv, StageInv, FaultInv, failedBoots, slipped, stepsBehind, Stopped,
      inOrder, ProcessTypeOK, context, ShortSteps, Short, WellWired, shutdownTelemetry, alive,
      Fault, stepFailed, stepDone, bootVars, probeVars
<1>20. CASE processExit
  BY <1>0, <1>20
  DEF ProcessInv, StopInv, StageInv, FaultInv, failedBoots, slipped, stepsBehind, Stopped,
      inOrder, ProcessTypeOK, context, ShortSteps, Short, WellWired, processExit, alive,
      bootVars, downVars, probeVars
<1> QED
  BY <1>1, <1>2, <1>3, <1>4, <1>5, <1>6, <1>7, <1>8, <1>9, <1>10, <1>11, <1>12, <1>13, <1>14,
      <1>15, <1>16, <1>17, <1>18, <1>19, <1>20
  DEF ProcessNext, Bootstrap, Shutdown, Failure, Traffic

LEMMA CloseStep ==
  ASSUME ProcessInv, ProcessNext
  PROVE  CloseInv'
<1> USE LifecycleBoundsAssumption
<1>0. ProcessTypeOK /\ ShortSteps /\ WellWired
  BY Lengths, Wired DEF ProcessInv
<1>1. CASE requestArrives
  BY <1>0, <1>1
  DEF ProcessInv, CloseInv, StageInv, FaultInv, failedBoots, slipped, stepsBehind, cleanup,
      context, ProcessTypeOK, ShortSteps, Short, WellWired, requestArrives, alive, bootVars,
      downVars, probeVars
<1>2. CASE requestServed
  BY <1>0, <1>2
  DEF ProcessInv, CloseInv, StageInv, FaultInv, failedBoots, slipped, stepsBehind, cleanup,
      context, ProcessTypeOK, ShortSteps, Short, WellWired, requestServed, alive, bootVars,
      downVars, probeVars
<1>3. CASE readyRequested
  BY <1>0, <1>3
  DEF ProcessInv, CloseInv, StageInv, FaultInv, failedBoots, slipped, stepsBehind, cleanup,
      context, ProcessTypeOK, ShortSteps, Short, WellWired, readyRequested, alive, bootVars,
      downVars
<1>4. CASE probeSettles
  <2>1. /\ faults' = faults \/ (faults \in Nat /\ faults' = faults + 1)
        /\ UNCHANGED <<bootVars, open, downVars>>
    BY <1>0, <1>4 DEF probeSettles, Fault, ProcessTypeOK
  <2>2. cleanup' = cleanup /\ (context' <=> context)
    BY <2>1 DEF cleanup, context, bootVars
  <2> QED BY <1>0, <2>1, <2>2 DEF ProcessInv, ProcessTypeOK, CloseInv, StageInv, FaultInv,
      failedBoots, slipped,
             stepsBehind, bootVars, downVars, context
<1>5. CASE probeTimesOut
  BY <1>0, <1>5
  DEF ProcessInv, CloseInv, StageInv, FaultInv, failedBoots, slipped, stepsBehind, cleanup,
      context, ProcessTypeOK, ShortSteps, Short, WellWired, probeTimesOut, alive, Fault,
      bootVars, downVars
<1>6. CASE connect
  BY <1>0, <1>6
  DEF ProcessInv, CloseInv, StageInv, FaultInv, failedBoots, slipped, stepsBehind, cleanup,
      context, ProcessTypeOK, ShortSteps, Short, WellWired, connect, alive, downVars, probeVars
<1>7. CASE connectFails
  BY <1>0, <1>7
  DEF ProcessInv, CloseInv, StageInv, FaultInv, failedBoots, slipped, stepsBehind, cleanup,
      context, ProcessTypeOK, ShortSteps, Short, WellWired, connectFails, alive, Fault,
      downVars, probeVars
<1>8. CASE lateConnect
  BY <1>0, <1>8
  DEF ProcessInv, CloseInv, StageInv, FaultInv, failedBoots, slipped, stepsBehind, cleanup,
      context, ProcessTypeOK, ShortSteps, Short, WellWired, lateConnect, alive, bootVars,
      downVars, probeVars
<1>9. CASE buildContainer
  BY <1>0, <1>9
  DEF ProcessInv, CloseInv, StageInv, FaultInv, failedBoots, slipped, stepsBehind, cleanup,
      context, ProcessTypeOK, ShortSteps, Short, WellWired, buildContainer, alive, downVars,
      probeVars
<1>10. CASE listen
  BY <1>0, <1>10
  DEF ProcessInv, CloseInv, StageInv, FaultInv, failedBoots, slipped, stepsBehind, cleanup,
      context, ProcessTypeOK, ShortSteps, Short, WellWired, listen, alive, downVars, probeVars
<1>11. CASE startStep
  BY <1>0, <1>11
  DEF ProcessInv, CloseInv, StageInv, FaultInv, failedBoots, slipped, stepsBehind, cleanup,
      context, ProcessTypeOK, ShortSteps, Short, WellWired, startStep, alive, downVars,
      probeVars
<1>12. CASE workerStarted
  BY <1>0, <1>12
  DEF ProcessInv, CloseInv, StageInv, FaultInv, failedBoots, slipped, stepsBehind, cleanup,
      context, ProcessTypeOK, ShortSteps, Short, WellWired, workerStarted, alive, downVars,
      probeVars
<1>13. CASE bootDone
  BY <1>0, <1>13
  DEF ProcessInv, CloseInv, StageInv, FaultInv, failedBoots, slipped, stepsBehind, cleanup,
      context, ProcessTypeOK, ShortSteps, Short, WellWired, bootDone, alive, downVars, probeVars
<1>14. CASE startFails
  BY <1>0, <1>14
  DEF ProcessInv, CloseInv, StageInv, FaultInv, failedBoots, slipped, stepsBehind, cleanup,
      context, ProcessTypeOK, ShortSteps, Short, WellWired, startFails, alive, Fault, downVars,
      probeVars
<1>15. CASE startHangs
  BY <1>0, <1>15
  DEF ProcessInv, CloseInv, StageInv, FaultInv, failedBoots, slipped, stepsBehind, cleanup,
      context, ProcessTypeOK, ShortSteps, Short, WellWired, startHangs, alive, Fault, downVars,
      probeVars
<1>16. CASE bootstrapFailed \/ signal \/ uncaughtException
  BY <1>0, <1>16
  DEF ProcessInv, CloseInv, StageInv, FaultInv, failedBoots, slipped, stepsBehind, cleanup,
      context, ProcessTypeOK, ShortSteps, Short, WellWired, bootstrapFailed, alive,
      beginShutdown, bootVars, probeVars, signal, downVars, uncaughtException, Fault
<1>17. CASE stopStep \/ beforeDone \/ stopFails \/ stopHangs \/ shutdownTimesOut
  <2>1. CASE stopStep
    BY <1>0, <2>1
    DEF ProcessInv, CloseInv, StageInv, FaultInv, failedBoots, slipped, stepsBehind, cleanup,
          context, ProcessTypeOK, ShortSteps, Short, WellWired, alive, bootVars, probeVars,
          stopStep
  <2>2. CASE beforeDone
    BY <1>0, <2>2
    DEF ProcessInv, CloseInv, StageInv, FaultInv, failedBoots, slipped, stepsBehind, cleanup,
          context, ProcessTypeOK, ShortSteps, Short, WellWired, alive, bootVars, probeVars,
          beforeDone, stepDone
  <2>3. CASE stopFails
    BY <1>0, <2>3
    DEF ProcessInv, CloseInv, StageInv, FaultInv, failedBoots, slipped, stepsBehind, cleanup,
          context, ProcessTypeOK, ShortSteps, Short, WellWired, alive, bootVars, probeVars,
          stopFails, Fault, stepFailed, stopErrorsLogged
  <2>4. CASE stopHangs
    BY <1>0, <2>4
    DEF ProcessInv, CloseInv, StageInv, FaultInv, failedBoots, slipped, stepsBehind, cleanup,
          context, ProcessTypeOK, ShortSteps, Short, WellWired, alive, bootVars, probeVars,
          stopHangs, Fault
  <2>5. CASE shutdownTimesOut
    BY <1>0, <2>5
    DEF ProcessInv, CloseInv, StageInv, FaultInv, failedBoots, slipped, stepsBehind, cleanup,
          context, ProcessTypeOK, ShortSteps, Short, WellWired, alive, bootVars, probeVars,
          shutdownTimesOut, withTimeout, Fault, stopErrorsLogged, stepFailed
  <2> QED BY <1>17, <2>1, <2>2, <2>3, <2>4, <2>5
<1>18. CASE closeHttp \/ closeHttpTimesOut
  BY <1>0, <1>18
  DEF ProcessInv, CloseInv, StageInv, FaultInv, failedBoots, slipped, stepsBehind, cleanup,
      context, ProcessTypeOK, ShortSteps, Short, WellWired, closeHttp, alive, stepDone,
      bootVars, probeVars, closeHttpTimesOut, Fault, stepFailed
<1>19. CASE disconnect
  BY <1>0, <1>19
  DEF ProcessInv, CloseInv, StageInv, FaultInv, failedBoots, slipped, stepsBehind, cleanup,
      context, ProcessTypeOK, ShortSteps, Short, WellWired, disconnect, alive, bootVars,
      probeVars
<1>20. CASE disconnectFails
  BY <1>0, <1>20
  DEF ProcessInv, CloseInv, StageInv, FaultInv, failedBoots, slipped, stepsBehind, cleanup,
      context, ProcessTypeOK, ShortSteps, Short, WellWired, disconnectFails, alive, Fault,
      stepFailed, bootVars, probeVars
<1>21. CASE disconnectDone
  BY <1>0, <1>21
  DEF ProcessInv, CloseInv, StageInv, FaultInv, failedBoots, slipped, stepsBehind, cleanup,
      context, ProcessTypeOK, ShortSteps, Short, WellWired, disconnectDone, alive, stepDone,
      bootVars, probeVars
<1>22. CASE shutdownTelemetry
  BY <1>0, <1>22
  DEF ProcessInv, CloseInv, StageInv, FaultInv, failedBoots, slipped, stepsBehind, cleanup,
      context, ProcessTypeOK, ShortSteps, Short, WellWired, shutdownTelemetry, alive, Fault,
      stepFailed, stepDone, bootVars, probeVars
<1>23. CASE processExit
  BY <1>0, <1>23
  DEF ProcessInv, CloseInv, StageInv, FaultInv, failedBoots, slipped, stepsBehind, cleanup,
      context, ProcessTypeOK, ShortSteps, Short, WellWired, processExit, alive, bootVars,
      downVars, probeVars
<1> QED
  BY <1>1, <1>2, <1>3, <1>4, <1>5, <1>6, <1>7, <1>8, <1>9, <1>10, <1>11, <1>12, <1>13, <1>14,
      <1>15, <1>16, <1>17, <1>18, <1>19, <1>20, <1>21, <1>22, <1>23
  DEF ProcessNext, Bootstrap, Shutdown, Failure, Traffic

-----------------------------------------------------------------------------
(* The invariant holds when the process starts, and every step keeps it. *)
LEMMA ProcessStarts == ProcessInit => ProcessInv
<1> USE LifecycleBoundsAssumption
<1> SUFFICES ASSUME ProcessInit PROVE ProcessInv
  OBVIOUS
<1>1. ProcessTypeOK
  <2>1. svc \in Deployed /\ faults \in 0..MaxFaults /\ at \in 1..6 /\ sat \in 1..6
    BY DEF ProcessInit
  <2>2. probe \in [probes[svc] -> {"none", "pending"}]
    BY DEF ProcessInit
  <2> QED BY <2>1, <2>2 DEF ProcessInit, ProcessTypeOK
<1>2. ShortSteps
  BY <1>1, Lengths
<1>3. StageInv
  BY DEF ProcessInit, StageInv, context
<1>4. StepInv
  BY <1>2 DEF ProcessInit, StepInv, ShortSteps, Short
<1>5. FaultInv
  BY DEF ProcessInit, FaultInv, failedBoots, slipped
<1>6. OpenInv
  BY <1>2 DEF ProcessInit, OpenInv, ShortSteps, Short
<1>7. StopInv
  BY DEF ProcessInit, StopInv, inOrder, stepsBehind
<1>8. CloseInv
  BY DEF ProcessInit, CloseInv, stepsBehind
<1> QED
  BY <1>1, <1>3, <1>4, <1>5, <1>6, <1>7, <1>8 DEF ProcessInv

LEMMA ProcessStutters == ProcessInv /\ UNCHANGED processVars => ProcessInv'
<1> SUFFICES ASSUME ProcessInv, UNCHANGED processVars PROVE ProcessInv'
  OBVIOUS
<1> USE DEF processVars, bootVars, downVars, probeVars, ProcessInv
<1>1. ProcessTypeOK'
  BY DEF ProcessTypeOK
<1>2. cleanup' = cleanup /\ context' = context
  BY DEF cleanup, context
<1>3. StageInv' /\ FaultInv'
  BY <1>2 DEF StageInv, FaultInv, failedBoots, slipped
<1>4. StepInv'
  BY <1>2 DEF StepInv
<1>5. OpenInv'
  BY DEF OpenInv, Connects, channelsOf
<1>6. StopInv'
  BY <1>2 DEF StopInv, inOrder, stepsBehind, Stopped
<1>7. CloseInv'
  BY <1>2 DEF CloseInv, stepsBehind
<1> QED
  BY <1>1, <1>3, <1>4, <1>5, <1>6, <1>7

LEMMA ProcessStepKeeps == ProcessInv /\ [ProcessNext]_processVars => ProcessInv'
<1>1. ASSUME ProcessInv, ProcessNext PROVE ProcessInv'
  <2>1. ProgressTypes' /\ OtherTypes'
    BY <1>1, ProgressTypesStep, OtherTypesStep
  <2>2. ProcessTypeOK'
    BY <2>1 DEF ProcessTypeOK, ProgressTypes, OtherTypes
  <2> QED
    BY <1>1, <2>2, StageStep, StepStep, FaultStep, OpenStep, StopStep, CloseStep DEF ProcessInv
<1> QED
  BY <1>1, ProcessStutters

LEMMA ProcessAlways == ProcessSpec => []ProcessInv
BY ProcessStarts, ProcessStepKeeps, PTL DEF ProcessSpec

(* Where bootstrap and shutdown stand, what they run, opened and answered  *)
(* keep their types: no list of steps is ever left behind its end          *)
(* (startServer.ts, runBootstrap.ts).                                      *)
THEOREM ProcessTypes == ProcessSpec => []ProcessTypeOK
<1>1. ProcessInv => ProcessTypeOK
  BY DEF ProcessInv
<1> QED BY <1>1, ProcessAlways, PTL

(* Until the HTTP server is closed nothing was disconnected; after it no   *)
(* worker is at work and no request is served.                             *)
LEMMA ConnectionsInUse == ProcessInv => ClosedWhenUnused
<1> SUFFICES ASSUME ProcessInv, wasReady, alive, faults = 0
             PROVE  /\ \A w \in running : uses[svc][w] \cap Connections \subseteq open
                    /\ request => uses[svc]["http"] \cap Connections \subseteq open
  BY DEF ClosedWhenUnused
<1>1. svc \in Services /\ ProcessTypeOK
  BY DeployedAssumption DEF ProcessInv, ProcessTypeOK
<1>2. ConnectionsWired(svc) /\ WorkersWired(svc) /\ ShortSteps /\ WellWired
  BY <1>1, ConnectionsAreWired, WorkersAreWired, Lengths, Wired
<1>3. boot = "ready" /\ ~hadError /\ down # "hung" /\ down # "no"
  BY <1>1 DEF ProcessInv, StageInv, FaultInv, slipped, failedBoots, ProcessTypeOK
<1>4. running \subseteq workersOf(svc) /\ workersOf(svc) \subseteq DOMAIN uses[svc]
  BY <1>1 DEF ProcessTypeOK, workersOf
<1>5. "http" \in DOMAIN uses[svc]
  BY <1>1 DEF uses, Services, bookingUses, inventoryUses, paymentUses, userUses, adminUses,
      searchUses, notificationUses, gatewayUses
<1>6. CASE down \in {"before", "http"}
  <2>1. \A i \in 1..Len(server[svc].connect) : server[svc].connect[i] \in open
    BY <1>3, <1>6 DEF ProcessInv, OpenInv
  <2>2. \A w \in DOMAIN uses[svc] : uses[svc][w] \cap Connections \subseteq open
    BY <1>2, <2>1 DEF ConnectionsWired
  <2> QED BY <1>4, <1>5, <2>2
<1>7. CASE down \in stepsBehind
  <2>1. \A i \in 1..Len(Stops(svc)) : running \cap Stops(svc)[i] = {}
    BY <1>3, <1>7 DEF ProcessInv, StopInv, inOrder, Stopped, stepsBehind
  <2>2. running = {}
    BY <1>2, <1>4, <2>1 DEF WellWired
  <2>3. ~request
    BY <1>7 DEF ProcessInv, StopInv, StageInv
  <2> QED BY <2>2, <2>3
<1> QED
  BY <1>1, <1>3, <1>6, <1>7 DEF ProcessTypeOK, stepsBehind

(* For every service, as long as no step fails: one that was ready closes  *)
(* no connection under a worker or a request that uses it                  *)
(* (executeShutdown, with beforeShutdown and afterShutdown of each         *)
(* server.ts).                                                             *)
THEOREM ConnectionsOutliveTheirUse == ProcessSpec => []ClosedWhenUnused
BY ConnectionsInUse, ProcessAlways, PTL

(* Whatever is open at the exit had a step that closed it. *)
LEMMA ExitsInv == ProcessInv => ExitIsClean
<1> SUFFICES ASSUME ProcessInv PROVE ExitIsClean
  OBVIOUS
<1>1. ProcessTypeOK /\ ShortSteps /\ WellWired
  BY Lengths, Wired DEF ProcessInv
<1>2. ASSUME exit = "0" PROVE open = {}
  <2>1. down = "exit" /\ context /\ ~hadError /\ late = {}
    BY <1>2 DEF ProcessInv, StageInv, context
  <2>2. open \subseteq Connects(svc) \cup channelsOf(svc)
    BY <2>1 DEF ProcessInv, OpenInv
  <2>3. \A i \in 1..Len(Stops(svc)) : open \cap Stops(svc)[i] = {}
    BY <2>1 DEF ProcessInv, StopInv, inOrder, Stopped
  <2>4. \A i \in 1..Len(server[svc].close) : server[svc].close[i] \notin open
    BY <2>1 DEF ProcessInv, CloseInv, cleanup, stepsBehind
  <2>5. ASSUME NEW c \in open PROVE FALSE
    BY <1>1, <2>2, <2>3, <2>4, <2>5 DEF WellWired
  <2> QED BY <2>5
<1>3. ASSUME exit = "0", wasReady, svc # "search" PROVE running = {}
  <2>1. down = "exit" /\ ~hadError
    BY <1>3 DEF ProcessInv, StageInv
  <2>2. \A i \in 1..Len(Stops(svc)) : running \cap Stops(svc)[i] = {}
    BY <1>3, <2>1 DEF ProcessInv, StopInv, inOrder, Stopped
  <2> QED BY <1>1, <2>2 DEF ProcessTypeOK, WellWired
<1>4. ASSUME exit = "1", boot \in {"failed", "failedAfter"}, faults = 1
      PROVE  open \subseteq late
  <2>1. down = "exit" /\ ~hadError
    BY <1>1, <1>4 DEF ProcessInv, StageInv, FaultInv, failedBoots, slipped, ProcessTypeOK
  <2>2. \A i \in 1..Len(cleanup) : cleanup[i] \notin open \ late
    BY <1>4, <2>1 DEF ProcessInv, CloseInv, stepsBehind
  <2>3. CASE boot = "failed"
    <3>1. cleanup = server[svc].fallback
      BY <2>3 DEF cleanup, context
    <3>2. open \subseteq Connects(svc) \cup late
      BY <2>3 DEF ProcessInv, OpenInv
    <3>3. ASSUME NEW c \in open \ late PROVE FALSE
      BY <1>1, <2>2, <3>1, <3>2, <3>3 DEF WellWired
    <3> QED BY <3>3
  <2>4. CASE boot = "failedAfter"
    <3>1. context /\ cleanup = server[svc].close
      BY <2>4 DEF cleanup, context
    <3>2. open \subseteq Connects(svc) \cup channelsOf(svc) \cup late
      BY DEF ProcessInv, OpenInv
    <3>3. \A i \in 1..Len(Stops(svc)) : open \cap Stops(svc)[i] = {}
      BY <2>1, <3>1 DEF ProcessInv, StopInv, inOrder, Stopped
    <3>4. ASSUME NEW c \in open \ late PROVE FALSE
      BY <1>1, <2>2, <3>1, <3>2, <3>3, <3>4 DEF WellWired
    <3> QED BY <3>4
  <2> QED BY <1>4, <2>3, <2>4
<1> QED
  BY <1>2, <1>3, <1>4 DEF ExitIsClean

(* For every service and any number of faults: exit code 0 means that      *)
(* every connection and channel is closed and, after a complete bootstrap, *)
(* that no worker is left (but for the search service, which only logs a   *)
(* failed stop), and a failed bootstrap that met no other fault leaves     *)
(* nothing open but what came up after it was given up (executeShutdown    *)
(* and onFailure of runBootstrap).                                         *)
THEOREM ExitsAreClean == ProcessSpec => []ExitIsClean
BY ExitsInv, ProcessAlways, PTL
=============================================================================
